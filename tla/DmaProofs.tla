------------------------------ MODULE DmaProofs ------------------------------
(***************************************************************************)
(* Proofs about EpicsDma, for any number of handlers.  The ownership of the *)
(* engine holds whatever calls the tasks make; that a call waits for its    *)
(* own transfer, and that the calls implement DmaService, holds for tasks   *)
(* that make no call without wait: after a failed start such a call signals *)
(* the event of a task that is not waiting.                                 *)
(***************************************************************************)
EXTENDS EpicsDma, TLAPS

Types == UniverseTypeOK /\ pc \in [Ids -> Places]

\* Whoever is between the lock and the start of its transfer owns both; an
\* idle engine works for nobody.
StarterOwns ==
    \A u \in Ids : pc[u] \in {"go", "goStart"} =>
        lock /\ inProgress = u /\ engine.state = "idle"
IdleForNobody == engine.state = "idle" => engine.of = NoId
BusyForSomebody == engine.state # "idle" => engine.of \in Ids

Ownership ==
    Types /\ StarterOwns /\ IdleForNobody /\ BusyForSomebody /\ ResultHasOwner

LEMMA OwnershipInit == Init => Ownership
<1> SUFFICES ASSUME Init PROVE Ownership
  OBVIOUS
<1> USE DEF Init, UniverseInit, NoTransfer
<1>1. Types
  BY DEF Types, UniverseTypeOK, Places, EngineStates
<1>2. StarterOwns /\ IdleForNobody /\ BusyForSomebody /\ ResultHasOwner
  BY DEF StarterOwns, IdleForNobody, BusyForSomebody, ResultHasOwner
<1> QED
  BY <1>1, <1>2 DEF Ownership

\* Every step keeps the engine with its owner: the lock is taken before the
\* request is written, and given back only by the owner's interrupt or by the
\* owner's failed start.
LEMMA OwnershipStep == Ownership /\ [Next]_vars => Ownership'
<1> SUFFICES ASSUME Ownership, [Next]_vars PROVE Ownership'
  OBVIOUS
<1> USE DEF Ownership, Types, UniverseTypeOK, Places, EngineStates, DmaStatus,
        StarterOwns, IdleForNobody, BusyForSomebody, ResultHasOwner
<1>1. ASSUME NEW u \in Ids, NEW k \in Kinds, Begin(u, k) PROVE Ownership'
  BY <1>1, KindsAssumption DEF Begin, Goto, StartReset, Entry
<1>2. ASSUME NEW u \in Ids, NEW k \in Kinds, Refused(u, k) PROVE Ownership'
  BY <1>2 DEF Refused, StartReset
<1>3. ASSUME NEW u \in Ids, NEW k \in Kinds, Take(u, k) PROVE Ownership'
  BY <1>3, KindsAssumption DEF Take, Goto, StartLock, Entry, Locked
<1>4. ASSUME NEW u \in Ids, NEW k \in Kinds, Go(u, k) PROVE Ownership'
  BY <1>4, KindsAssumption, DmaAssumption DEF Go, Goto, StartGo, Locked, Off
<1>5. ASSUME NEW u \in Ids, NEW k \in Kinds, Fails(u, k) PROVE Ownership'
  BY <1>5, KindsAssumption DEF Fails, Goto, StartFails, Locked
<1>6. ASSUME NEW u \in Ids, Wake(u) PROVE Ownership'
  BY <1>6 DEF Wake, Goto, universeVars
<1>7. ASSUME Interrupt PROVE Ownership'
  BY <1>7, DmaAssumption DEF Interrupt, Isr, Interrupting, NoTransfer
<1>8. ASSUME Engine PROVE Ownership'
  BY <1>8 DEF Engine, EngineEnds, epicsVars
<1>9. ASSUME UNCHANGED vars PROVE Ownership'
  BY <1>9 DEF vars, universeVars, epicsVars
<1> QED
  BY <1>1, <1>2, <1>3, <1>4, <1>5, <1>6, <1>7, <1>8, <1>9 DEF Next, Step

\* A result goes to the request the engine worked for, for every mix of calls.
THEOREM ResultOwned == Spec => []ResultHasOwner
<1>1. Ownership => ResultHasOwner
  BY DEF Ownership
<1> QED
  BY <1>1, OwnershipInit, OwnershipStep, PTL DEF Spec

-----------------------------------------------------------------------------
(* Tasks that only wait *)

WaitTypes ==
    /\ pc \in [Ids -> {"idle", "lock", "go", "wait"}]
    /\ waiting \in [Ids -> BOOLEAN]
    /\ event \in [Ids -> {"none", "empty", "full"}]

\* A call that has not slept finds its event empty and has announced itself;
\* its event is filled by the interrupt of its own transfer, once.
NotLeftFull == \A u \in Ids : pc[u] = "idle" => event[u] # "full"
Announced ==
    \A u \in Ids : pc[u] \in {"lock", "go"} => waiting[u] /\ event[u] = "empty"
Asleep ==
    \A u \in Ids : pc[u] = "wait" /\ engine.of = u => waiting[u] /\ event[u] = "empty"
Served ==
    \A u \in Ids : pc[u] = "wait" /\ engine.of # u =>
        event[u] = "full" /\ status[u] # "EINVAL"
EngineForSleeper == \A u \in Ids : engine.of = u => pc[u] = "wait"

Waits ==
    /\ Ownership /\ WaitTypes
    /\ NotLeftFull /\ Announced /\ Asleep /\ Served /\ EngineForSleeper

LEMMA WaitsInit == Init => Waits
<1> SUFFICES ASSUME Init PROVE Waits
  OBVIOUS
<1> USE DEF Init, UniverseInit, NoTransfer
<1>1. WaitTypes
  BY DEF WaitTypes
<1>2. NotLeftFull /\ Announced /\ Asleep /\ Served /\ EngineForSleeper
  BY DmaAssumption DEF NotLeftFull, Announced, Asleep, Served, EngineForSleeper
<1> QED
  BY <1>1, <1>2, OwnershipInit DEF Waits

\* Every step of tasks that only wait keeps the calls apart.
LEMMA WaitsStep ==
  ASSUME Kinds \subseteq {"wait"}
  PROVE  Waits /\ [Next]_vars => Waits'
<1> SUFFICES ASSUME Waits, [Next]_vars PROVE Waits'
  OBVIOUS
<1>0. Ownership'
  BY OwnershipStep DEF Waits
<1> USE DEF Waits, Ownership, Types, UniverseTypeOK, DmaStatus, EngineStates,
        StarterOwns, IdleForNobody, BusyForSomebody, ResultHasOwner,
        WaitTypes, NotLeftFull, Announced, Asleep, Served, EngineForSleeper
<1> DEFINE Kept == WaitTypes /\ NotLeftFull /\ Announced /\ Asleep /\ Served /\ EngineForSleeper
<1>1. ASSUME NEW u \in Ids, NEW k \in Kinds, Begin(u, k) PROVE Kept'
  <2>1. /\ pc[u] = "idle" /\ waiting' = [waiting EXCEPT ![u] = TRUE]
        /\ event' \in [Ids -> {"none", "empty", "full"}] /\ event'[u] = "empty"
        /\ \A v \in Ids \ {u} : event'[v] = event[v]
    BY <1>1 DEF Begin, Goto, PrepareWait, StartReset, Entry
  <2> QED
    BY <1>1, <2>1 DEF Begin, Goto, StartReset, Entry
<1>2. ASSUME NEW u \in Ids, NEW k \in Kinds, Refused(u, k) PROVE Kept'
  <2>1. /\ pc[u] = "idle" /\ waiting' = [waiting EXCEPT ![u] = TRUE]
        /\ event' \in [Ids -> {"none", "empty", "full"}] /\ event'[u] = "empty"
        /\ \A v \in Ids \ {u} : event'[v] = event[v]
    BY <1>2 DEF Refused, PrepareWait, StartReset
  <2> QED
    BY <1>2, <2>1 DEF Refused, StartReset
<1>3. ASSUME NEW u \in Ids, NEW k \in Kinds, Take(u, k) PROVE Kept'
  BY <1>3 DEF Take, Goto, StartLock, Entry, Locked
<1>4. ASSUME NEW u \in Ids, NEW k \in Kinds, Go(u, k) PROVE Kept'
  BY <1>4, DmaAssumption DEF Go, Goto, StartGo, Locked, Off
<1>5. ASSUME NEW u \in Ids, NEW k \in Kinds, Fails(u, k) PROVE Kept'
  BY <1>5, DmaAssumption DEF Fails, Goto, StartFails, Locked
<1>6. ASSUME NEW u \in Ids, Wake(u) PROVE Kept'
  BY <1>6 DEF Wake, Goto, universeVars
<1>7. ASSUME Interrupt PROVE Kept'
  BY <1>7, DmaAssumption DEF Interrupt, Isr, Interrupting, NoTransfer, Signal
<1>8. ASSUME Engine PROVE Kept'
  BY <1>8 DEF Engine, EngineEnds, epicsVars
<1>9. ASSUME UNCHANGED vars PROVE Kept'
  BY <1>9 DEF vars, universeVars, epicsVars
<1>10. Kept'
  BY <1>1, <1>2, <1>3, <1>4, <1>5, <1>6, <1>7, <1>8, <1>9 DEF Next, Step
<1> HIDE DEF WaitTypes, NotLeftFull, Announced, Asleep, Served, EngineForSleeper, Ownership
<1> QED
  BY <1>0, <1>10

LEMMA WaitsAlways ==
  ASSUME Kinds \subseteq {"wait"}
  PROVE  Spec => []Waits
  BY WaitsInit, WaitsStep, PTL DEF Spec

\* The types; in particular no event is signalled before it is created,
\* though epicsDmaCreate does not clear waiting.
THEOREM DmaTypeCorrect ==
  ASSUME Kinds \subseteq {"wait"}
  PROVE  Spec => []TypeOK
<1>1. Waits => TypeOK
  BY DEF Waits, Ownership, Types, WaitTypes, TypeOK, Places
<1> QED
  BY <1>1, WaitsAlways, PTL

\* A call that may return has its own transfer behind it.
THEOREM CallWaits ==
  ASSUME Kinds \subseteq {"wait"}
  PROVE  Spec => []WaitsForTransfer
<1>1. Waits => WaitsForTransfer
  BY DEF Waits, Asleep, Served, WaitsForTransfer, Ownership, Types
<1> QED
  BY <1>1, WaitsAlways, PTL
-----------------------------------------------------------------------------
(* The calls implement DmaService *)

LEMMA ServiceInitially == Init => Service!ServiceInit
  BY DEF Init, Service!ServiceInit, calls, results, CallOf

\* What a step does to the calls, when it concerns one of them.
LEMMA CallMoves ==
  ASSUME NEW u \in Ids,
         \A v \in Ids \ {u} : pc'[v] = pc[v] /\ event'[v] = event[v],
         \A v \in Ids \ {u} : status'[v] = status[v]
  PROVE  /\ calls' = [calls EXCEPT ![u] = CallOf(u)']
         /\ results' = [results EXCEPT ![u] =
                           IF CallOf(u)' = "over" THEN status'[u] ELSE "none"]
<1>1. \A v \in Ids \ {u} : CallOf(v)' = CallOf(v)
  BY DEF CallOf
<1> QED
  BY <1>1 DEF calls, results

\* Every step of tasks that only wait is a step of the service, or none.
LEMMA ServiceStep ==
  ASSUME Kinds \subseteq {"wait"}, Waits, [Next]_vars
  PROVE  Service!ServiceNext \/ UNCHANGED <<calls, results>>
<1> USE DEF Waits, Ownership, Types, UniverseTypeOK, DmaStatus, WaitTypes
<1>0. \A u \in Ids : /\ calls[u] = CallOf(u)
                     /\ results[u] = IF CallOf(u) = "over" THEN status[u] ELSE "none"
  BY DEF calls, results
<1>e. \A u \in Ids : CallOf(u) # "over" => results = [results EXCEPT ![u] = "none"]
  BY DEF results
<1>1. ASSUME NEW u \in Ids, NEW k \in Kinds, Begin(u, k) PROVE Service!Ask(u)
  <2>1. CallOf(u) = "none" /\ CallOf(u)' = "asked"
    BY <1>1 DEF Begin, Goto, Entry, CallOf
  <2>2. calls' = [calls EXCEPT ![u] = "asked"] /\ results' = [results EXCEPT ![u] = "none"]
    <3>1. \A v \in Ids \ {u} :
            pc'[v] = pc[v] /\ event'[v] = event[v] /\ status'[v] = status[v]
      BY <1>1 DEF Begin, Goto, PrepareWait, StartReset
    <3> QED
      BY <2>1, <3>1, CallMoves
  <2> QED
    BY <2>1, <2>2, <1>0, <1>e DEF Service!Ask, Service!Step
<1>2. ASSUME NEW u \in Ids, NEW k \in Kinds, Refused(u, k)
      PROVE  UNCHANGED <<calls, results>>
  <2>1. /\ pc' = pc /\ pc[u] = "idle"
        /\ \A v \in Ids \ {u} : event'[v] = event[v] /\ status'[v] = status[v]
    BY <1>2 DEF Refused, PrepareWait, StartReset
  <2> QED
    BY <2>1 DEF calls, results, CallOf
<1>3. ASSUME NEW u \in Ids, NEW k \in Kinds, Take(u, k)
      PROVE  UNCHANGED <<calls, results>>
  BY <1>3 DEF Take, Goto, StartLock, Entry, Locked, calls, results, CallOf
<1>4. ASSUME NEW u \in Ids, NEW k \in Kinds, Go(u, k) PROVE Service!Move(u)
  <2>1. CallOf(u) = "asked" /\ CallOf(u)' = "moving"
    BY <1>4 DEF Go, Goto, Locked, Off, CallOf, Announced
  <2>2. calls' = [calls EXCEPT ![u] = "moving"] /\ results' = [results EXCEPT ![u] = "none"]
    <3>1. \A v \in Ids \ {u} :
            pc'[v] = pc[v] /\ event'[v] = event[v] /\ status'[v] = status[v]
      BY <1>4 DEF Go, Goto, StartGo
    <3> QED
      BY <2>1, <3>1, CallMoves
  <2>3. \A v \in Ids : CallOf(v) # "moving"
    <3>1. engine.of = NoId
      BY <1>4 DEF Go, StartGo, IdleForNobody
    <3> QED
      BY <3>1, DmaAssumption DEF Served, CallOf
  <2> QED
    BY <2>1, <2>2, <2>3, <1>0, <1>e DEF Service!Move, Service!Step
<1>5. ASSUME NEW u \in Ids, NEW k \in Kinds, Fails(u, k) PROVE Service!Refuse(u)
  <2>1. CallOf(u) = "asked" /\ CallOf(u)' = "none"
    BY <1>5 DEF Fails, Goto, Locked, CallOf
  <2>2. calls' = [calls EXCEPT ![u] = "none"] /\ results' = [results EXCEPT ![u] = "none"]
    <3>1. \A v \in Ids \ {u} :
            pc'[v] = pc[v] /\ event'[v] = event[v] /\ status'[v] = status[v]
      BY <1>5 DEF Fails, Goto, StartFails
    <3> QED
      BY <2>1, <3>1, CallMoves
  <2> QED
    BY <2>1, <2>2, <1>0, <1>e DEF Service!Refuse, Service!Step
<1>6. ASSUME NEW u \in Ids, Wake(u) PROVE Service!Return(u)
  <2>1. CallOf(u) = "over" /\ CallOf(u)' = "none"
    BY <1>6 DEF Wake, Goto, CallOf
  <2>2. calls' = [calls EXCEPT ![u] = "none"] /\ results' = [results EXCEPT ![u] = "none"]
    <3>1. \A v \in Ids \ {u} :
            pc'[v] = pc[v] /\ event'[v] = event[v] /\ status'[v] = status[v]
      BY <1>6 DEF Wake, Goto, universeVars
    <3> QED
      BY <2>1, <3>1, CallMoves
  <2> QED
    BY <2>1, <2>2, <1>0 DEF Service!Return, Service!Step
<1>7. ASSUME NEW u \in Ids, u = inProgress, Interrupt PROVE Service!End(u)
  <2>1. engine.of = u /\ pc[u] = "wait" /\ waiting[u] /\ event[u] = "empty"
    BY <1>7 DEF Interrupt, Isr, Interrupting, ResultHasOwner, EngineForSleeper, Asleep
  <2>2. /\ pc' = pc /\ event'[u] = "full" /\ status'[u] \in {"OK", "EIO"}
        /\ \A v \in Ids \ {u} : event'[v] = event[v] /\ status'[v] = status[v]
    BY <1>7, <2>1 DEF Interrupt, Isr, Signal, EngineForSleeper
  <2>3. CallOf(u) = "moving" /\ CallOf(u)' = "over"
    BY <2>1, <2>2 DEF CallOf
  <2>4. calls' = [calls EXCEPT ![u] = "over"] /\ results' = [results EXCEPT ![u] = status'[u]]
    BY <2>2, <2>3, CallMoves
  <2> QED
    BY <2>2, <2>3, <2>4, <1>0 DEF Service!End, Service!Step, Service!Outcomes
<1>8. ASSUME Engine \/ UNCHANGED vars PROVE UNCHANGED <<calls, results>>
  BY <1>8 DEF Engine, EngineEnds, vars, universeVars, epicsVars, calls, results, CallOf
<1>9. Interrupt => inProgress \in Ids
  BY DEF Interrupt, Isr, Interrupting, ResultHasOwner, BusyForSomebody
<1> QED
  BY <1>1, <1>2, <1>3, <1>4, <1>5, <1>6, <1>7, <1>8, <1>9 DEF Next, Step, Service!ServiceNext

\* epicsDmaFromVmeAndWait and epicsDmaToVmeAndWait keep the promise of
\* DmaService: one transfer at a time, and the caller gets its own result.
THEOREM CallsImplementService ==
  ASSUME Kinds \subseteq {"wait"}
  PROVE  Spec => ImplementsService
<1>1. Waits /\ [Next]_vars => [Service!ServiceNext]_<<calls, results>>
  BY ServiceStep
<1> QED
  BY <1>1, ServiceInitially, WaitsAlways, PTL DEF Spec, ImplementsService, Service!ServiceSpec
=============================================================================
