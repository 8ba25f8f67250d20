------------------------------ MODULE EpicsDma ------------------------------
(***************************************************************************)
(* The DMA calls of EPICS (gtrSup/gtr/epicsDma.c) on the Universe driver.   *)
(* Every handler is used by one task, as every card of GTR has its own; a   *)
(* task makes one call at a time, and after a start without wait it lets    *)
(* its callback come before it starts again.                                *)
(***************************************************************************)
EXTENDS UniverseDma

CONSTANT Kinds          \* the calls tasks make: "wait" (...AndWait), "start"

ASSUME KindsAssumption == Kinds \subseteq {"wait", "start"}

VARIABLES
    pc,                 \* where the task of every handler is
    waiting,            \* epicsDmaInfo.waiting
    event               \* epicsDmaInfo.eventId: none until it is created

epicsVars == <<pc, waiting, event>>
vars == <<universeVars, epicsVars>>

\* "wait": in epicsEventWait; "flying": started without wait, no callback yet.
Places == {"idle", "lock", "go", "lockStart", "goStart", "wait", "flying"}

\* The types, and that the callback signals no event before it is created
\* (epicsEventSignal of a null event would be "wild").
TypeOK ==
    /\ UniverseTypeOK
    /\ pc \in [Ids -> Places]
    /\ waiting \in [Ids -> BOOLEAN]
    /\ event \in [Ids -> {"none", "empty", "full"}]

\* epicsDmaCreate sets eventId but leaves waiting as malloc found it.
Init ==
    /\ UniverseInit
    /\ pc = [u \in Ids |-> "idle"]
    /\ waiting \in [Ids -> BOOLEAN]
    /\ event = [u \in Ids |-> "none"]

Goto(u, from, to) == pc[u] = from /\ pc' = [pc EXCEPT ![u] = to]

Entry(k)  == IF k = "wait" THEN "lock" ELSE "lockStart"
Locked(k) == IF k = "wait" THEN "go" ELSE "goStart"
Off(k)    == IF k = "wait" THEN "wait" ELSE "flying"

-----------------------------------------------------------------------------
(* epicsDmaFromVme, epicsDmaToVme and their AndWait *)

\* Variant: the event is left for later.
PrepareWait_NoEvent(u, k) ==
    /\ waiting' = [waiting EXCEPT ![u] = @ \/ k = "wait"]
    /\ UNCHANGED event
\* The first AndWait of a handler creates its event, which is never destroyed.
PrepareWait(u, k) ==
    IF k = "wait"
    THEN /\ event' = [event EXCEPT ![u] = IF @ = "none" THEN "empty" ELSE @]
         /\ waiting' = [waiting EXCEPT ![u] = TRUE]
    ELSE UNCHANGED <<event, waiting>>

\* The call as far as the lock; no other task or interrupt looks at this yet.
Begin(u, k) ==
    /\ Goto(u, "idle", Entry(k))
    /\ PrepareWait(u, k)
    /\ StartReset(u)
    /\ UNCHANGED <<lock, inProgress, engine>>

\* The start refuses an illegal width or address space; waiting stays set.
Refused(u, k) ==
    /\ pc[u] = "idle"
    /\ PrepareWait(u, k)
    /\ StartReset(u)
    /\ UNCHANGED <<lock, inProgress, engine, pc>>

Take(u, k)  == Goto(u, Entry(k), Locked(k)) /\ StartLock(u) /\ UNCHANGED <<waiting, event>>
Go(u, k)    == Goto(u, Locked(k), Off(k)) /\ StartGo(u) /\ UNCHANGED <<waiting, event>>
Fails(u, k) == Goto(u, Locked(k), "idle") /\ StartFails(u) /\ UNCHANGED <<waiting, event>>

\* epicsEventWait returns, and the call with it.
Wake(u) ==
    /\ Goto(u, "wait", "idle")
    /\ event[u] = "full"
    /\ event' = [event EXCEPT ![u] = "empty"]
    /\ UNCHANGED <<universeVars, waiting>>

-----------------------------------------------------------------------------
(* The interrupt and the callback it makes *)

Signal(u) == IF event[u] = "none" THEN "wild" ELSE "full"

\* myCallback, called by the interrupt; a task that only started learns it.
Interrupt ==
    /\ Isr
    /\ event' = [u \in Ids |->
           IF u = inProgress /\ waiting[u] THEN Signal(u) ELSE event[u]]
    /\ waiting' = [u \in Ids |-> waiting[u] /\ u # inProgress]
    /\ pc' = [u \in Ids |->
           IF u = inProgress /\ pc[u] = "flying" THEN "idle" ELSE pc[u]]

Engine == EngineEnds /\ UNCHANGED epicsVars

Step(u, k) == Take(u, k) \/ Go(u, k) \/ Fails(u, k)

Next ==
    \/ \E u \in Ids, k \in Kinds : Begin(u, k) \/ Refused(u, k)
    \/ \E u \in Ids, k \in Kinds : Step(u, k)
    \/ \E u \in Ids : Wake(u)
    \/ Interrupt
    \/ Engine

Spec == Init /\ [][Next]_vars

\* Tasks that can run do, the lock is given to whoever waits for it, and the
\* engine and its interrupt come to an end.
Fairness ==
    /\ \A u \in Ids, k \in Kinds : SF_vars(Take(u, k)) /\ WF_vars(Step(u, k))
    /\ \A u \in Ids : WF_vars(Wake(u))
    /\ WF_vars(Interrupt) /\ WF_vars(Engine)

FairSpec == Spec /\ Fairness

-----------------------------------------------------------------------------
(* Properties *)

\* While the engine works, or has its interrupt pending, the lock is taken and
\* inProgress is the request it works for: a result goes to its own caller,
\* though the lock is given back by an interrupt and not by its taker.
ResultHasOwner == engine.state # "idle" => lock /\ inProgress = engine.of

\* "Start a DMA transaction from a VME module and wait for completion": a
\* call that may return has its transfer behind it and its result in status.
WaitsForTransfer ==
    \A u \in Ids : pc[u] = "wait" /\ event[u] = "full" =>
        engine.of # u /\ status[u] # "EINVAL"

\* Every call that gets past its checks comes back.
EveryCallReturns == \A u \in Ids : pc[u] = "lock" ~> pc[u] = "idle"

\* The AndWait calls, on this driver, are the service promised.
CallOf(u) ==
    IF pc[u] = "idle" THEN "none"
    ELSE IF pc[u] = "wait" THEN IF event[u] = "full" THEN "over" ELSE "moving"
    ELSE "asked"
calls == [u \in Ids |-> CallOf(u)]
results == [u \in Ids |-> IF CallOf(u) = "over" THEN status[u] ELSE "none"]
Service == INSTANCE DmaService WITH call <- calls, result <- results
ImplementsService == Service!ServiceSpec
=============================================================================
