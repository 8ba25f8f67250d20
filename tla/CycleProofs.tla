---------------------------- MODULE CycleProofs ----------------------------
(***************************************************************************)
(* Proofs about GtrCard if its clients wait for a cycle under way, for any  *)
(* number of tasks, any card and any values of the records.                 *)
(*                                                                          *)
(* A cycle is a token.  It is held by a request that will arm the card, by  *)
(* the card while it is armed or has an interrupt pending, by an entry of   *)
(* the callback ring buffer, or by the callback task: by one of them at a   *)
(* time, although only the first ever holds the card's lock.                *)
(***************************************************************************)
EXTENDS GtrCardProofs, SequenceTheorems

Arms(request) == \/ request.rec = "autoRestart"
                 \/ request.rec = "arm" /\ request.val # armDisarm

\* A thread that has a request to arm the card, and has not written ARMR yet.
Armer(t) == pc[t] \in {"lock", "call"} \cup ArmSteps /\ Arms(req[t])

CbBusy == pc[Cb] \in CbOnly

OneArmer == \A t, u \in Threads : Armer(t) /\ Armer(u) => t = u
Disarms  == \A t \in Threads : pc[t] \in ArmSteps /\ ~Armer(t) => arm = armDisarm
Waiting  == (CbBusy \/ queue # <<>>) => \A t \in Threads : ~Armer(t)
Still    == CbBusy \/ queue # <<>> \/ (\E t \in Threads : Armer(t)) =>
                ~hw.armed /\ ~hw.irq
OneEntry == Len(queue) <= 1 /\ (CbBusy => queue = <<>>)

Token == OneArmer /\ Disarms /\ Waiting /\ Still /\ OneEntry

LEMMA TokenInit == Init => Token
<1> SUFFICES ASSUME Init PROVE Token
  OBVIOUS
<1>1. \A t \in Threads : pc[t] = "idle" /\ ~Armer(t) /\ pc[t] \notin ArmSteps
  BY DEF Init, Armer, ArmSteps
<1>2. ~CbBusy
  BY <1>1 DEF CbBusy, CbOnly, Reading, Scanning, Threads
<1> QED BY <1>1, <1>2 DEF Init, Token, OneArmer, Disarms, Waiting, Still, OneEntry

\* A step after which whoever is an armer was one before.
LEMMA FewerArmers ==
    ASSUME Token, \A t \in Threads : Armer(t)' => Armer(t),
           \A t \in Threads : pc'[t] \in ArmSteps /\ ~Armer(t)' => arm' = armDisarm,
           CbBusy' => CbBusy \/ queue # <<>>,
           queue' # <<>> => CbBusy \/ queue # <<>>,
           OneEntry',
           hw'.armed => hw.armed, hw'.irq => hw.irq \/ hw.armed
    PROVE  Token'
BY DEF Token, OneArmer, Disarms, Waiting, Still

\* Putting to a record: only a quiet card is asked to arm.
LEMMA PutToken ==
    ASSUME OperatorWaits, TypeOK, Token,
           NEW t \in Clients, NEW r \in Records, NEW v, Put(t, r, v)
    PROVE  Token'
<1>1. /\ t \in Threads /\ pc[t] = "idle" /\ UNCHANGED <<arm, hw, queue>>
      /\ Goto(t, "lock") /\ req' = [req EXCEPT ![t] = [rec |-> r, val |-> v]]
  BY DEF Put, Threads, cardVars
<1>2. pc'[t] = "lock" /\ \A u \in Threads \ {t} : pc'[u] = pc[u]
  BY <1>1, Moved
<1>3. req'[t] = [rec |-> r, val |-> v] /\ \A u \in Threads \ {t} : req'[u] = req[u]
  BY <1>1 DEF TypeOK, DevTypeOK
<1>4. \A u \in Threads \ {t} : Armer(u)' <=> Armer(u)
  BY <1>2, <1>3 DEF Armer, Arms
<1>5. t # Cb /\ Cb \in Threads
  BY GtrAssumption DEF Threads
<1>6. CbBusy' <=> CbBusy
  BY <1>2, <1>5 DEF CbBusy
<1>7. pc'[t] \notin ArmSteps
  BY <1>2 DEF ArmSteps
<1>8. OneEntry'
  BY <1>1, <1>6 DEF Token, OneEntry
<1>9. CASE ~Armer(t)'
  BY <1>1, <1>2, <1>4, <1>6, <1>7, <1>8, <1>9, FewerArmers DEF Token, Disarms
<1>10. CASE Armer(t)'
  <2>1. Quiet
    <3>1. r = "autoRestart" \/ (r = "arm" /\ v # armDisarm)
      BY <1>3, <1>10 DEF Armer, Arms
    <3> QED BY <3>1 DEF Put, Allowed
  <2>2. \A u \in Threads : ~Armer(u) /\ pc[u] \notin ArmSteps
    BY <2>1 DEF Quiet, Armer, ArmSteps
  <2>3. ~CbBusy /\ queue = <<>> /\ ~hw.armed /\ ~hw.irq
    BY <1>5, <2>1 DEF Quiet, CbBusy, CbOnly, Reading, Scanning
  <2> QED
    BY <1>1, <1>2, <1>4, <1>6, <1>7, <1>8, <2>2, <2>3
       DEF Token, OneArmer, Disarms, Waiting, Still
<1> QED BY <1>9, <1>10

\* Taking the lock, a driver call, Unlock: one thread moves, and it keeps its
\* request as long as it has one.
LEMMA WriteMoves ==
    ASSUME TypeOK, NEW t \in Threads, Lock(t) \/ Write(t)
    PROVE  /\ UNCHANGED queue
           /\ pc'[t] \in {"call", "unlock", "suspended", "idle"} \cup ArmSteps
           /\ pc'[t] # "idle" => pc[t] \in {"lock", "call"} \cup ArmSteps /\ req' = req
           /\ \A u \in Threads \ {t} : pc'[u] = pc[u] /\ req'[u] = req[u]
<1>1. /\ UNCHANGED queue
      /\ \E where \in {"call", "unlock", "suspended", "idle"} \cup ArmSteps : Goto(t, where)
      /\ \/ pc[t] \in {"lock", "call"} \cup ArmSteps /\ req' = req
         \/ Goto(t, "idle") /\ \A u \in Threads \ {t} : req'[u] = req[u]
  <2> USE DEF Locked, ArmSteps
  <2>1. CASE Lock(t)
    BY <2>1 DEF Lock
  <2>2. CASE Set(t)
    <3>1. PICK st \in Status : Goto(t, IF st = "Suspend" THEN "suspended" ELSE "unlock")
      BY <2>2 DEF Set
    <3> QED BY <2>2, <3>1 DEF Set, Calling
  <2>3. CASE SoftTrigger(t) \/ Arm(t) \/ Restart(t)
    BY <2>3, Zenon DEF SoftTrigger, Arm, Restart, StartArm, Calling
  <2>4. CASE WriteDisarm(t) \/ WriteSetup(t) \/ WriteArm(t)
    BY <2>4, Zenon DEF WriteDisarm, WriteSetup, WriteArm
  <2>5. CASE WriteResetIrq(t)
    BY <2>5 DEF WriteResetIrq
  <2>6. CASE Unlock(t)
    BY <2>6 DEF Unlock, TypeOK, DevTypeOK
  <2> QED BY <2>1, <2>2, <2>3, <2>4, <2>5, <2>6 DEF Write
<1>2. PICK where \in {"call", "unlock", "suspended", "idle"} \cup ArmSteps : Goto(t, where)
  BY <1>1
<1>3. pc'[t] = where /\ \A u \in Threads \ {t} : pc'[u] = pc[u]
  BY <1>2, Moved
<1>4. Goto(t, "idle") => pc'[t] = "idle"
  BY Moved
<1> QED BY <1>1, <1>3, <1>4

\* Taking the lock and everything that is done under it.
LEMMA WriteToken ==
    ASSUME IInv, Token, NEW t \in Threads, Lock(t) \/ Write(t)
    PROVE  Token'
<1>1. UNCHANGED queue
  BY WriteMoves DEF IInv
<1>3. \A u \in Threads \ {t} : pc'[u] = pc[u]
  BY WriteMoves DEF IInv
<1>4. \A u \in Threads \ {t} : req'[u] = req[u] /\ (Armer(u)' <=> Armer(u))
  BY WriteMoves DEF IInv, Armer, Arms
<1>5. Armer(t)' => Armer(t)
  BY WriteMoves DEF IInv, Armer, ArmSteps
<1>6. CbBusy' => CbBusy
  BY <1>3, WriteMoves DEF IInv, CbBusy, CbOnly, Reading, Scanning, ArmSteps, Threads
<1>7. pc'[t] \in ArmSteps => req' = req /\ pc[t] \in {"lock", "call"} \cup ArmSteps
  BY WriteMoves DEF IInv, ArmSteps
<1>8. arm' = arm \/ (pc[t] = "call" /\ (Arm(t) \/ Restart(t)))
  BY DEF Write, Lock, Set, SoftTrigger, Arm, Restart, Calling, WriteDisarm, WriteResetIrq,
         WriteSetup, WriteArm, Unlock, cardVars
<1>9. ASSUME NEW u \in Threads, pc'[u] \in ArmSteps, ~Armer(u)' PROVE arm' = armDisarm
  <2>1. CASE u # t
    <3>1. pc[u] \in ArmSteps /\ ~Armer(u)
      BY <1>3, <1>4, <1>9, <2>1
    <3>2. arm' = arm
      <4>1. pc[t] # "call"
        BY <2>1, <3>1, OnlyOne DEF IInv, Locked
      <4> QED BY <1>8, <4>1
    <3> QED BY <3>1, <3>2 DEF Token, Disarms
  <2>2. CASE u = t
    <3>1. ~Arms(req[t]) /\ req' = req
      BY <1>7, <1>9, <2>2 DEF Armer
    <3>2. CASE ~Arm(t) /\ ~Restart(t)
      <4>1. pc[t] \in {"lock", "call"} \cup ArmSteps
        BY <1>7, <1>9, <2>2
      <4>2. pc[t] \in ArmSteps
        <5>1. CASE Lock(t)
          BY <1>9, <2>2, <5>1, Moved DEF Lock, IInv, ArmSteps
        <5>2. CASE pc[t] = "call"
          <6>1. ~Set(t) /\ ~SoftTrigger(t)
            BY <1>9, <2>2, Moved DEF Set, SoftTrigger, IInv, ArmSteps
          <6> QED BY <3>2, <5>2, <6>1 DEF Lock, Write, WriteDisarm, WriteResetIrq, WriteSetup,
                                          WriteArm, Unlock
        <5>3. CASE pc[t] = "lock"
          BY <5>1, <5>3 DEF Write, Set, SoftTrigger, Arm, Restart, Calling, WriteDisarm,
                            WriteResetIrq, WriteSetup, WriteArm, Unlock
        <5> QED BY <4>1, <5>2, <5>3
      <4>3. ~Armer(t)
        BY <3>1 DEF Armer
      <4> QED BY <1>8, <3>2, <4>2, <4>3 DEF Token, Disarms
    <3>3. CASE Arm(t)
      <4>1. req[t].rec = "arm" /\ req[t].val = armDisarm
        BY <3>1, <3>3 DEF Arm, Calling, Arms
      <4>2. ~Goto(t, "unlock")
        BY <1>9, <2>2, Moved DEF IInv, ArmSteps
      <4> QED BY <3>3, <4>1, <4>2 DEF Arm, StartArm, ArmStore
    <3>4. CASE Restart(t)
      BY <3>1, <3>4 DEF Restart, Calling, Arms
    <3> QED BY <1>8, <3>2, <3>3, <3>4
  <2> QED BY <2>1, <2>2
<1>10. OneEntry'
  BY <1>1, <1>6 DEF Token, OneEntry
<1>11. CASE (hw'.armed => hw.armed) /\ (hw'.irq => hw.irq)
  BY <1>1, <1>4, <1>5, <1>6, <1>9, <1>10, <1>11, FewerArmers
<1>12. CASE WriteArm(t) /\ ~UNCHANGED hw
  <2>1. /\ pc[t] = "go" /\ arm # armDisarm
        /\ Goto(t, "unlock") /\ hw' = [hw EXCEPT !.armed = TRUE]
    BY <1>12 DEF WriteArm, ArmGo, armDisarm, armPostTrigger, armPrePostTrigger
  <2>2. Armer(t)
    BY <2>1 DEF Token, Disarms, ArmSteps
  <2>3. ~Armer(t)'
    BY <2>1, Moved DEF IInv, Armer, ArmSteps
  <2>4. \A u \in Threads : ~Armer(u)'
    BY <1>4, <2>2, <2>3 DEF Token, OneArmer
  <2>5. ~CbBusy' /\ queue' = <<>>
    BY <1>1, <1>6, <2>2 DEF Token, Waiting
  <2> QED BY <1>9, <1>10, <2>4, <2>5 DEF Token, OneArmer, Disarms, Waiting, Still
<1>13. \/ (hw'.armed => hw.armed) /\ (hw'.irq => hw.irq)
       \/ WriteArm(t) /\ ~UNCHANGED hw
  <2>1. hw \in Hardware
    BY DEF IInv, TypeOK, CardTypeOK
  <2>2. CASE UNCHANGED hw
    BY <2>2
  <2>3. CASE SoftTrigger(t)
    BY <2>1, <2>3 DEF SoftTrigger, vtrsoftTrigger, Hardware
  <2>4. CASE WriteDisarm(t) \/ WriteResetIrq(t)
    BY <2>1, <2>4 DEF WriteDisarm, ArmDisarm, Disarmed, WriteResetIrq, ArmResetIrq, Hardware
  <2>5. CASE WriteSetup(t)
    BY <2>1, <2>5 DEF WriteSetup, ArmSetup, Hardware
  <2>6. ASSUME Lock(t) \/ Set(t) \/ Arm(t) \/ Restart(t) \/ Unlock(t) PROVE UNCHANGED hw
    BY <2>6 DEF Lock, Set, Arm, Restart, Unlock, cardVars
  <2> QED BY <2>2, <2>3, <2>4, <2>5, <2>6 DEF Write
<1> QED BY <1>11, <1>12, <1>13

\* The callback task passes the token from the ring buffer to itself, and on
\* to the scan or to its own request to arm again.
LEMMA CallbackToken ==
    ASSUME IInv, Token, Callback
    PROVE  Token'
<1>1. /\ pc[Cb] \notin Locked /\ UNCHANGED <<arm, hw>>
      /\ \E where : where \notin Locked /\ Goto(Cb, where)
  BY CallbackQuiet
<1>2. Cb \in Threads
  BY DEF Threads
<1>3. pc'[Cb] \notin Locked /\ \A u \in Threads \ {Cb} : pc'[u] = pc[u]
  BY <1>1, <1>2, Moved DEF IInv
<1>4. \A u \in Threads \ {Cb} : req'[u] = req[u]
  BY DEF Callback, MyCallback, Scan, Dequeue, ReadMemory, ReadNone, ReadStart, Choose, Group,
         Event, ReadStep, ScanIoRequest, Waveforms, ScanRestart, IInv, TypeOK, DevTypeOK
<1>5. \A u \in Threads \ {Cb} : Armer(u)' <=> Armer(u)
  BY <1>3, <1>4 DEF Armer, Arms
<1>6. CbBusy \/ queue # <<>>
  BY Zenon DEF Callback, MyCallback, Scan, Dequeue, ReadMemory, ReadNone, ReadStart, Choose, Group,
         Event, ReadStep, ScanIoRequest, Waveforms, ScanRestart, CbBusy, CbOnly, Reading, Scanning
<1>7. (\A u \in Threads : ~Armer(u)) /\ ~hw.armed /\ ~hw.irq
  BY <1>6 DEF Token, Waiting, Still
<1>8. OneEntry' /\ (CbBusy' \/ queue' # <<>> => ~Armer(Cb)')
  <2>1. CASE MyCallback \/ Scan
    <3>1. /\ queue # <<>> /\ queue' = Tail(queue) /\ pc[Cb] = "idle"
          /\ \E where \in {"read", "scanRequest", "waveforms"} : Goto(Cb, where)
      BY <2>1 DEF MyCallback, Scan, Dequeue
    <3>2. Len(queue) = 1 /\ queue \in Seq({"read", "scan"})
      <4>1. queue \in Seq({"read", "scan"})
        BY DEF IInv, TypeOK, DevTypeOK
      <4>2. Len(queue) <= 1
        BY DEF Token, OneEntry
      <4>3. Len(queue) \in Nat \ {0}
        BY <3>1, <4>1, EmptySeq
      <4> QED BY <4>1, <4>2, <4>3
    <3>3. queue' = <<>>
      BY <3>1, <3>2, EmptySeq
    <3>4. pc'[Cb] \in {"read", "scanRequest", "waveforms"}
      BY <1>2, <3>1, Moved DEF IInv
    <3> QED BY <3>3, <3>4 DEF OneEntry, Armer, ArmSteps
  <2>2. CASE ReadMemory
    <3>1. queue' = queue /\ pc[Cb] \in Reading
          /\ \E where \in {"scanRequest", "choose", "group", "event"} : Goto(Cb, where)
      BY <2>2 DEF ReadMemory, ReadNone, ReadStart, Choose, Group, Event, ReadStep, Reading
    <3>2. pc'[Cb] \in {"scanRequest", "choose", "group", "event"}
      BY <1>2, <3>1, Moved DEF IInv
    <3>3. queue = <<>>
      BY <3>1 DEF Token, OneEntry, CbBusy, CbOnly
    <3> QED BY <3>1, <3>2, <3>3 DEF OneEntry, Armer, ArmSteps
  <2>3. CASE ScanIoRequest
    <3>1. queue = <<>> /\ queue' = Queued("scan") /\ Goto(Cb, "idle")
      BY <2>3 DEF ScanIoRequest, Token, OneEntry, CbBusy, CbOnly
    <3>2. pc'[Cb] = "idle"
      BY <1>2, <3>1, Moved DEF IInv
    <3>3. Len(queue') <= 1
      BY <3>1 DEF Queued
    <3> QED BY <3>2, <3>3 DEF OneEntry, Armer, ArmSteps, CbBusy, CbOnly, Reading, Scanning
  <2>4. CASE Waveforms \/ ScanRestart
    <3>1. queue = <<>> /\ queue' = queue /\ (Goto(Cb, "restart") \/ Goto(Cb, "lock"))
      BY <2>4 DEF Waveforms, ScanRestart, Token, OneEntry, CbBusy, CbOnly, Scanning
    <3>2. pc'[Cb] = "restart" \/ pc'[Cb] = "lock"
      BY <1>2, <3>1, Moved DEF IInv
    <3> QED BY <3>1, <3>2 DEF OneEntry, Armer, ArmSteps, CbBusy, CbOnly, Reading, Scanning
  <2> QED BY <2>1, <2>2, <2>3, <2>4 DEF Callback
<1>9. \A t \in Threads : pc'[t] \in ArmSteps /\ ~Armer(t)' => arm' = armDisarm
  BY <1>1, <1>3, <1>5 DEF Token, Disarms, Locked
<1> QED BY <1>1, <1>2, <1>5, <1>7, <1>8, <1>9 DEF Token, OneArmer, Disarms, Waiting, Still

\* The card is armed or has an interrupt pending: the token goes to the ring
\* buffer.
LEMMA CardToken ==
    ASSUME IInv, Token, Interrupt \/ Card \/ Exit
    PROVE  Token'
<1>1. UNCHANGED <<arm, pc, req>>
  BY DEF Interrupt, InterruptIgnored, InterruptComplete, Card, Exit, devVars, IgnoreInterrupt,
         CompleteInterrupt, HwTrigger, HwGateDone, Reboot
<1>2. hw \in Hardware /\ queue \in Seq({"read", "scan"})
  BY DEF IInv, TypeOK, CardTypeOK, DevTypeOK
<1>3. (\A t \in Threads : Armer(t)' <=> Armer(t)) /\ (CbBusy' <=> CbBusy)
  BY <1>1 DEF Armer, Arms, CbBusy
<1>4. CASE InterruptComplete
  <2>1. hw.irq /\ queue' = Queued("read") /\ ~hw'.armed /\ ~hw'.irq
    BY <1>2, <1>4 DEF InterruptComplete, CompleteInterrupt, Disarmed, Acknowledged, Hardware
  <2>2. ~CbBusy /\ queue = <<>> /\ \A t \in Threads : ~Armer(t)
    BY <2>1 DEF Token, Still
  <2>3. Len(queue') <= 1
    BY <2>1, <2>2 DEF Queued
  <2> QED BY <1>1, <1>3, <2>1, <2>2, <2>3
        DEF Token, OneArmer, Disarms, Waiting, Still, OneEntry
<1>5. CASE ~InterruptComplete
  <2>1. queue' = queue
    BY <1>5 DEF Interrupt, InterruptIgnored, Card, Exit, devVars
  <2>2. (hw'.armed => hw.armed) /\ (hw'.irq => hw.irq \/ hw.armed)
    <3>1. CASE InterruptIgnored
      BY <1>2, <3>1 DEF InterruptIgnored, IgnoreInterrupt, Disarmed, Acknowledged, Hardware
    <3>2. CASE HwTrigger
      BY <1>2, <3>2 DEF HwTrigger, Hardware
    <3>3. CASE HwGateDone
      BY <1>2, <3>3 DEF HwGateDone, Hardware, IInv, ArmInv, Running
    <3>4. CASE Reboot
      BY <3>4 DEF Reboot, ResetHardware
    <3> QED BY <1>5, <3>1, <3>2, <3>3, <3>4 DEF Interrupt, Card, Exit
  <2>3. OneEntry'
    BY <1>3, <2>1 DEF Token, OneEntry
  <2> QED BY <1>1, <1>3, <2>1, <2>2, <2>3, FewerArmers DEF Token, Disarms
<1> QED BY <1>4, <1>5

LEMMA TokenStep ==
    ASSUME OperatorWaits, IInv, Token, [Next]_vars
    PROVE  Token'
<1>1. ASSUME NEW t \in Clients, NEW r \in Records, NEW v, Put(t, r, v) PROVE Token'
  BY <1>1, PutToken DEF IInv
<1>2. ASSUME NEW t \in Threads, Lock(t) \/ Write(t) PROVE Token'
  BY <1>2, WriteToken
<1>3. CASE UNCHANGED vars
  BY <1>3 DEF vars, cardVars, devVars, Token, OneArmer, Disarms, Waiting, Still, OneEntry,
              Armer, Arms, CbBusy
<1> QED BY <1>1, <1>2, <1>3, CallbackToken, CardToken DEF Next

THEOREM TokenHolds ==
    ASSUME OperatorWaits
    PROVE  Spec => [](IInv /\ Token)
<1>1. IInv /\ Token /\ [Next]_vars => Token'
  BY TokenStep
<1>2. Spec => []IInv
  BY Invariant
<1> QED BY <1>1, <1>2, TokenInit, PTL DEF Spec

\* The data are read and posted while the recorder is disarmed, although
\* myCallback and the scan take no lock, for any number of clients that wait
\* for a cycle under way.
THEOREM ReadsDisarmed ==
    ASSUME OperatorWaits
    PROVE  Spec => []NoReadWhileArmed
<1>1. IInv /\ Token => NoReadWhileArmed
  BY DEF NoReadWhileArmed, Token, Still, CbBusy, CbOnly, Scanning
<1> QED BY <1>1, TokenHolds, PTL

\* callbackRequest finds the ring buffer without an entry of this card, so
\* that it never drops one for it.
THEOREM OneQueued ==
    ASSUME OperatorWaits
    PROVE  Spec => []AtMostOneQueued
<1>1. IInv /\ Token => AtMostOneQueued
  BY DEF AtMostOneQueued, Token, OneEntry
<1> QED BY <1>1, TokenHolds, PTL

-----------------------------------------------------------------------------
(* The cycle of GtrCycle *)

\* The only request of the callback task is the one of autoRestart; and an
\* interrupt that pends on a disarmed card is one of a cycle that has been
\* abandoned, and will be ignored.
CbArms    == pc[Cb] \in {"lock", "call"} \cup ArmSteps => Arms(req[Cb])
Abandoned == hw.irq /\ ~hw.armed => arm = armDisarm

CycleInv == CbArms /\ Abandoned /\ ~isRebooting

LEMMA CycleInvInit == Init => CycleInv
BY DEF Init, CardInit, ResetHardware, CycleInv, CbArms, Abandoned, Threads, ArmSteps

LEMMA CycleInvWrite ==
    ASSUME IInv, Token, CycleInv, NEW t \in Threads, Lock(t) \/ Write(t)
    PROVE  CycleInv'
<1>1. CbArms'
  <2>1. CASE t = Cb
    BY <2>1, WriteMoves DEF IInv, CycleInv, CbArms, ArmSteps
  <2>2. CASE t # Cb
    BY <2>2, WriteMoves DEF IInv, CycleInv, CbArms, ArmSteps, Threads
  <2> QED BY <2>1, <2>2
<1>2. isRebooting' = isRebooting
  BY DEF Write, Lock, Set, SoftTrigger, Arm, Restart, WriteDisarm, WriteResetIrq,
         WriteSetup, WriteArm, Unlock, cardVars
<1>3. hw \in Hardware
  BY DEF IInv, TypeOK, CardTypeOK
<1>4. Abandoned'
  <2>1. CASE Arm(t) \/ Restart(t)
    <3>1. UNCHANGED hw /\ pc[t] = "call"
      BY <2>1 DEF Arm, Restart, Calling
    <3>2. CASE Armer(t)
      BY <3>1, <3>2 DEF Token, Still, Abandoned
    <3>3. CASE ~Armer(t)
      <4>1. ~Arms(req[t])
        BY <3>1, <3>3 DEF Armer
      <4>2. Arm(t) /\ req[t].val = armDisarm
        BY <2>1, <4>1 DEF Arm, Restart, Calling, Arms
      <4> QED BY <3>1, <4>2 DEF Arm, StartArm, ArmStore, CycleInv, Abandoned
    <3> QED BY <3>2, <3>3
  <2>2. CASE WriteDisarm(t)
    <3>1. pc[t] = "disarm" /\ UNCHANGED arm /\ hw'.irq = hw.irq
      BY <1>3, <2>2 DEF WriteDisarm, ArmDisarm, Disarmed, Hardware
    <3>2. CASE Armer(t)
      BY <3>1, <3>2 DEF Token, Still, Abandoned
    <3>3. CASE ~Armer(t)
      BY <3>1, <3>3 DEF Token, Disarms, ArmSteps, Abandoned
    <3> QED BY <3>2, <3>3
  <2>3. CASE WriteResetIrq(t)
    BY <1>3, <2>3 DEF WriteResetIrq, ArmResetIrq, Hardware, Abandoned
  <2>4. CASE WriteSetup(t)
    BY <1>3, <2>4 DEF WriteSetup, ArmSetup, Hardware, CycleInv, Abandoned
  <2>5. CASE WriteArm(t)
    BY <1>3, <2>5 DEF WriteArm, ArmGo, Hardware, CycleInv, Abandoned
  <2>6. CASE SoftTrigger(t)
    BY <1>3, <2>6 DEF SoftTrigger, vtrsoftTrigger, Hardware, CycleInv, Abandoned
  <2>7. CASE Lock(t) \/ Set(t) \/ Unlock(t)
    BY <2>7 DEF Lock, Set, Unlock, cardVars, CycleInv, Abandoned
  <2> QED BY <2>1, <2>2, <2>3, <2>4, <2>5, <2>6, <2>7 DEF Write
<1> QED BY <1>1, <1>2, <1>4 DEF CycleInv

LEMMA CycleInvStep ==
    ASSUME ~MayReboot, IInv, Token, CycleInv, [Next]_vars
    PROVE  CycleInv'
<1>1. ASSUME NEW t \in Clients, NEW r \in Records, NEW v, Put(t, r, v) PROVE CycleInv'
  <2>1. t \in Threads /\ t # Cb /\ Cb \in Threads
    BY GtrAssumption DEF Threads
  <2>2. pc'[Cb] = pc[Cb] /\ req'[Cb] = req[Cb]
    BY <1>1, <2>1, Moved DEF Put, IInv, TypeOK, DevTypeOK
  <2> QED BY <1>1, <2>2 DEF Put, cardVars, CycleInv, CbArms, Arms, Abandoned
<1>2. ASSUME NEW t \in Threads, Lock(t) \/ Write(t) PROVE CycleInv'
  BY <1>2, CycleInvWrite
<1>3. CASE Callback
  <2>1. /\ UNCHANGED <<arm, hw, isRebooting>> /\ pc[Cb] \notin Locked
        /\ \E where : where \notin Locked /\ Goto(Cb, where)
    BY <1>3, CallbackQuiet
  <2>2. pc'[Cb] \notin Locked
    BY <2>1, Moved DEF IInv, Threads
  <2>3. CASE ScanRestart
    <3>1. Arms(req'[Cb])
      BY <2>3 DEF ScanRestart, IInv, TypeOK, DevTypeOK, Threads, Arms
    <3> QED BY <2>1, <3>1 DEF CycleInv, CbArms, Abandoned
  <2>4. CASE ~ScanRestart
    <3>1. \E where \in {"read", "scanRequest", "waveforms", "choose", "group", "event",
                        "idle", "restart"} : Goto(Cb, where)
      BY <1>3, <2>4, Zenon DEF Callback, MyCallback, Scan, Dequeue, ReadMemory, ReadNone, ReadStart,
          Choose, Group, Event, ReadStep, ScanIoRequest, Waveforms
    <3>2. pc'[Cb] # "lock"
      BY <3>1, Moved DEF IInv, Threads
    <3> QED BY <2>1, <2>2, <3>2 DEF CycleInv, CbArms, Abandoned, Locked
  <2> QED BY <2>3, <2>4
<1>4. CASE Interrupt \/ Card
  <2>1. UNCHANGED <<arm, pc, req, isRebooting>>
    BY <1>4 DEF Interrupt, InterruptIgnored, InterruptComplete, Card, devVars, IgnoreInterrupt,
            CompleteInterrupt, HwTrigger, HwGateDone
  <2>2. hw'.irq /\ ~hw'.armed => hw.irq /\ ~hw.armed
    <3> USE DEF Hardware
    <3>1. hw \in Hardware /\ (hw.running => hw.armed)
      BY DEF IInv, TypeOK, CardTypeOK, ArmInv, Running
    <3>2. CASE InterruptIgnored \/ InterruptComplete
      BY <3>1, <3>2 DEF InterruptIgnored, IgnoreInterrupt, InterruptComplete, CompleteInterrupt,
                   Disarmed, Acknowledged
    <3>3. CASE HwTrigger
      BY <3>1, <3>3 DEF HwTrigger
    <3>4. CASE HwGateDone
      BY <3>1, <3>4 DEF HwGateDone
    <3> QED BY <1>4, <3>2, <3>3, <3>4 DEF Interrupt, Card
  <2> QED BY <2>1, <2>2 DEF CycleInv, CbArms, Arms, Abandoned
<1>5. CASE UNCHANGED vars
  BY <1>5 DEF vars, cardVars, devVars, CycleInv, CbArms, Arms, Abandoned
<1> QED BY <1>1, <1>2, <1>3, <1>4, <1>5 DEF Next, Exit

LEMMA CycleInitially == Init => Cycle!CycleInit
<1> SUFFICES ASSUME Init PROVE Phase = "idle" /\ Show = "nothing"
  BY DEF Cycle!CycleInit
<1>1. ~hw.armed /\ queue = <<>> /\ pc[Cb] = "idle"
  BY DEF Init, CardInit, ResetHardware, Threads
<1>2. Phase = "idle"
  BY <1>1 DEF Phase, ReadPending, CbOnly, Reading
<1>3. Show = "nothing"
  BY DEF Init, CardInit, EmptyChannels, Show
<1> QED BY <1>2, <1>3

\* What a step does not touch leaves the phase and the channels' set alone.
LEMMA PhaseKept ==
    ASSUME hw'.armed = hw.armed, queue' = queue, pc'[Cb] = pc[Cb]
    PROVE  Phase' = Phase
BY DEF Phase, ReadPending

LEMMA ShowKept ==
    ASSUME chan' = chan
    PROVE  Show' = Show
BY DEF Show

\* With the ring buffer empty and the callback task not reading.
LEMMA PhaseWhenEmpty ==
    ASSUME queue = <<>>, pc[Cb] \notin Reading \cup {"scanRequest"}
    PROVE  Phase = IF hw.armed THEN "acquiring"
                   ELSE IF pc[Cb] # "idle" THEN "posting" ELSE "idle"
BY DEF Phase, ReadPending

\* Where the callback task is, if it neither reads nor posts nor arms.
LEMMA CbRests ==
    ASSUME IInv, CycleInv, ~CbBusy, ~Armer(Cb)
    PROVE  pc[Cb] \in {"idle", "unlock", "suspended"}
<1>1. pc[Cb] \in PcValues
  BY DEF IInv, TypeOK, DevTypeOK, Threads
<1>2. pc[Cb] \notin {"lock", "call"} \cup ArmSteps
  BY DEF CycleInv, CbArms, Armer
<1> QED BY <1>1, <1>2 DEF PcValues, Locked, CbBusy

\* An armed card that is disarmed without an interrupt: the operator gave up.
LEMMA Abandons ==
    ASSUME IInv, CycleInv, Token, hw.armed, ~hw'.armed,
           NEW t \in Threads, pc[t] = "disarm",
           UNCHANGED <<chan, queue>>, pc'[Cb] = pc[Cb] \/ t = Cb
    PROVE  Cycle!Abandon
<1>1. ~CbBusy /\ queue = <<>> /\ \A u \in Threads : ~Armer(u)
  BY DEF Token, Still
<1>2. pc[Cb] \in {"idle", "unlock", "suspended"}
  BY <1>1, CbRests DEF Threads
<1>3. t # Cb /\ pc[Cb] \notin Locked
  BY <1>2, OnlyOne DEF IInv, Locked, ArmSteps, Threads
<1>4. pc[Cb] = "idle" /\ pc'[Cb] = "idle"
  BY <1>2, <1>3 DEF Locked
<1>5. Phase = "acquiring" /\ Phase' = "idle"
  BY <1>1, <1>4 DEF Phase, ReadPending, Reading
<1> QED BY <1>5, ShowKept DEF Cycle!Abandon

\* Writing ARMR begins a cycle; whatever was shown is of an earlier one.
LEMMA Begins ==
    ASSUME IInv, CycleInv, Token, NEW t \in Threads, WriteArm(t), hw' # hw
    PROVE  Cycle!Start \/ Cycle!Again
<1>1. /\ pc[t] = "go" /\ arm # armDisarm /\ Goto(t, "unlock") /\ UNCHANGED queue
      /\ hw' = [hw EXCEPT !.armed = TRUE]
      /\ chan' = [c \in Channels |->
                       IF chan[c].of \in {"last", "part"} THEN [chan[c] EXCEPT !.of = "old"]
                       ELSE chan[c]]
  BY DEF WriteArm, ArmGo, armDisarm, armPostTrigger, armPrePostTrigger
<1>2. Armer(t)
  BY <1>1 DEF Token, Disarms, ArmSteps
<1>3. ~CbBusy /\ queue = <<>> /\ ~hw.armed
  BY <1>2 DEF Token, Waiting, Still
<1>4. hw'.armed
  BY <1>1 DEF IInv, TypeOK, CardTypeOK, Hardware
<1>5. Phase' = "acquiring" /\ Phase \in {"idle", "posting"}
  BY <1>1, <1>3, <1>4 DEF Phase, ReadPending, CbBusy, CbOnly
<1>6. Show' = IF Show = "set" THEN "other" ELSE Show
  <2>1. chan \in [Channels -> ChannelData] /\ 0 \in Channels
    BY CardAssumption DEF IInv, TypeOK, CardTypeOK, Channels
  <2>2. \A c \in Channels :
           chan'[c].of = IF chan[c].of \in {"last", "part"} THEN "old" ELSE chan[c].of
    BY <1>1, <2>1 DEF ChannelData
  <2> QED BY <2>1, <2>2 DEF Show
<1> QED BY <1>5, <1>6 DEF Cycle!Start, Cycle!Again, Cycle!Aged

\* Locks and driver calls: they begin or abandon a cycle, or end the posting.
LEMMA WriteCycle ==
    ASSUME IInv, CycleInv, Token, NEW t \in Threads, Lock(t) \/ Write(t)
    PROVE  Cycle!CycleNext \/ UNCHANGED <<Phase, Show>>
<1>1. CASE WriteArm(t) /\ hw' # hw
  BY <1>1, Begins DEF Cycle!CycleNext
<1>2. CASE ~(WriteArm(t) /\ hw' # hw)
  <2>1. UNCHANGED <<chan, queue>>
    <3>1. CASE WriteArm(t)
      BY <1>2, <3>1 DEF WriteArm, ArmGo, IInv, TypeOK, CardTypeOK, Hardware, ArmInv, Arming
    <3>2. CASE ~WriteArm(t)
      BY <3>2 DEF Write, Lock, Set, SoftTrigger, Arm, Restart, WriteDisarm, WriteResetIrq,
                  WriteSetup, Unlock, cardVars
    <3> QED BY <3>1, <3>2
  <2>2. hw \in Hardware
    BY DEF IInv, TypeOK, CardTypeOK
  <2>3. hw'.armed = hw.armed \/ (WriteDisarm(t) /\ hw.armed /\ ~hw'.armed)
    <3>1. CASE WriteDisarm(t)
      BY <2>2, <3>1 DEF WriteDisarm, ArmDisarm, Disarmed, Hardware
    <3>2. CASE WriteResetIrq(t)
      BY <2>2, <3>2 DEF WriteResetIrq, ArmResetIrq, Hardware
    <3>3. CASE WriteSetup(t)
      BY <2>2, <3>3 DEF WriteSetup, ArmSetup, Hardware
    <3>4. CASE SoftTrigger(t)
      BY <2>2, <3>4 DEF SoftTrigger, vtrsoftTrigger, Hardware
    <3>5. CASE Lock(t) \/ Set(t) \/ Arm(t) \/ Restart(t) \/ Unlock(t)
      BY <3>5 DEF Lock, Set, Arm, Restart, Unlock, cardVars
    <3>6. CASE WriteArm(t)
      BY <1>2, <3>6
    <3> QED BY <3>1, <3>2, <3>3, <3>4, <3>5, <3>6 DEF Write
  <2>4. t # Cb => pc'[Cb] = pc[Cb]
    BY WriteMoves DEF IInv, Threads
  <2>5. CASE hw'.armed # hw.armed
    <3>1. WriteDisarm(t) /\ pc[t] = "disarm" /\ hw.armed /\ ~hw'.armed
      BY <2>3, <2>5 DEF WriteDisarm
    <3> QED BY <2>1, <2>4, <3>1, Abandons DEF Cycle!CycleNext
  <2>6. CASE hw'.armed = hw.armed /\ t # Cb
    BY <2>1, <2>4, <2>6, PhaseKept, ShowKept
  <2>7. CASE hw'.armed = hw.armed /\ t = Cb
    <3>1. pc[Cb] \notin CbOnly /\ pc'[Cb] \notin CbOnly
      <4>1. pc[t] \in {"lock"} \cup Locked
        BY DEF Write, Lock, Set, SoftTrigger, Arm, Restart, Calling, WriteDisarm, WriteResetIrq,
               WriteSetup, WriteArm, Unlock, Locked, ArmSteps
      <4>2. pc'[t] \in {"call", "unlock", "suspended", "idle"} \cup ArmSteps
        BY WriteMoves DEF IInv
      <4> QED BY <2>7, <4>1, <4>2 DEF Locked, ArmSteps, CbOnly, Reading, Scanning
    <3>2. pc[Cb] # "idle"
      BY <2>7 DEF Write, Lock, Set, SoftTrigger, Arm, Restart, Calling, WriteDisarm,
               WriteResetIrq, WriteSetup, WriteArm, Unlock
    <3>3. (ReadPending' <=> ReadPending) /\ Show' = Show
      BY <2>1, ShowKept DEF ReadPending
    <3>4. UNCHANGED Phase \/ (Phase = "posting" /\ Phase' = "idle")
      BY <2>1, <2>7, <3>1, <3>2, <3>3 DEF Phase, CbOnly
    <3> QED BY <3>3, <3>4 DEF Cycle!CycleNext, Cycle!Post
  <2> QED BY <2>5, <2>6, <2>7
<1> QED BY <1>1, <1>2

\* The callback task reads and posts.
LEMMA CallbackCycle ==
    ASSUME IInv, CycleInv, Token, Callback
    PROVE  Cycle!CycleNext \/ UNCHANGED <<Phase, Show>>
<1>1. UNCHANGED hw
  BY CallbackQuiet
<1>2. Cb \in Threads
  BY DEF Threads
<1>3. CbBusy \/ queue # <<>>
  BY Zenon DEF Callback, MyCallback, Scan, Dequeue, ReadMemory, ReadNone, ReadStart, Choose, Group,
         Event, ReadStep, ScanIoRequest, Waveforms, ScanRestart, CbBusy, CbOnly, Reading, Scanning
<1>4. ~hw.armed /\ ~hw'.armed
  BY <1>1, <1>3 DEF Token, Still
<1>5. queue \in Seq({"read", "scan"}) /\ Len(queue) <= 1
  BY DEF Token, OneEntry, IInv, TypeOK, DevTypeOK
<1>6. ASSUME NEW entry, NEW where, Dequeue(entry, where)
      PROVE  /\ queue = <<entry>> /\ queue' = <<>>
             /\ pc[Cb] = "idle" /\ pc'[Cb] = where /\ Show' = Show
  <2>1. queue # <<>> /\ Head(queue) = entry /\ queue' = Tail(queue) /\ pc[Cb] = "idle"
        /\ chan' = chan /\ Goto(Cb, where)
    BY <1>6 DEF Dequeue, cardVars
  <2>2. Len(queue) \in Nat \ {0}
    BY <1>5, <2>1, EmptySeq
  <2>3. Len(queue) = 1
    <3>1. Len(queue) <= 1
      BY <1>5
    <3> QED BY <2>2, <3>1
  <2>4. queue = <<entry>> /\ queue' = <<>>
    BY <1>5, <2>1, <2>3, EmptySeq
  <2> QED BY <1>2, <2>1, <2>4, ShowKept, Moved DEF IInv
<1>7. CASE MyCallback
  <2>1. PICK where \in {"read", "scanRequest"} : Dequeue("read", where)
    BY <1>7 DEF MyCallback
  <2>2. queue = <<"read">> /\ pc'[Cb] = where /\ Show' = Show
    BY <1>6, <2>1
  <2>3. ReadPending
    <3>1. 1 \in 1 .. Len(queue) /\ queue[1] = "read"
      BY <2>2
    <3> QED BY <3>1 DEF ReadPending
  <2>4. Phase = "reading" /\ Phase' = "reading"
    BY <1>4, <2>2, <2>3 DEF Phase, Reading
  <2> QED BY <2>2, <2>4
<1>8. CASE Scan
  <2>1. queue = <<"scan">> /\ queue' = <<>> /\ pc[Cb] = "idle" /\ pc'[Cb] = "waveforms"
        /\ Show' = Show
    BY <1>6, <1>8 DEF Scan
  <2>2. ~ReadPending /\ ~ReadPending'
    BY <2>1 DEF ReadPending
  <2>3. Phase = "posting" /\ Phase' = "posting"
    BY <1>4, <2>1, <2>2 DEF Phase, Reading
  <2> QED BY <2>1, <2>3
<1>9. CASE ReadMemory
  <2>1. /\ pc[Cb] \in Reading
        /\ \E where \in {"scanRequest", "choose", "group", "event"} : Goto(Cb, where)
    BY <1>9 DEF ReadMemory, ReadNone, ReadStart, Choose, Group, Event, ReadStep, Reading
  <2>2. pc'[Cb] \in Reading \cup {"scanRequest"}
    BY <1>2, <2>1, Moved DEF IInv, Reading
  <2>3. Phase = "reading" /\ Phase' = "reading"
    BY <1>4, <2>1, <2>2 DEF Phase, Reading
  <2>4. Show' \in {"nothing", "set", "other"}
    BY DEF Show
  <2> QED BY <2>3, <2>4 DEF Cycle!CycleNext, Cycle!Copy
<1>10. CASE ScanIoRequest
  <2>1. /\ pc[Cb] = "scanRequest" /\ queue = <<>> /\ queue' = Queued("scan")
        /\ Goto(Cb, "idle") /\ chan' = chan
    BY <1>10 DEF ScanIoRequest, Token, OneEntry, CbBusy, CbOnly, cardVars
  <2>2. queue' = <<"scan">> /\ pc'[Cb] = "idle"
    BY <1>2, <2>1, GtrAssumption, Moved DEF Queued, IInv
  <2>3. ~ReadPending'
    BY <2>2 DEF ReadPending
  <2>4. Phase = "reading" /\ Phase' = "posting"
    BY <1>4, <2>1, <2>2, <2>3 DEF Phase, Reading
  <2> QED BY <2>1, <2>4, ShowKept DEF Cycle!CycleNext, Cycle!Read
<1>11. CASE Waveforms \/ ScanRestart
  <2>1. /\ pc[Cb] \in Scanning /\ queue = <<>> /\ queue' = queue
        /\ Goto(Cb, "restart") \/ Goto(Cb, "lock")
        /\ chan' = chan
    BY <1>11 DEF Waveforms, ScanRestart, Token, OneEntry, CbBusy, CbOnly, Scanning, cardVars
  <2>2. pc'[Cb] \in {"restart", "lock"}
    BY <1>2, <2>1, Moved DEF IInv
  <2>3. ~ReadPending /\ ~ReadPending'
    BY <2>1 DEF ReadPending
  <2>4. Phase = "posting" /\ Phase' = "posting"
    BY <1>4, <2>1, <2>2, <2>3 DEF Phase, Reading, Scanning
  <2> QED BY <2>1, <2>4, ShowKept
<1> QED BY <1>7, <1>8, <1>9, <1>10, <1>11 DEF Callback

\* The interrupt completes a cycle, or is ignored.
LEMMA CardCycle ==
    ASSUME IInv, CycleInv, Token, Interrupt \/ Card
    PROVE  Cycle!CycleNext \/ UNCHANGED <<Phase, Show>>
<1>1. /\ UNCHANGED <<chan, pc>> /\ Show' = Show
  BY ShowKept DEF Interrupt, InterruptIgnored, InterruptComplete, Card, devVars, IgnoreInterrupt,
                  CompleteInterrupt, HwTrigger, HwGateDone
<1>2. hw \in Hardware
  BY DEF IInv, TypeOK, CardTypeOK
<1>3. CASE InterruptComplete
  <2>1. hw.irq /\ arm # armDisarm /\ queue' = Queued("read") /\ ~hw'.armed
    BY <1>2, <1>3 DEF InterruptComplete, CompleteInterrupt, Disarmed, Acknowledged, Hardware
  <2>2. hw.armed /\ queue = <<>>
    BY <2>1 DEF CycleInv, Abandoned, Token, Still
  <2>3. queue' = <<"read">>
    BY <2>1, <2>2, GtrAssumption DEF Queued
  <2>4. ReadPending'
    <3>1. 1 \in 1 .. Len(queue') /\ queue'[1] = "read"
      BY <2>3
    <3> QED BY <3>1 DEF ReadPending
  <2>5. Phase = "acquiring" /\ Phase' = "reading"
    BY <2>1, <2>2, <2>4 DEF Phase
  <2> QED BY <1>1, <2>5 DEF Cycle!CycleNext, Cycle!Complete
<1>4. CASE ~InterruptComplete
  <2>1. queue' = queue
    BY <1>4 DEF Interrupt, InterruptIgnored, Card, devVars
  <2>2. CASE hw'.armed = hw.armed
    BY <1>1, <2>1, <2>2, PhaseKept
  <2>3. CASE hw'.armed # hw.armed
    <3>1. IgnoreInterrupt
      BY <1>2, <1>4, <2>3 DEF Interrupt, InterruptIgnored, Card, HwTrigger, HwGateDone, Hardware
    <3>2. arm = armDisarm /\ hw' = Disarmed(Acknowledged)
      BY <1>2, <2>3, <3>1 DEF IgnoreInterrupt, Acknowledged, Hardware, CycleInv
    <3>3. hw.armed /\ ~hw'.armed
      BY <1>2, <2>3, <3>2 DEF Disarmed, Acknowledged, Hardware
    <3>4. PICK t \in Threads : pc[t] = "disarm"
      BY <3>2, <3>3 DEF IInv, ArmInv, Active, NobodyDisarms
    <3> QED BY <1>1, <2>1, <3>3, <3>4, Abandons DEF Cycle!CycleNext
  <2> QED BY <2>2, <2>3
<1> QED BY <1>3, <1>4

LEMMA CycleStep ==
    ASSUME ~MayReboot, IInv, CycleInv, Token, [Next]_vars
    PROVE  Cycle!CycleNext \/ UNCHANGED <<Phase, Show>>
<1>1. ASSUME NEW t \in Clients, NEW r \in Records, NEW v, Put(t, r, v)
      PROVE  UNCHANGED <<Phase, Show>>
  <2>1. t \in Threads /\ t # Cb /\ Cb \in Threads
    BY GtrAssumption DEF Threads
  <2>2. pc'[Cb] = pc[Cb]
    BY <1>1, <2>1, Moved DEF Put, IInv
  <2> QED BY <1>1, <2>2, PhaseKept, ShowKept DEF Put, cardVars
<1>2. CASE UNCHANGED vars
  BY <1>2, PhaseKept, ShowKept DEF vars, cardVars, devVars
<1> QED BY <1>1, <1>2, WriteCycle, CallbackCycle, CardCycle DEF Next, Exit

\* As long as the IOC does not exit, a card with its records goes through the
\* cycle that GTR promises, whatever the waiting clients put and however the
\* interrupt, the ring buffer and the scans interleave: recording, reading and
\* posting never overlap.
THEOREM CycleImplemented ==
    ASSUME OperatorWaits, ~MayReboot
    PROVE  Spec => ImplementsCycle
<1>1. IInv /\ Token /\ CycleInv /\ [Next]_vars => CycleInv'
  BY CycleInvStep
<1>2. IInv /\ Token /\ CycleInv /\ [Next]_vars => [Cycle!CycleNext]_<<Phase, Show>>
  BY CycleStep
<1>3. Spec => [](IInv /\ Token)
  BY TokenHolds
<1> QED
  BY <1>1, <1>2, <1>3, CycleInvInit, CycleInitially, PTL
     DEF Spec, ImplementsCycle, Cycle!CycleSpec

-----------------------------------------------------------------------------
(* A complete set is posted.  While the token is held nobody is about to     *)
(* change a setting, so that the amount the card was armed for is the amount *)
(* it records, and that is what the callback task reads.                     *)

UnderWay  == CbBusy \/ queue # <<>> \/ hw.armed \/ hw.irq \/ \E t \in Threads : Armer(t)
NoSetting == \A t \in Threads : pc[t] \in {"lock", "call"} => req[t].rec \notin SettingRecords

SettingsAlone == UnderWay => NoSetting
IrqCounted    == hw.irq => hw.count > 0
Kind          == armSupported(arm) /\ (type = "vtr10012_8" => cfg.pte = 1)

\* What the settings ask for, and where a set of this size is on its way.
SetSize  == Samples(IF arm = armPrePostTrigger THEN numberEvents * SamplesPerEvent(numberEvents)
                    ELSE PostSetSize)
OnTheWay == (queue # <<>> \/ pc[Cb] \in CbOnly \ {"restart"}) /\ arm # armDisarm

Counting == OnTheWay =>
    /\ arm \in {armPostTrigger, armPrePostTrigger}
    /\ completed = SetSize
    /\ arm = armPrePostTrigger => hw.events = numberEvents

\* How far the callback task has copied it.
Empty(c)    == chan[c] = [ndata |-> 0, of |-> "none"]
Whole(d, c, n) == d = [ndata |-> MinOf(ChanLen[c], n), of |-> "last"]
Part(d, c, n)  == DmaMayFail /\ d.of = "part" /\ d.ndata <= MinOf(ChanLen[c], n)
Brought(d, c, n) == Whole(d, c, n) \/ Part(d, c, n)
Holds(c, n)      == Brought(chan[c], c, n)
GroupOf(c)  == IF c < NGroups THEN c ELSE c - NGroups

Cleared  == pc[Cb] = "choose" => \A c \in Channels : Empty(c)
Grouped  == pc[Cb] = "group" =>
    /\ arm = armPostTrigger /\ rd.next < NGroups
    /\ \A c \in Channels : IF GroupOf(c) < rd.next THEN Holds(c, completed) ELSE Empty(c)
Appending == pc[Cb] = "event" =>
    /\ arm = armPrePostTrigger /\ rd.next < rd.nev
    /\ rd.nev = numberEvents /\ rd.pps = SamplesPerEvent(numberEvents)
    /\ \A c \in Channels : IF rd.next > 0 THEN Holds(c, Samples(rd.next * rd.pps)) ELSE Empty(c)
Full     == pc[Cb] \in {"scanRequest", "waveforms"} \/ queue = <<"scan">> =>
                \A c \in Channels : Holds(c, completed)

Filling == OnTheWay => Cleared /\ Grouped /\ Appending /\ Full

SetInv == SettingsAlone /\ IrqCounted /\ Kind /\ Counting /\ Filling

LEMMA SetInvInit == Init => SetInv
<1> SUFFICES ASSUME Init PROVE SetInv
  OBVIOUS
<1>1. \A t \in Threads : pc[t] = "idle"
  BY DEF Init
<1>2. ~hw.irq /\ arm = armDisarm /\ cfg.pte = 1
  BY DEF Init, CardInit, ResetHardware
<1>3. SettingsAlone
  BY <1>1 DEF SettingsAlone, NoSetting
<1>4. Kind
  BY <1>2 DEF Kind, armSupported
<1>5. ~OnTheWay
  BY <1>2 DEF OnTheWay
<1> QED BY <1>2, <1>3, <1>4, <1>5 DEF SetInv, IrqCounted, Counting, Filling

\* A step that leaves the settings, the data and the way they go alone, or
\* disarms.
LEMMA SetKept ==
    ASSUME Counting, Filling, UNCHANGED <<cfg, queue, completed, chan, rd>>,
           arm' = arm \/ arm' = armDisarm, hw'.events = hw.events,
           pc'[Cb] = pc[Cb] \/ pc'[Cb] \notin CbOnly
    PROVE  Counting' /\ Filling'
<1>1. CASE ~OnTheWay'
  BY <1>1 DEF Counting, Filling
<1>2. CASE OnTheWay'
  <2>1. arm' = arm /\ OnTheWay
    BY <1>2 DEF OnTheWay
  <2>2. numberEvents' = numberEvents /\ SetSize' = SetSize
        /\ SamplesPerEvent(numberEvents)' = SamplesPerEvent(numberEvents)
    BY <2>1 DEF numberEvents, SetSize, SamplesPerEvent, PostSetSize
  <2>3. Counting'
    BY <1>2, <2>1, <2>2 DEF Counting
  <2>4. \A c \in Channels : Empty(c)' <=> Empty(c)
    BY DEF Empty
  <2>5. \A c, n : Holds(c, n)' <=> Holds(c, n)
    BY DEF Holds
  <2>6. Cleared' /\ Grouped' /\ Appending' /\ Full'
    <3>1. Cleared /\ Grouped /\ Appending /\ Full
      BY <2>1 DEF Filling
    <3>2. pc'[Cb] \in CbOnly => pc'[Cb] = pc[Cb]
      OBVIOUS
    <3>3. {"choose", "group", "event", "scanRequest", "waveforms"} \subseteq CbOnly
      BY DEF CbOnly, Reading, Scanning
    <3>4. Cleared'
      BY <2>4, <3>1, <3>2, <3>3 DEF Cleared
    <3>5. Grouped'
      BY <2>1, <2>4, <3>1, <3>2, <3>3 DEF Grouped, Holds, Empty
    <3>6. Appending'
      BY <2>1, <2>2, <2>4, <3>1, <3>2, <3>3 DEF Appending, Holds, Empty
    <3>7. Full'
      BY <3>1, <3>2, <3>3 DEF Full, Holds
    <3> QED BY <3>4, <3>5, <3>6, <3>7
  <2> QED BY <2>3, <2>6 DEF Filling
<1> QED BY <1>1, <1>2

\* Nobody else is in a driver call that changes a setting.
LEMMA NothingSet ==
    ASSUME SettingsAlone, UnderWay, NEW t \in Threads
    PROVE  ~Set(t)
BY DEF SettingsAlone, NoSetting, Set, Calling

\* While a set is on its way, driver calls disarm at most.
LEMMA WriteWhileOnTheWay ==
    ASSUME IInv, Token, SetInv, OnTheWay, NEW t \in Threads, Lock(t) \/ Write(t)
    PROVE  /\ UNCHANGED <<cfg, chan>> /\ hw'.events = hw.events
           /\ arm' = arm \/ arm' = armDisarm
<1>1. /\ \A u \in Threads : ~Armer(u)
      /\ UnderWay
  BY DEF OnTheWay, Token, Waiting, UnderWay, CbBusy
<1>2. ~Set(t)
  BY <1>1, NothingSet DEF SetInv
<1>3. pc[t] \notin ArmSteps
  <2>1. arm # armDisarm
    BY DEF OnTheWay
  <2> QED BY <1>1, <2>1 DEF Token, Disarms
<1>4. hw \in Hardware
  BY DEF IInv, TypeOK, CardTypeOK
<1>5. CASE SoftTrigger(t)
  BY <1>4, <1>5 DEF SoftTrigger, vtrsoftTrigger, Hardware
<1>6. CASE Lock(t) \/ Unlock(t)
  BY <1>6 DEF Lock, Unlock, cardVars
<1>7. CASE Restart(t)
  BY <1>1, <1>7 DEF Restart, Calling, Armer, Arms
<1>8. CASE Arm(t)
  <2>1. req[t].val = armDisarm
    BY <1>1, <1>8 DEF Arm, Calling, Armer, Arms
  <2> QED BY <1>8, <2>1 DEF Arm, StartArm, ArmStore
<1> QED
  BY <1>2, <1>3, <1>5, <1>6, <1>7, <1>8
     DEF Write, WriteDisarm, WriteResetIrq, WriteSetup, WriteArm, ArmSteps

\* Driver calls: a setting is changed only without a cycle under way.
LEMMA WriteSetInv ==
    ASSUME IInv, Token, SetInv, NEW t \in Threads, Lock(t) \/ Write(t)
    PROVE  SetInv'
<1>1. hw \in Hardware /\ cfg \in Settings
  BY DEF IInv, TypeOK, CardTypeOK
<1>2. /\ UNCHANGED queue
      /\ \A u \in Threads \ {t} : pc'[u] = pc[u] /\ req'[u] = req[u]
      /\ pc'[t] \in {"call", "unlock", "suspended", "idle"} \cup ArmSteps
      /\ pc'[t] # "idle" => pc[t] \in {"lock", "call"} \cup ArmSteps /\ req' = req
  BY WriteMoves DEF IInv
<1>3. UNCHANGED <<type, completed, rd>>
  BY DEF Write, Lock, Set, SoftTrigger, Arm, Restart, WriteDisarm, WriteResetIrq, WriteSetup,
         WriteArm, Unlock, cardVars
<1>4. pc'[Cb] = pc[Cb] \/ pc'[Cb] \notin CbOnly
  BY <1>2 DEF CbOnly, Reading, Scanning, ArmSteps, Threads
<1>5. \A u \in Threads : Armer(u)' => Armer(u)
  BY <1>2 DEF Armer, Arms, ArmSteps
<1>6. hw'.armed => hw.armed \/ Armer(t)
  <2>1. CASE WriteArm(t) /\ ~UNCHANGED hw
    BY <2>1 DEF WriteArm, ArmGo, armDisarm, armPostTrigger, armPrePostTrigger, Token, Disarms,
                ArmSteps
  <2>2. CASE ~WriteArm(t)
    BY <1>1, <2>2 DEF Write, Lock, Set, SoftTrigger, vtrsoftTrigger, Arm, Restart, WriteDisarm,
       ArmDisarm, Disarmed, WriteResetIrq, ArmResetIrq, WriteSetup, ArmSetup, Unlock, cardVars,
       Hardware
  <2> QED BY <2>1, <2>2
<1>7. hw'.irq => hw.irq
  BY <1>1 DEF Write, Lock, Set, SoftTrigger, vtrsoftTrigger, Arm, Restart, WriteDisarm,
       ArmDisarm, Disarmed, WriteResetIrq, ArmResetIrq, WriteSetup, ArmSetup, WriteArm, ArmGo,
       Unlock, cardVars, Hardware
<1>8. SettingsAlone'
  <2>1. UnderWay' => UnderWay
    BY <1>2, <1>4, <1>5, <1>6, <1>7 DEF UnderWay, CbBusy
  <2>2. NoSetting => NoSetting'
    <3>1. CASE Lock(t)
      BY <1>2, <3>1 DEF Lock, NoSetting
    <3>2. CASE Write(t)
      <4>1. PICK where \in {"unlock", "suspended", "idle"} \cup ArmSteps : Goto(t, where)
        BY <3>2, Zenon DEF Write, Set, SoftTrigger, Arm, Restart, StartArm, WriteDisarm,
           WriteResetIrq, WriteSetup, WriteArm, Unlock, ArmSteps
      <4>2. pc'[t] \notin {"lock", "call"}
        BY <4>1, Moved DEF IInv, ArmSteps
      <4> QED BY <1>2, <4>2 DEF NoSetting
    <3> QED BY <3>1, <3>2
  <2> QED BY <2>1, <2>2 DEF SetInv, SettingsAlone
<1>9. IrqCounted'
  <2>1. CASE WriteSetup(t)
    <3>1. Armer(t)
      BY <2>1 DEF WriteSetup, IInv, ArmInv, Wanted, Token, Disarms, ArmSteps
    <3> QED BY <1>7, <3>1 DEF Token, Still, IrqCounted
  <2>2. CASE ~WriteSetup(t)
    <3>1. hw'.count = hw.count
      BY <1>1, <2>2 DEF Write, Lock, Set, SoftTrigger, vtrsoftTrigger, Arm, Restart, WriteDisarm,
         ArmDisarm, Disarmed, WriteResetIrq, ArmResetIrq, WriteArm, ArmGo, Unlock, cardVars,
         Hardware
    <3> QED BY <1>7, <3>1 DEF SetInv, IrqCounted
  <2> QED BY <2>1, <2>2
<1>10. Kind'
  <2>1. CASE Set(t)
    <3>1. PICK st \in Status : Method(req[t].rec, req[t].val, st)
      BY <2>1 DEF Set
    <3>2. type = "vtr10012_8" => cfg'.pte = cfg.pte
      BY <1>1, <3>1 DEF Method, vtrclock, vtrtrigger, vtrmultiEvent, vtrnumberPTS, vtrnumberPPS,
                        vtrnumberPTE, Refused, Settings
    <3> QED BY <1>3, <2>1, <3>2 DEF Set, SetInv, Kind, armSupported
  <2>2. CASE Arm(t) \/ Restart(t)
    BY <1>3, <2>2 DEF Arm, Restart, StartArm, ArmStore, SetInv, Kind, armSupported
  <2>3. CASE ~Set(t) /\ ~Arm(t) /\ ~Restart(t)
    <3>1. UNCHANGED <<cfg, arm>>
      BY <2>3 DEF Write, Lock, SoftTrigger, WriteDisarm, WriteResetIrq, WriteSetup, WriteArm,
                  Unlock, cardVars
    <3> QED BY <1>3, <3>1 DEF SetInv, Kind, armSupported
  <2> QED BY <2>1, <2>2, <2>3
<1>11. Counting' /\ Filling'
  <2>1. CASE OnTheWay
    BY <1>2, <1>3, <1>4, <2>1, WriteWhileOnTheWay, SetKept DEF SetInv
  <2>2. CASE ~OnTheWay
    <3>1. queue # <<>> \/ CbBusy => arm = armDisarm \/ pc[Cb] = "restart"
      BY <2>2 DEF OnTheWay, CbBusy
    <3>2. ~OnTheWay'
      <4>1. CASE arm' = arm \/ arm' = armDisarm
        BY <1>2, <1>4, <2>2, <4>1 DEF OnTheWay
      <4>2. CASE arm' # arm /\ arm' # armDisarm
        <5>1. Armer(t)
          BY <4>2 DEF Write, Lock, Set, SoftTrigger, Arm, Restart, StartArm, ArmStore, Calling,
             WriteDisarm, WriteResetIrq, WriteSetup, WriteArm, Unlock, cardVars, Armer, Arms
        <5>2. ~CbBusy /\ queue = <<>>
          BY <5>1 DEF Token, Waiting
        <5> QED BY <1>2, <1>4, <5>2 DEF OnTheWay, CbBusy
      <4> QED BY <4>1, <4>2
    <3> QED BY <3>2 DEF Counting, Filling
  <2> QED BY <2>1, <2>2
<1> QED BY <1>8, <1>9, <1>10, <1>11 DEF SetInv

\* Putting to a record: a setting only without a cycle under way.
LEMMA PutSetInv ==
    ASSUME OperatorWaits, IInv, Token, SetInv,
           NEW t \in Clients, NEW r \in Records, NEW v, Put(t, r, v)
    PROVE  SetInv'
<1>1. /\ t \in Threads /\ t # Cb /\ Cb \in Threads /\ pc[t] = "idle"
      /\ Goto(t, "lock") /\ req' = [req EXCEPT ![t] = [rec |-> r, val |-> v]]
      /\ UNCHANGED <<cardVars, queue, completed>>
  BY GtrAssumption DEF Put, Threads
<1>2. UNCHANGED <<type, arm, cfg, hw, chan, rd>>
  BY <1>1 DEF cardVars
<1>3. pc'[t] = "lock" /\ \A u \in Threads \ {t} : pc'[u] = pc[u]
  BY <1>1, Moved DEF IInv
<1>4. req'[t] = [rec |-> r, val |-> v] /\ \A u \in Threads \ {t} : req'[u] = req[u]
  BY <1>1 DEF IInv, TypeOK, DevTypeOK
<1>5. \A u \in Threads \ {t} : Armer(u)' <=> Armer(u)
  BY <1>3, <1>4 DEF Armer, Arms
<1>6. CbBusy' <=> CbBusy
  BY <1>1, <1>3 DEF CbBusy
<1>7. SettingsAlone'
  <2>1. CASE r \in SettingRecords \/ Armer(t)'
    <3>1. Quiet
      <4>1. r \in SettingRecords => r \notin {"softTrigger", "arm"}
        BY DEF SettingRecords
      <4>2. Armer(t)' => r # "softTrigger" /\ ~(r = "arm" /\ v = armDisarm)
        BY <1>4 DEF Armer, Arms
      <4> QED BY <2>1, <4>1, <4>2 DEF Put, Allowed
    <3>2. /\ \A u \in Threads : pc[u] = "idle" /\ ~Armer(u)
          /\ ~CbBusy /\ queue = <<>> /\ ~hw.armed /\ ~hw.irq
      BY <1>1, <3>1 DEF Quiet, Armer, ArmSteps, CbBusy, CbOnly, Reading, Scanning
    <3>3. CASE r \in SettingRecords
      <4>1. ~Armer(t)'
        BY <1>4, <3>3 DEF Armer, Arms, SettingRecords
      <4> QED BY <1>1, <1>2, <1>5, <1>6, <3>2, <4>1 DEF SettingsAlone, UnderWay
    <3>4. CASE r \notin SettingRecords
      BY <1>3, <1>4, <3>2, <3>4 DEF SettingsAlone, NoSetting
    <3> QED BY <3>3, <3>4
  <2>2. CASE r \notin SettingRecords /\ ~Armer(t)'
    <3>1. UnderWay' => UnderWay
      BY <1>1, <1>2, <1>5, <1>6, <2>2 DEF UnderWay
    <3>2. NoSetting => NoSetting'
      BY <1>3, <1>4, <2>2 DEF NoSetting
    <3> QED BY <3>1, <3>2 DEF SetInv, SettingsAlone
  <2> QED BY <2>1, <2>2
<1>8. Counting' /\ Filling'
  BY <1>1, <1>2, <1>3, SetKept DEF SetInv
<1>9. IrqCounted' /\ Kind'
  BY <1>2 DEF SetInv, IrqCounted, Kind, armSupported
<1> QED BY <1>7, <1>8, <1>9 DEF SetInv

\* A transfer brings all that was asked for, or less of it if it may fail.
LEMMA TransferBrings ==
    ASSUME NEW n \in Int, NEW k \in Transfers(n)
    PROVE  /\ k \in Nat /\ k <= Samples(n) /\ Samples(n) \in Nat
           /\ ~(k < n) => k = Samples(n)
           /\ k < n => DmaMayFail
BY DEF Transfers, Samples

\* Events appended one by one are as many samples as all at once.
LEMMA OneMore ==
    ASSUME NEW room \in Nat, NEW n \in Nat, n > 0, NEW p \in Int
    PROVE  MinOf(room, MinOf(room, Samples(n * p)) + Samples(p)) = MinOf(room, Samples((n + 1) * p))
<1>1. n * p \in Int /\ (n + 1) * p = n * p + p
  OBVIOUS
<1>2. CASE p > 0
  <2>1. n * p > 0
    BY <1>2
  <2> DEFINE np == n * p
  <2>2. np \in Int /\ np > 0 /\ (n + 1) * p = np + p
    BY <1>1, <2>1
  <2> HIDE DEF np
  <2>3. MinOf(room, MinOf(room, Samples(np)) + Samples(p)) = MinOf(room, Samples(np + p))
    BY <1>2, <2>2 DEF MinOf, Samples
  <2> QED BY <2>2, <2>3 DEF np
<1>3. CASE ~(p > 0)
  <2>1. n * p <= 0
    BY <1>3
  <2> DEFINE np == n * p
  <2>2. np \in Int /\ np <= 0 /\ (n + 1) * p = np + p
    BY <1>1, <2>1
  <2> HIDE DEF np
  <2>3. MinOf(room, MinOf(room, Samples(np)) + Samples(p)) = MinOf(room, Samples(np + p))
    BY <1>3, <2>2 DEF MinOf, Samples
  <2> QED BY <2>2, <2>3 DEF np
<1> QED BY <1>2, <1>3

LEMMA LessFits ==
    ASSUME NEW room \in Nat, NEW a \in Nat, NEW b \in Nat, a <= b
    PROVE  MinOf(room, a) <= MinOf(room, b)
BY DEF MinOf

\* What a copy leaves in a channel of a card that is disarmed: the first one,
\* and the one after n of the same size.
LEMMA CopiedFirst ==
    ASSUME NEW c \in Channels, ChanLen[c] \in Nat, Empty(c), ~hw.armed,
           NEW p \in Int, NEW k \in Transfers(p)
    PROVE  Brought(Appended(c, k, p), c, Samples(p))
<1>1. /\ k \in Nat /\ k <= Samples(p) /\ Samples(p) \in Nat
      /\ ~(k < p) => k = Samples(p)
      /\ k < p => DmaMayFail
  BY TransferBrings
<1>2. Appended(c, k, p) =
          [ndata |-> MinOf(ChanLen[c], k), of |-> IF k < p THEN "part" ELSE "last"]
  BY <1>1 DEF Appended, Origin, Empty
<1>3. MinOf(ChanLen[c], k) <= MinOf(ChanLen[c], Samples(p))
  BY <1>1, LessFits
<1>4. CASE k < p
  BY <1>1, <1>2, <1>3, <1>4 DEF Brought, Part
<1>5. CASE ~(k < p)
  BY <1>1, <1>2, <1>5 DEF Brought, Whole
<1> QED BY <1>4, <1>5

LEMMA CopiedNext ==
    ASSUME NEW c \in Channels, ChanLen[c] \in Nat, chan[c] \in ChannelData, ~hw.armed,
           NEW n \in Nat, n > 0, NEW p \in Int, Holds(c, Samples(n * p)),
           NEW k \in Transfers(p)
    PROVE  Brought(Appended(c, k, p), c, Samples((n + 1) * p))
<1> DEFINE room   == ChanLen[c]
           before == MinOf(room, Samples(n * p))
           after  == MinOf(room, Samples((n + 1) * p))
<1>1. /\ k \in Nat /\ k <= Samples(p) /\ Samples(p) \in Nat
      /\ ~(k < p) => k = Samples(p)
      /\ k < p => DmaMayFail
  BY TransferBrings
<1>2. MinOf(room, before + Samples(p)) = after
  BY OneMore
<1>3. before \in Nat
  <2>1. n * p \in Int
    OBVIOUS
  <2> QED BY <2>1 DEF MinOf, Samples
<1>4. chan[c].ndata \in Nat /\ chan[c].ndata <= before
  BY <1>3 DEF Holds, Brought, Whole, Part, ChannelData
<1>5. Appended(c, k, p) = [ndata |-> MinOf(room, chan[c].ndata + k), of |-> Origin(c, k, p)]
  BY DEF Appended
<1>6. MinOf(room, chan[c].ndata + k) <= after
  <2> DEFINE a == chan[c].ndata + k
             b == before + Samples(p)
  <2>1. a \in Nat /\ b \in Nat /\ a <= b
    BY <1>1, <1>3, <1>4
  <2> HIDE DEF a, b
  <2>2. MinOf(room, a) <= MinOf(room, b)
    BY <2>1, LessFits
  <2> QED BY <1>2, <2>2 DEF a, b
<1>7. CASE Whole(chan[c], c, Samples(n * p)) /\ ~(k < p)
  <2>1. chan[c].ndata = before /\ Origin(c, k, p) = "last" /\ k = Samples(p)
    BY <1>1, <1>7 DEF Whole, Origin
  <2>2. Appended(c, k, p) = [ndata |-> after, of |-> "last"]
    BY <1>2, <1>5, <2>1
  <2> QED BY <2>2 DEF Brought, Whole
<1>8. CASE Part(chan[c], c, Samples(n * p)) \/ (Whole(chan[c], c, Samples(n * p)) /\ k < p)
  <2>1. DmaMayFail /\ Origin(c, k, p) = "part"
    BY <1>1, <1>8 DEF Whole, Part, Origin
  <2>2. Appended(c, k, p).of = "part" /\ Appended(c, k, p).ndata <= after
    BY <1>5, <1>6, <2>1
  <2> QED BY <2>1, <2>2 DEF Brought, Part
<1> QED BY <1>7, <1>8 DEF Holds, Brought

\* What the settings ask for is a number.
LEMMA AskedType ==
    ASSUME TypeOK
    PROVE  /\ PostSetSize \in Int /\ numberEvents \in 1 .. 16
           /\ SamplesPerEvent(numberEvents) \in Int
           /\ SetSize \in Nat
<1>1. cfg \in Settings /\ cfg.pts \in Int /\ cfg.pte \in Int /\ ArraySize \in Int
  BY CardAssumption DEF TypeOK, CardTypeOK, Settings
<1>2. \A a, b \in Int : MinOf(a, b) \in Int /\ a * b \in Int
  BY DEF MinOf
<1>3. PostSetSize \in Int
  <2>1. cfg.pts * cfg.pte \in Int
    BY <1>1, <1>2, Zenon
  <2> QED BY <1>1, <1>2, <2>1, Zenon DEF PostSetSize
<1>4. numberEvents \in 1 .. 16
  BY <1>1, NumberEventsType
<1>5. SamplesPerEvent(numberEvents) \in Int
  BY <1>1, <1>4, SamplesPerEventType
<1>6. numberEvents * SamplesPerEvent(numberEvents) \in Int
  BY <1>2, <1>4, <1>5
<1>7. \A n \in Int : Samples(n) \in Nat
  BY DEF Samples
<1>8. SetSize \in Nat
  BY <1>3, <1>6, <1>7, Zenon DEF SetSize
<1> QED BY <1>3, <1>4, <1>5, <1>8

\* readPostTrigger copies the whole set to two channels per turn.
LEMMA GroupCopied ==
    ASSUME IInv, SetInv, ~hw.armed, OnTheWay, pc[Cb] = "group",
           ReadGroup, UNCHANGED <<arm, cfg, completed>>
    PROVE  \A c \in Channels : IF GroupOf(c) < rd.next + 1 THEN Holds(c, completed)' ELSE Empty(c)'
<1>1. /\ arm = armPostTrigger /\ rd.next < NGroups /\ completed = SetSize
      /\ \A c \in Channels : IF GroupOf(c) < rd.next THEN Holds(c, completed) ELSE Empty(c)
  BY DEF SetInv, Counting, Filling, Grouped
<1>2. PostSetSize \in Int /\ completed = Samples(PostSetSize)
  <2>1. PostSetSize \in Int
    BY AskedType DEF IInv
  <2>2. SetSize = Samples(PostSetSize)
    BY <1>1 DEF SetSize, armPostTrigger, armPrePostTrigger
  <2> QED BY <1>1, <2>1, <2>2
<1>3. PICK k \in Transfers(PostSetSize) :
         chan' = [c \in Channels |-> IF c \in {Low(rd.next), High(rd.next)}
                                     THEN Appended(c, k, PostSetSize) ELSE chan[c]]
  BY DEF ReadGroup
<1>4. rd.next \in Nat /\ NGroups \in Nat /\ \A c \in Channels : ChanLen[c] \in Nat
  BY CardAssumption DEF IInv, TypeOK, CardTypeOK, Locals, Channels
<1> SUFFICES ASSUME NEW c \in Channels
             PROVE  IF GroupOf(c) < rd.next + 1 THEN Holds(c, completed)' ELSE Empty(c)'
  OBVIOUS
<1>5. c \in Int /\ c >= 0 /\ c < 2 * NGroups
  BY <1>4 DEF Channels
<1>6. c \in {Low(rd.next), High(rd.next)} <=> GroupOf(c) = rd.next
  BY <1>1, <1>4, <1>5 DEF Low, High, GroupOf
<1>7. GroupOf(c) \in Int
  BY <1>4, <1>5 DEF GroupOf
<1>8. CASE GroupOf(c) = rd.next
  <2>1. Empty(c)
    BY <1>1, <1>4, <1>8
  <2>2. chan'[c] = Appended(c, k, PostSetSize)
    BY <1>3, <1>6, <1>8
  <2>3. Brought(Appended(c, k, PostSetSize), c, completed)
    BY <1>2, <1>4, <2>1, CopiedFirst
  <2>4. Holds(c, completed)'
    BY <2>2, <2>3 DEF Holds, Brought, Whole, Part
  <2> QED BY <1>4, <1>8, <2>4
<1>9. CASE GroupOf(c) # rd.next
  <2>1. chan'[c] = chan[c]
    BY <1>3, <1>6, <1>9
  <2>2. (GroupOf(c) < rd.next + 1) <=> (GroupOf(c) < rd.next)
    BY <1>4, <1>7, <1>9
  <2> QED BY <1>1, <2>1, <2>2 DEF Holds, Brought, Whole, Part, Empty
<1> QED BY <1>8, <1>9

\* readPrePostTrigger appends one event to every channel per turn.
LEMMA EventCopied ==
    ASSUME IInv, SetInv, ~hw.armed, OnTheWay, pc[Cb] = "event", ReadEvent
    PROVE  \A c \in Channels : Brought(chan'[c], c, Samples((rd.next + 1) * rd.pps))
<1>1. /\ arm = armPrePostTrigger /\ rd.nev = numberEvents /\ hw.events = numberEvents
      /\ \A c \in Channels :
            IF rd.next > 0 THEN Holds(c, Samples(rd.next * rd.pps)) ELSE Empty(c)
  BY DEF SetInv, Counting, Filling, Appending
<1>2. /\ rd.next \in Nat /\ rd.pps \in Int
      /\ \A c \in Channels : ChanLen[c] \in Nat /\ chan[c] \in ChannelData
  BY CardAssumption DEF IInv, TypeOK, CardTypeOK, Locals, Channels
<1>3. PICK k \in [Channels -> Transfers(rd.pps)] :
         chan' = [c \in Channels |-> Appended(c, k[c], rd.pps)]
  BY <1>1 DEF ReadEvent
<1> SUFFICES ASSUME NEW c \in Channels
             PROVE  Brought(Appended(c, k[c], rd.pps), c, Samples((rd.next + 1) * rd.pps))
  BY <1>3
<1>4. k[c] \in Transfers(rd.pps)
  BY <1>3
<1>5. CASE rd.next = 0
  <2>1. (rd.next + 1) * rd.pps = rd.pps
    BY <1>2, <1>5
  <2>2. Brought(Appended(c, k[c], rd.pps), c, Samples(rd.pps))
    BY <1>1, <1>2, <1>4, <1>5, CopiedFirst
  <2> QED BY <2>1, <2>2
<1>6. CASE rd.next > 0
  <2>1. Holds(c, Samples(rd.next * rd.pps))
    BY <1>1, <1>6
  <2> QED BY <1>2, <1>4, <1>6, <2>1, CopiedNext
<1> QED BY <1>2, <1>5, <1>6

\* The callback task reads what was counted, and posts it.
LEMMA CallbackSetInv ==
    ASSUME HasWaveforms, IInv, Token, SetInv, Callback
    PROVE  SetInv'
<1>1. /\ UNCHANGED <<type, arm, cfg, hw>> /\ Cb \in Threads
      /\ numberEvents' = numberEvents /\ SetSize' = SetSize
      /\ SamplesPerEvent(numberEvents)' = SamplesPerEvent(numberEvents)
  BY CallbackQuiet DEF Threads, numberEvents, SetSize, SamplesPerEvent, PostSetSize
<1>2. CbBusy \/ queue # <<>>
  BY Zenon DEF Callback, MyCallback, Scan, Dequeue, ReadMemory, ReadNone, ReadStart, Choose, Group,
         Event, ReadStep, ScanIoRequest, Waveforms, ScanRestart, CbBusy, CbOnly, Reading, Scanning
<1>3. ~hw.armed
  BY <1>2 DEF Token, Still
<1>4. SettingsAlone'
  <2>1. NoSetting
    BY <1>2 DEF SetInv, SettingsAlone, UnderWay
  <2>2. CASE ScanRestart
    <3>1. req'[Cb].rec = "autoRestart" /\ \A u \in Threads \ {Cb} : req'[u] = req[u]
      BY <1>1, <2>2 DEF ScanRestart, IInv, TypeOK, DevTypeOK
    <3>2. \A u \in Threads \ {Cb} : pc'[u] = pc[u]
      BY <1>1, <2>2, Moved DEF ScanRestart, IInv
    <3> QED BY <2>1, <3>1, <3>2 DEF SettingsAlone, NoSetting, SettingRecords
  <2>3. CASE ~ScanRestart
    <3>1. /\ UNCHANGED req
          /\ \E where \in {"read", "scanRequest", "waveforms", "choose", "group", "event",
                           "idle", "restart"} : Goto(Cb, where)
      BY <2>3, Zenon DEF Callback, MyCallback, Scan, Dequeue, ReadMemory, ReadNone, ReadStart,
          Choose, Group, Event, ReadStep, ScanIoRequest, Waveforms
    <3>2. pc'[Cb] \notin {"lock", "call"} /\ \A u \in Threads \ {Cb} : pc'[u] = pc[u]
      BY <1>1, <3>1, Moved DEF IInv
    <3> QED BY <2>1, <3>1, <3>2 DEF SettingsAlone, NoSetting
  <2> QED BY <2>2, <2>3
<1>5. IrqCounted' /\ Kind'
  BY <1>1 DEF SetInv, IrqCounted, Kind, armSupported
<1>6. Counting' /\ Filling'
  <2>1. CASE ~OnTheWay'
    BY <2>1 DEF Counting, Filling
  <2>2. SUFFICES ASSUME OnTheWay' PROVE Counting' /\ Filling'
    BY <2>1
  <2>3. arm # armDisarm /\ arm' # armDisarm
    BY <1>1, <2>2 DEF OnTheWay
  <2>4. pc[Cb] # "restart"
    <3>1. ASSUME pc[Cb] = "restart" PROVE FALSE
      <4>1. ScanRestart
        BY <3>1, Zenon DEF Callback, MyCallback, Scan, Dequeue, ReadMemory, ReadNone, ReadStart,
          Choose, Group, Event, ReadStep, ScanIoRequest, Waveforms
      <4>2. pc'[Cb] = "lock" /\ queue' = <<>>
        BY <1>1, <3>1, <4>1, Moved DEF ScanRestart, IInv, Token, OneEntry, CbBusy, CbOnly, Scanning
      <4> QED BY <2>2, <4>2 DEF OnTheWay, CbOnly, Reading, Scanning
    <3> QED BY <3>1
  <2>5. OnTheWay
    BY <1>2, <2>3, <2>4 DEF OnTheWay, CbBusy
  <2>6. /\ arm \in {armPostTrigger, armPrePostTrigger} /\ completed = SetSize
        /\ arm = armPrePostTrigger => hw.events = numberEvents
        /\ armSupported(arm)
        /\ Cleared /\ Grouped /\ Appending /\ Full
    BY <2>5 DEF SetInv, Counting, Filling, Kind
  <2>7. CASE MyCallback \/ Scan
    <3>1. /\ queue # <<>> /\ queue' = Tail(queue) /\ UNCHANGED <<completed, chan>>
          /\ \/ Goto(Cb, "read")
             \/ Goto(Cb, "waveforms") /\ Head(queue) = "scan"
      BY <2>7 DEF MyCallback, Scan, Dequeue, cardVars
    <3>2. queue = <<Head(queue)>> /\ queue' = <<>>
      <4>1. queue \in Seq({"read", "scan"}) /\ Len(queue) <= 1
        BY DEF IInv, TypeOK, DevTypeOK, Token, OneEntry
      <4>2. Len(queue) \in Nat \ {0}
        BY <3>1, <4>1, EmptySeq
      <4>3. Len(queue) \in Nat /\ Len(queue) # 0 /\ Len(queue) <= 1
        BY <4>1, <4>2
      <4>4. Len(queue) = 1
        BY ONLY <4>3
      <4> QED BY <3>1, <4>1, <4>4, EmptySeq
    <3>3. pc'[Cb] = "read" \/ (pc'[Cb] = "waveforms" /\ queue = <<"scan">>)
      BY <1>1, <3>1, <3>2, Moved DEF IInv
    <3>4. queue = <<"scan">> => \A c \in Channels : Holds(c, completed)'
      BY <2>6, <3>1 DEF Full, Holds
    <3>5. Full'
      BY <3>2, <3>3, <3>4 DEF Full, Holds
    <3>6. Cleared' /\ Grouped' /\ Appending'
      BY <3>3 DEF Cleared, Grouped, Appending
    <3> QED BY <1>1, <2>6, <3>1, <3>5, <3>6 DEF Counting, Filling
  <2>8. ASSUME NEW from, NEW to, ReadStep(from, to), from \in Reading
        PROVE  /\ UNCHANGED <<queue, completed>> /\ queue = <<>> /\ pc'[Cb] = to /\ pc[Cb] = from
               /\ Counting'
    <3>1. UNCHANGED <<queue, completed>> /\ pc'[Cb] = to /\ pc[Cb] = from
      BY <1>1, <2>8, Moved DEF ReadStep, IInv
    <3>2. queue = <<>>
      BY <2>8, <3>1 DEF Token, OneEntry, CbBusy, CbOnly
    <3> QED BY <1>1, <2>6, <3>1, <3>2 DEF Counting
  <2> USE DEF Reading
  <2>9. CASE ReadNone
    BY <2>3, <2>6, <2>9 DEF ReadNone, ReadNothing, armSupported
  <2>10. CASE ReadStart
    <3>1. chan' = EmptyChannels /\ queue' = <<>> /\ pc'[Cb] = "choose" /\ Counting'
      BY <2>8, <2>10 DEF ReadStart, ReadClear
    <3>2. \A c \in Channels : Empty(c)'
      BY <3>1 DEF EmptyChannels, Empty
    <3> QED BY <3>1, <3>2 DEF Filling, Cleared, Grouped, Appending, Full
  <2>11. CASE Choose
    <3>1. /\ pc[Cb] = "choose" /\ queue' = <<>> /\ Counting' /\ UNCHANGED chan
          /\ pc'[Cb] = (IF arm = armPostTrigger THEN "group" ELSE "event")
      BY <2>6, <2>8, <2>11 DEF Choose
    <3>2. \A c \in Channels : Empty(c)'
      BY <2>6, <3>1 DEF Cleared, Empty
    <3>3. rd' = IF arm = armPrePostTrigger
                THEN [next |-> 0, pps |-> SamplesPerEvent(numberEvents), nev |-> numberEvents]
                ELSE NoLocals
      BY <2>11 DEF Choose, ReadChoose
    <3>4. rd'.next = 0
      BY <3>3 DEF NoLocals
    <3>5. \A c \in Channels : GroupOf(c) \in Nat /\ NGroups \in Nat \ {0}
      BY CardAssumption DEF GroupOf, Channels
    <3>6. Grouped'
      <4> SUFFICES ASSUME pc'[Cb] = "group" PROVE Grouped'
        BY DEF Grouped
      <4>1. arm' = armPostTrigger /\ rd'.next < NGroups
        BY <1>1, <3>1, <3>4, CardAssumption
      <4>2. \A c \in Channels : ~(GroupOf(c) < rd'.next)
        BY <3>4, <3>5
      <4> QED BY <3>2, <4>1, <4>2 DEF Grouped
    <3>7. Appending'
      <4> SUFFICES ASSUME pc'[Cb] = "event" PROVE Appending'
        BY DEF Appending
      <4>1. arm = armPrePostTrigger
        BY <2>6, <3>1
      <4>2. rd'.nev = numberEvents /\ rd'.pps = SamplesPerEvent(numberEvents)
        BY <3>3, <4>1
      <4>3. rd'.next < rd'.nev /\ ~(rd'.next > 0)
        <5>1. numberEvents \in 1 .. 16
          BY AskedType DEF IInv
        <5> QED BY <3>4, <4>2, <5>1
      <4> QED BY <1>1, <3>2, <4>1, <4>2, <4>3 DEF Appending
    <3> QED BY <3>1, <3>6, <3>7 DEF Filling, Cleared, Full
  <2>12. CASE Group
    <3>1. /\ pc[Cb] = "group" /\ queue' = <<>> /\ Counting' /\ UNCHANGED completed /\ ReadGroup
          /\ pc'[Cb] = (IF rd.next + 1 = NGroups THEN "scanRequest" ELSE "group")
      BY <2>8, <2>12 DEF Group
    <3>2. /\ rd.next \in Nat /\ NGroups \in Nat
          /\ \A c \in Channels : GroupOf(c) \in Int /\ GroupOf(c) < NGroups
      BY CardAssumption DEF IInv, TypeOK, CardTypeOK, Locals, GroupOf, Channels
    <3>3. \A c \in Channels :
             IF GroupOf(c) < rd.next + 1 THEN Holds(c, completed)' ELSE Empty(c)'
      BY <1>1, <1>3, <2>5, <3>1, GroupCopied
    <3>4. CASE rd.next + 1 = NGroups
      <4>1. \A c \in Channels : Holds(c, completed)'
        BY <3>2, <3>3, <3>4
      <4> QED BY <3>1, <3>4, <4>1 DEF Filling, Cleared, Grouped, Appending, Full, Holds
    <3>5. CASE rd.next + 1 # NGroups
      <4>1. rd'.next = rd.next + 1
        BY <3>1, <3>5 DEF ReadGroup, NextTurn, IInv, TypeOK, CardTypeOK, Locals
      <4>2. arm' = armPostTrigger /\ rd'.next < NGroups
        BY <1>1, <2>6, <3>1, <3>2, <3>5, <4>1 DEF Grouped
      <4>3. Grouped'
        BY <3>3, <4>1, <4>2 DEF Grouped, Holds
      <4> QED BY <3>1, <3>5, <4>3 DEF Filling, Cleared, Appending, Full
    <3> QED BY <3>4, <3>5
  <2>13. CASE Event
    <3>1. /\ pc[Cb] = "event" /\ queue' = <<>> /\ Counting' /\ UNCHANGED completed /\ ReadEvent
          /\ pc'[Cb] = (IF rd.next + 1 = rd.nev THEN "scanRequest" ELSE "event")
      BY <2>8, <2>13 DEF Event
    <3>2. /\ arm = armPrePostTrigger /\ rd.next < rd.nev
          /\ rd.nev = numberEvents /\ rd.pps = SamplesPerEvent(numberEvents)
      BY <2>6, <3>1 DEF Appending
    <3>3. rd \in Locals /\ rd.next \in Nat /\ rd.nev \in Nat
      BY DEF IInv, TypeOK, CardTypeOK, Locals
    <3>4. \A c \in Channels : Brought(chan'[c], c, Samples((rd.next + 1) * rd.pps))
      BY <1>3, <2>5, <3>1, EventCopied
    <3>5. CASE rd.next + 1 = rd.nev
      <4>1. completed = Samples((rd.next + 1) * rd.pps)
        BY <2>6, <3>2, <3>5 DEF SetSize
      <4>2. \A c \in Channels : Holds(c, completed)'
        BY <3>1, <3>4, <4>1 DEF Holds
      <4> QED BY <3>1, <3>5, <4>2 DEF Filling, Cleared, Grouped, Appending, Full, Holds
    <3>6. CASE rd.next + 1 # rd.nev
      <4>1. rd'.next = rd.next + 1 /\ rd'.nev = rd.nev /\ rd'.pps = rd.pps
        BY <3>1, <3>3, <3>6 DEF ReadEvent, NextTurn, Locals
      <4>2. arm' = armPrePostTrigger /\ rd'.next < rd'.nev /\ rd'.next > 0
        BY <1>1, <3>2, <3>3, <3>6, <4>1
      <4>3. rd'.nev = numberEvents' /\ rd'.pps = SamplesPerEvent(numberEvents)'
        BY <1>1, <3>2, <4>1
      <4>4. Appending'
        BY <3>4, <4>1, <4>2, <4>3 DEF Appending, Holds
      <4> QED BY <3>1, <3>6, <4>4 DEF Filling, Cleared, Grouped, Full
    <3> QED BY <3>5, <3>6
  <2>14. CASE ScanIoRequest
    <3>1. pc[Cb] = "scanRequest" /\ Goto(Cb, "idle") /\ UNCHANGED <<completed, chan>>
      BY <2>14 DEF ScanIoRequest, cardVars
    <3>2. pc'[Cb] = "idle"
      BY <1>1, <3>1, Moved DEF IInv
    <3>3. \A c \in Channels : Holds(c, completed)'
      BY <2>6, <3>1 DEF Full, Holds
    <3>4. Full'
      BY <3>3 DEF Full, Holds
    <3> QED BY <1>1, <2>6, <3>1, <3>2, <3>4 DEF Counting, Filling, Cleared, Grouped, Appending
  <2>15. CASE Waveforms \/ ScanRestart
    <3>1. queue = <<>> /\ queue' = queue /\ (Goto(Cb, "restart") \/ Goto(Cb, "lock"))
      BY <2>15 DEF Waveforms, ScanRestart, Token, OneEntry, CbBusy, CbOnly, Scanning
    <3>2. pc'[Cb] = "restart" \/ pc'[Cb] = "lock"
      BY <1>1, <3>1, Moved DEF IInv
    <3> QED BY <2>2, <3>1, <3>2 DEF OnTheWay, CbOnly, Scanning
  <2> QED
    BY <2>7, <2>9, <2>10, <2>11, <2>12, <2>13, <2>14, <2>15 DEF Callback, ReadMemory
<1> QED BY <1>4, <1>5, <1>6 DEF SetInv

\* The interrupt that completes a set finds all of it recorded.
LEMMA WholeSetRecorded ==
    ASSUME IInv, Token, CycleInv, SetInv, InterruptComplete
    PROVE  /\ arm \in {armPostTrigger, armPrePostTrigger} /\ Recorded = SetSize
           /\ arm = armPrePostTrigger => hw.events = numberEvents
<1>1. hw.irq /\ ~isRebooting /\ arm # armDisarm /\ ~SetIncomplete
  BY DEF InterruptComplete, CompleteInterrupt
<1>2. hw.armed
  BY <1>1 DEF CycleInv, Abandoned
<1>3. NobodyDisarms
  <2> SUFFICES ASSUME NEW t \in Threads, pc[t] = "disarm" PROVE FALSE
    BY DEF NobodyDisarms
  <2>1. ~Armer(t)
    BY <1>2 DEF Token, Still
  <2> QED BY <1>1, <2>1 DEF Token, Disarms, ArmSteps
<1>4. arm \in {armPostTrigger, armPrePostTrigger} /\ Matches
  BY <1>1, <1>2, <1>3 DEF IInv, ArmInv, Recording
<1>5. hw \in Hardware /\ hw.count \in Nat /\ hw.events \in 1 .. 16 /\ cfg.pte \in Int
  BY CardAssumption DEF IInv, TypeOK, CardTypeOK, Hardware, Settings
<1>6. hw.count > 0
  BY <1>1 DEF SetInv, IrqCounted
<1>7. CASE arm = armPostTrigger
  <2>1. ~hw.prePost /\ hw.gate = cfg.pts
    BY <1>4, <1>7 DEF Matches, armPostTrigger, armPrePostTrigger
  <2>2. MinOf(hw.count, cfg.pte) = cfg.pte
    <3>1. CASE type = "vtr10012_8"
      BY <1>5, <1>6, <3>1 DEF SetInv, Kind, MinOf
    <3>2. CASE type # "vtr10012_8"
      BY <1>1, <1>5, <1>7, <3>2 DEF SetIncomplete, MinOf
    <3> QED BY <3>1, <3>2
  <2>3. Recorded = Samples(PostSetSize)
    BY <2>1, <2>2, Zenon DEF Recorded, PostSetSize
  <2>4. arm # armPrePostTrigger
    BY <1>7 DEF armPostTrigger, armPrePostTrigger
  <2> QED BY <1>7, <2>3, <2>4, Zenon DEF SetSize
<1>8. CASE arm = armPrePostTrigger
  <2>1. hw.prePost /\ hw.events = numberEvents
    BY <1>4, <1>8 DEF Matches
  <2>2. type # "vtr10012_8"
    BY <1>8 DEF SetInv, Kind, armSupported, armDisarm, armPostTrigger, armPrePostTrigger
  <2>3. MinOf(hw.count, hw.events) = hw.events
    BY <1>1, <1>5, <1>8, <2>1, <2>2 DEF SetIncomplete, MinOf
  <2>4. Recorded = Samples(numberEvents * SamplesPerEvent(numberEvents))
    BY <2>1, <2>3, Zenon DEF Recorded
  <2> QED BY <1>4, <1>8, <2>1, <2>4, Zenon DEF SetSize
<1> QED BY <1>4, <1>7, <1>8

LEMMA CardSetInv ==
    ASSUME IInv, Token, CycleInv, SetInv, Interrupt \/ Card
    PROVE  SetInv'
<1>1. UNCHANGED <<type, arm, cfg, chan, rd, pc, req>>
  BY DEF Interrupt, InterruptIgnored, InterruptComplete, Card, devVars, IgnoreInterrupt,
         CompleteInterrupt, HwTrigger, HwGateDone
<1>2. hw \in Hardware /\ CountCap \in Nat \ {0} /\ (hw.running => hw.armed)
  BY CardAssumption DEF IInv, TypeOK, CardTypeOK, ArmInv, Running
<1>3. /\ hw'.armed => hw.armed
      /\ hw'.irq => hw.irq \/ hw.armed
      /\ hw'.irq => hw'.count > 0
      /\ hw'.events = hw.events
  <2>1. hw.count \in Nat /\ (hw.irq => hw.count > 0)
    BY <1>2 DEF SetInv, IrqCounted, Hardware
  <2>2. CASE InterruptIgnored
    BY <1>2, <2>1, <2>2 DEF InterruptIgnored, IgnoreInterrupt, Disarmed, Acknowledged, Hardware
  <2>3. CASE InterruptComplete
    BY <1>2, <2>1, <2>3 DEF InterruptComplete, CompleteInterrupt, Disarmed, Acknowledged, Hardware
  <2>4. CASE HwTrigger
    BY <1>2, <2>1, <2>4 DEF HwTrigger, Hardware
  <2>5. CASE HwGateDone
    <3>1. MinOf(hw.count + 1, CountCap) > 0
      BY <1>2, <2>1 DEF MinOf
    <3>2. /\ hw.armed
          /\ hw' = [hw EXCEPT !.running = FALSE, !.count = MinOf(hw.count + 1, CountCap),
                              !.irq = hw.irqOn]
      BY <1>2, <2>5 DEF HwGateDone
    <3> QED BY <1>2, <3>1, <3>2 DEF Hardware
  <2> QED BY <2>2, <2>3, <2>4, <2>5 DEF Interrupt, Card
<1>4. \A t \in Threads : Armer(t)' <=> Armer(t)
  BY <1>1 DEF Armer, Arms
<1>5. IrqCounted' /\ Kind'
  BY <1>1, <1>3 DEF SetInv, IrqCounted, Kind, armSupported
<1>6. NoSetting' <=> NoSetting
  BY <1>1 DEF NoSetting
<1>7. CASE InterruptComplete
  <2>1. hw.irq /\ queue' = Queued("read") /\ completed' = Recorded
    BY <1>7 DEF InterruptComplete, CompleteInterrupt
  <2>2. ~CbBusy /\ queue = <<>>
    BY <2>1 DEF Token, Still
  <2>3. queue' = <<"read">>
    BY <2>1, <2>2, GtrAssumption DEF Queued
  <2>4. SettingsAlone'
    BY <1>6, <2>1 DEF SetInv, SettingsAlone, UnderWay
  <2>5. numberEvents' = numberEvents /\ SetSize' = SetSize
    BY <1>1 DEF numberEvents, SetSize, SamplesPerEvent, PostSetSize
  <2>6. Counting'
    BY <1>1, <1>3, <1>7, <2>1, <2>5, WholeSetRecorded DEF Counting
  <2>7. Filling'
    BY <1>1, <2>2, <2>3
       DEF Filling, Cleared, Grouped, Appending, Full, CbBusy, CbOnly, Reading, Scanning
  <2> QED BY <1>5, <2>4, <2>6, <2>7 DEF SetInv
<1>8. CASE ~InterruptComplete
  <2>1. UNCHANGED <<queue, completed>>
    BY <1>8 DEF Interrupt, InterruptIgnored, Card, devVars
  <2>2. UnderWay' => UnderWay
    BY <1>1, <1>3, <1>4, <2>1 DEF UnderWay, CbBusy
  <2>3. SettingsAlone'
    BY <1>6, <2>2 DEF SetInv, SettingsAlone
  <2>4. Counting' /\ Filling'
    BY <1>1, <1>3, <2>1, SetKept DEF SetInv
  <2> QED BY <1>5, <2>3, <2>4 DEF SetInv
<1> QED BY <1>7, <1>8

LEMMA SetInvStep ==
    ASSUME OperatorWaits, HasWaveforms, ~MayReboot,
           IInv, Token, CycleInv, SetInv, [Next]_vars
    PROVE  SetInv'
<1>1. ASSUME NEW t \in Clients, NEW r \in Records, NEW v, Put(t, r, v) PROVE SetInv'
  BY <1>1, PutSetInv
<1>2. ASSUME NEW t \in Threads, Lock(t) \/ Write(t) PROVE SetInv'
  BY <1>2, WriteSetInv
<1>3. CASE UNCHANGED vars
  <2>1. UNCHANGED <<type, arm, cfg, hw, chan, rd, pc, req, queue, completed>>
    BY <1>3 DEF vars, cardVars, devVars
  <2>2. SettingsAlone' /\ IrqCounted' /\ Kind'
    BY <2>1 DEF SetInv, SettingsAlone, UnderWay, CbBusy, Armer, Arms, NoSetting, IrqCounted, Kind,
                armSupported
  <2>3. Counting' /\ Filling'
    BY <2>1, SetKept DEF SetInv
  <2> QED BY <2>2, <2>3 DEF SetInv
<1> QED BY <1>1, <1>2, <1>3, CallbackSetInv, CardSetInv DEF Next, Exit

\* Whatever the settings and however the interrupt, the ring buffer, the
\* unlocked read and the scans interleave with the clients that wait: what the
\* waveforms show is the set whose completion caused the scan, whole, as much
\* as each channel has room for, or of that set no more than that where a DMA
\* transfer failed, unless the card was disarmed on the way.
THEOREM CompleteSetIsPosted ==
    ASSUME OperatorWaits, HasWaveforms, ~MayReboot
    PROVE  Spec => []CompleteSetPosted
<1>1. IInv /\ Token /\ CycleInv /\ [Next]_vars => CycleInv'
  BY CycleInvStep
<1>2. IInv /\ Token /\ CycleInv /\ SetInv /\ [Next]_vars => SetInv'
  BY SetInvStep
<1>3. Spec => [](IInv /\ Token)
  BY TokenHolds
<1>4. SetInv => CompleteSetPosted
  <2>1. SetInv /\ pc[Cb] = "waveforms" /\ arm # armDisarm => OnTheWay
    BY DEF OnTheWay, CbOnly, Scanning
  <2>2. SetInv /\ pc[Cb] = "waveforms" /\ arm # armDisarm
            => \A c \in Channels : Holds(c, completed)
    BY <2>1 DEF SetInv, Filling, Full
  <2>3. ASSUME NEW c \in Channels, Holds(c, completed)
        PROVE  LET room == MinOf(ChanLen[c], completed) IN
               \/ chan[c].of = "last" /\ chan[c].ndata = room
               \/ DmaMayFail /\ chan[c].of = "part" /\ chan[c].ndata <= room
    BY <2>3 DEF Holds, Brought, Whole, Part
  <2> QED BY <2>2, <2>3 DEF CompleteSetPosted
<1> QED
  BY <1>1, <1>2, <1>3, <1>4, CycleInvInit, SetInvInit, PTL DEF Spec

=============================================================================
