--------------------------- MODULE GtrCardProofs ---------------------------
(***************************************************************************)
(* Proofs about GtrCard, for any number of tasks, any card memory, any      *)
(* values of the records, with or without a waiting operator and the exit   *)
(* hook.                                                                    *)
(***************************************************************************)
EXTENDS GtrCard, TLAPS

-----------------------------------------------------------------------------
(* Facts about the operators *)

\* numberEvents[] has an entry for every multiEvent index the driver accepts.
LEMMA NumberEventsType ==
    ASSUME cfg \in Settings
    PROVE  numberEvents \in 1 .. 16
<1>1. NMultiEvent \in 1 .. 5
  BY CardAssumption
<1>2. cfg.ind + 1 \in 1 .. 5
  BY <1>1 DEF Settings
<1>3. QED
  BY <1>2 DEF numberEvents, NumberEvents

\* What readPrePostTrigger copies per event is an integer.
LEMMA SamplesPerEventType ==
    ASSUME cfg \in Settings, NEW nev \in Nat, nev # 0
    PROVE  SamplesPerEvent(nev) \in Int
<1>1. ArraySize \div nev \in Int
  BY CardAssumption
<1>2. QED
  BY <1>1 DEF SamplesPerEvent, EventSize, MinOf, Settings

\* callbackRequest keeps the ring buffer within its size.
LEMMA QueuedType ==
    ASSUME queue \in Seq({"read", "scan"}), Len(queue) <= QueueSize,
           NEW entry \in {"read", "scan"}
    PROVE  Queued(entry) \in Seq({"read", "scan"}) /\ Len(Queued(entry)) <= QueueSize
  BY GtrAssumption DEF Queued

\* Copying never fills a channel beyond its room.
LEMMA AppendedType ==
    ASSUME CardTypeOK, NEW c \in Channels, NEW k \in Nat, NEW n \in Int
    PROVE  Appended(c, k, n) \in ChannelData /\ Appended(c, k, n).ndata <= ChanLen[c]
<1>1. chan[c] \in ChannelData /\ ChanLen[c] \in Nat
  BY CardAssumption DEF CardTypeOK, Channels
<1>2. MinOf(ChanLen[c], chan[c].ndata + k) \in Nat
      /\ MinOf(ChanLen[c], chan[c].ndata + k) <= ChanLen[c]
  BY <1>1 DEF MinOf, ChannelData
<1>3. Origin(c, k, n) \in Origins
  BY <1>1 DEF Origin, ChannelData, Origins
<1>4. QED
  BY <1>2, <1>3 DEF Appended, ChannelData

\* A transfer brings a natural number of samples.
LEMMA TransfersType ==
    ASSUME NEW n \in Int
    PROVE  Transfers(n) \subseteq Nat
  BY DEF Transfers

-----------------------------------------------------------------------------
(* Type correctness *)

LEMMA InitType == Init => TypeOK
<1> SUFFICES ASSUME Init PROVE TypeOK
  OBVIOUS
<1> USE CardAssumption, GtrAssumption
<1>1. cfg \in Settings
  BY DEF Init, CardInit, Settings, triggerSoft
<1>2. hw \in Hardware
  BY DEF Init, CardInit, ResetHardware, Hardware
<1>3. chan \in [Channels -> ChannelData] /\ \A c \in Channels : chan[c].ndata <= ChanLen[c]
  BY DEF Init, CardInit, EmptyChannels, ChannelData, Origins, Channels
<1>4. rd \in Locals
  BY DEF Init, CardInit, NoLocals, Locals
<1>5. CardTypeOK
  <2>1. type \in CardTypes /\ isRebooting \in BOOLEAN
    BY DEF Init, CardInit
  <2>2. arm \in Int
    BY DEF Init, CardInit, armDisarm
  <2>3. QED
    BY <1>1, <1>2, <1>3, <1>4, <2>1, <2>2 DEF CardTypeOK
<1>6. NoRequest \in Requests
  BY DEF NoRequest, Requests, Records, armDisarm
<1>7. queue \in Seq({"read", "scan"}) /\ Len(queue) <= QueueSize
  BY DEF Init
<1>8. QED
  BY <1>5, <1>6, <1>7 DEF Init, TypeOK, DevTypeOK, PcValues, Status, armDisarm

\* The setting methods keep the type of the settings.
LEMMA MethodType ==
    ASSUME CardTypeOK, NEW r \in SettingRecords, NEW v \in Int, NEW st \in Status,
           Method(r, v, st)
    PROVE  cfg' \in Settings
<1> USE DEF Settings, Refused, CardTypeOK
<1>1. CASE vtrclock(v, st)
  BY <1>1 DEF vtrclock
<1>2. CASE vtrtrigger(v, st)
  BY <1>2 DEF vtrtrigger
<1>3. CASE vtrmultiEvent(v, st)
  BY <1>3 DEF vtrmultiEvent
<1>4. CASE UNCHANGED cfg
  BY <1>4
<1>5. CASE vtrnumberPTS(v, st)
  BY <1>5 DEF vtrnumberPTS
<1>6. CASE vtrnumberPPS(v, st)
  BY <1>6 DEF vtrnumberPPS
<1>7. CASE vtrnumberPTE(v, st)
  BY <1>7 DEF vtrnumberPTE
<1>8. QED
  BY <1>1, <1>2, <1>3, <1>4, <1>5, <1>6, <1>7 DEF Method

\* The steps of the card, the interrupt and the exit hook keep the type of hw.
LEMMA CardStepType ==
    ASSUME CardTypeOK,
           HwTrigger \/ HwGateDone \/ IgnoreInterrupt \/ CompleteInterrupt \/ Reboot
    PROVE  CardTypeOK'
<1>1. hw' \in Hardware
  <2> USE CardAssumption DEF Hardware, CardTypeOK
  <2>1. CASE HwTrigger
    BY <2>1 DEF HwTrigger
  <2>2. CASE HwGateDone
    <3>1. MinOf(hw.count + 1, CountCap) \in 0 .. CountCap
      BY DEF MinOf
    <3>2. QED
      BY <2>2, <3>1 DEF HwGateDone
  <2>3. CASE IgnoreInterrupt
    BY <2>3 DEF IgnoreInterrupt, Acknowledged, Disarmed
  <2>4. CASE CompleteInterrupt
    BY <2>4 DEF CompleteInterrupt, Acknowledged, Disarmed
  <2>5. CASE Reboot
    BY <2>5 DEF Reboot, ResetHardware
  <2>6. QED
    BY <2>1, <2>2, <2>3, <2>4, <2>5
<1>2. isRebooting' \in BOOLEAN /\ UNCHANGED <<type, arm, cfg, chan, rd>>
  BY DEF CardTypeOK, HwTrigger, HwGateDone, IgnoreInterrupt, CompleteInterrupt, Reboot
<1>3. QED
  BY <1>1, <1>2 DEF CardTypeOK

\* The pieces of vtrarm and vtrsoftTrigger keep the type of the card.
LEMMA ArmPieceType ==
    ASSUME CardTypeOK
    PROVE  /\ ArmDisarm => hw' \in Hardware
           /\ ArmResetIrq => hw' \in Hardware
           /\ ArmSetup => hw' \in Hardware
           /\ vtrsoftTrigger => hw' \in Hardware
<1> USE CardAssumption DEF CardTypeOK, Hardware
<1>1. ArmDisarm => hw' \in Hardware
  BY DEF ArmDisarm, Disarmed
<1>2. ArmResetIrq => hw' \in Hardware
  BY DEF ArmResetIrq
<1>3. ASSUME ArmSetup PROVE hw' \in Hardware
  <2>1. numberEvents \in 1 .. 16
    BY NumberEventsType
  <2>2. cfg.pts \in Int
    BY DEF Settings
  <2>3. (IF arm = armPrePostTrigger THEN numberEvents
         ELSE IF arm = armPostTrigger THEN 1 ELSE hw.events) \in 1 .. 16
    BY <2>1
  <2>4. (arm = armPrePostTrigger) \in BOOLEAN /\ 0 \in 0 .. CountCap
    OBVIOUS
  <2>5. QED
    BY <1>3, <2>2, <2>3, <2>4, Zenon DEF ArmSetup
<1>4. vtrsoftTrigger => hw' \in Hardware
  BY DEF vtrsoftTrigger
<1>5. QED
  BY <1>1, <1>2, <1>3, <1>4

\* Writing ARMR changes what the data are called, not how many there are.
LEMMA ArmGoType ==
    ASSUME CardTypeOK, ArmGo
    PROVE  /\ hw' \in Hardware
           /\ chan' \in [Channels -> ChannelData]
           /\ \A c \in Channels : chan'[c].ndata <= ChanLen[c]
<1>1. hw' \in Hardware
  BY DEF ArmGo, CardTypeOK, Hardware
<1>2. \A c \in Channels : [chan[c] EXCEPT !.of = "old"] \in ChannelData
                          /\ [chan[c] EXCEPT !.of = "old"].ndata = chan[c].ndata
  BY DEF CardTypeOK, ChannelData, Origins
<1>3. QED
  BY <1>1, <1>2 DEF ArmGo, CardTypeOK

\* Every piece of vtrreadMemory keeps the type of the channels and locals.
LEMMA ReadType ==
    ASSUME CardTypeOK,
           \/ ReadClear /\ UNCHANGED rd
           \/ ReadChoose /\ UNCHANGED chan
           \/ ReadGroup
           \/ ReadEvent
    PROVE  /\ rd' \in Locals
           /\ chan' \in [Channels -> ChannelData]
           /\ \A c \in Channels : chan'[c].ndata <= ChanLen[c]
<1> DEFINE ChanOK == /\ chan' \in [Channels -> ChannelData]
                     /\ \A c \in Channels : chan'[c].ndata <= ChanLen[c]
<1>1. CASE ReadClear /\ UNCHANGED rd
  <2>1. \A c \in Channels : ChanLen[c] \in Nat
    BY CardAssumption DEF Channels
  <2>2. ChanOK
    BY <1>1, <2>1 DEF ReadClear, EmptyChannels, ChannelData, Origins
  <2>3. QED
    BY <1>1, <2>2 DEF CardTypeOK
<1>2. CASE ReadChoose /\ UNCHANGED chan
  <2>1. numberEvents \in 1 .. 16
    BY NumberEventsType DEF CardTypeOK
  <2>2. SamplesPerEvent(numberEvents) \in Int
    BY <2>1, SamplesPerEventType DEF CardTypeOK
  <2>3. rd' \in Locals
    BY <1>2, <2>1, <2>2 DEF ReadChoose, NoLocals, Locals
  <2>4. QED
    BY <1>2, <2>3 DEF CardTypeOK
<1>3. ASSUME NEW turns \in Nat, rd' = NextTurn(turns) PROVE rd' \in Locals
  BY <1>3 DEF NextTurn, NoLocals, Locals, CardTypeOK
<1>4. CASE ReadGroup
  <2>1. PostSetSize \in Int
    BY CardAssumption DEF PostSetSize, MinOf, CardTypeOK, Settings
  <2>2. PICK k \in Transfers(PostSetSize) :
          chan' = [c \in Channels |-> IF c \in {Low(rd.next), High(rd.next)}
                                     THEN Appended(c, k, PostSetSize) ELSE chan[c]]
    BY <1>4 DEF ReadGroup
  <2>3. k \in Nat
    BY <2>1, <2>2, TransfersType
  <2>4. ChanOK
    BY <2>1, <2>2, <2>3, AppendedType DEF CardTypeOK
  <2>5. QED
    BY <1>3, <1>4, <2>4, CardAssumption DEF ReadGroup
<1>5. CASE ReadEvent
  <2>1. rd.pps \in Int /\ rd.nev \in Nat
    BY DEF CardTypeOK, Locals
  <2>2. CASE UNCHANGED chan
    BY <1>3, <1>5, <2>1, <2>2 DEF ReadEvent, CardTypeOK
  <2>3. CASE \E k \in [Channels -> Transfers(rd.pps)] :
               chan' = [c \in Channels |-> Appended(c, k[c], rd.pps)]
    <3>1. PICK k \in [Channels -> Transfers(rd.pps)] :
            chan' = [c \in Channels |-> Appended(c, k[c], rd.pps)]
      BY <2>3
    <3>2. \A c \in Channels : k[c] \in Nat
      BY <2>1, <3>1, TransfersType
    <3>3. ChanOK
      BY <2>1, <3>1, <3>2, AppendedType
    <3>4. QED
      BY <1>3, <1>5, <2>1, <3>3 DEF ReadEvent
  <2>4. QED
    BY <1>5, <2>2, <2>3 DEF ReadEvent
<1>6. QED
  BY <1>1, <1>2, <1>4, <1>5

\* The places a step can go to are places of pc.
LEMMA Places ==
    /\ {"idle", "lock", "call", "unlock", "suspended", "disarm", "resetIrq", "setup", "go",
        "read", "choose", "group", "event", "waveforms", "restart", "scanRequest"} \subseteq PcValues
  BY DEF PcValues, Locked, ArmSteps, CbOnly, Reading, Scanning

LEMMA GotoType ==
    ASSUME pc \in [Threads -> PcValues], NEW t, NEW where \in PcValues, Goto(t, where)
    PROVE  pc' \in [Threads -> PcValues]
  BY DEF Goto

\* Putting to a record and taking the lock.
LEMMA PutType ==
    ASSUME TypeOK, NEW t \in Threads, NEW r \in Records, NEW v \in Int,
           Put(t, r, v) \/ Lock(t) \/ Unlock(t)
    PROVE  TypeOK'
<1>1. DevTypeOK
  BY DEF TypeOK
<1>2. CardTypeOK'
  <2>1. UNCHANGED cardVars
    BY DEF Put, Lock, Unlock
  <2>2. QED
    BY <2>1 DEF TypeOK, cardVars, CardTypeOK
<1>3. pc' \in [Threads -> PcValues]
  BY <1>1, Places, GotoType DEF DevTypeOK, Put, Lock, Unlock
<1>4. NoRequest \in Requests /\ [rec |-> r, val |-> v] \in Requests
  BY DEF NoRequest, Requests, Records, armDisarm
<1>5. DevTypeOK'
  <2>1. CASE Put(t, r, v)
    BY <1>1, <1>3, <1>4, <2>1 DEF DevTypeOK, Put
  <2>2. CASE Lock(t)
    BY <1>1, <1>3, <2>2 DEF DevTypeOK, Lock
  <2>3. CASE Unlock(t)
    BY <1>1, <1>3, <1>4, <2>3 DEF DevTypeOK, Unlock, Status
  <2>4. QED
    BY <2>1, <2>2, <2>3
<1>6. QED
  BY <1>2, <1>5 DEF TypeOK

\* The driver calls made under the lock.
LEMMA WriteType ==
    ASSUME TypeOK, NEW t \in Threads, Write(t)
    PROVE  TypeOK'
<1> USE DEF TypeOK
<1>1. CASE Set(t)
  <2>1. PICK st \in Status : Method(req[t].rec, req[t].val, st)
                           /\ status' = [status EXCEPT ![t] = st]
                           /\ Goto(t, IF st = "Suspend" THEN "suspended" ELSE "unlock")
    BY <1>1 DEF Set
  <2>2. req[t].rec \in SettingRecords /\ req[t].val \in Int
    BY <1>1 DEF Set, Calling, DevTypeOK, Requests
  <2>3. cfg' \in Settings
    BY <2>1, <2>2, MethodType
  <2>4. CardTypeOK'
    BY <1>1, <2>3 DEF Set, CardTypeOK
  <2>5. pc' \in [Threads -> PcValues]
    BY <2>1, Places, GotoType DEF DevTypeOK
  <2>6. QED
    BY <1>1, <2>1, <2>4, <2>5 DEF Set, DevTypeOK
<1>2. CASE SoftTrigger(t)
  <2>1. hw' \in Hardware
    BY <1>2, ArmPieceType DEF SoftTrigger
  <2>2. CardTypeOK'
    BY <1>2, <2>1 DEF SoftTrigger, CardTypeOK
  <2>3. pc' \in [Threads -> PcValues]
    BY <1>2, Places, GotoType DEF SoftTrigger, DevTypeOK
  <2>4. QED
    BY <1>2, <2>2, <2>3 DEF SoftTrigger, DevTypeOK
<1>3. ASSUME NEW v \in Int, StartArm(t, v)
      PROVE  arm' \in Int /\ pc' \in [Threads -> PcValues] /\ status' \in [Threads -> Status]
  <2>1. pc' \in [Threads -> PcValues]
    BY <1>3, Places, GotoType DEF StartArm, DevTypeOK
  <2>2. arm' \in Int /\ status' \in [Threads -> Status]
    BY <1>3 DEF StartArm, ArmStore, DevTypeOK, CardTypeOK, Status
  <2>3. QED
    BY <2>1, <2>2
<1>4. CASE Arm(t)
  <2>1. req[t].val \in Int
    BY DEF DevTypeOK, Requests
  <2>2. arm' \in Int /\ pc' \in [Threads -> PcValues] /\ status' \in [Threads -> Status]
    BY <1>3, <1>4, <2>1 DEF Arm
  <2>3. CardTypeOK'
    BY <1>4, <2>2 DEF Arm, CardTypeOK
  <2>4. QED
    BY <1>4, <2>1, <2>2, <2>3 DEF Arm, DevTypeOK
<1>5. CASE Restart(t)
  <2>1. CASE req[t].val = 0 /\ Goto(t, "unlock") /\ UNCHANGED <<arm, status>>
    <3>1. pc' \in [Threads -> PcValues]
      BY <2>1, Places, GotoType DEF DevTypeOK
    <3>2. QED
      BY <1>5, <2>1, <3>1 DEF Restart, DevTypeOK, CardTypeOK
  <2>2. CASE StartArm(t, devArm)
    <3>1. arm' \in Int /\ pc' \in [Threads -> PcValues] /\ status' \in [Threads -> Status]
      BY <1>3, <2>2 DEF DevTypeOK
    <3>2. QED
      BY <1>5, <3>1 DEF Restart, DevTypeOK, CardTypeOK
  <2>3. QED
    BY <1>5, <2>1, <2>2 DEF Restart
<1>6. CASE WriteDisarm(t) \/ WriteResetIrq(t) \/ WriteSetup(t)
  <2>1. hw' \in Hardware
    BY <1>6, ArmPieceType DEF WriteDisarm, WriteResetIrq, WriteSetup
  <2>2. pc' \in [Threads -> PcValues]
    BY <1>6, Places, GotoType DEF WriteDisarm, WriteResetIrq, WriteSetup, DevTypeOK
  <2>3. UNCHANGED <<type, arm, cfg, isRebooting, chan, rd,
                    devArm, autoRestart, lock, req, status, queue, completed>>
    BY <1>6 DEF WriteDisarm, WriteResetIrq, WriteSetup
  <2>4. QED
    BY <2>1, <2>2, <2>3 DEF DevTypeOK, CardTypeOK
<1>7. CASE WriteArm(t)
  <2>1. /\ hw' \in Hardware
        /\ chan' \in [Channels -> ChannelData]
        /\ \A c \in Channels : chan'[c].ndata <= ChanLen[c]
    BY <1>7, ArmGoType DEF WriteArm
  <2>2. pc' \in [Threads -> PcValues]
    BY <1>7, Places, GotoType DEF WriteArm, DevTypeOK
  <2>3. UNCHANGED <<type, arm, cfg, isRebooting, rd,
                    devArm, autoRestart, lock, req, status, queue, completed>>
    BY <1>7 DEF WriteArm
  <2>4. QED
    BY <2>1, <2>2, <2>3 DEF DevTypeOK, CardTypeOK
<1>8. CASE Unlock(t)
  BY <1>8, PutType DEF Records
<1>9. QED
  BY <1>1, <1>2, <1>4, <1>5, <1>6, <1>7, <1>8 DEF Write

\* The callback task.
LEMMA CallbackType ==
    ASSUME TypeOK, Callback
    PROVE  TypeOK'
<1> USE DEF TypeOK
<1>t. Cb \in Threads
  BY DEF Threads
<1>q. queue # <<>> => Tail(queue) \in Seq({"read", "scan"}) /\ Len(Tail(queue)) <= QueueSize
  BY GtrAssumption DEF DevTypeOK
<1>1. ASSUME NEW entry, NEW where \in PcValues, Dequeue(entry, where)
      PROVE  TypeOK'
  <2>1. pc' \in [Threads -> PcValues]
    BY <1>1, GotoType DEF Dequeue, DevTypeOK
  <2>2. UNCHANGED <<cardVars, devArm, autoRestart, lock, req, status, completed>>
    BY <1>1 DEF Dequeue
  <2>3. queue' \in Seq({"read", "scan"}) /\ Len(queue') <= QueueSize
    BY <1>1, <1>q DEF Dequeue
  <2>4. CardTypeOK'
    BY <2>2 DEF cardVars, CardTypeOK
  <2>5. QED
    BY <2>1, <2>2, <2>3, <2>4 DEF DevTypeOK
<1>2. CASE MyCallback \/ Scan
  BY <1>1, <1>2, Places DEF MyCallback, Scan
<1>3. CASE ReadMemory
  <2>1. ASSUME NEW from, NEW to \in PcValues, ReadStep(from, to),
               /\ rd' \in Locals
               /\ chan' \in [Channels -> ChannelData]
               /\ \A c \in Channels : chan'[c].ndata <= ChanLen[c]
        PROVE  TypeOK'
    <3>1. pc' \in [Threads -> PcValues]
      BY <2>1, GotoType DEF ReadStep, DevTypeOK
    <3>2. CardTypeOK'
      BY <2>1 DEF ReadStep, CardTypeOK
    <3>3. QED
      BY <2>1, <3>1, <3>2 DEF ReadStep, DevTypeOK
  <2>2. CASE ReadNone
    BY <2>1, <2>2, Places DEF ReadNone, CardTypeOK
  <2>3. CASE ReadStart
    BY <2>1, <2>3, Places, ReadType DEF ReadStart
  <2>4. CASE Choose
    BY <2>1, <2>4, Places, ReadType DEF Choose
  <2>5. CASE Group
    BY <2>1, <2>5, Places, ReadType DEF Group
  <2>6. CASE Event
    BY <2>1, <2>6, Places, ReadType DEF Event
  <2>7. QED
    BY <1>3, <2>2, <2>3, <2>4, <2>5, <2>6 DEF ReadMemory
<1>4. CASE ScanIoRequest
  <2>1. pc' \in [Threads -> PcValues]
    BY <1>4, Places, GotoType DEF ScanIoRequest, DevTypeOK
  <2>2. queue' \in Seq({"read", "scan"}) /\ Len(queue') <= QueueSize
    BY <1>4, QueuedType DEF ScanIoRequest, DevTypeOK
  <2>3. CardTypeOK'
    BY <1>4 DEF ScanIoRequest, cardVars, CardTypeOK
  <2>4. QED
    BY <1>4, <2>1, <2>2, <2>3 DEF ScanIoRequest, DevTypeOK
<1>5. CASE Waveforms
  <2>1. pc' \in [Threads -> PcValues]
    BY <1>5, Places, GotoType DEF Waveforms, DevTypeOK
  <2>2. CardTypeOK'
    BY <1>5 DEF Waveforms, cardVars, CardTypeOK
  <2>3. QED
    BY <1>5, <2>1, <2>2 DEF Waveforms, DevTypeOK
<1>6. CASE ScanRestart
  <2>1. pc' \in [Threads -> PcValues]
    BY <1>6, Places, GotoType DEF ScanRestart, DevTypeOK
  <2>2. [rec |-> "autoRestart", val |-> autoRestart] \in Requests
    BY DEF Requests, Records, DevTypeOK
  <2>3. CardTypeOK'
    BY <1>6 DEF ScanRestart, cardVars, CardTypeOK
  <2>4. QED
    BY <1>6, <2>1, <2>2, <2>3 DEF ScanRestart, DevTypeOK
<1>7. QED
  BY <1>2, <1>3, <1>4, <1>5, <1>6 DEF Callback

\* The interrupt, the digitizer and the exit hook.
LEMMA InterruptType ==
    ASSUME TypeOK, Interrupt \/ Card \/ Exit
    PROVE  TypeOK'
<1> USE DEF TypeOK
<1>1. CardTypeOK'
  BY CardStepType DEF Interrupt, InterruptIgnored, InterruptComplete, Card, Exit
<1>2. CASE UNCHANGED devVars
  BY <1>1, <1>2 DEF devVars, DevTypeOK
<1>3. CASE InterruptComplete
  <2>1. queue' \in Seq({"read", "scan"}) /\ Len(queue') <= QueueSize
    BY <1>3, QueuedType DEF InterruptComplete, DevTypeOK
  <2>2. Recorded \in Nat
    <3> DEFINE prePost == MinOf(hw.count, hw.events) * SamplesPerEvent(hw.events)
               post == MinOf(hw.gate * MinOf(hw.count, cfg.pte), ArraySize)
    <3>1. hw.events \in 1 .. 16 /\ hw.count \in Nat /\ hw.gate \in Int
      BY CardAssumption DEF CardTypeOK, Hardware
    <3>2. SamplesPerEvent(hw.events) \in Int
      BY <3>1, SamplesPerEventType DEF CardTypeOK
    <3>3. cfg.pte \in Int /\ ArraySize \in Int
      BY CardAssumption DEF CardTypeOK, Settings
    <3>4. \A a, b \in Int : MinOf(a, b) \in Int /\ a * b \in Int
      BY DEF MinOf
    <3>5. MinOf(hw.count, hw.events) \in Int /\ MinOf(hw.count, cfg.pte) \in Int
      BY <3>1, <3>3 DEF MinOf
    <3>6. prePost \in Int
      BY <3>2, <3>4, <3>5, Zenon
    <3>7. hw.gate * MinOf(hw.count, cfg.pte) \in Int
      BY <3>1, <3>4, <3>5, Zenon
    <3>8. post \in Int
      BY <3>3, <3>4, <3>7, Zenon
    <3>9. (IF hw.prePost THEN prePost ELSE post) \in Int
      BY <3>6, <3>8, Zenon
    <3>10. \A n \in Int : Samples(n) \in Nat
      BY DEF Samples
    <3>11. QED
      BY <3>9, <3>10, Zenon DEF Recorded
  <2>3. QED
    BY <1>1, <1>3, <2>1, <2>2 DEF InterruptComplete, DevTypeOK
<1>4. QED
  BY <1>2, <1>3 DEF Interrupt, InterruptIgnored, Card, Exit

\* Every step of the system keeps every variable in its type.
LEMMA NextType == TypeOK /\ [Next]_vars => TypeOK'
<1> SUFFICES ASSUME TypeOK, [Next]_vars PROVE TypeOK'
  OBVIOUS
<1>1. ASSUME NEW t \in Clients, NEW r \in Records, NEW v \in Values[r], Put(t, r, v)
      PROVE  TypeOK'
  BY <1>1, PutType, GtrAssumption DEF Threads
<1>2. ASSUME NEW t \in Threads, Lock(t) \/ Write(t) PROVE TypeOK'
  BY <1>2, PutType, WriteType DEF Records
<1>3. CASE UNCHANGED vars
  BY <1>3 DEF vars, cardVars, devVars, TypeOK, CardTypeOK, DevTypeOK
<1>4. QED
  BY <1>1, <1>2, <1>3, CallbackType, InterruptType DEF Next

\* At every moment of every run, whatever the clients put and however the
\* interrupt and the callback task come in between, every variable has its
\* type; in particular readMemory (readContiguous) never puts more samples
\* into a channel than device support gave it room for.
THEOREM TypeCorrect == Spec => []TypeOK
<1>1. QED
  BY InitType, NextType, PTL DEF Spec

-----------------------------------------------------------------------------
(* The inductive invariant: who may touch the card, and what vtrarm has     *)
(* done so far.                                                             *)

\* Whoever runs a driver call for a record holds the card's lock.
LockInv == \A t \in Threads : pc[t] \in Locked => lock = t

NobodyDisarms == \A t \in Threads : pc[t] # "disarm"

\* The registers hold what vtrarm writes for the driver's settings.
Matches ==
    /\ hw.gate = cfg.pts
    /\ hw.prePost <=> arm = armPrePostTrigger
    /\ hw.prePost => hw.events = numberEvents
    /\ hw.irqOn

\* A gate is open only while the card is armed; the card is disarmed from the
\* DISARM of vtrarm to its ARMR; the registers match before ARMR is written,
\* and as long as the card is armed; until the next DISARM the driver's arm
\* says in which mode; and no completed set is without its interrupt.
Running   == hw.running => hw.armed
Arming    == \A t \in Threads : pc[t] \in {"resetIrq", "setup", "go"} => ~hw.armed
Wanted    == \A t \in Threads : pc[t] \in {"setup", "go"} => arm # armDisarm
Prepared  == \A t \in Threads : pc[t] = "go" /\ ~isRebooting => Matches /\ hw.count = 0
Recording == hw.armed /\ NobodyDisarms /\ ~isRebooting =>
                 arm \in {armPostTrigger, armPrePostTrigger} /\ Matches
Active    == hw.armed /\ NobodyDisarms => arm # armDisarm
Counted   == hw.armed /\ NobodyDisarms /\ ~isRebooting /\ hw.count >= Needed /\ hw.count > 0
                 => hw.irq

ArmInv == Running /\ Arming /\ Wanted /\ Prepared /\ Recording /\ Active /\ Counted

IInv == TypeOK /\ LockInv /\ ArmInv

\* A step that moves one thread changes pc there only.
LEMMA Moved ==
    ASSUME TypeOK, NEW t \in Threads, NEW where, Goto(t, where)
    PROVE  pc'[t] = where /\ \A u \in Threads \ {t} : pc'[u] = pc[u]
  BY DEF TypeOK, DevTypeOK, Goto

\* The lock admits one thread: two cannot be in driver calls.
LEMMA OnlyOne ==
    ASSUME LockInv, NEW t \in Threads, NEW u \in Threads,
           pc[t] \in Locked, pc[u] \in Locked
    PROVE  t = u
  BY DEF LockInv

LEMMA InitIInv == Init => IInv
<1> SUFFICES ASSUME Init PROVE IInv
  OBVIOUS
<1>1. TypeOK
  BY InitType
<1>2. \A t \in Threads : pc[t] = "idle"
  BY DEF Init
<1>3. ~hw.armed /\ ~hw.running
  BY DEF Init, CardInit, ResetHardware
<1>4. LockInv
  BY <1>2 DEF LockInv, Locked, ArmSteps
<1>5. ArmInv
  BY <1>2, <1>3 DEF ArmInv, Running, Arming, Wanted, Prepared, Recording, Active, Counted
<1>6. QED
  BY <1>1, <1>4, <1>5 DEF IInv

\* Steps of records and callbacks outside the driver: one thread moves, and
\* not to or from a piece of vtrarm.
LEMMA QuietStep ==
    ASSUME TypeOK, ArmInv, NEW t \in Threads, NEW where,
           Goto(t, where), pc[t] \notin ArmSteps, where \notin ArmSteps,
           UNCHANGED <<type, arm, cfg, hw, isRebooting>>
    PROVE  ArmInv'
<1>1. \A u \in Threads : pc'[u] \in ArmSteps => pc[u] = pc'[u]
  BY Moved
<1>2. \A u \in Threads : pc[u] \in ArmSteps => pc[u] = pc'[u]
  BY Moved
<1>3. NobodyDisarms' <=> NobodyDisarms
  BY <1>1, <1>2 DEF NobodyDisarms, ArmSteps
<1>4. Matches' <=> Matches
  BY DEF Matches, numberEvents
<1>5. Needed' = Needed
  BY DEF Needed, numberEvents
<1>6. QED
  BY <1>1, <1>3, <1>4, <1>5
     DEF ArmInv, Running, Arming, Wanted, Prepared, Recording, Active, Counted, ArmSteps

\* A thread that moves without touching the lock, and is not moving into a
\* driver call from outside, leaves the rule of the lock intact.
LEMMA LockKept ==
    ASSUME TypeOK, LockInv, NEW t \in Threads, NEW where, Goto(t, where),
           pc[t] \in Locked \/ where \notin Locked, UNCHANGED lock
    PROVE  LockInv'
  BY Moved DEF LockInv

\* A driver call goes on under the lock or, with Unlock, gives it back.
LEMMA WriteLock ==
    ASSUME TypeOK, LockInv, NEW t \in Threads, Write(t)
    PROVE  LockInv'
<1>1. CASE Unlock(t)
  <2>1. pc'[t] = "idle" /\ \A u \in Threads \ {t} : pc'[u] = pc[u]
    BY <1>1, Moved DEF Unlock
  <2>2. pc[t] \in Locked /\ pc'[t] \notin Locked
    BY <1>1, <2>1 DEF Unlock, Locked, ArmSteps
  <2>3. QED
    BY <2>1, <2>2, OnlyOne DEF LockInv
<1>2. CASE ~Unlock(t)
  <2>1. pc[t] \in Locked
    BY <1>2 DEF Write, Set, SoftTrigger, Arm, Restart, Calling, WriteDisarm,
                WriteResetIrq, WriteSetup, WriteArm, Locked, ArmSteps
  <2>2. UNCHANGED lock
    BY <1>2 DEF Write, Set, SoftTrigger, Arm, Restart,
                WriteDisarm, WriteResetIrq, WriteSetup, WriteArm
  <2>3. \E where : Goto(t, where)
    BY <1>2, Zenon DEF Write, Set, SoftTrigger, Arm, Restart, StartArm,
                WriteDisarm, WriteResetIrq, WriteSetup, WriteArm
  <2>4. QED
    BY <2>1, <2>2, <2>3, LockKept
<1>3. QED
  BY <1>1, <1>2

\* The callback task leaves the lock, the card and its settings alone, and
\* moves itself between places outside the driver calls.
LEMMA CallbackQuiet ==
    ASSUME Callback
    PROVE  /\ pc[Cb] \notin Locked
           /\ \E where : where \notin Locked /\ Goto(Cb, where)
           /\ UNCHANGED <<lock, type, arm, cfg, hw, isRebooting, devArm>>
<1> USE Zenon DEF Locked, ArmSteps
<1>1. CASE MyCallback \/ Scan
  BY <1>1 DEF MyCallback, Scan, Dequeue, cardVars
<1>2. CASE ReadMemory
  BY <1>2 DEF ReadMemory, ReadNone, ReadStart, Choose, Group, Event, ReadStep
<1>3. CASE ScanIoRequest \/ Waveforms \/ ScanRestart
  BY <1>3 DEF ScanIoRequest, Waveforms, ScanRestart, cardVars
<1>4. QED
  BY <1>1, <1>2, <1>3 DEF Callback

LEMMA NextLock == TypeOK /\ LockInv /\ [Next]_vars => LockInv'
<1> SUFFICES ASSUME TypeOK, LockInv, [Next]_vars PROVE LockInv'
  OBVIOUS
<1>1. ASSUME NEW t \in Clients, NEW r, NEW v, Put(t, r, v) PROVE LockInv'
  BY <1>1, LockKept DEF Put, Threads, Locked, ArmSteps
<1>2. ASSUME NEW t \in Threads, Lock(t) PROVE LockInv'
  <2>1. \A u \in Threads : pc[u] \notin Locked
    BY <1>2, GtrAssumption DEF LockInv, Lock
  <2>2. lock' = t /\ \A u \in Threads \ {t} : pc'[u] = pc[u]
    BY <1>2, Moved DEF Lock
  <2>3. QED
    BY <2>1, <2>2 DEF LockInv
<1>3. ASSUME NEW t \in Threads, Write(t) PROVE LockInv'
  BY <1>3, WriteLock
<1>4. CASE Callback
  BY <1>4, CallbackQuiet, LockKept DEF Threads
<1>5. CASE Interrupt \/ Card \/ Exit
  BY <1>5 DEF Interrupt, InterruptIgnored, InterruptComplete, Card, Exit, devVars, LockInv
<1>6. CASE UNCHANGED vars
  BY <1>6 DEF vars, devVars, LockInv
<1>7. QED
  BY <1>1, <1>2, <1>3, <1>4, <1>5, <1>6 DEF Next

\* The card, its interrupt and the exit hook, at any place of any thread.
\* The interrupt handler gives up a pending interrupt only when it disarms or
\* when more events are needed.
LEMMA CardKeepsArmInv ==
    ASSUME TypeOK, ArmInv, Interrupt \/ Card \/ Exit
    PROVE  ArmInv'
<1>1. UNCHANGED <<type, arm, cfg, pc>>
  BY DEF Interrupt, InterruptIgnored, InterruptComplete, Card, Exit, devVars, IgnoreInterrupt,
         CompleteInterrupt, HwTrigger, HwGateDone, Reboot
<1>2. hw \in Hardware /\ CountCap \in Nat /\ cfg \in Settings
  BY CardAssumption DEF TypeOK, CardTypeOK
<1>3. /\ UNCHANGED <<NobodyDisarms, numberEvents, Needed>>
  BY <1>1 DEF NobodyDisarms, Needed, numberEvents
<1> USE DEF ArmInv, Running, Arming, Wanted, Prepared, Recording, Active, Counted
<1>4. CASE HwTrigger /\ UNCHANGED isRebooting
  <2>1. hw' = [hw EXCEPT !.running = TRUE] /\ hw.armed
    BY <1>4 DEF HwTrigger, CanRun
  <2>2. Matches' <=> Matches
    BY <1>1, <1>2, <1>3, <2>1 DEF Matches, Hardware
  <2>3. QED
    BY <1>1, <1>2, <1>3, <1>4, <2>1, <2>2 DEF Hardware
<1>5. CASE HwGateDone
  <2>1. /\ hw.running /\ hw.armed /\ UNCHANGED isRebooting
        /\ hw' = [hw EXCEPT !.running = FALSE, !.count = MinOf(@ + 1, CountCap), !.irq = hw.irqOn]
    BY <1>5 DEF HwGateDone
  <2>2. Matches' <=> Matches
    BY <1>1, <1>2, <1>3, <2>1 DEF Matches, Hardware
  <2>3. hw'.armed = hw.armed /\ hw'.running = FALSE /\ hw'.irq = hw.irqOn
    BY <1>2, <2>1 DEF Hardware
  <2>4. hw.armed /\ NobodyDisarms /\ ~isRebooting => hw.irqOn
    BY DEF Matches
  <2>5. QED
    BY <1>1, <1>3, <2>1, <2>2, <2>3, <2>4
<1>6. ASSUME hw' = Disarmed(Acknowledged), UNCHANGED isRebooting PROVE ArmInv'
  <2>1. /\ hw'.armed = FALSE /\ hw'.running = FALSE
        /\ hw'.count = hw.count
    BY <1>2, <1>6 DEF Disarmed, Acknowledged, Hardware
  <2>2. Matches' <=> Matches
    BY <1>1, <1>2, <1>3, <1>6 DEF Matches, Disarmed, Acknowledged, Hardware
  <2>3. QED
    BY <1>1, <1>3, <1>6, <2>1, <2>2
<1>7. ASSUME hw' = Acknowledged, SetIncomplete, UNCHANGED isRebooting PROVE ArmInv'
  <2>1. hw'.armed = hw.armed /\ hw'.running = hw.running /\ hw'.count = hw.count
    BY <1>2, <1>7 DEF Acknowledged, Hardware
  <2>2. Matches' <=> Matches
    BY <1>1, <1>2, <1>3, <1>7 DEF Matches, Acknowledged, Hardware
  <2>3. numberEvents \in 1 .. 16 /\ hw.count \in Nat /\ cfg.pte \in Int
    BY <1>2, NumberEventsType DEF Hardware, Settings
  <2>4. ~(hw.count >= Needed)
    BY <1>7, <2>3 DEF SetIncomplete, Needed, armPostTrigger, armPrePostTrigger
  <2>5. QED
    BY <1>1, <1>3, <1>7, <2>1, <2>2, <2>4
<1>8. CASE Reboot
  <2>1. isRebooting' /\ ~hw'.armed /\ ~hw'.running
    BY <1>8 DEF Reboot, ResetHardware
  <2>2. QED
    BY <1>1, <1>3, <2>1
<1>9. CASE IgnoreInterrupt
  BY <1>6, <1>7, <1>9 DEF IgnoreInterrupt
<1>10. CASE CompleteInterrupt
  BY <1>6, <1>10 DEF CompleteInterrupt
<1>11. QED
  BY <1>4, <1>5, <1>8, <1>9, <1>10
     DEF Interrupt, InterruptIgnored, InterruptComplete, Card, Exit, HwTrigger

\* While a thread is in a driver call no other thread is in vtrarm.
LEMMA Alone ==
    ASSUME TypeOK, LockInv, NEW t \in Threads, pc[t] \in Locked, NEW where, Goto(t, where)
    PROVE  /\ pc'[t] = where
           /\ \A u \in Threads \ {t} : pc[u] \notin ArmSteps /\ pc'[u] \notin ArmSteps
           /\ NobodyDisarms <=> pc[t] # "disarm"
           /\ NobodyDisarms' <=> where # "disarm"
<1>1. \A u \in Threads \ {t} : pc[u] \notin ArmSteps
  BY OnlyOne DEF Locked
<1>2. pc'[t] = where /\ \A u \in Threads \ {t} : pc'[u] = pc[u]
  BY Moved
<1>3. QED
  BY <1>1, <1>2 DEF NobodyDisarms, ArmSteps

\* An accepted setting finds the card disarmed.
LEMMA SetWhileIdle ==
    ASSUME NEW r, NEW v, NEW st, Method(r, v, st), hw.armed
    PROVE  UNCHANGED cfg
<1> USE DEF Refused
<1>1. CASE vtrclock(v, st)
  BY <1>1 DEF vtrclock
<1>2. CASE vtrtrigger(v, st)
  BY <1>2 DEF vtrtrigger
<1>3. CASE vtrmultiEvent(v, st)
  BY <1>3 DEF vtrmultiEvent
<1>4. CASE vtrnumberPTS(v, st) \/ vtrnumberPPS(v, st) \/ vtrnumberPTE(v, st)
  BY <1>4 DEF vtrnumberPTS, vtrnumberPPS, vtrnumberPTE
<1>5. QED
  BY <1>1, <1>2, <1>3, <1>4 DEF Method

\* The first piece of vtrarm.
LEMMA StartKeepsArmInv ==
    ASSUME TypeOK, LockInv, ArmInv, NEW t \in Threads, NEW v, StartArm(t, v),
           pc[t] = "call", UNCHANGED <<type, cfg, hw, isRebooting>>
    PROVE  ArmInv'
<1>1. CASE Goto(t, "disarm")
  <2>1. ~NobodyDisarms'
    BY <1>1, Moved DEF NobodyDisarms
  <2>2. \A u \in Threads : pc'[u] \notin {"resetIrq", "setup", "go"}
    BY <1>1, Alone DEF Locked, ArmSteps
  <2>3. QED
    BY <2>1, <2>2
       DEF ArmInv, Running, Arming, Wanted, Prepared, Recording, Active, Counted
<1>2. CASE Goto(t, "unlock") /\ UNCHANGED arm
  BY <1>2, QuietStep DEF ArmSteps
<1>3. QED
  BY <1>1, <1>2 DEF StartArm

\* The driver calls: the setting methods, and vtrarm piece by piece.
LEMMA WriteKeepsArmInv ==
    ASSUME TypeOK, LockInv, ArmInv, NEW t \in Threads, Write(t)
    PROVE  ArmInv'
<1> USE DEF ArmInv, Running, Arming, Wanted, Prepared, Recording, Active, Counted
<1>h. hw \in Hardware /\ 0 \in 0 .. CountCap /\ cfg \in Settings
  BY CardAssumption DEF TypeOK, CardTypeOK
<1>1. CASE Set(t)
  <2>1. PICK st \in Status : Method(req[t].rec, req[t].val, st)
                           /\ Goto(t, IF st = "Suspend" THEN "suspended" ELSE "unlock")
    BY <1>1 DEF Set
  <2>2. pc[t] = "call" /\ UNCHANGED <<type, arm, hw, isRebooting>>
    BY <1>1 DEF Set, Calling
  <2>3. CASE hw.armed
    <3>1. UNCHANGED cfg
      BY <2>1, <2>3, SetWhileIdle
    <3>2. QED
      BY <2>1, <2>2, <3>1, QuietStep DEF ArmSteps
  <2>4. CASE ~hw.armed
    <3>1. \A u \in Threads : pc'[u] \notin ArmSteps
      BY <2>1, <2>2, Alone DEF Locked, ArmSteps
    <3>2. QED
      BY <2>2, <2>4, <3>1 DEF ArmSteps
  <2>5. QED
    BY <2>3, <2>4
<1>2. CASE SoftTrigger(t)
  <2>1. pc[t] = "call" /\ Goto(t, "unlock") /\ UNCHANGED <<type, arm, cfg, isRebooting>>
    BY <1>2 DEF SoftTrigger, Calling
  <2>2. \A u \in Threads : pc'[u] \notin ArmSteps
    BY <2>1, Alone DEF Locked, ArmSteps
  <2>3. CASE UNCHANGED hw
    BY <2>1, <2>3, QuietStep DEF ArmSteps
  <2>4. CASE hw.armed /\ hw' = [hw EXCEPT !.running = TRUE]
    <3>1. NobodyDisarms
      BY <2>1, Alone DEF Locked
    <3>2. Matches' <=> Matches
      BY <1>h, <2>1, <2>4 DEF Matches, Hardware, numberEvents
    <3>3. UNCHANGED Needed
      BY <2>1 DEF Needed, numberEvents
    <3>4. /\ hw'.armed = hw.armed /\ hw'.count = hw.count /\ hw'.irq = hw.irq
      BY <1>h, <2>4 DEF Hardware
    <3>5. QED
      BY <2>1, <2>2, <2>4, <3>1, <3>2, <3>3, <3>4 DEF ArmSteps
  <2>5. QED
    BY <1>2, <2>3, <2>4 DEF SoftTrigger, vtrsoftTrigger, CanRun
<1>3. CASE Arm(t)
  BY <1>3, StartKeepsArmInv DEF Arm, Calling
<1>4. CASE Restart(t)
  <2>1. CASE StartArm(t, devArm)
    BY <1>4, <2>1, StartKeepsArmInv DEF Restart, Calling
  <2>2. CASE Goto(t, "unlock") /\ UNCHANGED arm
    BY <1>4, <2>2, QuietStep DEF Restart, Calling, ArmSteps
  <2>3. QED
    BY <1>4, <2>1, <2>2 DEF Restart
<1>5. CASE WriteDisarm(t)
  <2>1. pc[t] = "disarm" /\ Goto(t, "resetIrq") /\ UNCHANGED <<type, arm, cfg, isRebooting>>
    BY <1>5 DEF WriteDisarm
  <2>2. ~hw'.armed /\ ~hw'.running
    BY <1>5, <1>h DEF WriteDisarm, ArmDisarm, Disarmed, Hardware
  <2>3. \A u \in Threads : pc'[u] \notin {"setup", "go"}
    BY <2>1, Alone DEF Locked, ArmSteps
  <2>4. QED
    BY <2>2, <2>3
<1>6. CASE WriteResetIrq(t)
  <2>1. /\ pc[t] = "resetIrq" /\ UNCHANGED arm
        /\ Goto(t, IF arm = armDisarm THEN "unlock" ELSE "setup")
    BY <1>6 DEF WriteResetIrq
  <2>2. ~hw'.armed /\ ~hw'.running
    BY <1>6, <1>h, <2>1 DEF WriteResetIrq, ArmResetIrq, Hardware
  <2>3. \A u \in Threads : pc'[u] # "go" /\ (pc'[u] = "setup" => arm # armDisarm)
    BY <2>1, Alone DEF Locked, ArmSteps
  <2>4. QED
    BY <2>1, <2>2, <2>3
<1>7. CASE WriteSetup(t)
  <2>1. pc[t] = "setup" /\ Goto(t, "go") /\ UNCHANGED <<type, arm, cfg, isRebooting>>
    BY <1>7 DEF WriteSetup
  <2>2. ~hw'.armed /\ ~hw'.running /\ hw'.count = 0
    BY <1>7, <1>h, <2>1 DEF WriteSetup, ArmSetup, Hardware
  <2>3. Matches'
    BY <1>7, <1>h, <2>1
       DEF WriteSetup, ArmSetup, Matches, Hardware, numberEvents, armPrePostTrigger
  <2>4. QED
    BY <2>1, <2>2, <2>3, Moved
<1>8. CASE WriteArm(t)
  <2>1. pc[t] = "go" /\ Goto(t, "unlock") /\ UNCHANGED <<type, arm, cfg, isRebooting>>
    BY <1>8 DEF WriteArm
  <2>2. \A u \in Threads : pc'[u] \notin ArmSteps
    BY <2>1, Alone DEF Locked, ArmSteps
  <2>3. ~hw.armed /\ ~hw.running /\ arm # armDisarm
    BY <2>1
  <2>4. CASE UNCHANGED hw
    BY <2>2, <2>3, <2>4 DEF ArmSteps
  <2>5. CASE /\ arm \in {armPostTrigger, armPrePostTrigger}
             /\ hw' = [hw EXCEPT !.armed = TRUE]
    <3>1. ~isRebooting => Matches' /\ hw'.count = 0
      BY <1>h, <2>1, <2>5 DEF Matches, Hardware, numberEvents
    <3>2. hw'.armed /\ ~hw'.running
      BY <1>h, <2>3, <2>5 DEF Hardware
    <3>3. QED
      BY <2>1, <2>2, <2>3, <2>5, <3>1, <3>2 DEF ArmSteps
  <2>6. QED
    BY <1>8, <2>4, <2>5 DEF WriteArm, ArmGo
<1>9. CASE Unlock(t)
  BY <1>9, QuietStep DEF Unlock, cardVars, ArmSteps
<1>10. QED
  BY <1>1, <1>2, <1>3, <1>4, <1>5, <1>6, <1>7, <1>8, <1>9 DEF Write

LEMMA NextArm == TypeOK /\ LockInv /\ ArmInv /\ [Next]_vars => ArmInv'
<1> SUFFICES ASSUME TypeOK, LockInv, ArmInv, [Next]_vars PROVE ArmInv'
  OBVIOUS
<1>1. ASSUME NEW t \in Clients, NEW r, NEW v, Put(t, r, v) PROVE ArmInv'
  BY <1>1, QuietStep DEF Put, Threads, cardVars, ArmSteps
<1>2. ASSUME NEW t \in Threads, Lock(t) PROVE ArmInv'
  BY <1>2, QuietStep DEF Lock, cardVars, ArmSteps
<1>3. ASSUME NEW t \in Threads, Write(t) PROVE ArmInv'
  BY <1>3, WriteKeepsArmInv
<1>4. CASE Callback
  BY <1>4, CallbackQuiet, QuietStep DEF Threads, Locked
<1>5. CASE Interrupt \/ Card \/ Exit
  BY <1>5, CardKeepsArmInv
<1>6. CASE UNCHANGED vars
  BY <1>6 DEF vars, cardVars, devVars, ArmInv, Running, Arming, Wanted, Prepared, Recording,
              Active, Counted, NobodyDisarms, Matches, Needed, numberEvents
<1>7. QED
  BY <1>1, <1>2, <1>3, <1>4, <1>5, <1>6 DEF Next

\* The invariant is inductive: it holds of every run of the specification.
THEOREM Invariant == Spec => []IInv
<1>1. IInv /\ [Next]_vars => IInv'
  BY NextType, NextLock, NextArm DEF IInv
<1>2. QED
  BY <1>1, InitIInv, PTL DEF Spec

-----------------------------------------------------------------------------
(* What the driver and device support guarantee, whatever the clients do *)

\* A request to disarm that has given the lock back leaves the recorder
\* disarmed: no interrupt, late autoRestart or other writer re-arms it.
THEOREM DisarmHolds == Spec => []DisarmSticks
<1>1. ASSUME IInv, lock = NoOne PROVE NobodyDisarms
  BY <1>1, GtrAssumption DEF IInv, LockInv, NobodyDisarms, Locked, ArmSteps
<1>2. IInv => DisarmSticks
  BY <1>1 DEF DisarmSticks, IInv, ArmInv, Active
<1>3. QED
  BY <1>2, Invariant, PTL

\* An armed recorder records with the settings the driver holds and in the
\* mode that was armed: no setting method gets past the Busy check.
THEOREM SettingsHold == Spec => []SettingsMatchCard
<1>1. ASSUME IInv, lock = NoOne PROVE NobodyDisarms
  BY <1>1, GtrAssumption DEF IInv, LockInv, NobodyDisarms, Locked, ArmSteps
<1>2. ASSUME IInv, hw.armed, lock = NoOne, ~isRebooting
      PROVE  arm \in {armPostTrigger, armPrePostTrigger} /\ Matches
  BY <1>1, <1>2 DEF IInv, ArmInv, Recording
<1>3. IInv => hw.prePost \in BOOLEAN
  BY DEF IInv, TypeOK, CardTypeOK, Hardware
<1>4. IInv => SettingsMatchCard
  BY <1>2, <1>3 DEF SettingsMatchCard, Matches
<1>5. QED
  BY <1>4, Invariant, PTL

\* A recorder that has counted the events it was armed for has its interrupt
\* pending, or a thread is about to disarm it: vtr10012IH gives an interrupt
\* up only when it disarms or when the set is not complete.
THEOREM CompletionNoticed == Spec => []NoLostCompletion
<1>1. IInv => NoLostCompletion
  BY DEF IInv, ArmInv, Counted, NobodyDisarms, NoLostCompletion
<1>2. QED
  BY <1>1, Invariant, PTL

\* What autoRestart repeats is what the driver last armed with, unless the
\* card refused the choice: mbbo_write stores devGtr.arm and vtrarm stores arm
\* in one driver call, and autoRestart only ever passes devGtr.arm on.
THEOREM RestartAgrees == Spec => []ArmAgrees
<1> DEFINE Agrees == arm = devArm \/ ~armSupported(devArm)
<1>1. Init => Agrees
  BY DEF Init, CardInit
<1>2. ASSUME Agrees, [Next]_vars PROVE Agrees'
  <2>1. CASE UNCHANGED <<type, arm, devArm>>
    BY <1>2, <2>1 DEF armSupported
  <2>2. ASSUME NEW t \in Threads, Arm(t) PROVE Agrees'
    BY <2>2 DEF Arm, StartArm, ArmStore, armSupported
  <2>3. ASSUME NEW t \in Threads, Restart(t) PROVE Agrees'
    BY <1>2, <2>3 DEF Restart, StartArm, ArmStore, armSupported
  <2>4. ASSUME NEW t \in Threads, Write(t), ~Arm(t), ~Restart(t)
        PROVE  UNCHANGED <<type, arm, devArm>>
    BY <2>4, Zenon DEF Write, Set, SoftTrigger, WriteDisarm, WriteResetIrq, WriteSetup,
                       WriteArm, Unlock, cardVars
  <2>5. CASE Interrupt \/ Card \/ Exit
    <3>1. UNCHANGED <<type, arm, devArm>>
      BY <2>5 DEF Interrupt, InterruptIgnored, InterruptComplete, Card, Exit, devVars,
                  IgnoreInterrupt, CompleteInterrupt, HwTrigger, HwGateDone, Reboot
    <3>2. QED
      BY <2>1, <3>1
  <2>6. ASSUME NEW t, NEW r, NEW v, Put(t, r, v) \/ Lock(t)
        PROVE  UNCHANGED <<type, arm, devArm>>
    BY <2>6 DEF Put, Lock, cardVars
  <2>7. CASE UNCHANGED vars
    BY <2>1, <2>7 DEF vars, cardVars, devVars
  <2>8. QED
    BY <1>2, <2>1, <2>2, <2>3, <2>4, <2>5, <2>6, <2>7, CallbackQuiet DEF Next
<1>3. Agrees => ArmAgrees
  BY DEF ArmAgrees
<1>4. QED
  BY <1>1, <1>2, <1>3, PTL DEF Spec
=============================================================================
