--------------------------- MODULE SisFadcProofs ---------------------------
(***************************************************************************)
(* Theorems of SisFadc, for every set of setups.                            *)
(*                                                                          *)
(* sisarm changes the card in five steps.  The invariants say, for each of  *)
(* the rests of these steps that may be left, what is known of the card and *)
(* of the driver's mode.                                                    *)
(***************************************************************************)
EXTENDS SisFadc, WindowProofs, SequenceTheorems

Left1 == <<"intOff", "program", "acqOn", "start">>
Left2 == <<"program", "acqOn", "start">>
Left3 == <<"acqOn", "start">>
Left4 == <<"start">>

LEMMA Tails ==
    /\ Head(ArmSteps) = "acqOff"  /\ Tail(ArmSteps) = Left1 /\ ArmSteps # <<>>
    /\ Head(Left1) = "intOff"     /\ Tail(Left1) = Left2    /\ Left1 # <<>>
    /\ Head(Left2) = "program"    /\ Tail(Left2) = Left3    /\ Left2 # <<>>
    /\ Head(Left3) = "acqOn"      /\ Tail(Left3) = Left4    /\ Left3 # <<>>
    /\ Head(Left4) = "start"      /\ Tail(Left4) = <<>>     /\ Left4 # <<>>
BY DEF ArmSteps, Left1, Left2, Left3, Left4

\* The fields that the invariants speak of exist.
Fields ==
    /\ {"arm", "trigger"} \subseteq DOMAIN drv /\ "acq" \in DOMAIN reg
    /\ {"phase", "irq"} \subseteq DOMAIN hw
    /\ {"todo", "arm", "status"} \subseteq DOMAIN call
    /\ {"pending", "at"} \subseteq DOMAIN cb

\* Where sisarm is, and what is known there.
Progress ==
    \/ call.todo \in {<<>>, ArmSteps} /\ (drv.arm = armDisarm => ~reg.acq)
    \/ call.todo = Left1 /\ ~reg.acq
    \/ call.todo = Left2 /\ ~reg.acq /\ drv.arm = call.arm /\ call.arm # armDisarm
    \/ call.todo = Left3 /\ ~reg.acq /\ drv.arm = call.arm /\ call.arm \in Armings
    \/ call.todo = Left4 /\ drv.arm = call.arm /\ call.arm \in Armings

\* The digitizer works only while it is armed.
Working == hw.phase # "off" => reg.acq

Inv == Fields /\ Working /\ Progress

LEMMA InvInit == Init => Inv
BY DEF Init, Cleared, Inv, Fields, Working, Progress, armDisarm

-----------------------------------------------------------------------------
(* One lemma for each part of Next *)

\* A put only begins a method: it changes neither arm nor the card's ACQCSR.
LEMMA PutEffect ==
    ASSUME Fields, NEW r \in Records, NEW v \in Values[r], Put(r, v)
    PROVE  /\ Fields'
           /\ call.todo = <<>>
           /\ drv'.arm = drv.arm /\ reg'.acq = reg.acq /\ hw'.irq = hw.irq /\ cb' = cb
           /\ hw'.phase = hw.phase \/ reg.acq
           /\ \/ call'.todo = <<>>
              \/ r = "arm" /\ call'.todo = ArmSteps /\ call'.arm = v
<1> USE DEF Fields
<1>1. call.todo = <<>> /\ cb' = cb
  BY DEF Put, Idle
<1>3. CASE r = "arm" /\ sisarm(v)
  BY <1>1, <1>3 DEF sisarm
<1>4. CASE sissoftTrigger
  BY <1>1, <1>4 DEF sissoftTrigger, Enter, CanTrigger, isArmed
<1>5. CASE \E status : Refuse(status)
  BY <1>1, <1>5 DEF Refuse, Enter
<1>6. CASE \E f \in {"trigger", "ind", "preAverage", "pts", "pps", "pte"} : Stored(f, v)
  BY <1>1, <1>6 DEF Stored, Enter
<1>7. CASE Enter("OK", <<>>) /\ reg' = [reg EXCEPT !.clock = v] /\ UNCHANGED <<drv, hw>>
  BY <1>1, <1>7 DEF Enter
<1> QED
  BY <1>3, <1>4, <1>5, <1>6, <1>7
     DEF Put, sisclock, sistrigger, sismultiEvent, sispreAverage, sisnumberPTS, sisnumberPPS,
         sisnumberPTE

\* A step of sisarm, at the step it is due for.
LEMMA StepEffect ==
    ASSUME Inv, MethodStep
    PROVE  /\ Fields' /\ cb' = cb /\ isRebooting' = isRebooting /\ call'.arm = call.arm
           /\ \/ /\ call.todo = ArmSteps /\ call'.todo = Left1
                 /\ ~reg'.acq /\ drv' = drv /\ hw'.phase = "off" /\ hw'.irq = hw.irq
              \/ /\ call.todo = Left1 /\ ~reg'.acq /\ hw'.phase = hw.phase /\ ~hw'.irq
                 /\ drv'.arm = call.arm
                 /\ call'.todo = <<>> \/ (call'.todo = Left2 /\ call.arm # armDisarm)
              \/ /\ call.todo = Left2 /\ reg'.acq = reg.acq /\ drv' = drv
                 /\ hw'.phase = hw.phase /\ hw'.irq = hw.irq
                 /\ call'.todo = <<>> \/ (call'.todo = Left3 /\ drv.arm \in Armings)
              \/ /\ call.todo = Left3 /\ reg'.acq /\ drv' = drv /\ hw'.irq = hw.irq
                 /\ \/ call'.todo = <<>>
                    \/ call'.todo = Left4 /\ hw'.phase = hw.phase
              \/ /\ call.todo = Left4 /\ call'.todo = <<>> /\ drv' = drv
                 /\ reg'.acq = reg.acq /\ hw'.irq = hw.irq
                 /\ hw'.phase = hw.phase \/ reg.acq
<1> USE DEF Inv, Fields
<1>1. CASE AcqOff
  <2>1. call.todo = ArmSteps
    BY <1>1, Tails DEF AcqOff, Doing, Idle, Progress
  <2> QED BY <1>1, <2>1, Tails DEF AcqOff, Doing, Proceed, Stopped
<1>2. CASE IntOff
  <2>1. call.todo = Left1 /\ ~reg.acq
    BY <1>2, Tails DEF IntOff, Doing, Idle, Progress
  <2> QED BY <1>2, <2>1, Tails DEF IntOff, Doing, Proceed, Return
<1>3. CASE Program
  <2>1. call.todo = Left2
    BY <1>3, Tails DEF Program, Doing, Idle, Progress
  <2>2. Fields' /\ reg'.acq = reg.acq /\ cb' = cb /\ drv' = drv /\ isRebooting' = isRebooting
    BY <1>3 DEF Program, Doing, Proceed, Return
  <2>3. hw'.phase = hw.phase /\ hw'.irq = hw.irq /\ call'.arm = call.arm
    BY <1>3 DEF Program, Proceed, Return
  <2>4. call'.todo = <<>> \/ (call'.todo = Left3 /\ drv.arm \in Armings)
    BY <1>3, <2>1, Tails DEF Program, Proceed, Return
  <2> QED BY <2>1, <2>2, <2>3, <2>4
<1>4. CASE AcqOn
  <2>1. call.todo = Left3
    BY <1>4, Tails DEF AcqOn, Doing, Idle, Progress
  <2> QED BY <1>4, <2>1, Tails DEF AcqOn, Doing, Proceed, Return
<1>5. CASE Start
  <2>1. call.todo = Left4
    BY <1>5, Tails DEF Start, Doing, Idle, Progress
  <2> QED BY <1>5, <2>1, Tails DEF Start, Doing, Proceed, isArmed
<1> QED BY <1>1, <1>2, <1>3, <1>4, <1>5 DEF MethodStep

\* The callback task leaves the card and the calls alone.
LEMMA CallbackEffect ==
    ASSUME Fields, Callback
    PROVE  /\ Fields' /\ drv'.arm = drv.arm
           /\ UNCHANGED <<reg, hw, isRebooting, call>>
           /\ cb'.pending \/ cb'.at # "idle" => cb.pending \/ cb.at # "idle"
<1> USE DEF Fields
<1>1. CASE ReadStart
  BY <1>1 DEF ReadStart
<1>2. CASE ReadGroup
  BY <1>2 DEF ReadGroup
<1>3. CASE GroupDone \/ ReadRefused \/ ReadLong \/ ReadLongFails \/ Post
  BY <1>3 DEF GroupDone, ReadRefused, ReadLong, ReadLongFails, Post, Reading, NextEvent, NextGroup
<1>4. CASE ReadEvent
  BY <1>4 DEF ReadEvent, Reading, NextEvent, NextGroup
<1> QED BY <1>1, <1>2, <1>3, <1>4 DEF Callback

\* Interrupt, digitizer and exit hook.
LEMMA OtherEffect ==
    ASSUME Fields, sisIH \/ PreSample \/ HwTrigger \/ HwEventDone \/ sisReboot
    PROVE  /\ Fields' /\ drv' = drv /\ call' = call
           /\ \/ /\ sisIH /\ ~reg'.acq /\ hw'.phase = "off" /\ ~hw'.irq /\ hw.irq
                 /\ cb'.at = cb.at
                 /\ cb' = cb \/ drv.arm \in Armings
              \/ /\ reg' = reg /\ cb' = cb /\ hw'.irq = hw.irq
                 /\ hw'.phase = hw.phase \/ (reg.acq /\ hw.phase # "off")
              \/ /\ hw.phase = "open" /\ cb' = cb
                 /\ \/ reg'.acq = TRUE
                    \/ reg'.acq = FALSE /\ hw'.phase = "off"
              \/ /\ ~reg'.acq /\ hw'.phase = "off" /\ ~hw'.irq /\ cb' = cb
<1> USE DEF Fields
<1>1. CASE sisIH
  BY <1>1 DEF sisIH, Stopped
<1>2. CASE PreSample \/ HwTrigger
  BY <1>2 DEF PreSample, HwTrigger, CanTrigger, isArmed
<1>3. CASE HwEventDone
  <2>1. PICK last, n, irq :
           /\ last \in BOOLEAN
           /\ hw' = [total |-> IF reg.chain THEN n ELSE 0, done |-> Append(hw.done, n),
                     phase |-> IF last THEN "off" ELSE "wait", irq |-> irq]
           /\ reg' = [reg EXCEPT !.acq = ~last]
    <3>1. (Len(hw.done) + 1 >= Events) \in BOOLEAN
      OBVIOUS
    <3> QED BY <1>3, <3>1 DEF HwEventDone
  <2>2. hw.phase = "open" /\ cb' = cb /\ drv' = drv /\ call' = call
    BY <1>3 DEF HwEventDone
  <2>3. Fields' /\ reg'.acq = ~last /\ hw'.phase = IF last THEN "off" ELSE "wait"
    BY <2>1, <2>2
  <2> QED BY <2>2, <2>3
<1>4. CASE sisReboot
  BY <1>4 DEF sisReboot, Stopped, Cleared
<1> QED BY <1>1, <1>2, <1>3, <1>4

-----------------------------------------------------------------------------
(* Disarming, whatever the operator does *)

LEMMA InvStep == Inv /\ [Next]_vars => Inv'
<1> SUFFICES ASSUME Inv, [Next]_vars PROVE Inv'
  OBVIOUS
<1> USE DEF Inv
<1>1. ASSUME NEW r \in Records, NEW v \in Values[r], Put(r, v) PROVE Inv'
  <2>1. Fields' /\ call.todo = <<>> /\ call'.todo \in {<<>>, ArmSteps}
        /\ drv'.arm = drv.arm /\ reg'.acq = reg.acq /\ (hw'.phase = hw.phase \/ reg.acq)
    BY <1>1, PutEffect
  <2> QED BY <2>1, Tails DEF Progress, Working, Left1, Left2, Left3, Left4
<1>2. CASE MethodStep
  <2>1. call'.arm = call.arm /\ Fields'
    BY <1>2, StepEffect
  <2>2. Working'
    <3>1. CASE call.todo = ArmSteps
      BY <1>2, <3>1, StepEffect DEF Working, ArmSteps, Left1, Left2, Left3, Left4
    <3>2. CASE call.todo = Left1
      BY <1>2, <3>2, StepEffect DEF Working, Progress, ArmSteps, Left1, Left2, Left3, Left4
    <3>3. CASE call.todo \in {Left2, Left3, Left4}
      BY <1>2, <3>3, StepEffect DEF Working, Progress, ArmSteps, Left1, Left2, Left3, Left4
    <3> QED BY <1>2, <3>1, <3>2, <3>3, StepEffect
  <2>3. Progress'
    <3>2. CASE call.todo = ArmSteps
      BY <1>2, <2>1, <3>2, StepEffect, Tails DEF Progress, ArmSteps, Left1, Left2, Left3, Left4
    <3>3. CASE call.todo = Left1
      BY <1>2, <2>1, <3>3, StepEffect DEF Progress, ArmSteps, Left1, Left2, Left3, Left4
    <3>4. CASE call.todo = Left2
      BY <1>2, <2>1, <3>4, StepEffect DEF Progress, ArmSteps, Left1, Left2, Left3, Left4
    <3>5. CASE call.todo = Left3
      BY <1>2, <2>1, <3>5, StepEffect DEF Progress, ArmSteps, Left1, Left2, Left3, Left4,
         Armings, armDisarm, armPostTrigger, armPrePostTrigger
    <3>6. CASE call.todo = Left4
      BY <1>2, <2>1, <3>6, StepEffect DEF Progress, ArmSteps, Left1, Left2, Left3, Left4,
         Armings, armDisarm, armPostTrigger, armPrePostTrigger
    <3> QED BY <1>2, <3>2, <3>3, <3>4, <3>5, <3>6, StepEffect
  <2> QED BY <2>1, <2>2, <2>3
<1>3. CASE Callback
  BY <1>3, CallbackEffect DEF Progress, Working
<1>4. CASE sisIH \/ PreSample \/ HwTrigger \/ HwEventDone \/ sisReboot
  <2>1. Fields' /\ drv' = drv /\ call' = call /\ (~reg.acq => ~reg'.acq) /\ Working'
    BY <1>4, OtherEffect DEF Working
  <2> QED BY <2>1 DEF Progress
<1>5. CASE UNCHANGED vars
  BY <1>5 DEF vars, Fields, Progress, Working
<1> QED BY <1>1, <1>2, <1>3, <1>4, <1>5 DEF Next

\* sisarm: once a request to disarm has returned, the recorder is disarmed and
\* stays so, whatever interrupts, exit hook and other requests do, for any
\* size of the memory and any values.
THEOREM DisarmHolds == Spec => []DisarmSticks
<1>1. Inv => DisarmSticks
  <2> SUFFICES ASSUME Inv, Idle, drv.arm = armDisarm PROVE ~isArmed
    BY DEF DisarmSticks
  <2> QED BY Tails DEF Inv, Progress, Idle, isArmed
<1> QED BY <1>1, InvInit, InvStep, PTL DEF Spec

-----------------------------------------------------------------------------
(* Reading, if the operator waits for a cycle under way *)

\* What has completed is read while the digitizer is disarmed; a request to
\* arm finds no cycle that could still complete.
Calm ==
    /\ cb.pending \/ cb.at # "idle" =>
          ~reg.acq /\ (call.todo = <<>> \/ call.arm = armDisarm)
    /\ call.todo # <<>> /\ call.arm # armDisarm =>
          /\ hw.phase = "off"
          /\ call.todo = ArmSteps => ~reg.acq
          /\ hw.irq => drv.arm = armDisarm /\ call.todo \in {ArmSteps, Left1}

LEMMA CalmInit == Init => Calm
BY DEF Init, Cleared, Calm

\* The setup is chosen once.
LEMMA SetupKept == [Next]_vars => setup' = setup
<1> SUFFICES ASSUME [Next]_vars PROVE setup' = setup
  OBVIOUS
<1>1. CASE \E r \in Records : \E v \in Values[r] : Put(r, v)
  BY <1>1 DEF Put
<1>2. CASE MethodStep
  BY <1>2 DEF MethodStep, AcqOff, IntOff, Program, AcqOn, Start, Doing
<1>3. CASE Callback
  BY <1>3 DEF Callback, ReadStart, ReadGroup, GroupDone, ReadRefused, ReadLong, ReadLongFails,
     ReadEvent, Post
<1>4. CASE sisIH \/ PreSample \/ HwTrigger \/ HwEventDone \/ sisReboot
  BY <1>4 DEF sisIH, PreSample, HwTrigger, HwEventDone, sisReboot
<1>5. CASE UNCHANGED vars
  BY <1>5 DEF vars
<1> QED BY <1>1, <1>2, <1>3, <1>4, <1>5 DEF Next

LEMMA CalmStep == OperatorWaits /\ Inv /\ Calm /\ [Next]_vars => Calm'
<1> SUFFICES ASSUME OperatorWaits, Inv, Calm, [Next]_vars PROVE Calm'
  OBVIOUS
<1> USE DEF Inv
<1>1. ASSUME NEW r \in Records, NEW v \in Values[r], Put(r, v) PROVE Calm'
  <2>0. Fields
    OBVIOUS
  <2>1. /\ Fields' /\ call.todo = <<>> /\ cb' = cb
        /\ drv'.arm = drv.arm /\ reg'.acq = reg.acq /\ hw'.irq = hw.irq
        /\ hw'.phase = hw.phase \/ reg.acq
        /\ \/ call'.todo = <<>>
           \/ r = "arm" /\ call'.todo = ArmSteps /\ call'.arm = v
    BY <2>0, <1>1, PutEffect
  <2>2. CASE call'.todo = <<>>
    BY <2>1, <2>2 DEF Calm
  <2>3. CASE r = "arm" /\ call'.todo = ArmSteps /\ call'.arm = v
    <3>1. v = armDisarm \/ Quiet
      BY <1>1, <2>3 DEF Put, Allowed
    <3> QED BY <2>1, <2>3, <3>1, Tails DEF Calm, Quiet, isArmed, Working
  <2> QED BY <2>1, <2>2, <2>3
<1>2. CASE MethodStep
  <2>1. Fields' /\ cb' = cb /\ call'.arm = call.arm
    BY <1>2, StepEffect
  <2>2. CASE call.todo = ArmSteps
    BY <1>2, <2>1, <2>2, StepEffect, Tails DEF Calm, ArmSteps, Left1, Left2, Left3, Left4
  <2>3. CASE call.todo = Left1
    BY <1>2, <2>1, <2>3, StepEffect, Tails DEF Calm, Progress, ArmSteps, Left1, Left2, Left3, Left4
  <2>4. CASE call.todo = Left2
    BY <1>2, <2>1, <2>4, StepEffect, Tails DEF Calm, Progress, ArmSteps, Left1, Left2, Left3, Left4
  <2>5. CASE call.todo = Left3
    BY <1>2, <2>1, <2>5, StepEffect, Tails DEF Calm, Progress, ArmSteps, Left1, Left2, Left3, Left4,
       Armings, armDisarm, armPostTrigger, armPrePostTrigger
  <2>6. CASE call.todo = Left4
    BY <1>2, <2>1, <2>6, StepEffect, Tails DEF Calm, Progress, ArmSteps, Left1, Left2, Left3, Left4,
       Armings, armDisarm, armPostTrigger, armPrePostTrigger
  <2> QED BY <1>2, <2>2, <2>3, <2>4, <2>5, <2>6, StepEffect
<1>3. CASE Callback
  BY <1>3, CallbackEffect DEF Calm
<1>4. CASE sisIH \/ PreSample \/ HwTrigger \/ HwEventDone \/ sisReboot
  <2>1. drv' = drv /\ call' = call
    BY <1>4, OtherEffect
  <2>2. CASE reg' = reg /\ cb' = cb /\ hw'.irq = hw.irq
             /\ (hw'.phase = hw.phase \/ (reg.acq /\ hw.phase # "off"))
    BY <2>1, <2>2 DEF Calm
  <2>3. CASE hw.phase = "open" /\ cb' = cb
    BY <2>1, <2>3 DEF Calm, Working
  <2>4. CASE ~reg'.acq /\ hw'.phase = "off" /\ ~hw'.irq /\ cb' = cb
    BY <2>1, <2>4 DEF Calm
  <2>5. CASE /\ ~reg'.acq /\ hw'.phase = "off" /\ ~hw'.irq /\ hw.irq
             /\ cb'.at = cb.at /\ (cb' = cb \/ drv.arm \in Armings)
    <3>1. drv.arm \in Armings => drv.arm # armDisarm
      BY DEF Armings, armDisarm, armPostTrigger, armPrePostTrigger
    <3> QED BY <2>1, <2>5, <3>1 DEF Calm
  <2> QED BY <1>4, <2>2, <2>3, <2>4, <2>5, OtherEffect
<1>5. CASE UNCHANGED vars
  BY <1>5 DEF vars, Calm
<1> QED BY <1>1, <1>2, <1>3, <1>4, <1>5 DEF Next

\* sisreadMemory: with an operator who puts nothing but triggers and requests
\* to disarm while a cycle is under way, no recorder is armed while its memory
\* is read.
THEOREM ReadsDisarmed == Spec => []NoReadWhileArmed
<1> DEFINE CalmInv == Inv /\ (OperatorWaits => Calm)
<1>1. CalmInv => NoReadWhileArmed
  BY DEF Calm, NoReadWhileArmed, isArmed
<1>2. Init => CalmInv
  BY InvInit, CalmInit
<1>3. CalmInv /\ [Next]_vars => CalmInv'
  <2> SUFFICES ASSUME CalmInv, [Next]_vars PROVE CalmInv'
    OBVIOUS
  <2>1. Inv'
    BY InvStep
  <2>2. OperatorWaits' = OperatorWaits
    BY SetupKept DEF OperatorWaits
  <2>3. OperatorWaits => Calm'
    BY CalmStep
  <2> QED BY <2>1, <2>2, <2>3
<1> HIDE DEF CalmInv
<1> QED BY <1>1, <1>2, <1>3, PTL DEF Spec

-----------------------------------------------------------------------------
(* Types *)

LEMMA SetupTypes ==
    ASSUME setup \in Setups
    PROVE  /\ Groups \in Nat \ {0} /\ ArraySize \in Nat \ {0}
           /\ DelaySpan \in Nat \ {0} /\ AddressSpan \in Nat \ {0} /\ MaxPre \in Nat
           /\ DmaCapacity \in Nat \ {0}
           /\ 0 \in DOMAIN MultiEventNumber /\ DOMAIN MultiEventNumber \subseteq Nat
           /\ \A i \in DOMAIN MultiEventNumber : MultiEventNumber[i] \in 1 .. ArraySize
           /\ ChanLen \in [0 .. Groups - 1 -> [Halves -> Nat]]
           /\ Values \in [Records -> SUBSET Int]
BY SisFadcAssumption
   DEF Groups, ArraySize, DelaySpan, AddressSpan, DmaCapacity, MaxPre, MultiEventNumber,
       ChanLen, Values

\* However the memory is divided, an event has room for a sample.
LEMMA EventSizes ==
    ASSUME NEW size \in Nat \ {0}
    PROVE  \A n \in 1 .. size : size \div n \in Nat \ {0}
OBVIOUS

LEMMA EventSizeType ==
    ASSUME TypeOK
    PROVE  EventSize \in Nat \ {0} /\ Number \in 1 .. ArraySize /\ Size \in Nat \ {0}
<1>1. /\ ArraySize \in Nat \ {0}
      /\ MultiEventNumber[reg.events] \in 1 .. ArraySize
      /\ MultiEventNumber[drv.ind] \in 1 .. ArraySize
  BY SetupTypes DEF TypeOK, Registers, Drivers
<1>2. Number \in 1 .. ArraySize
  BY <1>1 DEF Number
<1> QED BY <1>1, <1>2, EventSizes DEF EventSize, Size

LEMMA SampleInType ==
    ASSUME NEW i \in Int, NEW total \in Int, NEW size \in Nat \ {0}
    PROVE  SampleIn(i, total, size) \in Int
<1>1. (total - 1 - i) % size \in Int
  OBVIOUS
<1> QED BY <1>1 DEF SampleIn, Stale

LEMMA WordType ==
    ASSUME TypeOK, NEW cell \in Nat
    PROVE  Word(cell) \in Words
<1> DEFINE event == IF reg.chain THEN 0 ELSE cell \div EventSize
<1>1. EventSize \in Nat \ {0} /\ ArraySize \in Nat \ {0}
  BY EventSizeType, SetupTypes DEF TypeOK
<1>2. event \in Nat /\ cell % EventSize \in Int
  BY <1>1
<1>3. hw.total \in Int /\ hw.done \in Seq(Nat)
  BY DEF TypeOK, Hardware
<1> HIDE DEF event
<1>4. event + 1 <= Len(hw.done) =>
         SampleIn(cell % EventSize, hw.done[event + 1], EventSize) \in Int
  <2>1. SUFFICES ASSUME event + 1 <= Len(hw.done)
                 PROVE  SampleIn(cell % EventSize, hw.done[event + 1], EventSize) \in Int
    OBVIOUS
  <2>2. hw.done[event + 1] \in Int
    BY <1>2, <1>3, <2>1
  <2> QED BY ONLY <1>1, <1>2, <2>2, SampleInType
<1>5. SampleIn(cell, hw.total, ArraySize) \in Int
  <2>1. cell \in Int
    OBVIOUS
  <2> QED BY ONLY <1>1, <1>3, <2>1, SampleInType
<1> DEFINE at == IF reg.chain THEN SampleIn(cell, hw.total, ArraySize)
                 ELSE IF event + 1 > Len(hw.done) THEN Stale
                 ELSE SampleIn(cell % EventSize, hw.done[event + 1], EventSize)
<1>6. at \in Int
  BY <1>2, <1>3, <1>4, <1>5 DEF Stale
<1>7. Word(cell) = [event |-> event, at |-> at]
  BY DEF Word, event
<1> HIDE DEF at
<1> QED BY <1>2, <1>6, <1>7 DEF Words

LEMMA CopyType ==
    ASSUME TypeOK, NEW cells \in Seq(Nat)
    PROVE  Copy(cells) \in Seq(Words) /\ Len(Copy(cells)) = Len(cells)
<1>1. \A i \in 1 .. Len(cells) : Word(cells[i]) \in Words
  BY WordType
<1>2. DOMAIN cells = 1 .. Len(cells) /\ Len(cells) \in Nat
  OBVIOUS
<1> QED BY <1>1, <1>2 DEF Copy

\* What readContiguous copies, whether or not DMA is used and whenever it fails:
\* the slots of the buffer are those of the words they stand for.
Contiguous(first, n, skip, room) ==
    [i \in 1 .. MaxOf(MinOf(n - skip, room), 0) |-> first + skip + i - 1]

LEMMA WordAtIs ==
    ASSUME DmaCapacity \in Nat \ {0}, NEW first \in Int, NEW fail, NEW ind \in Nat
    PROVE  WordAt(first, fail, ind) = first + ind
<1> DEFINE slot == ind % DmaCapacity
<1>1. slot \in 0 .. DmaCapacity - 1
  BY DivMod
<1> HIDE DEF slot
<1>2. [s \in 0 .. DmaCapacity - 1 |-> first + (ind - slot) + s][slot] = first + (ind - slot) + slot
  BY <1>1
<1>3. Buffer(first, ind)[slot] = first + (ind - slot) + slot
  BY <1>2 DEF Buffer, slot
<1>4. first + (ind - slot) + slot = first + ind
  BY <1>1
<1> QED BY <1>3, <1>4 DEF WordAt, slot

LEMMA ContiguousIs ==
    ASSUME DmaCapacity \in Nat \ {0}, NEW first \in Int, NEW n \in Int, NEW skip \in Nat,
           NEW room \in Int, NEW fail
    PROVE  readContiguous(first, n, skip, room, fail) = Contiguous(first, n, skip, room)
<1> DEFINE len == MaxOf(MinOf(n - skip, room), 0)
<1>1. len \in Nat
  BY DEF MinOf, MaxOf
<1>2. ASSUME NEW i \in 1 .. len
      PROVE  WordAt(first, fail, skip + i - 1) = first + skip + i - 1
  <2>1. skip + i - 1 \in Nat /\ first + (skip + i - 1) = first + skip + i - 1
    BY <1>1
  <2>2. WordAt(first, fail, skip + i - 1) = first + (skip + i - 1)
    BY ONLY DmaCapacity \in Nat \ {0}, first \in Int, <2>1, WordAtIs
  <2> QED BY <2>1, <2>2
<1> HIDE DEF len
<1>3. [i \in 1 .. len |-> WordAt(first, fail, skip + i - 1)]
         = [i \in 1 .. len |-> first + skip + i - 1]
  BY <1>2
<1> QED BY <1>3 DEF readContiguous, Contiguous, len

\* The cells of an event, DMA or not.
PostRun(h) == Contiguous(Base, PostCount, 0, Room(cb.group, h))
PrePostRuns(h) ==
    LET runs == EventRuns
        skip == Most - Want(h)
        room == Room(cb.group, h)
        run1 == Contiguous(Base + runs.first, runs.n1, skip, room)
    IN run1 \o Contiguous(Base, runs.n2, MaxOf(skip - runs.n1, 0), room - Len(run1))

LEMMA ContiguousType ==
    ASSUME NEW first \in Nat, NEW n \in Int, NEW skip \in Nat, NEW room \in Int
    PROVE  /\ Contiguous(first, n, skip, room) \in Seq(Nat)
           /\ Len(Contiguous(first, n, skip, room)) = MaxOf(MinOf(n - skip, room), 0)
           /\ Len(Contiguous(first, n, skip, room)) \in Nat
           /\ Len(Contiguous(first, n, skip, room)) <= MaxOf(room, 0)
<1> DEFINE len == MaxOf(MinOf(n - skip, room), 0)
<1>1. len \in Nat /\ len <= MaxOf(room, 0)
  BY DEF MinOf, MaxOf
<1>2. \A i \in 1 .. len : first + skip + i - 1 \in Nat
  BY <1>1
<1>3. Contiguous(first, n, skip, room) = [i \in 1 .. len |-> first + skip + i - 1]
  BY DEF Contiguous
<1> HIDE DEF len
<1> QED BY <1>1, <1>2, <1>3 DEF len

\* What an event adds to a channel of the group being read fits.
Fits(cells) ==
    \A h \in Halves : cells[h] \in Seq(Nat) /\ Len(cells[h]) <= Room(cb.group, h)

RoomKept == \A g \in 0 .. Groups - 1 : \A h \in Halves : Len(chan[g][h]) <= ChanLen[g][h]

\* No more of an event is read than it has.
PpsFits == cb.at = "event" => cb.pps <= ArraySize \div cb.events

LEMMA ReaderFacts ==
    ASSUME TypeOK
    PROVE  /\ cb.group \in 0 .. Groups - 1 /\ cb.event \in Nat /\ cb.pps \in Int
           /\ ArraySize \div cb.events \in Nat \ {0} /\ Base \in Nat
           /\ \A h \in Halves : /\ Room(cb.group, h) \in Nat
                                /\ chan[cb.group][h] \in Seq(Words)
                                /\ ChanLen[cb.group][h] \in Nat
                                /\ Want(h) \in Int /\ Want(h) <= Room(cb.group, h)
                                /\ Want(h) <= cb.pps
<1> DEFINE size == ArraySize \div cb.events
<1>1. /\ cb.group \in 0 .. Groups - 1 /\ cb.event \in Nat /\ cb.pps \in Int
      /\ cb.events \in 1 .. ArraySize /\ ArraySize \in Nat \ {0}
  BY SetupTypes DEF TypeOK, Readers
<1>2. size \in Nat \ {0}
  BY <1>1, EventSizes
<1>3. Base \in Nat
  <2>1. Base = cb.event * size
    BY DEF Base
  <2> HIDE DEF size
  <2> QED BY <1>1, <1>2, <2>1
<1>4. ASSUME NEW h \in Halves
      PROVE  /\ Room(cb.group, h) \in Nat /\ chan[cb.group][h] \in Seq(Words)
             /\ ChanLen[cb.group][h] \in Nat
             /\ Want(h) \in Int /\ Want(h) <= Room(cb.group, h) /\ Want(h) <= cb.pps
  <2>1. /\ chan[cb.group][h] \in Seq(Words) /\ ChanLen[cb.group][h] \in Nat
        /\ Len(chan[cb.group][h]) <= ChanLen[cb.group][h]
    BY <1>1, SetupTypes DEF TypeOK, Shown
  <2>2. Len(chan[cb.group][h]) \in Nat
    BY <2>1
  <2>3. Room(cb.group, h) \in Nat
    BY <2>1, <2>2 DEF Room
  <2> QED BY <1>1, <2>1, <2>3 DEF Want, MinOf
<1> QED BY <1>1, <1>2, <1>3, <1>4

LEMMA DirectoryType ==
    ASSUME TypeOK, NEW event \in Nat
    PROVE  Directory(event).at \in Nat /\ Directory(event).full \in BOOLEAN
<1>1. EventSize \in Nat \ {0} /\ hw.done \in Seq(Nat)
  BY EventSizeType DEF TypeOK, Hardware
<1>2. CASE event + 1 > Len(hw.done)
  BY <1>2 DEF Directory
<1>3. CASE event + 1 <= Len(hw.done)
  <2>1. hw.done[event + 1] \in Nat
    BY <1>1, <1>3
  <2>2. hw.done[event + 1] % EventSize \in Nat
    BY <1>1, <2>1
  <2>3. Directory(event) = [at |-> hw.done[event + 1] % EventSize,
                            full |-> hw.done[event + 1] >= EventSize]
    BY <1>1, <1>3 DEF Directory
  <2>4. (hw.done[event + 1] >= EventSize) \in BOOLEAN
    OBVIOUS
  <2> QED BY <2>2, <2>3, <2>4
<1> QED BY <1>1, <1>2, <1>3

LEMMA PostFits == TypeOK => Fits([h \in Halves |-> PostRun(h)])
<1> SUFFICES ASSUME TypeOK, NEW h \in Halves
             PROVE  PostRun(h) \in Seq(Nat) /\ Len(PostRun(h)) <= Room(cb.group, h)
  BY DEF Fits
<1> DEFINE n == IF Gated THEN BANK1ADDRESS ELSE reg.stopDelay
           room == Room(cb.group, h)
<1>1. n \in Int
  BY DEF TypeOK, Hardware, Registers, BANK1ADDRESS
<1>2. Base \in Nat /\ room \in Nat /\ 0 \in Nat
  BY ReaderFacts
<1>3. PostRun(h) = Contiguous(Base, n, 0, room)
  BY DEF PostRun, PostCount
<1> HIDE DEF n, room
<1>4. PostRun(h) \in Seq(Nat) /\ Len(PostRun(h)) <= MaxOf(room, 0)
  <2>1. room \in Int
    BY <1>2
  <2> QED BY ONLY <1>1, <1>2, <1>3, <2>1, ContiguousType
<1> QED BY <1>2, <1>4 DEF MaxOf, room

LEMMA RunsType ==
    ASSUME NEW loc \in Nat, NEW nmax \in Nat, NEW size \in Nat, nmax <= size
    PROVE  LET runs == Runs(loc, nmax, size) IN
           runs.first \in Nat /\ runs.n1 \in Nat /\ runs.n2 \in Nat
BY DEF Runs

\* The two runs through an event, one after the other.
LEMMA TwoRunsFit ==
    ASSUME NEW first \in Nat, NEW base \in Nat, NEW n1 \in Nat, NEW n2 \in Nat,
           NEW skip \in Nat, NEW room \in Nat
    PROVE  LET run1 == Contiguous(first, n1, skip, room)
               run2 == Contiguous(base, n2, MaxOf(skip - n1, 0), room - Len(run1))
           IN run1 \o run2 \in Seq(Nat) /\ Len(run1 \o run2) <= room
<1> DEFINE run1 == Contiguous(first, n1, skip, room)
           rest == room - Len(run1)
           skips == MaxOf(skip - n1, 0)
           run2 == Contiguous(base, n2, skips, rest)
<1>1. run1 \in Seq(Nat) /\ Len(run1) \in Nat /\ Len(run1) <= MaxOf(room, 0)
  <2>1. n1 \in Int /\ room \in Int
    OBVIOUS
  <2> QED BY ONLY <2>1, ContiguousType
<1> HIDE DEF run1
<1>2. rest \in Nat /\ skips \in Nat
  BY <1>1 DEF MaxOf
<1>3. rest = room - Len(run1)
  OBVIOUS
<1> HIDE DEF rest, skips
<1>4. run2 \in Seq(Nat) /\ Len(run2) \in Nat /\ Len(run2) <= MaxOf(rest, 0)
  <2>1. n2 \in Int /\ rest \in Int
    BY <1>2
  <2> QED BY ONLY <1>2, <2>1, ContiguousType
<1> HIDE DEF run2
<1>5. run1 \o run2 \in Seq(Nat) /\ Len(run1 \o run2) = Len(run1) + Len(run2)
  BY <1>1, <1>4, ConcatProperties
<1>6. Len(run1 \o run2) <= room
  BY <1>1, <1>2, <1>3, <1>4, <1>5 DEF MaxOf
<1> QED BY <1>5, <1>6 DEF run1, run2, rest, skips

LEMMA EventFits ==
    ASSUME TypeOK, PpsFits, cb.at = "event", Most > 0, NEW h \in Halves
    PROVE  /\ Base \in Nat /\ Base + EventRuns.first \in Nat
           /\ EventRuns.n1 \in Nat /\ EventRuns.n2 \in Nat
           /\ Most - Want(h) \in Nat /\ Room(cb.group, h) \in Nat
<1> DEFINE size == ArraySize \div cb.events
           loc  == Directory(cb.event).at % AddressSpan
<1>1. /\ Base \in Nat /\ Room(cb.group, h) \in Nat
      /\ size \in Nat \ {0} /\ cb.pps <= size /\ cb.pps \in Int
      /\ \A k \in Halves : Want(k) \in Int /\ Want(k) <= cb.pps
  BY ReaderFacts DEF PpsFits
<1>2. loc \in Nat
  <2>1. Directory(cb.event).at \in Nat /\ AddressSpan \in Nat \ {0}
    BY ReaderFacts, DirectoryType, SetupTypes DEF TypeOK
  <2> QED BY <2>1
<1>3. Most \in Nat /\ Most <= size /\ Most - Want(h) \in Nat
  <2> HIDE DEF size
  <2> QED BY <1>1 DEF Most, MaxOf, Halves
<1>4. EventRuns = Runs(loc, Most, size)
  BY DEF EventRuns
<1> HIDE DEF size, loc
<1>5. EventRuns.first \in Nat /\ EventRuns.n1 \in Nat /\ EventRuns.n2 \in Nat
  BY <1>1, <1>2, <1>3, <1>4, RunsType
<1> QED BY <1>1, <1>3, <1>5

LEMMA PrePostFits ==
    TypeOK /\ PpsFits /\ cb.at = "event" /\ Most > 0
        => Fits([h \in Halves |-> PrePostRuns(h)])
<1> SUFFICES ASSUME TypeOK, PpsFits, cb.at = "event", Most > 0, NEW h \in Halves
             PROVE  PrePostRuns(h) \in Seq(Nat) /\ Len(PrePostRuns(h)) <= Room(cb.group, h)
  BY DEF Fits
<1> DEFINE runs  == EventRuns
           first == Base + runs.first
           skip  == Most - Want(h)
           room  == Room(cb.group, h)
           run1  == Contiguous(first, runs.n1, skip, room)
           run2  == Contiguous(Base, runs.n2, MaxOf(skip - runs.n1, 0), room - Len(run1))
<1>1. /\ first \in Nat /\ Base \in Nat /\ skip \in Nat /\ room \in Nat
      /\ runs.n1 \in Nat /\ runs.n2 \in Nat
  BY EventFits
<1>2. PrePostRuns(h) = run1 \o run2
  BY DEF PrePostRuns
<1> HIDE DEF runs, first, skip, room
<1>3. run1 \o run2 \in Seq(Nat) /\ Len(run1 \o run2) <= room
  BY <1>1, TwoRunsFit
<1> QED BY <1>2, <1>3 DEF room

\* Whatever transfers fail, an event is read as by itself; only DMA may be
\* given up.
LEMMA EventIsRead ==
    ASSUME TypeOK, PpsFits, ReadEvent
    PROVE  /\ Add([h \in Halves |-> IF drv.arm = armPostTrigger THEN PostRun(h)
                                    ELSE PrePostRuns(h)])
           /\ \E dma \in BOOLEAN : drv' = [drv EXCEPT !.dma = dma]
<1> DEFINE post == drv.arm = armPostTrigger
<1>1. /\ cb.at = "event" /\ Most > 0
      /\ \E fail, later :
            /\ Add([h \in Halves |-> IF post THEN PostCells(h, fail)
                                    ELSE PrePostCells(h, fail, later)])
            /\ drv' = [drv EXCEPT !.dma = @ /\ fail = Never /\ later = Never]
  BY DEF ReadEvent, Reading
<1>2. PICK fail, later :
        /\ Add([h \in Halves |-> IF post THEN PostCells(h, fail)
                                ELSE PrePostCells(h, fail, later)])
        /\ drv' = [drv EXCEPT !.dma = @ /\ fail = Never /\ later = Never]
  BY <1>1
<1>3. DmaCapacity \in Nat \ {0}
  BY SetupTypes DEF TypeOK
<1>4. ASSUME NEW h \in Halves PROVE PostCells(h, fail) = PostRun(h)
  <2>1. Base \in Int /\ Room(cb.group, h) \in Int /\ 0 \in Nat
    BY ReaderFacts
  <2>2. PostCount \in Int
    BY DEF TypeOK, Hardware, Registers, PostCount, BANK1ADDRESS
  <2>3. readContiguous(Base, PostCount, 0, Room(cb.group, h), fail)
           = Contiguous(Base, PostCount, 0, Room(cb.group, h))
    BY ONLY <1>3, <2>1, <2>2, ContiguousIs
  <2> QED BY <2>3 DEF PostCells, PostRun
<1>5. ASSUME NEW h \in Halves PROVE PrePostCells(h, fail, later) = PrePostRuns(h)
  <2> DEFINE runs  == EventRuns
             first == Base + runs.first
             skip  == Most - Want(h)
             room  == Room(cb.group, h)
             skips == MaxOf(skip - runs.n1, 0)
             run1  == Contiguous(first, runs.n1, skip, room)
             rest  == room - Len(run1)
             fails == IF fail = Never THEN later ELSE 0
  <2>1. /\ first \in Nat /\ Base \in Nat /\ skip \in Nat /\ room \in Nat
        /\ runs.n1 \in Nat /\ runs.n2 \in Nat
    BY <1>1, EventFits
  <2>2. PrePostCells(h, fail, later)
           = readContiguous(first, runs.n1, skip, room, fail)
               \o readContiguous(Base, runs.n2, skips,
                                 room - Len(readContiguous(first, runs.n1, skip, room, fail)),
                                 fails)
    BY DEF PrePostCells
  <2>3. PrePostRuns(h) = run1 \o Contiguous(Base, runs.n2, skips, rest)
    BY DEF PrePostRuns
  <2> HIDE DEF runs, first, skip, room, fails
  <2>4. readContiguous(first, runs.n1, skip, room, fail) = run1 /\ Len(run1) \in Nat
    <3>1. first \in Int /\ runs.n1 \in Int /\ room \in Int
      BY <2>1
    <3>2. readContiguous(first, runs.n1, skip, room, fail) = Contiguous(first, runs.n1, skip, room)
      BY ONLY <1>3, <2>1, <3>1, ContiguousIs
    <3>3. Len(Contiguous(first, runs.n1, skip, room)) \in Nat
      BY ONLY <2>1, <3>1, ContiguousType
    <3> QED BY <3>2, <3>3
  <2> HIDE DEF run1
  <2>5. skips \in Nat /\ rest \in Int /\ Base \in Int /\ runs.n2 \in Int
    BY <2>1, <2>4 DEF MaxOf
  <2> HIDE DEF skips, rest
  <2>6. readContiguous(Base, runs.n2, skips, rest, fails) = Contiguous(Base, runs.n2, skips, rest)
    BY ONLY <1>3, <2>5, ContiguousIs
  <2> QED BY <2>2, <2>3, <2>4, <2>6 DEF rest
<1>6. [h \in Halves |-> IF post THEN PostCells(h, fail) ELSE PrePostCells(h, fail, later)]
         = [h \in Halves |-> IF post THEN PostRun(h) ELSE PrePostRuns(h)]
  BY <1>4, <1>5
<1>7. drv' = [drv EXCEPT !.dma = drv.dma /\ fail = Never /\ later = Never]
  BY <1>2
<1>8. (drv.dma /\ fail = Never /\ later = Never) \in BOOLEAN
  OBVIOUS
<1> QED BY <1>2, <1>6, <1>7, <1>8

LEMMA LongFits == TypeOK /\ Want("high") > 0 => Fits([h \in Halves |-> LongCells(h)])
<1> SUFFICES ASSUME TypeOK, Want("high") > 0, NEW h \in Halves
             PROVE  LongCells(h) \in Seq(Nat) /\ Len(LongCells(h)) <= Room(cb.group, h)
  BY DEF Fits
<1>1. Base \in Nat /\ \A k \in Halves : Room(cb.group, k) \in Nat /\ Want(k) \in Int
                                        /\ Want(k) <= Room(cb.group, k)
  BY ReaderFacts
<1>2. LongCount \in Int /\ LongCount <= Want("high")
  <2> DEFINE size  == ArraySize \div cb.events
             entry == Directory(cb.event)
             have  == IF Gated THEN BANK1ADDRESS
                      ELSE IF entry.at % size = 0 /\ entry.full THEN size ELSE entry.at % size
  <2>1. size \in Nat \ {0} /\ entry.at \in Nat /\ BANK1ADDRESS \in Nat
    BY ReaderFacts, DirectoryType DEF TypeOK, Hardware, BANK1ADDRESS
  <2>2. entry.at % size \in Int
    BY <2>1
  <2>3. have \in Int
    BY <2>1, <2>2
  <2>4. LongCount = MinOf(Want("high"), have)
    BY DEF LongCount
  <2> HIDE DEF have
  <2>5. Want("high") \in Int
    BY <1>1 DEF Halves
  <2> QED BY <2>3, <2>4, <2>5 DEF MinOf
<1>3. CASE h = "high"
  <2> DEFINE len == MaxOf(LongCount, 0)
             cells == [i \in 1 .. len |-> Base + i - 1]
  <2>0. len \in Nat /\ 1 .. LongCount = 1 .. len
    BY <1>2 DEF MaxOf
  <2>1. LongCells(h) = cells
    BY <1>3, <2>0 DEF LongCells
  <2>2. cells \in Seq(Nat) /\ Len(cells) \in Nat /\ Len(cells) <= MaxOf(LongCount, 0)
    <3> HIDE DEF len
    <3>1. \A i \in 1 .. len : Base + i - 1 \in Nat
      BY <1>1, <2>0
    <3>2. cells \in Seq(Nat) /\ Len(cells) = len
      BY <2>0, <3>1
    <3> QED BY <2>0, <3>2 DEF len
  <2> HIDE DEF cells
  <2>3. MaxOf(LongCount, 0) <= Room(cb.group, h)
    BY <1>1, <1>2, <1>3 DEF MaxOf, Halves
  <2> QED BY <1>1, <1>2, <2>1, <2>2, <2>3 DEF MaxOf
<1>4. CASE h # "high"
  BY <1>1, <1>4 DEF LongCells
<1> QED BY <1>3, <1>4

LEMMA GroupRead ==
    ASSUME TypeOK, setup' = setup, NEW g \in 0 .. Groups - 1, NEW new \in [Halves -> Seq(Words)],
           \A h \in Halves : Len(new[h]) <= ChanLen[g][h],
           chan' = [chan EXCEPT ![g] = new]
    PROVE  chan' \in Shown /\ RoomKept'
<1>1. chan \in [0 .. Groups - 1 -> [Halves -> Seq(Words)]] /\ RoomKept
  BY DEF TypeOK, Shown, RoomKept
<1>2. Groups' = Groups /\ ChanLen' = ChanLen
  BY DEF Groups, ChanLen
<1>3. chan' \in [0 .. Groups - 1 -> [Halves -> Seq(Words)]]
  BY <1>1
<1>4. \A f \in 0 .. Groups - 1 : chan'[f] = (IF f = g THEN new ELSE chan[f])
  BY <1>1
<1>5. RoomKept'
  BY <1>1, <1>2, <1>4 DEF RoomKept
<1> QED BY <1>2, <1>3, <1>5 DEF Shown

LEMMA AddTypes ==
    ASSUME TypeOK, setup' = setup, NEW cells \in [Halves -> Seq(Nat)], Fits(cells), Add(cells)
    PROVE  chan' \in Shown /\ RoomKept'
<1> DEFINE g == cb.group
           old(h) == chan[g][h]
           add(h) == Copy(cells[h])
           new == [h \in Halves |-> old(h) \o add(h)]
<1>1. chan \in [0 .. Groups - 1 -> [Halves -> Seq(Words)]] /\ g \in 0 .. Groups - 1
  BY ReaderFacts DEF TypeOK, Shown
<1>2. ASSUME NEW h \in Halves
      PROVE  old(h) \o add(h) \in Seq(Words) /\ Len(old(h) \o add(h)) <= ChanLen[g][h]
  <2>1. /\ old(h) \in Seq(Words) /\ ChanLen[g][h] \in Nat
        /\ Room(g, h) = ChanLen[g][h] - Len(old(h))
    BY ReaderFacts DEF Room
  <2>2. add(h) \in Seq(Words) /\ Len(add(h)) = Len(cells[h]) /\ Len(cells[h]) <= Room(g, h)
    BY CopyType DEF Fits
  <2> HIDE DEF old, add
  <2>3. /\ old(h) \o add(h) \in Seq(Words)
        /\ Len(old(h) \o add(h)) = Len(old(h)) + Len(add(h))
    BY <2>1, <2>2, ConcatProperties
  <2>4. Len(old(h)) \in Nat /\ Len(add(h)) \in Nat
    BY <2>1, <2>2
  <2> QED BY <2>1, <2>2, <2>3, <2>4
<1>3. chan' = [chan EXCEPT ![g] = new]
  <2>1. chan' = [chan EXCEPT ![cb.group] = [h \in Halves |-> chan[cb.group][h] \o Copy(cells[h])]]
    BY <1>1 DEF Add
  <2> QED BY <2>1
<1>4. new \in [Halves -> Seq(Words)] /\ \A h \in Halves : Len(new[h]) <= ChanLen[g][h]
  BY <1>2
<1> HIDE DEF new, g
<1> QED BY <1>1, <1>3, <1>4, GroupRead DEF g

\* A step that leaves the callback task and its channels alone.
LEMMA OutsideTypes ==
    ASSUME TypeOK, PpsFits, UNCHANGED <<setup, cb, chan>>, drv' \in Drivers,
           reg' \in Registers, hw' \in Hardware, isRebooting' \in BOOLEAN, call' \in Calls
    PROVE  TypeOK' /\ PpsFits'
<1>1. /\ Groups' = Groups /\ ChanLen' = ChanLen /\ ArraySize' = ArraySize
      /\ MultiEventNumber' = MultiEventNumber
  BY DEF Groups, ChanLen, ArraySize, MultiEventNumber
<1>2. PpsFits'
  BY <1>1 DEF PpsFits
<1>3. cb' \in Readers' /\ chan' \in Shown' /\ RoomKept'
  BY <1>1 DEF TypeOK, Readers, Shown, RoomKept
<1>4. drv' \in Drivers' /\ reg' \in Registers'
  BY <1>1 DEF Drivers, Registers
<1> QED BY <1>2, <1>3, <1>4 DEF TypeOK, RoomKept, Hardware, Calls

LEMMA PutTypes ==
    ASSUME TypeOK, PpsFits, NEW r \in Records, NEW v \in Values[r], Put(r, v)
    PROVE  TypeOK' /\ PpsFits'
<1>1. UNCHANGED <<setup, isRebooting, cb, chan>>
  BY DEF Put
<1>2. v \in Int
  BY SetupTypes DEF TypeOK
<1>3. /\ drv \in Drivers /\ reg \in Registers /\ hw \in Hardware /\ isRebooting \in BOOLEAN
      /\ call \in Calls
  BY DEF TypeOK
<1>4. ASSUME NEW status \in {"OK", "Error", "Suspend"}, Enter(status, <<>>)
      PROVE  call' \in Calls
  <2>1. <<>> \in Seq(Steps)
    OBVIOUS
  <2> QED BY <1>3, <1>4, <2>1 DEF Enter, Calls
<1>5. CASE \E status \in {"Error", "Suspend"} : Refuse(status)
  BY <1>1, <1>3, <1>4, <1>5, OutsideTypes DEF Refuse
<1>6. CASE \/ Stored("trigger", v) /\ v \in 0 .. ntriggerChoices - 1
           \/ Stored("ind", v) /\ v \in DOMAIN MultiEventNumber
           \/ Stored("preAverage", v) /\ v \in 0 .. npreAverageChoices - 1
           \/ \E field \in {"pts", "pps", "pte"} : Stored(field, v)
  <2>1. drv' \in Drivers
    BY <1>2, <1>3, <1>6 DEF Stored, Drivers
  <2>2. reg' = reg /\ hw' = hw /\ call' \in Calls
    BY <1>4, <1>6 DEF Stored
  <2> QED BY <1>1, <1>3, <2>1, <2>2, OutsideTypes
<1>7. CASE sisclock(v) /\ v \in 0 .. nclockChoices - 1
  <2>1. reg' = [reg EXCEPT !.clock = v] /\ Enter("OK", <<>>) /\ UNCHANGED <<drv, hw>>
    BY <1>7 DEF sisclock
  <2>2. reg' \in Registers
    BY <1>3, <1>7, <2>1 DEF Registers
  <2> QED BY <1>1, <1>3, <1>4, <2>1, <2>2, OutsideTypes
<1>8. CASE sisarm(v)
  <2>1. ArmSteps \in Seq(Steps)
    BY DEF ArmSteps, Steps
  <2>2. call' \in Calls /\ UNCHANGED <<drv, reg, hw>>
    BY <1>2, <1>8, <2>1 DEF sisarm, Calls
  <2> QED BY <1>1, <1>3, <2>2, OutsideTypes
<1>9. CASE sissoftTrigger
  <2>1. hw' \in {hw, [hw EXCEPT !.phase = "open"]} /\ UNCHANGED <<drv, reg>>
        /\ Enter("OK", <<>>)
    BY <1>9 DEF sissoftTrigger
  <2>2. hw' \in Hardware
    BY <1>3, <2>1 DEF Hardware
  <2> QED BY <1>1, <1>3, <1>4, <2>1, <2>2, OutsideTypes
<1>10. \/ \E status \in {"Error", "Suspend"} : Refuse(status)
       \/ \/ Stored("trigger", v) /\ v \in 0 .. ntriggerChoices - 1
          \/ Stored("ind", v) /\ v \in DOMAIN MultiEventNumber
          \/ Stored("preAverage", v) /\ v \in 0 .. npreAverageChoices - 1
          \/ \E field \in {"pts", "pps", "pte"} : Stored(field, v)
       \/ sisclock(v) /\ v \in 0 .. nclockChoices - 1
       \/ sisarm(v) \/ sissoftTrigger
  <2>1. CASE sisclock(v)
    BY <2>1 DEF sisclock
  <2>2. CASE sistrigger(v)
    BY <2>2 DEF sistrigger
  <2>3. CASE sismultiEvent(v)
    BY <2>3 DEF sismultiEvent
  <2>4. CASE sispreAverage(v)
    BY <2>4 DEF sispreAverage
  <2>5. CASE sisnumberPTS(v) \/ sisnumberPPS(v) \/ sisnumberPTE(v)
    BY <2>5 DEF sisnumberPTS, sisnumberPPS, sisnumberPTE
  <2> QED BY <2>1, <2>2, <2>3, <2>4, <2>5 DEF Put
<1> QED BY <1>5, <1>6, <1>7, <1>8, <1>9, <1>10

\* The registers that Program leaves.
Programming(old, delay, route, most, events, pre, wrap, chain) ==
    [[old EXCEPT !.irqOn = TRUE] EXCEPT !.stopDelay = delay, !.routing = route,
        !.maxEvents = most, !.events = events, !.preAverage = pre, !.wrap = wrap,
        !.chain = chain]

LEMMA ProgramRegisters ==
    ASSUME NEW old \in Registers, NEW delay \in Int, NEW route \in BOOLEAN, NEW most \in Int,
           NEW events \in DOMAIN MultiEventNumber, NEW pre \in 0 .. npreAverageChoices - 1,
           NEW wrap \in BOOLEAN, NEW chain \in BOOLEAN
    PROVE  Programming(old, delay, route, most, events, pre, wrap, chain) \in Registers
<1> DEFINE base == [old EXCEPT !.irqOn = TRUE]
<1>1. base \in Registers
  BY DEF Registers
<1> HIDE DEF base
<1>2. [base EXCEPT !.stopDelay = delay, !.routing = route, !.maxEvents = most] \in Registers
  BY <1>1 DEF Registers
<1> DEFINE next == [base EXCEPT !.stopDelay = delay, !.routing = route, !.maxEvents = most]
<1> HIDE DEF next
<1>3. [next EXCEPT !.events = events, !.preAverage = pre, !.wrap = wrap, !.chain = chain]
        \in Registers
  BY <1>2 DEF Registers, next
<1>4. [next EXCEPT !.events = events, !.preAverage = pre, !.wrap = wrap, !.chain = chain]
        = [base EXCEPT !.stopDelay = delay, !.routing = route, !.maxEvents = most,
                       !.events = events, !.preAverage = pre, !.wrap = wrap, !.chain = chain]
  BY <1>1 DEF next, Registers
<1> QED BY <1>3, <1>4 DEF base, Programming

LEMMA MethodStepTypes ==
    ASSUME TypeOK, PpsFits, MethodStep
    PROVE  TypeOK' /\ PpsFits'
<1>1. ~Idle /\ UNCHANGED <<setup, isRebooting, cb, chan>>
  BY DEF MethodStep, AcqOff, IntOff, Program, AcqOn, Start, Doing
<1>2. /\ drv \in Drivers /\ reg \in Registers /\ hw \in Hardware /\ isRebooting \in BOOLEAN
      /\ call \in Calls
  BY DEF TypeOK
<1>3. ASSUME Proceed \/ \E status \in {"OK", "Error"} : Return(status)
      PROVE  call' \in Calls
  <2>1. Tail(call.todo) \in Seq(Steps) /\ <<>> \in Seq(Steps)
    BY <1>1, <1>2 DEF Idle, Calls
  <2> QED BY <1>2, <1>3, <2>1 DEF Proceed, Return, Calls
<1>4. CASE AcqOff
  <2>1. /\ reg' = [reg EXCEPT !.acq = FALSE, !.source = triggerSoft] /\ drv' = drv
        /\ hw' = [hw EXCEPT !.phase = "off"] /\ Proceed
    BY <1>4 DEF AcqOff, Stopped
  <2>2. reg' \in Registers
    <3>1. triggerSoft \in 0 .. ntriggerChoices - 1
      BY DEF triggerSoft, ntriggerChoices
    <3> QED BY <1>2, <2>1, <3>1 DEF Registers
  <2>3. hw' \in Hardware
    BY <1>2, <2>1 DEF Hardware
  <2> QED BY <1>1, <1>2, <1>3, <2>1, <2>2, <2>3, OutsideTypes
<1>5. CASE IntOff
  <2>1. /\ reg' = [reg EXCEPT !.irqOn = FALSE] /\ drv' = [drv EXCEPT !.arm = call.arm]
        /\ hw' = [hw EXCEPT !.irq = FALSE]
        /\ Proceed \/ \E status \in {"OK", "Error"} : Return(status)
    BY <1>5 DEF IntOff
  <2>2. reg' \in Registers
    BY <1>2, <2>1 DEF Registers
  <2>3. hw' \in Hardware
    BY <1>2, <2>1 DEF Hardware
  <2>4. drv' \in Drivers
    BY <1>2, <2>1 DEF Drivers, Calls
  <2> QED BY <1>1, <1>2, <1>3, <2>1, <2>2, <2>3, <2>4, OutsideTypes
<1>6. CASE Program
  <2>1. hw' = [hw EXCEPT !.total = 0, !.done = <<>>] /\ drv' = drv
    BY <1>6 DEF Program
  <2>2. hw' \in Hardware
    <3>1. <<>> \in Seq(Nat) /\ 0 \in Nat
      OBVIOUS
    <3> QED BY <1>2, <2>1, <3>1 DEF Hardware
  <2> DEFINE post == drv.arm = armPostTrigger
             chain == post /\ drv.trigger = triggerFPGate
             delay == IF post THEN StopDelay ELSE reg.stopDelay
             route == IF post THEN Routing ELSE reg.routing
             most == IF chain THEN drv.pte ELSE reg.maxEvents
             base  == [reg EXCEPT !.irqOn = TRUE]
  <2>3. CASE drv.arm \notin Armings
    <3>1. reg' = base /\ Return("Error")
      BY <1>6, <2>3 DEF Program
    <3>2. reg' \in Registers
      BY <1>2, <3>1 DEF Registers
    <3> QED BY <1>1, <1>2, <1>3, <2>1, <2>2, <3>1, <3>2, OutsideTypes
  <2>4. CASE drv.arm \in Armings
    <3>1. /\ reg' = [base EXCEPT !.stopDelay = delay, !.routing = route, !.maxEvents = most,
                                 !.events = drv.ind, !.preAverage = drv.preAverage,
                                 !.wrap = ~post, !.chain = chain]
          /\ Proceed
      BY <1>6, <2>4 DEF Program
    <3>2. delay \in Int
      BY <1>2 DEF StopDelay, Drivers, Registers
    <3>3. route \in BOOLEAN
      <4>1. (drv.pts < DelaySpan) \in BOOLEAN
        OBVIOUS
      <4> QED BY <1>2, <4>1 DEF Routing, Registers
    <3>4. most \in Int /\ drv.ind \in DOMAIN MultiEventNumber
          /\ drv.preAverage \in 0 .. npreAverageChoices - 1
      BY <1>2 DEF Drivers, Registers
    <3>5. (~post) \in BOOLEAN /\ chain \in BOOLEAN
      OBVIOUS
    <3> DEFINE wrap == ~post
    <3>6. wrap \in BOOLEAN
      OBVIOUS
    <3> HIDE DEF delay, route, most, wrap, chain
    <3>7. reg' \in Registers
      <4>1. reg' = Programming(reg, delay, route, most, drv.ind, drv.preAverage, wrap, chain)
        BY <3>1 DEF wrap, Programming
      <4> QED BY ONLY <1>2, <3>2, <3>3, <3>4, <3>5, <3>6, <4>1, ProgramRegisters
    <3> QED BY <1>1, <1>2, <1>3, <2>1, <2>2, <3>1, <3>7, OutsideTypes
  <2> QED BY <2>3, <2>4
<1>7. CASE AcqOn
  <2>1. /\ reg' = [reg EXCEPT !.acq = TRUE, !.source = drv.trigger] /\ drv' = drv
        /\ hw' \in {hw, [hw EXCEPT !.phase = "wait"]} /\ (Proceed \/ Return("OK"))
    BY <1>7 DEF AcqOn
  <2>2. reg' \in Registers
    BY <1>2, <2>1 DEF Registers, Drivers
  <2>3. hw' \in Hardware
    BY <1>2, <2>1 DEF Hardware
  <2> QED BY <1>1, <1>2, <1>3, <2>1, <2>2, <2>3, OutsideTypes
<1>8. CASE Start
  <2>1. hw' \in {hw, [hw EXCEPT !.phase = "wait"]} /\ Proceed /\ UNCHANGED <<drv, reg>>
    BY <1>8 DEF Start
  <2>2. hw' \in Hardware
    BY <1>2, <2>1 DEF Hardware
  <2> QED BY <1>1, <1>2, <1>3, <2>1, <2>2, OutsideTypes
<1> QED BY <1>4, <1>5, <1>6, <1>7, <1>8 DEF MethodStep

LEMMA EventTotalsType == TypeOK => \A n \in EventTotals : n \in Nat
<1> SUFFICES ASSUME TypeOK, NEW n \in EventTotals PROVE n \in Nat
  OBVIOUS
<1>1. /\ hw.total \in Nat /\ reg.stopDelay \in Int
      /\ EventSize \in Nat \ {0} /\ ArraySize \in Nat /\ MaxPre \in Nat
  BY EventSizeType, SetupTypes DEF TypeOK, Hardware, Registers
<1>2. Delay \in Nat
  BY <1>1 DEF Delay, MaxOf
<1>3. CASE reg.wrap
  BY <1>1, <1>2, <1>3 DEF EventTotals
<1>4. CASE ~reg.wrap /\ reg.chain
  BY <1>1, <1>4 DEF EventTotals, MinOf
<1>5. CASE ~reg.wrap /\ ~reg.chain
  <2>1. n = IF reg.routing THEN MinOf(Delay, EventSize) ELSE EventSize
    BY <1>5 DEF EventTotals
  <2> QED BY <1>1, <1>2, <2>1 DEF MinOf
<1> QED BY <1>3, <1>4, <1>5

\* The interrupt handler, the digitizer and the exit hook.
LEMMA EnvironmentTypes ==
    ASSUME TypeOK, PpsFits,
           sisIH \/ PreSample \/ HwTrigger \/ HwEventDone \/ sisReboot \/ UNCHANGED vars
    PROVE  TypeOK' /\ PpsFits'
<1>1. /\ drv \in Drivers /\ reg \in Registers /\ hw \in Hardware /\ isRebooting \in BOOLEAN
      /\ call \in Calls /\ cb \in Readers
  BY DEF TypeOK
<1>2. CASE sisIH
  <2>1. /\ reg' = [reg EXCEPT !.acq = FALSE, !.irqOn = FALSE]
        /\ hw' = [[hw EXCEPT !.irq = FALSE] EXCEPT !.phase = "off"]
        /\ cb' \in {cb, [cb EXCEPT !.pending = TRUE]}
        /\ UNCHANGED <<drv, setup, isRebooting, call, chan>>
    BY <1>2 DEF sisIH, Stopped
  <2>2. reg' \in Registers
    BY <1>1, <2>1 DEF Registers
  <2>3. hw' \in Hardware
    BY <1>1, <2>1 DEF Hardware
  <2>4. cb' \in Readers /\ cb'.at = cb.at /\ cb'.pps = cb.pps /\ cb'.events = cb.events
    BY <1>1, <2>1 DEF Readers
  <2>5. /\ Groups' = Groups /\ ChanLen' = ChanLen /\ ArraySize' = ArraySize
        /\ MultiEventNumber' = MultiEventNumber
    BY <2>1 DEF Groups, ChanLen, ArraySize, MultiEventNumber
  <2>6. PpsFits'
    BY <2>4, <2>5 DEF PpsFits
  <2>7. cb' \in Readers' /\ chan' \in Shown' /\ RoomKept'
    BY <2>1, <2>4, <2>5 DEF TypeOK, Readers, Shown, RoomKept
  <2>8. drv' \in Drivers' /\ reg' \in Registers'
    BY <1>1, <2>1, <2>2, <2>5 DEF Drivers, Registers
  <2> QED BY <1>1, <2>1, <2>3, <2>6, <2>7, <2>8 DEF TypeOK, RoomKept, Hardware, Calls
<1>3. CASE PreSample \/ HwTrigger
  <2>1. hw' \in {[hw EXCEPT !.total = @ + 1], [hw EXCEPT !.phase = "open"]}
        /\ UNCHANGED <<drv, reg, setup, isRebooting, call, cb, chan>>
    BY <1>3 DEF PreSample, HwTrigger
  <2>2. hw.total + 1 \in Nat
    BY <1>1 DEF Hardware
  <2>3. hw' \in Hardware
    BY <1>1, <2>1, <2>2 DEF Hardware
  <2> QED BY <1>1, <2>1, <2>3, OutsideTypes
<1>4. CASE HwEventDone
  <2>1. PICK n \in EventTotals :
           LET last == Len(hw.done) + 1 >= Events IN
           /\ hw' = [total |-> IF reg.chain THEN n ELSE 0, done |-> Append(hw.done, n),
                     phase |-> IF last THEN "off" ELSE "wait",
                     irq |-> hw.irq \/ (last /\ reg.irqOn)]
           /\ reg' = [reg EXCEPT !.acq = ~last]
    BY <1>4 DEF HwEventDone
  <2> DEFINE last  == Len(hw.done) + 1 >= Events
             total == IF reg.chain THEN n ELSE 0
             phase == IF last THEN "off" ELSE "wait"
             irq   == hw.irq \/ (last /\ reg.irqOn)
             acq   == ~last
  <2>2. UNCHANGED <<drv, setup, isRebooting, call, cb, chan>>
    BY <1>4 DEF HwEventDone
  <2>3. total \in Nat /\ Append(hw.done, n) \in Seq(Nat)
    BY <1>1, EventTotalsType DEF Hardware
  <2>4. irq \in BOOLEAN /\ acq \in BOOLEAN /\ phase \in {"off", "wait", "open"}
    OBVIOUS
  <2>5. /\ hw' = [total |-> total, done |-> Append(hw.done, n), phase |-> phase, irq |-> irq]
        /\ reg' = [reg EXCEPT !.acq = acq]
    BY <2>1
  <2> HIDE DEF total, phase, irq, acq
  <2>6. hw' \in Hardware
    BY <2>3, <2>4, <2>5 DEF Hardware
  <2>7. reg' \in Registers
    BY <1>1, <2>4, <2>5 DEF Registers
  <2> QED BY <1>1, <2>2, <2>6, <2>7, OutsideTypes
<1>5. CASE sisReboot
  <2>1. /\ reg' = Cleared /\ hw' = [[hw EXCEPT !.irq = FALSE] EXCEPT !.phase = "off"]
        /\ UNCHANGED <<setup, drv, call, cb, chan>> /\ isRebooting' = TRUE
    BY <1>5 DEF sisReboot, Stopped
  <2>2. Cleared \in Registers
    BY SetupTypes DEF TypeOK, Cleared, Registers, triggerSoft, ntriggerChoices, nclockChoices,
                      npreAverageChoices
  <2>3. hw' \in Hardware
    BY <1>1, <2>1 DEF Hardware
  <2> QED BY <1>1, <2>1, <2>2, <2>3, OutsideTypes
<1>6. CASE UNCHANGED vars
  BY <1>1, <1>6, OutsideTypes DEF vars
<1> QED BY <1>2, <1>3, <1>4, <1>5, <1>6

LEMMA ReaderAt ==
    ASSUME NEW old \in Readers, NEW at \in {"idle", "group", "event", "post"}
    PROVE  [old EXCEPT !.at = at] \in Readers
BY DEF Readers

LEMMA ReaderGroup ==
    ASSUME NEW old \in Readers, NEW group \in 0 .. Groups - 1
    PROVE  [old EXCEPT !.at = "group", !.group = group] \in Readers
<1> DEFINE Numbers == 0 .. Groups - 1
<1>1. Readers = [pending : BOOLEAN, at : {"idle", "group", "event", "post"}, group : Numbers,
                 event : Nat, events : 1 .. ArraySize, pps : Int]
  BY DEF Readers
<1>2. group \in Numbers
  OBVIOUS
<1> HIDE DEF Numbers
<1> QED BY <1>1, <1>2

LEMMA ReaderEvent ==
    ASSUME NEW old \in Readers, NEW event \in Nat
    PROVE  [old EXCEPT !.event = event] \in Readers
BY DEF Readers

LEMMA ReaderTypes ==
    ASSUME NEW old \in Readers, NEW group \in 0 .. Groups - 1, NEW event \in Nat,
           NEW events \in 1 .. ArraySize, NEW pps \in Int
    PROVE  /\ [old EXCEPT !.at = "event", !.event = event, !.events = events, !.pps = pps]
                \in Readers
           /\ [old EXCEPT !.pending = FALSE, !.at = "group", !.group = group, !.event = event,
                          !.pps = pps] \in Readers
<1> DEFINE Numbers == 0 .. Groups - 1
           Divisions == 1 .. ArraySize
<1>1. group \in Numbers /\ events \in Divisions
  OBVIOUS
<1>2. Readers = [pending : BOOLEAN, at : {"idle", "group", "event", "post"}, group : Numbers,
                 event : Nat, events : Divisions, pps : Int]
  BY DEF Readers
<1> HIDE DEF Numbers, Divisions
<1>3. [old EXCEPT !.at = "event", !.event = event, !.events = events, !.pps = pps] \in Readers
  BY <1>1, <1>2
<1>4. [old EXCEPT !.pending = FALSE, !.at = "group", !.group = group, !.event = event,
                  !.pps = pps] \in Readers
  BY <1>1, <1>2
<1> QED BY <1>3, <1>4

LEMMA NextGroupTypes ==
    ASSUME TypeOK, cb.at = "event"
    PROVE  /\ NextGroup \in Readers /\ NextEvent \in Readers
           /\ NextGroup.at \in {"group", "post"}
           /\ NextEvent.at = "event" => NextEvent.pps = cb.pps /\ NextEvent.events = cb.events
<1>1. cb \in Readers /\ cb.group \in 0 .. Groups - 1 /\ cb.event \in Nat /\ Groups \in Nat
  BY SetupTypes DEF TypeOK, Readers
<1>2. cb.group + 1 < Groups => cb.group + 1 \in 0 .. Groups - 1
  BY <1>1
<1>3. cb.group + 1 < Groups => [cb EXCEPT !.at = "group", !.group = cb.group + 1] \in Readers
  BY <1>1, <1>2, ReaderGroup
<1>4. [cb EXCEPT !.at = "post"] \in Readers
  BY <1>1, ReaderAt
<1>5. [cb EXCEPT !.event = cb.event + 1] \in Readers
  <2>1. cb.event + 1 \in Nat
    BY <1>1
  <2> QED BY <1>1, <2>1, ReaderEvent
<1>6. NextGroup \in Readers /\ NextGroup.at \in {"group", "post"}
  BY <1>1, <1>3, <1>4 DEF NextGroup, Readers
<1>7. /\ NextEvent \in Readers
      /\ NextEvent.at = "event" => NextEvent.pps = cb.pps /\ NextEvent.events = cb.events
  BY <1>1, <1>5, <1>6 DEF NextEvent, Readers
<1> QED BY <1>6, <1>7

LEMMA CallbackTypes ==
    ASSUME TypeOK, PpsFits, Callback
    PROVE  TypeOK' /\ PpsFits'
<1>1. UNCHANGED <<reg, hw, setup, isRebooting, call>>
  BY DEF Callback, ReadStart, ReadGroup, GroupDone, ReadRefused, ReadLong, ReadLongFails,
         ReadEvent, Post
<1>2. /\ Groups' = Groups /\ ChanLen' = ChanLen /\ ArraySize' = ArraySize
      /\ MultiEventNumber' = MultiEventNumber
  BY <1>1 DEF Groups, ChanLen, ArraySize, MultiEventNumber
<1>3. /\ cb \in Readers /\ drv \in Drivers /\ chan \in Shown /\ RoomKept /\ PpsFits
      /\ 0 \in 0 .. Groups - 1 /\ 0 \in Nat
  BY SetupTypes DEF TypeOK, RoomKept
<1>4. RoomKept' \/ chan' # chan
  BY <1>2, <1>3 DEF RoomKept
<1>5. SUFFICES drv' \in Drivers /\ cb' \in Readers /\ PpsFits' /\ chan' \in Shown /\ RoomKept'
  <2>1. Readers' = Readers /\ Shown' = Shown /\ Drivers' = Drivers /\ Registers' = Registers
    BY <1>2 DEF Readers, Shown, Drivers, Registers
  <2> QED BY <1>1, <2>1 DEF TypeOK, RoomKept, Hardware, Calls
<1>6. CASE ReadStart
  <2>1. /\ cb' = [cb EXCEPT !.pending = FALSE, !.at = "group", !.group = 0, !.event = 0,
                            !.pps = drv.pps]
        /\ UNCHANGED <<drv, chan>>
    BY <1>6 DEF ReadStart
  <2>2. drv.pps \in Int
    BY <1>3 DEF Drivers
  <2>3. cb' \in Readers /\ cb'.at = "group"
    <3>1. [cb EXCEPT !.pending = FALSE, !.at = "group", !.group = 0, !.event = 0,
                     !.pps = drv.pps] \in Readers
      BY <1>3, <2>2, EventSizeType, ReaderTypes
    <3>2. cb'.at = "group"
      BY <1>3, <2>1 DEF Readers
    <3> QED BY <2>1, <3>1, <3>2
  <2> QED BY <1>3, <1>4, <2>1, <2>3 DEF PpsFits
<1>7. CASE ReadGroup
  <2> DEFINE pps == IF cb.pps = 0 \/ cb.pps > Size THEN Size ELSE cb.pps
  <2>1. /\ cb' \in {[cb EXCEPT !.at = "post"],
                    [cb EXCEPT !.at = "event", !.event = 0, !.events = Number, !.pps = pps]}
        /\ drv' = drv /\ chan' = [chan EXCEPT ![cb.group] = [h \in Halves |-> <<>>]]
    BY <1>7 DEF ReadGroup
  <2>2. Number \in 1 .. ArraySize /\ Size \in Nat \ {0} /\ cb.pps \in Int
        /\ cb.group \in 0 .. Groups - 1
    BY EventSizeType, ReaderFacts
  <2>3. pps \in Int /\ pps <= Size
    BY <2>2
  <2>4. Size = ArraySize \div Number
    BY DEF Size
  <2> HIDE DEF pps
  <2>5. cb' \in Readers
    <3>1. [cb EXCEPT !.at = "post"] \in Readers
      BY <1>3, ReaderAt
    <3>2. [cb EXCEPT !.at = "event", !.event = 0, !.events = Number, !.pps = pps] \in Readers
      BY <1>3, <2>2, <2>3, ReaderTypes
    <3> QED BY <2>1, <3>1, <3>2
  <2>6. cb'.at = "post" \/ (cb'.pps = pps /\ cb'.events = Number)
    BY <1>3, <2>1 DEF Readers
  <2>7. PpsFits'
    BY <1>2, <2>3, <2>4, <2>6 DEF PpsFits
  <2> DEFINE new == [h \in Halves |-> <<>>]
  <2>8. new \in [Halves -> Seq(Words)]
    OBVIOUS
  <2>9. \A h \in Halves : Len(new[h]) <= ChanLen[cb.group][h]
    BY ReaderFacts
  <2>10. chan' = [chan EXCEPT ![cb.group] = new]
    BY <2>1
  <2> HIDE DEF new
  <2> QED BY <1>1, <1>3, <2>1, <2>2, <2>5, <2>7, <2>8, <2>9, <2>10, GroupRead
<1>8. CASE GroupDone \/ ReadRefused \/ ReadLongFails \/ Post
  <2>1. /\ cb' \in {NextGroup, [cb EXCEPT !.at = "post"], [cb EXCEPT !.at = "idle"]}
        /\ cb.at = "event" \/ cb' # NextGroup \/ cb' = [cb EXCEPT !.at = "idle"]
        /\ UNCHANGED <<drv, chan>>
    BY <1>8 DEF GroupDone, ReadRefused, ReadLongFails, Post, Reading
  <2>2. [cb EXCEPT !.at = "post"] \in Readers /\ [cb EXCEPT !.at = "idle"] \in Readers
        /\ [cb EXCEPT !.at = "post"].at = "post" /\ [cb EXCEPT !.at = "idle"].at = "idle"
    <3>1. [cb EXCEPT !.at = "post"] \in Readers
      BY <1>3, ReaderAt
    <3>2. [cb EXCEPT !.at = "idle"] \in Readers
      BY <1>3, ReaderAt
    <3> QED BY <1>3, <3>1, <3>2 DEF Readers
  <2>3. cb' \in Readers /\ cb'.at # "event"
    BY <2>1, <2>2, NextGroupTypes
  <2> QED BY <1>3, <1>4, <2>1, <2>3 DEF PpsFits
<1>9. CASE ReadLong \/ ReadEvent
  <2>1. cb.at = "event" /\ cb' = NextEvent
    BY <1>9 DEF ReadLong, ReadEvent, Reading
  <2>2. cb' \in Readers /\ PpsFits'
    BY <1>2, <1>3, <2>1, NextGroupTypes DEF PpsFits
  <2>3. drv' \in Drivers
    <3>1. CASE ReadLong
      BY <1>3, <3>1 DEF ReadLong
    <3>2. CASE ReadEvent
      <4>1. PICK dma \in BOOLEAN : drv' = [drv EXCEPT !.dma = dma]
        BY <3>2, EventIsRead
      <4> QED BY <1>3, <4>1 DEF Drivers
    <3> QED BY <1>9, <3>1, <3>2
  <2>4. chan' \in Shown /\ RoomKept'
    <3>1. CASE ReadLong
      <4> DEFINE cells == [h \in Halves |-> LongCells(h)]
      <4>1. Fits(cells) /\ Add(cells)
        BY <3>1, LongFits DEF ReadLong, Reading
      <4>2. cells \in [Halves -> Seq(Nat)]
        BY <4>1 DEF Fits
      <4> HIDE DEF cells
      <4> QED BY <1>1, <4>1, <4>2, AddTypes
    <3>2. CASE ReadEvent /\ drv.arm = armPostTrigger
      <4> DEFINE cells == [h \in Halves |-> PostRun(h)]
      <4>1. Fits(cells) /\ Add(cells)
        BY <3>2, EventIsRead, PostFits
      <4>2. cells \in [Halves -> Seq(Nat)]
        BY <4>1 DEF Fits
      <4> HIDE DEF cells
      <4> QED BY <1>1, <4>1, <4>2, AddTypes
    <3>3. CASE ReadEvent /\ drv.arm # armPostTrigger
      <4> DEFINE cells == [h \in Halves |-> PrePostRuns(h)]
      <4>1. Fits(cells) /\ Add(cells)
        <5>1. cb.at = "event" /\ Most > 0
          BY <3>3 DEF ReadEvent, Reading
        <5> QED BY <3>3, <5>1, EventIsRead, PrePostFits
      <4>2. cells \in [Halves -> Seq(Nat)]
        BY <4>1 DEF Fits
      <4> HIDE DEF cells
      <4> QED BY <1>1, <4>1, <4>2, AddTypes
    <3> QED BY <1>9, <3>1, <3>2, <3>3
  <2> QED BY <2>2, <2>3, <2>4
<1> QED BY <1>6, <1>7, <1>8, <1>9 DEF Callback

Typed == TypeOK /\ PpsFits

LEMMA InitTyped == Init => Typed
<1> SUFFICES ASSUME Init PROVE TypeOK /\ PpsFits
  BY DEF Typed
<1>1. /\ Groups \in Nat \ {0} /\ ChanLen \in [0 .. Groups - 1 -> [Halves -> Nat]]
      /\ ArraySize \in Nat \ {0} /\ 0 \in DOMAIN MultiEventNumber
  BY SetupTypes DEF Init
<1>2. drv \in Drivers
  BY <1>1 DEF Init, Drivers, armDisarm, triggerSoft, ntriggerChoices, npreAverageChoices
<1>3. reg \in Registers
  BY <1>1 DEF Init, Cleared, Registers, triggerSoft, ntriggerChoices, nclockChoices,
              npreAverageChoices
<1>4. hw \in Hardware /\ call \in Calls
  BY DEF Init, Hardware, Calls, armDisarm
<1>5. cb \in Readers /\ PpsFits
  BY <1>1 DEF Init, Readers, PpsFits
<1>6. chan \in Shown /\ \A g \in 0 .. Groups - 1 : \A h \in Halves : Len(chan[g][h]) = 0
  BY DEF Init, Shown
<1>7. \A g \in 0 .. Groups - 1 : \A h \in Halves : Len(chan[g][h]) <= ChanLen[g][h]
  BY <1>1, <1>6
<1> QED BY <1>2, <1>3, <1>4, <1>5, <1>6, <1>7 DEF Init, TypeOK

LEMMA TypedKept == Typed /\ [Next]_vars => Typed'
<1> SUFFICES ASSUME Typed, [Next]_vars PROVE Typed'
  OBVIOUS
<1>1. CASE \E r \in Records : \E v \in Values[r] : Put(r, v)
  BY <1>1, PutTypes DEF Typed
<1>2. CASE MethodStep
  BY <1>2, MethodStepTypes DEF Typed
<1>3. CASE sisIH \/ PreSample \/ HwTrigger \/ HwEventDone \/ sisReboot \/ UNCHANGED vars
  BY <1>3, EnvironmentTypes DEF Typed
<1>4. CASE Callback
  BY <1>4, CallbackTypes DEF Typed
<1> QED BY <1>1, <1>2, <1>3, <1>4 DEF Next

\* Types of every variable, and of each channel that what sisreadMemory copies
\* to it fits the array, for every division of the memory, window of an event
\* and number of samples, whatever the operator puts at any time.
THEOREM TypeCorrect == Spec => []TypeOK
<1>1. Typed => TypeOK
  BY DEF Typed
<1> QED BY <1>1, InitTyped, TypedKept, PTL DEF Spec

-----------------------------------------------------------------------------
(* The samples that are wanted *)

WantLen(g, h) == IF Wholes(g) /\ h = "low" THEN 0 ELSE ChanLen[g][h]

\* The i-th sample of a channel.
SampleOf(g, h, i) ==
    LET share == Share(g)
        event == (i - 1) \div share
        nth   == (i - 1) % share
        n     == MinOf(share, WantLen(g, h) - event * share)
    IN [event |-> event,
        at |-> IF drv.arm = armPostTrigger THEN nth
               ELSE Newest(n, hw.done[event + 1])[nth + 1]]

LEMMA WantedIs ==
    \A g, h, events : Wanted(g, h, events) =
        [i \in 1 .. MinOf(Share(g) * events, WantLen(g, h)) |-> SampleOf(g, h, i)]
BY DEF Wanted, SampleOf, WantLen

LEMMA ShareType ==
    ASSUME TypeOK, Sound, drv.arm \in Armings
    PROVE  /\ Pps \in 1 .. Size
           /\ \A g \in 0 .. Groups - 1 : /\ Share(g) \in Nat
                                         /\ \A h \in Halves : WantLen(g, h) \in Nat
<1>1. Size \in Nat \ {0} /\ drv.pps \in Nat
  BY EventSizeType DEF TypeOK, Drivers, Sound
<1>2. Pps \in 1 .. Size
  BY <1>1 DEF Pps, MinOf
<1>3. drv.arm # armPostTrigger => drv.arm = armPrePostTrigger
  BY DEF Armings
<1>4. drv.arm = armPostTrigger => (IF Gated THEN hw.total ELSE drv.pts) \in Nat
  <2>1. hw.total \in Nat
    BY DEF TypeOK, Hardware
  <2> QED BY <2>1 DEF Sound
<1>5. \A g \in 0 .. Groups - 1 : Share(g) \in Nat
  <2>1. drv.arm = armPostTrigger => drv.arm # armPrePostTrigger
    BY DEF armPostTrigger, armPrePostTrigger
  <2> DEFINE taken == IF Gated THEN hw.total ELSE drv.pts
  <2>2. \A g \in 0 .. Groups - 1 :
            Share(g) = IF drv.arm = armPrePostTrigger THEN Pps
                       ELSE IF Wholes(g) THEN MinOf(taken, Pps) ELSE taken
    BY DEF Share
  <2> HIDE DEF taken
  <2>3. drv.arm = armPostTrigger => taken \in Nat
    BY <1>4 DEF taken
  <2> QED BY <1>2, <1>3, <2>1, <2>2, <2>3 DEF MinOf
<1>6. \A g \in 0 .. Groups - 1 : \A h \in Halves : WantLen(g, h) \in Nat
  BY SetupTypes DEF TypeOK, WantLen
<1> QED BY <1>2, <1>5, <1>6

LEMMA NothingWanted ==
    ASSUME TypeOK, Sound, drv.arm \in Armings, NEW g \in 0 .. Groups - 1, NEW h \in Halves
    PROVE  Wanted(g, h, 0) = <<>>
<1>1. Share(g) \in Nat /\ WantLen(g, h) \in Nat
  BY ShareType
<1>2. MinOf(Share(g) * 0, WantLen(g, h)) = 0
  BY <1>1 DEF MinOf
<1>3. Wanted(g, h, 0) = [i \in 1 .. 0 |-> SampleOf(g, h, i)]
  BY <1>2, WantedIs
<1> QED BY <1>3

LEMMA Times == \A a \in Nat, m, n \in Nat : m <= n => a * m \in Nat /\ a * n \in Nat /\ a * m <= a * n
OBVIOUS

\* A channel that is full after some events shows what it would show of all.
LEMMA FullIsAll ==
    ASSUME TypeOK, Sound, drv.arm \in Armings, NEW g \in 0 .. Groups - 1, NEW h \in Halves,
           NEW events \in Nat, NEW all \in Nat, events <= all,
           Len(Wanted(g, h, events)) >= WantLen(g, h)
    PROVE  Wanted(g, h, events) = Wanted(g, h, all)
<1> DEFINE share == Share(g)
           len == WantLen(g, h)
           some == share * events
           every == share * all
<1>1. share \in Nat /\ len \in Nat
  BY ShareType
<1>2. some \in Nat /\ every \in Nat /\ some <= every
  <2> HIDE DEF share
  <2> QED BY <1>1, Times
<1>3. /\ Wanted(g, h, events) = [i \in 1 .. MinOf(some, len) |-> SampleOf(g, h, i)]
      /\ Wanted(g, h, all) = [i \in 1 .. MinOf(every, len) |-> SampleOf(g, h, i)]
  BY WantedIs
<1> HIDE DEF some, every, len
<1>4. Len(Wanted(g, h, events)) = MinOf(some, len)
  <2>1. MinOf(some, len) \in Nat
    BY <1>1, <1>2 DEF MinOf, len
  <2> QED BY <1>3, <2>1
<1>5. MinOf(some, len) = MinOf(every, len)
  BY <1>1, <1>2, <1>4 DEF MinOf, len
<1> QED BY <1>3, <1>5

\* What a channel has room for.
LEMMA RoomOfWanted ==
    ASSUME TypeOK, Sound, drv.arm \in Armings, NEW g \in 0 .. Groups - 1, NEW h \in Halves,
           NEW events \in Nat
    PROVE  /\ Len(Wanted(g, h, events)) \in Nat /\ Share(g) * events \in Nat
           /\ Len(Wanted(g, h, events)) = MinOf(Share(g) * events, WantLen(g, h))
<1> DEFINE share == Share(g)
           n == share * events
<1>1. share \in Nat /\ WantLen(g, h) \in Nat
  BY ShareType
<1>2. n \in Nat
  <2> HIDE DEF share
  <2> QED BY <1>1, Times
<1>3. Wanted(g, h, events) = [i \in 1 .. MinOf(n, WantLen(g, h)) |-> SampleOf(g, h, i)]
  BY WantedIs
<1> HIDE DEF n
<1>4. MinOf(n, WantLen(g, h)) \in Nat
  BY <1>1, <1>2 DEF MinOf
<1> QED BY <1>2, <1>3, <1>4 DEF n

\* The samples of one event more.
LEMMA EventAdded ==
    ASSUME TypeOK, Sound, drv.arm \in Armings, NEW g \in 0 .. Groups - 1, NEW h \in Halves,
           NEW event \in Nat, NEW n \in Nat, NEW add \in Seq(Words), Len(add) = n,
           n = MinOf(Share(g), WantLen(g, h) - Len(Wanted(g, h, event))),
           \A j \in 1 .. n :
               add[j] = [event |-> event,
                         at |-> IF drv.arm = armPostTrigger THEN j - 1
                                ELSE Newest(n, hw.done[event + 1])[j]],
           Wanted(g, h, event) \in Seq(Words)
    PROVE  Wanted(g, h, event) \o add = Wanted(g, h, event + 1)
<1> DEFINE share == Share(g)
           len == WantLen(g, h)
           before == share * event
           after == share * (event + 1)
           old == Wanted(g, h, event)
<1>1. share \in Nat /\ len \in Nat
  BY ShareType
<1>2. before \in Nat /\ after = before + share /\ after \in Nat
  <2> HIDE DEF share
  <2> QED BY <1>1, Times
<1>3. Len(old) = MinOf(before, len) /\ Len(old) \in Nat
  BY RoomOfWanted
<1>4. old = [i \in 1 .. MinOf(before, len) |-> SampleOf(g, h, i)]
  BY WantedIs
<1>5. Wanted(g, h, event + 1) = [i \in 1 .. MinOf(after, len) |-> SampleOf(g, h, i)]
  BY WantedIs
<1>6. n = MinOf(share, len - Len(old))
  OBVIOUS
<1>7. n > 0 => Len(old) = before /\ n = MinOf(share, len - before) /\ share \in Nat \ {0}
  <2> HIDE DEF before, len, share, old
  <2> QED BY <1>1, <1>2, <1>3, <1>6 DEF MinOf, len, share
<1>8. Len(old) + n = MinOf(after, len)
  <2> HIDE DEF before, len, share, old, after
  <2> QED BY <1>1, <1>2, <1>3, <1>6 DEF MinOf, len, share, after
<1>9. ASSUME NEW j \in 1 .. n PROVE add[j] = SampleOf(g, h, Len(old) + j)
  <2>1. Len(old) = before /\ n = MinOf(share, len - before) /\ share \in Nat \ {0}
    BY <1>7
  <2>2. j - 1 \in 0 .. share - 1
    BY <1>1, <1>2, <2>1 DEF MinOf
  <2>3. (before + j) - 1 = event * share + (j - 1)
    <3> HIDE DEF share
    <3> QED BY <2>1
  <2>4. ((before + j) - 1) \div share = event /\ ((before + j) - 1) % share = j - 1
    <3> HIDE DEF share, before
    <3>1. event \in Int
      OBVIOUS
    <3>2. (event * share + (j - 1)) \div share = event
      BY ONLY <2>1, <2>2, <3>1, Quotient
    <3>3. (event * share + (j - 1)) % share = j - 1
      BY ONLY <2>1, <2>2, <3>1, Remainder
    <3> QED BY <2>3, <3>2, <3>3
  <2>5. MinOf(share, len - event * share) = n
    <3> HIDE DEF share
    <3>1. event * share = before
      BY <2>1
    <3> QED BY <2>1, <3>1
  <2>6. SampleOf(g, h, before + j) =
          [event |-> event,
           at |-> IF drv.arm = armPostTrigger THEN j - 1
                  ELSE Newest(n, hw.done[event + 1])[j - 1 + 1]]
    <3> HIDE DEF before
    <3> QED BY <2>4, <2>5 DEF SampleOf
  <2>7. j - 1 + 1 = j
    OBVIOUS
  <2> QED BY <2>1, <2>6, <2>7
<1> HIDE DEF old, before, after, len, share
<1>10. old \o add = [i \in 1 .. Len(old) + n |->
                        IF i <= Len(old) THEN old[i] ELSE add[i - Len(old)]]
  <2>1. old \in Seq(Words)
    BY DEF old
  <2> QED BY <2>1, ConcatIs
<1>11. ASSUME NEW i \in 1 .. Len(old) + n
       PROVE  (IF i <= Len(old) THEN old[i] ELSE add[i - Len(old)]) = SampleOf(g, h, i)
  <2>1. CASE i <= Len(old)
    BY <1>3, <1>4, <2>1
  <2>2. CASE ~(i <= Len(old))
    <3>1. i - Len(old) \in 1 .. n /\ Len(old) + (i - Len(old)) = i
      BY <1>3, <2>2
    <3> QED BY <1>9, <2>2, <3>1
  <2> QED BY <2>1, <2>2
<1>12. old \o add = [i \in 1 .. Len(old) + n |-> SampleOf(g, h, i)]
  BY <1>10, <1>11
<1> QED BY <1>5, <1>8, <1>12 DEF old, after, len

-----------------------------------------------------------------------------
(* What the cells of an event hold when the card is set as the driver is *)

\* The card does what the driver's settings say.
AsSet ==
    /\ reg.events = drv.ind
    /\ reg.wrap = (drv.arm = armPrePostTrigger)
    /\ reg.chain = Gated
    /\ drv.arm = armPrePostTrigger => ~Gated
    /\ drv.arm = armPostTrigger /\ ~Gated /\ drv.pts < DelaySpan =>
          reg.routing /\ reg.stopDelay = drv.pts

\* How much the memory holds.
Totals ==
    /\ reg.chain => ~reg.wrap /\ hw.total <= ArraySize
    /\ ~reg.chain /\ ~reg.wrap /\ reg.routing =>
          \A e \in DOMAIN hw.done : hw.done[e] = MinOf(Delay, EventSize)

\* An event of a group is about to be read, and all before it have been.
AtEvent ==
    /\ TypeOK /\ Sound /\ drv.arm \in Armings /\ AsSet /\ Totals
    /\ ~Gated => Number <= Len(hw.done)
    /\ cb.pps = Pps /\ cb.events = Number /\ cb.event < Number
    /\ \A h \in Halves : chan[cb.group][h] = Wanted(cb.group, h, cb.event)

Taken == IF Gated THEN hw.total ELSE drv.pts

LEMMA EventFacts ==
    ASSUME AtEvent
    PROVE  /\ Size \in Nat \ {0} /\ ArraySize \in Nat \ {0} /\ cb.event \in Nat
           /\ ArraySize \div cb.events = Size /\ Base = cb.event * Size
           /\ Gated => /\ reg.chain /\ cb.event = 0 /\ Size = ArraySize
                       /\ hw.total \in 0 .. ArraySize
           /\ ~Gated => /\ ~reg.chain /\ EventSize = Size
                        /\ cb.event + 1 \in 1 .. Len(hw.done)
                        /\ hw.done[cb.event + 1] \in Nat
<1>1. Size \in Nat \ {0} /\ Number \in 1 .. ArraySize /\ ArraySize \in Nat \ {0}
  BY EventSizeType, SetupTypes DEF AtEvent, TypeOK
<1>2. cb.event \in Nat /\ cb.events = Number /\ cb.event < Number /\ cb.event + 1 \in Nat
  BY ReaderFacts DEF AtEvent
<1>3. ArraySize \div cb.events = Size
  BY <1>2 DEF Size
<1>4. Base = cb.event * Size
  BY <1>3 DEF Base
<1>5. Gated => Number = 1
  BY DEF Number
<1>6. ASSUME Gated
      PROVE  reg.chain /\ cb.event = 0 /\ Size = ArraySize /\ hw.total \in 0 .. ArraySize
  <2>1. reg.chain /\ cb.event = 0
    BY <1>2, <1>5, <1>6 DEF AtEvent, AsSet
  <2>2. Size = ArraySize
    BY <1>1, <1>5, <1>6 DEF Size
  <2>3. hw.total \in Nat /\ hw.total <= ArraySize
    BY <2>1 DEF AtEvent, Totals, TypeOK, Hardware
  <2> QED BY <1>1, <2>1, <2>2, <2>3
<1>7. ASSUME ~Gated
      PROVE  /\ ~reg.chain /\ EventSize = Size
             /\ cb.event + 1 \in 1 .. Len(hw.done)
             /\ hw.done[cb.event + 1] \in Nat
  <2>1. ~reg.chain /\ reg.events = drv.ind /\ Number <= Len(hw.done) /\ hw.done \in Seq(Nat)
    BY <1>7 DEF AtEvent, AsSet, TypeOK, Hardware
  <2>2. EventSize = Size
    BY <1>7, <2>1 DEF EventSize, Size, Number
  <2>3. Len(hw.done) \in Nat
    BY <2>1
  <2>4. cb.event + 1 \in 1 .. Len(hw.done)
    BY <1>1, <1>2, <2>1, <2>3
  <2> QED BY <2>1, <2>2, <2>4
<1> QED BY <1>1, <1>2, <1>3, <1>4, <1>6, <1>7

\* The cells of an event that is not a chain of gates.
LEMMA EventWord ==
    ASSUME AtEvent, ~Gated, NEW c \in 0 .. Size - 1
    PROVE  Word(Base + c) = [event |-> cb.event,
                             at |-> SampleIn(c, hw.done[cb.event + 1], Size)]
<1>1. /\ Size \in Nat \ {0} /\ cb.event \in Int /\ Base = cb.event * Size
      /\ ~reg.chain /\ EventSize = Size /\ cb.event + 1 \in 1 .. Len(hw.done)
  BY EventFacts
<1>2. PICK size \in Nat \ {0} : size = Size
  BY <1>1
<1>3. c \in 0 .. size - 1
  BY <1>2
<1>4. (cb.event * size + c) \div size = cb.event
  BY ONLY <1>1, <1>2, <1>3, Quotient
<1>5. (cb.event * size + c) % size = c
  BY ONLY <1>1, <1>2, <1>3, Remainder
<1>6. (Base + c) \div EventSize = cb.event /\ (Base + c) % EventSize = c
  BY <1>1, <1>2, <1>4, <1>5
<1>7. ~(cb.event + 1 > Len(hw.done))
  <2>1. Len(hw.done) \in Nat
    BY DEF AtEvent, TypeOK, Hardware
  <2> QED BY <1>1, <2>1
<1> QED BY <1>1, <1>6, <1>7 DEF Word

\* After a post-trigger cycle the memory of an event holds its samples from
\* the first cell on.
LEMMA PostEvents ==
    ASSUME AtEvent, drv.arm = armPostTrigger
    PROVE  /\ Taken \in 0 .. Size
           /\ ~Gated => hw.done[cb.event + 1] = Taken /\ reg.stopDelay = Taken
<1>1. CASE Gated
  BY <1>1, EventFacts DEF Taken
<1>2. CASE ~Gated
  <2>1. /\ ~reg.chain /\ EventSize = Size /\ Size \in Nat \ {0}
        /\ cb.event + 1 \in 1 .. Len(hw.done)
    BY <1>2, EventFacts
  <2>2. drv.pts \in 0 .. MinOf(DelaySpan - 1, Size) /\ DelaySpan \in Nat \ {0}
    BY <1>2, SetupTypes DEF AtEvent, Sound, TypeOK
  <2>3. drv.pts \in 0 .. Size /\ drv.pts < DelaySpan
    BY <2>1, <2>2 DEF MinOf
  <2>4. reg.routing /\ reg.stopDelay = drv.pts /\ ~reg.wrap
    <3>1. drv.arm # armPrePostTrigger
      BY DEF armPostTrigger, armPrePostTrigger
    <3>2. reg.wrap = (drv.arm = armPrePostTrigger)
      BY DEF AtEvent, AsSet
    <3>3. ~reg.wrap
      BY <3>1, <3>2, Zenon
    <3> QED BY <1>2, <2>3, <3>3 DEF AtEvent, AsSet
  <2>5. Delay = drv.pts
    BY <2>3, <2>4 DEF Delay, MaxOf
  <2>6. cb.event + 1 \in DOMAIN hw.done
    <3>1. hw.done \in Seq(Nat)
      BY DEF AtEvent, TypeOK, Hardware
    <3> QED BY <2>1, <3>1
  <2>7. hw.done[cb.event + 1] = MinOf(drv.pts, Size)
    BY <2>1, <2>4, <2>5, <2>6 DEF AtEvent, Totals
  <2>8. MinOf(drv.pts, Size) = drv.pts
    BY <2>1, <2>3 DEF MinOf
  <2> QED BY <1>2, <2>3, <2>4, <2>7, <2>8 DEF Taken
<1> QED BY <1>1, <1>2

LEMMA PostWord ==
    ASSUME AtEvent, drv.arm = armPostTrigger, NEW j \in 1 .. Taken
    PROVE  Word(Base + j - 1) = [event |-> cb.event, at |-> j - 1]
<1>1. Taken \in 0 .. Size /\ Size \in Nat /\ Base \in Nat
  BY PostEvents, EventFacts, ReaderFacts DEF AtEvent
<1>2. PICK taken \in 0 .. Size : taken = Taken
  BY <1>1
<1>3. j - 1 \in 0 .. taken - 1 /\ j - 1 \in 0 .. Size - 1
  BY <1>1, <1>2
<1>4. SampleIn(j - 1, taken, Size) = j - 1
  BY ONLY <1>1, <1>2, <1>3, FirstCells
<1>5. Base + (j - 1) = Base + j - 1
  BY <1>1
<1>6. CASE Gated
  <2>1. reg.chain /\ cb.event = 0 /\ Size = ArraySize /\ Base = cb.event * Size
    BY <1>6, EventFacts
  <2>2. Base + j - 1 = j - 1
    BY <1>1, <2>1
  <2>3. taken = hw.total
    BY <1>2, <1>6 DEF Taken
  <2> QED BY <1>4, <2>1, <2>2, <2>3 DEF Word
<1>7. CASE ~Gated
  <2>1. Word(Base + (j - 1)) = [event |-> cb.event,
                                at |-> SampleIn(j - 1, hw.done[cb.event + 1], Size)]
    BY <1>3, <1>7, EventWord
  <2>2. hw.done[cb.event + 1] = taken
    BY <1>2, <1>7, PostEvents
  <2> QED BY <1>4, <1>5, <2>1, <2>2
<1> QED BY <1>6, <1>7

-----------------------------------------------------------------------------
(* What sisreadMemory adds to a channel *)

\* add are the samples of the event that the channel has room for.
Adds(h, add) ==
    /\ add \in Seq(Words)
    /\ Len(add) = MinOf(Share(cb.group), WantLen(cb.group, h) - Len(chan[cb.group][h]))
    /\ \A j \in 1 .. Len(add) :
          add[j] = [event |-> cb.event,
                    at |-> IF drv.arm = armPostTrigger THEN j - 1
                           ELSE Newest(Len(add), hw.done[cb.event + 1])[j]]

LEMMA AddsOneEvent ==
    ASSUME AtEvent, NEW h \in Halves, NEW add, Adds(h, add)
    PROVE  chan[cb.group][h] \o add = Wanted(cb.group, h, cb.event + 1)
<1>1. /\ TypeOK /\ Sound /\ drv.arm \in Armings /\ cb.group \in 0 .. Groups - 1
      /\ cb.event \in Nat /\ chan[cb.group][h] \in Seq(Words)
      /\ chan[cb.group][h] = Wanted(cb.group, h, cb.event)
  BY ReaderFacts DEF AtEvent
<1>2. Len(add) \in Nat /\ add \in Seq(Words)
  BY DEF Adds
<1> DEFINE g == cb.group
<1>3. /\ Len(add) = MinOf(Share(g), WantLen(g, h) - Len(Wanted(g, h, cb.event)))
      /\ Wanted(g, h, cb.event) \in Seq(Words)
  BY <1>1 DEF Adds
<1>4. \A j \in 1 .. Len(add) :
          add[j] = [event |-> cb.event,
                    at |-> IF drv.arm = armPostTrigger THEN j - 1
                           ELSE Newest(Len(add), hw.done[cb.event + 1])[j]]
  BY DEF Adds
<1>5. g \in 0 .. Groups - 1
  BY <1>1
<1> HIDE DEF g
<1>6. Wanted(g, h, cb.event) \o add = Wanted(g, h, cb.event + 1)
  BY ONLY <1>1, <1>2, <1>3, <1>4, <1>5, h \in Halves, EventAdded
<1> QED BY <1>1, <1>6 DEF g

\* The words copied from cells that follow one another.
LEMMA CopyIs ==
    ASSUME NEW cells \in Seq(Nat), TypeOK
    PROVE  /\ Copy(cells) \in Seq(Words) /\ Len(Copy(cells)) = Len(cells)
           /\ \A j \in 1 .. Len(cells) : Copy(cells)[j] = Word(cells[j])
<1>1. DOMAIN cells = 1 .. Len(cells)
  OBVIOUS
<1> QED BY <1>1, CopyType DEF Copy

\* In the post-trigger mode the first samples of the event are copied.
LEMMA PostCopied ==
    ASSUME AtEvent, drv.arm = armPostTrigger, NEW h \in Halves, NEW n \in Nat, n <= Taken,
           n = MinOf(Share(cb.group), WantLen(cb.group, h) - Len(chan[cb.group][h])),
           NEW cells, cells = [i \in 1 .. n |-> Base + 0 + i - 1]
    PROVE  Adds(h, Copy(cells))
<1>1. Base \in Nat /\ Taken \in Nat /\ TypeOK
  <2>1. Taken \in 0 .. Size /\ Size \in Nat
    BY PostEvents, EventFacts
  <2> QED BY <2>1, ReaderFacts DEF AtEvent
<1>2. \A i \in 1 .. n : Base + 0 + i - 1 \in Nat
  BY <1>1
<1>3. cells \in Seq(Nat) /\ Len(cells) = n
  BY <1>2
<1>4. /\ Copy(cells) \in Seq(Words) /\ Len(Copy(cells)) = n
      /\ \A j \in 1 .. n : Copy(cells)[j] = Word(cells[j])
  BY <1>1, <1>3, CopyIs
<1>5. ASSUME NEW j \in 1 .. n PROVE Copy(cells)[j] = [event |-> cb.event, at |-> j - 1]
  <2>1. cells[j] = Base + j - 1 /\ j \in 1 .. Taken
    BY <1>1
  <2>2. Word(Base + j - 1) = [event |-> cb.event, at |-> j - 1]
    BY <2>1, PostWord
  <2> QED BY <1>4, <2>1, <2>2
<1> QED BY <1>4, <1>5 DEF Adds

\* How much of a channel is left.
LEMMA RoomLeft ==
    ASSUME AtEvent, NEW h \in Halves
    PROVE  /\ Room(cb.group, h) \in Nat
           /\ ~Wholes(cb.group) \/ h = "high" =>
                 WantLen(cb.group, h) - Len(chan[cb.group][h]) = Room(cb.group, h)
           /\ Wholes(cb.group) /\ h = "low" =>
                 WantLen(cb.group, h) = 0 /\ Len(chan[cb.group][h]) = 0
<1>1. Room(cb.group, h) \in Nat
  BY ReaderFacts DEF AtEvent
<1>2. ~Wholes(cb.group) \/ h = "high" =>
         WantLen(cb.group, h) - Len(chan[cb.group][h]) = Room(cb.group, h)
  BY DEF WantLen, Room
<1>3. ASSUME Wholes(cb.group), h = "low"
      PROVE  WantLen(cb.group, h) = 0 /\ Len(chan[cb.group][h]) = 0
  <2>1. WantLen(cb.group, h) = 0
    BY <1>3 DEF WantLen
  <2>2. /\ TypeOK /\ Sound /\ drv.arm \in Armings /\ cb.group \in 0 .. Groups - 1
        /\ cb.event \in Nat /\ chan[cb.group][h] = Wanted(cb.group, h, cb.event)
    BY ReaderFacts DEF AtEvent
  <2> DEFINE n == Share(cb.group) * cb.event
  <2>3. n \in Nat /\ Len(chan[cb.group][h]) = MinOf(n, WantLen(cb.group, h))
    BY <2>2, RoomOfWanted
  <2> HIDE DEF n
  <2> QED BY <2>1, <2>3 DEF MinOf
<1> QED BY <1>1, <1>2, <1>3

LEMMA PostAdds ==
    ASSUME AtEvent, drv.arm = armPostTrigger, ~UseLong, NEW h \in Halves
    PROVE  Adds(h, Copy(PostRun(h)))
<1> DEFINE room == Room(cb.group, h)
           n == MinOf(Taken, room)
<1>1. Taken \in Nat
  <2>1. Taken \in 0 .. Size /\ Size \in Nat
    BY PostEvents, EventFacts
  <2> QED BY <2>1
<1>2. room \in Nat /\ WantLen(cb.group, h) - Len(chan[cb.group][h]) = room
  BY RoomLeft DEF UseLong
<1>3. Share(cb.group) = Taken
  BY DEF Share, UseLong, Taken, armPostTrigger, armPrePostTrigger
<1>4. (IF Gated THEN BANK1ADDRESS ELSE reg.stopDelay) = Taken
  BY PostEvents DEF Taken, BANK1ADDRESS
<1> HIDE DEF room
<1>5. n \in Nat /\ n <= Taken /\ MaxOf(MinOf(Taken - 0, room), 0) = n
  BY <1>1, <1>2 DEF MinOf, MaxOf
<1>6. PostRun(h) = [i \in 1 .. n |-> Base + 0 + i - 1]
  BY <1>4, <1>5 DEF PostRun, PostCount, Contiguous, room
<1>7. n = MinOf(Share(cb.group), WantLen(cb.group, h) - Len(chan[cb.group][h]))
  BY <1>2, <1>3
<1> HIDE DEF n
<1> QED BY <1>5, <1>6, <1>7, PostCopied

\* With FTVL LONG numberPPS limits the high channel, and the low one gets
\* nothing.  The directory entry of an event that has filled its memory leads
\* to its beginning.
LEMMA LongAdds ==
    ASSUME AtEvent, drv.arm = armPostTrigger, UseLong, Want("high") > 0, NEW h \in Halves
    PROVE  Adds(h, Copy(LongCells(h)))
<1>1. CASE h # "high"
  <2>1. h = "low"
    BY <1>1 DEF Halves
  <2>2. WantLen(cb.group, h) - Len(chan[cb.group][h]) = 0
    BY <2>1, RoomLeft DEF UseLong
  <2>3. Share(cb.group) \in Nat
    BY ReaderFacts, ShareType DEF AtEvent
  <2>4. MinOf(Share(cb.group), 0) = 0
    BY <2>3 DEF MinOf
  <2>5. Copy(LongCells(h)) = <<>>
    BY <1>1 DEF LongCells, Copy
  <2> QED BY <2>2, <2>4, <2>5 DEF Adds
<1>2. CASE h = "high"
  <2> DEFINE room == Room(cb.group, h)
             n == MinOf(Want("high"), Taken)
             size  == ArraySize \div cb.events
             entry == Directory(cb.event)
             have == IF Gated THEN BANK1ADDRESS
                     ELSE IF entry.at % size = 0 /\ entry.full THEN size ELSE entry.at % size
  <2>1. Taken \in 0 .. Size /\ Size \in Nat \ {0} /\ size = Size
    BY PostEvents, EventFacts
  <2>2. room \in Nat /\ WantLen(cb.group, h) - Len(chan[cb.group][h]) = room
    BY <1>2, RoomLeft
  <2>3. Share(cb.group) = MinOf(Taken, Pps) /\ Pps \in 1 .. Size
    <3>1. Pps \in 1 .. Size
      BY ShareType DEF AtEvent
    <3> QED BY <3>1 DEF Share, UseLong, Taken, armPostTrigger, armPrePostTrigger
  <2>4. Want("high") = MinOf(room, Pps)
    BY <1>2 DEF Want, AtEvent
  <2>5. have = Taken
    <3>1. CASE Gated
      BY <3>1 DEF Taken, BANK1ADDRESS
    <3>2. CASE ~Gated
      <4>1. /\ EventSize = Size /\ hw.done[cb.event + 1] = Taken
            /\ cb.event + 1 \in 1 .. Len(hw.done)
        BY <3>2, PostEvents, EventFacts
      <4>2. ~(cb.event + 1 > Len(hw.done))
        <5>1. Len(hw.done) \in Nat
          BY DEF AtEvent, TypeOK, Hardware
        <5> QED BY <4>1, <5>1
      <4>3. entry = [at |-> Taken % Size, full |-> Taken >= Size]
        BY <4>1, <4>2 DEF Directory
      <4> HIDE DEF entry, size
      <4>4. have = IF (Taken % Size) % Size = 0 /\ Taken >= Size THEN Size
                   ELSE (Taken % Size) % Size
        BY <2>1, <3>2, <4>3
      <4>5. CASE Taken = Size
        <5>1. (1 * Size + 0) % Size = 0 /\ 1 * Size + 0 = Size
          BY <2>1, Remainder
        <5>2. (0 * Size + 0) % Size = 0 /\ 0 * Size + 0 = 0
          BY <2>1, Remainder
        <5> HIDE DEF have
        <5> QED BY <2>1, <4>4, <4>5, <5>1, <5>2
      <4>6. CASE Taken # Size
        <5>1. Taken \in 0 .. Size - 1
          BY <2>1, <4>6
        <5>2. (0 * Size + Taken) % Size = Taken /\ 0 * Size + Taken = Taken
          BY ONLY <2>1, <5>1, 0 \in Int, Remainder
        <5> HIDE DEF have
        <5> QED BY <2>1, <4>4, <5>1, <5>2
      <4> QED BY <4>5, <4>6
    <3> QED BY <3>1, <3>2
  <2>6. LongCount = n
    <3>1. LongCount = MinOf(Want("high"), have)
      BY DEF LongCount
    <3> HIDE DEF have
    <3> QED BY <2>5, <3>1
  <2> HIDE DEF room, size, entry, have
  <2>7. n \in Nat /\ n <= Taken /\ n = MinOf(Share(cb.group), room)
    BY <2>1, <2>2, <2>3, <2>4 DEF MinOf
  <2>8. LongCells(h) = [i \in 1 .. n |-> Base + 0 + i - 1]
    <3>1. Base \in Nat
      BY ReaderFacts DEF AtEvent
    <3>2. [i \in 1 .. n |-> Base + i - 1] = [i \in 1 .. n |-> Base + 0 + i - 1]
      BY <3>1
    <3> QED BY <1>2, <2>6, <3>2 DEF LongCells
  <2> HIDE DEF n
  <2>9. n = MinOf(Share(cb.group), WantLen(cb.group, h) - Len(chan[cb.group][h]))
    BY <2>2, <2>7
  <2> QED BY <2>7, <2>8, <2>9, PostCopied
<1> QED BY <1>1, <1>2

\* The two calls of readContiguous leave out the first skip of the nmax words
\* they run through, and copy the others in their order.
RunPairs == [first : Nat, n1 : Nat, n2 : Nat]
TwoRuns(base, runs, skip, room) ==
    LET run1 == Contiguous(base + runs.first, runs.n1, skip, room)
    IN run1 \o Contiguous(base, runs.n2, MaxOf(skip - runs.n1, 0), room - Len(run1))

LEMMA TwoRunsAre ==
    ASSUME NEW base \in Nat, NEW runs \in RunPairs,
           NEW skip \in Nat, NEW room \in Nat,
           runs.n1 + runs.n2 - skip \in 0 .. room
    PROVE  /\ TwoRuns(base, runs, skip, room) \in Seq(Int)
           /\ Len(TwoRuns(base, runs, skip, room)) = runs.n1 + runs.n2 - skip
           /\ \A i \in 1 .. Len(TwoRuns(base, runs, skip, room)) :
                 TwoRuns(base, runs, skip, room)[i] = base + RunCell(runs, skip + i)
<1>0. PICK first \in Nat, n1 \in Nat, n2 \in Nat, k \in 0 .. room :
        /\ runs.first = first /\ runs.n1 = n1 /\ runs.n2 = n2
        /\ n1 + n2 = skip + k /\ runs.n1 + runs.n2 - skip = k
  BY DEF RunPairs
<1> DEFINE cell(i) == base + RunCell(runs, skip + i)
           len1 == MaxOf(MinOf(n1 - skip, room), 0)
           len2 == MaxOf(MinOf(n2 - MaxOf(skip - n1, 0), room - len1), 0)
           run1 == Contiguous(base + first, n1, skip, room)
           run2 == Contiguous(base, n2, MaxOf(skip - n1, 0), room - Len(run1))
<1>1. len1 \in Nat /\ len2 \in Nat /\ len1 + len2 = k
  BY <1>0 DEF MinOf, MaxOf
<1>2. len1 = IF n1 >= skip THEN n1 - skip ELSE 0
  BY <1>0 DEF MinOf, MaxOf
<1>3. run1 = [i \in 1 .. len1 |-> base + first + skip + i - 1]
  BY DEF Contiguous
<1>4. run1 \in Seq(Int) /\ Len(run1) = len1
  <2> HIDE DEF len1
  <2>1. \A i \in 1 .. len1 : base + first + skip + i - 1 \in Int
    BY <1>1
  <2> HIDE DEF run1
  <2> QED BY <1>1, <1>3, <2>1
<1> HIDE DEF run1
<1>5. run2 = [i \in 1 .. len2 |-> base + MaxOf(skip - n1, 0) + i - 1]
  BY <1>4 DEF Contiguous
<1>6. run2 \in Seq(Int) /\ Len(run2) = len2
  <2> HIDE DEF len2, run2
  <2>1. \A i \in 1 .. len2 : base + MaxOf(skip - n1, 0) + i - 1 \in Int
    BY <1>1 DEF MaxOf
  <2> QED BY <1>1, <1>5, <2>1
<1> HIDE DEF run2, len2
<1>7. run1 \o run2 = [i \in 1 .. len1 + len2 |->
                         IF i <= len1 THEN run1[i] ELSE run2[i - len1]]
  <2> HIDE DEF len1
  <2>1. run1 \o run2 = [i \in 1 .. Len(run1) + Len(run2) |->
                          IF i <= Len(run1) THEN run1[i] ELSE run2[i - Len(run1)]]
    BY ONLY <1>4, <1>6, ConcatIs
  <2> QED BY <1>4, <1>6, <2>1
<1>8. ASSUME NEW i \in 1 .. k
      PROVE  (IF i <= len1 THEN run1[i] ELSE run2[i - len1]) = cell(i)
  <2>1. ASSUME i <= len1 PROVE run1[i] = cell(i)
    <3>1. run1[i] = base + first + skip + i - 1
      <4> HIDE DEF len1
      <4> QED BY <1>1, <1>3, <2>1
    <3>2. skip + i <= n1
      BY <1>2, <2>1
    <3>3. cell(i) = base + (first + (skip + i) - 1)
      BY <1>0, <3>2 DEF RunCell
    <3> QED BY <2>1, <3>1, <3>3
  <2>2. ASSUME ~(i <= len1) PROVE run2[i - len1] = cell(i)
    <3>1. i - len1 \in 1 .. len2
      <4> HIDE DEF len1
      <4> QED BY <1>1, <2>2
    <3>2. run2[i - len1] = base + MaxOf(skip - n1, 0) + (i - len1) - 1
      <4> HIDE DEF len1
      <4> QED BY <1>5, <3>1
    <3>3. ~(skip + i <= n1) /\ MaxOf(skip - n1, 0) - len1 = skip - n1
      BY <1>2, <2>2 DEF MaxOf
    <3>4. cell(i) = base + ((skip + i) - n1 - 1)
      BY <1>0, <3>3 DEF RunCell
    <3>5. MaxOf(skip - n1, 0) \in Int
      BY DEF MaxOf
    <3> HIDE DEF cell, len1
    <3> QED BY <1>0, <1>1, <2>2, <3>2, <3>3, <3>4, <3>5
  <2> QED BY <2>1, <2>2, Zenon
<1> HIDE DEF len1, cell
<1>9. /\ run1 \o run2 \in Seq(Int) /\ Len(run1 \o run2) = k
      /\ \A i \in 1 .. k : (run1 \o run2)[i] = cell(i)
  <2>1. run1 \o run2 \in Seq(Int) /\ Len(run1 \o run2) = len1 + len2
    BY ONLY <1>4, <1>6, ConcatProperties
  <2> QED BY <1>1, <1>7, <1>8, <2>1
<1>10. TwoRuns(base, runs, skip, room) = run1 \o run2
  BY <1>0 DEF TwoRuns, run1, run2
<1> DEFINE two == TwoRuns(base, runs, skip, room)
<1> HIDE DEF two
<1>11. two \in Seq(Int) /\ Len(two) = k /\ \A i \in 1 .. k : two[i] = cell(i)
  BY <1>9, <1>10 DEF two
<1>12. two \in Seq(Int) /\ Len(two) = runs.n1 + runs.n2 - skip
  BY <1>0, <1>11
<1>13. \A i \in 1 .. Len(two) : two[i] = base + RunCell(runs, skip + i)
  BY <1>11 DEF cell
<1> QED BY <1>12, <1>13 DEF two

\* In the pre/post-trigger mode the newest samples of the event are copied, in
\* the order they were taken.
LEMMA PrePostAdds ==
    ASSUME AtEvent, drv.arm = armPrePostTrigger, ~UseLong, Most > 0, NEW h \in Halves
    PROVE  Adds(h, Copy(PrePostRuns(h)))
<1> DEFINE size == ArraySize \div cb.events
           total == hw.done[cb.event + 1]
           loc  == Directory(cb.event).at % AddressSpan
           runs == Runs(loc, Most, size)
           skip == Most - Want(h)
           room == Room(cb.group, h)
           n == Want(h)
<1>1. /\ size = Size /\ Size \in Nat \ {0} /\ EventSize = Size
      /\ cb.event + 1 \in 1 .. Len(hw.done) /\ total \in Nat /\ ~Gated
      /\ Base \in Nat
  BY EventFacts, ReaderFacts DEF AtEvent, AsSet
<1>2. Pps \in 1 .. Size /\ cb.pps = Pps
  BY ShareType DEF AtEvent
<1>3. /\ room \in Nat /\ WantLen(cb.group, h) - Len(chan[cb.group][h]) = room
      /\ \A k \in Halves : Room(cb.group, k) \in Nat
  BY RoomLeft DEF UseLong
<1>4. n \in Nat /\ n = MinOf(Pps, room) /\ n <= room
  BY <1>1, <1>2, <1>3 DEF Want, MinOf
<1>5. Most \in 1 .. Size /\ n <= Most
  <2>1. \A k \in Halves : Want(k) \in Int /\ Want(k) <= Size
    BY <1>1, <1>2, <1>3 DEF Want, MinOf
  <2> HIDE DEF n
  <2>2. Most \in Int /\ Most <= Size /\ Want("high") <= Most /\ Want("low") <= Most
    BY <1>1, <2>1 DEF Most, MaxOf, Halves
  <2> QED BY <1>1, <2>2 DEF n, Halves
<1>6. loc = total % Size
  <2>1. ~(cb.event + 1 > Len(hw.done)) /\ cb.event + 1 \in DOMAIN hw.done
    <3>1. Len(hw.done) \in Nat /\ DOMAIN hw.done = 1 .. Len(hw.done)
      BY DEF AtEvent, TypeOK, Hardware
    <3> QED BY <1>1, <3>1
  <2>2. Directory(cb.event).at = total % Size
    BY <1>1, <2>1 DEF Directory
  <2>3. total % Size < AddressSpan
    <3>1. drv.arm # armPostTrigger
      BY DEF armPostTrigger, armPrePostTrigger
    <3> QED BY <2>1, <3>1 DEF AtEvent, Sound
  <2>4. PICK at \in 0 .. Size - 1 : at = total % Size
    BY <1>1, DivMod
  <2>5. at \in 0 .. AddressSpan - 1 /\ AddressSpan \in Nat \ {0} /\ 0 \in Int
    BY <2>3, <2>4, SetupTypes DEF AtEvent, TypeOK
  <2>6. (0 * AddressSpan + at) % AddressSpan = at
    BY ONLY <2>5, Remainder
  <2>7. 0 * AddressSpan + at = at
    BY <2>5
  <2> QED BY <2>2, <2>4, <2>6, <2>7
<1>7. loc \in 0 .. Size - 1
  <2>1. PICK at \in 0 .. Size - 1 : at = total % Size
    BY <1>1, DivMod
  <2> QED BY <1>6, <2>1
<1>8. PrePostRuns(h) = TwoRuns(Base, runs, skip, room)
  BY DEF PrePostRuns, EventRuns, TwoRuns
<1>9. skip \in Nat /\ Most = skip + n /\ \A j \in 1 .. n : skip + j \in 1 .. Most
  BY <1>4, <1>5
<1> HIDE DEF loc, skip, room, n, size
<1>10. /\ runs \in RunPairs /\ runs.n1 \in Nat /\ runs.n2 \in Nat
       /\ runs.n1 + runs.n2 = Most
  BY <1>1, <1>5, <1>7 DEF Runs, RunPairs
<1>11. \A i \in 1 .. Most :
          /\ RunCell(runs, i) \in 0 .. Size - 1
          /\ SampleIn(RunCell(runs, i), total, Size) = Newest(Most, total)[i]
  <2> HIDE DEF total
  <2>1. runs = Runs(total % Size, Most, Size)
    BY <1>1, <1>6
  <2> HIDE DEF runs
  <2>2. \A i \in 1 .. Most : RunCell(runs, i) \in 0 .. Size - 1
    BY ONLY <1>1, <1>5, <1>6, <1>7, <2>1, RunsStayInEvent
  <2>3. \A i \in 1 .. Most :
          SampleIn(RunCell(runs, i), total, Size) = Newest(Most, total)[i]
    BY ONLY <1>1, <1>5, <2>1, RingRunsAreNewest
  <2> QED BY <2>2, <2>3
<1> HIDE DEF runs
<1>12. /\ PrePostRuns(h) \in Seq(Int) /\ Len(PrePostRuns(h)) = n
       /\ \A i \in 1 .. n : PrePostRuns(h)[i] = Base + RunCell(runs, skip + i)
  <2>1. runs.n1 + runs.n2 - skip = n /\ runs.n1 + runs.n2 - skip \in 0 .. room
    BY <1>3, <1>4, <1>9, <1>10 DEF n
  <2>2. /\ Base \in Nat /\ runs \in RunPairs /\ skip \in Nat
        /\ n \in Nat /\ room \in Nat
    BY <1>1, <1>3, <1>4, <1>9, <1>10
  <2> DEFINE two == TwoRuns(Base, runs, skip, room)
  <2>3. /\ two \in Seq(Int) /\ Len(two) = runs.n1 + runs.n2 - skip
        /\ \A i \in 1 .. Len(two) : two[i] = Base + RunCell(runs, skip + i)
    BY ONLY <2>1, <2>2, TwoRunsAre
  <2> HIDE DEF two
  <2>4. PrePostRuns(h) = two /\ Len(two) = n
    BY <1>8, <2>1, <2>3 DEF two
  <2> QED BY <2>3, <2>4
<1>13. PrePostRuns(h) \in Seq(Nat) /\ Len(PrePostRuns(h)) = n
  <2>1. ASSUME NEW i \in 1 .. n PROVE PrePostRuns(h)[i] \in Nat
    <3> DEFINE c == RunCell(runs, skip + i)
    <3>1. c \in 0 .. Size - 1
      BY <1>9, <1>11
    <3>2. PrePostRuns(h)[i] = Base + c
      BY <1>12
    <3> HIDE DEF c
    <3> QED BY <1>1, <3>1, <3>2
  <2> QED BY <1>4, <1>12, <2>1
<1>14. /\ Copy(PrePostRuns(h)) \in Seq(Words) /\ Len(Copy(PrePostRuns(h))) = n
       /\ \A j \in 1 .. n : Copy(PrePostRuns(h))[j] = Word(PrePostRuns(h)[j])
  BY <1>13, CopyIs DEF AtEvent
<1>15. ASSUME NEW j \in 1 .. n
       PROVE  Copy(PrePostRuns(h))[j] = [event |-> cb.event, at |-> Newest(n, total)[j]]
  <2> DEFINE c == RunCell(runs, skip + j)
  <2>1. skip + j \in 1 .. Most
    BY <1>9
  <2>2. c \in 0 .. Size - 1 /\ SampleIn(c, total, Size) = Newest(Most, total)[skip + j]
    BY <1>11, <2>1
  <2>3. Word(Base + c) = [event |-> cb.event, at |-> SampleIn(c, total, Size)]
    BY <1>1, <2>2, EventWord
  <2>4. Newest(Most, total)[skip + j] = MaxOf(total - Most + (skip + j) - 1, Stale)
    BY <2>1 DEF Newest
  <2>5. Newest(n, total)[j] = MaxOf(total - n + j - 1, Stale)
    BY DEF Newest
  <2>6. total - Most + (skip + j) - 1 = total - n + j - 1
    BY <1>1, <1>4, <1>9 DEF n
  <2> HIDE DEF total, c
  <2> QED BY <1>12, <1>14, <2>2, <2>3, <2>4, <2>5, <2>6 DEF c
<1>16. Share(cb.group) = Pps
  BY DEF Share
<1>17. drv.arm # armPostTrigger
  BY DEF armPostTrigger, armPrePostTrigger
<1>18. Len(Copy(PrePostRuns(h)))
          = MinOf(Share(cb.group), WantLen(cb.group, h) - Len(chan[cb.group][h]))
  BY <1>3, <1>4, <1>14, <1>16 DEF n
<1> QED BY <1>14, <1>15, <1>17, <1>18 DEF Adds

-----------------------------------------------------------------------------
(* The card is set as the driver is, from the request to arm on *)

Asked   == OperatorWaits /\ ~isRebooting /\ drv.arm \in Armings
Over    == hw.irq \/ cb.pending \/ cb.at # "idle"
Engaged == reg.acq \/ Over \/ call.todo \in {Left3, Left4}

Programmed ==
    /\ Asked /\ Engaged => AsSet
    /\ call.todo = Left2 /\ Gated => drv.arm = armPostTrigger

\* A cycle is over when its last event has been recorded.
Finished ==
    Asked /\ Over => reg.chain \/ Len(hw.done) >= MultiEventNumber[reg.events]

\* What a step leaves as it is.
SameCard == /\ reg'.events = reg.events /\ reg'.wrap = reg.wrap /\ reg'.chain = reg.chain
            /\ reg'.routing = reg.routing /\ reg'.stopDelay = reg.stopDelay
SameKey  == /\ drv'.arm = drv.arm /\ drv'.trigger = drv.trigger /\ drv'.ind = drv.ind
            /\ drv'.pts = drv.pts /\ drv'.pps = drv.pps
SameSamples == hw'.total = hw.total /\ hw'.done = hw.done
SameReader  == /\ cb'.at = cb.at /\ cb'.group = cb.group /\ cb'.event = cb.event
               /\ cb'.events = cb.events /\ cb'.pps = cb.pps /\ chan' = chan

LEMMA ModesDiffer ==
    /\ armDisarm \notin Armings /\ armPostTrigger # armPrePostTrigger
    /\ \A m \in Armings : m = armPostTrigger \/ m = armPrePostTrigger
BY DEF Armings, armDisarm, armPostTrigger, armPrePostTrigger

LEMMA RestsDiffer ==
    /\ <<>> \notin {ArmSteps, Left1, Left2, Left3, Left4}
    /\ ArmSteps \notin {Left1, Left2, Left3, Left4}
    /\ Left1 \notin {Left2, Left3, Left4}
    /\ Left2 \notin {Left3, Left4} /\ Left3 # Left4
<1>1. /\ Head(ArmSteps) = "acqOff" /\ Head(Left1) = "intOff" /\ Head(Left2) = "program"
      /\ Head(Left3) = "acqOn" /\ Head(Left4) = "start"
      /\ <<>> \notin {ArmSteps, Left1, Left2, Left3, Left4}
  BY Tails
<1> QED BY <1>1

LEMMA AsSetKept == setup' = setup /\ SameCard /\ SameKey => AsSet' = AsSet
BY DEF SameCard, SameKey, AsSet, Gated, DelaySpan

\* A put changes settings at most, and those only while the card is at rest.
LEMMA PutKeeps ==
    ASSUME TypeOK, NEW r \in Records, NEW v \in Values[r], Put(r, v)
    PROVE  /\ setup' = setup /\ isRebooting' = isRebooting /\ cb' = cb /\ chan' = chan
           /\ call.todo = <<>> /\ call'.todo \in {<<>>, ArmSteps}
           /\ drv'.arm = drv.arm /\ reg'.acq = reg.acq /\ hw'.irq = hw.irq
           /\ SameCard /\ SameSamples
           /\ SameKey \/ ~OperatorWaits \/ Quiet
<1> USE DEF SameCard, SameKey, SameSamples
<1>0. drv \in Drivers /\ reg \in Registers /\ hw \in Hardware /\ call \in Calls
  BY DEF TypeOK
<1>1. /\ setup' = setup /\ isRebooting' = isRebooting /\ cb' = cb /\ chan' = chan
      /\ call.todo = <<>> /\ Allowed(r, v)
  BY DEF Put, Idle
<1>2. \A s : Enter(s, <<>>) => call'.todo = <<>>
  BY <1>0 DEF Enter, Calls
<1>3. CASE r = "clock" /\ sisclock(v)
  <2>1. SameKey /\ SameCard /\ SameSamples /\ hw' = hw /\ drv' = drv /\ reg'.acq = reg.acq
    BY <1>0, <1>3 DEF sisclock, Refuse, Registers
  <2>2. call'.todo = <<>>
    BY <1>2, <1>3 DEF sisclock, Refuse
  <2> QED BY <1>1, <2>1, <2>2
<1>4. CASE r \in {"trigger", "multiEvent", "preAverage", "numberPTS", "numberPPS", "numberPTE"}
  <2>1. /\ reg' = reg /\ hw' = hw /\ call'.todo = <<>> /\ drv'.arm = drv.arm
    BY <1>0, <1>2, <1>4 DEF Put, sistrigger, sismultiEvent, sispreAverage, sisnumberPTS,
       sisnumberPPS, sisnumberPTE, Stored, Refuse, Drivers
  <2>2. ~OperatorWaits \/ Quiet
    BY <1>1, <1>4 DEF Allowed
  <2> QED BY <1>1, <2>1, <2>2
<1>5. CASE r = "arm" /\ sisarm(v)
  <2>1. drv' = drv /\ reg' = reg /\ hw' = hw /\ call'.todo = ArmSteps
    BY <1>5 DEF sisarm
  <2> QED BY <1>1, <2>1
<1>6. CASE r = "softTrigger" /\ sissoftTrigger
  <2>1. /\ drv' = drv /\ reg' = reg /\ hw'.irq = hw.irq /\ SameSamples
    BY <1>0, <1>6 DEF sissoftTrigger, Hardware
  <2>2. call'.todo = <<>>
    BY <1>2, <1>6 DEF sissoftTrigger
  <2> QED BY <1>1, <2>1, <2>2
<1> QED BY <1>3, <1>4, <1>5, <1>6 DEF Put

\* Of the steps of sisarm, Program divides the memory and begins the cycle.
LEMMA StepKeeps ==
    ASSUME Inv, TypeOK, MethodStep
    PROVE  /\ setup' = setup /\ isRebooting' = isRebooting /\ cb' = cb /\ chan' = chan
           /\ call.todo # Left2 => SameCard /\ SameSamples
           /\ call.todo # Left1 => SameKey
           /\ call.todo = Left2 => Program
           /\ call.todo = Left1 => IntOff
<1> USE DEF SameCard, SameKey, SameSamples
<1>0. drv \in Drivers /\ reg \in Registers /\ hw \in Hardware /\ Progress
  BY DEF TypeOK, Inv
<1> USE Tails
<1>1. CASE AcqOff
  <2>1. call.todo = ArmSteps
    BY <1>0, <1>1 DEF AcqOff, Doing, Idle, Progress
  <2>2. call.todo # Left2 /\ call.todo # Left1
    BY <2>1
  <2>3. SameCard /\ SameKey /\ SameSamples
    BY <1>0, <1>1 DEF AcqOff, Stopped, Registers, Hardware
  <2> QED BY <1>1, <2>2, <2>3 DEF AcqOff, Doing
<1>2. CASE IntOff
  <2>1. call.todo = Left1
    BY <1>0, <1>2 DEF IntOff, Doing, Idle, Progress
  <2>2. SameCard /\ SameSamples
    BY <1>0, <1>2 DEF IntOff, Registers, Hardware
  <2> QED BY <1>2, <2>1, <2>2 DEF IntOff, Doing
<1>3. CASE Program
  <2>1. call.todo = Left2
    BY <1>0, <1>3 DEF Program, Doing, Idle, Progress
  <2> QED BY <1>3, <2>1 DEF Program, Doing
<1>4. CASE AcqOn
  <2>1. call.todo = Left3
    BY <1>0, <1>4 DEF AcqOn, Doing, Idle, Progress
  <2>2. SameCard /\ SameKey
    BY <1>0, <1>4 DEF AcqOn, Registers
  <2>3. SameSamples
    BY <1>0, <1>4 DEF AcqOn, Hardware
  <2> QED BY <1>4, <2>1, <2>2, <2>3 DEF AcqOn, Doing
<1>5. CASE Start
  <2>1. call.todo = Left4
    BY <1>0, <1>5 DEF Start, Doing, Idle, Progress
  <2>2. SameCard /\ SameKey /\ SameSamples
    BY <1>0, <1>5 DEF Start, Hardware
  <2> QED BY <1>5, <2>1, <2>2 DEF Start, Doing
<1> QED BY <1>1, <1>2, <1>3, <1>4, <1>5 DEF MethodStep

\* The digitizer and the interrupt.
LEMMA EnvironmentKeeps ==
    ASSUME Inv, TypeOK, sisIH \/ PreSample \/ HwTrigger \/ HwEventDone
    PROVE  /\ setup' = setup /\ isRebooting' = isRebooting /\ drv' = drv /\ call' = call
           /\ SameCard /\ SameKey /\ SameReader /\ (Over' => Over \/ reg.acq)
           /\ Engaged' => Engaged
           /\ SameSamples \/ reg.acq
           /\ Over' => Over \/ HwEventDone
<1> USE DEF SameCard, SameKey, SameSamples, SameReader, Over, Engaged
<1>0. drv \in Drivers /\ reg \in Registers /\ hw \in Hardware /\ cb \in Readers
  BY DEF TypeOK
<1>1. CASE sisIH
  <2>1. reg' = [reg EXCEPT !.acq = FALSE, !.irqOn = FALSE]
        /\ hw' = [[hw EXCEPT !.irq = FALSE] EXCEPT !.phase = "off"]
    BY <1>1 DEF sisIH, Stopped
  <2>2. SameCard /\ ~reg'.acq /\ SameSamples /\ ~hw'.irq
    BY <1>0, <2>1 DEF Registers, Hardware
  <2>3. SameReader /\ hw.irq
    BY <1>0, <1>1 DEF sisIH, Readers
  <2> QED BY <1>1, <2>2, <2>3 DEF sisIH
<1>2. CASE PreSample \/ HwTrigger
  <2>1. reg.acq /\ reg' = reg /\ hw'.irq = hw.irq
    BY <1>0, <1>2 DEF PreSample, HwTrigger, CanTrigger, isArmed, Hardware
  <2> QED BY <1>2, <2>1 DEF PreSample, HwTrigger
<1>3. CASE HwEventDone
  <2>1. reg.acq
    BY <1>3 DEF HwEventDone, Inv, Working
  <2>2. SameCard
    BY <1>0, <1>3 DEF HwEventDone, Registers
  <2> QED BY <1>3, <2>1, <2>2 DEF HwEventDone
<1> QED BY <1>1, <1>2, <1>3

\* sisreadMemory and myCallback.
LEMMA CallbackKeeps ==
    ASSUME Inv, TypeOK, Callback
    PROVE  /\ setup' = setup /\ isRebooting' = isRebooting /\ call' = call
           /\ reg' = reg /\ hw' = hw /\ SameKey
           /\ Over' => Over
<1>0. drv \in Drivers /\ Fields
  BY DEF TypeOK, Inv
<1>1. setup' = setup
  BY DEF Callback, ReadStart, ReadGroup, GroupDone, ReadRefused, ReadLong, ReadLongFails,
     ReadEvent, Post
<1>2. drv' = drv \/ \E dma : drv' = [drv EXCEPT !.dma = dma]
  BY DEF Callback, ReadStart, ReadGroup, GroupDone, ReadRefused, ReadLong, ReadLongFails,
     ReadEvent, Post
<1>3. SameKey
  BY <1>0, <1>2 DEF SameKey, Drivers
<1> QED BY <1>0, <1>1, <1>3, CallbackEffect DEF Over

LEMMA InitProgrammed == Init => Programmed /\ Finished /\ Totals
<1> SUFFICES ASSUME Init PROVE Programmed /\ Finished /\ Totals
  OBVIOUS
<1>1. ~Asked /\ ~reg.chain /\ ~reg.routing /\ call.todo # Left2
  BY Tails, ModesDiffer DEF Init, Cleared, Asked
<1> QED BY <1>1 DEF Programmed, Finished, Totals

LEMMA ProgrammedKept ==
    ASSUME Inv, TypeOK, OperatorWaits => Calm, Programmed, [Next]_vars
    PROVE  Programmed'
<1> USE DEF Programmed
<1>1. ASSUME setup' = setup, SameCard, SameKey, Asked' => Asked, Asked' /\ Engaged' => Engaged,
             call'.todo = Left2 => call.todo = Left2
      PROVE  Programmed'
  <2>1. AsSet' = AsSet
    BY <1>1, AsSetKept
  <2>2. Gated' = Gated /\ drv'.arm = drv.arm
    BY <1>1 DEF Gated, SameKey
  <2> QED BY <1>1, <2>1, <2>2
<1>2. ASSUME NEW r \in Records, NEW v \in Values[r], Put(r, v) PROVE Programmed'
  <2>1. /\ setup' = setup /\ isRebooting' = isRebooting /\ cb' = cb
        /\ call'.todo \in {<<>>, ArmSteps} /\ drv'.arm = drv.arm
        /\ reg'.acq = reg.acq /\ hw'.irq = hw.irq /\ SameCard
        /\ SameKey \/ ~OperatorWaits \/ Quiet
    BY <1>2, PutKeeps
  <2>2. call'.todo \notin {Left2, Left3, Left4}
    BY <2>1, RestsDiffer
  <2>3. Asked' => Asked
    BY <2>1 DEF Asked, OperatorWaits
  <2>4. Engaged' => reg.acq \/ Over
    BY <2>1, <2>2 DEF Engaged, Over
  <2>5. CASE SameKey
    BY <1>1, <2>1, <2>2, <2>3, <2>4, <2>5 DEF Engaged
  <2>6. CASE ~OperatorWaits
    BY <2>2, <2>3, <2>6 DEF Asked
  <2>7. CASE Quiet
    <3>1. Asked => ~(reg.acq \/ Over)
      BY <2>7, ModesDiffer DEF Quiet, Asked, Over, isArmed
    <3> QED BY <2>2, <2>3, <2>4, <3>1
  <2> QED BY <2>1, <2>5, <2>6, <2>7
<1>3. CASE MethodStep
  <2>1. /\ setup' = setup /\ isRebooting' = isRebooting /\ cb' = cb
        /\ call.todo # Left2 => SameCard
        /\ call.todo # Left1 => SameKey
        /\ call.todo = Left2 => Program
        /\ call.todo = Left1 => IntOff
    BY <1>3, StepKeeps
  <2>2. Fields /\ Progress
    BY DEF Inv
  <2>3. CASE call.todo = Left1
    <3>1. IntOff /\ cb' = cb /\ drv'.arm = call.arm /\ ~reg'.acq /\ ~hw'.irq
      BY <1>3, <2>1, <2>3, StepEffect DEF Left1, Left2, Left3, Left4, ArmSteps
    <3>2. call'.todo \in {<<>>, Left2}
      BY <1>3, <2>3, StepEffect, RestsDiffer
    <3>3. Asked' /\ Engaged' => cb.pending \/ cb.at # "idle"
      BY <3>1, <3>2 DEF Engaged, Over, Left2, Left3, Left4
    <3>4. OperatorWaits /\ (cb.pending \/ cb.at # "idle") => call.arm = armDisarm
      BY <2>3 DEF Calm, Left1
    <3>5. ~(Asked' /\ Engaged')
      BY <2>1, <3>1, <3>3, <3>4, ModesDiffer DEF Asked, OperatorWaits
    <3>6. call'.todo = Left2 /\ Gated' => drv'.arm = armPostTrigger
      <4>1. call \in Calls /\ drv \in Drivers
        BY DEF TypeOK
      <4>2. call'.todo = Left2 => ~(drv.trigger = triggerFPGate /\ call.arm # armPostTrigger)
        BY <3>1, <4>1, RestsDiffer DEF IntOff, Return, Calls
      <4>3. drv'.trigger = drv.trigger
        BY <3>1, <4>1 DEF IntOff, Drivers
      <4> QED BY <3>1, <4>2, <4>3 DEF Gated
    <3> QED BY <3>5, <3>6
  <2>4. CASE call.todo = Left2
    <3>1. /\ Program /\ drv' = drv /\ call'.todo \in {<<>>, Left3}
          /\ call'.todo = Left3 => drv.arm \in Armings
      BY <1>3, <2>1, <2>4, StepEffect, RestsDiffer
    <3>2. call'.todo # Left2
      BY <3>1 DEF Left2, Left3
    <3>3. CASE drv.arm \notin Armings
      BY <3>1, <3>2, <3>3 DEF Asked
    <3>4. CASE drv.arm \in Armings
      <4> DEFINE post  == drv.arm = armPostTrigger
                 chain == post /\ drv.trigger = triggerFPGate
                 base  == [reg EXCEPT !.irqOn = TRUE]
                 new   == [base EXCEPT
                    !.stopDelay = IF post THEN StopDelay ELSE @,
                    !.routing   = IF post THEN Routing ELSE @,
                    !.maxEvents = IF chain THEN drv.pte ELSE @,
                    !.events = drv.ind, !.preAverage = drv.preAverage,
                    !.wrap = ~post, !.chain = chain]
      <4>1. reg' = new
        BY <3>1, <3>4 DEF Program
      <4>2. reg \in Registers /\ drv \in Drivers
        BY DEF TypeOK
      <4>3. /\ new.events = drv.ind /\ new.wrap = ~post /\ new.chain = chain
            /\ post => new.routing = Routing /\ new.stopDelay = StopDelay
        BY <4>2 DEF Registers
      <4>4. Gated => post
        BY <2>4
      <4>5. post <=> drv.arm # armPrePostTrigger
        BY <3>4, ModesDiffer
      <4>6. chain <=> Gated
        BY <4>4 DEF Gated
      <4>7. post /\ ~Gated /\ drv.pts < DelaySpan => Routing /\ StopDelay = drv.pts
        BY DEF Routing, StopDelay, Gated
      <4>8. post \in BOOLEAN /\ chain \in BOOLEAN
        OBVIOUS
      <4> HIDE DEF new, post, chain
      <4>9. reg'.wrap = (drv.arm = armPrePostTrigger)
        BY <4>1, <4>3, <4>5, <4>8, Zenon
      <4>10. Gated \in BOOLEAN
        BY DEF Gated
      <4>11. reg'.chain = Gated
        BY <4>1, <4>3, <4>6, <4>8, <4>10, Zenon
      <4>12. drv.arm = armPostTrigger => post
        BY DEF post
      <4>13. AsSet'
        <5>1. Gated' = Gated /\ DelaySpan' = DelaySpan
          BY <2>1, <3>1 DEF Gated, DelaySpan
        <5> QED BY <3>1, <4>1, <4>3, <4>4, <4>5, <4>7, <4>9, <4>11, <4>12, <5>1 DEF AsSet
      <4> QED BY <3>2, <4>13
    <3> QED BY <3>3, <3>4
  <2>5. CASE call.todo \notin {Left1, Left2}
    <3>1. SameCard /\ SameKey
      BY <2>1, <2>5
    <3>2. Asked' => Asked
      BY <2>1, <3>1 DEF Asked, SameKey, OperatorWaits
    <3>3. Engaged' => Engaged
      BY <1>3, <2>5, StepEffect, RestsDiffer DEF Engaged, Over
    <3>4. call'.todo # Left2
      BY <1>3, <2>5, StepEffect, RestsDiffer
    <3> QED BY <1>1, <2>1, <3>1, <3>2, <3>3, <3>4
  <2> QED BY <2>3, <2>4, <2>5
<1>4. CASE sisIH \/ PreSample \/ HwTrigger \/ HwEventDone
  <2>1. /\ setup' = setup /\ isRebooting' = isRebooting /\ call' = call
        /\ SameCard /\ SameKey /\ (Engaged' => Engaged)
    BY <1>4, EnvironmentKeeps
  <2>2. Asked' => Asked
    BY <2>1 DEF Asked, SameKey, OperatorWaits
  <2> QED BY <1>1, <2>1, <2>2
<1>5. CASE sisReboot
  <2>1. ~Asked' /\ drv' = drv /\ call' = call
    BY <1>5 DEF sisReboot, Asked
  <2> QED BY <2>1 DEF Gated
<1>6. CASE Callback
  <2>1. /\ setup' = setup /\ isRebooting' = isRebooting /\ call' = call
        /\ reg' = reg /\ hw' = hw /\ SameKey /\ (Over' => Over)
    BY <1>6, CallbackKeeps
  <2>2. Asked' => Asked
    BY <2>1 DEF Asked, SameKey, OperatorWaits
  <2> QED BY <1>1, <2>1, <2>2 DEF Engaged, SameCard
<1>7. CASE UNCHANGED vars
  BY <1>1, <1>7 DEF vars, SameCard, SameKey, Asked, Engaged, Over, OperatorWaits
<1> QED BY <1>2, <1>3, <1>4, <1>5, <1>6, <1>7 DEF Next

\* What the digitizer notes when an event ends.
LEMMA EventEnds ==
    ASSUME TypeOK, HwEventDone
    PROVE  \E n \in EventTotals :
              /\ hw'.done = Append(hw.done, n) /\ hw'.total = IF reg.chain THEN n ELSE 0
              /\ hw'.irq => hw.irq \/ Len(hw.done) + 1 >= Events
<1> DEFINE last == Len(hw.done) + 1 >= Events
           irq  == hw.irq \/ (last /\ reg.irqOn)
<1>1. last \in BOOLEAN /\ irq \in BOOLEAN /\ (irq => hw.irq \/ last)
  <2>1. hw.irq \in BOOLEAN /\ reg.irqOn \in BOOLEAN
    BY DEF TypeOK, Hardware, Registers
  <2> QED BY <2>1
<1>2. PICK n \in EventTotals :
        hw' = [total |-> IF reg.chain THEN n ELSE 0, done |-> Append(hw.done, n),
               phase |-> IF last THEN "off" ELSE "wait", irq |-> irq]
  BY Zenon DEF HwEventDone
<1> HIDE DEF last, irq
<1>3. /\ hw'.done = Append(hw.done, n) /\ hw'.total = IF reg.chain THEN n ELSE 0
      /\ hw'.irq = irq
  BY <1>1, <1>2
<1>4. hw'.irq => hw.irq \/ last
  BY <1>1, <1>3
<1> QED BY <1>3, <1>4 DEF last

LEMMA FinishedKept ==
    ASSUME Inv, TypeOK, OperatorWaits => Calm, Finished, [Next]_vars
    PROVE  Finished'
<1> USE DEF Finished
<1>1. ASSUME setup' = setup, SameCard, SameSamples, Asked' => Asked, Over' => Over
      PROVE  Finished'
  BY <1>1 DEF SameCard, SameSamples, MultiEventNumber
<1>2. ASSUME NEW r \in Records, NEW v \in Values[r], Put(r, v) PROVE Finished'
  <2>1. /\ setup' = setup /\ isRebooting' = isRebooting /\ cb' = cb
        /\ drv'.arm = drv.arm /\ hw'.irq = hw.irq /\ SameCard /\ SameSamples
    BY <1>2, PutKeeps
  <2> QED BY <1>1, <2>1 DEF Asked, OperatorWaits, Over
<1>3. CASE MethodStep
  <2>1. /\ setup' = setup /\ isRebooting' = isRebooting /\ cb' = cb
        /\ call.todo # Left2 => SameCard /\ SameSamples
        /\ call.todo # Left1 => SameKey
    BY <1>3, StepKeeps
  <2>2. CASE call.todo = Left1
    <3>1. cb' = cb /\ drv'.arm = call.arm /\ ~hw'.irq
      BY <1>3, <2>1, <2>2, StepEffect, RestsDiffer
    <3>2. OperatorWaits /\ (cb.pending \/ cb.at # "idle") => call.arm = armDisarm
      BY <2>2 DEF Calm, Left1
    <3>3. ~(Asked' /\ Over')
      BY <2>1, <3>1, <3>2, ModesDiffer DEF Asked, OperatorWaits, Over
    <3> QED BY <3>3
  <2>3. CASE call.todo = Left2
    <3>1. drv' = drv /\ hw'.irq = hw.irq /\ cb' = cb /\ call.arm # armDisarm
      BY <1>3, <2>1, <2>3, StepEffect, RestsDiffer DEF Inv, Progress
    <3>2. OperatorWaits => ~Over
      BY <2>3, <3>1, RestsDiffer DEF Calm, Over
    <3>3. ~(Asked' /\ Over')
      BY <2>1, <3>1, <3>2 DEF Asked, OperatorWaits, Over
    <3> QED BY <3>3
  <2>4. CASE call.todo \notin {Left1, Left2}
    <3>1. SameCard /\ SameSamples /\ SameKey /\ hw'.irq = hw.irq
      BY <1>3, <2>1, <2>4, StepEffect, RestsDiffer
    <3> QED BY <1>1, <2>1, <3>1 DEF Asked, SameKey, OperatorWaits, Over
  <2> QED BY <2>2, <2>3, <2>4
<1>4. CASE sisIH \/ PreSample \/ HwTrigger \/ HwEventDone
  <2>1. /\ setup' = setup /\ isRebooting' = isRebooting
        /\ SameCard /\ SameKey /\ (Over' => Over \/ HwEventDone)
    BY <1>4, EnvironmentKeeps
  <2>2. Asked' => Asked
    BY <2>1 DEF Asked, SameKey, OperatorWaits
  <2>3. hw \in Hardware /\ reg \in Registers /\ Len(hw.done) \in Nat
    BY DEF TypeOK, Hardware
  <2>4. CASE HwEventDone
    <3>1. PICK n \in EventTotals :
            /\ hw'.done = Append(hw.done, n)
            /\ hw'.irq => hw.irq \/ Len(hw.done) + 1 >= Events
      BY <2>4, EventEnds
    <3>2. Len(hw'.done) = Len(hw.done) + 1
      BY <2>3, <3>1 DEF Hardware
    <3>3. cb' = cb
      BY <2>4 DEF HwEventDone
    <3>4. MultiEventNumber'[reg'.events] = MultiEventNumber[reg.events] /\ reg'.chain = reg.chain
      BY <2>1 DEF SameCard, MultiEventNumber
    <3>5. MultiEventNumber[reg.events] \in Nat
      BY <2>3, SetupTypes DEF Registers, TypeOK
    <3>6. CASE Over
      BY <2>2, <2>3, <3>2, <3>4, <3>5, <3>6
    <3>7. CASE ~Over /\ Over'
      <4>1. Len(hw.done) + 1 >= Events
        BY <3>1, <3>3, <3>7 DEF Over
      <4> QED BY <2>3, <3>2, <3>4, <3>5, <4>1 DEF Events
    <3> QED BY <3>6, <3>7
  <2>5. CASE sisIH \/ HwTrigger \/ PreSample
    <3>1. ~HwEventDone \/ HwEventDone
      OBVIOUS
    <3>2. hw'.done = hw.done
      BY <2>3, <2>5 DEF sisIH, HwTrigger, PreSample, Stopped, Hardware
    <3>3. Over' => Over
      BY <2>3, <2>5 DEF sisIH, HwTrigger, PreSample, Over, Stopped, Hardware
    <3> QED BY <2>1, <2>2, <3>2, <3>3 DEF SameCard, MultiEventNumber
  <2> QED BY <1>4, <2>4, <2>5
<1>5. CASE sisReboot
  BY <1>5 DEF sisReboot, Asked
<1>6. CASE Callback
  <2>1. /\ setup' = setup /\ isRebooting' = isRebooting
        /\ reg' = reg /\ hw' = hw /\ SameKey /\ (Over' => Over)
    BY <1>6, CallbackKeeps
  <2> QED BY <1>1, <2>1 DEF SameCard, SameSamples, Asked, SameKey, OperatorWaits
<1>7. CASE UNCHANGED vars
  BY <1>1, <1>7 DEF vars, SameCard, SameSamples, Asked, Over, OperatorWaits
<1> QED BY <1>2, <1>3, <1>4, <1>5, <1>6, <1>7 DEF Next

\* The samples that a post-trigger event has when it ends.
LEMMA EventTotalOf ==
    ASSUME TypeOK, NEW n \in EventTotals, ~reg.wrap
    PROVE  /\ reg.chain => n <= ArraySize
           /\ ~reg.chain /\ reg.routing => n = MinOf(Delay, EventSize)
<1>1. CASE reg.chain
  <2>1. PICK k \in 1 .. MaxPre : n = MinOf(hw.total + k, ArraySize)
    BY <1>1 DEF EventTotals
  <2>2. k \in Nat /\ hw.total \in Nat /\ ArraySize \in Nat
    BY SetupTypes DEF TypeOK, Hardware
  <2> QED BY <1>1, <2>1, <2>2 DEF MinOf
<1>2. CASE ~reg.chain
  BY <1>2 DEF EventTotals
<1> QED BY <1>1, <1>2

LEMMA TotalsKept ==
    ASSUME Inv, TypeOK, Totals, [Next]_vars
    PROVE  Totals'
<1> USE DEF Totals
<1>1. ASSUME setup' = setup, SameCard, SameSamples PROVE Totals'
  BY <1>1 DEF SameCard, SameSamples, Delay, EventSize, MultiEventNumber, ArraySize
<1>2. ASSUME NEW r \in Records, NEW v \in Values[r], Put(r, v) PROVE Totals'
  BY <1>1, <1>2, PutKeeps
<1>3. CASE MethodStep
  <2>1. CASE call.todo # Left2
    BY <1>1, <1>3, <2>1, StepKeeps
  <2>2. CASE call.todo = Left2
    <3>1. Program
      BY <1>3, <2>2, StepKeeps
    <3>2. hw'.total = 0 /\ hw'.done = <<>> /\ setup' = setup
      <4>1. hw \in Hardware
        BY DEF TypeOK
      <4> QED BY <3>1, <4>1 DEF Program, Doing, Hardware
    <3>3. ArraySize' \in Nat /\ 0 <= ArraySize'
      BY <3>2, SetupTypes DEF TypeOK, ArraySize
    <3>4. reg \in Registers
      BY DEF TypeOK
    <3>5. reg'.chain => ~reg'.wrap
      <4>1. CASE drv.arm \notin Armings
        <5>1. reg' = [reg EXCEPT !.irqOn = TRUE]
          BY <3>1, <4>1 DEF Program
        <5> QED BY <3>4, <5>1 DEF Registers
      <4>2. CASE drv.arm \in Armings
        <5> DEFINE post  == drv.arm = armPostTrigger
                   chain == post /\ drv.trigger = triggerFPGate
                   base  == [reg EXCEPT !.irqOn = TRUE]
                   new   == [base EXCEPT
                      !.stopDelay = IF post THEN StopDelay ELSE @,
                      !.routing   = IF post THEN Routing ELSE @,
                      !.maxEvents = IF chain THEN drv.pte ELSE @,
                      !.events = drv.ind, !.preAverage = drv.preAverage,
                      !.wrap = ~post, !.chain = chain]
        <5>1. reg' = new
          BY <3>1, <4>2 DEF Program
        <5>2. new.wrap = ~post /\ new.chain = chain
          BY <3>4 DEF Registers
        <5>3. chain => post
          OBVIOUS
        <5>4. post \in BOOLEAN /\ chain \in BOOLEAN
          OBVIOUS
        <5> HIDE DEF new, post, chain
        <5> QED BY <5>1, <5>2, <5>3, <5>4
      <4> QED BY <4>1, <4>2
    <3> QED BY <3>2, <3>3, <3>5
  <2> QED BY <2>1, <2>2
<1>4. CASE sisIH \/ HwTrigger
  <2>1. SameSamples
    <3>1. hw \in Hardware
      BY DEF TypeOK
    <3> QED BY <1>4, <3>1 DEF sisIH, HwTrigger, Stopped, SameSamples, Hardware
  <2> QED BY <1>1, <1>4, <2>1, EnvironmentKeeps
<1>5. CASE PreSample
  <2>1. setup' = setup /\ reg' = reg /\ hw'.done = hw.done /\ reg.wrap
    <3>1. hw \in Hardware
      BY DEF TypeOK
    <3> QED BY <1>5, <3>1 DEF PreSample, Hardware
  <2> QED BY <2>1 DEF Delay, EventSize, MultiEventNumber, ArraySize
<1>6. CASE HwEventDone
  <2>1. PICK n \in EventTotals :
          /\ hw'.done = Append(hw.done, n) /\ hw'.total = IF reg.chain THEN n ELSE 0
    BY <1>6, EventEnds
  <2>2. setup' = setup /\ SameCard
    BY <1>6, EnvironmentKeeps
  <2>3. hw.done \in Seq(Nat) /\ n \in Nat
    BY EventTotalsType DEF TypeOK, Hardware
  <2>4. CASE reg.chain
    <3>1. ~reg.wrap /\ n <= ArraySize
      BY <2>4, EventTotalOf
    <3> QED BY <2>1, <2>2, <2>4, <3>1 DEF SameCard, ArraySize
  <2>5. CASE ~reg.chain
    <3>1. ASSUME ~reg'.chain, ~reg'.wrap, reg'.routing, NEW e \in DOMAIN hw'.done
          PROVE  hw'.done[e] = MinOf(Delay', EventSize')
      <4>1. Delay' = Delay /\ EventSize' = EventSize
        BY <2>2 DEF Delay, EventSize, MultiEventNumber, ArraySize, SameCard
      <4>2. n = MinOf(Delay, EventSize)
        BY <2>2, <2>5, <3>1, EventTotalOf DEF SameCard
      <4>3. \A d \in DOMAIN hw.done : hw.done[d] = MinOf(Delay, EventSize)
        BY <2>2, <3>1 DEF SameCard
      <4>4. e \in 1 .. Len(hw.done) + 1
        BY <2>1, <2>3, <3>1
      <4>5. hw'.done[e] = IF e = Len(hw.done) + 1 THEN n ELSE hw.done[e]
        BY <2>1, <2>3, <4>4
      <4>6. e # Len(hw.done) + 1 => e \in DOMAIN hw.done
        BY <2>3, <4>4
      <4> QED BY <4>1, <4>2, <4>3, <4>5, <4>6
    <3> QED BY <2>2, <2>5, <3>1 DEF SameCard
  <2> QED BY <2>4, <2>5
<1>7. CASE sisReboot
  BY <1>7 DEF sisReboot, Cleared
<1>8. CASE Callback
  BY <1>1, <1>8, CallbackKeeps DEF SameCard, SameSamples
<1>9. CASE UNCHANGED vars
  BY <1>1, <1>9 DEF vars, SameCard, SameSamples
<1> QED BY <1>2, <1>3, <1>4, <1>5, <1>6, <1>7, <1>8, <1>9 DEF Next

-----------------------------------------------------------------------------
(* What has been read while a scan goes on *)

\* The groups that are done show what they should, the one being read the
\* events up to the next one.
Filled ==
    \A g \in 0 .. Groups - 1 : g < cb.group \/ cb.at = "post" =>
        \A h \in Halves : chan[g][h] = Wanted(g, h, Number)
SoFar ==
    /\ cb.at = "group" => cb.pps \in {drv.pps, Pps}
    /\ cb.at = "event" =>
          /\ cb.pps = Pps /\ cb.events = Number /\ cb.event < Number
          /\ \A h \in Halves : chan[cb.group][h] = Wanted(cb.group, h, cb.event)
ReadInv == Asked /\ Sound /\ cb.at # "idle" => Filled /\ SoFar

LEMMA WantedKept ==
    ASSUME setup' = setup, SameKey, SameSamples
    PROVE  /\ Sound' = Sound /\ Number' = Number /\ Pps' = Pps
           /\ \A g, h, events : Wanted(g, h, events)' = Wanted(g, h, events)
<1>1. /\ Long' = Long /\ DmaMayFail' = DmaMayFail /\ DelaySpan' = DelaySpan
      /\ AddressSpan' = AddressSpan /\ ArraySize' = ArraySize /\ ChanLen' = ChanLen
      /\ MultiEventNumber' = MultiEventNumber
  BY DEF Long, DmaMayFail, DelaySpan, AddressSpan, ArraySize, ChanLen, MultiEventNumber
<1>2. Gated' = Gated
  BY DEF Gated, SameKey
<1>3. Number' = Number
  BY <1>1, <1>2 DEF Number, SameKey
<1>4. Size' = Size
  BY <1>1, <1>3 DEF Size
<1>5. Pps' = Pps
  BY <1>4 DEF Pps, SameKey
<1>6. Sound' = Sound
  BY <1>1, <1>2, <1>4 DEF Sound, SameKey, SameSamples
<1>7. \A g : Wholes(g)' = Wholes(g)
  BY <1>1 DEF Wholes
<1>8. \A g : Share(g)' = Share(g)
  BY <1>2, <1>5, <1>7 DEF Share, SameKey, SameSamples
<1>9. ASSUME NEW g, NEW h, NEW events PROVE Wanted(g, h, events)' = Wanted(g, h, events)
  <2> DEFINE share == Share(g)
             wholes == Wholes(g)
  <2>1. share' = share /\ wholes' = wholes
    BY <1>7, <1>8
  <2> HIDE DEF share, wholes
  <2> QED BY <1>1, <2>1 DEF Wanted, share, wholes, SameKey, SameSamples
<1> QED BY <1>3, <1>5, <1>6, <1>9

LEMMA ReadKept ==
    ASSUME ReadInv, setup' = setup, SameKey, SameSamples, SameReader, Asked' => Asked
    PROVE  ReadInv'
<1>1. Groups' = Groups
  BY DEF Groups
<1>2. /\ Sound' = Sound /\ Number' = Number /\ Pps' = Pps /\ drv'.pps = drv.pps
      /\ \A g, h, events : Wanted(g, h, events)' = Wanted(g, h, events)
  BY WantedKept DEF SameKey
<1>3. Filled => Filled'
  BY <1>1, <1>2 DEF Filled, SameReader
<1>4. SoFar => SoFar'
  BY <1>2 DEF SoFar, SameReader
<1>5. cb'.at = cb.at
  BY DEF SameReader
<1> QED BY <1>2, <1>3, <1>4, <1>5 DEF ReadInv

\* While a scan is being read nothing but the callback task touches what it
\* reads.
LEMMA OutsideKeeps ==
    ASSUME Inv, TypeOK, OperatorWaits => Calm, ReadInv,
           \/ \E r \in Records : \E v \in Values[r] : Put(r, v)
           \/ MethodStep
           \/ sisIH \/ PreSample \/ HwTrigger \/ HwEventDone
           \/ sisReboot
           \/ UNCHANGED vars
    PROVE  ReadInv'
<1>1. ASSUME NEW r \in Records, NEW v \in Values[r], Put(r, v) PROVE ReadInv'
  <2>1. /\ setup' = setup /\ isRebooting' = isRebooting /\ cb' = cb /\ chan' = chan
        /\ drv'.arm = drv.arm /\ SameSamples
        /\ SameKey \/ ~OperatorWaits \/ Quiet
    BY <1>1, PutKeeps
  <2>2. Asked' => Asked /\ OperatorWaits
    BY <2>1 DEF Asked, OperatorWaits
  <2>3. CASE SameKey
    BY <2>1, <2>2, <2>3, ReadKept DEF SameReader
  <2>4. CASE ~OperatorWaits \/ Quiet
    BY <2>1, <2>2, <2>4 DEF ReadInv, Quiet
  <2> QED BY <2>1, <2>3, <2>4
<1>2. CASE MethodStep
  <2>1. /\ setup' = setup /\ isRebooting' = isRebooting /\ cb' = cb /\ chan' = chan
        /\ call.todo # Left2 => SameCard /\ SameSamples
        /\ call.todo # Left1 => SameKey
    BY <1>2, StepKeeps
  <2>2. CASE call.todo = Left1
    <3>1. drv'.arm = call.arm
      BY <1>2, <2>2, StepEffect, RestsDiffer
    <3>2. OperatorWaits /\ cb.at # "idle" => call.arm = armDisarm
      BY <2>2 DEF Calm, Left1
    <3>3. ~(Asked' /\ cb'.at # "idle")
      BY <2>1, <3>1, <3>2, ModesDiffer DEF Asked, OperatorWaits
    <3> QED BY <3>3 DEF ReadInv
  <2>3. CASE call.todo = Left2
    <3>1. call.arm # armDisarm
      BY <2>3, RestsDiffer DEF Inv, Progress
    <3>2. OperatorWaits => cb.at = "idle"
      BY <2>3, <3>1, RestsDiffer DEF Calm
    <3> QED BY <2>1, <3>2 DEF ReadInv, Asked, OperatorWaits
  <2>4. CASE call.todo \notin {Left1, Left2}
    BY <2>1, <2>4, ReadKept DEF SameReader, Asked, SameKey, OperatorWaits
  <2> QED BY <2>2, <2>3, <2>4
<1>3. CASE sisIH \/ PreSample \/ HwTrigger \/ HwEventDone
  <2>1. /\ setup' = setup /\ isRebooting' = isRebooting /\ drv' = drv
        /\ SameKey /\ SameReader /\ (SameSamples \/ reg.acq)
    BY <1>3, EnvironmentKeeps
  <2>2. CASE SameSamples
    BY <2>1, <2>2, ReadKept DEF Asked, SameKey, OperatorWaits
  <2>3. CASE reg.acq
    <3>1. OperatorWaits => cb.at = "idle"
      BY <2>3 DEF Calm
    <3> QED BY <2>1, <3>1 DEF ReadInv, Asked, OperatorWaits, SameReader
  <2> QED BY <2>1, <2>2, <2>3
<1>4. CASE sisReboot
  BY <1>4 DEF sisReboot, ReadInv, Asked
<1>5. CASE UNCHANGED vars
  BY <1>5, ReadKept DEF vars, SameKey, SameSamples, SameReader, Asked, OperatorWaits
<1> QED BY <1>1, <1>2, <1>3, <1>4, <1>5

\* After a group comes the next one, or the scan.
LEMMA GroupFilled ==
    ASSUME TypeOK, Filled, cb.at = "event", setup' = setup, SameKey, SameSamples, cb' = NextGroup,
           cb.pps = Pps,
           \A g \in 0 .. Groups - 1 : g # cb.group => chan'[g] = chan[g],
           \A h \in Halves : chan'[cb.group][h] = Wanted(cb.group, h, Number)
    PROVE  Filled' /\ SoFar'
<1>1. /\ cb \in Readers /\ cb.group \in 0 .. Groups - 1 /\ Groups \in Nat
  BY SetupTypes DEF TypeOK, Readers
<1>2. \/ cb.group + 1 < Groups /\ cb'.at = "group" /\ cb'.group = cb.group + 1 /\ cb'.pps = cb.pps
      \/ cb.group + 1 >= Groups /\ cb'.at = "post" /\ cb'.group = cb.group
  BY <1>1 DEF NextGroup, Readers
<1>3. Groups' = Groups /\ Number' = Number /\ Pps' = Pps
      /\ \A g, h, events : Wanted(g, h, events)' = Wanted(g, h, events)
  BY WantedKept DEF Groups
<1>4. SoFar'
  BY <1>2, <1>3 DEF SoFar
<1>5. ASSUME NEW g \in 0 .. Groups - 1, g < cb'.group \/ cb'.at = "post", NEW h \in Halves
      PROVE  chan'[g][h] = Wanted(g, h, Number)
  <2>1. g = cb.group \/ (g # cb.group /\ g < cb.group)
    BY <1>1, <1>2, <1>5
  <2> QED BY <2>1 DEF Filled
<1>6. Filled'
  BY <1>3, <1>5 DEF Filled
<1> QED BY <1>4, <1>6

\* After an event comes the next one, or the next group.
LEMMA EventFilled ==
    ASSUME AtEvent, Filled, cb.at = "event", setup' = setup, SameKey, SameSamples,
           cb' = NextEvent,
           \A g \in 0 .. Groups - 1 : g # cb.group => chan'[g] = chan[g],
           \A h \in Halves : chan'[cb.group][h] = Wanted(cb.group, h, cb.event + 1)
    PROVE  Filled' /\ SoFar'
<1>1. /\ cb \in Readers /\ cb.group \in 0 .. Groups - 1 /\ cb.event \in Nat /\ TypeOK
      /\ cb.events = Number /\ cb.event < Number /\ Number \in Nat /\ cb.pps = Pps
  BY EventSizeType, SetupTypes DEF AtEvent, TypeOK, Readers
<1>2. CASE cb.event + 1 < cb.events
  <2>1. /\ cb'.at = "event" /\ cb'.group = cb.group /\ cb'.event = cb.event + 1
        /\ cb'.events = cb.events /\ cb'.pps = cb.pps
    BY <1>1, <1>2 DEF NextEvent, Readers
  <2>2. Groups' = Groups /\ Number' = Number /\ Pps' = Pps
        /\ \A g, h, events : Wanted(g, h, events)' = Wanted(g, h, events)
    BY WantedKept DEF Groups
  <2>3. SoFar'
    BY <1>1, <1>2, <2>1, <2>2 DEF SoFar
  <2>4. ASSUME NEW g \in 0 .. Groups - 1, g < cb'.group, NEW h \in Halves
        PROVE  chan'[g][h] = Wanted(g, h, Number)
    <3>1. g # cb.group /\ g < cb.group
      BY <1>1, <2>1, <2>4
    <3> QED BY <3>1 DEF Filled
  <2>5. Filled'
    BY <2>1, <2>2, <2>4 DEF Filled
  <2> QED BY <2>3, <2>5
<1>3. CASE ~(cb.event + 1 < cb.events)
  <2>1. cb.event + 1 = Number /\ cb' = NextGroup
    BY <1>1, <1>3 DEF NextEvent
  <2>2. \A h \in Halves : chan'[cb.group][h] = Wanted(cb.group, h, Number)
    BY <2>1
  <2> QED BY <1>1, <2>1, <2>2, GroupFilled
<1> QED BY <1>2, <1>3

\* One event of a group is read.
LEMMA EventRead ==
    ASSUME AtEvent, Filled, cb.at = "event", setup' = setup, SameKey, SameSamples,
           cb' = NextEvent, NEW cells, Add(cells),
           \A h \in Halves : Adds(h, Copy(cells[h]))
    PROVE  Filled' /\ SoFar'
<1> DEFINE add(h) == Copy(cells[h])
<1>1. /\ chan \in [0 .. Groups - 1 -> [Halves -> Seq(Words)]] /\ cb.group \in 0 .. Groups - 1
  BY ReaderFacts DEF AtEvent, TypeOK, Shown
<1>2. chan' = [chan EXCEPT ![cb.group] = [h \in Halves |-> chan[cb.group][h] \o add(h)]]
  BY <1>1 DEF Add
<1>3. \A h \in Halves : Adds(h, add(h))
  OBVIOUS
<1> HIDE DEF add
<1>4. \A h \in Halves : chan'[cb.group][h] = chan[cb.group][h] \o add(h)
  BY <1>1, <1>2
<1>5. \A h \in Halves : chan'[cb.group][h] = Wanted(cb.group, h, cb.event + 1)
  BY <1>3, <1>4, AddsOneEvent
<1>6. \A g \in 0 .. Groups - 1 : g # cb.group => chan'[g] = chan[g]
  BY <1>1, <1>2
<1> QED BY <1>5, <1>6, EventFilled

LEMMA CallbackReads ==
    ASSUME Inv, Typed, Programmed, Finished, Totals, ReadInv, Callback
    PROVE  ReadInv'
<1>1. /\ setup' = setup /\ isRebooting' = isRebooting /\ reg' = reg /\ hw' = hw
      /\ SameKey /\ TypeOK /\ PpsFits
  BY CallbackKeeps DEF Typed
<1>2. SameSamples
  BY <1>1 DEF SameSamples
<1>3. Sound' = Sound /\ Asked' = Asked /\ Pps' = Pps /\ Number' = Number /\ Groups' = Groups
  <2>1. Sound' = Sound /\ Pps' = Pps /\ Number' = Number
    BY <1>1, <1>2, WantedKept
  <2>2. Asked' = Asked
    BY <1>1 DEF Asked, SameKey, OperatorWaits
  <2> QED BY <1>1, <2>1, <2>2 DEF Groups
<1>4. \A g, h, events : Wanted(g, h, events)' = Wanted(g, h, events)
  BY <1>1, <1>2, WantedKept
<1>5. SUFFICES ASSUME Asked, Sound, cb'.at # "idle" PROVE Filled' /\ SoFar'
  BY <1>3 DEF ReadInv
<1>6. drv.arm \in Armings /\ cb \in Readers
  BY <1>1, <1>5 DEF Asked, TypeOK
<1>7. CASE ReadStart
  <2>1. /\ cb'.at = "group" /\ cb'.group = 0 /\ cb'.pps = drv.pps
    BY <1>6, <1>7 DEF ReadStart, Readers
  <2>2. \A g \in 0 .. Groups - 1 : ~(g < 0)
    BY SetupTypes, <1>1 DEF TypeOK
  <2>3. drv'.pps = drv.pps
    BY <1>1 DEF SameKey
  <2> QED BY <1>3, <2>1, <2>2, <2>3 DEF Filled, SoFar
<1>8. CASE cb.at # "idle"
  <2>1. Filled /\ SoFar /\ AsSet
    BY <1>5, <1>8 DEF ReadInv, Programmed, Engaged, Over
  <2>2. ~Gated => Number <= Len(hw.done)
    <3>1. reg.chain \/ Len(hw.done) >= MultiEventNumber[reg.events]
      BY <1>5, <1>8 DEF Finished, Over
    <3>2. reg.chain = Gated /\ reg.events = drv.ind
      BY <2>1 DEF AsSet
    <3>3. Len(hw.done) \in Nat /\ Number \in Nat
      BY <1>1, EventSizeType DEF TypeOK, Hardware
    <3> QED BY <3>1, <3>2, <3>3 DEF Number
  <2>3. Pps \in 1 .. Size
    BY <1>1, <1>5, <1>6, ShareType
  <2>4. CASE ReadGroup
    <3>1. ~(~Gated /\ EVENTCOUNTER < Number)
      <4>1. Len(hw.done) \in Nat /\ Number \in Nat
        BY <1>1, EventSizeType DEF TypeOK, Hardware
      <4> QED BY <2>2, <4>1 DEF EVENTCOUNTER
    <3>2. /\ cb.at = "group"
          /\ cb' = [cb EXCEPT !.at = "event", !.event = 0, !.events = Number,
                      !.pps = IF cb.pps = 0 \/ cb.pps > Size THEN Size ELSE cb.pps]
          /\ chan' = [chan EXCEPT ![cb.group] = [h \in Halves |-> <<>>]]
      BY <2>4, <3>1 DEF ReadGroup
    <3>3. (IF cb.pps = 0 \/ cb.pps > Size THEN Size ELSE cb.pps) = Pps
      <4>1. cb.pps \in {drv.pps, Pps} /\ Size \in Nat \ {0} /\ drv.pps \in Nat
        BY <1>1, <1>5, <2>1, <3>2, EventSizeType DEF SoFar, Sound, TypeOK, Drivers
      <4> QED BY <2>3, <4>1 DEF Pps, MinOf
    <3>4. /\ cb'.at = "event" /\ cb'.group = cb.group /\ cb'.event = 0 /\ cb'.events = Number
          /\ cb'.pps = Pps
      BY <1>6, <3>2, <3>3 DEF Readers
    <3>5. /\ chan \in [0 .. Groups - 1 -> [Halves -> Seq(Words)]]
          /\ cb.group \in 0 .. Groups - 1
      BY <1>1, ReaderFacts DEF TypeOK, Shown
    <3>6. \A h \in Halves : chan'[cb.group][h] = <<>>
      BY <3>2, <3>5
    <3>7. \A h \in Halves : chan'[cb.group][h] = Wanted(cb.group, h, 0)
      BY <1>1, <1>5, <1>6, <3>5, <3>6, NothingWanted
    <3>8. 0 < Number
      BY <1>1, EventSizeType
    <3>9. SoFar'
      BY <1>3, <1>4, <3>4, <3>7, <3>8 DEF SoFar
    <3>10. ASSUME NEW g \in 0 .. Groups - 1, g < cb.group PROVE chan'[g] = chan[g]
      BY <3>2, <3>5, <3>10
    <3>11. Filled'
      BY <1>3, <1>4, <2>1, <3>4, <3>10 DEF Filled
    <3> QED BY <3>9, <3>11
  <2>5. CASE GroupDone \/ ReadRefused \/ ReadLong \/ ReadLongFails \/ ReadEvent
    <3>0. cb.at = "event"
      BY <2>5 DEF GroupDone, ReadRefused, ReadLong, ReadLongFails, ReadEvent, Reading
    <3>1. AtEvent
      BY <1>1, <1>5, <1>6, <2>1, <2>2, <3>0 DEF SoFar, AtEvent
    <3>2. CASE GroupDone
      <4>1. /\ cb' = NextGroup /\ chan' = chan
            /\ (IF UseLong THEN Want("high") ELSE Most) <= 0
        BY <3>2 DEF GroupDone
      <4>2. ASSUME NEW h \in Halves PROVE chan[cb.group][h] = Wanted(cb.group, h, Number)
        <5>1. /\ cb.group \in 0 .. Groups - 1 /\ cb.event \in Nat /\ cb.pps = Pps
              /\ \A k \in Halves : /\ Room(cb.group, k) \in Nat
                                   /\ ChanLen[cb.group][k] \in Nat
                                   /\ chan[cb.group][k] \in Seq(Words)
          BY <1>1, <3>1, ReaderFacts DEF AtEvent
        <5>2. \A k \in Halves : Want(k) <= 0 => Room(cb.group, k) <= 0
          BY <2>3, <5>1, EventSizeType, <1>1 DEF Want, MinOf
        <5>3. ~UseLong => \A k \in Halves : Want(k) <= 0
          <6>1. \A k \in Halves : Want(k) \in Int
            BY <1>1, ReaderFacts
          <6> QED BY <4>1, <6>1 DEF Most, MaxOf, Halves
        <5>4. WantLen(cb.group, h) <= Len(chan[cb.group][h])
          <6>1. Len(chan[cb.group][h]) \in Nat /\ ChanLen[cb.group][h] \in Nat
            BY <5>1
          <6>2. Room(cb.group, h) <= 0 => ChanLen[cb.group][h] <= Len(chan[cb.group][h])
            BY <5>1, <6>1 DEF Room
          <6>3. CASE UseLong /\ h = "low"
            BY <6>1, <6>3 DEF WantLen, UseLong
          <6>4. CASE ~UseLong \/ h = "high"
            <7>1. Room(cb.group, h) <= 0
              BY <4>1, <5>2, <5>3, <6>4
            <7> QED BY <6>1, <6>2, <7>1 DEF WantLen
          <6> QED BY <6>3, <6>4 DEF Halves
        <5>5. /\ chan[cb.group][h] = Wanted(cb.group, h, cb.event)
              /\ Number \in Nat /\ cb.event <= Number
          BY <1>1, <3>1, <5>1, EventSizeType DEF AtEvent
        <5>6. Len(Wanted(cb.group, h, cb.event)) >= WantLen(cb.group, h)
          <6>1. Len(chan[cb.group][h]) \in Nat /\ WantLen(cb.group, h) \in Nat
            BY <5>1 DEF WantLen
          <6> QED BY <5>4, <5>5, <6>1
        <5> QED BY <1>1, <1>5, <1>6, <5>1, <5>5, <5>6, FullIsAll
      <4>3. \A h \in Halves : chan'[cb.group][h] = Wanted(cb.group, h, Number)
        BY <4>1, <4>2
      <4>4. cb.pps = Pps
        BY <3>1 DEF AtEvent
      <4> QED BY <1>1, <1>2, <2>1, <3>0, <4>1, <4>3, <4>4, GroupFilled
    <3>3. CASE ReadRefused \/ ReadLongFails
      <4>1. UseLong => Long
        BY DEF UseLong, Wholes
      <4> QED BY <1>5, <1>6, <3>3, <4>1, ModesDiffer DEF ReadRefused, ReadLongFails, Sound
    <3>4. CASE ReadLong
      <4> DEFINE cells == [h \in Halves |-> LongCells(h)]
      <4>1. /\ Add(cells) /\ cb' = NextEvent /\ UseLong /\ drv.arm = armPostTrigger
            /\ Want("high") > 0
        BY <3>4 DEF ReadLong, Reading
      <4>2. \A h \in Halves : cells[h] = LongCells(h)
        OBVIOUS
      <4> HIDE DEF cells
      <4>3. \A h \in Halves : Adds(h, Copy(cells[h]))
        BY <3>1, <4>1, <4>2, LongAdds
      <4> QED BY <1>1, <1>2, <2>1, <3>0, <3>1, <4>1, <4>3, EventRead
    <3>5. CASE ReadEvent
      <4> DEFINE cells == [h \in Halves |-> IF drv.arm = armPostTrigger THEN PostRun(h)
                                            ELSE PrePostRuns(h)]
      <4>0. cb' = NextEvent /\ ~UseLong /\ Most > 0
        BY <3>5 DEF ReadEvent, Reading
      <4>1. Add(cells) /\ cb' = NextEvent /\ ~UseLong /\ Most > 0
        <5>1. PpsFits
          BY <3>1, EventFacts, ShareType DEF AtEvent, PpsFits
        <5> QED BY <1>1, <3>5, <4>0, <5>1, EventIsRead
      <4>2. \A h \in Halves : cells[h] = IF drv.arm = armPostTrigger THEN PostRun(h)
                                         ELSE PrePostRuns(h)
        OBVIOUS
      <4> HIDE DEF cells
      <4>3. drv.arm = armPostTrigger => \A h \in Halves : Adds(h, Copy(cells[h]))
        BY <3>1, <4>1, <4>2, PostAdds
      <4>4. drv.arm # armPostTrigger => \A h \in Halves : Adds(h, Copy(cells[h]))
        BY <1>6, <3>1, <4>1, <4>2, PrePostAdds, ModesDiffer
      <4>5. \A h \in Halves : Adds(h, Copy(cells[h]))
        BY <4>3, <4>4
      <4> QED BY <1>1, <1>2, <2>1, <3>0, <3>1, <4>1, <4>5, EventRead
    <3> QED BY <2>5, <3>2, <3>3, <3>4, <3>5
  <2>6. CASE Post
    BY <1>5, <1>6, <2>6 DEF Post, Readers
  <2>7. CASE ReadStart
    BY <1>7, <2>7
  <2> QED BY <2>4, <2>5, <2>6, <2>7 DEF Callback
<1>9. CASE cb.at = "idle" /\ ~ReadStart
  BY <1>9 DEF Callback, ReadGroup, GroupDone, ReadRefused, ReadLong, ReadLongFails, ReadEvent,
     Post, Reading
<1> QED BY <1>7, <1>8, <1>9

-----------------------------------------------------------------------------

ReadInduction ==
    /\ Inv /\ Typed /\ (OperatorWaits => Calm)
    /\ Programmed /\ Finished /\ Totals /\ ReadInv

LEMMA InitReads == Init => ReadInduction
<1> SUFFICES ASSUME Init PROVE ReadInduction
  OBVIOUS
<1>1. ReadInv
  BY DEF Init, ReadInv
<1> QED BY <1>1, InvInit, InitTyped, CalmInit, InitProgrammed DEF ReadInduction

LEMMA ReadsKept == ReadInduction /\ [Next]_vars => ReadInduction'
<1> SUFFICES ASSUME ReadInduction, [Next]_vars PROVE ReadInduction'
  OBVIOUS
<1>1. Inv /\ Typed /\ TypeOK /\ (OperatorWaits => Calm) /\ Programmed /\ Finished /\ Totals
      /\ ReadInv
  BY DEF ReadInduction, Typed
<1>2. Inv' /\ Typed'
  BY <1>1, InvStep, TypedKept
<1>3. OperatorWaits' => Calm'
  BY <1>1, CalmStep, SetupKept DEF OperatorWaits
<1>4. Programmed' /\ Finished' /\ Totals'
  BY <1>1, ProgrammedKept, FinishedKept, TotalsKept
<1>5. ReadInv'
  <2>1. CASE Callback
    BY <1>1, <2>1, CallbackReads
  <2>2. CASE ~Callback
    BY <1>1, <2>2, OutsideKeeps DEF Next
  <2> QED BY <2>1, <2>2
<1> QED BY <1>2, <1>3, <1>4, <1>5 DEF ReadInduction

\* sisreadMemory: with an operator who leaves a cycle under way alone, a scan
\* shows of every event exactly the samples that the settings ask for, in the
\* order they were taken, for every size and division of the memory, any
\* number of them, and waveforms of any length, whether or not DMA fails.
THEOREM WantedIsShown == Spec => []WantedSamplesPosted
<1>1. ReadInduction => WantedSamplesPosted
  <2> SUFFICES ASSUME ReadInduction, Recorded, Sound
               PROVE  \A g \in 0 .. Groups - 1 : \A h \in Halves :
                         chan[g][h] = Wanted(g, h, Number)
    BY DEF WantedSamplesPosted
  <2>1. Filled /\ cb.at = "post"
    BY DEF ReadInduction, ReadInv, Recorded, Asked
  <2> QED BY <2>1 DEF Filled
<1> QED BY <1>1, InitReads, ReadsKept, PTL DEF Spec

=============================================================================
