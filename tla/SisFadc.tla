------------------------------ MODULE SisFadc ------------------------------
(***************************************************************************)
(* The Struck SIS3300/3301 (gtrSup/sisfadc/drvSisfadc.c) with the callers   *)
(* that GTR gives it.                                                       *)
(*                                                                          *)
(* Every register with an enable bit has a bit to set it and another to     *)
(* clear it, so nothing is read, modified and written back.  The memory of  *)
(* a group is divided into events; a cycle ends with the last of them and   *)
(* one interrupt.  The setters only store: what they hold reaches the card  *)
(* when it is armed, and readMemory uses what they hold when it runs.       *)
(***************************************************************************)
EXTENDS Windows, Sequences

CONSTANT Setups     \* the setups looked at, a set of records

VARIABLES
    setup,          \* the card, its records and its operator, for good
    drv,            \* sisInfo
    reg,            \* the registers
    hw,             \* the digitizer
    isRebooting,    \* the exit hook has run
    call,           \* the method under way, under the card's lock
    cb,             \* the callback task, which runs readMemory
    chan            \* pdata[0 .. ndata - 1] of every gtrchannel

vars == <<setup, drv, reg, hw, isRebooting, call, cb, chan>>

-----------------------------------------------------------------------------
(* The setup *)

Groups           == setup.groups            \* pairs of channels: 4 in the code
ArraySize        == setup.arraySize         \* ARRAYSIZE, words of memory of a group
MultiEventNumber == setup.multiEventNumber  \* by the choice of multiEvent
DelaySpan        == setup.delaySpan         \* 65536: from there on numberPTS is not written
AddressSpan      == setup.addressSpan       \* 0x10000: the event directory is masked to this
ChanLen          == setup.chanLen           \* gtrchannel.len of the channels of every group
Long             == setup.long              \* TRUE: the waveforms have FTVL LONG
Values           == setup.values            \* the values put by the operator, for every record
OperatorWaits    == setup.operatorWaits     \* TRUE: the operator leaves a cycle under way alone
MayReboot        == setup.mayReboot         \* TRUE: the exit hook may run
DmaMayFail       == setup.dmaMayFail        \* TRUE: a DMA transfer may fail
DmaCapacity      == setup.dmaCapacity       \* DMA_BUFFER_CAPACITY, words of the DMA buffer
MaxPre           == setup.maxPre            \* bound: samples before a trigger, or in a gate

Records == {"clock", "trigger", "multiEvent", "preAverage", "numberPTS", "numberPPS",
            "numberPTE", "arm", "softTrigger"}
Halves  == {"high", "low"}

ASSUME SisFadcAssumption ==
    \A s \in Setups :
        /\ {s.groups, s.arraySize, s.delaySpan, s.addressSpan, s.dmaCapacity} \subseteq Nat \ {0}
        /\ s.maxPre \in Nat
        /\ 0 \in DOMAIN s.multiEventNumber /\ DOMAIN s.multiEventNumber \subseteq Nat
        /\ \A i \in DOMAIN s.multiEventNumber : s.multiEventNumber[i] \in 1 .. s.arraySize
        /\ s.chanLen \in [0 .. s.groups - 1 -> [Halves -> Nat]]
        /\ s.values \in [Records -> SUBSET Int]
        /\ {s.long, s.operatorWaits, s.mayReboot, s.dmaMayFail} \subseteq BOOLEAN

-----------------------------------------------------------------------------
(* Types *)

armDisarm         == 0
armPostTrigger    == 1
armPrePostTrigger == 2
Armings           == {armPostTrigger, armPrePostTrigger}
triggerSoft       == 0
triggerFPSS       == 1
triggerP2SS       == 2
triggerFPGate     == 3
ntriggerChoices   == 4
nclockChoices     == 9
npreAverageChoices == 8

Idle == call.todo = <<>>
Steps == {"acqOff", "intOff", "program", "acqOn", "start"}

\* total samples of the event under way, done those of the events recorded;
\* in the gate-chaining mode all gates fill one memory, total its content.
Hardware == [total : Nat, done : Seq(Nat), phase : {"off", "wait", "open"}, irq : BOOLEAN]

Drivers ==
    [arm : Int, trigger : 0 .. ntriggerChoices - 1, ind : DOMAIN MultiEventNumber,
     preAverage : 0 .. npreAverageChoices - 1, pts : Int, pps : Int, pte : Int,
     dma : BOOLEAN]

\* stopDelay STOPDELAY, routing the trigger routing of CSR that applies it;
\* EVENTCONFIG: events, wrap (0x8) and chain (0x10); ACQCSR: the source of the
\* trigger and whether it samples.
Registers ==
    [clock : 0 .. nclockChoices - 1, stopDelay : Int, routing : BOOLEAN,
     maxEvents : Int, events : DOMAIN MultiEventNumber,
     preAverage : 0 .. npreAverageChoices - 1, wrap : BOOLEAN, chain : BOOLEAN,
     source : 0 .. ntriggerChoices - 1, acq : BOOLEAN, irqOn : BOOLEAN]

Calls   == [todo : Seq(Steps), arm : Int, status : {"OK", "Error", "Suspend"}]
Readers == [pending : BOOLEAN, at : {"idle", "group", "event", "post"},
            group : 0 .. Groups - 1, event : Nat, events : 1 .. ArraySize, pps : Int]
Words   == [event : Nat, at : Int]       \* which sample of which event, or Stale
Shown   == [0 .. Groups - 1 -> [Halves -> Seq(Words)]]

TypeOK ==
    /\ setup \in Setups /\ drv \in Drivers /\ reg \in Registers /\ hw \in Hardware
    /\ isRebooting \in BOOLEAN /\ call \in Calls /\ cb \in Readers /\ chan \in Shown
    /\ \A g \in 0 .. Groups - 1 : \A h \in Halves : Len(chan[g][h]) <= ChanLen[g][h]

-----------------------------------------------------------------------------
(* The digitizer (external) *)

isArmed   == reg.acq
EventSize == ArraySize \div MultiEventNumber[reg.events]
Events    == IF reg.chain THEN reg.maxEvents ELSE MultiEventNumber[reg.events]

\* Pre/post-trigger sampling goes on from START to the stop trigger.
PreSample ==
    /\ isArmed /\ reg.wrap /\ hw.phase = "wait" /\ hw.total < MaxPre
    /\ hw' = [hw EXCEPT !.total = @ + 1]
    /\ UNCHANGED <<drv, reg, setup, isRebooting, call, cb, chan>>

CanTrigger == isArmed /\ hw.phase = "wait"
HwTrigger ==
    /\ reg.source # triggerSoft /\ CanTrigger
    /\ hw' = [hw EXCEPT !.phase = "open"]
    /\ UNCHANGED <<drv, reg, setup, isRebooting, call, cb, chan>>

\* How many samples an event has when it ends: a ring may have taken more than
\* it holds; without trigger routing an event ends when its memory is full.
Delay == MaxOf(reg.stopDelay, 0)
EventTotals ==
    IF reg.wrap THEN {hw.total + Delay}
    ELSE IF reg.chain THEN {MinOf(hw.total + k, ArraySize) : k \in 1 .. MaxPre}
    ELSE {IF reg.routing THEN MinOf(Delay, EventSize) ELSE EventSize}

HwEventDone ==
    /\ hw.phase = "open"
    /\ \E n \in EventTotals :
        LET last == Len(hw.done) + 1 >= Events IN
        /\ hw' = [total |-> IF reg.chain THEN n ELSE 0, done |-> Append(hw.done, n),
                  phase |-> IF last THEN "off" ELSE "wait",
                  irq |-> hw.irq \/ (last /\ reg.irqOn)]
        /\ reg' = [reg EXCEPT !.acq = ~last]
    /\ UNCHANGED <<drv, setup, isRebooting, call, cb, chan>>

EVENTCOUNTER == Len(hw.done)
BANK1ADDRESS == hw.total
\* An entry of the event directory: where the event stopped, and whether its
\* memory has been full.
Directory(event) ==
    IF event + 1 > Len(hw.done) THEN [at |-> 0, full |-> FALSE]
    ELSE [at |-> hw.done[event + 1] % EventSize, full |-> hw.done[event + 1] >= EventSize]

\* What a word of a group's memory holds: a sample of an event, or Stale.
Word(cell) ==
    LET event == IF reg.chain THEN 0 ELSE cell \div EventSize IN
    [event |-> event,
     at |-> IF reg.chain THEN SampleIn(cell, hw.total, ArraySize)
            ELSE IF event + 1 > Len(hw.done) THEN Stale
            ELSE SampleIn(cell % EventSize, hw.done[event + 1], EventSize)]

-----------------------------------------------------------------------------
(* sisfadcConfig, sisinit, sisReboot *)

Cleared == [clock |-> 0, stopDelay |-> 0, routing |-> FALSE, maxEvents |-> 0,
            events |-> 0, preAverage |-> 0, wrap |-> FALSE, chain |-> FALSE,
            source |-> triggerSoft, acq |-> FALSE, irqOn |-> FALSE]

Init ==
    /\ setup \in Setups
    /\ drv = [arm |-> armDisarm, trigger |-> triggerSoft, ind |-> 0,
              preAverage |-> 0, pts |-> 0, pps |-> 0, pte |-> 0, dma |-> TRUE]
    /\ reg = Cleared
    /\ hw = [total |-> 0, done |-> <<>>, phase |-> "off", irq |-> FALSE]
    /\ isRebooting = FALSE
    /\ call = [todo |-> <<>>, arm |-> armDisarm, status |-> "OK"]
    /\ cb = [pending |-> FALSE, at |-> "idle", group |-> 0, event |-> 0,
             events |-> 1, pps |-> 0]
    /\ chan = [g \in 0 .. Groups - 1 |-> [h \in Halves |-> <<>>]]

Stopped(h) == [h EXCEPT !.phase = "off"]

sisReboot ==
    /\ MayReboot /\ ~isRebooting
    /\ isRebooting' = TRUE
    /\ reg' = Cleared
    /\ hw' = Stopped([hw EXCEPT !.irq = FALSE])
    /\ UNCHANGED <<setup, drv, call, cb, chan>>

-----------------------------------------------------------------------------
(* sisIH.  usrIH is devGtr's interruptHandler, which asks for the callback. *)

sisIH_PostOnly ==                                                \* variant
    /\ hw.irq
    /\ reg' = [reg EXCEPT !.acq = FALSE, !.irqOn = FALSE]
    /\ hw' = Stopped([hw EXCEPT !.irq = FALSE])
    /\ cb' = IF ~isRebooting /\ drv.arm = armPostTrigger THEN [cb EXCEPT !.pending = TRUE] ELSE cb
    /\ UNCHANGED <<drv, setup, isRebooting, call, chan>>
sisIH ==
    /\ hw.irq
    /\ reg' = [reg EXCEPT !.acq = FALSE, !.irqOn = FALSE]
    /\ hw' = Stopped([hw EXCEPT !.irq = FALSE])
    /\ cb' = IF ~isRebooting /\ drv.arm \in Armings THEN [cb EXCEPT !.pending = TRUE] ELSE cb
    /\ UNCHANGED <<drv, setup, isRebooting, call, chan>>

-----------------------------------------------------------------------------
(* The methods *)

\* A waiting operator may always trigger and disarm, nothing else.
Quiet == /\ ~isArmed /\ (hw.irq => drv.arm = armDisarm)
         /\ ~cb.pending /\ cb.at = "idle"
Allowed(r, v) ==
    \/ ~OperatorWaits
    \/ Quiet
    \/ r = "softTrigger"
    \/ r = "arm" /\ v = armDisarm

Enter(status, todo) == call' = [call EXCEPT !.status = status, !.todo = todo]
Refuse(status) == Enter(status, <<>>) /\ UNCHANGED <<drv, reg, hw>>
Stored(field, v) ==
    /\ drv' = [drv EXCEPT ![field] = v]
    /\ Enter("OK", <<>>)
    /\ UNCHANGED <<reg, hw>>

\* Two writes of ACQCSR and one of EVENTCONFIG that touch the clock only.
sisclock(v) ==
    IF v \notin 0 .. nclockChoices - 1 THEN Refuse("Error")
    ELSE /\ reg' = [reg EXCEPT !.clock = v]
         /\ Enter("OK", <<>>)
         /\ UNCHANGED <<drv, hw>>
sistrigger_OffByOne(v) ==                                        \* variant
    IF v \notin 0 .. ntriggerChoices THEN Refuse("Error") ELSE Stored("trigger", v)
sistrigger(v) ==
    IF v \notin 0 .. ntriggerChoices - 1 THEN Refuse("Error") ELSE Stored("trigger", v)
sismultiEvent(v) ==
    IF v \notin DOMAIN MultiEventNumber THEN Refuse("Error")
    ELSE IF isRebooting THEN Refuse("Suspend")
    ELSE Stored("ind", v)
sispreAverage(v) ==
    IF v \notin 0 .. npreAverageChoices - 1 THEN Refuse("Error")
    ELSE IF isRebooting THEN Refuse("Suspend")
    ELSE Stored("preAverage", v)
sisnumberPTS(v) == Stored("pts", v)
sisnumberPPS(v) == Stored("pps", v)
sisnumberPTE(v) == Stored("pte", v)

ArmSteps_IntFirst == <<"intOff", "acqOff", "program", "acqOn", "start">>  \* variant
\* The card first gets all it needs and is then armed with one write.
ArmSteps == <<"acqOff", "intOff", "program", "acqOn", "start">>
sisarm(v) ==
    /\ call' = [todo |-> ArmSteps, arm |-> v, status |-> "OK"]
    /\ UNCHANGED <<drv, reg, hw>>

sissoftTrigger ==
    /\ hw' = IF CanTrigger /\ reg.source = triggerSoft /\ ~reg.wrap
             THEN [hw EXCEPT !.phase = "open"] ELSE hw
    /\ Enter("OK", <<>>)
    /\ UNCHANGED <<drv, reg>>

Put(r, v) ==
    /\ Idle /\ call.status # "Suspend"      \* a suspended thread keeps the lock
    /\ Allowed(r, v)
    /\ \/ r = "clock"      /\ sisclock(v)
       \/ r = "trigger"    /\ sistrigger(v)
       \/ r = "multiEvent" /\ sismultiEvent(v)
       \/ r = "preAverage" /\ sispreAverage(v)
       \/ r = "numberPTS"  /\ sisnumberPTS(v)
       \/ r = "numberPPS"  /\ sisnumberPPS(v)
       \/ r = "numberPTE"  /\ sisnumberPTE(v)
       \/ r = "arm"        /\ sisarm(v)
       \/ r = "softTrigger" /\ sissoftTrigger
    /\ UNCHANGED <<setup, isRebooting, cb, chan>>

-----------------------------------------------------------------------------
(* The steps of sisarm, between which an interrupt or the exit hook may run *)

Doing(what) == ~Idle /\ Head(call.todo) = what /\ UNCHANGED <<setup, isRebooting, cb>>
Proceed     == call' = [call EXCEPT !.todo = Tail(@)]
Return(status) == call' = [call EXCEPT !.todo = <<>>, !.status = status]

AcqOff ==
    /\ Doing("acqOff") /\ Proceed
    /\ reg' = [reg EXCEPT !.acq = FALSE, !.source = triggerSoft]
    /\ hw' = Stopped(hw)
    /\ UNCHANGED <<drv, chan>>

IntOff_KeepsInterrupt ==                                         \* variant
    /\ Doing("intOff")
    /\ reg' = [reg EXCEPT !.irqOn = FALSE]
    /\ drv' = [drv EXCEPT !.arm = call.arm]
    /\ IF call.arm = armDisarm THEN Return("OK")
       ELSE IF drv.trigger = triggerFPGate /\ call.arm # armPostTrigger THEN Return("Error")
       ELSE Proceed
    /\ UNCHANGED <<hw, chan>>
\* Nothing can interrupt between INTCONTROL and the choice.
IntOff ==
    /\ Doing("intOff")
    /\ reg' = [reg EXCEPT !.irqOn = FALSE]
    /\ hw' = [hw EXCEPT !.irq = FALSE]
    /\ drv' = [drv EXCEPT !.arm = call.arm]
    /\ IF call.arm = armDisarm THEN Return("OK")
       ELSE IF drv.trigger = triggerFPGate /\ call.arm # armPostTrigger THEN Return("Error")
       ELSE Proceed
    /\ UNCHANGED chan

\* STOPDELAY and the trigger routing of a post-trigger arm.  Clearing 0x80 for
\* a gate without post-trigger samples does nothing, as acr does not have it.
StopDelay ==
    IF drv.trigger = triggerFPGate
    THEN IF drv.pts = 0 THEN reg.stopDelay ELSE IF drv.pts = 1 THEN 0 ELSE drv.pts - 2
    ELSE IF drv.pts < DelaySpan THEN drv.pts ELSE reg.stopDelay
Routing == IF drv.trigger = triggerFPGate THEN reg.routing ELSE drv.pts < DelaySpan

\* INTCONTROL, STOPDELAY, MAXEVENTS, CSR and EVENTCONFIG.  A new cycle begins.
Program ==
    /\ Doing("program")
    /\ LET post  == drv.arm = armPostTrigger
           chain == post /\ drv.trigger = triggerFPGate
           base  == [reg EXCEPT !.irqOn = TRUE]
       IN IF drv.arm \notin Armings THEN reg' = base /\ Return("Error")
          ELSE /\ reg' = [base EXCEPT
                    !.stopDelay = IF post THEN StopDelay ELSE @,
                    !.routing   = IF post THEN Routing ELSE @,
                    !.maxEvents = IF chain THEN drv.pte ELSE @,
                    !.events = drv.ind, !.preAverage = drv.preAverage,
                    !.wrap = ~post, !.chain = chain]
               /\ Proceed
    /\ hw' = [hw EXCEPT !.total = 0, !.done = <<>>]
    /\ UNCHANGED <<drv, chan>>

\* ACQCSR.  A post-trigger arm is complete with it.
AcqOn ==
    /\ Doing("acqOn")
    /\ reg' = [reg EXCEPT !.acq = TRUE, !.source = drv.trigger]
    /\ IF reg.wrap THEN Proceed /\ UNCHANGED hw
       ELSE Return("OK") /\ hw' = [hw EXCEPT !.phase = "wait"]
    /\ UNCHANGED <<drv, chan>>

\* START, for a pre/post-trigger arm.
Start ==
    /\ Doing("start") /\ Proceed
    /\ hw' = IF isArmed THEN [hw EXCEPT !.phase = "wait"] ELSE hw
    /\ UNCHANGED <<drv, reg, chan>>

-----------------------------------------------------------------------------
(* sisreadMemory *)

Room(g, h) == ChanLen[g][h] - Len(chan[g][h])

\* Where word ind of those from first on is taken from.  A DMA transfer fills the
\* buffer, beginning with a word whose number is a multiple of its capacity.
\* From the word on whose transfer fails (fail) they are read from the memory;
\* that word itself goes through its slot of the buffer.
Never == -1
Buffer(first, ind) ==
    [slot \in 0 .. DmaCapacity - 1 |-> first + (ind - (ind % DmaCapacity)) + slot]
WordAt_NotStored(first, fail, ind) ==                            \* variant
    IF ~drv.dma \/ (fail # Never /\ ind > fail) THEN first + ind
    ELSE IF ind = fail THEN first + MaxOf(ind - DmaCapacity, 0)
    ELSE Buffer(first, ind)[ind % DmaCapacity]
WordAt(first, fail, ind) ==
    IF drv.dma /\ (fail = Never \/ ind < fail) THEN Buffer(first, ind)[ind % DmaCapacity]
    ELSE first + ind

\* The cells that readContiguous copies to a channel: n words from first on,
\* without the first skip, while there is room.
readContiguous(first, n, skip, room, fail) ==
    [i \in 1 .. MaxOf(MinOf(n - skip, room), 0) |-> WordAt(first, fail, skip + i - 1)]

\* The words whose transfer may fail, of n: the first of each buffer.
Failures(n) ==
    {Never} \cup {ind \in 0 .. n - 1 : drv.dma /\ DmaMayFail /\ ind % DmaCapacity = 0}
Copy(cells) == [i \in DOMAIN cells |-> Word(cells[i])]

ReadStart ==
    /\ cb.at = "idle" /\ cb.pending
    /\ cb' = [cb EXCEPT !.pending = FALSE, !.at = "group", !.group = 0, !.event = 0,
                        !.pps = drv.pps]
    /\ UNCHANGED <<drv, reg, hw, setup, isRebooting, call, chan>>

\* nevents and eventsize: a chain of gates makes one event.
Gated  == drv.trigger = triggerFPGate
Number == IF Gated THEN 1 ELSE MultiEventNumber[drv.ind]
Size   == ArraySize \div Number

\* The channels of a group are emptied, then it is seen whether all events
\* have been recorded; numberPPS 0 stands for a whole event.
ReadGroup ==
    /\ cb.at = "group"
    /\ cb' = IF ~Gated /\ EVENTCOUNTER < Number THEN [cb EXCEPT !.at = "post"]
             ELSE [cb EXCEPT !.at = "event", !.event = 0, !.events = Number,
                             !.pps = IF @ = 0 \/ @ > Size THEN Size ELSE @]
    /\ chan' = [chan EXCEPT ![cb.group] = [h \in Halves |-> <<>>]]
    /\ UNCHANGED <<drv, reg, hw, setup, isRebooting, call>>

NextGroup == IF cb.group + 1 < Groups THEN [cb EXCEPT !.at = "group", !.group = @ + 1]
             ELSE [cb EXCEPT !.at = "post"]
NextEvent == IF cb.event + 1 < cb.events THEN [cb EXCEPT !.event = @ + 1] ELSE NextGroup

Base    == cb.event * (ArraySize \div cb.events)
Want(h) == MinOf(Room(cb.group, h), cb.pps)
Most    == MaxOf(Want("high"), Want("low"))
Wholes(g) == Long /\ ChanLen[g]["high"] > 0
UseLong == Wholes(cb.group)

\* FTVL LONG: the high channel gets whole words.
LongCount ==
    LET size  == ArraySize \div cb.events
        entry == Directory(cb.event)
    IN MinOf(Want("high"),
             IF Gated THEN BANK1ADDRESS
             ELSE IF entry.at % size = 0 /\ entry.full THEN size ELSE entry.at % size)

\* How many words of an event are read after its trigger, and the two runs
\* that lead to its newest ones.
PostCount == IF Gated THEN BANK1ADDRESS ELSE reg.stopDelay
EventRuns == Runs(Directory(cb.event).at % AddressSpan, Most, ArraySize \div cb.events)

\* The cells of an event.  After a failure in the first run there is no DMA in
\* the second.
PostCells(h, fail) == readContiguous(Base, PostCount, 0, Room(cb.group, h), fail)
PrePostCells(h, fail, later) ==
    LET runs == EventRuns
        skip == Most - Want(h)
        room == Room(cb.group, h)
        run1 == readContiguous(Base + runs.first, runs.n1, skip, room, fail)
    IN run1 \o readContiguous(Base, runs.n2, MaxOf(skip - runs.n1, 0), room - Len(run1),
                             IF fail = Never THEN later ELSE 0)

\* cells gives the cells to copy to each half of the group.
Add(cells) ==
    chan' = [chan EXCEPT ![cb.group] =
                [h \in Halves |-> @[h] \o Copy(cells[h])]]
LongCells(h) == IF h = "high" THEN [i \in 1 .. LongCount |-> Base + i - 1] ELSE <<>>

\* A group is complete when its channels are full.
GroupDone ==
    /\ cb.at = "event"
    /\ (IF UseLong THEN Want("high") ELSE Most) <= 0
    /\ cb' = NextGroup
    /\ UNCHANGED <<drv, reg, hw, setup, isRebooting, call, chan>>

Reading == cb.at = "event" /\ (IF UseLong THEN Want("high") ELSE Most) > 0

\* A mode that is no choice, and pre/post-trigger with FTVL LONG, end it all.
ReadRefused ==
    /\ Reading
    /\ drv.arm \notin Armings \/ (UseLong /\ drv.arm = armPrePostTrigger)
    /\ cb' = [cb EXCEPT !.at = "post"]
    /\ UNCHANGED <<drv, reg, hw, setup, isRebooting, call, chan>>

ReadLong ==
    /\ Reading /\ UseLong /\ drv.arm = armPostTrigger
    /\ Add([h \in Halves |-> LongCells(h)])
    /\ cb' = NextEvent
    /\ UNCHANGED <<drv, reg, hw, setup, isRebooting, call>>

ReadLongFails ==
    /\ Reading /\ UseLong /\ drv.arm = armPostTrigger
    /\ DmaMayFail /\ drv.dma
    /\ cb' = [cb EXCEPT !.at = "post"]
    /\ UNCHANGED <<drv, reg, hw, setup, isRebooting, call, chan>>

\* When a transfer fails readContiguous gives DMA up for good: the event is read
\* on word by word, and so are all later ones.
ReadEvent ==
    /\ Reading /\ ~UseLong /\ drv.arm \in Armings
    /\ LET post == drv.arm = armPostTrigger IN
       \E fail  \in Failures(IF post THEN PostCount ELSE EventRuns.n1),
          later \in Failures(IF post THEN 0 ELSE EventRuns.n2) :
            /\ Add([h \in Halves |-> IF post THEN PostCells(h, fail)
                                    ELSE PrePostCells(h, fail, later)])
            /\ drv' = [drv EXCEPT !.dma = @ /\ fail = Never /\ later = Never]
    /\ cb' = NextEvent
    /\ UNCHANGED <<reg, hw, setup, isRebooting, call>>

\* myCallback has the waveforms processed, whatever readMemory returned.
Post ==
    /\ cb.at = "post"
    /\ cb' = [cb EXCEPT !.at = "idle"]
    /\ UNCHANGED <<drv, reg, hw, setup, isRebooting, call, chan>>

MethodStep == AcqOff \/ IntOff \/ Program \/ AcqOn \/ Start
Callback   == \/ ReadStart \/ ReadGroup \/ GroupDone \/ ReadRefused
              \/ ReadLong \/ ReadLongFails \/ ReadEvent \/ Post

Next ==
    \/ \E r \in Records : \E v \in Values[r] : Put(r, v)
    \/ MethodStep
    \/ sisIH
    \/ Callback
    \/ PreSample \/ HwTrigger \/ HwEventDone
    \/ sisReboot

Spec == Init /\ [][Next]_vars

\* Interrupts are served, threads and the callback task run.  Nobody has to
\* trigger, to put a value or to let the IOC exit.
FairSpec == Spec /\ WF_vars(MethodStep) /\ WF_vars(sisIH) /\ WF_vars(Callback)

-----------------------------------------------------------------------------
(* What holds whatever the operator does *)

\* Once a request to disarm has returned, the recorder is disarmed and stays
\* so, whatever interrupt or exit hook hit the steps of an earlier request.
DisarmSticks == Idle /\ drv.arm = armDisarm => ~isArmed

-----------------------------------------------------------------------------
(* What holds if the operator waits for a cycle under way *)

\* gtr.html: "the underlying driver support ensures that the recorder is
\* disarmed" when its data are read.  So it does here, as it arms with one
\* write, after which it changes nothing.
NoReadWhileArmed == OperatorWaits /\ cb.at \in {"group", "event", "post"} => ~isArmed

Recorded == OperatorWaits /\ ~isRebooting /\ cb.at = "post" /\ drv.arm \in Armings

\* The settings with which the card can do what they say: STOPDELAY takes
\* numberPTS and an event has room for it, the mask of readMemory leaves the
\* stop addresses as they are, numberPPS is a number of samples.  With FTVL
\* LONG a transfer that fails and the pre/post-trigger mode end the read.
Sound ==
    /\ drv.pps >= 0
    /\ Long => ~DmaMayFail /\ drv.arm = armPostTrigger
    /\ IF drv.arm = armPostTrigger THEN Gated \/ drv.pts \in 0 .. MinOf(DelaySpan - 1, Size)
       ELSE \A e \in DOMAIN hw.done : hw.done[e] % Size < AddressSpan

\* How many samples a channel shows of an event: numberPTS, all that a chain of
\* gates has recorded, or numberPPS, of which 0 stands for all.  With FTVL LONG
\* numberPPS is a limit in the other modes, too.
Pps == IF drv.pps = 0 THEN Size ELSE MinOf(drv.pps, Size)
Share(g) ==
    LET taken == IF Gated THEN hw.total ELSE drv.pts
    IN IF drv.arm = armPrePostTrigger THEN Pps
       ELSE IF Wholes(g) THEN MinOf(taken, Pps) ELSE taken

\* Of a post-trigger event the first samples, of a pre/post-trigger event the
\* newest, oldest first; what has no room is left out at the end.
Wanted(g, h, events) ==
    LET share == Share(g)
        len   == IF Wholes(g) /\ h = "low" THEN 0 ELSE ChanLen[g][h]
        event(i) == (i - 1) \div share
        nth(i)   == (i - 1) % share
        n(i)     == MinOf(share, len - event(i) * share)
    IN [i \in 1 .. MinOf(share * events, len) |->
           [event |-> event(i),
            at |-> IF drv.arm = armPostTrigger THEN nth(i)
                   ELSE Newest(n(i), hw.done[event(i) + 1])[nth(i) + 1]]]

\* A scan shows exactly the samples that the settings ask for, of all events,
\* also when DMA fails on the way.
WantedSamplesPosted ==
    Recorded /\ Sound => \A g \in 0 .. Groups - 1 : \A h \in Halves :
        chan[g][h] = Wanted(g, h, Number)

\* A cycle whose last event has been recorded is shown, unless the operator
\* disarms the card or the IOC exits.
CycleIsPosted ==
    OperatorWaits /\ hw.irq /\ drv.arm \in Armings ~>
        cb.at = "post" \/ drv.arm = armDisarm \/ isRebooting

-----------------------------------------------------------------------------
(* What the documentation says and the code does not do *)

\* gtr.html, prePostTrigger: "All elements of each event memory are read", and
\* in general "the last numberPTS elements are values collected after the
\* trigger".  The newest sample of a single event is the last one shown.
NewestIsLast ==
    Recorded /\ drv.arm = armPrePostTrigger /\ drv.ind = 0 =>
        \A g \in 0 .. Groups - 1 : \A h \in Halves :
            LET d == chan[g][h] IN
            d # <<>> => d[Len(d)].at = hw.done[1] - 1
=============================================================================
