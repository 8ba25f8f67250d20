------------------------------- MODULE Vtr812 -------------------------------
(***************************************************************************)
(* The Joerger VTR812 (gtrSup/vtr812/drvVtr812.c) with the callers that GTR *)
(* gives it.                                                                *)
(*                                                                          *)
(* Unlike the other recorders it has a Disarm register of its own, so the   *)
(* interrupt handler never rewrites CSR2, which holds the arm bit.  With    *)
(* the multi pre/post option the memory is divided into rings, one for each *)
(* event.  A method runs under the card's lock as a list of steps,          *)
(* call.todo, between which an interrupt or the exit hook may run; the      *)
(* callback task runs readMemory without the lock, one group at a time.     *)
(***************************************************************************)
EXTENDS Windows, Sequences

CONSTANT Setups     \* the setups looked at, a set of records

VARIABLES
    setup,          \* the card, its records and its operator, for good
    drv,            \* vtrInfo
    reg,            \* the registers CSR1, CSR2, CSR3 and MultiPrePost
    hw,             \* the digitizer
    isRebooting,    \* the exit hook has run
    call,           \* the method under way, under the card's lock
    cb,             \* the callback task, which runs readMemory
    chan            \* pdata[0 .. ndata - 1] of every gtrchannel

vars == <<setup, drv, reg, hw, isRebooting, call, cb, chan>>

-----------------------------------------------------------------------------
(* The setup *)

Groups          == setup.groups         \* pairs of channels: 4 in the code
ArraySize       == setup.arraySize      \* memsize: words of memory of a group
BUFLEN          == setup.buflen         \* words that one DMA transfer moves
ChanLen         == setup.chanLen        \* gtrchannel.len of the channels of every group
HasMultiPrePost == setup.multiPrePost   \* the card has the option
Values          == setup.values         \* the values put by the operator, for every record
OperatorWaits   == setup.operatorWaits  \* TRUE: the operator leaves a cycle under way alone
MayReboot       == setup.mayReboot      \* TRUE: the exit hook may run
DmaMayFail      == setup.dmaMayFail     \* TRUE: a DMA transfer may fail
MaxPre          == setup.maxPre         \* bound: samples of an event recorded before its trigger

Records == {"clock", "trigger", "multiEvent", "numberPTS", "numberPPS",
            "numberPTE", "arm", "softTrigger"}
Halves  == {"high", "low"}

ASSUME Vtr812Assumption ==
    \A s \in Setups :
        /\ {s.groups, s.buflen} \subseteq Nat \ {0} /\ s.maxPre \in Nat
        /\ s.arraySize \in Nat /\ s.arraySize >= 16
        /\ s.chanLen \in [0 .. s.groups - 1 -> [Halves -> Nat]]
        /\ s.values \in [Records -> SUBSET Int]
        /\ {s.multiPrePost, s.operatorWaits, s.mayReboot, s.dmaMayFail} \subseteq BOOLEAN

-----------------------------------------------------------------------------
(* Types *)

armDisarm         == 0
armPostTrigger    == 1
armPrePostTrigger == 2
Armings           == {armPostTrigger, armPrePostTrigger}
triggerSoft       == 0
triggerExt        == 1
triggerGate       == 2
ntriggerChoices   == 3
nclockChoices     == 16
nmultiEventChoices == 5
numberEvents      == <<1, 2, 4, 8, 16>>

\* CSR2: 0x40 arms the card, 0x30 makes its memory circular, 0x04 and 0x02
\* choose the trigger, 0x01 is an external clock.
TriggerBits == {"ext", "gate"}
Bits        == {"arm", "circ", "clkExt"} \cup TriggerBits

\* A step of a method writes a register: CSR2 takes bits, to arm in mode n if n
\* is one; MultiPrePost takes n; "start" prepares the card to record in mode n.
Step(what, bits, n) == [do |-> what, bits |-> bits, n |-> n]
Steps == [do : {"disarm", "resetIRQ", "start", "enableIRQ", "multi", "csr2"},
          bits : SUBSET Bits, n : Int]

Idle == call.todo = <<>>

\* total samples recorded for the event under way, done those of every event
\* recorded since the card was armed
Hardware == [total : Nat, done : Seq(Nat), gate : Int,
             phase : {"wait", "open", "stopped"}, irq : BOOLEAN]

\* What a word of memory holds: a sample of an event, or Stale.
Words == [event : Nat, at : Int]

Drivers == [arm : Int, trigger : triggerSoft .. triggerGate,
            ind : 0 .. nmultiEventChoices - 1, events : {1, 2, 4, 8, 16},
            pts : Int, pps : Int, pte : Int, soFar : Nat]
Registers == [clock : 0 .. 7, csr2 : SUBSET Bits, irqOn : BOOLEAN, multi : 0 .. 7]
Calls     == [todo : Seq(Steps), status : {"OK", "Busy", "Error", "Suspend"}]
Readers   == [pending : BOOLEAN, at : {"idle", "read", "post"}, group : 0 .. Groups - 1,
              event : Nat, arm : Int, events : {1, 2, 4, 8, 16}, pps : Nat]
Shown     == [0 .. Groups - 1 -> [Halves -> Seq(Words)]]

TypeOK ==
    /\ setup \in Setups
    /\ drv \in Drivers
    /\ reg \in Registers
    /\ hw \in Hardware
    /\ isRebooting \in BOOLEAN
    /\ call \in Calls
    /\ cb \in Readers
    /\ chan \in Shown
    /\ \A g \in 0 .. Groups - 1 : \A h \in Halves : Len(chan[g][h]) <= ChanLen[g][h]

-----------------------------------------------------------------------------
(* The digitizer (external) *)

isArmed  == "arm" \in reg.csr2
Circular == "circ" \in reg.csr2

\* MultiPrePost: 0x04 enables 2, 4, 8 or 16 events.
EventsOf(multi) == IF multi >= 4 THEN numberEvents[multi - 2] ELSE 1
EventSize == ArraySize \div EventsOf(reg.multi)

Disarmed(h) == [h EXCEPT !.phase = "wait"]

\* A circular memory records from the moment it is armed.
PreSample ==
    /\ isArmed /\ Circular /\ hw.phase = "wait" /\ hw.total < MaxPre
    /\ hw' = [hw EXCEPT !.total = @ + 1]
    /\ UNCHANGED <<drv, reg, setup, isRebooting, call, cb, chan>>

CanTrigger == isArmed /\ hw.phase = "wait"
HwTrigger ==
    /\ reg.csr2 \cap TriggerBits # {} /\ CanTrigger
    /\ hw' = [hw EXCEPT !.phase = "open"]
    /\ UNCHANGED <<drv, reg, setup, isRebooting, call, cb, chan>>

\* Post-trigger recording stops when the memory is full, an event when its
\* gate closes.  Both interrupt.
Gate == MaxOf(hw.gate, 0)
HwGateDone ==
    /\ hw.phase = "open"
    /\ hw' = IF Circular
             THEN [hw EXCEPT !.total = 0, !.done = Append(@, hw.total + Gate), !.irq = TRUE,
                             !.phase = IF Len(hw.done) + 1 >= EventsOf(reg.multi)
                                       THEN "stopped" ELSE "wait"]
             ELSE [hw EXCEPT !.total = MinOf(@ + Gate, ArraySize), !.irq = TRUE,
                             !.phase = "wait"]
    /\ UNCHANGED <<drv, reg, setup, isRebooting, call, cb, chan>>

PmemCounter == Len(hw.done)

\* Where the newest sample of an event is; location 0 of an event not recorded.
readPmemAddress(event) ==
    IF event + 1 > Len(hw.done) THEN 0
    ELSE event * EventSize + ((hw.done[event + 1] - 1) % EventSize)
readLocation == readPmemAddress(MaxOf(Len(hw.done) - 1, 0))

\* What a cell of memory holds.
Word(cell) ==
    LET event == cell \div EventSize IN
    IF cb.arm # armPrePostTrigger THEN [event |-> 0, at |-> SampleIn(cell, hw.total, ArraySize)]
    ELSE [event |-> event,
          at |-> IF event + 1 > Len(hw.done) THEN Stale
                 ELSE SampleIn(cell % EventSize, hw.done[event + 1], EventSize)]

-----------------------------------------------------------------------------
(* vtr812Config, vtrinit, vtrReboot *)

\* Looking for the multi pre/post option leaves 3 in MultiPrePost.
Init ==
    /\ setup \in Setups
    /\ drv = [arm |-> armDisarm, trigger |-> triggerSoft, ind |-> 0, events |-> 1,
              pts |-> 0, pps |-> 0, pte |-> 1, soFar |-> 0]
    /\ reg = [clock |-> 0, csr2 |-> {}, irqOn |-> FALSE,
              multi |-> IF HasMultiPrePost THEN 3 ELSE 0]
    /\ hw = [total |-> 0, done |-> <<>>, gate |-> 0, phase |-> "wait", irq |-> FALSE]
    /\ isRebooting = FALSE
    /\ call = [todo |-> <<>>, status |-> "OK"]
    /\ cb = [pending |-> FALSE, at |-> "idle", group |-> 0, event |-> 0,
             arm |-> armDisarm, events |-> 1, pps |-> 0]
    /\ chan = [g \in 0 .. Groups - 1 |-> [h \in Halves |-> <<>>]]

\* The exit hook only disables the interrupt.
vtrReboot ==
    /\ MayReboot /\ ~isRebooting
    /\ isRebooting' = TRUE
    /\ reg' = [reg EXCEPT !.irqOn = FALSE]
    /\ UNCHANGED <<setup, drv, hw, call, cb, chan>>

-----------------------------------------------------------------------------
(* vtr812IH *)

SetIncomplete_OneMore ==                                         \* variant
    \/ drv.arm = armPostTrigger /\ drv.soFar + 1 < drv.pte
    \/ drv.arm = armPrePostTrigger /\ drv.events > 1 /\ PmemCounter <= drv.events
SetIncomplete ==
    \/ drv.arm = armPostTrigger /\ drv.soFar + 1 < drv.pte
    \/ drv.arm = armPrePostTrigger /\ drv.events > 1 /\ PmemCounter < drv.events

Interrupt ==
    /\ hw.irq /\ reg.irqOn
    /\ UNCHANGED <<setup, isRebooting, call, chan>>
CountTrigger ==
    drv' = IF drv.arm = armPostTrigger THEN [drv EXCEPT !.soFar = @ + 1] ELSE drv
WriteDisarm ==
    /\ reg' = [reg EXCEPT !.csr2 = @ \ {"arm"}]
    /\ hw' = Disarmed([hw EXCEPT !.irq = FALSE])

UnwantedInterrupt ==
    /\ Interrupt
    /\ isRebooting \/ drv.arm = armDisarm
    /\ WriteDisarm
    /\ UNCHANGED <<drv, cb>>

IgnoreInterrupt ==
    /\ Interrupt
    /\ ~isRebooting /\ SetIncomplete
    /\ CountTrigger
    /\ hw' = [hw EXCEPT !.irq = FALSE]
    /\ UNCHANGED <<reg, cb>>

CompleteInterrupt_NoDisarm ==                                    \* variant
    /\ Interrupt
    /\ ~isRebooting /\ drv.arm # armDisarm /\ ~SetIncomplete
    /\ CountTrigger
    /\ hw' = [hw EXCEPT !.irq = FALSE]
    /\ cb' = [cb EXCEPT !.pending = TRUE]
    /\ UNCHANGED reg

\* usrIH is devGtr's interruptHandler, which asks for the callback.
CompleteInterrupt ==
    /\ Interrupt
    /\ ~isRebooting /\ drv.arm # armDisarm /\ ~SetIncomplete
    /\ CountTrigger
    /\ WriteDisarm
    /\ cb' = [cb EXCEPT !.pending = TRUE]

-----------------------------------------------------------------------------
(* The methods *)

\* A waiting operator may always trigger and disarm, nothing else.
Quiet == ~isArmed /\ ~hw.irq /\ ~cb.pending /\ cb.at = "idle"
Allowed(r, v) ==
    \/ ~OperatorWaits
    \/ Quiet
    \/ r = "softTrigger"
    \/ r = "arm" /\ v = armDisarm

Enter(status, todo) == call' = [status |-> status, todo |-> todo]
Refuse(status) == Enter(status, <<>>) /\ UNCHANGED <<drv, reg, hw>>

\* Half of the choices are of the external clock.
vtrclock(v) ==
    IF isArmed THEN Refuse("Busy")
    ELSE IF isRebooting THEN Refuse("Suspend")
    ELSE IF v \notin 0 .. nclockChoices - 1 THEN Refuse("Error")
    ELSE LET half == nclockChoices \div 2
             ext  == IF v >= half THEN {"clkExt"} ELSE {} IN
         /\ reg' = [reg EXCEPT !.clock = v % half]
         /\ Enter("OK", <<Step("csr2", (reg.csr2 \ {"clkExt"}) \cup ext, 0)>>)
         /\ UNCHANGED <<drv, hw>>

TriggerBit(v) == IF v = triggerExt THEN {"ext"} ELSE IF v = triggerGate THEN {"gate"} ELSE {}

vtrtrigger_NoBusy(v) ==                                          \* variant
    IF isRebooting THEN Refuse("Suspend")
    ELSE IF v \notin triggerSoft .. triggerGate THEN Refuse("Error")
    ELSE /\ drv' = [drv EXCEPT !.trigger = v]
         /\ Enter("OK", <<Step("csr2", (reg.csr2 \ TriggerBits) \cup TriggerBit(v), 0)>>)
         /\ UNCHANGED <<reg, hw>>
\* value == ntriggerChoices passes the first test, and is refused by the switch.
vtrtrigger(v) ==
    IF isRebooting THEN Refuse("Suspend")
    ELSE IF v \notin 0 .. ntriggerChoices THEN Refuse("Error")
    ELSE IF isArmed THEN Refuse("Busy")
    ELSE IF v = ntriggerChoices THEN Refuse("Error")
    ELSE /\ drv' = [drv EXCEPT !.trigger = v]
         /\ Enter("OK", <<Step("csr2", (reg.csr2 \ TriggerBits) \cup TriggerBit(v), 0)>>)
         /\ UNCHANGED <<reg, hw>>

vtrmultiEvent(v) ==
    IF ~HasMultiPrePost THEN Refuse(IF v = 0 THEN "OK" ELSE "Error")
    ELSE IF v \notin 0 .. nmultiEventChoices - 1 THEN Refuse("Error")
    ELSE IF isArmed THEN Refuse("Busy")
    ELSE IF isRebooting THEN Refuse("Suspend")
    ELSE /\ drv' = [drv EXCEPT !.ind = v, !.events = numberEvents[v + 1]]
         /\ Enter("OK", <<>>)
         /\ UNCHANGED <<reg, hw>>

Setting(field, v) ==
    IF isArmed THEN Refuse("Busy")
    ELSE /\ drv' = [drv EXCEPT ![field] = v]
         /\ Enter("OK", <<>>)
         /\ UNCHANGED <<reg, hw>>
vtrnumberPTS(v) == Setting("pts", v)
vtrnumberPPS(v) == Setting("pps", v)
vtrnumberPTE(v) == Setting("pte", v)

\* "bits 0x30 must be set twice"; the last two writes both arm.
MultiSteps_Index == IF drv.ind > 1 THEN <<Step("multi", {}, 4 + drv.ind)>> ELSE <<>>   \* variant
MultiSteps == IF drv.ind > 1 THEN <<Step("multi", {}, 4 + drv.ind - 1)>> ELSE <<>>
ArmSteps(v) ==
    LET kept == reg.csr2 \ {"arm", "circ"} IN
    <<Step("start", {}, v), Step("enableIRQ", {}, 0)>> \o
    CASE v = armPostTrigger    -> <<Step("multi", {}, 0), Step("csr2", kept \cup {"arm"}, v)>>
      [] v = armPrePostTrigger ->
            MultiSteps \o <<Step("csr2", kept \cup {"circ"}, v),
                            Step("csr2", kept \cup {"circ", "arm"}, v),
                            Step("csr2", kept \cup {"circ", "arm"}, v)>>
      [] OTHER -> <<>>

vtrarm(v) ==
    /\ drv' = [drv EXCEPT !.arm = armDisarm]
    /\ Enter(IF v \in Armings \cup {armDisarm} THEN "OK" ELSE "Error",
             <<Step("disarm", {}, 0), Step("resetIRQ", {}, 0)>>
               \o IF v = armDisarm THEN <<>> ELSE ArmSteps(v))
    /\ UNCHANGED <<reg, hw>>

vtrsoftTrigger ==
    /\ hw' = IF CanTrigger /\ reg.csr2 \cap TriggerBits = {}
             THEN [hw EXCEPT !.phase = "open"] ELSE hw
    /\ Enter("OK", <<>>)
    /\ UNCHANGED <<drv, reg>>

Put(r, v) ==
    /\ Idle /\ call.status # "Suspend"      \* a suspended thread keeps the lock
    /\ Allowed(r, v)
    /\ \/ r = "clock"      /\ vtrclock(v)
       \/ r = "trigger"    /\ vtrtrigger(v)
       \/ r = "multiEvent" /\ vtrmultiEvent(v)
       \/ r = "numberPTS"  /\ vtrnumberPTS(v)
       \/ r = "numberPPS"  /\ vtrnumberPPS(v)
       \/ r = "numberPTE"  /\ vtrnumberPTE(v)
       \/ r = "arm"        /\ vtrarm(v)
       \/ r = "softTrigger" /\ vtrsoftTrigger
    /\ UNCHANGED <<setup, isRebooting, cb, chan>>

-----------------------------------------------------------------------------
(* The steps of a method *)

Doing(what) ==
    /\ ~Idle /\ Head(call.todo).do = what
    /\ call' = [call EXCEPT !.todo = Tail(@)]
    /\ UNCHANGED <<setup, isRebooting, cb, chan>>

Disarm ==
    /\ Doing("disarm")
    /\ reg' = [reg EXCEPT !.csr2 = @ \ {"arm"}]
    /\ hw' = Disarmed(hw)
    /\ UNCHANGED drv

\* CSR3 = 0x06
ResetIRQ ==
    /\ Doing("resetIRQ")
    /\ reg' = [reg EXCEPT !.irqOn = FALSE]
    /\ hw' = [hw EXCEPT !.irq = FALSE]
    /\ UNCHANGED drv

\* Location, gate and CSR2 without the arm bits, then arm and
\* numberTriggersSoFar.  The card is disarmed and cannot interrupt.
Start ==
    /\ Doing("start")
    /\ LET arm == Head(call.todo).n IN
       drv' = [drv EXCEPT !.arm = arm, !.soFar = IF arm = armPostTrigger THEN 0 ELSE @]
    /\ reg' = [reg EXCEPT !.csr2 = @ \ {"arm", "circ"}]
    /\ hw' = [hw EXCEPT !.total = 0, !.done = <<>>, !.gate = drv.pts]

\* CSR3 = 0
EnableIRQ ==
    /\ Doing("enableIRQ")
    /\ reg' = [reg EXCEPT !.irqOn = TRUE]
    /\ UNCHANGED <<drv, hw>>

WriteMulti ==
    /\ Doing("multi")
    /\ reg' = [reg EXCEPT !.multi = Head(call.todo).n]
    /\ UNCHANGED <<drv, hw>>

WriteCSR2 ==
    /\ Doing("csr2")
    /\ reg' = [reg EXCEPT !.csr2 = Head(call.todo).bits]
    /\ UNCHANGED <<drv, hw>>

-----------------------------------------------------------------------------
(* vtrreadMemory *)

readContiguous_NoRoom(first, n, skip, room) ==                   \* variant
    [i \in 1 .. MaxOf(n - skip, 0) |-> first + skip + i - 1]
readContiguous_SkipNewest(first, n, skip, room) ==               \* variant
    [i \in 1 .. MaxOf(MinOf(n - skip, room), 0) |-> first + i - 1]
\* The cells that readContiguous copies to a channel: n words from first on,
\* without the first skip, while there is room.
readContiguous(first, n, skip, room) ==
    [i \in 1 .. MaxOf(MinOf(n - skip, room), 0) |-> first + skip + i - 1]

\* How many of n words it gets: a DMA transfer that fails ends it.
WordsRead(n) == {k \in 0 .. MaxOf(n, 0) : k = MaxOf(n, 0) \/ (DmaMayFail /\ k % BUFLEN = 0)}

Copy(cells) == [i \in DOMAIN cells |-> Word(cells[i])]

\* Variant: ndata is not reset.
ReadStart_KeepsData ==
    /\ cb.at = "idle" /\ cb.pending
    /\ LET size == ArraySize \div drv.events
           pps  == IF drv.pps \in 0 .. size THEN drv.pps ELSE size
           some == \/ drv.arm = armPostTrigger
                   \/ drv.arm = armPrePostTrigger /\ pps # 0
       IN cb' = [pending |-> FALSE, at |-> IF some THEN "read" ELSE "post",
                 group |-> 0, event |-> 0, arm |-> drv.arm,
                 events |-> IF drv.arm = armPrePostTrigger THEN drv.events ELSE 1,
                 pps |-> pps]
    /\ UNCHANGED <<drv, reg, hw, setup, isRebooting, call, chan>>

\* All channels are emptied unless the card has been disarmed.
ReadStart ==
    /\ cb.at = "idle" /\ cb.pending
    /\ LET size == ArraySize \div drv.events
           pps  == IF drv.pps \in 0 .. size THEN drv.pps ELSE size   \* unsigned
           some == \/ drv.arm = armPostTrigger
                   \/ drv.arm = armPrePostTrigger /\ pps # 0
       IN cb' = [pending |-> FALSE, at |-> IF some THEN "read" ELSE "post",
                 group |-> 0, event |-> 0, arm |-> drv.arm,
                 events |-> IF drv.arm = armPrePostTrigger THEN drv.events ELSE 1,
                 pps |-> pps]
    /\ chan' = IF drv.arm = armDisarm THEN chan
               ELSE [g \in 0 .. Groups - 1 |-> [h \in Halves |-> <<>>]]
    /\ UNCHANGED <<drv, reg, hw, setup, isRebooting, call>>

readPostTrigger(g) ==
    LET ndata == MinOf(drv.pts * drv.pte, ArraySize) IN
    \E k \in WordsRead(ndata) :
        chan' = [chan EXCEPT ![g] =
                    [h \in Halves |-> Copy(readContiguous(0, k, 0, ChanLen[g][h]))]]

\* The words of one event of one group, oldest first, in one run or in two.
readPrePostTrigger(g) ==
    LET size   == ArraySize \div cb.events
        base   == cb.event * size
        last   == (IF cb.events = 1 THEN readLocation ELSE readPmemAddress(cb.event)) - base
        loc    == AfterLast(last, size)
        room(h) == ChanLen[g][h] - Len(chan[g][h])
        want(h) == MinOf(room(h), cb.pps)
        nmax   == MaxOf(want("high"), want("low"))
        skip(h) == nmax - want(h)
        runs   == Runs(loc, nmax, size)
    IN IF last \notin 0 .. size - 1 \/ nmax <= 0 THEN UNCHANGED chan
       ELSE \E k1 \in WordsRead(runs.n1), k2 \in WordsRead(runs.n2) :
            LET run1(h) == readContiguous(base + runs.first, k1, skip(h), room(h))
                run2(h) == readContiguous(base, k2, MaxOf(skip(h) - k1, 0),
                                          room(h) - Len(run1(h)))
            IN chan' = [chan EXCEPT ![g] =
                           [h \in Halves |-> @[h] \o Copy(run1(h)) \o Copy(run2(h))]]

\* Events are the outer loop, groups the inner one.
NextGroup ==
    IF cb.group + 1 < Groups THEN [cb EXCEPT !.group = @ + 1]
    ELSE IF cb.event + 1 < cb.events THEN [cb EXCEPT !.group = 0, !.event = @ + 1]
    ELSE [cb EXCEPT !.at = "post", !.group = 0, !.event = 0]
ReadGroup ==
    /\ cb.at = "read"
    /\ IF cb.arm = armPostTrigger THEN readPostTrigger(cb.group)
       ELSE readPrePostTrigger(cb.group)
    /\ cb' = NextGroup
    /\ UNCHANGED <<drv, reg, hw, setup, isRebooting, call>>

\* myCallback has the waveforms processed.
Post ==
    /\ cb.at = "post"
    /\ cb' = [cb EXCEPT !.at = "idle"]
    /\ UNCHANGED <<drv, reg, hw, setup, isRebooting, call, chan>>

MethodStep == Disarm \/ ResetIRQ \/ Start \/ EnableIRQ \/ WriteMulti \/ WriteCSR2
IH         == UnwantedInterrupt \/ IgnoreInterrupt \/ CompleteInterrupt
Callback   == ReadStart \/ ReadGroup \/ Post

Next ==
    \/ \E r \in Records : \E v \in Values[r] : Put(r, v)
    \/ MethodStep
    \/ IH
    \/ Callback
    \/ PreSample \/ HwTrigger \/ HwGateDone
    \/ vtrReboot

Spec == Init /\ [][Next]_vars

\* Interrupts are served, threads and the callback task run.  Nobody has to
\* trigger, to put a value or to let the IOC exit.
FairSpec == Spec /\ WF_vars(MethodStep) /\ WF_vars(IH) /\ WF_vars(Callback)

-----------------------------------------------------------------------------
(* What holds whatever the operator does *)

\* vtrclock and vtrtrigger write CSR2 back as they read it, and the interrupt
\* handler may disarm the card in between.  Yet only vtrarm ever arms it.
OnlyVtrarmArms ==
    [][~isArmed /\ isArmed' => Head(call.todo).n \in Armings]_vars

\* A recorder that is armed has the gate, the mode and the trigger its driver
\* holds.  It is divided into as many events as well where vtrarm programs their
\* number: into one for post-trigger recording, and for the choices 4, 8 and 16.
\* For the choices 1 and 2 vtrarm writes nothing (indMultiEventNumber > 1), and
\* the card keeps the division of an earlier arm: nothing is said of it here.
Divided == IF Circular THEN drv.ind > 1 => EventsOf(reg.multi) = drv.events
           ELSE EventsOf(reg.multi) = 1
ArmedAsSet ==
    Idle /\ isArmed =>
        /\ hw.gate = drv.pts
        /\ Circular = (drv.arm = armPrePostTrigger)
        /\ reg.csr2 \cap TriggerBits = TriggerBit(drv.trigger)
        /\ Divided

-----------------------------------------------------------------------------
(* What holds if the operator waits for a cycle under way                   *)

\* The operator leaves the trigger as vtrinit sets it.
SoftTriggered == Values["trigger"] \subseteq {triggerSoft}

\* The scan that shows a set finds the channels as the callback task left them,
\* and the driver's arm as the callback task found it.  A card that records in
\* pre/post-trigger mode may have been armed again, unless only the operator
\* triggers it; and it may divide its memory into other events than its driver
\* believes, since vtrarm does not program every number of events.
Reading ==
    /\ OperatorWaits /\ cb.at = "post" /\ drv.arm = cb.arm
    /\ \/ cb.arm = armPostTrigger /\ drv.pts >= 0
       \/ cb.arm = armPrePostTrigger /\ SoftTriggered /\ cb.events = EventsOf(reg.multi)

\* The first samples of a post-trigger set are shown, as many as were asked
\* for and no stale word among them.
PostSamples(g, h) ==
    LET n == MinOf(MinOf(drv.pts * drv.pte, ArraySize), ChanLen[g][h])
    IN chan[g][h] = [i \in 1 .. n |-> [event |-> 0, at |-> i - 1]]

\* Of every event the newest numberPPS samples, event after event and oldest
\* first, whichever of the two channels of a group has more room.
EventSamples(g, h) ==
    LET len == ChanLen[g][h]
        n   == MinOf(cb.pps * cb.events, len)
        event(i)  == (i - 1) \div cb.pps
        taken(e)  == MinOf(cb.pps, len - e * cb.pps)
        newest(i) == Newest(taken(event(i)), hw.done[event(i) + 1])[((i - 1) % cb.pps) + 1]
    IN chan[g][h] = [i \in 1 .. n |-> [event |-> event(i), at |-> newest(i)]]

\* A scan shows exactly the samples that the settings ask for.
WantedSamplesPosted ==
    Reading /\ ~DmaMayFail => \A g \in 0 .. Groups - 1 : \A h \in Halves :
        IF cb.arm = armPostTrigger THEN PostSamples(g, h) ELSE EventSamples(g, h)

\* When a DMA transfer fails readContiguous ends and its caller goes on with
\* the next words.  Samples may be missing then, but those that are shown are
\* in the order they were taken, and none is shown twice.
Later(a, b) == a.event < b.event \/ (a.event = b.event /\ a.at < b.at)
OrderedEvenIfDmaFails ==
    Reading => \A g \in 0 .. Groups - 1 : \A h \in Halves :
        \A i \in 1 .. Len(chan[g][h]) - 1 :
            \/ chan[g][h][i].at = Stale
            \/ Later(chan[g][h][i], chan[g][h][i + 1])

\* gtr.html: "the underlying driver support ensures that the recorder is
\* disarmed" when its data are read.  Not always: in pre/post-trigger mode an
\* external trigger may come between the two writes that arm the card, and the
\* second one then follows an interrupt that has disarmed it.
DisarmedWhenRead == OperatorWaits /\ cb.at \in {"read", "post"} => ~isArmed

\* That is the only way: the recorder is disarmed when a post-trigger set is
\* read, and any set if only the operator triggers.
NoReadWhileArmed == SoftTriggered \/ cb.arm = armPostTrigger => DisarmedWhenRead

\* A recorder that has stopped by itself, divided into at least as many events
\* as its driver waits for, has its data posted unless the operator disarms it:
\* vtr812IH counts events in PmemCounter and lets none of the interrupts before
\* the last one end the cycle, nor the last one pass.
AgreedIsPosted ==
    OperatorWaits /\ hw.phase = "stopped" /\ drv.events <= EventsOf(reg.multi)
        ~> cb.at = "post" \/ drv.arm = armDisarm

-----------------------------------------------------------------------------
(* What the documentation says and the code does not do                     *)

\* gtr.html, multiple events: the recorder will "stop after all events have
\* occured", and "after the recorder has acquired a complete set of data" the
\* interrupt routine is called.  For the choice of 2 events vtrarm leaves the
\* card divided as it was; a card that is not divided stops after one event,
\* vtr812IH waits for the second, and the set is not posted.
StoppedIsPosted ==
    OperatorWaits /\ hw.phase = "stopped" ~> cb.at = "post" \/ drv.arm = armDisarm
=============================================================================
