------------------------------ MODULE Vtr1012 ------------------------------
(***************************************************************************)
(* The Joerger VTR1012 (gtrSup/vtr1012/drvVtr1012.c) and its single-channel *)
(* sibling VTR10010 (gtrSup/vtr10010/drvVtr10010.c), with the callers that  *)
(* GTR gives them.                                                          *)
(*                                                                          *)
(* The control register CSR1BYTE0 holds the trigger source, a clock bit and *)
(* the bits that arm the card, so the drivers keep a copy of it, csr1byte0, *)
(* which they change first and then write to the card.  Threads do that     *)
(* under the card's lock, one at a time; the interrupt handler does it at   *)
(* any moment.  A method is therefore a list of steps, call.todo, between   *)
(* which an interrupt or the exit hook may run.                             *)
(***************************************************************************)
EXTENDS Windows, Sequences

CONSTANT Setups     \* the setups looked at, a set of records

VARIABLES
    setup,          \* the card, its records and its operator, for good
    drv,            \* vtrInfo: arm, trigger, prePost, indPTE and the settings
    shadow,         \* vtrInfo.csr1byte0 and csr1byte1
    reg,            \* the registers CSR1BYTE0 and CSR1BYTE1
    hw,             \* the digitizer
    isRebooting,    \* the exit hook has run
    call,           \* the method under way, under the card's lock
    cb,             \* the callback task, which runs readMemory
    chan            \* what readMemory left in every gtrchannel

vars == <<setup, drv, shadow, reg, hw, isRebooting, call, cb, chan>>

-----------------------------------------------------------------------------
(* The setup *)

Model         == setup.model         \* "vtr1012" or "vtr10010"
Signals       == setup.signals       \* how many channels: 4 or 1 in the code
ArraySize     == setup.arraySize     \* samples of memory per channel
ChanLen       == setup.chanLen       \* gtrchannel.len of every channel, 0 without a record
Values        == setup.values        \* the values put by the operator, for every record
OperatorWaits == setup.operatorWaits \* TRUE: the operator leaves a cycle under way alone
MayReboot     == setup.mayReboot     \* TRUE: the exit hook may run
MaxPre        == setup.maxPre        \* bound: samples recorded before a trigger

Channels == 0 .. Signals - 1
Records  == {"clock", "trigger", "numberPTS", "numberPPS", "numberPTE",
             "arm", "softTrigger"}

ASSUME Vtr1012Assumption ==
    \A s \in Setups :
        /\ s.model \in {"vtr1012", "vtr10010"}
        /\ s.signals \in Nat \ {0} /\ s.arraySize \in Nat \ {0} /\ s.maxPre \in Nat
        /\ s.chanLen \in [0 .. s.signals - 1 -> Nat]
        /\ s.values \in [Records -> SUBSET Int]
        /\ s.operatorWaits \in BOOLEAN /\ s.mayReboot \in BOOLEAN

-----------------------------------------------------------------------------
(* Types *)

armDisable        == 0
armPostTrigger    == 1
armPrePostTrigger == 2
Armings           == {armPostTrigger, armPrePostTrigger}
triggerSoft       == 0
triggerExt        == 1
triggerGate       == 2

\* CSR1BYTE0: 0x40, 0x20 and 0x10 arm the card and make its memory circular;
\* 0x04 and 0x02 choose the trigger; 0x01 is an external clock.
ArmBits     == {"arm", "circ", "auto"}
TriggerBits == {"ext", "gate"}
Bits        == ArmBits \cup TriggerBits \cup {"clkExt"}

\* A step of a method: prepare the card to record, change the copy of
\* CSR1BYTE0, write it to the card.
Step(what, clear, set) == [do |-> what, clear |-> clear, set |-> set]
Steps == [do : {"start", "store", "write"}, clear : SUBSET Bits, set : SUBSET Bits]
Change(clear, set) == <<Step("store", clear, set), Step("write", {}, {})>>

\* byte is csr1byte0 as the compiler may keep it for the write that follows.
NoCall == [todo |-> <<>>, byte |-> {}, status |-> "OK"]
Idle   == call.todo = <<>>

\* total   samples recorded since the location register was cleared
\* gate    the gate register       phase   waiting for a trigger, gate open,
\* irq     an interrupt pends              or stopped after it
Hardware == [total : Nat, gate : Int, phase : {"wait", "open", "stopped"}, irq : BOOLEAN]

\* ndata is what the records see, data what was copied, fresh whether since
\* the card was last armed.  A sample is its number, or Stale.
NoData == [ndata |-> 0, data |-> <<>>, fresh |-> FALSE]

Drivers == [arm : Int, trigger : 0 .. 2, prePost : BOOLEAN, indPTE : Nat,
            pts : Int, pps : Int, pte : Int]
Bytes   == [byte0 : SUBSET Bits, byte1 : 0 .. 7]
Calls   == [todo : Seq(Steps), byte : SUBSET Bits,
            status : {"OK", "Busy", "Error", "Suspend"}]
Readers == [pending : BOOLEAN, at : {"idle", "read", "post"},
            signal : Channels, location : Nat]
Shown   == [ndata : Nat, data : Seq(Int), fresh : BOOLEAN]

TypeOK ==
    /\ setup \in Setups
    /\ drv \in Drivers
    /\ shadow \in Bytes /\ reg \in Bytes
    /\ hw \in Hardware
    /\ isRebooting \in BOOLEAN
    /\ call \in Calls
    /\ cb \in Readers
    /\ chan \in [Channels -> Shown]

-----------------------------------------------------------------------------
(* The digitizer (external) *)

isArmed  == "arm" \in reg.byte0
Circular == "circ" \in reg.byte0

\* What a write of CSR1BYTE0 does to the digitizer.
Written(h, byte) == IF "arm" \in byte THEN h ELSE [h EXCEPT !.phase = "wait"]

\* A circular memory records from the moment it is armed.
PreSample ==
    /\ isArmed /\ Circular /\ hw.phase = "wait" /\ hw.total < MaxPre
    /\ hw' = [hw EXCEPT !.total = @ + 1]
    /\ UNCHANGED <<drv, shadow, reg, setup, isRebooting, call, cb, chan>>

CanTrigger == isArmed /\ hw.phase = "wait"
HwTrigger ==
    /\ reg.byte0 \cap TriggerBits # {} /\ CanTrigger
    /\ hw' = [hw EXCEPT !.phase = "open"]
    /\ UNCHANGED <<drv, shadow, reg, setup, isRebooting, call, cb, chan>>

\* Post-trigger recording stops when the memory is full.
Gate == MaxOf(hw.gate, 0)
HwGateDone ==
    /\ hw.phase = "open"
    /\ hw' = [hw EXCEPT !.total = IF Circular THEN @ + Gate ELSE MinOf(@ + Gate, ArraySize),
                        !.phase = IF Circular THEN "stopped" ELSE "wait",
                        !.irq = TRUE]
    /\ UNCHANGED <<drv, shadow, reg, setup, isRebooting, call, cb, chan>>

readLocation == IF drv.prePost THEN hw.total % ArraySize ELSE hw.total

-----------------------------------------------------------------------------
(* vtr1012Config and vtrinit, vtrReboot *)

Init ==
    /\ setup \in Setups
    /\ drv = [arm |-> armDisable, trigger |-> triggerSoft, prePost |-> FALSE,
              indPTE |-> 0, pts |-> 0, pps |-> 0, pte |-> 1]
    /\ shadow = [byte0 |-> {}, byte1 |-> 0]
    /\ reg = shadow
    /\ hw = [total |-> 0, gate |-> IF Model = "vtr1012" THEN 1024 ELSE 0,
             phase |-> "wait", irq |-> FALSE]
    /\ isRebooting = FALSE
    /\ call = NoCall
    /\ cb = [pending |-> FALSE, at |-> "idle", signal |-> 0, location |-> 0]
    /\ chan = [s \in Channels |-> NoData]

\* The exit hook clears the register and leaves the copy as it is.
vtrReboot ==
    /\ MayReboot /\ ~isRebooting
    /\ isRebooting' = TRUE
    /\ reg' = [reg EXCEPT !.byte0 = {}]
    /\ hw' = Written(hw, {})
    /\ UNCHANGED <<setup, drv, shadow, call, cb, chan>>

-----------------------------------------------------------------------------
(* vtr1012IH.  Every trigger of a post-trigger set interrupts; the last one *)
(* disarms the card and calls usrIH, devGtr's interruptHandler, which asks  *)
(* for the callback.                                                        *)

SetIncomplete_OneShort ==                                        \* variant
    drv.arm = armPostTrigger /\ drv.indPTE + 2 < drv.pte
SetIncomplete == drv.arm = armPostTrigger /\ drv.indPTE + 1 < drv.pte

IgnoreInterrupt ==
    /\ hw.irq
    /\ isRebooting \/ drv.arm \notin Armings \/ SetIncomplete
    /\ drv' = IF ~isRebooting /\ drv.arm = armPostTrigger
              THEN [drv EXCEPT !.indPTE = @ + 1] ELSE drv
    /\ hw' = [hw EXCEPT !.irq = FALSE]
    /\ UNCHANGED <<shadow, reg, setup, isRebooting, call, cb, chan>>

\* Variant: the handler writes 0 instead of what is left of csr1byte0.
CompleteInterrupt_WritesZero ==
    /\ hw.irq
    /\ ~isRebooting /\ drv.arm \in Armings /\ ~SetIncomplete
    /\ drv' = IF drv.arm = armPostTrigger THEN [drv EXCEPT !.indPTE = @ + 1] ELSE drv
    /\ shadow' = [shadow EXCEPT !.byte0 = @ \ ArmBits]
    /\ reg' = [reg EXCEPT !.byte0 = {}]
    /\ hw' = Written([hw EXCEPT !.irq = FALSE], {})
    /\ cb' = [cb EXCEPT !.pending = TRUE]
    /\ UNCHANGED <<setup, isRebooting, call, chan>>

CompleteInterrupt ==
    /\ hw.irq
    /\ ~isRebooting /\ drv.arm \in Armings /\ ~SetIncomplete
    /\ drv' = IF drv.arm = armPostTrigger THEN [drv EXCEPT !.indPTE = @ + 1] ELSE drv
    /\ shadow' = [shadow EXCEPT !.byte0 = @ \ ArmBits]
    /\ reg' = [reg EXCEPT !.byte0 = shadow.byte0 \ ArmBits]
    /\ hw' = Written([hw EXCEPT !.irq = FALSE], {})
    /\ cb' = [cb EXCEPT !.pending = TRUE]
    /\ UNCHANGED <<setup, isRebooting, call, chan>>

-----------------------------------------------------------------------------
(* The methods.  Each is entered with the card's lock, which is free when   *)
(* no method is under way.                                                  *)

\* A waiting operator may always trigger and disarm, nothing else.
Quiet == ~isArmed /\ ~hw.irq /\ ~cb.pending /\ cb.at = "idle"
Allowed(r, v) ==
    \/ ~OperatorWaits
    \/ Quiet
    \/ r = "softTrigger"
    \/ r = "arm" /\ v = armDisable

Enter(status, todo) == call' = [call EXCEPT !.status = status, !.todo = todo]
Refuse(status) == Enter(status, <<>>) /\ UNCHANGED <<drv, shadow, reg, hw>>

\* The clock goes to the low bits of CSR1BYTE1, its top bit to CSR1BYTE0.
vtrclock(v) ==
    IF isArmed THEN Refuse("Busy")
    ELSE /\ shadow' = [shadow EXCEPT !.byte1 = v % 8]
         /\ reg' = [reg EXCEPT !.byte1 = v % 8]
         /\ IF isRebooting THEN Enter("Suspend", <<>>)
            ELSE Enter("OK", Change({"clkExt"}, IF (v \div 8) % 2 = 1 THEN {"clkExt"} ELSE {}))
         /\ UNCHANGED <<drv, hw>>

TriggerBit(v) == IF v = triggerExt THEN {"ext"} ELSE IF v = triggerGate THEN {"gate"} ELSE {}

\* Only the VTR10010 looks whether the IOC is exiting.
SuspendsTrigger_Never == FALSE                                   \* variant
SuspendsTrigger == Model = "vtr10010" /\ isRebooting
vtrtrigger_OffByOne(v) ==                                        \* variant
    IF SuspendsTrigger THEN Refuse("Suspend")
    ELSE IF v \notin triggerSoft .. triggerGate + 1 THEN Refuse("Error")
    ELSE IF isArmed THEN Refuse("Busy")
    ELSE /\ drv' = [drv EXCEPT !.trigger = v]
         /\ Enter("OK", Change(TriggerBits, TriggerBit(v)))
         /\ UNCHANGED <<shadow, reg, hw>>
vtrtrigger(v) ==
    IF SuspendsTrigger THEN Refuse("Suspend")
    ELSE IF v \notin triggerSoft .. triggerGate THEN Refuse("Error")
    ELSE IF isArmed THEN Refuse("Busy")
    ELSE /\ drv' = [drv EXCEPT !.trigger = v]
         /\ Enter("OK", Change(TriggerBits, TriggerBit(v)))
         /\ UNCHANGED <<shadow, reg, hw>>

Setting_NoBusy(field, v) ==                                      \* variant
    /\ drv' = [drv EXCEPT ![field] = v]
    /\ Enter("OK", <<>>)
    /\ UNCHANGED <<shadow, reg, hw>>
Setting(field, v) ==
    IF isArmed THEN Refuse("Busy")
    ELSE /\ drv' = [drv EXCEPT ![field] = v]
         /\ Enter("OK", <<>>)
         /\ UNCHANGED <<shadow, reg, hw>>
vtrnumberPTS(v) == Setting("pts", v)
vtrnumberPPS(v) == Setting("pps", v)
vtrnumberPTE(v) == Setting("pte", v)

\* "Must write to circular buffer enabled twice": the VTR1012 arms with both
\* writes, the VTR10010 only with the second.
FirstPass1012  == ArmBits
FirstPass10010 == {"circ"}
FirstPass == IF Model = "vtr1012" THEN FirstPass1012 ELSE FirstPass10010

DisarmSteps_Half == Change({"circ", "auto"}, {})                 \* variant: 0x30 for 0x70
DisarmSteps      == Change(ArmBits, {})
ArmSteps(v) ==
    CASE v = armDisable        -> DisarmSteps
      [] v = armPostTrigger    -> <<Step("start", {}, {})>> \o Change(ArmBits, {"arm"})
      [] v = armPrePostTrigger -> <<Step("start", {}, {})>> \o Change(ArmBits, {})
                                    \o Change({}, FirstPass) \o Change({}, ArmBits)
      [] OTHER                 -> <<>>

\* The choice is stored before it is looked at.
vtrarm(v) ==
    IF isRebooting THEN Refuse("Error")
    ELSE /\ drv' = [drv EXCEPT !.arm = v]
         /\ Enter(IF v \in Armings \cup {armDisable} THEN "OK" ELSE "Error", ArmSteps(v))
         /\ UNCHANGED <<shadow, reg, hw>>

vtrsoftTrigger ==
    IF isRebooting THEN Refuse("Error")
    ELSE /\ hw' = IF CanTrigger /\ reg.byte0 \cap TriggerBits = {}
                  THEN [hw EXCEPT !.phase = "open"] ELSE hw
         /\ Enter("OK", <<>>)
         /\ UNCHANGED <<drv, shadow, reg>>

Put(r, v) ==
    /\ Idle /\ call.status # "Suspend"      \* a suspended thread keeps the lock
    /\ Allowed(r, v)
    /\ \/ r = "clock"     /\ vtrclock(v)
       \/ r = "trigger"   /\ vtrtrigger(v)
       \/ r = "numberPTS" /\ vtrnumberPTS(v)
       \/ r = "numberPPS" /\ vtrnumberPPS(v)
       \/ r = "numberPTE" /\ vtrnumberPTE(v)
       \/ r = "arm"       /\ vtrarm(v)
       \/ r = "softTrigger" /\ vtrsoftTrigger
    /\ UNCHANGED <<setup, isRebooting, cb, chan>>

-----------------------------------------------------------------------------
(* The steps of a method *)

Doing(what) == ~Idle /\ Head(call.todo).do = what

\* vtrarm: prePost, indPTE, location and gate.  A new cycle begins.
Start ==
    /\ Doing("start")
    /\ drv' = [drv EXCEPT !.prePost = (drv.arm = armPrePostTrigger),
                          !.indPTE = IF drv.arm = armPostTrigger THEN 0 ELSE @]
    /\ hw' = [hw EXCEPT !.total = 0, !.gate = drv.pts]
    /\ chan' = [s \in Channels |-> [chan[s] EXCEPT !.fresh = FALSE]]
    /\ call' = [call EXCEPT !.todo = Tail(@)]
    /\ UNCHANGED <<shadow, reg, setup, isRebooting, cb>>

Store ==
    /\ Doing("store")
    /\ LET byte == (shadow.byte0 \ Head(call.todo).clear) \cup Head(call.todo).set IN
       /\ shadow' = [shadow EXCEPT !.byte0 = byte]
       /\ call' = [call EXCEPT !.todo = Tail(@), !.byte = byte]
    /\ UNCHANGED <<drv, reg, hw, setup, isRebooting, cb, chan>>

\* The compiler may load csr1byte0 again for the write, or not.
Write ==
    /\ Doing("write")
    /\ \E byte \in {shadow.byte0, call.byte} :
         /\ reg' = [reg EXCEPT !.byte0 = byte]
         /\ hw' = Written(hw, byte)
    /\ call' = [call EXCEPT !.todo = Tail(@), !.byte = {}]
    /\ UNCHANGED <<drv, shadow, setup, isRebooting, cb, chan>>

-----------------------------------------------------------------------------
(* vtrreadMemory *)

Cells(part) == [i \in 1 .. CellsOf(part) |-> SampleIn(part[1] + i - 1, hw.total, ArraySize)]

\* What one turn of vtrreadMemory's loop leaves in a channel.
Wanted(s) == IF drv.prePost THEN MinOf(ChanLen[s], drv.pps) ELSE ChanLen[s]
ReadChannel_LowFirst(s) ==                                       \* variant
    LET lim == getArrayLimits(drv.prePost, Wanted(s), cb.location, ArraySize)
    IN IF Wanted(s) <= 0 THEN chan[s]
       ELSE [ndata |-> lim.n, data |-> Cells(lim.low) \o Cells(lim.high), fresh |-> TRUE]
ReadChannel(s) ==
    LET lim == getArrayLimits(drv.prePost, Wanted(s), cb.location, ArraySize)
    IN IF Wanted(s) <= 0 THEN chan[s]
       ELSE [ndata |-> lim.n, data |-> Cells(lim.high) \o Cells(lim.low), fresh |-> TRUE]

\* myCallback: reads without the lock, then has the waveforms processed.
ReadStart ==
    /\ cb.at = "idle" /\ cb.pending
    /\ cb' = [pending |-> FALSE, at |-> "read", signal |-> 0, location |-> readLocation]
    /\ UNCHANGED <<drv, shadow, reg, hw, setup, isRebooting, call, chan>>
ReadNext ==
    /\ cb.at = "read"
    /\ chan' = [chan EXCEPT ![cb.signal] = ReadChannel(cb.signal)]
    /\ cb' = IF cb.signal + 1 < Signals THEN [cb EXCEPT !.signal = @ + 1]
             ELSE [cb EXCEPT !.at = "post", !.signal = 0, !.location = 0]
    /\ UNCHANGED <<drv, shadow, reg, hw, setup, isRebooting, call>>
Post ==
    /\ cb.at = "post"
    /\ cb' = [cb EXCEPT !.at = "idle"]
    /\ UNCHANGED <<drv, shadow, reg, hw, setup, isRebooting, call, chan>>

Next ==
    \/ \E r \in Records : \E v \in Values[r] : Put(r, v)
    \/ Start \/ Store \/ Write
    \/ IgnoreInterrupt \/ CompleteInterrupt
    \/ ReadStart \/ ReadNext \/ Post
    \/ PreSample \/ HwTrigger \/ HwGateDone
    \/ vtrReboot

Spec == Init /\ [][Next]_vars

-----------------------------------------------------------------------------
(* What holds whatever the operator does *)

\* The interrupt handler rewrites CSR1BYTE0 from a copy that a thread may be
\* changing.  Still no choice of trigger or clock is ever lost: between two
\* calls the register holds what was last set.
SettingsReachCard ==
    Idle /\ ~isRebooting =>
        /\ reg.byte0 \ ArmBits = shadow.byte0 \ ArmBits
        /\ reg.byte0 \cap TriggerBits = TriggerBit(drv.trigger)

\* Once a request to disarm has returned, the recorder is disarmed and stays
\* so, though an interrupt may have hit any point of the request.
DisarmSticks == Idle /\ drv.arm = armDisable => ~isArmed

\* A recorder that is armed records with the settings its driver holds, in the
\* mode that was armed.
ArmedAsSet ==
    Idle /\ isArmed /\ ~isRebooting /\ drv.arm \in Armings =>
        /\ hw.gate = drv.pts
        /\ drv.prePost = (drv.arm = armPrePostTrigger)
        /\ Circular = drv.prePost

\* What the exit hook is for: when it has disarmed the card and no method is
\* under way, nothing arms the card again, though csr1byte0 may still have the
\* bits that would.  So the VTR10010, not the VTR1012: its vtrtrigger writes
\* csr1byte0 without looking whether the IOC is exiting.
StaysDisarmedAfterExit ==
    [](Model = "vtr10010" /\ isRebooting /\ Idle /\ ~isArmed => []~isArmed)

-----------------------------------------------------------------------------
(* What holds if the operator waits for a cycle under way *)

\* gtr.html: "the underlying driver support ensures that the recorder is
\* disarmed" when a set is read.  Nothing is recorded over what is being read.
\* The VTR1012 does not ensure it in pre/post-trigger mode: the second of the
\* two writes that arm it undoes the disarming of an interrupt between them.
NoReadWhileArmed ==
    OperatorWaits /\ cb.at \in {"read", "post"} =>
        ~isArmed \/ (Model = "vtr1012" /\ drv.prePost)

\* A post-trigger scan never shows a part of a set: as many triggers as
\* numberPTE asks for have been recorded before it, or the memory is full.  (A
\* trigger that comes before the interrupt is taken may add to it.)
WholeSetPosted ==
    OperatorWaits /\ cb.at = "post" /\ drv.arm = armPostTrigger =>
        hw.total >= MinOf(Gate * MaxOf(drv.pte, 1), ArraySize)

\* What a scan shows of a channel are the newest samples in the order they
\* were taken, in pre/post-trigger mode perhaps without the very newest one.
\* (A window as large as the memory is out of order, see RoomKept; a VTR1012
\* that is armed while it is read may show anything.)
InOrder(s) ==
    LET n == chan[s].ndata  shown == SubSeq(chan[s].data, 1, n)
    IN \/ shown = Newest(n, hw.total)
       \/ drv.prePost /\ (n = ArraySize \/ shown = Newest(n, hw.total - 1))
SamplesInOrder ==
    OperatorWaits /\ cb.at = "post" /\ ~(Model = "vtr1012" /\ drv.prePost) =>
        \A s \in Channels : chan[s].fresh => InOrder(s)

-----------------------------------------------------------------------------
(* What the documentation says and the code does not do *)

\* drvGtr.h, gtrchannel: "int len; /*size of pdata array*/".  readMemory
\* copies no more samples than that.
RoomKept == \A s \in Channels : Len(chan[s].data) <= ChanLen[s]
=============================================================================
