------------------------------ MODULE Vtr10012 ------------------------------
(***************************************************************************)
(* One Joerger VTR10012-family digitizer and its GTR driver                 *)
(* (gtrSup/vtr10012/drvVtr10012.c).                                         *)
(*                                                                          *)
(* The driver is passive: its methods run in the thread that calls them and *)
(* vtr10012IH runs at interrupt level.  This module therefore has no Next   *)
(* of its own; it gives the state of the card and the effect of every       *)
(* method, and GtrCard says which thread runs which method when.  A method  *)
(* that an interrupt can split (vtrarm, vtrreadMemory) is one operator per  *)
(* piece.                                                                   *)
(*                                                                          *)
(* hw is the part of the register file and of the digitizer behind it that  *)
(* the driver's control flow depends on; it is external code, modelled from *)
(* how the driver uses it.                                                  *)
(***************************************************************************)
EXTENDS Integers

CONSTANTS
    ArraySize,      \* samples of memory per channel
    NGroups,        \* memory groups of two channels each (4 in the code)
    ChanLen,        \* gtrchannel.len of every channel, set by device support
    NMultiEvent,    \* number of multiEvent choices (5 in the code)
    CountCap,       \* bound: the completed-trigger counter stops here
    DmaMayFail      \* TRUE: a DMA transfer of readContiguous may fail

ASSUME CardAssumption ==
    /\ ArraySize \in Nat \ {0}
    /\ NGroups \in Nat \ {0}
    /\ ChanLen \in [0 .. 2 * NGroups - 1 -> Nat]
    /\ NMultiEvent \in 1 .. 5
    /\ CountCap \in Nat \ {0}
    /\ DmaMayFail \in BOOLEAN

VARIABLES
    type,           \* vtrInfo.type: which card of the family
    arm,            \* vtrInfo.arm: what the driver believes it armed
    cfg,            \* the settings: vtrInfo fields and the CLOCK register
    hw,             \* the card
    isRebooting,    \* the exit hook has run
    chan,           \* what readMemory left in every gtrchannel
    rd              \* the locals of the readMemory under way

cardVars == <<type, arm, cfg, hw, isRebooting, chan, rd>>

Channels == 0 .. 2 * NGroups - 1
Low(g)   == g
High(g)  == g + NGroups

MinOf(a, b) == IF a < b THEN a ELSE b

-----------------------------------------------------------------------------
(* Types and choices *)

\* vtrType8014 and vtrType10014 differ from vtrType10012 only in data masks
\* and clock tables, so two kinds of card are told apart.
CardTypes == {"vtr10012", "vtr10012_8"}

armDisarm         == 0
armPostTrigger    == 1
armPrePostTrigger == 2
ArmChoices        == {armDisarm, armPostTrigger, armPrePostTrigger}

nclockChoices   == 14
ntriggerChoices == 3
triggerSoft     == 0

\* numberEvents[]: 1, 2, 4, 8, 16 events for the multiEvent choices.
NumberEvents == <<1, 2, 4, 8, 16>>
numberEvents == NumberEvents[cfg.ind + 1]

Settings == [clock : Int, trigger : Int, ind : 0 .. NMultiEvent - 1,
             pts : Int, pps : Int, pte : Int]

\* armed   STATUSR bit 0         running  a trigger came, its gate is open
\* prePost CONTROL & 0x48        irqOn    INTSETUP & 8, interrupts enabled
\* gate    HGDR/LGDR             irq      an interrupt is pending
\* events  MULPREPOST            count    CPTCC, completed triggers
Hardware == [armed : BOOLEAN, running : BOOLEAN, prePost : BOOLEAN,
             gate : Int, events : 1 .. 16, count : 0 .. CountCap,
             irqOn : BOOLEAN, irq : BOOLEAN]

ResetHardware == [armed |-> FALSE, running |-> FALSE, prePost |-> FALSE,
                  gate |-> 0, events |-> 1, count |-> 0,
                  irqOn |-> FALSE, irq |-> FALSE]

\* Where the samples of a channel come from: nowhere yet, the latest
\* acquisition cycle, that cycle with a transfer of it cut short, an earlier
\* one, or a cycle still being recorded.
Origins == {"none", "last", "part", "old", "live"}
ChannelData == [ndata : Nat, of : Origins]

\* next: the next group or event; pps and nev: the copies readPrePostTrigger
\* takes of numberPPS and numberEvents before its loop.
Locals == [next : Nat, pps : Int, nev : 1 .. 16]
NoLocals == [next |-> 0, pps |-> 0, nev |-> 1]

CardTypeOK ==
    /\ type \in CardTypes
    /\ arm \in Int
    /\ cfg \in Settings
    /\ hw \in Hardware
    /\ isRebooting \in BOOLEAN
    /\ chan \in [Channels -> ChannelData]
    /\ \A c \in Channels : chan[c].ndata <= ChanLen[c]
    /\ rd \in Locals

-----------------------------------------------------------------------------
(* Configuration: vtr10012Config and vtrinit *)

EmptyChannels == [c \in Channels |-> [ndata |-> 0, of |-> "none"]]

CardInit ==
    /\ type \in CardTypes
    /\ arm = armDisarm
    /\ cfg = [clock |-> 0, trigger |-> triggerSoft, ind |-> 0,
              pts |-> IF type = "vtr10012_8" THEN 1024 ELSE 0,
              pps |-> 0, pte |-> 1]
    /\ hw = ResetHardware
    /\ isRebooting = FALSE
    /\ chan = EmptyChannels
    /\ rd = NoLocals

\* vtrReboot, the epicsAtExit hook.
Reboot ==
    /\ ~isRebooting
    /\ isRebooting' = TRUE
    /\ hw' = ResetHardware
    /\ UNCHANGED <<type, arm, cfg, chan, rd>>

-----------------------------------------------------------------------------
(* The digitizer (external): triggers arrive, gates end, interrupts pend. *)

CanRun(h) == h.armed /\ ~h.running /\ (h.prePost => h.count < h.events)

HwTrigger ==
    /\ cfg.trigger # triggerSoft
    /\ CanRun(hw)
    /\ hw' = [hw EXCEPT !.running = TRUE]
    /\ UNCHANGED <<type, arm, cfg, isRebooting, chan, rd>>

HwGateDone ==
    /\ hw.running
    /\ hw' = [hw EXCEPT !.running = FALSE,
                        !.count = MinOf(@ + 1, CountCap),
                        !.irq = hw.irqOn]
    /\ UNCHANGED <<type, arm, cfg, isRebooting, chan, rd>>

Disarmed(h) == [h EXCEPT !.armed = FALSE, !.running = FALSE]

-----------------------------------------------------------------------------
(* vtr10012IH.  The recorder stays armed until the events asked for have    *)
(* been counted; the 10012_8 has no counter and is done at once.            *)

SetIncomplete ==
    /\ type # "vtr10012_8"
    /\ \/ arm = armPostTrigger /\ hw.count < cfg.pte
       \/ arm = armPrePostTrigger /\ hw.count < numberEvents

Acknowledged == [hw EXCEPT !.irq = FALSE]

IgnoreInterrupt ==          \* returns without calling usrIH
    /\ hw.irq
    /\ \/ /\ isRebooting \/ arm = armDisarm
          /\ hw' = Disarmed(Acknowledged)
       \/ /\ ~isRebooting /\ arm # armDisarm /\ SetIncomplete
          /\ hw' = Acknowledged
    /\ UNCHANGED <<type, arm, cfg, isRebooting, chan, rd>>

\* Variants: the callback before the DISARM; usrIH called for every trigger.
CompleteInterrupt_NoDisarm ==
    /\ hw.irq
    /\ ~isRebooting /\ arm # armDisarm /\ ~SetIncomplete
    /\ hw' = Acknowledged
    /\ UNCHANGED <<type, arm, cfg, isRebooting, chan, rd>>
CompleteInterrupt_EveryTrigger ==
    /\ hw.irq
    /\ ~isRebooting /\ arm # armDisarm
    /\ hw' = IF SetIncomplete THEN Acknowledged ELSE Disarmed(Acknowledged)
    /\ UNCHANGED <<type, arm, cfg, isRebooting, chan, rd>>

CompleteInterrupt ==        \* disarms, then calls usrIH
    /\ hw.irq
    /\ ~isRebooting /\ arm # armDisarm /\ ~SetIncomplete
    /\ hw' = Disarmed(Acknowledged)
    /\ UNCHANGED <<type, arm, cfg, isRebooting, chan, rd>>

-----------------------------------------------------------------------------
(* The setting methods.  Each returns a status; "Suspend" stands for        *)
(* epicsThreadSuspendSelf.  STATUSR is read and the setting stored in one   *)
(* step: the caller holds the card's lock, so nobody arms in between.       *)

Refused(st) == st # "OK" /\ UNCHANGED cfg

vtrclock(v, st) ==
    \/ hw.armed /\ st = "Busy" /\ Refused(st)
    \/ ~hw.armed /\ isRebooting /\ st = "Suspend" /\ Refused(st)
    \/ /\ ~hw.armed /\ ~isRebooting
       /\ \/ v \notin 0 .. nclockChoices - 1 /\ st = "Error" /\ Refused(st)
          \/ /\ v \in 0 .. nclockChoices - 1 /\ st = "OK"
             /\ cfg' = [cfg EXCEPT !.clock = v]

\* The range test lets ntriggerChoices itself through.
vtrtrigger(v, st) ==
    \/ isRebooting /\ st = "Suspend" /\ Refused(st)
    \/ /\ ~isRebooting
       /\ \/ v \notin 0 .. ntriggerChoices /\ st = "Error" /\ Refused(st)
          \/ /\ v \in 0 .. ntriggerChoices
             /\ \/ hw.armed /\ st = "Busy" /\ Refused(st)
                \/ ~hw.armed /\ st = "OK" /\ cfg' = [cfg EXCEPT !.trigger = v]

\* Variant: no Busy check.
vtrmultiEvent_NoBusy(v, st) ==
    IF v \notin 0 .. NMultiEvent - 1 \/ (type = "vtr10012_8" /\ v # 0)
    THEN st = "Error" /\ Refused(st)
    ELSE st = "OK" /\ cfg' = [cfg EXCEPT !.ind = v]

vtrmultiEvent(v, st) ==
    IF v \notin 0 .. NMultiEvent - 1 \/ (type = "vtr10012_8" /\ v # 0)
    THEN st = "Error" /\ Refused(st)
    ELSE \/ hw.armed /\ st = "Busy" /\ Refused(st)
         \/ ~hw.armed /\ isRebooting /\ st = "Suspend" /\ Refused(st)
         \/ ~hw.armed /\ ~isRebooting /\ st = "OK" /\ cfg' = [cfg EXCEPT !.ind = v]

vtrnumberPTS(v, st) ==
    \/ hw.armed /\ st = "Busy" /\ Refused(st)
    \/ ~hw.armed /\ type = "vtr10012_8" /\ v > 1024 /\ st = "Error" /\ Refused(st)
    \/ /\ ~hw.armed /\ ~(type = "vtr10012_8" /\ v > 1024) /\ st = "OK"
       /\ cfg' = [cfg EXCEPT !.pts = v]

vtrnumberPPS(v, st) ==
    \/ hw.armed /\ st = "Busy" /\ Refused(st)
    \/ ~hw.armed /\ type = "vtr10012_8" /\ st = "Error" /\ Refused(st)
    \/ /\ ~hw.armed /\ type # "vtr10012_8" /\ st = "OK"
       /\ cfg' = [cfg EXCEPT !.pps = v]

\* Variant: no Busy check.
vtrnumberPTE_NoBusy(v, st) ==
    \/ type = "vtr10012_8" /\ st = "Error" /\ Refused(st)
    \/ type # "vtr10012_8" /\ st = "OK" /\ cfg' = [cfg EXCEPT !.pte = v]

vtrnumberPTE(v, st) ==
    \/ hw.armed /\ st = "Busy" /\ Refused(st)
    \/ ~hw.armed /\ type = "vtr10012_8" /\ st = "Error" /\ Refused(st)
    \/ /\ ~hw.armed /\ type # "vtr10012_8" /\ st = "OK"
       /\ cfg' = [cfg EXCEPT !.pte = v]

\* The card acts on a software trigger when its trigger source is "soft".
\* The mask of trigger 3 is whatever lies behind triggerMask[].
vtrsoftTrigger ==
    \/ /\ cfg.trigger \in {triggerSoft, ntriggerChoices} /\ CanRun(hw)
       /\ hw' = [hw EXCEPT !.running = TRUE]
    \/ ~(cfg.trigger = triggerSoft /\ CanRun(hw)) /\ UNCHANGED hw

-----------------------------------------------------------------------------
(* vtrarm, cut where an interrupt or the exit hook can come in between. *)

armSupported(v) == type = "vtr10012_8" => v \in {armDisarm, armPostTrigger}

ArmStore(v)  == armSupported(v) /\ arm' = v
ArmDisarm_OnlyIfIdle == hw' = IF hw.running THEN hw ELSE Disarmed(hw)     \* variant
ArmDisarm    == hw' = Disarmed(hw)
ArmResetIrq  == hw' = [hw EXCEPT !.irq = FALSE]

\* Location, gate, IRQ enable, CONTROL, CPTCC, TCOUNTER and MULPREPOST.
ArmSetup ==
    hw' = [hw EXCEPT !.gate = cfg.pts, !.irqOn = TRUE, !.count = 0,
                     !.prePost = (arm = armPrePostTrigger),
                     !.events = IF arm = armPrePostTrigger THEN numberEvents
                                ELSE IF arm = armPostTrigger THEN 1 ELSE @]

\* Writing ARMR starts the next cycle: what was read before is now old.
\* An arm value outside the choices is only printed.
ArmGo ==
    IF arm \in {armPostTrigger, armPrePostTrigger}
    THEN /\ hw' = [hw EXCEPT !.armed = TRUE]
         /\ chan' = [c \in Channels |->
                       IF chan[c].of \in {"last", "part"} THEN [chan[c] EXCEPT !.of = "old"]
                       ELSE chan[c]]
    ELSE UNCHANGED <<hw, chan>>

-----------------------------------------------------------------------------
(* vtrreadMemory, in pieces: the caller holds no lock, so any thread may    *)
(* change a setting or arm the card between two of them.                    *)

\* Returns at once, with what an earlier call left in the channels.
ReadNothing == arm = armDisarm \/ (type = "vtr10012_8" /\ arm # armPostTrigger)

ReadClear ==
    /\ ~ReadNothing
    /\ chan' = EmptyChannels

\* The second look at arm chooses readPostTrigger or readPrePostTrigger.
EventSize(nev) == ArraySize \div nev
SamplesPerEvent(nev) ==
    IF cfg.pps = 0 THEN EventSize(nev) ELSE MinOf(cfg.pps, EventSize(nev))
ReadChoose ==
    rd' = IF arm = armPrePostTrigger
          THEN [next |-> 0, pps |-> SamplesPerEvent(numberEvents), nev |-> numberEvents]
          ELSE NoLocals

\* readContiguous: copies up to the room each channel has.  A failed DMA
\* transfer ends the copy early, and nobody is told.
Transfers(n) == IF n <= 0 THEN {0} ELSE IF DmaMayFail THEN 0 .. n ELSE {n}
Origin(c, k, n) ==
    IF hw.armed THEN "live"
    ELSE IF chan[c].of \notin {"none", "last"} THEN chan[c].of
    ELSE IF k < n THEN "part" ELSE "last"
Appended_NoRoomCheck(c, k, n) ==                                \* variant
    [ndata |-> chan[c].ndata + k, of |-> Origin(c, k, n)]
\* k of n samples asked for have been transferred to channel c.
Appended(c, k, n) ==
    [ndata |-> MinOf(ChanLen[c], chan[c].ndata + k), of |-> Origin(c, k, n)]

NextTurn(turns) == IF rd.next + 1 = turns THEN NoLocals ELSE [rd EXCEPT !.next = @ + 1]

\* One turn of readPostTrigger's loop, which reads the settings every time.
PostSetSize_OneEvent == MinOf(cfg.pts, ArraySize)                \* variant
PostSetSize == MinOf(cfg.pts * cfg.pte, ArraySize)
ReadGroup ==
    /\ rd.next < NGroups
    /\ \E k \in Transfers(PostSetSize) :
         chan' = [c \in Channels |->
                   IF c \in {Low(rd.next), High(rd.next)} THEN Appended(c, k, PostSetSize)
                   ELSE chan[c]]
    /\ rd' = NextTurn(NGroups)

\* One turn of readPrePostTrigger's loop: an event of every channel.  The
\* trigger location is off its event only if the card was not recording
\* with this number of events, or is recording again; then it is skipped.
\* A failed transfer cuts every channel short by an amount of its own.
ReadEvent ==
    /\ rd.next < rd.nev
    /\ \/ \E k \in [Channels -> Transfers(rd.pps)] :
            chan' = [c \in Channels |-> Appended(c, k[c], rd.pps)]
       \/ (hw.armed \/ hw.events # rd.nev) /\ UNCHANGED chan
    /\ rd' = NextTurn(rd.nev)
=============================================================================
