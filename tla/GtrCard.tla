------------------------------ MODULE GtrCard ------------------------------
(***************************************************************************)
(* One card as the IOC sees it: the VTR10012 driver under the per-card lock *)
(* of drvGtr.c, the device support of devGtr.c, the records of gtr.db and   *)
(* the EPICS services they use.                                             *)
(*                                                                          *)
(* Three kinds of actor run at any interleaving:                            *)
(*   - clients (Channel Access tasks, scan tasks, the shell) put values     *)
(*     into the mbbo, longout and bo records;                               *)
(*   - the low-priority callback task, Cb, runs myCallback and the I/O Intr *)
(*     scan, which are queued to the same ring buffer: no record of gtr.db  *)
(*     sets PRIO, so all are scanned at the low priority;                   *)
(*   - the card and its interrupt, which is atomic to the tasks.            *)
(***************************************************************************)
EXTENDS Vtr10012, Sequences

CONSTANTS
    Clients,        \* tasks that put to records
    Cb,             \* the low-priority callback task
    NoOne,          \* the lock is free
    HasWaveforms,   \* devGtrChannels.hasWaveforms
    QueueSize,      \* entries of the callback ring buffer
    Values,         \* the values clients put to every record
    OperatorWaits,  \* TRUE: clients leave a cycle under way alone
    MayReboot       \* TRUE: the exit hook may run

Threads == Clients \cup {Cb}

SettingRecords == {"clock", "trigger", "multiEvent", "preAverage",
                   "numberPTS", "numberPPS", "numberPTE"}
Records == SettingRecords \cup {"arm", "softTrigger", "autoRestart"}

ASSUME GtrAssumption ==
    /\ Cb \notin Clients
    /\ NoOne \notin Threads
    /\ HasWaveforms \in BOOLEAN
    /\ QueueSize \in Nat \ {0}
    /\ Values \in [Records -> SUBSET Int]
    /\ OperatorWaits \in BOOLEAN
    /\ MayReboot \in BOOLEAN

VARIABLES
    devArm,         \* devGtr.arm: the arm choice autoRestart repeats
    autoRestart,    \* VAL of the autoRestart record
    lock,           \* gtrInfo.lock: the thread that holds it, or NoOne
    pc,             \* what every thread does next
    req,            \* the record a thread processes, and its value
    status,         \* what the driver method of a thread returned
    queue,          \* the callback ring buffer: "read" and "scan"
    completed       \* history: what was recorded on completion, until posted

devVars == <<devArm, autoRestart, lock, pc, req, status, queue, completed>>
vars == <<cardVars, devVars>>

\* Between lock and unlock of bo_write, longout_write and mbbo_write.
ArmSteps == {"disarm", "resetIrq", "setup", "go"}
Locked   == ArmSteps \cup {"call", "unlock", "suspended"}
\* In myCallback.
Reading  == {"read", "choose", "group", "event"}
Scanning == {"waveforms", "restart"}
CbOnly   == Reading \cup Scanning \cup {"scanRequest"}
PcValues == {"idle", "lock"} \cup Locked \cup CbOnly

Status == {"OK", "Busy", "Error", "Suspend"}
Requests == [rec : Records, val : Int]
NoRequest == [rec |-> "arm", val |-> armDisarm]

Init ==
    /\ CardInit
    /\ devArm = armDisarm
    /\ autoRestart = 0
    /\ lock = NoOne
    /\ pc = [t \in Threads |-> "idle"]
    /\ req = [t \in Threads |-> NoRequest]
    /\ status = [t \in Threads |-> "OK"]
    /\ queue = <<>>
    /\ completed = 0

Goto(t, where) == pc' = [pc EXCEPT ![t] = where]

-----------------------------------------------------------------------------
(* Clients put to records *)

\* No acquisition cycle is under way and no data are on their way.
Quiet ==
    /\ ~hw.armed /\ ~hw.irq
    /\ queue = <<>>
    /\ \A t \in Threads : pc[t] = "idle"

\* A waiting operator may always trigger and disarm, nothing else.
Allowed(r, v) ==
    \/ ~OperatorWaits
    \/ Quiet
    \/ r = "softTrigger"
    \/ r = "arm" /\ v = armDisarm

\* A record is processed by one thread at a time (dbScanLock).
RecordFree(r) == \A t \in Threads : pc[t] \in {"lock"} \cup Locked => req[t].rec # r

Put(t, r, v) ==
    /\ t \in Clients
    /\ pc[t] = "idle"
    /\ Allowed(r, v) /\ RecordFree(r)
    /\ req' = [req EXCEPT ![t] = [rec |-> r, val |-> v]]
    /\ autoRestart' = IF r = "autoRestart" THEN v ELSE autoRestart
    /\ Goto(t, "lock")
    /\ UNCHANGED <<cardVars, devArm, lock, status, queue, completed>>

-----------------------------------------------------------------------------
(* bo_write, longout_write, mbbo_write: lock, call the driver, unlock *)

Lock(t) ==
    /\ pc[t] = "lock"
    /\ lock = NoOne
    /\ lock' = t
    /\ Goto(t, "call")
    /\ UNCHANGED <<cardVars, devArm, autoRestart, req, status, queue, completed>>

Calling(t, recs) == pc[t] = "call" /\ req[t].rec \in recs

\* The dispatch of drvGtr.c: the VTR10012 has no preAverage method, which
\* the generic layer answers with gtrStatusError.
Method(r, v, st) ==
    \/ r = "clock"      /\ vtrclock(v, st)
    \/ r = "trigger"    /\ vtrtrigger(v, st)
    \/ r = "multiEvent" /\ vtrmultiEvent(v, st)
    \/ r = "preAverage" /\ st = "Error" /\ UNCHANGED cfg
    \/ r = "numberPTS"  /\ vtrnumberPTS(v, st)
    \/ r = "numberPPS"  /\ vtrnumberPPS(v, st)
    \/ r = "numberPTE"  /\ vtrnumberPTE(v, st)

Set(t) ==
    /\ Calling(t, SettingRecords)
    /\ \E st \in Status :
         /\ Method(req[t].rec, req[t].val, st)
         /\ status' = [status EXCEPT ![t] = st]
         /\ Goto(t, IF st = "Suspend" THEN "suspended" ELSE "unlock")
    /\ UNCHANGED <<type, arm, hw, isRebooting, chan, rd,
                   devArm, autoRestart, lock, req, queue, completed>>

SoftTrigger(t) ==
    /\ Calling(t, {"softTrigger"})
    /\ vtrsoftTrigger
    /\ Goto(t, "unlock")
    /\ UNCHANGED <<type, arm, cfg, isRebooting, chan, rd,
                   devArm, autoRestart, lock, req, status, queue, completed>>

\* The first piece of vtrarm(v).
StartArm(t, v) ==
    \/ /\ ArmStore(v)
       /\ Goto(t, "disarm")
       /\ UNCHANGED status
    \/ /\ ~armSupported(v)
       /\ status' = [status EXCEPT ![t] = "Error"]
       /\ Goto(t, "unlock")
       /\ UNCHANGED arm

\* mbbo_write keeps the choice for autoRestart before the driver sees it.
Arm(t) ==
    /\ Calling(t, {"arm"})
    /\ devArm' = req[t].val
    /\ StartArm(t, req[t].val)
    /\ UNCHANGED <<type, cfg, hw, isRebooting, chan, rd,
                   autoRestart, lock, req, queue, completed>>

\* Variants: re-arm in a fixed mode; return without the unlock.
Restart_FixedMode(t) ==
    /\ Calling(t, {"autoRestart"})
    /\ \/ req[t].val = 0 /\ Goto(t, "unlock") /\ UNCHANGED <<arm, status>>
       \/ req[t].val # 0 /\ StartArm(t, armPostTrigger)
    /\ UNCHANGED <<type, cfg, hw, isRebooting, chan, rd,
                   devArm, autoRestart, lock, req, queue, completed>>
Restart_NoUnlock(t) ==
    /\ Calling(t, {"autoRestart"})
    /\ \/ req[t].val = 0 /\ Goto(t, "idle") /\ UNCHANGED <<arm, status>>
       \/ req[t].val # 0 /\ StartArm(t, devArm)
    /\ UNCHANGED <<type, cfg, hw, isRebooting, chan, rd,
                   devArm, autoRestart, lock, req, queue, completed>>

Restart(t) ==
    /\ Calling(t, {"autoRestart"})
    /\ \/ req[t].val = 0 /\ Goto(t, "unlock") /\ UNCHANGED <<arm, status>>
       \/ req[t].val # 0 /\ StartArm(t, devArm)
    /\ UNCHANGED <<type, cfg, hw, isRebooting, chan, rd,
                   devArm, autoRestart, lock, req, queue, completed>>

\* The later pieces of vtrarm.
WriteDisarm(t) ==
    /\ pc[t] = "disarm"
    /\ ArmDisarm
    /\ Goto(t, "resetIrq")
    /\ UNCHANGED <<type, arm, cfg, isRebooting, chan, rd,
                   devArm, autoRestart, lock, req, status, queue, completed>>

WriteResetIrq(t) ==
    /\ pc[t] = "resetIrq"
    /\ ArmResetIrq
    /\ Goto(t, IF arm = armDisarm THEN "unlock" ELSE "setup")
    /\ UNCHANGED <<type, arm, cfg, isRebooting, chan, rd,
                   devArm, autoRestart, lock, req, status, queue, completed>>

WriteSetup(t) ==
    /\ pc[t] = "setup"
    /\ ArmSetup
    /\ Goto(t, "go")
    /\ UNCHANGED <<type, arm, cfg, isRebooting, chan, rd,
                   devArm, autoRestart, lock, req, status, queue, completed>>

WriteArm(t) ==
    /\ pc[t] = "go"
    /\ ArmGo
    /\ Goto(t, "unlock")
    /\ UNCHANGED <<type, arm, cfg, isRebooting, rd,
                   devArm, autoRestart, lock, req, status, queue, completed>>

Unlock(t) ==
    /\ pc[t] = "unlock"
    /\ lock' = NoOne
    /\ Goto(t, "idle")
    /\ req' = [req EXCEPT ![t] = NoRequest]
    /\ status' = [status EXCEPT ![t] = "OK"]
    /\ UNCHANGED <<cardVars, devArm, autoRestart, queue, completed>>

-----------------------------------------------------------------------------
(* The interrupt: vtr10012IH and, through usrIH, interruptHandler *)

\* callbackRequest (EPICS): a full ring buffer drops the entry.
Queued(entry) == IF Len(queue) < QueueSize THEN Append(queue, entry) ELSE queue

InterruptIgnored == IgnoreInterrupt /\ UNCHANGED devVars

\* How much of the set it was armed for the card has recorded: nothing, if
\* the settings ask for less than one sample.
Samples(n) == IF n > 0 THEN n ELSE 0
Recorded ==
    Samples(IF hw.prePost THEN MinOf(hw.count, hw.events) * SamplesPerEvent(hw.events)
            ELSE MinOf(hw.gate * MinOf(hw.count, cfg.pte), ArraySize))

InterruptComplete ==
    /\ CompleteInterrupt
    /\ queue' = Queued("read")
    /\ completed' = Recorded
    /\ UNCHANGED <<devArm, autoRestart, lock, pc, req, status>>

Interrupt == InterruptIgnored \/ InterruptComplete

-----------------------------------------------------------------------------
(* The callback task: myCallback *)

Dequeue(entry, where) ==
    /\ pc[Cb] = "idle"
    /\ queue # <<>> /\ Head(queue) = entry
    /\ queue' = Tail(queue)
    /\ Goto(Cb, where)
    /\ UNCHANGED <<cardVars, devArm, autoRestart, lock, req, status, completed>>

MyCallback == Dequeue("read", IF HasWaveforms THEN "read" ELSE "scanRequest")

\* A step of vtrreadMemory that leaves everything but chan and rd alone.
ReadStep(from, to) ==
    /\ pc[Cb] = from
    /\ Goto(Cb, to)
    /\ UNCHANGED <<type, arm, cfg, hw, isRebooting,
                   devArm, autoRestart, lock, req, status, queue, completed>>

ReadNone_NoScan ==                                               \* variant
    ReadNothing /\ ReadStep("read", "idle") /\ UNCHANGED <<chan, rd>>
ReadNone  == ReadNothing /\ ReadStep("read", "scanRequest") /\ UNCHANGED <<chan, rd>>
ReadStart == ReadClear /\ ReadStep("read", "choose") /\ UNCHANGED rd
Choose ==
    /\ ReadStep("choose", IF arm = armPostTrigger THEN "group"
                          ELSE IF arm = armPrePostTrigger THEN "event"
                          ELSE "scanRequest")
    /\ ReadChoose
    /\ UNCHANGED chan
Group == ReadGroup /\ ReadStep("group", IF rd.next + 1 = NGroups THEN "scanRequest" ELSE "group")
Event == ReadEvent /\ ReadStep("event", IF rd.next + 1 = rd.nev THEN "scanRequest" ELSE "event")

ReadMemory == ReadNone \/ ReadStart \/ Choose \/ Group \/ Event

\* scanIoRequest, whatever readMemory returned.
ScanIoRequest ==
    /\ pc[Cb] = "scanRequest"
    /\ queue' = Queued("scan")
    /\ Goto(Cb, "idle")
    /\ UNCHANGED <<cardVars, devArm, autoRestart, lock, req, status, completed>>

-----------------------------------------------------------------------------
(* The callback task: the I/O Intr scan list, in the order of PHAS *)

Scan == Dequeue("scan", "waveforms")

\* waveform_read of every waveform record takes what chan holds.
Waveforms ==
    /\ pc[Cb] = "waveforms"
    /\ Goto(Cb, "restart")
    /\ completed' = 0
    /\ UNCHANGED <<cardVars, devArm, autoRestart, lock, req, status, queue>>

\* autoRestart has PHAS 1: it is processed after the waveforms.
ScanRestart_StaleVal ==                                          \* variant
    /\ pc[Cb] = "restart"
    /\ RecordFree("autoRestart")
    /\ req' = [req EXCEPT ![Cb] = [rec |-> "autoRestart", val |-> 0]]
    /\ Goto(Cb, "lock")
    /\ UNCHANGED <<cardVars, devArm, autoRestart, lock, status, queue, completed>>
ScanRestart ==
    /\ pc[Cb] = "restart"
    /\ RecordFree("autoRestart")
    /\ req' = [req EXCEPT ![Cb] = [rec |-> "autoRestart", val |-> autoRestart]]
    /\ Goto(Cb, "lock")
    /\ UNCHANGED <<cardVars, devArm, autoRestart, lock, status, queue, completed>>
-----------------------------------------------------------------------------
(* The specification *)

Exit == MayReboot /\ Reboot /\ UNCHANGED devVars
Card == (HwTrigger \/ HwGateDone) /\ UNCHANGED devVars

Write(t) == \/ Set(t) \/ SoftTrigger(t) \/ Arm(t) \/ Restart(t)
            \/ WriteDisarm(t) \/ WriteResetIrq(t) \/ WriteSetup(t) \/ WriteArm(t)
            \/ Unlock(t)
Callback == MyCallback \/ ReadMemory \/ ScanIoRequest \/ Scan \/ Waveforms \/ ScanRestart

Next ==
    \/ \E t \in Clients, r \in Records : \E v \in Values[r] : Put(t, r, v)
    \/ \E t \in Threads : Lock(t) \/ Write(t)
    \/ Callback
    \/ Interrupt
    \/ Card
    \/ Exit

Spec == Init /\ [][Next]_vars

\* A task that can run does run, an interrupt that pends is taken, and a
\* gate ends.  epicsMutex queues its waiters, so a task that waits gets the
\* lock if it comes free again and again.  Nobody has to put a value, no
\* trigger has to come.
Fairness ==
    /\ \A t \in Threads : SF_vars(Lock(t)) /\ WF_vars(Write(t))
    /\ WF_vars(Callback)
    /\ WF_vars(Interrupt)
    /\ WF_vars(HwGateDone /\ UNCHANGED devVars)

FairSpec == Spec /\ Fairness

-----------------------------------------------------------------------------
(* What holds whatever the clients do *)

DevTypeOK ==
    /\ devArm \in Int /\ autoRestart \in Int
    /\ lock \in Threads \cup {NoOne}
    /\ pc \in [Threads -> PcValues]
    /\ req \in [Threads -> Requests]
    /\ status \in [Threads -> Status]
    /\ queue \in Seq({"read", "scan"}) /\ Len(queue) <= QueueSize
    /\ completed \in Nat

\* Every variable keeps its type, and readMemory never puts more elements
\* into a channel than it has room for.
TypeOK == CardTypeOK /\ DevTypeOK

\* Once a request to disarm has given the lock back, the recorder is disarmed
\* and stays so: vtrarm stores arm before it writes DISARM, and no interrupt,
\* late autoRestart or other writer arms it behind the operator's back.
DisarmSticks == lock = NoOne /\ arm = armDisarm => ~hw.armed

\* A recorder that is armed records with the settings its driver holds, in
\* the mode that was armed: the setting methods answer Busy, so what the
\* records show is what the card does.  The exit hook resets the card.
SettingsMatchCard ==
    hw.armed /\ lock = NoOne /\ ~isRebooting =>
        /\ hw.gate = cfg.pts
        /\ arm \in {armPostTrigger, armPrePostTrigger}
        /\ hw.prePost = (arm = armPrePostTrigger)
        /\ hw.prePost => hw.events = numberEvents

\* No complete set goes unnoticed: a recorder that has counted the events it
\* was armed for has its interrupt pending, or is about to be disarmed.
\* Nothing else would ever stop it.
Needed == IF type = "vtr10012_8" \/ arm \notin {armPostTrigger, armPrePostTrigger} THEN 1
          ELSE IF arm = armPostTrigger THEN cfg.pte ELSE numberEvents
NoLostCompletion ==
    hw.armed /\ ~isRebooting /\ hw.count >= Needed /\ hw.count > 0 =>
        hw.irq \/ \E t \in Threads : pc[t] = "disarm"

\* Device support and the driver agree on what to re-arm: with the lock free
\* devGtr.arm is the driver's arm, unless the card refused the choice.
ArmAgrees == lock = NoOne => arm = devArm \/ ~armSupported(devArm)

-----------------------------------------------------------------------------
(* What holds if the operator waits for a cycle under way *)

\* The data are read and posted while the recorder is disarmed, though
\* myCallback takes no lock: the interrupt disarms before it requests the
\* callback, and autoRestart re-arms only after the waveforms.
NoReadWhileArmed == pc[Cb] \in Reading \cup {"waveforms"} => ~hw.armed

\* Every waveform that is posted shows the set whose completion caused the
\* scan, all of it, as much as the channel has room for, unless the card was
\* disarmed on the way.  A failed DMA transfer makes it a part of that set, and
\* of no other.
CompleteSetPosted ==
    pc[Cb] = "waveforms" /\ arm # armDisarm =>
        \A c \in Channels :
            LET room == MinOf(ChanLen[c], completed) IN
            \/ chan[c].of = "last" /\ chan[c].ndata = room
            \/ DmaMayFail /\ chan[c].of = "part" /\ chan[c].ndata <= room

\* The ring buffer holds at most one entry of this card, so callbackRequest
\* never drops one: a set completes only after the last one has been posted.
AtMostOneQueued == Len(queue) <= 1

\* The card and its records go through the cycle of GtrCycle.
ReadPending == \E i \in 1 .. Len(queue) : queue[i] = "read"
Phase ==
    IF hw.armed THEN "acquiring"
    ELSE IF ReadPending \/ pc[Cb] \in Reading \cup {"scanRequest"} THEN "reading"
    ELSE IF queue # <<>> \/ pc[Cb] # "idle" THEN "posting"
    ELSE "idle"
Show ==
    IF \A c \in Channels : chan[c].of = "none" THEN "nothing"
    ELSE IF \A c \in Channels : chan[c].of \in {"last", "part"} THEN "set"
    ELSE "other"
Cycle == INSTANCE GtrCycle WITH phase <- Phase, show <- Show
ImplementsCycle == Cycle!CycleSpec

\* A completed set is read and the records are processed.
SetIsPosted == ReadPending ~> pc[Cb] = "waveforms"

\* With autoRestart on, the recorder is armed again after every set, unless
\* the operator disarms it or turns autoRestart off.
WillRestart == autoRestart = 1 /\ devArm # armDisarm /\ armSupported(devArm)
IsRestarted == pc[Cb] = "waveforms" /\ WillRestart ~> hw.armed \/ ~WillRestart

\* Whoever puts a value to a record gets the card's lock, and gives it back.
EveryPutEnds == \A t \in Threads : pc[t] = "lock" ~> pc[t] = "idle"

-----------------------------------------------------------------------------
(* What the documentation says and the code does not do *)

\* gtr.html, readMemory: "Read the data collected during the last data
\* acquisition cycle."  A scan never shows the set of an earlier cycle again.
NoOldDataPosted == pc[Cb] = "waveforms" => \A c \in Channels : chan[c].of # "old"

\* gtr.html, waveform: "processed after a complete set of data has been
\* collected".  A scan never shows samples read while the card recorded.
NoLiveDataPosted == pc[Cb] = "waveforms" => \A c \in Channels : chan[c].of # "live"
=============================================================================
