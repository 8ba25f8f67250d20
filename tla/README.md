# GTR: a verification development

GTR (generic transient recorder) is EPICS device and driver support for VME
waveform digitizers. This directory holds TLA+ models of it, TLC
configurations that check them on small instances, and proofs, checked by
TLAPS, of what matters most. Line numbers refer to the sources under `src/`.

## 1. Inventory

| Component | State | Operations | Hard behaviour |
|---|---|---|---|
| VTR10012 driver, `gtrSup/vtr10012/drvVtr10012.c` | `vtrInfo` (arm, settings), the card's registers, `isRebooting` | setting methods, `vtrarm`, `vtrsoftTrigger`, `vtrreadMemory`, `vtr10012IH`, `vtrReboot` | `vtrarm` is a sequence of register writes that the interrupt and the exit hook can split; `vtrreadMemory` runs without a lock; the arithmetic of circular event memories |
| Generic layer, `gtrSup/gtr/drvGtr.c` | list of `gtrInfo`, a mutex and a user pointer per card | register, find, lock, unlock, dispatch to driver methods | missing methods answer `gtrStatusError`; registration of a card twice |
| Device support, `gtrSup/gtr/devGtr.c` | per card: `devGtr.arm`, the channel array, `hasWaveforms`, a CALLBACK and an I/O Intr scan list | record initialisation, `bo_write`, `longout_write`, `mbbo_write`, `waveform_read`, `interruptHandler`, `myCallback` | work handed from the interrupt to the callback task and from there to the scan; channel buffers shared with records |
| Records, `testGtrApp/Db/gtr.db` | the operator's settings and autoRestart | put, scan | autoRestart must follow the waveforms |
| EPICS DMA layer, `gtrSup/gtr/epicsDma.c` | callback, event, `waiting` | start, start and wait, completion | start failures, completion before the wait |
| Universe DMA, `drvUniverseDmaSup/` | one engine: a mutex released at interrupt level, `inProgress` | start, list set-up and start, `universeDMAisr` | several requesters of one engine |
| VTR1012 and VTR10010 drivers, `gtrSup/vtr1012`, `gtrSup/vtr10010` | `vtrInfo`, with a copy `csr1byte0` of a write-only register; the card's registers | the same method table | the copy is changed and written back by methods and by the interrupt handler; windows of a circular memory |
| VTR812 driver, `gtrSup/vtr812` | `vtrInfo`; registers, of which CSR2 holds arm bit, trigger and clock | the same method table | CSR2 is read, changed and written back while the handler may disarm; an event memory divided into rings; DMA that fails midway |
| SIS flash ADC driver, `gtrSup/sisfadc` | `sisInfo`; registers of set and clear bits; `useDma` | the same method table | setters that do not look whether the card is armed; five register writes to arm; event directory, LONG and SHORT channels, DMA that fails for good |
| idrom, basicIoOps, test IOC, displays | none | | not modelled: no behaviour of their own |

**How they interact.** A client (Channel Access, a scan task, the shell) puts a
value to a record; its write routine takes the card's lock, calls a driver
method and gives the lock back. `vtrarm` arms the card. Each trigger ends in a
VME interrupt; when `vtr10012IH` has counted enough of them it disarms the card
and calls `interruptHandler`, which asks the low-priority callback task for
`myCallback`. That reads the memory *without the lock* into the channels and
requests the I/O Intr scan, whose entry goes to the same ring buffer, so the
same task processes the waveform records and then, by PHAS, autoRestart, which
takes the lock and may arm the card again.

**What makes each component correct.**
Driver: the stored settings are those of the armed card; disarm sticks; a
complete set is noticed; no channel overflows. Device support: a set is read
once, whole, while the card is disarmed, and then posted; autoRestart repeats
the right mode after the waveforms; the lock comes back; the array
that the waveform records of a channel give the driver is allocated and long
enough, and each record shows the scan it is processed for. DMA: a caller that
waits is woken by the completion of its own transfer. Drivers: what
`readMemory` returns is the window of the memory the operator asked for.

## 2. Modules

| Module | Models |
|---|---|
| `Vtr10012` | the VTR10012 driver and card: state, and one operator per method or per uninterruptible piece of a method |
| `GtrCard` | one such card in the IOC: who calls those operators, in which order and under which lock; the callback task, its ring buffer, the scan, the operator, the exit hook |
| `GtrCycle` | what GTR promises its operator: arm, record, read, post, in this order, never overlapping |
| `Windows` | the arithmetic of all `readMemory`s: `getArrayLimits` and the two calls of `readContiguous` for an event, with a reference of what a ring holds |
| `Vtr1012` | the VTR1012 and, as `Model = "vtr10010"`, the VTR10010: driver, card, callers |
| `Vtr812` | the VTR812: driver, card, callers |
| `SisFadc` | the SIS3300/3301: driver, card, callers |
| `ChannelBuffers` | the waveform records of one channel, from `waveform_init_record` to `waveform_read`, and the arrays they own, lend, free and copy |
| `UniverseDma` | the Universe driver: the lock, `inProgress`, status, the engine; one operator per uninterruptible piece of `universeDmaStart`, and `universeDMAisr` |
| `EpicsDma` | the four transfer calls of `epicsDma.c` and its completion callback, on `UniverseDma`: who calls its operators when |
| `DmaService` | what a caller of an AndWait call is promised: the engine to itself, and its own transfer's result |
| `MCGtrCard`, `MCVtr1012`, `MCVtr812`, `MCSisFadc`, `MCChannelBuffers` | values for TLC |
| `GtrCardProofs`, `CycleProofs` | proofs about `GtrCard`, without and with an operator who waits |
| `WindowProofs`, `Vtr1012Proofs`, `Vtr812Proofs`, `SisFadcProofs`, `ChannelBuffersProofs`, `DmaProofs` | proofs about the modules they are named for |

**Correspondence: `GtrCard` and the DMA modules.** `type, arm, cfg` are the
fields of `vtrInfo`; `hw` is the part of the registers the driver's control flow
depends on; `chan` is the array of `gtrchannel`, a channel being how many
samples it holds and which cycle they come from; `rd` the locals of the readers;
`devArm`, `queue`, `lock` belong to devGtr, the callback task and drvGtr.
`pc[t]` says where thread `t` is: `lock`, `call`, `unlock` are the steps of the
write routines, `disarm`, `resetIrq`, `setup`, `go` the pieces of `vtrarm`
between which an interrupt may be taken, `read`, `choose`, `group`, `event`
those of `vtrreadMemory`, `waveforms`, `restart` the scan. Interrupts are atomic
to threads, as on the single processor the code runs on. `completed` is a
history variable: how much the card had recorded of the set it was armed for
(`Recorded`) when the completion was noticed.

In `EpicsDma`, `pc[u]` is where the task that uses handler `u` is: about to take
the lock (`lock`), about to start the engine (`go`), in `epicsEventWait`
(`wait`), or, after a start without wait, expecting its callback (`flying`).
`Kinds` says which calls tasks make. One task uses a handler, as the read
routines of a card run in the one callback task; all cards of GTR run in the
same low-priority task, so tasks contend only with other users of the bridge,
which the model lets every handler be. ToVme and FromVme differ in one bit of a
register, so `Begin` to `Wake` stand for both. `universeDmaCreate` and
`epicsDmaCreate` leave `status` and `waiting` as malloc found them: `Init` takes
any value. The lock is an `epicsMutex` that the interrupt handler unlocks, which
EPICS promises only to the owner of a mutex; the model takes the mutex as the
driver uses it, for a binary semaphore. The drivers' models know of a transfer
only whether it succeeds, which is what `DmaService` promises a caller.

**Correspondence: the other drivers.** `GtrCard` has shown what the lock, the
write routines and the ring buffer do; `Vtr1012`, `Vtr812` and `SisFadc`
therefore take the lock for granted (one method at a time, in `call`) and a
pending callback for a flag (`cb.pending`), and spend their state on what these
drivers have of their own. `drv`, `reg` and `hw` are the driver's structure, the
registers, and the digitizer behind them. A method that writes several registers
puts its writes into `call.todo`, in the order of the code; each is an action,
so an interrupt or the exit hook may come between any two. What a method reads
of a register before its first write it reads when it is entered: `vtrclock` of
the VTR812 computes the CSR2 value it is going to write from the CSR2 of then.
`cb` is the callback task in `readMemory`, one group (or channel, or event) at a
time, and `chan` the samples it copied: a sample is its event and its number
since the card was armed, or `Stale`, a word that was not recorded in this
cycle. `Word` and `SampleIn` say what a word of memory holds, so a scan can be
compared with the samples the settings ask for: `PostSamples` and
`EventSamples` of the VTR812, `Wanted` of the SIS ADC.

In `Vtr1012` a change of `csr1byte0` and its write to the card are two steps;
the value written is the one just stored or, as the field is not volatile and
the compiler may load it again, what an interrupt has made of it since. In
`Vtr812` a failing DMA transfer ends `readContiguous` after any full number of
transfers, in `SisFadc` DMA is given up: the words before come from the slots of
the DMA buffer (`Buffer`), the one it was at and those after it from the memory
(`WordAt`), in this event and in all that follow; for FTVL LONG the whole read
ends. In `Vtr10012` a transfer that fails ends an event's copy after any number
of whole transfers, and a channel then holds "part" of a set.

`ChannelBuffers` follows the arrays of one channel by name: `Bptr(r)` is the one
record support allocated for `r`, `Calloc(r)` the one its initialisation may
allocate; `live` says whether it is still allocated. Longs have 32 bits, as on
the boards the support was written for.

**Operator discipline.** Nothing in the code stops a put while a cycle is under
way. Properties that hold for any operator are stated without a condition; those
that need one begin with `OperatorWaits`, a constant or a field of the setup: the
operator leaves a cycle under way alone except for disarm and softTrigger. Two
runs show what happens otherwise.

Abstractions: samples are numbered, not valued; the two clock-table variants of
the VTR10012 are one; gate lengths have no time; registers that no decision reads
(IRQ vector, LEDs) are absent. A trigger value of 3 passes the range test of the
VTR10012 (line 344) and takes a mask from behind the table: the card may then act
on either kind of trigger. The digitizers, the callback ring and record locking
are external and modelled from the way the code relies on them.

## 3. Runs

| Run | Instance | What it shows |
|---|---|---|
| `operator` | 2 clients + callback task, 1 group with a channel larger and one smaller than the memory of 2 samples, one event or two, all arm modes, autoRestart, DMA transfers that may fail, under fairness; the operators wait | `NoReadWhileArmed`, `CompleteSetPosted`, `AtMostOneQueued`, `ImplementsCycle`: the unlocked read is safe under this discipline, every post is of the new set (the whole of it, or what a failing DMA leaves of it), and the card implements `GtrCycle`; `SetIsPosted`, `IsRestarted`, `EveryPutEnds`: the set reaches the records, autoRestart re-arms, the lock comes back |
| `any_time` | 1 client that puts at any moment, legal and illegal values, soft and external triggers, a ring buffer of one entry (so it overflows), the exit hook; no waveform records, since reading changes nothing these properties speak of | `DisarmSticks`, `SettingsMatchCard`, `NoLostCompletion`, `ArmAgrees` hold without any discipline |
| `dma_wait` | 3 handlers, AndWait calls whose start may be refused or fail and whose transfer may fail | `ResultHasOwner`, `WaitsForTransfer`, `EveryCallReturns`, and `ImplementsService` |
| `vtr1012` | four setups: two channels of a VTR1012 with post-trigger settings; a VTR10010 in all modes with a window that wraps and one that is the whole memory; each type with puts at any moment and the exit hook | `SettingsReachCard`, `DisarmSticks`, `ArmedAsSet`, `StaysDisarmedAfterExit` for any operator: the shared copy loses nothing; `NoReadWhileArmed`, `WholeSetPosted`, `SamplesInOrder` for one who waits |
| `vtr812` | five setups: two groups with 4 events in a memory of 16 words and channels of different room; DMA that fails; puts at any moment and the exit hook; a card without the multi pre/post option; an external trigger that may come between any two steps of `vtrarm` (`Triggered`) | `OnlyVtrarmArms`, `ArmedAsSet` for any operator; `WantedSamplesPosted`, `OrderedEvenIfDmaFails`, `NoReadWhileArmed`, and under fairness `AgreedIsPosted`: a card that stopped after as many events as its driver waits for, or more, is posted |
| `sis` | `Operated` (all modes, soft and external trigger, one or four events, DMA that fails), `Gates` (chained gates of more samples than the DMA buffer, transfers that fail, and the exit hook), `LongData` (FTVL LONG, two groups, settings the card cannot do among them), `AnyTime` (any put, the exit hook, refused values) | `DisarmSticks` for any operator; `NoReadWhileArmed`, `WantedSamplesPosted`, and under fairness `CycleIsPosted` |
| `buffers` | `Scaled`: a SHORT record and three of DOUBLE and FLOAT, two of them smaller; `AllLong`: three LONG records and a driver that honours LONG; `Mixed`: records that do not go together; every order of initialisation and of processing, two scans of 0 to 5 elements | `DriverWritesFit` for any records, `EachShowsTheScan` for those that go together (`Compatible`) |
| `vtr812_two` (violation) | a VTR812 with the multi pre/post option and the choice of two events, a soft trigger | the card stops after one event, the interrupt handler waits for the second, and the set is never posted |
| `stale` (violation) | 1 client who waits, 2 groups with channels of 4, 1, 0 and 5 elements for a memory of 4 samples | a disarm between interrupt and callback posts the previous set again |
| `race` (violation) | as `stale` without the discipline | a put during the unlocked read posts samples of a running recorder |
| `vtr1012_room` (violation) | a VTR1012 with a channel as large as the memory | a window that wraps is copied with one sample more than the array has room for |
| `sis_address` (violation) | a SIS ADC with one event, whose memory is larger than the mask of the stop address | the newest samples of a long event are left out |

**Bounds.** In `GtrCard`, `CountCap` = 2 caps the trigger counter; the largest
set needs two events, so a set that is incomplete, complete and over-complete
all occur. With two events there are more samples than the memory has words, so
its clamp occurs, and the channel lengths are less and more than a set. One
group is enough for the runs, since groups are read alike and one after the
other; `CompleteSetIsPosted` is proved for any number of them. Two clients are
enough for contention on the lock, since a third only waits in the same way.
Three handlers let one transfer run, one task wait for the lock and one come
late; nothing in the DMA modules is bounded.

In the other drivers `MaxPre` bounds how many samples a circular memory takes
before its trigger; with the gate they are enough for rings that are not full,
just full and overwritten, so a window wraps, begins at location 0 and covers
the whole ring. Numbers of samples and events are clipped by memories of 2 to 16
words, by events of 2 to 4, and by channels with less room than that; in one
group the two channels differ, so the skip of the smaller one occurs.
`DelaySpan` and `AddressSpan` keep the code's proportions: half the memory each.
The DMA buffer of the SIS ADC (`DmaCapacity`) has two words, so an event of
three or more words needs a second transfer, which may fail after the first one
has succeeded. `MaxScans` = 2 lets a record show the scan before. A record whose
values are never put is not there: each setup looks at one question. `any_time`
and the `AnyTime` setups have refused and out-of-range values.

**Deadlock** is not checked for the cards: one that waits for a trigger, with an
operator who does nothing, is idle for good, and the exit hook suspends threads.
It is checked in `buffers`, whose end is an explicit stutter.

**Fairness.** Weak fairness of the callback task, of driver calls under way, of
a pending interrupt and, in `GtrCard`, of the end of an open gate: none of them
waits for anyone. Strong fairness of taking the lock, because `epicsMutex`
queues its waiters. Nothing is assumed of clients, of triggers or of the exit
hook. For the DMA calls: strong fairness of taking the engine's lock, weak
fairness of every step of a call under way, of the interrupt and of the end of a
transfer; a bus that never ends a transfer hangs every caller, since the code
has no timeout. In `Vtr812` and `SisFadc`: weak fairness of the steps of a
method, of the interrupt handler and of the callback task, and nothing of the
digitizer.

## 4. Proofs

No theorem fixes a size. Each rests on the module's assumption, which only says
what the constants are, and where one says so on `OperatorWaits`.

**A VTR10012 card, any operator (`GtrCardProofs`).** `TypeCorrect`: types, and
that no channel gets more than it has room for; `DisarmHolds`, `SettingsHold`,
`CompletionNoticed`, `RestartAgrees`: the properties of the run `any_time`. These
speak of moments when the lock is free; they are not inductive, since a step of
`vtrarm` starts where they say nothing. `IInv` (`Invariant`) adds what holds
inside: whoever is in a driver call holds the lock (`LockInv`), so only one
thread is inside `vtrarm`; the card is disarmed from the DISARM write to the
ARMR write (`Arming`); before ARMR the registers match the settings
(`Prepared`), and they keep matching while it is armed (`Recording`), because
the setting methods answer Busy; and a count that has reached what is needed has
its interrupt pending (`Counted`), because the handler gives an interrupt up
only when it disarms or when the set is incomplete.

**The same, with an operator who waits (`CycleProofs`).** A cycle is a token: it
is held by a thread with a request to arm, by the card while it is armed or its
interrupt pends, by an entry of the ring buffer, or by the callback task, and
only by one of them (`Token`: `OneArmer`, `Waiting`, `Still`, `OneEntry`). A put
makes a token only if there is none, every other step hands it on.
`ReadsDisarmed` and `OneQueued` follow; the second needs no operator, since the
interrupt that would queue a second callback finds the card disarmed by the
first. `CycleImplemented` maps each step to one of `GtrCycle` or to a stutter;
`CycleInv` adds that the callback task arms only as autoRestart. It assumes
that the IOC does not exit meanwhile: an exit while autoRestart is giving its
lock back resets the card, which ends a cycle that the posting has not ended.

`CompleteSetIsPosted` adds the data (`SetInv`), also when DMA transfers fail: a
channel then shows a part of this set, never of another, and never more than it
has room for. While a cycle is under way
nobody is about to change a setting (`SettingsAlone`), so what the card was
armed for is what it records, and at the completion that is `completed`
(`Counting`); the callback task finds all channels empty, and fills group after
group or event after event up to just that amount (`Filling`). The full set is
needed in the middle: an append that clips at the room of a channel only adds up
if what is there is the clipped sum of the events before.

**The VTR1012 and VTR10010 (`Vtr1012Proofs`).** All that the run checks.
`TypeCorrect`; for any operator `DisarmHolds`, `SettingsReach`, `ArmedCardAsSet`,
`ExitKeepsDisarmed`; for one who waits `ReadsDisarmed`, `WholeSetIsPosted`,
`SamplesAreInOrder`. `Disarming` lists what may be left of a method after a
request to disarm, and where the copy is known not to hold the arm bit;
`Settings` says which of copy, register and stored value have the settings while
a method is under way: a method that arms never touches them (`OnlyArms`), one
that sets them is a change and a write, between which the handler changes no
setting. `ArmInv` follows the mode bits the same way: what would arm the card
would arm it in the mode the driver believes in (`Modes`), and from the start
step of `vtrarm` on the gate and the mode are loaded or nothing that is left can
arm the card (`AsSet`).

With a waiting operator (`WaitInv`) a method that arms is alone until its last
write (`Alone`, `LastArms`), and the callback task finds at most a request to
disarm beside it (`CbAlone`); each excepts the VTR1012 in pre/post-trigger mode,
of which section 5 speaks. `PostInv` counts: as many gates are recorded as
interrupts were taken or are pending (`Counted`), and the callback is asked for
after numberPTE of them (`Enough`). `ScanInv` says that what has been read stays
until the card records again (`ReadIsOver`), and that it is the newest samples
(`ReadInOrder`, from `LimitsAreNewest`).

**The VTR812 (`Vtr812Proofs`).** All that the run checks but liveness.
`TypeCorrect`; `OnlyArmArms`: only a request to arm arms the card, whatever
interrupt comes between read and write of CSR2; `ArmedCardAsSet`: an armed card
has its driver's gate, mode and trigger, and is divided into its driver's number
of events where `vtrarm` programs that number: in post-trigger mode and for the
choices of 4, 8 and 16 events. Of the choices 1 and 2 it says nothing (section
5). The first part of the module shows what every list of register writes has in
common (`Fit`: writes in order, and one mode for the whole list), the second
what holds with a part of the list to be done: `Started` is the point from which
driver and gate agree with the writes that are left. `ReadsDisarmed` for an
operator who waits, if a post-trigger set is read or the trigger is the soft
one: nothing else happens while the card is prepared (`Alone`), a soft trigger
cannot come between two writes (`OnlySoft`), and beside the callback task no
method is left that could arm (`ReadsAlone`).

`WantedIsShown` and `OrderedScans` say what a scan shows. First what the card
has recorded when the callback task comes (`Recorded`): a post-trigger set the
gate of the settings (`GateSet`) as often as interrupts were taken (`Counted`,
`Enough`), a divided memory as many events as the register MultiPrePost says
(`EventsCounted`, `Finished`; what the driver says is `cb.events`, and the two
need not agree, section 5). Then how far the task has got (`ReadInv`): the
groups done show the first samples (`PostRead`), or every group the events done
(`RingRead`), which `Shows` gives sample by sample. That event e takes the
places from e * pps on is where the order of the loops matters, events outside
and groups inside, and where the room may end in the middle of an event. One
event is read in the two runs of its ring (`EventRuns`) by one loop for both
channels, where the one with less room skips what the other has more:
`AddedWhole` shows that nothing is missing if no transfer fails, `AddedInOrder`
that whatever is missing, the rest is in order and of this event. The latter is
all that `OrderedScans` needs.

**The SIS ADC (`SisFadcProofs`).** All that the run checks but liveness.
`TypeCorrect` and `DisarmHolds` for any operator; the invariant `Progress` of
the latter says for each of the rests of the five steps of `sisarm` what is
known. `ReadsDisarmed` for an operator who waits: `Calm` says who may be armed,
pending or asked to arm while the callback task is at work. `WantedIsShown`: a
scan shows exactly the samples that were asked for, from both kinds of trigger,
LONG or SHORT, with any failure of DMA, for all sizes. That DMA does not matter
is a lemma (`EventIsRead`, from `WordAtIs`: the slot of a word in the buffer is
that word, or it is read from the memory), so the rest speaks of what is read by
itself (`PostRun`, `PrePostRuns`). The memory holds as much as the registers ask
for (`Totals`); from the request to arm until the posting the registers are
those the driver's settings stand for (`Programmed`), so an event has the size
and the number of samples that `sisreadMemory` computes from the settings; a
cycle that is over has all its events (`Finished`); and the scan so far is what
should be shown of the groups and events that are done (`Filled`, `SoFar`). One
event more adds just its share (`EventAdded`), from the directory (`PostAdds`,
`LongAdds`) or out of a ring in two runs (`PrePostAdds`). `Sound` names the
settings for which this is claimed, which are those the card can do; section 5
has the others.

**Channel arrays (`ChannelBuffersProofs`).** All that the run checks.
`BuffersTypeCorrect` and `DriverArrayFits`, for any records: the channel's array
is allocated, of the type and size the channel says (`Lent`), and record arrays
are not freed before they are lent (`OwnArrays`). `RecordsShowTheScan`, for
records that go together: none but a SHORT or LONG record lends its array, no
record's own array is freed (`OwnLive`), and the array the driver fills has what
each record reads (`Expected`, `Loaded`).

**Windows (`WindowProofs`).** `RunsStayInEvent`, `RunsAreNewest`,
`RingRunsAreNewest` (the same for a ring that is one event of a memory, which is
what the scans of the SIS ADC and the VTR812 need), `LimitsAreNewest`,
`PostLimitsAreNewest`, and `OneTooManyIffWraps`, which is the flaw of the run
`vtr1012_room` as an equivalence: for every size, location and number of samples.

**DMA (`DmaProofs`).** `ResultOwned`, for every mix of calls;
`DmaTypeCorrect`, `CallWaits`, `CallsImplementService` for tasks that make only
AndWait calls (`Kinds \subseteq {"wait"}`). `ResultHasOwner` says nothing of the
time between the lock and the start, so `Ownership` adds that whoever is there
has the lock and `inProgress` to itself and finds the engine idle
(`StarterOwns`). `Waits` adds the event: it is empty and announced until the
interrupt of the call's own transfer (`Announced`, `Asleep`), full after it
(`Served`), and emptied by the call that returns (`NotLeftFull`). Under `Waits`
each step is one of the service or changes neither calls nor results
(`ServiceStep`).

**Only model-checked:** liveness under fairness (`SetIsPosted`, `IsRestarted`,
`EveryPutEnds`, `EveryCallReturns`, `AgreedIsPosted`, `CycleIsPosted`), which is
out of the prover's reach. Every invariant and every action property of a passing
run is a theorem. The five runs that show a violation have nothing to prove.

## 5. Where code and documents differ

Five runs show a disagreement, each with the lines it is about in
`PROJECT.json`: `stale`, `race`, `vtr812_two`, `vtr1012_room`, `sis_address`.
Modelling met others, which no run checks; the properties are stated so that
they hold beside them, and say so.

- `drvVtr1012.c:371`, `drvVtr812.c:438`: the two writes that arm for
  pre/post-trigger both arm the card. An interrupt that disarms it between them
  is undone by the second, and the card records while it is read, although
  `gtr.html:112` says that the driver ensures it does not. Only an external
  trigger is fast enough to come there; the setup `Triggered` of `vtr812` has one.
- `drvVtr812.c:430`: MultiPrePost is written only for four events or more. With
  the choice of two the card keeps the division it has: after power-up, or after
  a post-trigger arm, a single event. It then stops after that event,
  `vtr812IH` waits for the second, and the set is lost (run `vtr812_two`). With
  one or two events after an arm for four or more, the scan looks for other
  events than the card has recorded. `AgreedIsPosted` and `WantedSamplesPosted`
  ask that card and driver agree, and `ArmedAsSet` leaves these choices out.
- `drvVtr1012.c:440`: a channel that wants no samples (numberPPS 0) keeps those
  of an earlier scan, and they are posted again; `drvSisfadc.c:607`: so do the
  groups after one whose LONG read ended early.
- `drvSisfadc.c:502`, `:643`: for numberPTS of 65536 and more STOPDELAY is not
  written, yet readMemory takes the number of samples from it; and it is not
  compared with the size of an event, so a group with several events and a large
  numberPTS is read into the next event's memory.
- `drvSisfadc.c:509`: the pre/post-trigger arm does not write STOPDELAY, so
  numberPTS is that of the last post-trigger arm.
- `devGtr.c:579`: whether the old array may be freed is asked of the record that
  comes second; the first record's own `bptr` may be freed. Checked are the
  records for which it matters to nobody.
- `devGtr.c:630`: a channel that has records of FTVL LONG and SHORT is filled as
  the first of them asks for, and copied as the second does.
- `drvVtr1012.c:460`: `getLimits` of the VTR1012 takes pointers to 16 bits,
  unlike the method table's other members.
- `drvVtr10012.c:344`: a trigger value of `ntriggerChoices` is accepted.
- `epicsDma.c:177`: a start that fails leaves `waiting` set; the callback of a
  later start without wait then signals an event that nobody waits for, and the
  AndWait call after it returns before its transfer has ended. Callers that make
  AndWait calls only, as the drivers here, never meet it.

## 6. Not modelled

The registry of drvGtr (a list filled before iocInit), the look-up of records'
parm strings and link fields, configuration commands beyond the state they
leave, name tables and reports; `readRawMemory`, which nothing calls, and the
linked-list transfers of the Universe, which nothing calls either; the
identification ROM, a pure read; register access macros, displays and build
files. Several cards of one driver share only the exit hook's flag, so every
model has one card. Values of samples (averaging, scaling to volts) do not enter
any decision.

What would extend this development: a composition of two cards of different
drivers on the one callback task and DMA engine.
