----------------------------- MODULE UniverseDma -----------------------------
(***************************************************************************)
(* The driver of the DMA engine of the Universe bridge                      *)
(* (drvUniverseDmaSup/drvUniverseDma.c): one engine, a lock that a start    *)
(* takes and the interrupt gives back, and the request in progress.         *)
(*                                                                          *)
(* The driver is passive: EpicsDma says which task calls it when.  The lock *)
(* is modelled as the driver uses it, as a semaphore that the interrupt     *)
(* handler may give; the EPICS mutex it is made of only promises that to    *)
(* its owner.                                                               *)
(***************************************************************************)
CONSTANTS
    Ids,            \* DMA_IDs
    NoId

ASSUME DmaAssumption == NoId \notin Ids

VARIABLES
    lock,           \* the mutex "lock": TRUE while it is taken
    inProgress,     \* the request the interrupt belongs to
    status,         \* dmaRequest.status
    engine          \* the engine: what it does, and for which request

universeVars == <<lock, inProgress, status, engine>>

DmaStatus == {"OK", "EIO", "EINVAL"}
EngineStates == {"idle", "moving", "done", "failed"}
NoTransfer == [state |-> "idle", of |-> NoId]

UniverseTypeOK ==
    /\ lock \in BOOLEAN
    /\ inProgress \in Ids \cup {NoId}
    /\ status \in [Ids -> DmaStatus]
    /\ engine \in [state : EngineStates, of : Ids \cup {NoId}]

\* universeDmaCreate leaves status as malloc found it.
UniverseInit ==
    /\ lock = FALSE
    /\ inProgress = NoId
    /\ status \in [Ids -> DmaStatus]
    /\ engine = NoTransfer

\* universeDmaStart, in the pieces between which tasks and the interrupt run:
\* what it does before the lock, taking the lock, and the start of the
\* transfer, which vmeUniverseStartDMA may refuse.
StartReset(u) == status' = [status EXCEPT ![u] = "EINVAL"]

StartLock_Early(u) ==                       \* variant: inProgress before lock
    /\ ~lock => lock' = TRUE
    /\ lock => UNCHANGED lock
    /\ inProgress' = u
    /\ UNCHANGED <<status, engine>>
StartLock(u) ==
    /\ ~lock /\ lock' = TRUE
    /\ inProgress' = u
    /\ UNCHANGED <<status, engine>>

\* Variant: the lock is given back when the transfer is under way.
StartGo_Unlocks(u) ==
    /\ engine.state = "idle"
    /\ engine' = [state |-> "moving", of |-> u]
    /\ lock' = FALSE
    /\ UNCHANGED <<inProgress, status>>
StartGo(u) ==
    /\ engine.state = "idle"
    /\ engine' = [state |-> "moving", of |-> u]
    /\ UNCHANGED <<lock, inProgress, status>>

StartFails_KeepsLock(u) == UNCHANGED universeVars                \* variant
StartFails(u) == lock' = FALSE /\ UNCHANGED <<inProgress, status, engine>>

\* The engine (external) ends a transfer, well or not, and interrupts.
EngineEnds ==
    /\ engine.state = "moving"
    /\ \E s \in {"done", "failed"} : engine' = [engine EXCEPT !.state = s]
    /\ UNCHANGED <<lock, inProgress, status>>

\* universeDMAisr, but for the callback.
Interrupting == engine.state \in {"done", "failed"}
Isr ==
    /\ Interrupting
    /\ status' = [u \in Ids |-> IF u # inProgress THEN status[u]
                                ELSE IF engine.state = "done" THEN "OK" ELSE "EIO"]
    /\ inProgress' = NoId
    /\ engine' = NoTransfer
    /\ lock' = FALSE
=============================================================================
