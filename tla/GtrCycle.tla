------------------------------ MODULE GtrCycle ------------------------------
(***************************************************************************)
(* The acquisition cycle GTR promises its operator: a recorder is armed, it *)
(* records one complete set, the set is read, the records are processed,    *)
(* and only then may the recorder be armed again, by autoRestart or by the  *)
(* operator.  Recording, reading and posting never overlap.                 *)
(*                                                                          *)
(* show is what the waveform channels hold: nothing, the set of the latest  *)
(* cycle, or something else (an earlier set, one that is being copied, or   *)
(* what a DMA transfer that failed has left of one).                        *)
(***************************************************************************)
VARIABLES phase, show

Phases == {"idle", "acquiring", "reading", "posting"}

CycleTypeOK == phase \in Phases /\ show \in {"nothing", "set", "other"}

CycleInit == phase = "idle" /\ show = "nothing"

\* Once armed, what was a set of the latest cycle is one of the cycle before.
Aged(s) == IF s = "set" THEN "other" ELSE s

Start    == phase = "idle" /\ phase' = "acquiring" /\ show' = Aged(show)
Abandon  == phase = "acquiring" /\ phase' = "idle" /\ UNCHANGED show
Complete == phase = "acquiring" /\ phase' = "reading" /\ UNCHANGED show
Copy     == phase = "reading" /\ UNCHANGED phase /\ show' \in {"nothing", "set", "other"}
Read     == phase = "reading" /\ phase' = "posting" /\ UNCHANGED show
Post     == phase = "posting" /\ phase' = "idle" /\ UNCHANGED show
Again    == phase = "posting" /\ phase' = "acquiring" /\ show' = Aged(show)

CycleNext == Start \/ Abandon \/ Complete \/ Copy \/ Read \/ Post \/ Again

CycleSpec == CycleInit /\ [][CycleNext]_<<phase, show>>
=============================================================================
