----------------------------- MODULE MCGtrCard -----------------------------
(***************************************************************************)
(* Instances of GtrCard for TLC: one or two groups of channels, memory      *)
(* for two or four samples per channel, and at most two values for every    *)
(* setting, three for arm.                                                  *)
(***************************************************************************)
EXTENDS GtrCard, TLC

\* Channel 0 has room for the whole memory, 1 for less, 2 has no waveform
\* record, 3 has more room than there is memory.
MCChanLen == 0 :> 4 @@ 1 :> 1 @@ 2 :> 0 @@ 3 :> 5

\* One group of channels, for the runs that turn on order more than on data;
\* OneFull: one of them holds the whole memory, the other has no record.
OneGroupLen == 0 :> 1 @@ 1 :> 1
OneFull     == 0 :> 2 @@ 1 :> 0

Fixed == [r \in Records |-> {}]

\* numberPTS 3 with numberPTE 2 asks for more samples than there are.  Clock
\* 14, trigger 4 and every preAverage are refused.
OperatorValues ==
    [Fixed EXCEPT !["arm"] = {0, 1, 2}, !["autoRestart"] = {0, 1},
                  !["softTrigger"] = {1}, !["clock"] = {0, 14},
                  !["trigger"] = {1, 4}, !["preAverage"] = {1},
                  !["multiEvent"] = {0, 1}, !["numberPTS"] = {3},
                  !["numberPPS"] = {1}, !["numberPTE"] = {1, 2}]

\* numberPTS 1025 is refused by the 10012_8, multiEvent 2 (of 2), clock 14,
\* trigger 4 and preAverage by all.
AnyValues ==
    [Fixed EXCEPT !["arm"] = {0, 1, 2}, !["autoRestart"] = {0, 1},
                  !["softTrigger"] = {1}, !["clock"] = {0, 14},
                  !["trigger"] = {1, 4}, !["preAverage"] = {1},
                  !["multiEvent"] = {1, 2}, !["numberPTS"] = {1025},
                  !["numberPPS"] = {1}, !["numberPTE"] = {1, 2}]

\* One sample or more for each of 1 or 2 triggers, or 1 or 2 events, which
\* come by themselves: what a cycle consists of.
CycleValues ==
    [Fixed EXCEPT !["arm"] = {0, 1, 2}, !["autoRestart"] = {0, 1},
                  !["trigger"] = {1}, !["multiEvent"] = {1},
                  !["numberPTS"] = {1}, !["numberPTE"] = {2}]
=============================================================================
