----------------------------- MODULE MCVtr1012 -----------------------------
(***************************************************************************)
(* Setups of Vtr1012 for TLC: memories of two and of four samples.          *)
(***************************************************************************)
EXTENDS Vtr1012, TLC

None == [r \in Records |-> {}]

\* numberPTS 3 with numberPTE 2 overfills the memory; numberPPS 4 is all of
\* it; trigger 3 is refused.  The channel has room for three of four samples.
Operated(type) ==
    [model |-> type, signals |-> 1, arraySize |-> 4, chanLen |-> 0 :> 3,
     values |-> [None EXCEPT !["arm"] = {0, 1, 2}, !["softTrigger"] = {1},
                             !["trigger"] = {1, 3}, !["numberPTS"] = {1, 3},
                             !["numberPPS"] = {2, 4}, !["numberPTE"] = {2}],
     operatorWaits |-> TRUE, mayReboot |-> FALSE, maxPre |-> 5]

\* Settings put while the recorder is armed, an external clock (9) and trigger,
\* an arm value that is no choice, and the exit hook.  No waveform records.
AnyTime(type) ==
    [model |-> type, signals |-> 1, arraySize |-> 2, chanLen |-> 0 :> 0,
     values |-> [None EXCEPT !["arm"] = {0, 1, 2, 3}, !["softTrigger"] = {1},
                             !["clock"] = {9}, !["trigger"] = {1},
                             !["numberPTS"] = {2}, !["numberPTE"] = {2}],
     operatorWaits |-> FALSE, mayReboot |-> TRUE, maxPre |-> 1]

\* For the VTR1012 post-trigger matters, with two channels.
PostTrigger ==
    [Operated("vtr1012") EXCEPT
        !.signals = 2, !.chanLen = 0 :> 4 @@ 1 :> 3, !.maxPre = 1,
        !.values = [@ EXCEPT !["trigger"] = {1}, !["numberPTS"] = {3}, !["numberPPS"] = {2}]]

AllSetups == {PostTrigger, Operated("vtr10010"), AnyTime("vtr1012"), AnyTime("vtr10010")}

\* Channel 0 has room for the whole memory, channel 1 for less.
RoomSetups == {[Operated("vtr1012") EXCEPT !.signals = 2, !.chanLen = 0 :> 4 @@ 1 :> 3]}
=============================================================================
