----------------------------- MODULE MCVtr812 ------------------------------
(***************************************************************************)
(* Setups of Vtr812 for TLC.                                                *)
(***************************************************************************)
EXTENDS Vtr812, TLC

\* The high channel has less room than the low one, less than 4 events.
\* A second group has a record for its high channel only.
NoRecord  == 0 :> [high |-> 0, low |-> 0]
OneGroup  == 0 :> [high |-> 6, low |-> 9]
TwoGroups == OneGroup @@ 1 :> [high |-> 1, low |-> 0]

None == [r \in Records |-> {}]

\* multiEvent 2 is 4 events; numberPTS 17 is more than the memory of 16 words;
\* numberPPS 5 is more than an event of 4 words has.
Operated ==
    [groups |-> 2, arraySize |-> 16, buflen |-> 1, chanLen |-> TwoGroups,
     multiPrePost |-> TRUE,
     values |-> [None EXCEPT !["arm"] = {0, 1, 2}, !["softTrigger"] = {1},
                             !["multiEvent"] = {2}, !["numberPTS"] = {17},
                             !["numberPPS"] = {5}, !["numberPTE"] = {2}],
     operatorWaits |-> TRUE, mayReboot |-> FALSE, dmaMayFail |-> FALSE, maxPre |-> 1]

\* numberPPS -1 is put as it is.
DmaFails ==
    [Operated EXCEPT !.groups = 1, !.chanLen = OneGroup, !.dmaMayFail = TRUE, !.maxPre = 0,
        !.values = [@ EXCEPT !["numberPTS"] = {3}, !["numberPPS"] = {-1}, !["arm"] = {1, 2}]]

\* Settings put while the recorder is armed, an external clock and trigger, an
\* arm value that is no choice, and the exit hook.  No waveform records.
AnyTime ==
    [groups |-> 1, arraySize |-> 16, buflen |-> 1, chanLen |-> NoRecord,
     multiPrePost |-> TRUE,
     values |-> [None EXCEPT !["arm"] = {0, 1, 2, 3}, !["softTrigger"] = {1},
                             !["clock"] = {9}, !["trigger"] = {1, 3},
                             !["multiEvent"] = {2, 5}, !["numberPTS"] = {2}],
     operatorWaits |-> FALSE, mayReboot |-> TRUE, dmaMayFail |-> FALSE, maxPre |-> 0]

\* A card without the multi pre/post option.
WithoutOption ==
    [Operated EXCEPT !.multiPrePost = FALSE, !.groups = 1, !.chanLen = OneGroup, !.maxPre = 2,
        !.values = [@ EXCEPT !["multiEvent"] = {0, 1}, !["numberPTS"] = {1}]]

\* A waiting operator of a card that is triggered from outside, between any two
\* steps of vtrarm, and divided into 1, 2 (multiEvent 1) or 4 events in any order.
Triggered ==
    [DmaFails EXCEPT !.dmaMayFail = FALSE,
        !.values = [@ EXCEPT !["trigger"] = {1}, !["multiEvent"] = {0, 1, 2}, !["numberPTE"] = {},
                             !["arm"] = {0, 1, 2}]]

\* Two events, which the card is never told: it is not divided after power-up.
TwoEvents ==
    [Triggered EXCEPT !.values = [@ EXCEPT !["trigger"] = {}, !["multiEvent"] = {1}]]
OnlyTwoEvents == {TwoEvents}

AllSetups == {Triggered, Operated, DmaFails, AnyTime, WithoutOption}
=============================================================================
