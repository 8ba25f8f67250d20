----------------------------- MODULE MCSisFadc -----------------------------
(***************************************************************************)
(* Setups of SisFadc for TLC.  The memory is twice what STOPDELAY counts    *)
(* and what the address mask leaves, as in the code: 128K and 64K words.    *)
(***************************************************************************)
EXTENDS SisFadc, TLC

None == [r \in Records |-> {}]

\* An event of the choice 1 has two words.
Card ==
    [groups |-> 1, arraySize |-> 8, multiEventNumber |-> 0 :> 1 @@ 1 :> 4,
     delaySpan |-> 4, addressSpan |-> 4, long |-> FALSE,
     chanLen |-> 0 :> [high |-> 3, low |-> 5], values |-> None,
     operatorWaits |-> TRUE, mayReboot |-> FALSE, dmaMayFail |-> TRUE, dmaCapacity |-> 2,
     maxPre |-> 1]

\* The soft trigger and an external one; the high channel has less room than
\* the low one.
Operated ==
    [Card EXCEPT !.values =
        [@ EXCEPT !["arm"] = {0, 1, 2}, !["softTrigger"] = {1}, !["trigger"] = {1},
                  !["multiEvent"] = {1}, !["numberPTS"] = {2}, !["numberPPS"] = {1}]]

\* Gates, and the exit hook.
Gates ==
    [Card EXCEPT !.maxPre = 3, !.mayReboot = TRUE, !.values =
        [@ EXCEPT !["arm"] = {0, 1}, !["trigger"] = {3}, !["preAverage"] = {1},
                  !["numberPTE"] = {2}]]

\* FTVL LONG in two groups, one with room for all events.
LongData ==
    [Card EXCEPT !.long = TRUE, !.groups = 2, !.dmaMayFail = FALSE, !.maxPre = 2,
        !.chanLen = 0 :> [high |-> 7, low |-> 2] @@ 1 :> [high |-> 3, low |-> 0],
        !.values =
            [@ EXCEPT !["arm"] = {0, 1}, !["softTrigger"] = {1}, !["trigger"] = {3},
                      !["multiEvent"] = {1}, !["numberPTS"] = {1, 2}, !["numberPPS"] = {1},
                      !["numberPTE"] = {2}]]

\* Anything at any moment, and the exit hook.
AnyTime ==
    [Card EXCEPT !.long = TRUE, !.chanLen = 0 :> [high |-> 1, low |-> 0], !.maxPre = 0,
        !.operatorWaits = FALSE, !.mayReboot = TRUE,
        !.values =
            [@ EXCEPT !["arm"] = {0, 1, 2, 3}, !["trigger"] = {1, 3, 4}, !["clock"] = {9},
                      !["multiEvent"] = {1, 2}, !["preAverage"] = {8}]]

AllSetups == {Operated, Gates, LongData, AnyTime}

\* A single event, larger than the mask.
PrePostSetups ==
    {[Card EXCEPT !.maxPre = 5, !.dmaMayFail = FALSE, !.values =
        [@ EXCEPT !["arm"] = {2}, !["trigger"] = {1}, !["numberPTS"] = {1}]]}
=============================================================================
