----------------------------- MODULE DmaService -----------------------------
(***************************************************************************)
(* What a caller of epicsDmaFromVmeAndWait is promised: the call is         *)
(* refused, or its transfer has the one DMA engine to itself, and the call  *)
(* returns after that transfer, with that transfer's result.                *)
(***************************************************************************)
CONSTANT Ids            \* DMA handlers, each with the task that uses it

VARIABLES
    call,               \* how far the call of every handler has come
    result              \* of a transfer that is over, until the call returns

Outcomes == {"OK", "EIO"}

ServiceTypeOK ==
    /\ call \in [Ids -> {"none", "asked", "moving", "over"}]
    /\ result \in [Ids -> Outcomes \cup {"none"}]

ServiceInit ==
    /\ call = [u \in Ids |-> "none"]
    /\ result = [u \in Ids |-> "none"]

Step(u, from, to) == call[u] = from /\ call' = [call EXCEPT ![u] = to]

Ask(u)    == Step(u, "none", "asked") /\ UNCHANGED result
Refuse(u) == Step(u, "asked", "none") /\ UNCHANGED result
Move(u)   == /\ \A v \in Ids : call[v] # "moving"
             /\ Step(u, "asked", "moving") /\ UNCHANGED result
End(u)    == /\ Step(u, "moving", "over")
             /\ \E r \in Outcomes : result' = [result EXCEPT ![u] = r]
Return(u) == Step(u, "over", "none") /\ result' = [result EXCEPT ![u] = "none"]

ServiceNext == \E u \in Ids : Ask(u) \/ Refuse(u) \/ Move(u) \/ End(u) \/ Return(u)

ServiceSpec == ServiceInit /\ [][ServiceNext]_<<call, result>>
=============================================================================
