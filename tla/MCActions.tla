----------------------------- MODULE MCActions -----------------------------
(***************************************************************************)
(* Instances of Actions for TLC.                                           *)
(***************************************************************************)
EXTENDS ActionsContract, TLC

Ask(a, amount, complete) ==
  [actionType |-> a, amount |-> amount, complete |-> complete]

\* A refund above the threshold and one that names no charge.
RefundAndIncomplete ==
  {Ask("issue_refund", 2, TRUE), Ask("issue_refund", 2, FALSE)}

\* One action of each risk tier.
OneOfEachTier ==
  {Ask("issue_refund", 2, TRUE), Ask("escalate_missing", 0, TRUE),
   Ask("refresh_evidence", 0, TRUE)}

AllAsks == RefundAndIncomplete \cup OneOfEachTier

\* A refund that is above the threshold, with an amount the evidence need not have.
LargeRefund == {Ask("issue_refund", 2, TRUE)}

\* Only the requests' and the managers' names: no value is compared by order.
ActorSymmetry == Permutations(Requests) \cup Permutations(Decisions)
=============================================================================
