------------------------------ MODULE MCOutbox ------------------------------
(***************************************************************************)
(* Instances of Outbox for TLC.                                            *)
(***************************************************************************)
EXTENDS OutboxContract, TLC

CONSTANTS i1, b1, w1, w2, p1

Ask(a, optional) ==
  [action |-> a, issue |-> i1, optional |-> optional, body |-> b1]

\* A refund that also tells the customer.
RefundWithComment == 1 :> Ask("issue_refund", TRUE)

\* A close alone.
Close == 1 :> Ask("close_confirmed", FALSE)

\* Two executions that move one issue to different states, one of them with
\* two effects.
CloseCommentAndEscalate ==
  1 :> Ask("close_confirmed", TRUE) @@ 2 :> Ask("escalate_missing", FALSE)

\* The remaining classes: deduplicated comment, best-effort notification.
CommentAndNotify ==
  1 :> Ask("post_comment", FALSE) @@ 2 :> Ask("notify_manager_approval", FALSE)

WorkerSymmetry == Permutations({w1, w2})
=============================================================================
