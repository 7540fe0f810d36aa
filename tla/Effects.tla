------------------------------ MODULE Effects ------------------------------
(***************************************************************************)
(* What an action asks of the outside world: services/effects.ts and the   *)
(* enumerations of packages/shared.  Pure definitions, no state.           *)
(*                                                                         *)
(* The payload of an effect is abstracted to its operation.  An action     *)
(* plans each operation at most once, so <<execution, operation>> stands   *)
(* for the deterministic effect_key of buildEffectKey.                     *)
(***************************************************************************)
EXTENDS Sequences

ActionType ==
    {"issue_refund", "close_confirmed", "escalate_missing", "update_pending",
     "reopen_issue", "refresh_evidence", "post_comment",
     "notify_manager_approval"}

RetryClass ==
    {"SAFE_AUTO_RETRY", "AUTO_RETRY_WITH_DEDUPE", "RECONCILIATION_FIRST",
     "OPERATOR_RETRY_ONLY", "BEST_EFFORT_NO_BLOCK", "LOCAL_TRANSACTIONAL"}

IssueState == {"OPEN", "AWAITING_FULFILLMENT", "BLOCKED", "RESOLVED"}
NoState == "none"                       \* planned_state IS NULL

Operation == {"create_refund", "update_ticket_status", "post_comment"}

TicketStatus == {"open", "pending", "solved"}

\* The authoritative classification, one class per action (not per effect).
ACTION_RETRY_CLASS ==
    [a \in ActionType |->
        CASE a = "issue_refund"            -> "OPERATOR_RETRY_ONLY"
          [] a \in {"close_confirmed", "update_pending"}
                                           -> "RECONCILIATION_FIRST"
          [] a \in {"escalate_missing", "refresh_evidence"}
                                           -> "SAFE_AUTO_RETRY"
          [] a = "reopen_issue"            -> "LOCAL_TRANSACTIONAL"
          [] a = "post_comment"            -> "AUTO_RETRY_WITH_DEDUPE"
          [] a = "notify_manager_approval" -> "BEST_EFFORT_NO_BLOCK"]

\* (mutant) A close plans the name of the ticket status.
deriveTargetState_TicketStatus(a) ==
    CASE a = "close_confirmed"  -> "solved"
      [] a = "escalate_missing" -> "BLOCKED"
      [] a = "update_pending"   -> "AWAITING_FULFILLMENT"
      [] a = "reopen_issue"     -> "OPEN"
      [] OTHER                  -> NoState

\* The issue state an action plans, applied only when it completes.
deriveTargetState(a) ==
    CASE a = "close_confirmed"  -> "RESOLVED"
      [] a = "escalate_missing" -> "BLOCKED"
      [] a = "update_pending"   -> "AWAITING_FULFILLMENT"
      [] a = "reopen_issue"     -> "OPEN"
      [] OTHER                  -> NoState

\* The ticket status that close_confirmed and update_pending set.
targetStatus(a) == IF a = "close_confirmed" THEN "solved" ELSE "pending"

(***************************************************************************)
(* The effects of an action, in the order they are built.  "optional" says *)
(* whether the parameter that adds the second effect was given: the ticket *)
(* of a refund, the resolution comment of a close.                         *)
(***************************************************************************)
buildEffectsForAction(a, optional) ==
    CASE a = "issue_refund" ->
            <<"create_refund">> \o IF optional THEN <<"post_comment">> ELSE <<>>
      [] a = "close_confirmed" ->
            <<"update_ticket_status">>
                \o IF optional THEN <<"post_comment">> ELSE <<>>
      [] a = "update_pending" -> <<"update_ticket_status">>
      [] a \in {"escalate_missing", "post_comment", "notify_manager_approval"} ->
            <<"post_comment">>
      [] OTHER -> <<>>
=============================================================================
