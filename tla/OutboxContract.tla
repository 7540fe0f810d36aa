--------------------------- MODULE OutboxContract ---------------------------
(***************************************************************************)
(* The outbox implements ActionContract as long as no database error hits  *)
(* handleSuccess (MaxDbFaults = 0).  With one it does not: a fault in the  *)
(* rebuild of the card fails an execution that has completed.              *)
(***************************************************************************)
EXTENDS Outbox

\* The contract sees neither attempts nor retries: a row is open until it is
\* SENT, or stopped by a definite failure or for an operator.
Settlement(r) ==
  CASE status[r] = "ABSENT" -> "none"
    [] status[r] \in {"PENDING", "IN_PROGRESS", "FAILED_RETRIABLE"} -> "open"
    [] status[r] = "SENT" -> "done"
    [] OTHER -> "stopped"

Contract == INSTANCE ActionContract WITH
  Actions <- Executions,
  EffectsOf <- RowsOf,
  IssueOf <- Issue,
  PlannedState <- Planned,
  NoChange <- NoState,
  InitialState <- "OPEN",
  effect <- [r \in Rows |-> Settlement(r)],
  completed <- {e \in Executions : execStatus[e] = "COMPLETED"},
  issueState <- state

\* Every step of the outbox is a step of the contract or leaves it unchanged:
\* effects settle once, completion needs all of them and moves the issue.
ImplementsContract == Contract!ContractSpec
=============================================================================
