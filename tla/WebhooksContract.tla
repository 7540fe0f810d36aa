--------------------------- MODULE WebhooksContract ---------------------------
(***************************************************************************)
(* Webhooks implements EventContract: an event takes effect when the       *)
(* transaction of one of its deliveries commits, and at no other step.     *)
(***************************************************************************)
EXTENDS Webhooks

Contract == INSTANCE EventContract WITH
  applied <- {e \in Events : routed[e] # {}},
  linked <- {t \in Tickets : issueOf[t] # {}}

\* Every step of the handlers, of a restart and of the operators is the effect
\* of one event that had none before, or nothing at all: requests that route
\* the same event, or different events of one ticket, behave as if one event
\* at a time were applied (the transaction of ingestEvent).
ImplementsEventContract == Contract!ContractSpec
=============================================================================
