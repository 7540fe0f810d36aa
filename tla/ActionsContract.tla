---------------------------- MODULE ActionsContract ----------------------------
(***************************************************************************)
(* Actions implements SubmissionContract.  What was performed is what the  *)
(* executions say, under the key of a client or under that of an approval. *)
(***************************************************************************)
EXTENDS Actions

PerformedUnder(key) == {e.ask : e \in {x \in executions : x.key = key}}

Submitted == {sent[q] : q \in {p \in Requests : pc[p] # "unsent"}}
Done == [k \in Keys |-> PerformedUnder(ClientKey(k))]
Told == {sent[q].key : q \in {p \in Requests : reply[p].outcome = "ALLOW"}}
Asked == [a \in Requests |-> IF approval[a] = "ABSENT" THEN {} ELSE {sent[a].ask}]
Granted == [a \in Requests |-> PerformedUnder(ApprovalKey(a))]

Contract == INSTANCE SubmissionContract WITH
  Approvals <- Requests, submitted <- Submitted, done <- Done, told <- Told,
  status <- approval, asked <- Asked, granted <- Granted

\* Every step of the handlers, of managers and of time is a step of the
\* contract or none of its concern: retries under one key perform one ask, and
\* no answer says more; EXPIRED is never stored, and a grant performs, with the
\* decision, exactly what the request had asked (initiateAction, grant, deny).
ImplementsSubmissionContract == Contract!ContractSpec
=============================================================================
