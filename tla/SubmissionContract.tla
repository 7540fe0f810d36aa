-------------------------- MODULE SubmissionContract --------------------------
(***************************************************************************)
(* What the action service promises to those who submit actions and those  *)
(* who approve them, with no handlers, facts, policy or faults: a key      *)
(* performs once what was submitted under it, and only then is anybody     *)
(* told so; an approval is decided once, in time, and a grant performs in  *)
(* the same step what was asked for.                                       *)
(***************************************************************************)
CONSTANTS
  Keys, Asks,
  Approvals

VARIABLES
  submitted,    \* what was submitted: a key and an ask
  done,         \* what was performed under each key
  told,         \* keys whose senders were told that it was performed
  status,       \* of each approval
  asked,        \* what it is to permit
  expired,      \* approvals that have expired
  granted       \* what was performed on it

contractVars == <<submitted, done, told, status, asked, expired, granted>>

ContractInit ==
  /\ submitted = {} /\ told = {} /\ expired = {}
  /\ done = [k \in Keys |-> {}]
  /\ status = [a \in Approvals |-> "ABSENT"]
  /\ asked = [a \in Approvals |-> {}]
  /\ granted = [a \in Approvals |-> {}]

Submit(k, x) ==
  /\ submitted' = submitted \cup {[key |-> k, ask |-> x]}
  /\ UNCHANGED <<done, told, status, asked, expired, granted>>

\* Of all that was submitted under a key, one is performed.
Perform(k, x) ==
  /\ [key |-> k, ask |-> x] \in submitted /\ done[k] = {}
  /\ done' = [done EXCEPT ![k] = {x}]
  /\ told' \in {told, told \cup {k}}
  /\ UNCHANGED <<submitted, status, asked, expired, granted>>

Tell(k) ==
  /\ done[k] # {}
  /\ told' = told \cup {k}
  /\ UNCHANGED <<submitted, done, status, asked, expired, granted>>

AskApproval(a, x) ==
  /\ status[a] = "ABSENT"
  /\ \E k \in Keys : [key |-> k, ask |-> x] \in submitted
  /\ status' = [status EXCEPT ![a] = "PENDING"]
  /\ asked' = [asked EXCEPT ![a] = {x}]
  /\ UNCHANGED <<submitted, done, told, expired, granted>>

Expire(a) ==
  /\ status[a] = "PENDING"
  /\ expired' = expired \cup {a}
  /\ UNCHANGED <<submitted, done, told, status, asked, granted>>

Grant(a) ==
  /\ status[a] = "PENDING" /\ a \notin expired /\ granted[a] = {}
  /\ status' = [status EXCEPT ![a] = "APPROVED"]
  /\ granted' = [granted EXCEPT ![a] = asked[a]]
  /\ UNCHANGED <<submitted, done, told, asked, expired>>

\* An approval that has expired can still be denied.
Deny(a) ==
  /\ status[a] = "PENDING"
  /\ status' = [status EXCEPT ![a] = "DENIED"]
  /\ UNCHANGED <<submitted, done, told, asked, expired, granted>>

ContractNext ==
  \/ \E k \in Keys, x \in Asks : Submit(k, x) \/ Perform(k, x)
  \/ \E k \in Keys : Tell(k)
  \/ \E a \in Approvals, x \in Asks : AskApproval(a, x)
  \/ \E a \in Approvals : Expire(a) \/ Grant(a) \/ Deny(a)

ContractSpec == ContractInit /\ [][ContractNext]_contractVars
=============================================================================
