--------------------------- MODULE ActionContract ---------------------------
(***************************************************************************)
(* What the outbox promises about the actions it accepts, with no workers, *)
(* attempts, ledger or providers.  An accepted action has a set of         *)
(* effects; each is settled once, done or stopped; when all are done, and  *)
(* only then, the action completes, once, and its issue takes the planned  *)
(* state in the same step.  Nothing else moves an issue.                   *)
(***************************************************************************)
CONSTANTS
  Actions,          \* accepted actions
  Issues,
  EffectsOf(_),     \* the effects of an action
  IssueOf(_),       \* the issue it acts on
  PlannedState(_),  \* the state it plans for that issue, or NoChange
  NoChange,
  InitialState

VARIABLES
  effect,           \* "none", "open", "done" or "stopped"
  completed,        \* actions completed
  issueState

contractVars == <<effect, completed, issueState>>

AllEffects == UNION {EffectsOf(a) : a \in Actions}

ContractInit ==
  /\ effect = [r \in AllEffects |-> "none"]
  /\ completed = {}
  /\ issueState = [i \in Issues |-> InitialState]

\* All effects of an action are queued together.
Accept(a) ==
  /\ \A r \in EffectsOf(a) : effect[r] = "none"
  /\ effect' = [r \in AllEffects |-> IF r \in EffectsOf(a) THEN "open" ELSE effect[r]]
  /\ UNCHANGED <<completed, issueState>>

\* An effect is settled: for good, one way or the other.
Settle(r, outcome) ==
  /\ effect[r] = "open"
  /\ effect' = [effect EXCEPT ![r] = outcome]
  /\ UNCHANGED <<completed, issueState>>

Complete(a) ==
  /\ a \notin completed
  /\ \A r \in EffectsOf(a) : effect[r] = "done"
  /\ completed' = completed \cup {a}
  /\ issueState' = IF PlannedState(a) = NoChange THEN issueState
                   ELSE [issueState EXCEPT ![IssueOf(a)] = PlannedState(a)]
  /\ UNCHANGED effect

ContractNext ==
  \/ \E a \in Actions : Accept(a) \/ Complete(a)
  \/ \E r \in AllEffects, outcome \in {"done", "stopped"} : Settle(r, outcome)

ContractSpec == ContractInit /\ [][ContractNext]_contractVars
=============================================================================
