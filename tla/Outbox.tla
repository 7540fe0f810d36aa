------------------------------- MODULE Outbox -------------------------------
(***************************************************************************)
(* The transactional outbox: action_executions, outbox_messages with their *)
(* effects ledger, the workers of workers/outboxWorker.ts that drain them, *)
(* the issues the executions move, and the providers they act on.          *)
(*                                                                         *)
(* One action per database statement or transaction that commits on its    *)
(* own, and one per provider call: between any two of them another worker  *)
(* runs, the process dies, or the statement fails.                         *)
(***************************************************************************)
EXTENDS Effects, Naturals, FiniteSets

CONSTANTS
  Executions,     \* execution ids, numbered in order of created_at
  Request,        \* what each execution was asked to do
  Issues,         \* issues; each has one primary Zendesk ticket
  Bodies,         \* comment bodies
  Workers,        \* worker processes sharing the database
  Refreshers,     \* ingestions and operators, which rebuild cards as well
  MaxAttempts,    \* MAX_ATTEMPTS
  BatchSize,      \* BATCH_SIZE
  MaxCrashes,     \* bound: batches abandoned by a crash or an escaping error
  MaxDbFaults,    \* bound: database errors raised inside handleSuccess
  NoMsg,          \* a worker that holds no message
  NoWorker,       \* an issue row that nobody has locked
  NoStatement     \* who is not rebuilding a card

RequestType ==
  [action : ActionType, issue : Issues, optional : BOOLEAN, body : Bodies]

\* The INSERT ... SELECT ... ON CONFLICT DO UPDATE of rebuildCardState while it
\* runs: what its snapshot shows, and whether no other of the issue overlapped it.
CardStatement == [issue : Issues, state : IssueState, alone : BOOLEAN]

ASSUME ConstantsAssumption ==
  /\ Executions \subseteq Nat
  /\ Request \in [Executions -> RequestType]
  /\ NoWorker \notin Workers
  /\ Workers \cap Refreshers = {}
  /\ NoStatement \notin CardStatement
  /\ MaxAttempts \in Nat \ {0}
  /\ BatchSize \in Nat \ {0}
  /\ MaxCrashes \in Nat
  /\ MaxDbFaults \in Nat

(***************************************************************************)
(* An outbox row is named by its effect key.                               *)
(***************************************************************************)
Plan(e) == buildEffectsForAction(Request[e].action, Request[e].optional)

RowsOf(e) == {<<e, op>> : op \in {Plan(e)[k] : k \in DOMAIN Plan(e)}}

Rows == UNION {RowsOf(e) : e \in Executions}

Rebuilders == Workers \cup Refreshers

Exec(r) == r[1]
Op(r) == r[2]
Issue(e) == Request[e].issue
Planned(e) == deriveTargetState(Request[e].action)
Class(r) == ACTION_RETRY_CLASS[Request[Exec(r)].action]

OutboxStatus ==
  {"ABSENT", "PENDING", "IN_PROGRESS", "SENT", "FAILED_RETRIABLE",
   "FAILED_TERMINAL", "BLOCKED_OPERATOR"}

ExecutionStatus ==
  {"ABSENT", "PENDING", "IN_PROGRESS", "COMPLETED", "FAILED_RETRIABLE",
   "FAILED_TERMINAL"}

EffectOutcomeStatus ==
  {"INTENDED", "SENT_ACKED", "SENT_UNCERTAIN", "CONFIRMED",
   "FAILED_RETRIABLE", "FAILED_TERMINAL"}

\* Ledger states after which an effect is never dispatched again.
SETTLED_STATES ==
  {"CONFIRMED", "SENT_ACKED", "SENT_UNCERTAIN", "FAILED_TERMINAL"}

\* The OutboxRow a claim returns: a snapshot, with the answer of isSettled.
OutboxRow == [row : Rows, settled : BOOLEAN, attempt : Nat]

VARIABLES
  status,        \* outbox_messages.status
  attempts,      \* outbox_messages.attempt_count
  due,           \* next_attempt_at is NULL or in the past
  settledAt,     \* effect_settled_at is set
  effects,       \* the ledger: outcome_status of every entry, oldest first
  execStatus,    \* action_executions.status
  reconciled,    \* executions with reconciled_at set
  state,         \* issues.state
  transitions,   \* state_transitions rows written per execution
  issueLock,     \* worker holding the issue row FOR UPDATE
  card,          \* issue_card_state.issue_state
  rebuilding,    \* the rebuild statement each worker or refresher is running
  raced,         \* history: issues whose card was last written by a statement
                 \* that had overlapped another one of the issue
  requests,      \* provider: requests sent for an effect key
  inFlight,      \* requests without an answer that may still take effect
  applied,       \* provider: effect keys it has acted on.  A refund it has made
                 \* may still be pending, fail or be canceled: nothing here
                 \* reads refund.status
  ticketStatus,  \* provider: status of the issue's ticket
  pc,            \* next statement of each worker
  msg,           \* message each worker is processing
  batch,         \* claimed messages it has not started
  inTry,         \* inside handleSuccess as called by the try block
  crashes,       \* batches abandoned so far
  faults         \* database errors raised in handleSuccess so far

rowVars      == <<status, attempts, due, settledAt, effects>>
execVars     == <<execStatus, reconciled>>
issueVars    == <<state, transitions, issueLock, card, rebuilding, raced>>
providerVars == <<requests, inFlight, applied, ticketStatus>>
workerVars   == <<pc, msg, batch, inTry>>
budgetVars   == <<crashes, faults>>
vars == <<rowVars, execVars, issueVars, providerVars, workerVars, budgetVars>>

PCs ==
  {"idle", "begin", "append", "dispatch", "uncertain", "reconcile",
   "reconciled", "block", "fail", "retry", "terminal", "confirm", "sent",
   "count", "complete", "rebuild", "upsert"}

TypeOK ==
  /\ status \in [Rows -> OutboxStatus]
  /\ attempts \in [Rows -> Nat]
  /\ due \in [Rows -> BOOLEAN]
  /\ settledAt \in [Rows -> BOOLEAN]
  /\ effects \in [Rows -> Seq(EffectOutcomeStatus)]
  /\ execStatus \in [Executions -> ExecutionStatus]
  /\ reconciled \in SUBSET Executions
  /\ state \in [Issues -> IssueState]
  /\ transitions \in [Executions -> Nat]
  /\ issueLock \in [Issues -> Workers \cup {NoWorker}]
  /\ card \in [Issues -> IssueState]
  /\ rebuilding \in [Rebuilders -> CardStatement \cup {NoStatement}]
  /\ raced \in SUBSET Issues
  /\ requests \in [Rows -> Nat]
  /\ inFlight \in SUBSET Rows
  /\ applied \in SUBSET Rows
  /\ ticketStatus \in [Issues -> TicketStatus]
  /\ pc \in [Workers -> PCs]
  /\ msg \in [Workers -> OutboxRow \cup {NoMsg}]
  /\ batch \in [Workers -> SUBSET OutboxRow]
  /\ inTry \in [Workers -> BOOLEAN]
  /\ crashes \in Nat
  /\ faults \in Nat

Init ==
  /\ status = [r \in Rows |-> "ABSENT"]
  /\ attempts = [r \in Rows |-> 0]
  /\ due = [r \in Rows |-> TRUE]
  /\ settledAt = [r \in Rows |-> FALSE]
  /\ effects = [r \in Rows |-> <<>>]
  /\ execStatus = [e \in Executions |-> "ABSENT"]
  /\ reconciled = {}
  /\ state = [i \in Issues |-> "OPEN"]
  /\ transitions = [e \in Executions |-> 0]
  /\ issueLock = [i \in Issues |-> NoWorker]
  /\ card = [i \in Issues |-> "OPEN"]
  /\ rebuilding = [p \in Rebuilders |-> NoStatement]
  /\ raced = {}
  /\ requests = [r \in Rows |-> 0]
  /\ inFlight = {}
  /\ applied = {}
  /\ ticketStatus = [i \in Issues |-> "open"]
  /\ pc = [w \in Workers |-> "idle"]
  /\ msg = [w \in Workers |-> NoMsg]
  /\ batch = [w \in Workers |-> {}]
  /\ inTry = [w \in Workers |-> FALSE]
  /\ crashes = 0
  /\ faults = 0

-----------------------------------------------------------------------------
(***************************************************************************)
(* Control of one worker.                                                  *)
(***************************************************************************)
At(w, label) == pc[w] = label /\ msg[w] # NoMsg

Row(w) == msg[w].row

Goto(w, label) ==
  /\ pc' = [pc EXCEPT ![w] = label]
  /\ UNCHANGED <<msg, batch, inTry>>

\* processMessage returns: on to the next message of the batch.
Finish(w) ==
  /\ pc' = [pc EXCEPT ![w] = "idle"]
  /\ msg' = [msg EXCEPT ![w] = NoMsg]
  /\ inTry' = [inTry EXCEPT ![w] = FALSE]
  /\ UNCHANGED batch

(***************************************************************************)
(* The ledger.  Only the last entry of an effect key is ever rewritten.    *)
(***************************************************************************)
appendEffectEntry(r, outcome) ==
  effects' = [effects EXCEPT ![r] = Append(@, outcome)]

updateEffectStatus(r, outcome) ==
  effects' = [effects EXCEPT ![r][Len(effects[r])] = outcome]

isSettled(r) ==
  \/ settledAt[r]
  \/ \E k \in DOMAIN effects[r] : effects[r][k] \in SETTLED_STATES

-----------------------------------------------------------------------------
(***************************************************************************)
(* createActionExecution: the execution and its outbox rows, one           *)
(* transaction.  The policy and the idempotency key that lead here are the *)
(* action service's.                                                       *)
(***************************************************************************)
createActionExecution(e) ==
  /\ execStatus[e] = "ABSENT"
  /\ execStatus' = [execStatus EXCEPT ![e] = "PENDING"]
  /\ status' = [r \in Rows |-> IF r \in RowsOf(e) THEN "PENDING" ELSE status[r]]
  /\ effects' = [r \in Rows |->
                   IF r \in RowsOf(e) THEN <<"INTENDED">> ELSE effects[r]]
  /\ UNCHANGED <<attempts, due, settledAt, reconciled, issueVars, providerVars,
                 workerVars, budgetVars>>

\* Time: next_attempt_at of a row waiting for its retry passes.
BackoffElapses(r) ==
  /\ status[r] = "FAILED_RETRIABLE"
  /\ ~due[r]
  /\ due' = [due EXCEPT ![r] = TRUE]
  /\ UNCHANGED <<status, attempts, settledAt, effects, execVars, issueVars,
                 providerVars, workerVars, budgetVars>>

(***************************************************************************)
(* claimBatch: one UPDATE takes the oldest due rows, at most BatchSize,    *)
(* and returns the snapshot the worker will work from.  Rows locked by a   *)
(* concurrent claim are skipped, so claims take effect one after another.  *)
(***************************************************************************)
\* (mutant) Claimed rows are taken over by the next worker that polls.
Claimable_TakesClaimed ==
  {r \in Rows : status[r] \in {"PENDING", "IN_PROGRESS", "FAILED_RETRIABLE"} /\ due[r]}

\* (mutant) Rows parked for an operator are claimed again.
Claimable_TakesBlocked ==
  {r \in Rows : /\ status[r] \in {"PENDING", "BLOCKED_OPERATOR", "FAILED_RETRIABLE"}
                /\ due[r]}

\* (mutant) Rows waiting for a retry are forgotten.
Claimable_ForgetsRetries == {r \in Rows : status[r] = "PENDING" /\ due[r]}

Claimable == {r \in Rows : status[r] \in {"PENDING", "FAILED_RETRIABLE"} /\ due[r]}

\* (mutant) The dedupe gate is skipped.
Snapshot_NoGate(r) ==
  [row |-> r, settled |-> FALSE, attempt |-> attempts[r] + 1]

Snapshot(r) ==
  [row |-> r, settled |-> isSettled(r), attempt |-> attempts[r] + 1]

OldestDue(S) ==
  /\ S # {} /\ S \subseteq Claimable
  /\ Cardinality(S) = IF Cardinality(Claimable) <= BatchSize
                      THEN Cardinality(Claimable) ELSE BatchSize
  /\ \A r \in S, q \in Claimable \ S : Exec(r) <= Exec(q)

claimBatch(w) ==
  /\ pc[w] = "idle" /\ batch[w] = {}
  /\ \E S \in SUBSET Claimable :
       /\ OldestDue(S)
       /\ status' = [r \in Rows |-> IF r \in S THEN "IN_PROGRESS" ELSE status[r]]
       /\ attempts' = [r \in Rows |-> IF r \in S THEN attempts[r] + 1
                                                 ELSE attempts[r]]
       /\ batch' = [batch EXCEPT ![w] = {Snapshot(r) : r \in S}]
  /\ UNCHANGED <<due, settledAt, effects, execVars, issueVars, providerVars,
                 pc, msg, inTry, budgetVars>>

(***************************************************************************)
(* processMessage up to its first statement: the dedupe gate.              *)
(***************************************************************************)
startMessage(w) ==
  /\ pc[w] = "idle"
  /\ \E m \in batch[w] :
       /\ msg' = [msg EXCEPT ![w] = m]
       /\ batch' = [batch EXCEPT ![w] = @ \ {m}]
       /\ pc' = [pc EXCEPT ![w] = IF m.settled THEN "sent" ELSE "begin"]
  /\ UNCHANGED <<inTry, rowVars, execVars, issueVars, providerVars, budgetVars>>

\* The execution is set IN_PROGRESS whatever its status was.
markExecutionInProgress(w) ==
  /\ At(w, "begin")
  /\ execStatus' = [execStatus EXCEPT ![Exec(Row(w))] = "IN_PROGRESS"]
  /\ Goto(w, "append")
  /\ UNCHANGED <<rowVars, reconciled, issueVars, providerVars, budgetVars>>

appendIntended(w) ==
  /\ At(w, "append")
  /\ appendEffectEntry(Row(w), "INTENDED")
  /\ Goto(w, "dispatch")
  /\ UNCHANGED <<status, attempts, due, settledAt, execVars, issueVars,
                 providerVars, budgetVars>>

-----------------------------------------------------------------------------
(***************************************************************************)
(* The providers.  A request that lands takes effect at most once per      *)
(* effect key; setting the ticket status takes effect again each time.     *)
(***************************************************************************)
Land(r) ==
  /\ applied' = applied \cup {r}
  /\ ticketStatus' =
       IF Op(r) = "update_ticket_status"
       THEN [ticketStatus EXCEPT ![Issue(Exec(r))] =
               targetStatus(Request[Exec(r)].action)]
       ELSE ticketStatus

\* What the reconciliation read of handleSentUncertain would see now.  It is
\* chosen by the class of the action, whatever the operation of the message:
\* a comment of a refund or of a close is never found.
Observable(r) ==
  LET e == Exec(r) IN
  CASE Class(r) = "OPERATOR_RETRY_ONLY" ->          \* reconcileStripeRefund
         Op(r) = "create_refund" /\ r \in applied
    [] Class(r) = "RECONCILIATION_FIRST" ->         \* reconcileZendeskStatus
         /\ Op(r) = "update_ticket_status"
         /\ ticketStatus[Issue(e)] = targetStatus(Request[e].action)
    [] Class(r) = "AUTO_RETRY_WITH_DEDUPE" ->       \* reconcileZendeskComment
         \E q \in applied : /\ Op(q) = "post_comment"
                            /\ Issue(Exec(q)) = Issue(e)
                            /\ Request[Exec(q)].body = Request[e].body
    [] OTHER -> FALSE

\* (mutant) Off by one in the retry budget.
FailureLabel_OneMore(m) == IF m.attempt > MaxAttempts THEN "terminal" ELSE "fail"

\* Where handleRetriableFailure goes: the budget decides.
FailureLabel(m) == IF m.attempt >= MaxAttempts THEN "terminal" ELSE "fail"

(***************************************************************************)
(* executeExternalCall, and the dispatch on its result: an answer; a       *)
(* timeout or a 5xx or network error, whose request is still on the wire   *)
(* and may land later or never; a rejection.                               *)
(***************************************************************************)
executeExternalCall(w) ==
  /\ At(w, "dispatch")
  /\ requests' = [requests EXCEPT ![Row(w)] = @ + 1]
  /\ \/ /\ Land(Row(w))
        /\ pc' = [pc EXCEPT ![w] = "confirm"]
        /\ inTry' = [inTry EXCEPT ![w] = TRUE]
        /\ UNCHANGED inFlight
     \/ /\ inFlight' = inFlight \cup {Row(w)}
        /\ \E label \in {"uncertain", FailureLabel(msg[w])} :
             pc' = [pc EXCEPT ![w] = label]
        /\ UNCHANGED <<applied, ticketStatus, inTry>>
     \/ /\ pc' = [pc EXCEPT ![w] = "terminal"]
        /\ UNCHANGED <<inFlight, applied, ticketStatus, inTry>>
  /\ UNCHANGED <<msg, batch, rowVars, execVars, issueVars, budgetVars>>

\* A request whose caller has given up takes effect.
landLate(r) ==
  /\ r \in inFlight
  /\ inFlight' = inFlight \ {r}
  /\ Land(r)
  /\ UNCHANGED <<rowVars, execVars, issueVars, requests, workerVars, budgetVars>>

-----------------------------------------------------------------------------
(***************************************************************************)
(* handleSentUncertain: record, then act by retry class.                   *)
(***************************************************************************)
\* (mutant) Money movement is retried like any idempotent action.
UncertainLabel_RetriesMoney(r) ==
  CASE Class(r) \in {"RECONCILIATION_FIRST", "AUTO_RETRY_WITH_DEDUPE"} -> "reconcile"
    [] Class(r) = "BEST_EFFORT_NO_BLOCK"                               -> "sent"
    [] OTHER                                                           -> "retry"

UncertainLabel(r) ==
  CASE Class(r) \in {"OPERATOR_RETRY_ONLY", "RECONCILIATION_FIRST",
                     "AUTO_RETRY_WITH_DEDUPE"}  -> "reconcile"
    [] Class(r) = "BEST_EFFORT_NO_BLOCK"        -> "sent"
    [] OTHER                                    -> "retry"

recordUncertain(w) ==
  /\ At(w, "uncertain")
  /\ updateEffectStatus(Row(w), "SENT_UNCERTAIN")
  /\ Goto(w, UncertainLabel(Row(w)))
  /\ UNCHANGED <<status, attempts, due, settledAt, execVars, issueVars,
                 providerVars, budgetVars>>

\* The read may also fail, which counts as not confirmed.
reconcile(w) ==
  /\ At(w, "reconcile")
  /\ \/ Observable(Row(w)) /\ Goto(w, "reconciled")
     \/ Goto(w, IF Class(Row(w)) = "OPERATOR_RETRY_ONLY" THEN "block" ELSE "retry")
  /\ UNCHANGED <<rowVars, execVars, issueVars, providerVars, budgetVars>>

appendReconciledEntry(w) ==
  /\ At(w, "reconciled")
  /\ appendEffectEntry(Row(w), "CONFIRMED")
  /\ Goto(w, "sent")
  /\ UNCHANGED <<status, attempts, due, settledAt, execVars, issueVars,
                 providerVars, budgetVars>>

blockForOperator(w) ==
  /\ At(w, "block")
  /\ status' = [status EXCEPT ![Row(w)] = "BLOCKED_OPERATOR"]
  /\ settledAt' = [settledAt EXCEPT ![Row(w)] = TRUE]
  /\ execStatus' = [execStatus EXCEPT ![Exec(Row(w))] = "FAILED_TERMINAL"]
  /\ Finish(w)
  /\ UNCHANGED <<attempts, due, effects, reconciled, issueVars, providerVars,
                 budgetVars>>

-----------------------------------------------------------------------------
(***************************************************************************)
(* handleRetriableFailure, markTerminal and scheduleRetry.                 *)
(***************************************************************************)
recordRetriable(w) ==
  /\ At(w, "fail")
  /\ updateEffectStatus(Row(w), "FAILED_RETRIABLE")
  /\ Goto(w, "retry")
  /\ UNCHANGED <<status, attempts, due, settledAt, execVars, issueVars,
                 providerVars, budgetVars>>

scheduleRetry(w) ==
  /\ At(w, "retry")
  /\ status' = [status EXCEPT ![Row(w)] = "FAILED_RETRIABLE"]
  /\ due' = [due EXCEPT ![Row(w)] = FALSE]
  /\ execStatus' = [execStatus EXCEPT ![Exec(Row(w))] = "FAILED_RETRIABLE"]
  /\ Finish(w)
  /\ UNCHANGED <<attempts, settledAt, effects, reconciled, issueVars,
                 providerVars, budgetVars>>

markTerminal(w) ==
  /\ At(w, "terminal")
  /\ updateEffectStatus(Row(w), "FAILED_TERMINAL")
  /\ status' = [status EXCEPT ![Row(w)] = "FAILED_TERMINAL"]
  /\ settledAt' = [settledAt EXCEPT ![Row(w)] = TRUE]
  /\ execStatus' = [execStatus EXCEPT ![Exec(Row(w))] = "FAILED_TERMINAL"]
  /\ Finish(w)
  /\ UNCHANGED <<attempts, due, reconciled, issueVars, providerVars, budgetVars>>

-----------------------------------------------------------------------------
(***************************************************************************)
(* handleSuccess, whose last two steps the other paths share.              *)
(***************************************************************************)
recordConfirmed(w) ==
  /\ At(w, "confirm")
  /\ updateEffectStatus(Row(w), "CONFIRMED")
  /\ Goto(w, "sent")
  /\ UNCHANGED <<status, attempts, due, settledAt, execVars, issueVars,
                 providerVars, budgetVars>>

\* (mutant) The deduplicated path forgets checkAndCompleteExecution.
markOutboxSent_NoCheck(w) ==
  /\ At(w, "sent")
  /\ status' = [status EXCEPT ![Row(w)] = "SENT"]
  /\ settledAt' = [settledAt EXCEPT ![Row(w)] = TRUE]
  /\ IF msg[w].settled THEN Finish(w) ELSE Goto(w, "count")
  /\ UNCHANGED <<attempts, due, effects, execVars, issueVars, providerVars,
                 budgetVars>>

markOutboxSent(w) ==
  /\ At(w, "sent")
  /\ status' = [status EXCEPT ![Row(w)] = "SENT"]
  /\ settledAt' = [settledAt EXCEPT ![Row(w)] = TRUE]
  /\ Goto(w, "count")
  /\ UNCHANGED <<attempts, due, effects, execVars, issueVars, providerVars,
                 budgetVars>>

(***************************************************************************)
(* checkAndCompleteExecution.  Its transaction holds the issue row from    *)
(* the count to the commit; the outbox rows it counted are not locked.     *)
(***************************************************************************)
AllSent(e) == \A r \in RowsOf(e) : status[r] = "SENT"

\* (mutant) Failed rows are not counted as pending.
countPending_IgnoresFailed(w) ==
  LET e == Exec(Row(w))
      done == \A r \in RowsOf(e) : status[r] \in {"SENT", "FAILED_TERMINAL"}
  IN
  /\ At(w, "count")
  /\ issueLock[Issue(e)] = NoWorker
  /\ \/ /\ done
        /\ issueLock' = [issueLock EXCEPT ![Issue(e)] = w]
        /\ Goto(w, "complete")
     \/ /\ ~done
        /\ Finish(w)
        /\ UNCHANGED issueLock
  /\ UNCHANGED <<rowVars, execVars, state, transitions, card, rebuilding, raced,
                 providerVars, budgetVars>>

countPending(w) ==
  LET e == Exec(Row(w)) IN
  /\ At(w, "count")
  /\ issueLock[Issue(e)] = NoWorker
  /\ \/ /\ AllSent(e)
        /\ issueLock' = [issueLock EXCEPT ![Issue(e)] = w]
        /\ Goto(w, "complete")
     \/ /\ ~AllSent(e)
        /\ Finish(w)
        /\ UNCHANGED issueLock
  /\ UNCHANGED <<rowVars, execVars, state, transitions, card, rebuilding, raced,
                 providerVars, budgetVars>>

applyStateTransition(e) ==
  IF Planned(e) # NoState /\ Planned(e) # state[Issue(e)]
  THEN /\ state' = [state EXCEPT ![Issue(e)] = Planned(e)]
       /\ transitions' = [transitions EXCEPT ![e] = @ + 1]
  ELSE UNCHANGED <<state, transitions>>

\* (mutant) Nobody looks whether another worker completed the execution.
completeExecution_NoStatusCheck(w) ==
  LET e == Exec(Row(w)) IN
  /\ At(w, "complete")
  /\ issueLock' = [issueLock EXCEPT ![Issue(e)] = NoWorker]
  /\ applyStateTransition(e)
  /\ execStatus' = [execStatus EXCEPT ![e] = "COMPLETED"]
  /\ Goto(w, "rebuild")
  /\ UNCHANGED <<rowVars, reconciled, card, rebuilding, raced, providerVars,
                 budgetVars>>

completeExecution(w) ==
  LET e == Exec(Row(w)) IN
  /\ At(w, "complete")
  /\ issueLock' = [issueLock EXCEPT ![Issue(e)] = NoWorker]
  /\ \/ /\ execStatus[e] = "COMPLETED"
        /\ Finish(w)
        /\ UNCHANGED <<state, transitions, execStatus>>
     \/ /\ execStatus[e] # "COMPLETED"
        /\ applyStateTransition(e)
        /\ execStatus' = [execStatus EXCEPT ![e] = "COMPLETED"]
        /\ Goto(w, "rebuild")
  /\ UNCHANGED <<rowVars, reconciled, card, rebuilding, raced, providerVars,
                 budgetVars>>

(***************************************************************************)
(* rebuildCardState: one statement, but not one step.  It shows what was   *)
(* committed when it began; for the row of the card it may wait, and then  *)
(* overwrites it whatever has been written there since.                    *)
(***************************************************************************)
RebuildsOf(i) ==
  {p \in Rebuilders : rebuilding[p] # NoStatement /\ rebuilding[p].issue = i}

beginRebuild(p, i) ==
  rebuilding' = [q \in Rebuilders |->
    IF q = p
    THEN [issue |-> i, state |-> state[i], alone |-> RebuildsOf(i) = {}]
    ELSE IF q \in RebuildsOf(i) THEN [rebuilding[q] EXCEPT !.alone = FALSE]
                                ELSE rebuilding[q]]

commitRebuild(p) ==
  LET i == rebuilding[p].issue IN
  /\ rebuilding[p] # NoStatement
  /\ card' = [card EXCEPT ![i] = rebuilding[p].state]
  /\ raced' = IF rebuilding[p].alone THEN raced \ {i} ELSE raced \cup {i}
  /\ rebuilding' = [rebuilding EXCEPT ![p] = NoStatement]

\* (mutant) The read model is not rebuilt.
rebuildCardState_Skipped(w) ==
  /\ At(w, "rebuild")
  /\ Finish(w)
  /\ UNCHANGED <<rowVars, execVars, issueVars, providerVars, budgetVars>>

rebuildCardState(w) ==
  /\ At(w, "rebuild")
  /\ beginRebuild(w, Issue(Exec(Row(w))))
  /\ Goto(w, "upsert")
  /\ UNCHANGED <<rowVars, execVars, state, transitions, issueLock, card, raced,
                 providerVars, budgetVars>>

upsertCardState(w) ==
  /\ At(w, "upsert")
  /\ commitRebuild(w)
  /\ Finish(w)
  /\ UNCHANGED <<rowVars, execVars, state, transitions, issueLock, providerVars,
                 budgetVars>>

\* ingestTicketContext and POST ops/.../recompute-match call it for an issue
\* whatever its executions are doing.
refreshCard(p, i) ==
  /\ rebuilding[p] = NoStatement
  /\ beginRebuild(p, i)
  /\ UNCHANGED <<rowVars, execVars, state, transitions, issueLock, card, raced,
                 providerVars, workerVars, budgetVars>>

upsertRefreshed(p) ==
  /\ commitRebuild(p)
  /\ UNCHANGED <<rowVars, execVars, state, transitions, issueLock, providerVars,
                 workerVars, budgetVars>>

-----------------------------------------------------------------------------
(***************************************************************************)
(* Failures.                                                               *)
(***************************************************************************)
\* What the worker's transaction or statement had locked or read is gone.
Rollback(w) ==
  /\ issueLock' = [i \in Issues |-> IF issueLock[i] = w THEN NoWorker ELSE issueLock[i]]
  /\ rebuilding' = [rebuilding EXCEPT ![w] = NoStatement]

\* handleSuccess runs inside the try block, so a database error in it is
\* treated as if the provider call had failed.
faultInHandleSuccess(w) ==
  /\ faults < MaxDbFaults
  /\ inTry[w] /\ msg[w] # NoMsg
  /\ faults' = faults + 1
  /\ pc' = [pc EXCEPT ![w] = FailureLabel(msg[w])]
  /\ inTry' = [inTry EXCEPT ![w] = FALSE]
  /\ Rollback(w)
  /\ UNCHANGED <<msg, batch, rowVars, execVars, state, transitions, card, raced,
                 providerVars, crashes>>

\* The process dies, or an error escapes processMessage and the batch is
\* dropped.  An open transaction rolls back; claimed rows stay as they are.
abandonBatch(w) ==
  /\ crashes < MaxCrashes
  /\ msg[w] # NoMsg \/ batch[w] # {}
  /\ crashes' = crashes + 1
  /\ pc' = [pc EXCEPT ![w] = "idle"]
  /\ msg' = [msg EXCEPT ![w] = NoMsg]
  /\ batch' = [batch EXCEPT ![w] = {}]
  /\ inTry' = [inTry EXCEPT ![w] = FALSE]
  /\ Rollback(w)
  /\ UNCHANGED <<rowVars, execVars, state, transitions, card, raced, providerVars,
                 faults>>

-----------------------------------------------------------------------------
(***************************************************************************)
(* Operators: routes/ops.ts.                                               *)
(***************************************************************************)
\* Reconciliation is metadata on a failed execution; its status stays.
reconcileExecution(e) ==
  /\ execStatus[e] = "FAILED_TERMINAL"
  /\ e \notin reconciled
  /\ reconciled' = reconciled \cup {e}
  /\ UNCHANGED <<rowVars, execStatus, issueVars, providerVars, workerVars,
                 budgetVars>>

\* Force the ticket to a status, without touching the issue.
syncZendesk(i, s) ==
  /\ ticketStatus' = [ticketStatus EXCEPT ![i] = s]
  /\ UNCHANGED <<rowVars, execVars, issueVars, requests, inFlight, applied,
                 workerVars, budgetVars>>

-----------------------------------------------------------------------------
processMessage(w) ==
  \/ startMessage(w)
  \/ markExecutionInProgress(w)
  \/ appendIntended(w)
  \/ executeExternalCall(w)
  \/ recordUncertain(w)
  \/ reconcile(w)
  \/ appendReconciledEntry(w)
  \/ blockForOperator(w)
  \/ recordRetriable(w)
  \/ scheduleRetry(w)
  \/ markTerminal(w)
  \/ recordConfirmed(w)
  \/ markOutboxSent(w)
  \/ countPending(w)
  \/ completeExecution(w)
  \/ rebuildCardState(w)
  \/ upsertCardState(w)

\* One iteration of the loop in startOutboxWorker makes progress.
WorkerStep(w) == claimBatch(w) \/ processMessage(w)

Next ==
  \/ \E e \in Executions : createActionExecution(e) \/ reconcileExecution(e)
  \/ \E r \in Rows : BackoffElapses(r) \/ landLate(r)
  \/ \E w \in Workers : WorkerStep(w)
  \/ \E w \in Workers : faultInHandleSuccess(w) \/ abandonBatch(w)
  \/ \E i \in Issues, s \in TicketStatus : syncZendesk(i, s)
  \/ \E p \in Refreshers : upsertRefreshed(p) \/ \E i \in Issues : refreshCard(p, i)

Spec == Init /\ [][Next]_vars

\* Worker loops keep running, every provider call ends (10 and 15 second
\* timeouts) and backoffs elapse.  Nothing obliges an operator, a client or a
\* failure to act.
Fairness ==
  /\ \A w \in Workers : WF_vars(WorkerStep(w))
  /\ \A r \in Rows : WF_vars(BackoffElapses(r))

FairSpec == Spec /\ Fairness
-----------------------------------------------------------------------------
(***************************************************************************)
(* Properties.                                                             *)
(***************************************************************************)
FinalStatus == {"SENT", "FAILED_TERMINAL", "BLOCKED_OPERATOR"}

MoneyRow(r) == Class(r) = "OPERATOR_RETRY_ONLY"

Held(w) == {m.row : m \in batch[w]} \cup (IF msg[w] = NoMsg THEN {} ELSE {Row(w)})

(***************************************************************************)
(* A row is being worked on by one worker at most: claims exclude each     *)
(* other, and a row only becomes claimable again in the step in which its  *)
(* worker lets go of it (claimBatch, scheduleRetry).                       *)
(***************************************************************************)
ClaimExclusive ==
  \A w1, w2 \in Workers : w1 # w2 => Held(w1) \cap Held(w2) = {}

(***************************************************************************)
(* The retry budget bounds what reaches a provider, whatever mixture of    *)
(* errors, timeouts, crashes and failed commits a row goes through: at     *)
(* most MAX_ATTEMPTS requests, and one more claim to settle a timeout.     *)
(***************************************************************************)
AttemptBudget ==
  \A r \in Rows : requests[r] <= MaxAttempts /\ attempts[r] <= MaxAttempts + 1

(***************************************************************************)
(* The dedupe gate works although it looks at a snapshot taken when the    *)
(* batch was claimed: no request is sent for an effect that is settled at  *)
(* the moment of sending.                                                  *)
(***************************************************************************)
NoDispatchOfSettled ==
  [][\A r \in Rows : requests'[r] # requests[r] => ~isSettled(r)]_vars

(***************************************************************************)
(* A refund is never reported done unless the provider has made one under  *)
(* its effect key: no row of an OPERATOR_RETRY_ONLY execution is SENT, and *)
(* no such execution COMPLETED, before the provider has acted on it.  The  *)
(* money need not have moved: of the answer only refund.id is read         *)
(* (executeStripeCall, reconcileStripeRefund).                             *)
(***************************************************************************)
RefundReportedOnlyIfMade ==
  /\ \A r \in Rows : MoneyRow(r) /\ status[r] = "SENT" => r \in applied
  /\ \A e \in Executions :
       Request[e].action = "issue_refund" /\ execStatus[e] = "COMPLETED"
         => RowsOf(e) \subseteq applied

(***************************************************************************)
(* Once the worker has stopped for an operator, or a row has failed for    *)
(* good, nothing takes the row up again.                                   *)
(***************************************************************************)
StoppedRowsStayStopped ==
  [][\A r \in Rows : status[r] \in {"FAILED_TERMINAL", "BLOCKED_OPERATOR"}
       => status'[r] = status[r] /\ requests'[r] = requests[r]]_vars

(***************************************************************************)
(* Two workers that finish the last two effects of an execution together   *)
(* do not both apply its transition.                                       *)
(***************************************************************************)
OneTransitionPerExecution == \A e \in Executions : transitions[e] <= 1

(***************************************************************************)
(* The agent's card shows the state of the issue, except from the commit   *)
(* that moves the issue until the rebuild that follows it, and except      *)
(* after two rebuilds of the issue that overlapped: then an older state    *)
(* may have been written last, and stays until the next rebuild, although  *)
(* every worker has done its part (rebuildCardState).                      *)
(***************************************************************************)
AboutToShow(w, i) ==
  \/ At(w, "rebuild") /\ Issue(Exec(Row(w))) = i
  \/ At(w, "upsert") /\ rebuilding[w].issue = i /\ rebuilding[w].state = state[i]

CardFollowsIssue ==
  \A i \in Issues \ raced : card[i] # state[i] => \E w \in Workers : AboutToShow(w, i)

(***************************************************************************)
(* Without crashes no completion is lost: when every effect of an          *)
(* execution is SENT it is COMPLETED, or some worker is still about to     *)
(* count its rows, and will see that nothing is pending.                   *)
(***************************************************************************)
CompletionNotLost ==
  \A e \in Executions :
    RowsOf(e) # {} /\ AllSent(e) /\ execStatus[e] # "COMPLETED"
      => \E w \in Workers : /\ At(w, "count") \/ At(w, "complete")
                           /\ Exec(Row(w)) = e

(***************************************************************************)
(* Without crashes every queued effect is settled one way or another: the  *)
(* budget stops the retries of errors, the gate those of timeouts.         *)
(***************************************************************************)
EffectsSettle ==
  \A r \in Rows : status[r] = "PENDING" ~> status[r] \in FinalStatus

(***************************************************************************)
(* An execution with a single effect always ends, done or failed.          *)
(***************************************************************************)
SingleEffectExecutionsEnd ==
  \A e \in Executions :
    Len(Plan(e)) = 1 /\ execStatus[e] = "PENDING"
      ~> execStatus[e] \in {"COMPLETED", "FAILED_TERMINAL"}
-----------------------------------------------------------------------------
(***************************************************************************)
(* A statement of the repository that the code does not keep: it is        *)
(* refuted by a run of its own; the README tells the behaviour.            *)
(***************************************************************************)
\* README.md: "A crash, a restart, or a duplicate claim resolves to the same
\* single side effect", so a claimed row is eventually settled or released.
ClaimsResolve ==
  \A r \in Rows : status[r] = "IN_PROGRESS" ~> status[r] # "IN_PROGRESS"
=============================================================================
