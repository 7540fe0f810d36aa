---------------------------- MODULE OutboxProofs ----------------------------
(***************************************************************************)
(* Proofs about Outbox, for any executions, requests, workers and bounds.  *)
(***************************************************************************)
EXTENDS OutboxContract, SequenceTheorems, TLAPS

-----------------------------------------------------------------------------
(***************************************************************************)
(* The operators the model is built from.                                  *)
(***************************************************************************)
\* What an action plans is a state of an issue, or nothing.
LEMMA PlannedType ==
  ASSUME NEW e \in Executions, Planned(e) # NoState
  PROVE  Planned(e) \in IssueState
BY DEF Planned, deriveTargetState, IssueState

\* A row belongs to exactly one execution, the one it names.
LEMMA RowOwner ==
  /\ \A r \in Rows : Exec(r) \in Executions /\ r \in RowsOf(Exec(r))
  /\ \A e \in Executions : \A r \in RowsOf(e) : r \in Rows /\ Exec(r) = e
BY DEF Rows, RowsOf, Exec

\* Every row acts on the issue of its execution.
LEMMA IssueType ==
  ASSUME NEW e \in Executions
  PROVE  Issue(e) \in Issues
BY ConstantsAssumption DEF Issue, RequestType

\* appendEffectEntry adds one entry and touches no other effect.
LEMMA AppendEffect ==
  ASSUME effects \in [Rows -> Seq(EffectOutcomeStatus)], NEW r \in Rows,
         NEW o \in EffectOutcomeStatus, appendEffectEntry(r, o)
  PROVE  /\ effects' \in [Rows -> Seq(EffectOutcomeStatus)]
         /\ effects'[r] = Append(effects[r], o)
         /\ \A q \in Rows \ {r} : effects'[q] = effects[q]
BY AppendProperties DEF appendEffectEntry

\* updateEffectStatus rewrites the last entry and touches no other.
LEMMA UpdateEffect ==
  ASSUME effects \in [Rows -> Seq(EffectOutcomeStatus)], NEW r \in Rows,
         NEW o \in EffectOutcomeStatus, updateEffectStatus(r, o)
  PROVE  /\ effects' \in [Rows -> Seq(EffectOutcomeStatus)]
         /\ DOMAIN effects'[r] = DOMAIN effects[r]
         /\ \A k \in DOMAIN effects[r] :
              effects'[r][k] = IF k = Len(effects[r]) THEN o ELSE effects[r][k]
         /\ \A q \in Rows \ {r} : effects'[q] = effects[q]
<1>1. effects' = [effects EXCEPT ![r] = [effects[r] EXCEPT ![Len(effects[r])] = o]]
  BY DEF updateEffectStatus
<1>2. effects[r] \in Seq(EffectOutcomeStatus)
  OBVIOUS
<1>. DEFINE s == effects[r]
            t == [s EXCEPT ![Len(s)] = o]
<1>3. s \in Seq(EffectOutcomeStatus) /\ Len(s) \in Nat /\ DOMAIN s = 1 .. Len(s)
  BY <1>2, LenProperties
<1>4. t \in Seq(EffectOutcomeStatus)
  <2>1. CASE Len(s) = 0
    <3>1. \A k \in DOMAIN s : FALSE
      BY <1>3, <2>1
    <3>2. t = s
      BY <1>3, <3>1
    <3>3. QED
      BY <1>3, <3>2
  <2>2. CASE Len(s) # 0
    BY <1>3, <2>2, ExceptSeq
  <2>3. QED
    BY <2>1, <2>2
<1>5. DOMAIN t = DOMAIN s
  OBVIOUS
<1>6. \A k \in DOMAIN s : t[k] = IF k = Len(s) THEN o ELSE s[k]
  OBVIOUS
<1>7. effects' = [effects EXCEPT ![r] = t]
  BY <1>1
<1>8. effects'[r] = t /\ \A q \in Rows \ {r} : effects'[q] = effects[q]
  BY <1>7
<1>9. effects' \in [Rows -> Seq(EffectOutcomeStatus)]
  BY <1>4, <1>7
<1>10. QED
  BY <1>5, <1>6, <1>8, <1>9

\* A worker that processes a message works on a row.
LEMMA CurrentRow ==
  ASSUME TypeOK, NEW w \in Workers, msg[w] # NoMsg
  PROVE  /\ msg[w] \in OutboxRow /\ Row(w) \in Rows
         /\ Exec(Row(w)) \in Executions /\ Row(w) \in RowsOf(Exec(Row(w)))
<1>1. msg[w] \in OutboxRow
  BY DEF TypeOK
<1>2. Row(w) \in Rows
  BY <1>1 DEF OutboxRow, Row
<1>3. QED
  BY <1>1, <1>2, RowOwner

\* Workers hold rows of the table.
LEMMA HeldRows ==
  ASSUME TypeOK, NEW w \in Workers
  PROVE  \A r \in Held(w) : r \in Rows
<1>1. \A m \in batch[w] : m.row \in Rows
  BY DEF TypeOK, OutboxRow
<1>2. msg[w] # NoMsg => Row(w) \in Rows
  BY CurrentRow
<1>3. QED
  BY <1>1, <1>2 DEF Held

-----------------------------------------------------------------------------
(***************************************************************************)
(* Types.                                                                  *)
(***************************************************************************)
\* Every variable has its type initially.
LEMMA TypeInit == Init => TypeOK
BY ConstantsAssumption, EmptySeq DEF Init, TypeOK, OutboxStatus, ExecutionStatus, IssueState,
  TicketStatus, PCs

\* What a rebuild shows is a state of an issue, and nothing else is written
\* by a statement of rebuildCardState, nor by the rollback of one.
LEMMA RebuildTypes ==
  ASSUME TypeOK, NEW p \in Rebuilders
  PROVE  /\ \A i \in Issues : beginRebuild(p, i)
               => rebuilding' \in [Rebuilders -> CardStatement \cup {NoStatement}]
         /\ commitRebuild(p)
               => /\ card' \in [Issues -> IssueState]
                  /\ raced' \in SUBSET Issues
                  /\ rebuilding' \in [Rebuilders -> CardStatement \cup {NoStatement}]
         /\ Rollback(p)
               => /\ issueLock' \in [Issues -> Workers \cup {NoWorker}]
                  /\ rebuilding' \in [Rebuilders -> CardStatement \cup {NoStatement}]
<1>. USE DEF TypeOK
<1>1. ASSUME NEW i \in Issues, beginRebuild(p, i)
      PROVE  rebuilding' \in [Rebuilders -> CardStatement \cup {NoStatement}]
  <2>1. [issue |-> i, state |-> state[i], alone |-> RebuildsOf(i) = {}] \in CardStatement
    <3>1. (RebuildsOf(i) = {}) \in BOOLEAN
      OBVIOUS
    <3>2. QED
      BY <3>1 DEF CardStatement
  <2>2. ASSUME NEW q \in RebuildsOf(i)
        PROVE  [rebuilding[q] EXCEPT !.alone = FALSE] \in CardStatement
    BY DEF RebuildsOf, CardStatement
  <2>3. QED
    BY <1>1, <2>1, <2>2 DEF beginRebuild
<1>2. ASSUME commitRebuild(p)
      PROVE  /\ card' \in [Issues -> IssueState]
             /\ raced' \in SUBSET Issues
             /\ rebuilding' \in [Rebuilders -> CardStatement \cup {NoStatement}]
  BY <1>2 DEF commitRebuild, CardStatement
<1>3. QED
  BY <1>1, <1>2 DEF Rollback

\* No step gives a variable a value outside its type.
LEMMA TypeNext == TypeOK /\ [Next]_vars => TypeOK'
<1>. USE ConstantsAssumption
<1>. SUFFICES ASSUME TypeOK, [Next]_vars PROVE TypeOK'
  OBVIOUS
<1>. USE DEF TypeOK
<1>1. ASSUME NEW e \in Executions, createActionExecution(e) PROVE TypeOK'
  <2>1. <<"INTENDED">> \in Seq(EffectOutcomeStatus)
    BY DEF EffectOutcomeStatus
  <2>2. effects' \in [Rows -> Seq(EffectOutcomeStatus)]
    BY <1>1, <2>1 DEF createActionExecution
  <2>3. QED
    BY <1>1, <2>2 DEF createActionExecution, OutboxStatus, ExecutionStatus,
      issueVars, providerVars, workerVars, budgetVars
<1>2. ASSUME NEW e \in Executions, reconcileExecution(e) PROVE TypeOK'
  BY <1>2 DEF reconcileExecution, rowVars, issueVars, providerVars, workerVars, budgetVars
<1>3. ASSUME NEW r \in Rows, BackoffElapses(r) PROVE TypeOK'
  BY <1>3 DEF BackoffElapses, execVars, issueVars, providerVars, workerVars, budgetVars
<1>4. ASSUME NEW r \in Rows, landLate(r) PROVE TypeOK'
  <2>1. Issue(Exec(r)) \in Issues
    BY RowOwner, IssueType
  <2>2. QED
    BY <1>4, <2>1 DEF landLate, Land, targetStatus, TicketStatus,
      rowVars, execVars, issueVars, workerVars, budgetVars
<1>5. ASSUME NEW w \in Workers, claimBatch(w) PROVE TypeOK'
  <2>1. PICK S \in SUBSET Claimable :
          /\ status' = [r \in Rows |-> IF r \in S THEN "IN_PROGRESS" ELSE status[r]]
          /\ attempts' = [r \in Rows |-> IF r \in S THEN attempts[r] + 1 ELSE attempts[r]]
          /\ batch' = [batch EXCEPT ![w] = {Snapshot(r) : r \in S}]
    BY <1>5 DEF claimBatch
  <2>2. \A r \in S : Snapshot(r) \in OutboxRow
    BY DEF Claimable, Snapshot, OutboxRow, isSettled
  <2>3. batch' \in [Workers -> SUBSET OutboxRow]
    BY <2>1, <2>2
  <2>4. QED
    BY <1>5, <2>1, <2>3 DEF claimBatch, OutboxStatus, execVars, issueVars,
      providerVars, budgetVars
<1>6. ASSUME NEW w \in Workers, processMessage(w) PROVE TypeOK'
  <2>. USE DEF Goto, Finish, PCs
  <2>1. CASE startMessage(w)
    BY <2>1 DEF startMessage, rowVars, execVars, issueVars, providerVars, budgetVars
  <2>. DEFINE e == Exec(Row(w))
  <2>0. CASE ~startMessage(w)
    <3>1. Row(w) \in Rows /\ e \in Executions
      BY <1>6, <2>0, CurrentRow DEF processMessage, At, markExecutionInProgress,
        appendIntended, executeExternalCall, recordUncertain, reconcile,
        appendReconciledEntry, blockForOperator, recordRetriable, scheduleRetry,
        markTerminal, recordConfirmed, markOutboxSent, countPending,
        completeExecution, rebuildCardState, upsertCardState
    <3>2. Issue(e) \in Issues
      BY <3>1, IssueType
    <3>3. CASE markExecutionInProgress(w)
      BY <3>1, <3>3 DEF markExecutionInProgress, ExecutionStatus, rowVars, issueVars,
        providerVars, budgetVars
    <3>4. CASE appendIntended(w)
      BY <3>1, <3>4, AppendEffect DEF appendIntended, EffectOutcomeStatus, execVars,
        issueVars, providerVars, budgetVars
    <3>5. CASE executeExternalCall(w)
      <4>1. applied' \in SUBSET Rows /\ inFlight' \in SUBSET Rows
            /\ ticketStatus' \in [Issues -> TicketStatus]
        BY <3>1, <3>2, <3>5 DEF executeExternalCall, Land, targetStatus, TicketStatus
      <4>2. pc' \in [Workers -> PCs] /\ inTry' \in [Workers -> BOOLEAN]
        BY <3>5 DEF executeExternalCall, FailureLabel
      <4>3. requests' \in [Rows -> Nat]
        BY <3>1, <3>5 DEF executeExternalCall
      <4>4. UNCHANGED <<msg, batch, rowVars, execVars, issueVars, budgetVars>>
        BY <3>5 DEF executeExternalCall
      <4>5. QED
        BY <4>1, <4>2, <4>3, <4>4 DEF rowVars, execVars, issueVars, budgetVars
    <3>6. CASE recordUncertain(w)
      BY <3>1, <3>6, UpdateEffect DEF recordUncertain, UncertainLabel,
        EffectOutcomeStatus, execVars, issueVars, providerVars, budgetVars
    <3>7. CASE reconcile(w)
      BY <3>7 DEF reconcile, rowVars, execVars, issueVars, providerVars, budgetVars
    <3>8. CASE appendReconciledEntry(w)
      BY <3>1, <3>8, AppendEffect DEF appendReconciledEntry, EffectOutcomeStatus,
        execVars, issueVars, providerVars, budgetVars
    <3>9. CASE blockForOperator(w)
      BY <3>1, <3>9 DEF blockForOperator, OutboxStatus, ExecutionStatus, issueVars,
        providerVars, budgetVars
    <3>10. CASE recordRetriable(w)
      BY <3>1, <3>10, UpdateEffect DEF recordRetriable, EffectOutcomeStatus, execVars,
        issueVars, providerVars, budgetVars
    <3>11. CASE scheduleRetry(w)
      BY <3>1, <3>11 DEF scheduleRetry, OutboxStatus, ExecutionStatus, issueVars,
        providerVars, budgetVars
    <3>12. CASE markTerminal(w)
      BY <3>1, <3>12, UpdateEffect DEF markTerminal, EffectOutcomeStatus, OutboxStatus,
        ExecutionStatus, issueVars, providerVars, budgetVars
    <3>13. CASE recordConfirmed(w)
      BY <3>1, <3>13, UpdateEffect DEF recordConfirmed, EffectOutcomeStatus, execVars,
        issueVars, providerVars, budgetVars
    <3>14. CASE markOutboxSent(w)
      BY <3>1, <3>14 DEF markOutboxSent, OutboxStatus, execVars, issueVars,
        providerVars, budgetVars
    <3>15. CASE countPending(w)
      <4>1. issueLock' \in [Issues -> Workers \cup {NoWorker}]
        BY <3>2, <3>15 DEF countPending
      <4>2. /\ pc' \in [Workers -> PCs]
            /\ msg' \in [Workers -> OutboxRow \cup {NoMsg}]
            /\ batch' \in [Workers -> SUBSET OutboxRow]
            /\ inTry' \in [Workers -> BOOLEAN]
        BY <3>15 DEF countPending
      <4>3. QED
        BY <3>15, <4>1, <4>2 DEF countPending, rowVars, execVars, providerVars, budgetVars
    <3>16. CASE completeExecution(w)
      <4>1. Planned(e) # NoState => Planned(e) \in IssueState
        BY <3>1, PlannedType
      <4>2. \/ UNCHANGED <<state, transitions>>
            \/ /\ Planned(e) # NoState
               /\ state' = [state EXCEPT ![Issue(e)] = Planned(e)]
               /\ transitions' = [transitions EXCEPT ![e] = @ + 1]
        BY <3>16 DEF completeExecution, applyStateTransition
      <4>3. state' \in [Issues -> IssueState] /\ transitions' \in [Executions -> Nat]
        <5>1. CASE UNCHANGED <<state, transitions>>
          BY <5>1
        <5>2. CASE /\ Planned(e) # NoState
                   /\ state' = [state EXCEPT ![Issue(e)] = Planned(e)]
                   /\ transitions' = [transitions EXCEPT ![e] = @ + 1]
          <6>1. state' \in [Issues -> IssueState]
            BY <3>2, <4>1, <5>2
          <6>2. transitions' \in [Executions -> Nat]
            <7>. HIDE DEF e
            <7>1. transitions[e] + 1 \in Nat
              BY <3>1
            <7>2. QED
              BY <3>1, <5>2, <7>1
          <6>3. QED
            BY <6>1, <6>2
        <5>3. QED
          BY <4>2, <5>1, <5>2
      <4>4. execStatus' \in [Executions -> ExecutionStatus]
        BY <3>1, <3>16 DEF completeExecution, ExecutionStatus
      <4>5. issueLock' \in [Issues -> Workers \cup {NoWorker}]
        BY <3>16 DEF completeExecution
      <4>6. QED
        BY <3>16, <4>3, <4>4, <4>5 DEF completeExecution, rowVars, providerVars, budgetVars
    <3>17. CASE rebuildCardState(w)
      <4>1. rebuilding' \in [Rebuilders -> CardStatement \cup {NoStatement}]
        BY <3>2, <3>17, RebuildTypes DEF rebuildCardState, Rebuilders
      <4>2. QED
        BY <3>17, <4>1 DEF rebuildCardState, rowVars, execVars, providerVars, budgetVars
    <3>18. CASE upsertCardState(w)
      <4>1. commitRebuild(w) /\ w \in Rebuilders
        BY <3>18 DEF upsertCardState, Rebuilders
      <4>2. QED
        BY <3>18, <4>1, RebuildTypes DEF upsertCardState, rowVars, execVars, providerVars,
          budgetVars
    <3>19. QED
      BY <1>6, <2>0, <3>3, <3>4, <3>5, <3>6, <3>7, <3>8, <3>9, <3>10, <3>11, <3>12,
        <3>13, <3>14, <3>15, <3>16, <3>17, <3>18 DEF processMessage
  <2>2. QED
    BY <2>0, <2>1
<1>7. ASSUME NEW w \in Workers, faultInHandleSuccess(w) PROVE TypeOK'
  <2>1. Rollback(w) /\ w \in Rebuilders
    BY <1>7 DEF faultInHandleSuccess, Rebuilders
  <2>2. QED
    BY <1>7, <2>1, RebuildTypes DEF faultInHandleSuccess, FailureLabel, PCs, rowVars,
      execVars, providerVars
<1>8. ASSUME NEW w \in Workers, abandonBatch(w) PROVE TypeOK'
  <2>1. Rollback(w) /\ w \in Rebuilders
    BY <1>8 DEF abandonBatch, Rebuilders
  <2>2. QED
    BY <1>8, <2>1, RebuildTypes DEF abandonBatch, PCs, rowVars, execVars, providerVars
<1>9. ASSUME NEW i \in Issues, NEW s \in TicketStatus, syncZendesk(i, s) PROVE TypeOK'
  BY <1>9 DEF syncZendesk, rowVars, execVars, issueVars, workerVars, budgetVars
<1>10. ASSUME NEW p \in Refreshers, NEW i \in Issues, refreshCard(p, i) PROVE TypeOK'
  <2>1. rebuilding' \in [Rebuilders -> CardStatement \cup {NoStatement}]
    BY <1>10, RebuildTypes DEF refreshCard, Rebuilders
  <2>2. QED
    BY <1>10, <2>1 DEF refreshCard, rowVars, execVars, providerVars, workerVars, budgetVars
<1>11. ASSUME NEW p \in Refreshers, upsertRefreshed(p) PROVE TypeOK'
  <2>1. commitRebuild(p) /\ p \in Rebuilders
    BY <1>11 DEF upsertRefreshed, Rebuilders
  <2>2. QED
    BY <1>11, <2>1, RebuildTypes DEF upsertRefreshed, rowVars, execVars, providerVars,
      workerVars, budgetVars
<1>12. CASE UNCHANGED vars
  BY <1>12 DEF vars, rowVars, execVars, issueVars, providerVars, workerVars, budgetVars
<1>13. QED
  BY <1>1, <1>2, <1>3, <1>4, <1>5, <1>6, <1>7, <1>8, <1>9, <1>10, <1>11, <1>12
    DEF Next, WorkerStep

\* Every variable keeps its type; in particular an issue only ever takes the
\* states that deriveTargetState may plan for it (applyStateTransition).
THEOREM TypeCorrect == Spec => []TypeOK
BY TypeInit, TypeNext, PTL DEF Spec
-----------------------------------------------------------------------------
(***************************************************************************)
(* The inductive invariant: what is true of a row, of the message a worker *)
(* is processing, of a claimed message it has not started, and of an       *)
(* execution.  The snapshot of a held row stays exact although nobody else *)
(* looks at it, because claims exclude each other.                         *)
(***************************************************************************)
RowOK(r) ==
  /\ execStatus[Exec(r)] = "ABSENT" => status[r] = "ABSENT"
  /\ status[r] = "ABSENT" =>
       attempts[r] = 0 /\ requests[r] = 0 /\ ~settledAt[r]
  /\ status[r] # "ABSENT" => effects[r] # <<>>
  /\ requests[r] <= attempts[r]
  /\ requests[r] <= MaxAttempts
  /\ attempts[r] <= MaxAttempts + 1
  /\ status[r] \in {"PENDING", "FAILED_RETRIABLE"} =>
       /\ attempts[r] <= MaxAttempts
       /\ ~isSettled(r) => attempts[r] < MaxAttempts
       /\ isSettled(r) /\ MoneyRow(r) => r \in applied
  /\ status[r] = "SENT" /\ MoneyRow(r) => r \in applied

BeforeDispatch == {"begin", "append", "dispatch"}
HandleSuccess  == {"confirm", "sent", "count", "complete", "rebuild", "upsert"}

ProcessedOK(w) ==
  LET r == Row(w) IN
  /\ msg[w].attempt = attempts[r]
  /\ status[r] \in {"IN_PROGRESS", "SENT"}
  /\ pc[w] \in BeforeDispatch => ~isSettled(r) /\ requests[r] < attempts[r]
  /\ pc[w] \in BeforeDispatch \cup {"uncertain", "reconcile", "fail", "retry"} =>
       attempts[r] <= MaxAttempts
  /\ pc[w] = "fail" => attempts[r] < MaxAttempts
  /\ pc[w] = "reconcile" => isSettled(r)
  /\ pc[w] = "retry" => isSettled(r) \/ attempts[r] < MaxAttempts
  /\ MoneyRow(r) =>
       /\ pc[w] \in HandleSuccess \cup {"reconciled"} => r \in applied
       /\ pc[w] \in {"fail", "retry"} /\ isSettled(r) => r \in applied
       /\ pc[w] = "complete" => RowsOf(Exec(r)) \subseteq applied

ClaimedOK(m) ==
  /\ m.attempt = attempts[m.row]
  /\ m.settled = isSettled(m.row)
  /\ status[m.row] = "IN_PROGRESS"
  /\ requests[m.row] < attempts[m.row]
  /\ ~m.settled => attempts[m.row] <= MaxAttempts
  /\ m.settled /\ MoneyRow(m.row) => m.row \in applied

\* A worker holds every row once.
HeldOnce(w) ==
  /\ \A m \in batch[w] : msg[w] # NoMsg => m.row # Row(w)
  /\ \A m, n \in batch[w] : m.row = n.row => m = n

CompletedOK(e) ==
  Request[e].action = "issue_refund" /\ execStatus[e] = "COMPLETED"
    => RowsOf(e) \subseteq applied

WorkerOK(w) ==
  /\ msg[w] # NoMsg => ProcessedOK(w)
  /\ inTry[w] => pc[w] \in HandleSuccess
  /\ \A m \in batch[w] : ClaimedOK(m)
  /\ HeldOnce(w)

IInv ==
  /\ TypeOK
  /\ ClaimExclusive
  /\ \A r \in Rows : RowOK(r)
  /\ \A w \in Workers : WorkerOK(w)
  /\ \A e \in Executions : CompletedOK(e)

\* Settling after an append: only a settled outcome settles the effect.
LEMMA AppendSettled ==
  ASSUME TypeOK, NEW r \in Rows, NEW o \in EffectOutcomeStatus,
         appendEffectEntry(r, o), settledAt' = settledAt
  PROVE  isSettled(r)' <=> isSettled(r) \/ o \in SETTLED_STATES
<1>1. effects[r] \in Seq(EffectOutcomeStatus)
  BY DEF TypeOK
<1>2. effects'[r] = Append(effects[r], o)
  BY AppendEffect DEF TypeOK
<1>3. /\ DOMAIN effects'[r] = 1 .. (Len(effects[r]) + 1)
      /\ DOMAIN effects[r] = 1 .. Len(effects[r])
      /\ Len(effects[r]) \in Nat
  BY <1>1, <1>2
<1>4. \A k \in DOMAIN effects'[r] :
        effects'[r][k] = IF k = Len(effects[r]) + 1 THEN o ELSE effects[r][k]
  BY <1>1, <1>2, <1>3
<1>5. Len(effects[r]) + 1 \in DOMAIN effects'[r]
  BY <1>3
<1>6. DOMAIN effects'[r] = DOMAIN effects[r] \cup {Len(effects[r]) + 1}
  BY <1>3
<1>7. Len(effects[r]) + 1 \notin DOMAIN effects[r]
  BY <1>3
<1>8. QED
  BY <1>4, <1>5, <1>6, <1>7 DEF isSettled

\* Settling after an update: a settled outcome settles the effect, and no other
\* outcome does.
LEMMA UpdateSettled ==
  ASSUME TypeOK, NEW r \in Rows, NEW o \in EffectOutcomeStatus,
         updateEffectStatus(r, o), settledAt' = settledAt
  PROVE  /\ o \in SETTLED_STATES /\ effects[r] # <<>> => isSettled(r)'
         /\ o \notin SETTLED_STATES /\ ~isSettled(r) => ~isSettled(r)'
         /\ effects[r] # <<>> => effects'[r] # <<>>
<1>1. effects[r] \in Seq(EffectOutcomeStatus) /\ effects'[r] \in Seq(EffectOutcomeStatus)
  BY UpdateEffect DEF TypeOK
<1>2. DOMAIN effects[r] = 1 .. Len(effects[r]) /\ Len(effects[r]) \in Nat
  BY <1>1
<1>3. /\ DOMAIN effects'[r] = DOMAIN effects[r]
      /\ \A k \in DOMAIN effects[r] :
           effects'[r][k] = IF k = Len(effects[r]) THEN o ELSE effects[r][k]
  BY UpdateEffect DEF TypeOK
<1>4. effects[r] # <<>> => Len(effects[r]) \in DOMAIN effects[r]
  BY <1>1, <1>2
<1>5. effects[r] # <<>> => effects'[r] # <<>>
  BY <1>1, <1>3, <1>4
<1>6. QED
  BY <1>3, <1>4, <1>5 DEF isSettled

\* A step that leaves the row and its effect alone.
Undisturbed(r) ==
  /\ status'[r] = status[r] /\ attempts'[r] = attempts[r]
  /\ settledAt'[r] = settledAt[r] /\ effects'[r] = effects[r]
  /\ requests'[r] = requests[r]

\* A row that a step leaves alone is settled afterwards iff it was before.
LEMMA SettledUndisturbed ==
  ASSUME NEW r \in Rows, Undisturbed(r)
  PROVE  isSettled(r)' <=> isSettled(r)
BY DEF Undisturbed, isSettled

\* No step forgets an execution or takes back what a provider has done.
Monotone ==
  /\ applied \subseteq applied'
  /\ \A e \in Executions : execStatus'[e] = "ABSENT" => execStatus[e] = "ABSENT"

\* What the invariant says of a row survives a step that leaves the row alone.
LEMMA RowUndisturbed ==
  ASSUME NEW r \in Rows, RowOK(r), Undisturbed(r), Monotone
  PROVE  RowOK(r)'
BY SettledUndisturbed, RowOwner DEF RowOK, Undisturbed, Monotone, MoneyRow, Class

\* So does what it says of the message a worker is processing.
LEMMA ProcessedUndisturbed ==
  ASSUME TypeOK, NEW w \in Workers, msg[w] # NoMsg, ProcessedOK(w), Monotone,
         pc'[w] = pc[w], msg'[w] = msg[w], inTry'[w] = inTry[w], Undisturbed(Row(w))
  PROVE  ProcessedOK(w)'
<1>. DEFINE r == Row(w)
<1>1. r \in Rows /\ Row(w)' = r
  BY CurrentRow DEF Row
<1>2. Undisturbed(r) /\ (isSettled(r)' <=> isSettled(r))
  BY <1>1, SettledUndisturbed
<1>. HIDE DEF r
<1>3. QED
  BY <1>1, <1>2 DEF ProcessedOK, Undisturbed, Monotone, MoneyRow, Class, r, Row

\* So does what it says of a message claimed and not yet started.
LEMMA ClaimedUndisturbed ==
  ASSUME TypeOK, NEW w \in Workers, NEW m \in batch[w], ClaimedOK(m), Monotone,
         Undisturbed(m.row)
  PROVE  ClaimedOK(m)'
<1>1. m.row \in Rows
  BY DEF TypeOK, OutboxRow
<1>2. isSettled(m.row)' <=> isSettled(m.row)
  BY <1>1, SettledUndisturbed
<1>3. isSettled(m.row)' \in BOOLEAN /\ isSettled(m.row) \in BOOLEAN
  BY <1>1 DEF TypeOK, isSettled, Undisturbed
<1>4. (isSettled(m.row))' = isSettled(m.row)
  BY <1>2, <1>3
<1>5. QED
  BY <1>4 DEF ClaimedOK, Undisturbed, Monotone, MoneyRow, Class

\* A worker that does not move while others leave its rows alone.
LEMMA WorkerUndisturbed ==
  ASSUME TypeOK, NEW w \in Workers, WorkerOK(w), Monotone,
         pc'[w] = pc[w], msg'[w] = msg[w], batch'[w] = batch[w], inTry'[w] = inTry[w],
         \A r \in Held(w) : Undisturbed(r)
  PROVE  WorkerOK(w)'
<1>1. ASSUME msg'[w] # NoMsg PROVE ProcessedOK(w)'
  BY <1>1, ProcessedUndisturbed DEF WorkerOK, Held
<1>2. ASSUME NEW m \in batch'[w] PROVE ClaimedOK(m)'
  BY <1>2, ClaimedUndisturbed DEF WorkerOK, Held
<1>3. HeldOnce(w)'
  BY DEF WorkerOK, HeldOnce, Row
<1>4. inTry'[w] => pc'[w] \in HandleSuccess
  BY DEF WorkerOK
<1>5. QED
  BY <1>1, <1>2, <1>3, <1>4 DEF WorkerOK

(***************************************************************************)
(* A step of one worker on the row of its message.                         *)
(***************************************************************************)
OwnStep(w) ==
  /\ msg[w] # NoMsg
  /\ \A q \in Rows \ {Row(w)} : Undisturbed(q)
  /\ Monotone
  /\ batch' = batch
  /\ msg'[w] \in {msg[w], NoMsg}
  /\ \A x \in Workers \ {w} :
       pc'[x] = pc[x] /\ msg'[x] = msg[x] /\ inTry'[x] = inTry[x]

\* Such a step disturbs no other worker, so it keeps the invariant if it keeps
\* what the invariant says of its own row, message and execution.
LEMMA OwnStepKeeps ==
  ASSUME IInv, TypeOK', NEW w \in Workers, OwnStep(w), NEW r \in Rows, r = Row(w),
         RowOK(r)', msg'[w] # NoMsg => ProcessedOK(w)',
         inTry'[w] => pc'[w] \in HandleSuccess, \A e \in Executions : CompletedOK(e)'
  PROVE  IInv'
<1>1. r \in Held(w)
  BY DEF Held, OwnStep
<1>2. \A q \in Rows : RowOK(q)'
  <2>1. ASSUME NEW q \in Rows, q # r PROVE RowOK(q)'
    BY <2>1, RowUndisturbed DEF IInv, OwnStep
  <2>2. \A q \in Rows \ {r} : RowOK(q)'
    BY <2>1
  <2>3. RowOK(r)'
    OBVIOUS
  <2>4. QED
    BY <2>2, <2>3
<1>3. ASSUME NEW x \in Workers, x # w PROVE WorkerOK(x)'
  <2>1. \A q \in Held(x) : q \in Rows
    BY HeldRows DEF IInv
  <2>2. \A q \in Held(x) : q # r
    BY <1>1, <1>3 DEF IInv, ClaimExclusive
  <2>3. \A q \in Held(x) : Undisturbed(q)
    BY <2>1, <2>2 DEF OwnStep
  <2>4. QED
    BY <1>3, <2>3, WorkerUndisturbed DEF OwnStep, IInv
<1>4. WorkerOK(w)'
  <2>1. ASSUME NEW m \in batch'[w] PROVE ClaimedOK(m)'
    <3>1. m \in batch[w] /\ m.row \in Rows /\ m.row # r
      BY <2>1 DEF OwnStep, IInv, TypeOK, OutboxRow, WorkerOK, HeldOnce
    <3>2. QED
      BY <3>1, ClaimedUndisturbed DEF OwnStep, WorkerOK, IInv
  <2>2. HeldOnce(w)'
    BY DEF OwnStep, IInv, WorkerOK, HeldOnce, Row
  <2>3. QED
    BY <2>1, <2>2 DEF WorkerOK
<1>5. ClaimExclusive'
  <2>1. \A x \in Workers : Held(x)' \subseteq Held(x)
    BY DEF OwnStep, Held, Row
  <2>2. QED
    BY <2>1 DEF IInv, ClaimExclusive
<1>6. QED
  BY <1>2, <1>3, <1>4, <1>5 DEF IInv

\* Completion is only ever lost, or gained with its effects applied.
LEMMA CompletedKept ==
  ASSUME \A e \in Executions : CompletedOK(e), Monotone,
         \A e \in Executions : execStatus'[e] = "COMPLETED" => execStatus[e] = "COMPLETED"
  PROVE  \A e \in Executions : CompletedOK(e)'
BY DEF CompletedOK, Monotone

-----------------------------------------------------------------------------
(***************************************************************************)
(* Every step of a worker on its message keeps the invariant.              *)
(***************************************************************************)
\* From the gate to the reconciliation read: the steps before the outcome of a
\* message is known.
LEMMA DispatchStepsKeep ==
  ASSUME IInv, TypeOK', NEW w \in Workers, msg[w] # NoMsg, NEW r \in Rows, r = Row(w),
         \/ markExecutionInProgress(w) \/ appendIntended(w)
         \/ executeExternalCall(w) \/ recordUncertain(w) \/ reconcile(w)
  PROVE  IInv'
<1>. USE ConstantsAssumption
<1>1. Exec(r) \in Executions /\ r \in RowsOf(Exec(r))
  BY RowOwner
<1>2. TypeOK /\ RowOK(r) /\ ProcessedOK(w) /\ (inTry[w] => pc[w] \in HandleSuccess)
  BY DEF IInv, WorkerOK
<1>3. \A c \in Executions : CompletedOK(c)
  BY DEF IInv
<1>4. CASE markExecutionInProgress(w)
  <2>1. OwnStep(w)
    BY <1>1, <1>2, <1>4 DEF markExecutionInProgress, OwnStep, Undisturbed, Monotone, Goto,
      rowVars, providerVars, TypeOK
  <2>2. Undisturbed(r)
    BY <1>4 DEF markExecutionInProgress, Undisturbed, rowVars, providerVars
  <2>3. RowOK(r)'
    BY <1>2, <2>1, <2>2, RowUndisturbed DEF OwnStep
  <2>4. ProcessedOK(w)'
    BY <1>2, <1>4, <2>1, <2>2, SettledUndisturbed DEF markExecutionInProgress, At, Goto,
      ProcessedOK, BeforeDispatch, HandleSuccess, Undisturbed, TypeOK, Row
  <2>5. \A c \in Executions : CompletedOK(c)'
    BY <1>1, <1>2, <1>3, <1>4, <2>1, CompletedKept DEF markExecutionInProgress, OwnStep,
      TypeOK
  <2>6. ~inTry'[w]
    BY <1>2, <1>4 DEF markExecutionInProgress, At, Goto, HandleSuccess
  <2>7. QED
    BY <2>1, <2>3, <2>4, <2>5, <2>6, OwnStepKeeps
<1>5. CASE appendIntended(w)
  <2>0. effects[r] \in Seq(EffectOutcomeStatus) /\ "INTENDED" \in EffectOutcomeStatus
    BY <1>2 DEF TypeOK, EffectOutcomeStatus
  <2>1. /\ effects'[r] # <<>>
        /\ isSettled(r)' <=> isSettled(r)
        /\ \A q \in Rows \ {r} : effects'[q] = effects[q]
    <3>1. appendEffectEntry(r, "INTENDED") /\ settledAt' = settledAt
      BY <1>5 DEF appendIntended
    <3>2. effects'[r] = Append(effects[r], "INTENDED")
      BY <1>2, <2>0, <3>1, AppendEffect DEF TypeOK
    <3>3. effects'[r] # <<>>
      BY <2>0, <3>2
    <3>4. QED
      BY <1>2, <2>0, <3>1, <3>3, AppendEffect, AppendSettled, ZenonT(60) DEF TypeOK, SETTLED_STATES
  <2>2. OwnStep(w)
    BY <1>2, <1>5, <2>1 DEF appendIntended, OwnStep, Undisturbed, Monotone, Goto,
      execVars, providerVars, TypeOK
  <2>3. RowOK(r)'
    BY <1>1, <1>2, <1>5, <2>1 DEF appendIntended, RowOK, MoneyRow, execVars, providerVars
  <2>4. ProcessedOK(w)'
    BY <1>2, <1>5, <2>1 DEF appendIntended, At, Goto, ProcessedOK, BeforeDispatch,
      HandleSuccess, TypeOK, Row, providerVars
  <2>5. \A c \in Executions : CompletedOK(c)'
    BY <1>3, <1>5, <2>2, CompletedKept DEF appendIntended, OwnStep, execVars
  <2>6. ~inTry'[w]
    BY <1>2, <1>5 DEF appendIntended, At, Goto, HandleSuccess
  <2>7. QED
    BY <2>2, <2>3, <2>4, <2>5, <2>6, OwnStepKeeps
<1>6. CASE executeExternalCall(w)
  <2>1. pc[w] = "dispatch" /\ ~inTry[w]
    BY <1>2, <1>6 DEF executeExternalCall, At, HandleSuccess
  <2>2. /\ UNCHANGED <<status, attempts, settledAt, effects, execStatus, msg, batch>>
        /\ applied \subseteq applied'
        /\ requests' = [requests EXCEPT ![r] = @ + 1]
    BY <1>6 DEF executeExternalCall, Land, rowVars, execVars
  <2>3. /\ pc'[w] \in {"confirm", "uncertain", "fail", "terminal"}
        /\ pc'[w] = "confirm" => r \in applied'
        /\ pc'[w] = "fail" => msg[w].attempt < MaxAttempts
        /\ inTry'[w] => pc'[w] = "confirm"
        /\ \A x \in Workers \ {w} : pc'[x] = pc[x] /\ inTry'[x] = inTry[x]
    <3>1. /\ FailureLabel(msg[w]) \in {"terminal", "fail"}
          /\ FailureLabel(msg[w]) = "fail" => msg[w].attempt < MaxAttempts
      <4>1. msg[w].attempt \in Nat
        BY <1>2, CurrentRow DEF OutboxRow
      <4>2. QED
        BY <4>1 DEF FailureLabel
    <3>2. pc \in [Workers -> PCs] /\ inTry \in [Workers -> BOOLEAN]
      BY <1>2 DEF TypeOK
    <3>3. QED
      BY <1>6, <2>1, <3>1, <3>2 DEF executeExternalCall, Land
  <2>4. OwnStep(w)
    BY <1>2, <2>2, <2>3 DEF OwnStep, Undisturbed, Monotone, TypeOK
  <2>5. isSettled(r)' <=> isSettled(r)
    BY <2>2 DEF isSettled
  <2>6. requests[r] < attempts[r] /\ attempts[r] <= MaxAttempts /\ ~isSettled(r)
    BY <1>2, <2>1 DEF ProcessedOK, BeforeDispatch
  <2>7. requests'[r] <= attempts[r] /\ requests'[r] <= MaxAttempts
    BY <1>2, <2>2, <2>6 DEF TypeOK
  <2>8. RowOK(r)'
    BY <1>2, <2>2, <2>5, <2>6, <2>7 DEF RowOK, ProcessedOK, MoneyRow, Class
  <2>9. ProcessedOK(w)'
    BY <1>2, <2>2, <2>3, <2>5, <2>6 DEF ProcessedOK, BeforeDispatch, HandleSuccess, Row
  <2>10. \A c \in Executions : CompletedOK(c)'
    BY <1>3, <2>2, <2>4, CompletedKept DEF OwnStep
  <2>11. inTry'[w] => pc'[w] \in HandleSuccess
    BY <2>3 DEF HandleSuccess
  <2>12. QED
    BY <2>4, <2>8, <2>9, <2>10, <2>11, OwnStepKeeps DEF OwnStep
<1>7. CASE recordUncertain(w)
  <2>1. pc[w] = "uncertain" /\ ~inTry[w]
    BY <1>2, <1>7 DEF recordUncertain, At, HandleSuccess
  <2>2. /\ UNCHANGED <<status, attempts, settledAt, execStatus, requests, applied>>
        /\ UNCHANGED <<msg, batch, inTry>>
        /\ pc' = [pc EXCEPT ![w] = UncertainLabel(r)]
    BY <1>7 DEF recordUncertain, Goto, execVars, providerVars
  <2>3. /\ effects'[r] # <<>> /\ isSettled(r)'
        /\ \A q \in Rows \ {r} : effects'[q] = effects[q]
    <3>1. updateEffectStatus(r, "SENT_UNCERTAIN") /\ "SENT_UNCERTAIN" \in EffectOutcomeStatus
      BY <1>7 DEF recordUncertain, EffectOutcomeStatus
    <3>2. effects[r] # <<>> /\ effects \in [Rows -> Seq(EffectOutcomeStatus)]
      BY <1>2 DEF RowOK, ProcessedOK, TypeOK
    <3>3. QED
      BY <1>2, <2>2, <3>1, <3>2, UpdateEffect, UpdateSettled DEF SETTLED_STATES
  <2>4. OwnStep(w)
    BY <1>2, <2>2, <2>3 DEF OwnStep, Undisturbed, Monotone, TypeOK
  <2>5. RowOK(r)'
    BY <1>2, <2>2, <2>3 DEF RowOK, ProcessedOK, MoneyRow, Class
  <2>6. /\ pc'[w] \in {"reconcile", "sent", "retry"}
        /\ MoneyRow(r) => pc'[w] = "reconcile"
    BY <1>2, <2>2 DEF UncertainLabel, MoneyRow, TypeOK
  <2>7. ProcessedOK(w)'
    BY <1>2, <2>1, <2>2, <2>3, <2>6 DEF ProcessedOK, BeforeDispatch, HandleSuccess, Row,
      MoneyRow, Class
  <2>8. \A c \in Executions : CompletedOK(c)'
    BY <1>3, <2>2, <2>4, CompletedKept DEF OwnStep
  <2>9. QED
    BY <2>1, <2>2, <2>4, <2>5, <2>7, <2>8, OwnStepKeeps DEF OwnStep
<1>8. CASE reconcile(w)
  <2>1. pc[w] = "reconcile" /\ ~inTry[w]
    BY <1>2, <1>8 DEF reconcile, At, HandleSuccess
  <2>2. /\ UNCHANGED <<status, attempts, settledAt, effects, execStatus, requests, applied>>
        /\ UNCHANGED <<msg, batch, inTry>>
    BY <1>8 DEF reconcile, Goto, rowVars, execVars, providerVars
  <2>3. /\ \A x \in Workers \ {w} : pc'[x] = pc[x]
        /\ pc'[w] \in {"reconciled", "block", "retry"}
        /\ MoneyRow(r) /\ pc'[w] = "reconciled" => r \in applied
        /\ MoneyRow(r) => pc'[w] # "retry"
    BY <1>2, <1>8 DEF reconcile, Goto, Observable, MoneyRow, TypeOK
  <2>4. OwnStep(w)
    BY <1>2, <2>2, <2>3 DEF OwnStep, Undisturbed, Monotone, TypeOK
  <2>5. Undisturbed(r)
    BY <2>2 DEF Undisturbed
  <2>6. RowOK(r)'
    BY <1>2, <2>4, <2>5, RowUndisturbed DEF OwnStep
  <2>7. isSettled(r)' <=> isSettled(r)
    BY <2>5, SettledUndisturbed
  <2>8. ProcessedOK(w)'
    BY <1>2, <2>1, <2>2, <2>3, <2>7 DEF ProcessedOK, BeforeDispatch, HandleSuccess, Row,
      MoneyRow, Class
  <2>9. \A c \in Executions : CompletedOK(c)'
    BY <1>3, <2>2, <2>4, CompletedKept DEF OwnStep
  <2>10. QED
    BY <2>1, <2>2, <2>4, <2>6, <2>8, <2>9, OwnStepKeeps DEF OwnStep
<1>9. QED
  BY <1>4, <1>5, <1>6, <1>7, <1>8

\* The ledger entry of an outcome, and the row it settles.
LEMMA OutcomeStepsKeep ==
  ASSUME IInv, TypeOK', NEW w \in Workers, msg[w] # NoMsg, NEW r \in Rows, r = Row(w),
         \/ appendReconciledEntry(w) \/ recordConfirmed(w) \/ recordRetriable(w)
         \/ markOutboxSent(w)
  PROVE  IInv'
<1>. USE ConstantsAssumption
<1>1. Exec(r) \in Executions /\ r \in RowsOf(Exec(r))
  BY RowOwner
<1>2. TypeOK /\ RowOK(r) /\ ProcessedOK(w) /\ (inTry[w] => pc[w] \in HandleSuccess)
  BY DEF IInv, WorkerOK
<1>3. \A c \in Executions : CompletedOK(c)
  BY DEF IInv
<1>4. CASE appendReconciledEntry(w)
  <2>1. /\ UNCHANGED <<status, attempts, settledAt, execStatus, requests, applied>>
        /\ UNCHANGED <<msg, batch, inTry>>
        /\ pc' = [pc EXCEPT ![w] = "sent"]
    BY <1>4 DEF appendReconciledEntry, Goto, execVars, providerVars
  <2>2. appendEffectEntry(r, "CONFIRMED") /\ "CONFIRMED" \in EffectOutcomeStatus
    BY <1>4 DEF appendReconciledEntry, EffectOutcomeStatus
  <2>3. effects[r] # <<>> /\ effects \in [Rows -> Seq(EffectOutcomeStatus)]
    BY <1>2 DEF RowOK, ProcessedOK, TypeOK
  <2>4. /\ effects'[r] # <<>>
        /\ \A q \in Rows \ {r} : effects'[q] = effects[q]
    BY <2>2, <2>3, AppendEffect
  <2>5. OwnStep(w)
    BY <1>2, <2>1, <2>4 DEF OwnStep, Undisturbed, Monotone, TypeOK
  <2>6. pc[w] = "reconciled" /\ ~inTry[w]
    BY <1>2, <1>4 DEF appendReconciledEntry, At, HandleSuccess
  <2>7. MoneyRow(r) => r \in applied
    BY <1>2, <2>6 DEF ProcessedOK
  <2>8. RowOK(r)'
    BY <1>2, <2>1, <2>4, <2>7 DEF RowOK, ProcessedOK, MoneyRow, Class
  <2>9. ProcessedOK(w)'
    BY <1>2, <2>1, <2>7 DEF ProcessedOK, BeforeDispatch, HandleSuccess, Row, MoneyRow,
      Class, TypeOK
  <2>10. \A c \in Executions : CompletedOK(c)'
    BY <1>3, <2>1, <2>5, CompletedKept DEF OwnStep
  <2>11. QED
    BY <2>1, <2>5, <2>6, <2>8, <2>9, <2>10, OwnStepKeeps DEF OwnStep
<1>5. CASE recordConfirmed(w)
  <2>1. /\ UNCHANGED <<status, attempts, settledAt, execStatus, requests, applied>>
        /\ UNCHANGED <<msg, batch, inTry>>
        /\ pc' = [pc EXCEPT ![w] = "sent"]
    BY <1>5 DEF recordConfirmed, Goto, execVars, providerVars
  <2>2. updateEffectStatus(r, "CONFIRMED") /\ "CONFIRMED" \in EffectOutcomeStatus
    BY <1>5 DEF recordConfirmed, EffectOutcomeStatus
  <2>3. effects[r] # <<>> /\ effects \in [Rows -> Seq(EffectOutcomeStatus)]
    BY <1>2 DEF RowOK, ProcessedOK, TypeOK
  <2>4. /\ effects'[r] # <<>>
        /\ \A q \in Rows \ {r} : effects'[q] = effects[q]
    BY <1>2, <2>1, <2>2, <2>3, UpdateEffect, UpdateSettled
  <2>5. OwnStep(w)
    BY <1>2, <2>1, <2>4 DEF OwnStep, Undisturbed, Monotone, TypeOK
  <2>6. pc[w] = "confirm" /\ pc'[w] = "sent"
    BY <1>2, <1>5, <2>1 DEF recordConfirmed, At, TypeOK
  <2>7. MoneyRow(r) => r \in applied
    BY <1>2, <2>6 DEF ProcessedOK, HandleSuccess
  <2>8. RowOK(r)'
    BY <1>2, <2>1, <2>4, <2>7 DEF RowOK, ProcessedOK, MoneyRow, Class
  <2>9. ProcessedOK(w)'
    BY <1>2, <2>1, <2>6, <2>7 DEF ProcessedOK, BeforeDispatch, HandleSuccess, Row, MoneyRow,
      Class
  <2>10. \A c \in Executions : CompletedOK(c)'
    BY <1>3, <2>1, <2>5, CompletedKept DEF OwnStep
  <2>11. QED
    BY <2>5, <2>6, <2>8, <2>9, <2>10, OwnStepKeeps DEF OwnStep, HandleSuccess
<1>6. CASE recordRetriable(w)
  <2>1. /\ UNCHANGED <<status, attempts, settledAt, execStatus, requests, applied>>
        /\ UNCHANGED <<msg, batch, inTry>>
        /\ pc' = [pc EXCEPT ![w] = "retry"]
    BY <1>6 DEF recordRetriable, Goto, execVars, providerVars
  <2>2. updateEffectStatus(r, "FAILED_RETRIABLE") /\ "FAILED_RETRIABLE" \in EffectOutcomeStatus
    BY <1>6 DEF recordRetriable, EffectOutcomeStatus
  <2>3. effects[r] # <<>> /\ effects \in [Rows -> Seq(EffectOutcomeStatus)]
    BY <1>2 DEF RowOK, ProcessedOK, TypeOK
  <2>4. /\ effects'[r] # <<>>
        /\ ~isSettled(r) => ~isSettled(r)'
        /\ \A q \in Rows \ {r} : effects'[q] = effects[q]
    BY <1>2, <2>1, <2>2, <2>3, UpdateEffect, UpdateSettled DEF SETTLED_STATES
  <2>5. OwnStep(w)
    BY <1>2, <2>1, <2>4 DEF OwnStep, Undisturbed, Monotone, TypeOK
  <2>6. pc[w] = "fail" /\ ~inTry[w] /\ pc'[w] = "retry"
    BY <1>2, <1>6, <2>1 DEF recordRetriable, At, HandleSuccess, TypeOK
  <2>7. MoneyRow(r) /\ isSettled(r)' => r \in applied
    BY <1>2, <2>4, <2>6 DEF ProcessedOK
  <2>8. RowOK(r)'
    BY <1>2, <2>1, <2>4 DEF RowOK, ProcessedOK, MoneyRow, Class
  <2>9. ProcessedOK(w)'
    BY <1>2, <2>1, <2>6, <2>7 DEF ProcessedOK, BeforeDispatch, HandleSuccess, Row, MoneyRow,
      Class
  <2>10. \A c \in Executions : CompletedOK(c)'
    BY <1>3, <2>1, <2>5, CompletedKept DEF OwnStep
  <2>11. QED
    BY <2>1, <2>5, <2>6, <2>8, <2>9, <2>10, OwnStepKeeps DEF OwnStep
<1>7. CASE markOutboxSent(w)
  <2>1. /\ UNCHANGED <<attempts, effects, execStatus, requests, applied, msg, batch, inTry>>
        /\ pc' = [pc EXCEPT ![w] = "count"]
        /\ status' = [status EXCEPT ![r] = "SENT"]
        /\ settledAt' = [settledAt EXCEPT ![r] = TRUE]
    BY <1>7 DEF markOutboxSent, Goto, execVars, providerVars
  <2>2. OwnStep(w)
    BY <1>2, <2>1 DEF OwnStep, Undisturbed, Monotone, TypeOK
  <2>3. pc[w] = "sent" /\ pc'[w] = "count"
    BY <1>2, <1>7, <2>1 DEF markOutboxSent, At, TypeOK
  <2>4. MoneyRow(r) => r \in applied
    BY <1>2, <2>3 DEF ProcessedOK, HandleSuccess
  <2>5. status'[r] = "SENT"
    BY <1>2, <2>1 DEF TypeOK
  <2>6. RowOK(r)'
    BY <1>2, <2>1, <2>4, <2>5 DEF RowOK, ProcessedOK, MoneyRow, Class
  <2>7. ProcessedOK(w)'
    BY <1>2, <2>1, <2>3, <2>4, <2>5 DEF ProcessedOK, BeforeDispatch, HandleSuccess, Row,
      MoneyRow, Class
  <2>8. \A c \in Executions : CompletedOK(c)'
    BY <1>3, <2>1, <2>2, CompletedKept DEF OwnStep
  <2>9. QED
    BY <2>2, <2>3, <2>6, <2>7, <2>8, OwnStepKeeps DEF OwnStep, HandleSuccess
<1>8. QED
  BY <1>4, <1>5, <1>6, <1>7

\* The steps that end the processing of a message without a success.
LEMMA FailureStepsKeep ==
  ASSUME IInv, TypeOK', NEW w \in Workers, msg[w] # NoMsg, NEW r \in Rows, r = Row(w),
         blockForOperator(w) \/ scheduleRetry(w) \/ markTerminal(w)
  PROVE  IInv'
<1>. USE ConstantsAssumption
<1>1. Exec(r) \in Executions /\ r \in RowsOf(Exec(r))
  BY RowOwner
<1>2. TypeOK /\ RowOK(r) /\ ProcessedOK(w) /\ (inTry[w] => pc[w] \in HandleSuccess)
  BY DEF IInv, WorkerOK
<1>3. \A c \in Executions : CompletedOK(c)
  BY DEF IInv
<1>4. ~inTry'[w] /\ msg'[w] = NoMsg
  BY <1>2 DEF blockForOperator, scheduleRetry, markTerminal, Finish, TypeOK
<1>5. /\ UNCHANGED <<attempts, requests, applied, batch>>
      /\ status'[r] \in {"BLOCKED_OPERATOR", "FAILED_TERMINAL", "FAILED_RETRIABLE"}
      /\ \A q \in Rows \ {r} : status'[q] = status[q] /\ settledAt'[q] = settledAt[q]
      /\ \A x \in Workers \ {w} :
           pc'[x] = pc[x] /\ msg'[x] = msg[x] /\ inTry'[x] = inTry[x]
  BY <1>2 DEF blockForOperator, scheduleRetry, markTerminal, Finish, providerVars, TypeOK
<1>6. /\ effects'[r] # <<>>
      /\ \A q \in Rows \ {r} : effects'[q] = effects[q]
  <2>1. effects[r] # <<>> /\ effects \in [Rows -> Seq(EffectOutcomeStatus)]
    BY <1>2 DEF RowOK, ProcessedOK, TypeOK
  <2>2. CASE blockForOperator(w) \/ scheduleRetry(w)
    BY <2>1, <2>2 DEF blockForOperator, scheduleRetry
  <2>3. CASE markTerminal(w)
    <3>1. updateEffectStatus(r, "FAILED_TERMINAL") /\ "FAILED_TERMINAL" \in EffectOutcomeStatus
      BY <2>3 DEF markTerminal, EffectOutcomeStatus
    <3>2. effects[r] \in Seq(EffectOutcomeStatus) /\ effects'[r] \in Seq(EffectOutcomeStatus)
          /\ DOMAIN effects'[r] = DOMAIN effects[r]
          /\ \A q \in Rows \ {r} : effects'[q] = effects[q]
      BY <2>1, <3>1, UpdateEffect
    <3>3. effects'[r] # <<>>
      BY <2>1, <3>2
    <3>4. QED
      BY <3>2, <3>3
  <2>4. QED
    BY <2>2, <2>3
<1>7. /\ execStatus'[Exec(r)] \in {"FAILED_TERMINAL", "FAILED_RETRIABLE"}
      /\ \A c \in Executions : c # Exec(r) => execStatus'[c] = execStatus[c]
  BY <1>1, <1>2 DEF blockForOperator, scheduleRetry, markTerminal, TypeOK
<1>8. OwnStep(w)
  BY <1>4, <1>5, <1>6, <1>7 DEF OwnStep, Undisturbed, Monotone
<1>9. RowOK(r)'
  <2>1. CASE status'[r] = "FAILED_RETRIABLE"
    <3>1. scheduleRetry(w) /\ pc[w] = "retry"
      BY <1>2, <2>1 DEF blockForOperator, markTerminal, scheduleRetry, At, TypeOK
    <3>2. isSettled(r)' <=> isSettled(r)
      BY <3>1 DEF scheduleRetry, isSettled
    <3>3. /\ attempts[r] <= MaxAttempts
          /\ isSettled(r) \/ attempts[r] < MaxAttempts
          /\ MoneyRow(r) /\ isSettled(r) => r \in applied
      BY <1>2, <3>1 DEF ProcessedOK
    <3>4. QED
      BY <1>2, <1>5, <1>6, <1>7, <2>1, <3>2, <3>3 DEF RowOK, MoneyRow, Class
  <2>2. CASE status'[r] # "FAILED_RETRIABLE"
    BY <1>2, <1>5, <1>6, <1>7, <2>2 DEF RowOK, MoneyRow, Class
  <2>3. QED
    BY <2>1, <2>2
<1>10. \A c \in Executions : CompletedOK(c)'
  BY <1>3, <1>7, <1>8, CompletedKept DEF OwnStep
<1>11. QED
  BY <1>4, <1>8, <1>9, <1>10, OwnStepKeeps

\* The three steps of checkAndCompleteExecution, and a fault in handleSuccess.
LEMMA CompletionStepsKeep ==
  ASSUME IInv, TypeOK', NEW w \in Workers, msg[w] # NoMsg, NEW r \in Rows, r = Row(w),
         \/ countPending(w) \/ completeExecution(w)
         \/ rebuildCardState(w) \/ upsertCardState(w)
         \/ faultInHandleSuccess(w)
  PROVE  IInv'
<1>. USE ConstantsAssumption
<1>1. Exec(r) \in Executions /\ r \in RowsOf(Exec(r))
  BY RowOwner
<1>2. TypeOK /\ RowOK(r) /\ ProcessedOK(w) /\ (inTry[w] => pc[w] \in HandleSuccess)
  BY DEF IInv, WorkerOK
<1>3. \A c \in Executions : CompletedOK(c)
  BY DEF IInv
<1>4. /\ UNCHANGED <<status, attempts, settledAt, effects, requests, applied, batch>>
      /\ \A x \in Workers \ {w} :
           pc'[x] = pc[x] /\ msg'[x] = msg[x] /\ inTry'[x] = inTry[x]
      /\ msg'[w] \in {msg[w], NoMsg}
  BY <1>2 DEF countPending, completeExecution, rebuildCardState, upsertCardState,
    faultInHandleSuccess, Goto, Finish, rowVars, providerVars, TypeOK
<1>5. \/ UNCHANGED execStatus
      \/ completeExecution(w) /\ execStatus' = [execStatus EXCEPT ![Exec(r)] = "COMPLETED"]
  BY DEF countPending, completeExecution, rebuildCardState, upsertCardState,
    faultInHandleSuccess, execVars
<1>6. OwnStep(w)
  BY <1>1, <1>2, <1>4, <1>5 DEF OwnStep, Undisturbed, Monotone, TypeOK
<1>7. Undisturbed(r) /\ (isSettled(r)' <=> isSettled(r))
  BY <1>4, SettledUndisturbed DEF Undisturbed
<1>8. RowOK(r)'
  BY <1>2, <1>6, <1>7, RowUndisturbed DEF OwnStep
<1>9. MoneyRow(r) <=> Request[Exec(r)].action = "issue_refund"
  BY <1>1 DEF MoneyRow, Class, ACTION_RETRY_CLASS, RequestType, ActionType
<1>10. ASSUME msg'[w] # NoMsg PROVE ProcessedOK(w)'
  <2>1. msg'[w] = msg[w] /\ Row(w)' = r
    BY <1>4, <1>10 DEF Row
  <2>2. CASE countPending(w)
    <3>1. pc[w] = "count" /\ pc'[w] = "complete" /\ AllSent(Exec(r)) /\ UNCHANGED inTry
      BY <1>2, <1>10, <2>2 DEF countPending, Goto, Finish, At, TypeOK
    <3>2. MoneyRow(r) => RowsOf(Exec(r)) \subseteq applied
      <4>1. ASSUME MoneyRow(r), NEW q \in RowsOf(Exec(r)) PROVE q \in applied
        <5>1. q \in Rows /\ Exec(q) = Exec(r) /\ status[q] = "SENT"
          BY <1>1, <3>1, RowOwner DEF AllSent
        <5>2. RowOK(q) /\ MoneyRow(q)
          BY <4>1, <5>1 DEF IInv, MoneyRow, Class
        <5>3. QED
          BY <5>1, <5>2 DEF RowOK
      <4>2. QED
        BY <4>1
    <3>3. QED
      BY <1>2, <1>4, <1>7, <2>1, <3>1, <3>2 DEF ProcessedOK, BeforeDispatch, HandleSuccess,
        MoneyRow, Class
  <2>3. CASE completeExecution(w)
    <3>1. pc[w] = "complete" /\ pc'[w] = "rebuild" /\ UNCHANGED inTry
      BY <1>2, <1>10, <2>3 DEF completeExecution, Goto, Finish, At, TypeOK
    <3>2. QED
      BY <1>2, <1>4, <1>7, <2>1, <3>1 DEF ProcessedOK, BeforeDispatch, HandleSuccess,
        MoneyRow, Class
  <2>4. CASE rebuildCardState(w)
    <3>1. pc[w] = "rebuild" /\ pc'[w] = "upsert" /\ UNCHANGED inTry
      BY <1>2, <1>10, <2>4 DEF rebuildCardState, Goto, At, TypeOK
    <3>2. QED
      BY <1>2, <1>4, <1>7, <2>1, <3>1 DEF ProcessedOK, BeforeDispatch, HandleSuccess,
        MoneyRow, Class
  <2>5. CASE faultInHandleSuccess(w)
    <3>1. inTry[w] /\ pc'[w] = FailureLabel(msg[w]) /\ ~inTry'[w]
      BY <1>2, <2>5 DEF faultInHandleSuccess, TypeOK
    <3>2. /\ FailureLabel(msg[w]) \in {"terminal", "fail"}
          /\ FailureLabel(msg[w]) = "fail" => msg[w].attempt < MaxAttempts
      <4>1. msg[w].attempt \in Nat
        BY <1>2, CurrentRow DEF OutboxRow
      <4>2. QED
        BY <4>1 DEF FailureLabel
    <3>3. /\ MoneyRow(r) => r \in applied
          /\ pc'[w] = "fail" => attempts[r] < MaxAttempts /\ attempts[r] <= MaxAttempts
      BY <1>2, <3>1, <3>2 DEF ProcessedOK, TypeOK
    <3>4. QED
      BY <1>2, <1>4, <1>7, <2>1, <3>1, <3>2, <3>3 DEF ProcessedOK, BeforeDispatch,
        HandleSuccess, MoneyRow, Class
  <2>6. CASE upsertCardState(w)
    BY <1>2, <1>10, <2>6 DEF upsertCardState, Finish, TypeOK
  <2>7. QED
    BY <2>2, <2>3, <2>4, <2>5, <2>6
<1>11. inTry'[w] => pc'[w] \in HandleSuccess
  BY <1>2 DEF countPending, completeExecution, rebuildCardState, upsertCardState,
    faultInHandleSuccess, Goto, Finish, HandleSuccess, TypeOK
<1>12. \A c \in Executions : CompletedOK(c)'
  <2>1. CASE UNCHANGED execStatus
    BY <1>3, <1>6, <2>1, CompletedKept DEF OwnStep
  <2>2. CASE completeExecution(w) /\ execStatus' = [execStatus EXCEPT ![Exec(r)] = "COMPLETED"]
    <3>1. pc[w] = "complete"
      BY <2>2 DEF completeExecution, At
    <3>2. MoneyRow(r) => RowsOf(Exec(r)) \subseteq applied
      BY <1>2, <3>1 DEF ProcessedOK
    <3>3. ASSUME NEW c \in Executions PROVE CompletedOK(c)'
      <4>1. CASE c = Exec(r)
        BY <1>4, <1>9, <3>2, <4>1 DEF CompletedOK
      <4>2. CASE c # Exec(r)
        BY <1>2, <1>3, <1>4, <2>2, <4>2 DEF CompletedOK, TypeOK
      <4>3. QED
        BY <4>1, <4>2
    <3>4. QED
      BY <3>3
  <2>3. QED
    BY <1>5, <2>1, <2>2
<1>13. QED
  BY <1>6, <1>8, <1>10, <1>11, <1>12, OwnStepKeeps

\* An error that escapes, or a crash, drops what the worker held.
LEMMA AbandonKeeps ==
  ASSUME IInv, TypeOK', NEW w \in Workers, abandonBatch(w)
  PROVE  IInv'
<1>1. TypeOK
  BY DEF IInv
<1>2. /\ UNCHANGED <<status, attempts, settledAt, effects, requests, applied, execStatus>>
      /\ msg'[w] = NoMsg /\ batch'[w] = {} /\ ~inTry'[w]
      /\ \A x \in Workers \ {w} : /\ pc'[x] = pc[x] /\ msg'[x] = msg[x]
                                  /\ batch'[x] = batch[x] /\ inTry'[x] = inTry[x]
  BY <1>1 DEF abandonBatch, rowVars, execVars, providerVars, TypeOK
<1>3. Monotone /\ \A r \in Rows : Undisturbed(r)
  BY <1>2 DEF Monotone, Undisturbed
<1>4. \A r \in Rows : RowOK(r)'
  BY <1>3, RowUndisturbed DEF IInv
<1>5. WorkerOK(w)'
  BY <1>2 DEF WorkerOK, HeldOnce
<1>6. ASSUME NEW x \in Workers, x # w PROVE WorkerOK(x)'
  <2>1. \A r \in Held(x) : r \in Rows
    BY <1>1, HeldRows
  <2>2. QED
    BY <1>1, <1>2, <1>3, <1>6, <2>1, WorkerUndisturbed DEF IInv
<1>7. ClaimExclusive'
  <2>1. \A x \in Workers : Held(x)' \subseteq Held(x)
    BY <1>2 DEF Held, Row
  <2>2. QED
    BY <2>1 DEF IInv, ClaimExclusive
<1>8. \A e \in Executions : CompletedOK(e)'
  BY <1>2, <1>3, CompletedKept DEF IInv
<1>9. QED
  BY <1>4, <1>5, <1>6, <1>7, <1>8 DEF IInv

-----------------------------------------------------------------------------
(***************************************************************************)
(* Claims, new executions, and everybody else.                             *)
(***************************************************************************)
\* What a worker holds is claimed: its row is IN_PROGRESS, or SENT already.
LEMMA HeldStatus ==
  ASSUME IInv, NEW w \in Workers, NEW r \in Held(w)
  PROVE  r \in Rows /\ status[r] \in {"IN_PROGRESS", "SENT"}
BY HeldRows DEF IInv, Held, WorkerOK, ProcessedOK, ClaimedOK

\* startMessage: the snapshot of the claim is still true when it is used.
LEMMA StartKeeps ==
  ASSUME IInv, TypeOK', NEW w \in Workers, startMessage(w)
  PROVE  IInv'
<1>1. TypeOK
  BY DEF IInv
<1>2. PICK m \in batch[w] :
        /\ msg' = [msg EXCEPT ![w] = m]
        /\ batch' = [batch EXCEPT ![w] = @ \ {m}]
        /\ pc' = [pc EXCEPT ![w] = IF m.settled THEN "sent" ELSE "begin"]
  BY DEF startMessage
<1>3. /\ UNCHANGED <<status, attempts, settledAt, effects, requests, applied, execStatus>>
      /\ UNCHANGED inTry /\ pc[w] = "idle"
  BY DEF startMessage, rowVars, execVars, providerVars
<1>4. Monotone /\ \A r \in Rows : Undisturbed(r)
  BY <1>3 DEF Monotone, Undisturbed
<1>5. \A r \in Rows : RowOK(r)'
  BY <1>4, RowUndisturbed DEF IInv
<1>6. ASSUME NEW x \in Workers, x # w PROVE WorkerOK(x)'
  <2>1. pc'[x] = pc[x] /\ msg'[x] = msg[x] /\ batch'[x] = batch[x] /\ inTry'[x] = inTry[x]
    BY <1>1, <1>2, <1>3, <1>6 DEF TypeOK
  <2>2. QED
    BY <1>1, <1>4, <2>1, HeldRows, WorkerUndisturbed DEF IInv
<1>7. msg'[w] = m /\ batch'[w] = batch[w] \ {m} /\ m \in OutboxRow /\ m.row \in Rows
  BY <1>1, <1>2 DEF TypeOK, OutboxRow
<1>8. WorkerOK(w)'
  <2>1. ~inTry'[w]
    BY <1>3 DEF IInv, WorkerOK, HandleSuccess
  <2>2. ClaimedOK(m) /\ HeldOnce(w)
    BY DEF IInv, WorkerOK
  <2>3. ProcessedOK(w)'
    <3>1. Row(w)' = m.row /\ (isSettled(m.row)' <=> isSettled(m.row))
      BY <1>4, <1>7, SettledUndisturbed DEF Row
    <3>2. pc'[w] = IF m.settled THEN "sent" ELSE "begin"
      BY <1>1, <1>2 DEF TypeOK
    <3>3. QED
      BY <1>3, <1>7, <2>2, <3>1, <3>2 DEF ProcessedOK, ClaimedOK, BeforeDispatch,
        HandleSuccess, MoneyRow, Class
  <2>4. ASSUME NEW n \in batch'[w] PROVE ClaimedOK(n)'
    <3>1. n \in batch[w] /\ n.row \in Rows
      BY <1>1, <1>7, <2>4 DEF TypeOK, OutboxRow
    <3>2. QED
      BY <1>1, <1>4, <3>1, ClaimedUndisturbed DEF IInv, WorkerOK
  <2>5. HeldOnce(w)'
    BY <1>7, <2>2 DEF HeldOnce, Row
  <2>6. QED
    BY <2>1, <2>3, <2>4, <2>5 DEF WorkerOK
<1>9. ClaimExclusive'
  <2>1. \A x \in Workers : Held(x)' \subseteq Held(x)
    BY <1>1, <1>2, <1>7 DEF Held, Row, TypeOK
  <2>2. QED
    BY <2>1 DEF IInv, ClaimExclusive
<1>10. \A e \in Executions : CompletedOK(e)'
  BY <1>3, <1>4, CompletedKept DEF IInv
<1>11. QED
  BY <1>5, <1>6, <1>8, <1>9, <1>10 DEF IInv

\* claimBatch: the rows it takes are held by nobody.
LEMMA ClaimKeeps ==
  ASSUME IInv, TypeOK', NEW w \in Workers, claimBatch(w)
  PROVE  IInv'
<1>. USE ConstantsAssumption
<1>1. TypeOK /\ \A r \in Rows : RowOK(r)
  BY DEF IInv
<1>2. PICK S \in SUBSET Claimable :
        /\ status' = [r \in Rows |-> IF r \in S THEN "IN_PROGRESS" ELSE status[r]]
        /\ attempts' = [r \in Rows |-> IF r \in S THEN attempts[r] + 1 ELSE attempts[r]]
        /\ batch' = [batch EXCEPT ![w] = {Snapshot(r) : r \in S}]
  BY DEF claimBatch
<1>3. /\ UNCHANGED <<settledAt, effects, requests, applied, execStatus, pc, msg, inTry>>
      /\ batch[w] = {}
  BY DEF claimBatch, execVars, providerVars
<1>4. S \subseteq Rows /\ \A r \in S : status[r] \in {"PENDING", "FAILED_RETRIABLE"}
  BY DEF Claimable
<1>5. Monotone /\ \A r \in Rows \ S : Undisturbed(r)
  BY <1>2, <1>3 DEF Monotone, Undisturbed
<1>6. \A x \in Workers : \A r \in Held(x) : r \in Rows \ S
  BY <1>4, HeldStatus
<1>7. ASSUME NEW r \in Rows PROVE RowOK(r)'
  <2>1. CASE r \in S
    <3>1. status'[r] = "IN_PROGRESS" /\ attempts'[r] = attempts[r] + 1
      BY <1>2, <2>1
    <3>2. RowOK(r) /\ attempts[r] <= MaxAttempts /\ attempts[r] \in Nat /\ requests[r] \in Nat
      BY <1>1, <1>4, <2>1 DEF RowOK, TypeOK
    <3>3. requests'[r] <= attempts'[r] /\ attempts'[r] <= MaxAttempts + 1
      BY <1>3, <3>1, <3>2 DEF RowOK
    <3>4. QED
      BY <1>3, <1>4, <2>1, <3>1, <3>2, <3>3 DEF RowOK, MoneyRow, Class
  <2>2. CASE r \notin S
    BY <1>1, <1>5, <2>2, RowUndisturbed
  <2>3. QED
    BY <2>1, <2>2
<1>8. ASSUME NEW x \in Workers, x # w PROVE WorkerOK(x)'
  <2>1. batch'[x] = batch[x]
    BY <1>1, <1>2, <1>8 DEF TypeOK
  <2>2. QED
    BY <1>1, <1>3, <1>5, <1>6, <2>1, WorkerUndisturbed DEF IInv
<1>9. batch'[w] = {Snapshot(r) : r \in S}
  BY <1>1, <1>2 DEF TypeOK
<1>10. WorkerOK(w)'
  <2>1. ASSUME msg'[w] # NoMsg PROVE ProcessedOK(w)'
    <3>1. Undisturbed(Row(w))
      BY <1>3, <1>5, <1>6, <2>1 DEF Held
    <3>2. QED
      BY <1>1, <1>3, <1>5, <2>1, <3>1, ProcessedUndisturbed DEF IInv, WorkerOK
  <2>2. ASSUME NEW m \in batch'[w] PROVE ClaimedOK(m)'
    <3>0. PICK r \in S : m = Snapshot(r)
      BY <1>9
    <3>1. /\ r \in Rows /\ status'[r] = "IN_PROGRESS" /\ attempts'[r] = attempts[r] + 1
          /\ attempts[r] \in Nat /\ requests[r] \in Nat /\ requests'[r] = requests[r]
      BY <1>1, <1>2, <1>3, <1>4 DEF TypeOK
    <3>2. /\ requests[r] <= attempts[r]
          /\ ~isSettled(r) => attempts[r] < MaxAttempts
          /\ isSettled(r) /\ MoneyRow(r) => r \in applied
      BY <1>1, <1>4, <3>1 DEF RowOK
    <3>3. (isSettled(r))' = isSettled(r)
      BY <1>3 DEF isSettled
    <3>4. m.row = r /\ m.settled = isSettled(r) /\ m.attempt = attempts[r] + 1
      BY <3>0 DEF Snapshot
    <3>5. m.settled \in BOOLEAN
      BY <1>1, <3>1, <3>4 DEF isSettled, TypeOK
    <3>6. QED
      BY <1>3, <3>1, <3>2, <3>3, <3>4, <3>5 DEF ClaimedOK, MoneyRow, Class
  <2>3. \A r \in S : Snapshot(r).row = r
    BY DEF Snapshot
  <2>4. HeldOnce(w)'
    BY <1>3, <1>6, <1>9, <2>3 DEF HeldOnce, Held, Row
  <2>5. inTry'[w] => pc'[w] \in HandleSuccess
    BY <1>3 DEF IInv, WorkerOK
  <2>6. QED
    BY <1>9, <2>1, <2>2, <2>4, <2>5 DEF WorkerOK
<1>11. ClaimExclusive'
  <2>1. \A x \in Workers \ {w} : Held(x)' = Held(x)
    BY <1>1, <1>2, <1>3 DEF Held, Row, TypeOK
  <2>2. \A r \in S : Snapshot(r).row = r
    BY DEF Snapshot
  <2>3. \A r \in Held(w)' : r \in S \/ r \in Held(w)
    BY <1>3, <1>9, <2>2 DEF Held, Row
  <2>4. QED
    BY <1>6, <2>1, <2>3 DEF IInv, ClaimExclusive
<1>12. \A e \in Executions : CompletedOK(e)'
  BY <1>3, <1>5, CompletedKept DEF IInv
<1>13. QED
  BY <1>7, <1>8, <1>10, <1>11, <1>12 DEF IInv

\* createActionExecution: new rows are queued and held by nobody.
LEMMA CreateKeeps ==
  ASSUME IInv, TypeOK', NEW e \in Executions, createActionExecution(e)
  PROVE  IInv'
<1>. USE ConstantsAssumption
<1>1. TypeOK /\ \A r \in Rows : RowOK(r)
  BY DEF IInv
<1>2. /\ execStatus[e] = "ABSENT" /\ execStatus' = [execStatus EXCEPT ![e] = "PENDING"]
      /\ status' = [r \in Rows |-> IF r \in RowsOf(e) THEN "PENDING" ELSE status[r]]
      /\ effects' = [r \in Rows |-> IF r \in RowsOf(e) THEN <<"INTENDED">> ELSE effects[r]]
      /\ UNCHANGED <<attempts, settledAt, requests, applied, pc, msg, batch, inTry>>
  BY DEF createActionExecution, providerVars, workerVars
<1>3. \A r \in RowsOf(e) : r \in Rows /\ Exec(r) = e /\ status[r] = "ABSENT"
  BY <1>1, <1>2, RowOwner DEF RowOK
<1>4. Monotone /\ \A r \in Rows \ RowsOf(e) : Undisturbed(r)
  BY <1>1, <1>2 DEF Monotone, Undisturbed, TypeOK
<1>5. ASSUME NEW r \in Rows PROVE RowOK(r)'
  <2>1. CASE r \in RowsOf(e)
    <3>1. attempts[r] = 0 /\ requests[r] = 0 /\ ~settledAt[r]
      BY <1>1, <1>3, <2>1 DEF RowOK
    <3>2. status'[r] = "PENDING" /\ effects'[r] = <<"INTENDED">>
      BY <1>2, <2>1
    <3>3. ~isSettled(r)'
      BY <1>2, <3>1, <3>2 DEF isSettled, SETTLED_STATES
    <3>4. execStatus'[Exec(r)] = "PENDING"
      BY <1>1, <1>2, <1>3, <2>1 DEF TypeOK
    <3>5. requests'[r] = 0 /\ attempts'[r] = 0
      BY <1>2, <3>1
    <3>6. effects'[r] # <<>> /\ MaxAttempts \in Nat /\ MaxAttempts > 0
      BY <3>2
    <3>7. QED
      BY <3>2, <3>3, <3>4, <3>5, <3>6 DEF RowOK
  <2>2. CASE r \notin RowsOf(e)
    BY <1>1, <1>4, <2>2, RowUndisturbed
  <2>3. QED
    BY <2>1, <2>2
<1>6. ASSUME NEW x \in Workers PROVE WorkerOK(x)'
  <2>1. \A r \in Held(x) : r \in Rows \ RowsOf(e)
    BY <1>3, HeldStatus
  <2>2. QED
    BY <1>1, <1>2, <1>4, <2>1, WorkerUndisturbed DEF IInv
<1>7. ClaimExclusive'
  BY <1>2 DEF IInv, ClaimExclusive, Held, Row
<1>8. \A c \in Executions : CompletedOK(c)'
  BY <1>1, <1>2, <1>4, CompletedKept DEF IInv, TypeOK
<1>9. QED
  BY <1>5, <1>6, <1>7, <1>8 DEF IInv

\* Backoffs, late requests, operators and stuttering do not reach what the
\* invariant is about.
LEMMA OthersKeep ==
  ASSUME IInv, TypeOK',
         \/ \E e \in Executions : reconcileExecution(e)
         \/ \E r \in Rows : BackoffElapses(r) \/ landLate(r)
         \/ \E i \in Issues, s \in TicketStatus : syncZendesk(i, s)
         \/ \E p \in Refreshers :
              upsertRefreshed(p) \/ \E i \in Issues : refreshCard(p, i)
         \/ UNCHANGED vars
  PROVE  IInv'
<1>1. /\ UNCHANGED <<status, attempts, settledAt, effects, requests, execStatus>>
      /\ UNCHANGED <<pc, msg, batch, inTry>> /\ applied \subseteq applied'
  BY DEF reconcileExecution, BackoffElapses, landLate, Land, syncZendesk, upsertRefreshed,
    refreshCard, vars, rowVars, execVars, providerVars, workerVars
<1>2. Monotone /\ \A r \in Rows : Undisturbed(r)
  BY <1>1 DEF Monotone, Undisturbed
<1>3. \A r \in Rows : RowOK(r)'
  BY <1>2, RowUndisturbed DEF IInv
<1>4. \A x \in Workers : WorkerOK(x)'
  BY <1>1, <1>2, HeldRows, WorkerUndisturbed DEF IInv
<1>5. ClaimExclusive'
  BY <1>1 DEF IInv, ClaimExclusive, Held, Row
<1>6. \A c \in Executions : CompletedOK(c)'
  BY <1>1, <1>2, CompletedKept DEF IInv
<1>7. QED
  BY <1>3, <1>4, <1>5, <1>6 DEF IInv

-----------------------------------------------------------------------------
(***************************************************************************)
(* The theorems.                                                           *)
(***************************************************************************)
\* The invariant holds initially: nothing is queued, held or completed.
LEMMA InitInvariant == Init => IInv
<1>. USE ConstantsAssumption
<1>. SUFFICES ASSUME Init PROVE IInv
  OBVIOUS
<1>1. TypeOK
  BY TypeInit
<1>2. ClaimExclusive
  BY DEF Init, ClaimExclusive, Held
<1>3. ASSUME NEW r \in Rows PROVE RowOK(r)
  BY RowOwner DEF Init, RowOK
<1>4. \A w \in Workers : WorkerOK(w)
  BY DEF Init, WorkerOK, HeldOnce
<1>5. \A e \in Executions : CompletedOK(e)
  BY DEF Init, CompletedOK
<1>6. QED
  BY <1>1, <1>2, <1>3, <1>4, <1>5 DEF IInv

\* The invariant is inductive.
LEMMA NextInvariant == IInv /\ [Next]_vars => IInv'
<1>. SUFFICES ASSUME IInv, [Next]_vars PROVE IInv'
  OBVIOUS
<1>1. TypeOK /\ TypeOK'
  BY TypeNext DEF IInv
<1>2. ASSUME NEW e \in Executions, createActionExecution(e) PROVE IInv'
  BY <1>1, <1>2, CreateKeeps
<1>3. ASSUME NEW w \in Workers, claimBatch(w) PROVE IInv'
  BY <1>1, <1>3, ClaimKeeps
<1>4. ASSUME NEW w \in Workers, startMessage(w) PROVE IInv'
  BY <1>1, <1>4, StartKeeps
<1>5. ASSUME NEW w \in Workers, abandonBatch(w) PROVE IInv'
  BY <1>1, <1>5, AbandonKeeps
<1>6. ASSUME NEW w \in Workers, ~startMessage(w),
             processMessage(w) \/ faultInHandleSuccess(w)
      PROVE  IInv'
  <2>1. msg[w] # NoMsg
    BY <1>6 DEF processMessage, faultInHandleSuccess, At, markExecutionInProgress,
      appendIntended, executeExternalCall, recordUncertain, reconcile,
      appendReconciledEntry, blockForOperator, recordRetriable, scheduleRetry,
      markTerminal, recordConfirmed, markOutboxSent, countPending,
      completeExecution, rebuildCardState, upsertCardState
  <2>2. PICK r \in Rows : r = Row(w)
    BY <1>1, <2>1, CurrentRow
  <2>3. CASE \/ markExecutionInProgress(w) \/ appendIntended(w)
             \/ executeExternalCall(w) \/ recordUncertain(w) \/ reconcile(w)
    BY <1>1, <2>1, <2>2, <2>3, DispatchStepsKeep
  <2>4. CASE \/ appendReconciledEntry(w) \/ recordConfirmed(w) \/ recordRetriable(w)
             \/ markOutboxSent(w)
    BY <1>1, <2>1, <2>2, <2>4, OutcomeStepsKeep
  <2>5. CASE blockForOperator(w) \/ scheduleRetry(w) \/ markTerminal(w)
    BY <1>1, <2>1, <2>2, <2>5, FailureStepsKeep
  <2>6. CASE \/ countPending(w) \/ completeExecution(w)
             \/ rebuildCardState(w) \/ upsertCardState(w)
             \/ faultInHandleSuccess(w)
    BY <1>1, <2>1, <2>2, <2>6, CompletionStepsKeep
  <2>7. QED
    BY <1>6, <2>3, <2>4, <2>5, <2>6 DEF processMessage
<1>7. CASE \/ \E e \in Executions : reconcileExecution(e)
           \/ \E r \in Rows : BackoffElapses(r) \/ landLate(r)
           \/ \E i \in Issues, s \in TicketStatus : syncZendesk(i, s)
           \/ \E p \in Refreshers :
                upsertRefreshed(p) \/ \E i \in Issues : refreshCard(p, i)
           \/ UNCHANGED vars
  BY <1>1, <1>7, OthersKeep
<1>8. QED
  BY <1>2, <1>3, <1>4, <1>5, <1>6, <1>7 DEF Next, WorkerStep

\* The inductive invariant holds of every behaviour of the outbox.
THEOREM Invariance == Spec => []IInv
BY InitInvariant, NextInvariant, PTL DEF Spec

\* Two workers never process the same row (claimBatch with SKIP LOCKED).
THEOREM ClaimsExclude == Spec => []ClaimExclusive
<1>1. IInv => ClaimExclusive
  BY DEF IInv
<1>2. QED
  BY <1>1, Invariance, PTL

\* No mixture of errors, timeouts, crashes and failing commits sends an effect
\* more than MaxAttempts times, or claims it more than once beyond that.
THEOREM BudgetHolds == Spec => []AttemptBudget
<1>1. IInv => AttemptBudget
  BY DEF IInv, AttemptBudget, RowOK
<1>2. QED
  BY <1>1, Invariance, PTL

\* No refund execution is COMPLETED, and no row of one SENT, before the
\* provider has applied the effects it stands for.
THEOREM RefundsAreMade == Spec => []RefundReportedOnlyIfMade
<1>1. IInv => RefundReportedOnlyIfMade
  BY DEF IInv, RefundReportedOnlyIfMade, RowOK, CompletedOK
<1>2. QED
  BY <1>1, Invariance, PTL

\* What a step of a worker on its message may do to other rows: nothing; to its
\* own: a request only when it dispatches, no settled or stopped row touched.
LEMMA ProcessFrame ==
  ASSUME IInv, NEW w \in Workers, processMessage(w), NEW r \in Rows
  PROVE  /\ requests'[r] # requests[r] => ~isSettled(r)
         /\ status[r] \in {"FAILED_TERMINAL", "BLOCKED_OPERATOR"} =>
              status'[r] = status[r] /\ requests'[r] = requests[r]
<1>1. CASE startMessage(w)
  BY <1>1 DEF startMessage, rowVars, providerVars
<1>2. CASE ~startMessage(w)
  <2>1. msg[w] # NoMsg
    BY <1>2 DEF processMessage, At, markExecutionInProgress,
      appendIntended, executeExternalCall, recordUncertain, reconcile,
      appendReconciledEntry, blockForOperator, recordRetriable, scheduleRetry,
      markTerminal, recordConfirmed, markOutboxSent, countPending,
      completeExecution, rebuildCardState, upsertCardState
  <2>2. TypeOK /\ ProcessedOK(w)
    BY <2>1 DEF IInv, WorkerOK
  <2>3. Row(w) \in Rows
    BY <2>1, <2>2, CurrentRow
  <2>4. CASE executeExternalCall(w)
    <3>1. /\ status' = status
          /\ \A q \in Rows : q # Row(w) => requests'[q] = requests[q]
      BY <2>2, <2>4 DEF executeExternalCall, rowVars, TypeOK
    <3>2. ~isSettled(Row(w)) /\ status[Row(w)] \in {"IN_PROGRESS", "SENT"}
      BY <2>2, <2>4 DEF executeExternalCall, At, ProcessedOK, BeforeDispatch
    <3>3. QED
      BY <3>1, <3>2
  <2>5. CASE ~executeExternalCall(w)
    <3>1. requests' = requests
      BY <1>2, <2>5 DEF processMessage, markExecutionInProgress,
        appendIntended, recordUncertain, reconcile, appendReconciledEntry,
        blockForOperator, recordRetriable, scheduleRetry, markTerminal,
        recordConfirmed, markOutboxSent, countPending, completeExecution,
        rebuildCardState, upsertCardState, providerVars
    <3>2. \A q \in Rows : q # Row(w) => status'[q] = status[q]
      BY <1>2, <2>2, <2>5 DEF processMessage, markExecutionInProgress,
        appendIntended, recordUncertain, reconcile, appendReconciledEntry,
        blockForOperator, recordRetriable, scheduleRetry, markTerminal,
        recordConfirmed, markOutboxSent, countPending, completeExecution,
        rebuildCardState, upsertCardState, rowVars, TypeOK
    <3>3. status[Row(w)] \in {"IN_PROGRESS", "SENT"}
      BY <2>2 DEF ProcessedOK
    <3>4. QED
      BY <3>1, <3>2, <3>3
  <2>6. QED
    BY <2>4, <2>5
<1>3. QED
  BY <1>1, <1>2

\* The same, for every step of the system.
LEMMA StepFrame ==
  ASSUME IInv, [Next]_vars, NEW r \in Rows
  PROVE  /\ requests'[r] # requests[r] => ~isSettled(r)
         /\ status[r] \in {"FAILED_TERMINAL", "BLOCKED_OPERATOR"} =>
              status'[r] = status[r] /\ requests'[r] = requests[r]
<1>1. ASSUME NEW w \in Workers, processMessage(w)
      PROVE  /\ requests'[r] # requests[r] => ~isSettled(r)
             /\ status[r] \in {"FAILED_TERMINAL", "BLOCKED_OPERATOR"} =>
                  status'[r] = status[r] /\ requests'[r] = requests[r]
  BY <1>1, ProcessFrame
<1>2. ASSUME NEW w \in Workers, claimBatch(w)
      PROVE  /\ requests' = requests
             /\ status[r] \in {"FAILED_TERMINAL", "BLOCKED_OPERATOR"} => status'[r] = status[r]
  <2>1. PICK S \in SUBSET Claimable :
          status' = [q \in Rows |-> IF q \in S THEN "IN_PROGRESS" ELSE status[q]]
    BY <1>2 DEF claimBatch
  <2>2. r \in S => status[r] \in {"PENDING", "FAILED_RETRIABLE"}
    BY DEF Claimable
  <2>3. requests' = requests
    BY <1>2 DEF claimBatch, providerVars
  <2>4. QED
    BY <2>1, <2>2, <2>3
<1>3. ASSUME NEW e \in Executions, createActionExecution(e)
      PROVE  /\ requests' = requests
             /\ status[r] \in {"FAILED_TERMINAL", "BLOCKED_OPERATOR"} => status'[r] = status[r]
  <2>1. r \in RowsOf(e) => status[r] = "ABSENT"
    BY <1>3, RowOwner DEF createActionExecution, IInv, RowOK
  <2>2. QED
    BY <1>3, <2>1 DEF createActionExecution, providerVars
<1>4. CASE \/ \E w \in Workers : faultInHandleSuccess(w) \/ abandonBatch(w)
           \/ \E e \in Executions : reconcileExecution(e)
           \/ \E q \in Rows : BackoffElapses(q) \/ landLate(q)
           \/ \E i \in Issues, s \in TicketStatus : syncZendesk(i, s)
           \/ \E p \in Refreshers :
                upsertRefreshed(p) \/ \E i \in Issues : refreshCard(p, i)
           \/ UNCHANGED vars
  BY <1>4 DEF faultInHandleSuccess, abandonBatch, reconcileExecution, BackoffElapses,
    landLate, syncZendesk, upsertRefreshed, refreshCard, vars, rowVars, providerVars
<1>5. QED
  BY <1>1, <1>2, <1>3, <1>4 DEF Next, WorkerStep

\* The dedupe gate is sound although it reads a snapshot: whatever is sent is
\* not settled at the moment of sending.
THEOREM GateIsSound == Spec => NoDispatchOfSettled
<1>1. IInv /\ [Next]_vars
        => [\A r \in Rows : requests'[r] # requests[r] => ~isSettled(r)]_vars
  BY StepFrame
<1>2. QED
  BY <1>1, Invariance, PTL DEF Spec, NoDispatchOfSettled

\* A row that failed for good or awaits an operator is never taken up again.
THEOREM StoppedStays == Spec => StoppedRowsStayStopped
<1>1. IInv /\ [Next]_vars
        => [\A r \in Rows : status[r] \in {"FAILED_TERMINAL", "BLOCKED_OPERATOR"}
              => status'[r] = status[r] /\ requests'[r] = requests[r]]_vars
  BY StepFrame
<1>2. QED
  BY <1>1, Invariance, PTL DEF Spec, StoppedRowsStayStopped

-----------------------------------------------------------------------------
(***************************************************************************)
(* The outbox implements ActionContract when no database error hits        *)
(* handleSuccess, and what follows of completions, transitions and cards.  *)
(***************************************************************************)
\* The steps of a worker after its row is SENT.
Closing == {"count", "complete", "rebuild", "upsert"}

\* Without faults a SENT row stays SENT: whoever holds a row that is SENT is
\* past markOutboxSent, and only counts and completes.
ClosingOK(w) ==
  /\ pc[w] \in Closing => status[Row(w)] = "SENT"
  /\ pc[w] \notin Closing => status[Row(w)] = "IN_PROGRESS"
  /\ pc[w] = "complete" => AllSent(Exec(Row(w)))

CInv ==
  /\ \A e \in Executions : execStatus[e] = "COMPLETED" => AllSent(e)
  /\ \A w \in Workers : msg[w] # NoMsg => ClosingOK(w)

\* What the contract can see of a step.
SentStays == \A r \in Rows : status[r] = "SENT" => status'[r] = "SENT"

Invisible == UNCHANGED <<status, state>>
             /\ \A e \in Executions :
                  execStatus'[e] = "COMPLETED" <=> execStatus[e] = "COMPLETED"

\* An execution whose rows stay SENT keeps all of them SENT.
LEMMA AllSentStays ==
  ASSUME SentStays, NEW e \in Executions, AllSent(e)
  PROVE  AllSent(e)'
BY RowOwner DEF SentStays, AllSent

\* A worker that does not move, and whose row keeps its status.
LEMMA ClosingUndisturbed ==
  ASSUME TypeOK, SentStays, NEW x \in Workers, msg[x] # NoMsg, ClosingOK(x),
         pc'[x] = pc[x], msg'[x] = msg[x], status'[Row(x)] = status[Row(x)]
  PROVE  ClosingOK(x)'
<1>1. Row(x)' = Row(x) /\ Row(x) \in Rows /\ Exec(Row(x)) \in Executions
  BY CurrentRow DEF Row
<1>2. AllSent(Exec(Row(x))) => AllSent(Exec(Row(x)))'
  <2>1. ASSUME NEW e \in Executions, e = Exec(Row(x)), AllSent(e)
        PROVE  AllSent(Exec(Row(x)))'
    <3>1. AllSent(e)'
      BY <2>1, AllSentStays
    <3>2. Exec(Row(x))' = e
      BY <1>1, <2>1 DEF Exec
    <3>3. QED
      BY <3>1, <3>2
  <2>2. QED
    BY <1>1, <2>1
<1>3. QED
  BY <1>1, <1>2 DEF ClosingOK

\* A step the contract does not see is a stuttering step of it.
LEMMA InvisibleStutters ==
  ASSUME Invisible
  PROVE  UNCHANGED Contract!contractVars
BY DEF Invisible, Contract!contractVars, Settlement

\* How the status of a row reads in the contract.
LEMMA SettlementReads ==
  ASSUME NEW r \in Rows
  PROVE  /\ status[r] = "ABSENT" => Settlement(r) = "none"
         /\ status[r] \in {"PENDING", "IN_PROGRESS", "FAILED_RETRIABLE"} => Settlement(r) = "open"
         /\ status[r] = "SENT" <=> Settlement(r) = "done"
         /\ status[r] \in {"FAILED_TERMINAL", "BLOCKED_OPERATOR"} => Settlement(r) = "stopped"
BY DEF Settlement

-----------------------------------------------------------------------------
(***************************************************************************)
(* Steps of a worker on its row.                                           *)
(***************************************************************************)
\* Enough to keep CInv: what is SENT stays SENT, completion needs all effects,
\* and the worker that moved is where its row says it is.
LEMMA OwnStepClosing ==
  ASSUME IInv, CInv, NEW w \in Workers, SentStays,
         \A e \in Executions :
           execStatus'[e] = "COMPLETED" => execStatus[e] = "COMPLETED" \/ AllSent(e),
         \A x \in Workers \ {w} : pc'[x] = pc[x] /\ msg'[x] = msg[x],
         \A q \in Rows : q \notin Held(w) => status'[q] = status[q],
         msg'[w] # NoMsg => ClosingOK(w)'
  PROVE  CInv'
<1>1. ASSUME NEW e \in Executions, execStatus'[e] = "COMPLETED" PROVE AllSent(e)'
  BY <1>1, AllSentStays DEF CInv
<1>2. ASSUME NEW x \in Workers, x # w, msg'[x] # NoMsg PROVE ClosingOK(x)'
  <2>1. msg[x] # NoMsg /\ TypeOK /\ ClosingOK(x)
    BY <1>2 DEF IInv, CInv
  <2>2. Row(x) \in Rows /\ Row(x) \in Held(x)
    BY <2>1, CurrentRow DEF Held
  <2>3. Row(x) \notin Held(w)
    BY <1>2, <2>2 DEF IInv, ClaimExclusive
  <2>4. status'[Row(x)] = status[Row(x)]
    BY <2>2, <2>3
  <2>5. QED
    BY <1>2, <2>1, <2>4, ClosingUndisturbed
<1>3. QED
  BY <1>1, <1>2 DEF CInv

\* Ledger entries, provider calls and counts are invisible to the contract.
LEMMA QuietSteps ==
  ASSUME IInv, CInv, NEW w \in Workers, msg[w] # NoMsg,
         \/ appendIntended(w) \/ executeExternalCall(w) \/ recordUncertain(w)
         \/ reconcile(w) \/ appendReconciledEntry(w) \/ recordRetriable(w)
         \/ recordConfirmed(w) \/ countPending(w) \/ rebuildCardState(w) \/ upsertCardState(w)
  PROVE  CInv' /\ Invisible
<1>1. TypeOK /\ ClosingOK(w)
  BY DEF IInv, CInv
<1>2. /\ UNCHANGED <<status, state, execStatus>>
      /\ \A x \in Workers \ {w} : pc'[x] = pc[x] /\ msg'[x] = msg[x]
  BY <1>1 DEF appendIntended, executeExternalCall, recordUncertain, reconcile,
    appendReconciledEntry, recordRetriable, recordConfirmed, countPending,
    rebuildCardState, upsertCardState, Goto, Finish, rowVars, execVars, issueVars, TypeOK
<1>3. ASSUME msg'[w] # NoMsg PROVE ClosingOK(w)'
  <2>1. CASE countPending(w)
    <3>1. /\ pc[w] = "count" /\ pc'[w] = "complete" /\ msg' = msg
          /\ AllSent(Exec(Row(w)))
      BY <1>1, <1>3, <2>1 DEF countPending, At, Goto, Finish, TypeOK
    <3>2. AllSent(Exec(Row(w)))' /\ Row(w)' = Row(w)
      BY <1>2, <3>1 DEF AllSent, Row
    <3>3. QED
      BY <1>1, <1>2, <3>1, <3>2 DEF ClosingOK, Closing
  <2>2. CASE rebuildCardState(w) \/ upsertCardState(w)
    <3>1. pc[w] = "rebuild" /\ pc'[w] = "upsert" /\ msg' = msg
      BY <1>1, <1>3, <2>2 DEF rebuildCardState, upsertCardState, Finish, Goto, At, TypeOK
    <3>2. QED
      BY <1>1, <1>2, <3>1 DEF ClosingOK, Closing, Row
  <2>3. CASE ~countPending(w) /\ ~rebuildCardState(w) /\ ~upsertCardState(w)
    <3>1. msg' = msg /\ pc[w] \notin Closing
      BY <2>3 DEF appendIntended, executeExternalCall, recordUncertain, reconcile,
        appendReconciledEntry, recordRetriable, recordConfirmed, At, Goto, Closing
    <3>2. pc'[w] \notin Closing
      BY <1>1, <2>3 DEF appendIntended, executeExternalCall, recordUncertain, reconcile,
        appendReconciledEntry, recordRetriable, recordConfirmed, Goto, Closing,
        FailureLabel, UncertainLabel, TypeOK
    <3>3. QED
      BY <1>1, <1>2, <3>1, <3>2 DEF ClosingOK, Row, Closing
  <2>4. QED
    BY <2>1, <2>2, <2>3
<1>4. SentStays /\ Invisible
  BY <1>2 DEF SentStays, Invisible
<1>5. QED
  BY <1>2, <1>3, <1>4, OwnStepClosing

\* The execution moves, the contract does not see it: the row is not SENT, so
\* the execution is not COMPLETED.
LEMMA ExecutionMoves ==
  ASSUME IInv, CInv, NEW w \in Workers, msg[w] # NoMsg,
         markExecutionInProgress(w) \/ scheduleRetry(w)
  PROVE  CInv' /\ UNCHANGED Contract!contractVars
<1>1. TypeOK /\ ClosingOK(w)
  BY DEF IInv, CInv
<1>2. PICK r \in Rows, e \in Executions : r = Row(w) /\ e = Exec(r) /\ r \in RowsOf(e)
  BY <1>1, CurrentRow
<1>3. /\ status[r] = "IN_PROGRESS" /\ status'[r] # "SENT"
      /\ \A q \in Rows : q # r => status'[q] = status[q]
      /\ status'[r] \in {"IN_PROGRESS", "FAILED_RETRIABLE"}
  BY <1>1, <1>2 DEF markExecutionInProgress, scheduleRetry, At, ClosingOK, Closing,
    rowVars, TypeOK
<1>4. /\ execStatus[e] # "COMPLETED" /\ execStatus'[e] # "COMPLETED"
      /\ \A c \in Executions : c # e => execStatus'[c] = execStatus[c]
  BY <1>1, <1>2, <1>3 DEF CInv, AllSent, markExecutionInProgress, scheduleRetry, TypeOK
<1>5. \A x \in Workers \ {w} : pc'[x] = pc[x] /\ msg'[x] = msg[x]
  BY <1>1 DEF markExecutionInProgress, scheduleRetry, Goto, Finish, TypeOK
<1>6. SentStays /\ r \in Held(w)
  BY <1>2, <1>3 DEF SentStays, Held
<1>7. ASSUME msg'[w] # NoMsg PROVE ClosingOK(w)'
  <2>1. msg'[w] = msg[w] /\ pc'[w] = "append" /\ status' = status
    BY <1>1, <1>7 DEF markExecutionInProgress, scheduleRetry, Goto, Finish, rowVars, TypeOK
  <2>2. QED
    BY <1>2, <1>3, <2>1 DEF ClosingOK, Closing, Row
<1>8. CInv'
  BY <1>3, <1>4, <1>5, <1>6, <1>7, OwnStepClosing
<1>9. \A q \in Rows : Settlement(q)' = Settlement(q)
  BY <1>3 DEF Settlement
<1>10. UNCHANGED Contract!contractVars
  <2>1. {c \in Executions : execStatus'[c] = "COMPLETED"}
          = {c \in Executions : execStatus[c] = "COMPLETED"}
    BY <1>4
  <2>2. state' = state
    BY DEF markExecutionInProgress, scheduleRetry, issueVars
  <2>3. QED
    BY <1>9, <2>1, <2>2 DEF Contract!contractVars
<1>11. QED
  BY <1>8, <1>10

\* A row that becomes SENT or stops is an effect the contract settles.
LEMMA SettlingSteps ==
  ASSUME IInv, CInv, NEW w \in Workers, msg[w] # NoMsg,
         markOutboxSent(w) \/ blockForOperator(w) \/ markTerminal(w)
  PROVE  CInv' /\ \E r \in Rows, o \in {"done", "stopped"} : Contract!Settle(r, o)
<1>1. TypeOK /\ ClosingOK(w)
  BY DEF IInv, CInv
<1>2. PICK r \in Rows, e \in Executions : r = Row(w) /\ e = Exec(r) /\ r \in RowsOf(e)
  BY <1>1, CurrentRow
<1>3. /\ status[r] = "IN_PROGRESS"
      /\ \A q \in Rows : q # r => status'[q] = status[q]
      /\ status'[r] \in {"SENT", "FAILED_TERMINAL", "BLOCKED_OPERATOR"}
  BY <1>1, <1>2 DEF markOutboxSent, blockForOperator, markTerminal, At, ClosingOK, Closing,
    TypeOK
<1>4. /\ execStatus[e] # "COMPLETED" /\ execStatus'[e] # "COMPLETED"
      /\ \A c \in Executions : c # e => execStatus'[c] = execStatus[c]
  BY <1>1, <1>2, <1>3 DEF CInv, AllSent, markOutboxSent, blockForOperator, markTerminal,
    execVars, TypeOK
<1>5. \A x \in Workers \ {w} : pc'[x] = pc[x] /\ msg'[x] = msg[x]
  BY <1>1 DEF markOutboxSent, blockForOperator, markTerminal, Goto, Finish, TypeOK
<1>6. SentStays /\ r \in Held(w)
  BY <1>2, <1>3 DEF SentStays, Held
<1>7. ASSUME msg'[w] # NoMsg PROVE ClosingOK(w)'
  <2>1. msg'[w] = msg[w] /\ pc'[w] = "count" /\ status'[r] = "SENT"
    BY <1>1, <1>2, <1>7 DEF markOutboxSent, blockForOperator, markTerminal, Goto, Finish,
      TypeOK
  <2>2. QED
    BY <1>2, <2>1 DEF ClosingOK, Closing, Row
<1>8. CInv'
  BY <1>3, <1>4, <1>5, <1>6, <1>7, OwnStepClosing
<1>9. PICK o \in {"done", "stopped"} : Settlement(r)' = o
  BY <1>3 DEF Settlement
<1>10. \A q \in Rows : q # r => Settlement(q)' = Settlement(q)
  BY <1>3 DEF Settlement
<1>11. Contract!Settle(r, o)
  <2>1. Settlement(r) = "open"
    BY <1>3, SettlementReads
  <2>2. {c \in Executions : execStatus'[c] = "COMPLETED"}
          = {c \in Executions : execStatus[c] = "COMPLETED"}
    BY <1>4
  <2>3. state' = state
    BY DEF markOutboxSent, blockForOperator, markTerminal, issueVars
  <2>4. [q \in Rows |-> Settlement(q)]' = [[q \in Rows |-> Settlement(q)] EXCEPT ![r] = o]
    BY <1>9, <1>10
  <2>5. QED
    BY <2>1, <2>2, <2>3, <2>4 DEF Contract!Settle
<1>12. QED
  BY <1>8, <1>11

\* Completion is one step of the contract, or the second worker's empty one.
LEMMA CompletionSteps ==
  ASSUME IInv, CInv, NEW w \in Workers, msg[w] # NoMsg, completeExecution(w)
  PROVE  CInv' /\ (Invisible \/ \E e \in Executions : Contract!Complete(e))
<1>1. TypeOK /\ ClosingOK(w)
  BY DEF IInv, CInv
<1>2. PICK r \in Rows, e \in Executions : r = Row(w) /\ e = Exec(r)
  BY <1>1, CurrentRow
<1>3. AllSent(e) /\ pc[w] = "complete" /\ status[r] = "SENT" /\ status' = status
  BY <1>1, <1>2 DEF completeExecution, At, ClosingOK, Closing, rowVars
<1>4. \A x \in Workers \ {w} : pc'[x] = pc[x] /\ msg'[x] = msg[x]
  BY <1>1 DEF completeExecution, Goto, Finish, TypeOK
<1>5. \/ UNCHANGED execStatus /\ msg'[w] = NoMsg /\ UNCHANGED <<state, transitions>>
      \/ /\ execStatus[e] # "COMPLETED"
         /\ execStatus' = [execStatus EXCEPT ![e] = "COMPLETED"]
         /\ applyStateTransition(e) /\ pc'[w] = "rebuild" /\ msg' = msg
  BY <1>1, <1>2 DEF completeExecution, Goto, Finish, TypeOK
<1>6. SentStays
  BY <1>3 DEF SentStays
<1>7. ASSUME NEW c \in Executions, execStatus'[c] = "COMPLETED"
      PROVE  execStatus[c] = "COMPLETED" \/ AllSent(c)
  BY <1>1, <1>3, <1>5, <1>7 DEF TypeOK
<1>8. ASSUME msg'[w] # NoMsg PROVE ClosingOK(w)'
  BY <1>2, <1>3, <1>5, <1>8 DEF ClosingOK, Closing, Row
<1>9. CInv'
  BY <1>3, <1>4, <1>6, <1>7, <1>8, OwnStepClosing
<1>10. CASE UNCHANGED execStatus /\ UNCHANGED <<state, transitions>>
  BY <1>3, <1>9, <1>10 DEF Invisible
<1>11. CASE /\ execStatus[e] # "COMPLETED"
            /\ execStatus' = [execStatus EXCEPT ![e] = "COMPLETED"]
            /\ applyStateTransition(e)
  <2>1. \A q \in RowsOf(e) : Settlement(q) = "done"
    BY <1>3, RowOwner, SettlementReads DEF AllSent
  <2>2. {c \in Executions : execStatus'[c] = "COMPLETED"}
          = {c \in Executions : execStatus[c] = "COMPLETED"} \cup {e}
    BY <1>1, <1>11 DEF TypeOK
  <2>3. state' = IF Planned(e) = NoState THEN state
                 ELSE [state EXCEPT ![Issue(e)] = Planned(e)]
    <3>1. Issue(e) \in Issues /\ state \in [Issues -> IssueState]
      BY <1>1, IssueType DEF TypeOK
    <3>2. Planned(e) = state[Issue(e)] => state = [state EXCEPT ![Issue(e)] = Planned(e)]
      BY <3>1
    <3>3. QED
      BY <1>11, <3>2 DEF applyStateTransition
  <2>4. \A q \in Rows : Settlement(q)' = Settlement(q)
    BY <1>3 DEF Settlement
  <2>5. \A q \in RowsOf(e) : q \in Rows
    BY RowOwner
  <2>6. Contract!Complete(e)
    BY <1>11, <2>1, <2>2, <2>3, <2>4, <2>5 DEF Contract!Complete
  <2>7. QED
    BY <1>9, <2>6
<1>12. QED
  BY <1>5, <1>10, <1>11

-----------------------------------------------------------------------------
(***************************************************************************)
(* The other steps.                                                        *)
(***************************************************************************)
\* Claiming, starting and dropping messages: a row that is held or claimed is
\* open for the contract.
LEMMA HoldingSteps ==
  ASSUME IInv, CInv, NEW w \in Workers,
         claimBatch(w) \/ startMessage(w) \/ abandonBatch(w)
  PROVE  CInv' /\ UNCHANGED Contract!contractVars
<1>1. TypeOK
  BY DEF IInv
<1>2. /\ \A q \in Rows : \/ status'[q] = status[q]
                         \/ status[q] \in {"PENDING", "FAILED_RETRIABLE"}
                            /\ status'[q] = "IN_PROGRESS"
      /\ UNCHANGED <<execStatus, state>>
      /\ \A x \in Workers \ {w} : pc'[x] = pc[x] /\ msg'[x] = msg[x]
  <2>1. CASE claimBatch(w)
    <3>1. PICK S \in SUBSET Claimable :
            status' = [q \in Rows |-> IF q \in S THEN "IN_PROGRESS" ELSE status[q]]
      BY <2>1 DEF claimBatch
    <3>2. \A q \in S : status[q] \in {"PENDING", "FAILED_RETRIABLE"}
      BY DEF Claimable
    <3>3. QED
      BY <2>1, <3>1, <3>2 DEF claimBatch, execVars, issueVars
  <2>2. CASE startMessage(w) \/ abandonBatch(w)
    BY <1>1, <2>2 DEF startMessage, abandonBatch, rowVars, execVars, issueVars, TypeOK
  <2>3. QED
    BY <2>1, <2>2
<1>3. SentStays
  BY <1>2 DEF SentStays
<1>4. ASSUME NEW x \in Workers, msg[x] # NoMsg
      PROVE  status'[Row(x)] = status[Row(x)]
  BY <1>2, <1>4, HeldStatus DEF Held
<1>5. ASSUME NEW x \in Workers, msg'[x] # NoMsg PROVE ClosingOK(x)'
  <2>1. CASE pc'[x] = pc[x] /\ msg'[x] = msg[x]
    BY <1>1, <1>3, <1>4, <1>5, <2>1, ClosingUndisturbed DEF CInv
  <2>2. CASE ~(pc'[x] = pc[x] /\ msg'[x] = msg[x])
    <3>1. x = w /\ startMessage(w)
      BY <1>1, <1>2, <1>5, <2>2 DEF claimBatch, abandonBatch, TypeOK
    <3>2. PICK m \in batch[w] : /\ msg'[w] = m /\ status' = status
                                /\ pc'[w] \in {"sent", "begin"}
      BY <1>1, <3>1 DEF startMessage, rowVars, TypeOK
    <3>3. m.row \in Rows /\ status[m.row] = "IN_PROGRESS"
      BY <1>1, <3>2 DEF IInv, WorkerOK, ClaimedOK, TypeOK, OutboxRow
    <3>4. QED
      BY <3>1, <3>2, <3>3 DEF ClosingOK, Closing, Row
  <2>3. QED
    BY <2>1, <2>2
<1>6. CInv'
  <2>1. ASSUME NEW e \in Executions, execStatus'[e] = "COMPLETED" PROVE AllSent(e)'
    BY <1>2, <1>3, <2>1, AllSentStays DEF CInv
  <2>2. QED
    BY <1>5, <2>1 DEF CInv
<1>7. \A q \in Rows : Settlement(q)' = Settlement(q)
  BY <1>2 DEF Settlement
<1>8. QED
  BY <1>2, <1>6, <1>7 DEF Contract!contractVars

\* createActionExecution is Accept: all the effects of an action, together.
LEMMA CreateStep ==
  ASSUME IInv, CInv, NEW e \in Executions, createActionExecution(e)
  PROVE  CInv' /\ Contract!Accept(e)
<1>1. TypeOK
  BY DEF IInv
<1>2. /\ execStatus[e] = "ABSENT" /\ execStatus' = [execStatus EXCEPT ![e] = "PENDING"]
      /\ status' = [r \in Rows |-> IF r \in RowsOf(e) THEN "PENDING" ELSE status[r]]
      /\ UNCHANGED <<state, pc, msg>>
  BY DEF createActionExecution, issueVars, workerVars
<1>3. \A r \in RowsOf(e) : r \in Rows /\ status[r] = "ABSENT"
  BY <1>2, RowOwner DEF IInv, RowOK
<1>4. SentStays
  BY <1>2, <1>3 DEF SentStays
<1>5. ASSUME NEW c \in Executions, execStatus'[c] = "COMPLETED" PROVE AllSent(c)'
  <2>1. execStatus[c] = "COMPLETED"
    BY <1>1, <1>2, <1>5 DEF TypeOK
  <2>2. QED
    BY <1>4, <2>1, AllSentStays DEF CInv
<1>6. ASSUME NEW x \in Workers, msg'[x] # NoMsg PROVE ClosingOK(x)'
  <2>1. status'[Row(x)] = status[Row(x)]
    <3>1. Row(x) \in Rows /\ status[Row(x)] # "ABSENT"
      BY <1>2, <1>6, HeldStatus DEF Held
    <3>2. QED
      BY <1>2, <1>3, <3>1
  <2>2. QED
    BY <1>1, <1>2, <1>4, <1>6, <2>1, ClosingUndisturbed DEF CInv
<1>7. CInv'
  BY <1>5, <1>6 DEF CInv
<1>8. Contract!Accept(e)
  <2>1. \A r \in RowsOf(e) : Settlement(r) = "none"
    BY <1>3, SettlementReads
  <2>2. \A r \in Rows : Settlement(r)' = IF r \in RowsOf(e) THEN "open" ELSE Settlement(r)
    BY <1>2 DEF Settlement
  <2>3. {c \in Executions : execStatus'[c] = "COMPLETED"}
          = {c \in Executions : execStatus[c] = "COMPLETED"}
    BY <1>1, <1>2 DEF TypeOK
  <2>4. QED
    BY <1>2, <1>3, <2>1, <2>2, <2>3 DEF Contract!Accept, Contract!AllEffects, Rows
<1>9. QED
  BY <1>7, <1>8

\* Backoffs, late requests and operators: nothing the contract sees.
LEMMA OtherSteps ==
  ASSUME IInv, CInv,
         \/ \E e \in Executions : reconcileExecution(e)
         \/ \E r \in Rows : BackoffElapses(r) \/ landLate(r)
         \/ \E i \in Issues, s \in TicketStatus : syncZendesk(i, s)
         \/ \E p \in Refreshers :
              upsertRefreshed(p) \/ \E i \in Issues : refreshCard(p, i)
         \/ UNCHANGED vars
  PROVE  CInv' /\ Invisible
<1>1. UNCHANGED <<status, execStatus, state, pc, msg>>
  BY DEF reconcileExecution, BackoffElapses, landLate, syncZendesk, upsertRefreshed,
    refreshCard, vars, rowVars,
    execVars, issueVars, workerVars
<1>2. SentStays /\ TypeOK
  BY <1>1 DEF SentStays, IInv
<1>3. \A e \in Executions : execStatus'[e] = "COMPLETED" => AllSent(e)'
  BY <1>1, <1>2, AllSentStays DEF CInv
<1>4. \A x \in Workers : msg'[x] # NoMsg => ClosingOK(x)'
  BY <1>1, <1>2, ClosingUndisturbed DEF CInv
<1>5. QED
  BY <1>1, <1>3, <1>4 DEF CInv, Invisible

-----------------------------------------------------------------------------
(***************************************************************************)
(* The theorem.                                                            *)
(***************************************************************************)
\* The contract starts where the outbox does.
LEMMA ContractInitially == Init => CInv /\ Contract!ContractInit
<1>. SUFFICES ASSUME Init PROVE CInv /\ Contract!ContractInit
  OBVIOUS
<1>1. CInv
  BY DEF Init, CInv
<1>2. \A r \in Rows : Settlement(r) = "none"
  BY SettlementReads DEF Init
<1>3. {e \in Executions : execStatus[e] = "COMPLETED"} = {}
  BY DEF Init
<1>4. QED
  BY <1>1, <1>2, <1>3 DEF Init, Contract!ContractInit, Contract!AllEffects, Rows

\* Every step of the outbox is a step of the contract or a stutter.
LEMMA ContractStep ==
  ASSUME MaxDbFaults = 0, IInv, CInv, [Next]_vars
  PROVE  CInv' /\ [Contract!ContractNext]_(Contract!contractVars)
<1>1. ASSUME NEW e \in Executions, createActionExecution(e)
      PROVE  CInv' /\ Contract!ContractNext
  BY <1>1, CreateStep DEF Contract!ContractNext
<1>2. ASSUME NEW w \in Workers, claimBatch(w) \/ startMessage(w) \/ abandonBatch(w)
      PROVE  CInv' /\ UNCHANGED Contract!contractVars
  BY <1>2, HoldingSteps
<1>3. ASSUME NEW w \in Workers, processMessage(w), ~startMessage(w)
      PROVE  CInv' /\ [Contract!ContractNext]_(Contract!contractVars)
  <2>1. msg[w] # NoMsg
    BY <1>3 DEF processMessage, At, markExecutionInProgress,
      appendIntended, executeExternalCall, recordUncertain, reconcile,
      appendReconciledEntry, blockForOperator, recordRetriable, scheduleRetry,
      markTerminal, recordConfirmed, markOutboxSent, countPending,
      completeExecution, rebuildCardState, upsertCardState
  <2>2. CASE \/ appendIntended(w) \/ executeExternalCall(w) \/ recordUncertain(w)
             \/ reconcile(w) \/ appendReconciledEntry(w) \/ recordRetriable(w)
             \/ recordConfirmed(w) \/ countPending(w)
             \/ rebuildCardState(w) \/ upsertCardState(w)
    BY <2>1, <2>2, QuietSteps, InvisibleStutters
  <2>3. CASE markExecutionInProgress(w) \/ scheduleRetry(w)
    BY <2>1, <2>3, ExecutionMoves
  <2>4. CASE markOutboxSent(w) \/ blockForOperator(w) \/ markTerminal(w)
    BY <2>1, <2>4, SettlingSteps DEF Contract!ContractNext, Contract!AllEffects, Rows
  <2>5. CASE completeExecution(w)
    BY <2>1, <2>5, CompletionSteps, InvisibleStutters DEF Contract!ContractNext
  <2>6. QED
    BY <1>3, <2>2, <2>3, <2>4, <2>5 DEF processMessage
<1>4. CASE \/ \E e \in Executions : reconcileExecution(e)
           \/ \E r \in Rows : BackoffElapses(r) \/ landLate(r)
           \/ \E i \in Issues, s \in TicketStatus : syncZendesk(i, s)
           \/ \E p \in Refreshers :
                upsertRefreshed(p) \/ \E i \in Issues : refreshCard(p, i)
           \/ UNCHANGED vars
  BY <1>4, OtherSteps, InvisibleStutters
<1>5. ASSUME NEW w \in Workers PROVE ~faultInHandleSuccess(w)
  BY DEF faultInHandleSuccess, IInv, TypeOK
<1>6. QED
  BY <1>1, <1>2, <1>3, <1>4, <1>5 DEF Next, WorkerStep

\* As long as no database error hits handleSuccess, every behaviour of the
\* workers, whatever crashes, retries and races it contains, is one in which
\* effects settle once, and an execution completes once, with all its effects
\* SENT, moving its issue in that step (checkAndCompleteExecution).
THEOREM OutboxImplementsContract ==
  ASSUME MaxDbFaults = 0
  PROVE  Spec => ImplementsContract
<1>1. Init => CInv /\ Contract!ContractInit
  BY ContractInitially
<1>2. IInv /\ CInv /\ [Next]_vars
        => CInv' /\ [Contract!ContractNext]_(Contract!contractVars)
  BY ContractStep
<1>3. QED
  BY <1>1, <1>2, Invariance, PTL DEF Spec, ImplementsContract, Contract!ContractSpec

-----------------------------------------------------------------------------
(***************************************************************************)
(* Completions, transitions and cards.                                     *)
(***************************************************************************)
\* What is completed stays completed: the contract never takes it back.
LEMMA CompletedStays ==
  ASSUME MaxDbFaults = 0, IInv, CInv, [Next]_vars,
         NEW e \in Executions, execStatus[e] = "COMPLETED"
  PROVE  execStatus'[e] = "COMPLETED"
<1>1. [Contract!ContractNext]_(Contract!contractVars)
  BY ContractStep
<1>2. {c \in Executions : execStatus[c] = "COMPLETED"}
        \subseteq {c \in Executions : execStatus'[c] = "COMPLETED"}
  BY <1>1 DEF Contract!ContractNext, Contract!contractVars, Contract!Accept,
    Contract!Settle, Contract!Complete
<1>3. QED
  BY <1>2

\* Only a completion moves issues and writes transitions.
LEMMA OnlyCompletionMoves ==
  ASSUME TypeOK, [Next]_vars
  PROVE  \/ UNCHANGED <<state, transitions>>
         \/ \E w \in Workers :
              /\ completeExecution(w) /\ msg[w] # NoMsg
              /\ execStatus[Exec(Row(w))] # "COMPLETED"
              /\ applyStateTransition(Exec(Row(w)))
              /\ execStatus' = [execStatus EXCEPT ![Exec(Row(w))] = "COMPLETED"]
              /\ pc'[w] = "rebuild" /\ msg' = msg
<1>1. ASSUME NEW w \in Workers, completeExecution(w)
      PROVE  \/ UNCHANGED <<state, transitions>>
             \/ /\ msg[w] # NoMsg
                /\ execStatus[Exec(Row(w))] # "COMPLETED"
                /\ applyStateTransition(Exec(Row(w)))
                /\ execStatus' = [execStatus EXCEPT ![Exec(Row(w))] = "COMPLETED"]
                /\ pc'[w] = "rebuild" /\ msg' = msg
  BY <1>1 DEF completeExecution, At, Goto, TypeOK
<1>2. ASSUME NEW w \in Workers, WorkerStep(w), ~completeExecution(w)
      PROVE  UNCHANGED <<state, transitions>>
  BY <1>2 DEF WorkerStep, processMessage, claimBatch, startMessage, markExecutionInProgress,
    appendIntended, executeExternalCall, recordUncertain, reconcile, appendReconciledEntry,
    blockForOperator, recordRetriable, scheduleRetry, markTerminal, recordConfirmed,
    markOutboxSent, countPending, rebuildCardState, upsertCardState, issueVars
<1>3. CASE \/ \E w \in Workers : faultInHandleSuccess(w) \/ abandonBatch(w)
           \/ \E e \in Executions : createActionExecution(e) \/ reconcileExecution(e)
           \/ \E r \in Rows : BackoffElapses(r) \/ landLate(r)
           \/ \E i \in Issues, s \in TicketStatus : syncZendesk(i, s)
           \/ \E p \in Refreshers :
                upsertRefreshed(p) \/ \E i \in Issues : refreshCard(p, i)
           \/ UNCHANGED vars
  BY <1>3 DEF faultInHandleSuccess, abandonBatch, createActionExecution, reconcileExecution,
    BackoffElapses, landLate, syncZendesk, upsertRefreshed, refreshCard, vars, issueVars
<1>4. QED
  BY <1>1, <1>2, <1>3 DEF Next

\* A worker past markOutboxSent leaves its statement by that statement, when
\* nothing fails and nobody dies.
LEMMA ClosingMoves ==
  ASSUME MaxDbFaults = 0, MaxCrashes = 0, TypeOK, [Next]_vars,
         NEW w \in Workers, pc[w] \in Closing, msg[w] # NoMsg
  PROVE  \/ pc'[w] = pc[w] /\ msg'[w] = msg[w]
         \/ countPending(w) \/ completeExecution(w)
         \/ rebuildCardState(w) \/ upsertCardState(w)
<1>1. ASSUME NEW x \in Workers \ {w}, WorkerStep(x)
      PROVE  pc'[w] = pc[w] /\ msg'[w] = msg[w]
  BY <1>1 DEF WorkerStep, processMessage, claimBatch, startMessage, markExecutionInProgress,
    appendIntended, executeExternalCall, recordUncertain, reconcile, appendReconciledEntry,
    blockForOperator, recordRetriable, scheduleRetry, markTerminal, recordConfirmed,
    markOutboxSent, countPending, completeExecution, rebuildCardState,
    upsertCardState, Goto, Finish, TypeOK
<1>2. ASSUME WorkerStep(w)
      PROVE  \/ countPending(w) \/ completeExecution(w)
             \/ rebuildCardState(w) \/ upsertCardState(w)
  BY <1>2 DEF WorkerStep, processMessage, claimBatch, startMessage, markExecutionInProgress,
    appendIntended, executeExternalCall, recordUncertain, reconcile, appendReconciledEntry,
    blockForOperator, recordRetriable, scheduleRetry, markTerminal, recordConfirmed,
    markOutboxSent, At, Closing
<1>3. ASSUME NEW x \in Workers PROVE ~faultInHandleSuccess(x) /\ ~abandonBatch(x)
  BY DEF faultInHandleSuccess, abandonBatch, TypeOK
<1>4. CASE \/ \E e \in Executions : createActionExecution(e) \/ reconcileExecution(e)
           \/ \E r \in Rows : BackoffElapses(r) \/ landLate(r)
           \/ \E i \in Issues, s \in TicketStatus : syncZendesk(i, s)
           \/ \E p \in Refreshers :
                upsertRefreshed(p) \/ \E i \in Issues : refreshCard(p, i)
           \/ UNCHANGED vars
  BY <1>4 DEF createActionExecution, reconcileExecution, BackoffElapses, landLate,
    syncZendesk, upsertRefreshed, refreshCard, vars, workerVars
<1>5. QED
  BY <1>1, <1>2, <1>3, <1>4 DEF Next

\* Only markOutboxSent makes a row SENT.
LEMMA OnlyMarkSends ==
  ASSUME TypeOK, [Next]_vars, NEW r \in Rows, status[r] # "SENT", status'[r] = "SENT"
  PROVE  \E w \in Workers : /\ markOutboxSent(w) /\ msg[w] # NoMsg
                            /\ Row(w) = r /\ pc'[w] = "count" /\ msg' = msg
<1>1. ASSUME NEW w \in Workers, markOutboxSent(w)
      PROVE  msg[w] # NoMsg /\ Row(w) = r /\ pc'[w] = "count" /\ msg' = msg
  BY <1>1 DEF markOutboxSent, At, Goto, TypeOK
<1>2. ASSUME NEW w \in Workers, processMessage(w), ~markOutboxSent(w)
      PROVE  FALSE
  BY <1>2 DEF processMessage, startMessage, markExecutionInProgress,
    appendIntended, executeExternalCall, recordUncertain, reconcile, appendReconciledEntry,
    blockForOperator, recordRetriable, scheduleRetry, markTerminal, recordConfirmed,
    countPending, completeExecution, rebuildCardState, upsertCardState, rowVars, TypeOK
<1>3. ASSUME NEW w \in Workers, claimBatch(w) PROVE FALSE
  BY <1>3 DEF claimBatch
<1>4. ASSUME NEW e \in Executions, createActionExecution(e) PROVE FALSE
  BY <1>4 DEF createActionExecution
<1>5. CASE \/ \E w \in Workers : faultInHandleSuccess(w) \/ abandonBatch(w)
           \/ \E e \in Executions : reconcileExecution(e)
           \/ \E q \in Rows : BackoffElapses(q) \/ landLate(q)
           \/ \E i \in Issues, s \in TicketStatus : syncZendesk(i, s)
           \/ \E p \in Refreshers :
                upsertRefreshed(p) \/ \E i \in Issues : refreshCard(p, i)
           \/ UNCHANGED vars
  BY <1>5 DEF faultInHandleSuccess, abandonBatch, reconcileExecution,
    BackoffElapses, landLate, syncZendesk, upsertRefreshed, refreshCard, vars, rowVars
<1>6. QED
  BY <1>1, <1>2, <1>3, <1>4, <1>5 DEF Next, WorkerStep

\* A transition has been written for a COMPLETED execution, and once.
TransitionsOnce ==
  \A e \in Executions :
    transitions[e] = 0 \/ (transitions[e] = 1 /\ execStatus[e] = "COMPLETED")

LEMMA TransitionsKept ==
  ASSUME MaxDbFaults = 0, IInv, CInv, TransitionsOnce, [Next]_vars
  PROVE  TransitionsOnce'
<1>. SUFFICES ASSUME NEW e \in Executions
              PROVE  \/ transitions'[e] = 0
                     \/ transitions'[e] = 1 /\ execStatus'[e] = "COMPLETED"
  BY DEF TransitionsOnce
<1>1. TypeOK
  BY DEF IInv
<1>2. CASE transitions'[e] = transitions[e]
  BY <1>2, CompletedStays DEF TransitionsOnce
<1>3. CASE transitions'[e] # transitions[e]
  <2>1. PICK w \in Workers :
          /\ msg[w] # NoMsg /\ execStatus[Exec(Row(w))] # "COMPLETED"
          /\ applyStateTransition(Exec(Row(w)))
          /\ execStatus' = [execStatus EXCEPT ![Exec(Row(w))] = "COMPLETED"]
    BY <1>1, <1>3, OnlyCompletionMoves
  <2>2. Exec(Row(w)) \in Executions
    BY <1>1, <2>1, CurrentRow
  <2>3. /\ e = Exec(Row(w)) /\ transitions'[e] = transitions[e] + 1
        /\ execStatus'[e] = "COMPLETED" /\ execStatus[e] # "COMPLETED"
    BY <1>1, <1>3, <2>1, <2>2 DEF applyStateTransition, TypeOK
  <2>4. transitions[e] = 0
    BY <2>3 DEF TransitionsOnce
  <2>5. QED
    BY <2>3, <2>4
<1>4. QED
  BY <1>2, <1>3

(***************************************************************************)
(* However many workers finish the effects of an execution, with crashes,  *)
(* retries and late requests, its transition is written once at most       *)
(* (checkAndCompleteExecution looks at the status under the issue's lock). *)
(***************************************************************************)
THEOREM TransitionsAreSingle ==
  ASSUME MaxDbFaults = 0
  PROVE  Spec => []OneTransitionPerExecution
<1>1. Init => CInv /\ TransitionsOnce
  BY ContractInitially DEF Init, TransitionsOnce
<1>2. IInv /\ CInv /\ TransitionsOnce /\ [Next]_vars => CInv' /\ TransitionsOnce'
  BY ContractStep, TransitionsKept
<1>3. TransitionsOnce => OneTransitionPerExecution
  BY DEF TransitionsOnce, OneTransitionPerExecution
<1>4. QED
  BY <1>1, <1>2, <1>3, Invariance, PTL DEF Spec

LEMMA CompletionKept ==
  ASSUME MaxDbFaults = 0, MaxCrashes = 0, IInv, CInv, CompletionNotLost, [Next]_vars
  PROVE  CompletionNotLost'
<1>. SUFFICES ASSUME NEW e \in Executions, RowsOf(e) # {}, AllSent(e)',
                     execStatus'[e] # "COMPLETED"
              PROVE  \E w \in Workers : /\ pc'[w] \in {"count", "complete"}
                                        /\ msg'[w] # NoMsg /\ Exec(msg'[w].row) = e
  BY DEF CompletionNotLost, At, Row, RowsOf, Exec
<1>1. TypeOK
  BY DEF IInv
<1>2. execStatus[e] # "COMPLETED"
  BY CompletedStays
<1>3. CASE AllSent(e)
  <2>1. PICK w \in Workers : /\ pc[w] \in {"count", "complete"} /\ msg[w] # NoMsg
                             /\ Exec(Row(w)) = e
    BY <1>2, <1>3 DEF CompletionNotLost, At
  <2>2. CASE pc'[w] = pc[w] /\ msg'[w] = msg[w]
    BY <2>1, <2>2 DEF Row
  <2>3. CASE countPending(w)
    <3>1. pc'[w] = "complete" /\ msg' = msg
      BY <1>1, <1>3, <2>1, <2>3 DEF countPending, Goto, TypeOK
    <3>2. QED
      BY <2>1, <3>1 DEF Row
  <2>4. ~completeExecution(w)
    BY <1>1, <1>2, <2>1 DEF completeExecution, TypeOK
  <2>5. ~rebuildCardState(w) /\ ~upsertCardState(w)
    BY <2>1 DEF rebuildCardState, upsertCardState, At
  <2>6. QED
    BY <1>1, <2>1, <2>2, <2>3, <2>4, <2>5, ClosingMoves DEF Closing
<1>4. CASE ~AllSent(e)
  <2>1. PICK r \in RowsOf(e) : status[r] # "SENT" /\ status'[r] = "SENT"
    BY <1>4 DEF AllSent
  <2>2. r \in Rows /\ Exec(r) = e
    BY <2>1, RowOwner
  <2>3. PICK w \in Workers : msg[w] # NoMsg /\ Row(w) = r /\ pc'[w] = "count" /\ msg' = msg
    BY <1>1, <2>1, <2>2, OnlyMarkSends
  <2>4. QED
    BY <2>2, <2>3 DEF Row
<1>5. QED
  BY <1>3, <1>4

(***************************************************************************)
(* Without crashes and faults no completion is lost: of workers that send  *)
(* the last effects of an execution together, the last to count sees all   *)
(* of them SENT and completes it.                                          *)
(***************************************************************************)
THEOREM CompletionsArrive ==
  ASSUME MaxDbFaults = 0, MaxCrashes = 0
  PROVE  Spec => []CompletionNotLost
<1>1. Init => CInv /\ CompletionNotLost
  <2>1. ASSUME Init, NEW e \in Executions, RowsOf(e) # {}, AllSent(e) PROVE FALSE
    BY <2>1, RowOwner DEF Init, AllSent
  <2>2. QED
    BY <2>1, ContractInitially DEF CompletionNotLost
<1>2. IInv /\ CInv /\ CompletionNotLost /\ [Next]_vars => CInv' /\ CompletionNotLost'
  BY ContractStep, CompletionKept
<1>3. QED
  BY <1>1, <1>2, Invariance, PTL DEF Spec

(***************************************************************************)
(* The card.                                                               *)
(***************************************************************************)
\* A worker runs a statement exactly while it is at "upsert"; of two statements
\* of one issue neither is alone; and one that is alone shows the state of the
\* issue, unless some worker is still about to show it.
StatementsOK ==
  /\ \A w \in Workers : rebuilding[w] # NoStatement <=> At(w, "upsert")
  /\ \A p, q \in Rebuilders :
       /\ p # q /\ rebuilding[p] # NoStatement /\ rebuilding[q] # NoStatement
       /\ rebuilding[p].issue = rebuilding[q].issue
       => ~rebuilding[p].alone
  /\ \A p \in Rebuilders, i \in Issues :
       /\ rebuilding[p] # NoStatement /\ rebuilding[p].issue = i
       /\ rebuilding[p].alone /\ rebuilding[p].state # state[i]
       => \E w \in Workers : AboutToShow(w, i)

CardInv == CardFollowsIssue /\ StatementsOK

\* Steps that move no issue and no card, and no worker to or from the two steps
\* of a rebuild.
LEMMA QuietCards ==
  ASSUME TypeOK, CardInv, UNCHANGED <<state, card, raced, rebuilding>>,
         \A w \in Workers :
           /\ At(w, "rebuild")' <=> At(w, "rebuild")
           /\ At(w, "upsert")' <=> At(w, "upsert")
           /\ At(w, "rebuild") => msg'[w] = msg[w]
  PROVE  CardInv'
<1>1. \A w \in Workers, i \in Issues : AboutToShow(w, i) => AboutToShow(w, i)'
  BY DEF AboutToShow, Row
<1>2. CardFollowsIssue'
  BY <1>1 DEF CardInv, CardFollowsIssue
<1>3. StatementsOK'
  BY <1>1 DEF CardInv, StatementsOK
<1>4. QED
  BY <1>2, <1>3 DEF CardInv

\* The worker that moves an issue is about to show it.
LEMMA CompletionShows ==
  ASSUME TypeOK, CardInv, NEW w \in Workers, completeExecution(w)
  PROVE  CardInv'
<1>. DEFINE e == Exec(Row(w))
<1>1. /\ pc[w] = "complete" /\ UNCHANGED <<card, raced, rebuilding>>
      /\ \A x \in Workers \ {w} : pc'[x] = pc[x] /\ msg'[x] = msg[x]
  BY DEF completeExecution, At, Goto, Finish, TypeOK
<1>2. e \in Executions /\ Issue(e) \in Issues
  BY CurrentRow, IssueType DEF completeExecution, At
<1>3. \/ state' = state /\ (msg'[w] = NoMsg \/ (msg'[w] = msg[w] /\ pc'[w] = "rebuild"))
      \/ /\ pc'[w] = "rebuild" /\ msg'[w] = msg[w]
         /\ \A i \in Issues \ {Issue(e)} : state'[i] = state[i]
  <2>1. CASE execStatus[e] = "COMPLETED"
    <3>1. Finish(w) /\ UNCHANGED <<state, transitions, execStatus>>
      BY <2>1 DEF completeExecution
    <3>2. msg'[w] = NoMsg
      BY <3>1 DEF Finish, TypeOK
    <3>3. QED
      BY <3>1, <3>2
  <2>2. CASE execStatus[e] # "COMPLETED"
    <3>1. applyStateTransition(e) /\ Goto(w, "rebuild")
      BY <2>2 DEF completeExecution
    <3>2. pc'[w] = "rebuild" /\ msg'[w] = msg[w]
      BY <3>1 DEF Goto, TypeOK
    <3>3. \A i \in Issues \ {Issue(e)} : state'[i] = state[i]
      BY <3>1 DEF applyStateTransition, TypeOK
    <3>4. QED
      BY <3>2, <3>3
  <2>3. QED
    BY <2>1, <2>2
<1>4. ASSUME NEW x \in Workers, NEW i \in Issues, AboutToShow(x, i),
             state'[i] = state[i]
      PROVE  AboutToShow(x, i)'
  BY <1>1, <1>4 DEF AboutToShow, At, Row
<1>5. ASSUME NEW i \in Issues, state'[i] # state[i]
      PROVE  AboutToShow(w, i)'
  <2>1. i = Issue(e) /\ pc'[w] = "rebuild" /\ msg'[w] = msg[w]
    BY <1>3, <1>5
  <2>2. msg[w] # NoMsg
    BY DEF completeExecution, At
  <2>3. QED
    BY <2>1, <2>2 DEF AboutToShow, At, Row
<1>6. CardFollowsIssue'
  BY <1>1, <1>4, <1>5 DEF CardInv, CardFollowsIssue
<1>7. \A x \in Workers : At(x, "upsert")' <=> At(x, "upsert")
  BY <1>1, <1>3 DEF At
<1>8. ASSUME NEW p \in Rebuilders, NEW i \in Issues, rebuilding[p] # NoStatement,
             rebuilding[p].issue = i, rebuilding[p].alone, rebuilding[p].state # state'[i]
      PROVE  \E x \in Workers : AboutToShow(x, i)'
  <2>1. CASE state'[i] = state[i]
    BY <1>4, <1>8, <2>1 DEF CardInv, StatementsOK
  <2>2. CASE state'[i] # state[i]
    BY <1>5, <2>2
  <2>3. QED
    BY <2>1, <2>2
<1>9. StatementsOK'
  BY <1>1, <1>7, <1>8 DEF CardInv, StatementsOK
<1>10. QED
  BY <1>6, <1>9 DEF CardInv

\* A statement shows what is committed when it begins, and from then on no
\* statement of the issue that was running is alone.
LEMMA BeginShows ==
  ASSUME TypeOK, CardInv, NEW p \in Rebuilders, NEW i \in Issues,
         beginRebuild(p, i), rebuilding[p] = NoStatement,
         UNCHANGED <<state, card, raced, msg>>,
         \/ p \notin Workers /\ UNCHANGED pc
         \/ /\ p \in Workers /\ At(p, "rebuild") /\ Issue(Exec(Row(p))) = i
            /\ pc' = [pc EXCEPT ![p] = "upsert"]
  PROVE  CardInv'
<1>. USE ConstantsAssumption
<1>1. /\ rebuilding'[p] # NoStatement /\ rebuilding'[p].issue = i
      /\ rebuilding'[p].state = state[i]
      /\ rebuilding'[p].alone <=> RebuildsOf(i) = {}
  <2>1. rebuilding'[p] = [issue |-> i, state |-> state[i], alone |-> RebuildsOf(i) = {}]
    BY DEF beginRebuild
  <2>2. (RebuildsOf(i) = {}) \in BOOLEAN
    OBVIOUS
  <2>3. rebuilding'[p] \in CardStatement
    BY <2>1, <2>2 DEF CardStatement, TypeOK
  <2>4. rebuilding'[p] # NoStatement
    BY <2>3
  <2>5. rebuilding'[p].alone = (RebuildsOf(i) = {})
    BY <2>1
  <2>6. rebuilding'[p].alone <=> RebuildsOf(i) = {}
    BY <2>2, <2>5, Zenon
  <2>7. QED
    BY <2>1, <2>4, <2>6
<1>2. \A q \in Rebuilders \ {p} :
        /\ rebuilding'[q] # NoStatement <=> rebuilding[q] # NoStatement
        /\ rebuilding[q] # NoStatement =>
             /\ rebuilding'[q].issue = rebuilding[q].issue
             /\ rebuilding'[q].state = rebuilding[q].state
             /\ rebuilding'[q].alone => rebuilding[q].alone /\ rebuilding[q].issue # i
  <2>1. ASSUME NEW q \in Rebuilders \ {p}, q \in RebuildsOf(i)
        PROVE  /\ rebuilding'[q] # NoStatement /\ rebuilding[q] # NoStatement
               /\ rebuilding'[q].issue = rebuilding[q].issue
               /\ rebuilding'[q].state = rebuilding[q].state /\ ~rebuilding'[q].alone
    <3>1. rebuilding'[q] = [rebuilding[q] EXCEPT !.alone = FALSE]
      BY <2>1 DEF beginRebuild
    <3>2. rebuilding[q] \in CardStatement
      BY <2>1 DEF RebuildsOf, TypeOK
    <3>3. rebuilding'[q] \in CardStatement
      BY <3>1, <3>2 DEF CardStatement
    <3>4. QED
      BY <3>1, <3>2, <3>3 DEF CardStatement
  <2>2. ASSUME NEW q \in Rebuilders \ {p}, q \notin RebuildsOf(i)
        PROVE  /\ rebuilding'[q] = rebuilding[q]
               /\ rebuilding[q] # NoStatement => rebuilding[q].issue # i
    BY <2>2 DEF beginRebuild, RebuildsOf
  <2>3. QED
    BY <2>1, <2>2
<1>3. \A w \in Workers \ {p} : pc'[w] = pc[w] /\ (At(w, "upsert")' <=> At(w, "upsert"))
  BY DEF At, TypeOK
<1>4. p \in Workers => At(p, "upsert")'
  BY DEF At, TypeOK
<1>5. ASSUME NEW w \in Workers, NEW j \in Issues, AboutToShow(w, j)
      PROVE  AboutToShow(w, j)'
  <2>1. CASE w = p
    <3>1. At(p, "upsert")' /\ j = i
      BY <1>4, <1>5, <2>1 DEF AboutToShow, At
    <3>2. QED
      BY <1>1, <2>1, <3>1 DEF AboutToShow
  <2>2. CASE w # p
    <3>1. CASE At(w, "rebuild")
      BY <1>3, <1>5, <2>2, <3>1 DEF AboutToShow, At, Row
    <3>2. CASE At(w, "upsert")
      <4>1. rebuilding[w] # NoStatement /\ w \in Rebuilders \ {p}
        BY <2>2, <3>2 DEF CardInv, StatementsOK, Rebuilders
      <4>2. QED
        BY <1>2, <1>3, <1>5, <2>2, <3>2, <4>1 DEF AboutToShow, At
    <3>3. QED
      BY <1>5, <3>1, <3>2 DEF AboutToShow
  <2>3. QED
    BY <2>1, <2>2
<1>6. CardFollowsIssue'
  BY <1>5 DEF CardInv, CardFollowsIssue
<1>7. \A w \in Workers : rebuilding'[w] # NoStatement <=> At(w, "upsert")'
  BY <1>1, <1>2, <1>3, <1>4 DEF CardInv, StatementsOK, Rebuilders
<1>8. ASSUME NEW q \in Rebuilders, NEW r \in Rebuilders, q # r,
             rebuilding'[q] # NoStatement, rebuilding'[r] # NoStatement,
             rebuilding'[q].issue = rebuilding'[r].issue
      PROVE  ~rebuilding'[q].alone
  <2>1. CASE q = p
    <3>1. r \in RebuildsOf(i)
      BY <1>1, <1>2, <1>8, <2>1 DEF RebuildsOf
    <3>2. QED
      BY <1>1, <2>1, <3>1
  <2>2. CASE q # p /\ r = p
    BY <1>1, <1>2, <1>8, <2>2
  <2>3. CASE q # p /\ r # p
    BY <1>2, <1>8, <2>3 DEF CardInv, StatementsOK
  <2>4. QED
    BY <2>1, <2>2, <2>3
<1>9. ASSUME NEW q \in Rebuilders, NEW j \in Issues, rebuilding'[q] # NoStatement,
             rebuilding'[q].issue = j, rebuilding'[q].alone, rebuilding'[q].state # state'[j]
      PROVE  \E w \in Workers : AboutToShow(w, j)'
  <2>1. q # p
    BY <1>1, <1>9
  <2>2. /\ rebuilding[q] # NoStatement /\ rebuilding[q].alone
        /\ rebuilding[q].issue = j /\ rebuilding[q].state # state[j]
    BY <1>2, <1>9, <2>1
  <2>3. \E w \in Workers : AboutToShow(w, j)
    BY <2>2 DEF CardInv, StatementsOK
  <2>4. QED
    BY <1>5, <2>3
<1>10. StatementsOK'
  BY <1>7, <1>8, <1>9 DEF StatementsOK
<1>11. QED
  BY <1>6, <1>10 DEF CardInv

\* A statement that was alone shows the state of the issue, or leaves a worker
\* that is about to; one that was not is what raced says.
LEMMA CommitShows ==
  ASSUME TypeOK, CardInv, NEW p \in Rebuilders, commitRebuild(p), UNCHANGED state,
         \/ p \notin Workers /\ UNCHANGED <<pc, msg>>
         \/ p \in Workers /\ At(p, "upsert") /\ Finish(p)
  PROVE  CardInv'
<1>. DEFINE i == rebuilding[p].issue
<1>1. /\ rebuilding[p] # NoStatement /\ i \in Issues
      /\ card' = [card EXCEPT ![i] = rebuilding[p].state]
      /\ rebuilding'[p] = NoStatement
      /\ \A q \in Rebuilders \ {p} : rebuilding'[q] = rebuilding[q]
  BY DEF commitRebuild, TypeOK, CardStatement
<1>2. \A w \in Workers \ {p} : pc'[w] = pc[w] /\ msg'[w] = msg[w]
  BY DEF Finish, TypeOK
<1>3. p \in Workers => ~At(p, "upsert")'
  BY DEF Finish, At, TypeOK
<1>4. ASSUME NEW w \in Workers, NEW j \in Issues, AboutToShow(w, j), w # p
      PROVE  AboutToShow(w, j)'
  BY <1>1, <1>2, <1>4 DEF AboutToShow, At, Row, Rebuilders
<1>5. ASSUME NEW j \in Issues, AboutToShow(p, j), p \in Workers
      PROVE  j = i /\ rebuilding[p].state = state[i]
  BY <1>5 DEF AboutToShow, At
<1>6. ASSUME rebuilding[p].alone, NEW j \in Issues \ raced', card'[j] # state'[j]
      PROVE  \E w \in Workers : AboutToShow(w, j)'
  <2>1. raced' = raced \ {i}
    BY <1>6 DEF commitRebuild
  <2>2. CASE j = i
    <3>1. rebuilding[p].state # state[i]
      BY <1>1, <1>6, <2>2 DEF TypeOK
    <3>2. \E w \in Workers : AboutToShow(w, i)
      BY <1>1, <1>6, <3>1 DEF CardInv, StatementsOK
    <3>3. QED
      BY <1>1, <1>4, <1>5, <2>2, <3>1, <3>2
  <2>3. CASE j # i
    <3>1. j \in Issues \ raced /\ card[j] # state[j]
      BY <1>1, <1>6, <2>1, <2>3 DEF TypeOK
    <3>2. \E w \in Workers : AboutToShow(w, j)
      BY <3>1 DEF CardInv, CardFollowsIssue
    <3>3. QED
      BY <1>4, <1>5, <2>3, <3>2
  <2>4. QED
    BY <2>2, <2>3
<1>7. ASSUME ~rebuilding[p].alone, NEW j \in Issues \ raced', card'[j] # state'[j]
      PROVE  \E w \in Workers : AboutToShow(w, j)'
  <2>1. raced' = raced \cup {i}
    BY <1>7 DEF commitRebuild
  <2>2. j # i /\ j \in Issues \ raced /\ card[j] # state[j]
    BY <1>1, <1>7, <2>1 DEF TypeOK
  <2>3. \E w \in Workers : AboutToShow(w, j)
    BY <2>2 DEF CardInv, CardFollowsIssue
  <2>4. QED
    BY <1>4, <1>5, <2>2, <2>3
<1>8. CardFollowsIssue'
  BY <1>6, <1>7 DEF CardFollowsIssue
<1>9. \A w \in Workers : rebuilding'[w] # NoStatement <=> At(w, "upsert")'
  BY <1>1, <1>2, <1>3 DEF CardInv, StatementsOK, At, Rebuilders
<1>10. ASSUME NEW q \in Rebuilders, NEW j \in Issues, rebuilding'[q] # NoStatement,
              rebuilding'[q].issue = j, rebuilding'[q].alone, rebuilding'[q].state # state'[j]
       PROVE  \E w \in Workers : AboutToShow(w, j)'
  <2>1. q # p /\ rebuilding'[q] = rebuilding[q]
    BY <1>1, <1>10
  <2>2. PICK w \in Workers : AboutToShow(w, j)
    BY <1>10, <2>1 DEF CardInv, StatementsOK
  <2>3. CASE w = p
    <3>1. j = i
      BY <1>5, <2>2, <2>3
    <3>2. ~rebuilding[q].alone
      BY <1>1, <1>10, <2>1, <3>1 DEF CardInv, StatementsOK
    <3>3. QED
      BY <1>10, <2>1, <3>2
  <2>4. CASE w # p
    BY <1>4, <2>2, <2>4
  <2>5. QED
    BY <2>3, <2>4
<1>11. \A q, r \in Rebuilders :
         /\ q # r /\ rebuilding'[q] # NoStatement /\ rebuilding'[r] # NoStatement
         /\ rebuilding'[q].issue = rebuilding'[r].issue
         => ~rebuilding'[q].alone
  BY <1>1 DEF CardInv, StatementsOK
<1>12. StatementsOK'
  BY <1>9, <1>10, <1>11 DEF StatementsOK
<1>13. QED
  BY <1>8, <1>12 DEF CardInv

\* Without crashes and faults every step is one of these.
LEMMA CardKept ==
  ASSUME MaxDbFaults = 0, MaxCrashes = 0, TypeOK, CardInv, [Next]_vars
  PROVE  CardInv'
<1>. USE ConstantsAssumption
<1>1. ASSUME NEW w \in Workers, WorkerStep(w), ~completeExecution(w),
             ~rebuildCardState(w), ~upsertCardState(w)
      PROVE  CardInv'
  <2>1. /\ UNCHANGED <<state, card, raced, rebuilding>>
        /\ \A x \in Workers \ {w} : pc'[x] = pc[x] /\ msg'[x] = msg[x]
    BY <1>1 DEF WorkerStep, processMessage, claimBatch, startMessage,
      markExecutionInProgress, appendIntended, executeExternalCall, recordUncertain,
      reconcile, appendReconciledEntry, blockForOperator, recordRetriable, scheduleRetry,
      markTerminal, recordConfirmed, markOutboxSent, countPending, Goto, Finish,
      issueVars, TypeOK
  <2>2. ~At(w, "rebuild") /\ ~At(w, "upsert")
    BY <1>1 DEF WorkerStep, processMessage, claimBatch, startMessage,
      markExecutionInProgress, appendIntended, executeExternalCall, recordUncertain,
      reconcile, appendReconciledEntry, blockForOperator, recordRetriable, scheduleRetry,
      markTerminal, recordConfirmed, markOutboxSent, countPending, At
  <2>3. ~At(w, "rebuild")' /\ ~At(w, "upsert")'
    BY <1>1, <2>2 DEF WorkerStep, processMessage, claimBatch, startMessage,
      markExecutionInProgress, appendIntended, executeExternalCall, recordUncertain,
      reconcile, appendReconciledEntry, blockForOperator, recordRetriable, scheduleRetry,
      markTerminal, recordConfirmed, markOutboxSent, countPending, Goto, Finish, At,
      FailureLabel, UncertainLabel, TypeOK
  <2>4. \A x \in Workers : /\ At(x, "rebuild")' <=> At(x, "rebuild")
                           /\ At(x, "upsert")' <=> At(x, "upsert")
                           /\ At(x, "rebuild") => msg'[x] = msg[x]
    BY <2>1, <2>2, <2>3 DEF At
  <2>5. QED
    BY <2>1, <2>4, QuietCards
<1>2. ASSUME NEW w \in Workers, rebuildCardState(w) PROVE CardInv'
  <2>1. /\ At(w, "rebuild") /\ beginRebuild(w, Issue(Exec(Row(w))))
        /\ UNCHANGED <<state, card, raced, msg>>
        /\ pc' = [pc EXCEPT ![w] = "upsert"]
    BY <1>2 DEF rebuildCardState, Goto
  <2>2. rebuilding[w] = NoStatement
    BY <2>1 DEF At, CardInv, StatementsOK
  <2>3. Issue(Exec(Row(w))) \in Issues
    BY <2>1, CurrentRow, IssueType DEF At
  <2>4. QED
    BY <2>1, <2>2, <2>3, BeginShows DEF Rebuilders
<1>3. ASSUME NEW w \in Workers, upsertCardState(w) PROVE CardInv'
  BY <1>3, CommitShows DEF upsertCardState, Rebuilders
<1>4. ASSUME NEW p \in Refreshers, NEW i \in Issues, refreshCard(p, i) PROVE CardInv'
  BY <1>4, BeginShows DEF refreshCard, Rebuilders, workerVars
<1>5. ASSUME NEW p \in Refreshers, upsertRefreshed(p) PROVE CardInv'
  BY <1>5, CommitShows DEF upsertRefreshed, Rebuilders, workerVars
<1>6. ASSUME NEW x \in Workers PROVE ~faultInHandleSuccess(x) /\ ~abandonBatch(x)
  BY DEF faultInHandleSuccess, abandonBatch, TypeOK
<1>7. CASE \/ \E e \in Executions : createActionExecution(e) \/ reconcileExecution(e)
           \/ \E r \in Rows : BackoffElapses(r) \/ landLate(r)
           \/ \E i \in Issues, s \in TicketStatus : syncZendesk(i, s)
           \/ UNCHANGED vars
  <2>1. UNCHANGED <<state, card, raced, rebuilding, pc, msg>>
    BY <1>7 DEF createActionExecution, reconcileExecution, BackoffElapses, landLate,
      syncZendesk, vars, issueVars, workerVars
  <2>2. QED
    BY <2>1, QuietCards DEF At
<1>8. QED
  BY <1>1, <1>2, <1>3, <1>4, <1>5, <1>6, <1>7, CompletionShows DEF Next

(***************************************************************************)
(* Without crashes and faults the card differs from the issue only while a *)
(* worker is about to show it, although the rebuild follows the commit,    *)
(* shows what its snapshot had, and several executions, ingestions and     *)
(* operators move and rebuild one issue; unless two rebuilds of the issue  *)
(* overlapped.                                                             *)
(***************************************************************************)
THEOREM CardsFollow ==
  ASSUME MaxDbFaults = 0, MaxCrashes = 0
  PROVE  Spec => []CardFollowsIssue
<1>1. Init => CardInv
  BY ConstantsAssumption DEF Init, CardInv, CardFollowsIssue, StatementsOK, At, Rebuilders
<1>2. TypeOK /\ CardInv /\ [Next]_vars => CardInv'
  BY CardKept
<1>3. CardInv => CardFollowsIssue
  BY DEF CardInv
<1>4. QED
  BY <1>1, <1>2, <1>3, TypeCorrect, PTL DEF Spec
=============================================================================
