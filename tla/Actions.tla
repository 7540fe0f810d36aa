------------------------------ MODULE Actions ------------------------------
(***************************************************************************)
(* The action service: services/actionService.ts, routes/actions.ts and    *)
(* routes/approvals.ts, for one issue of one tenant.                       *)
(*                                                                         *)
(* A request is a POST /api/v1/actions: its handler reads, in queries of   *)
(* their own, whether the key is known, the tenant's configuration, the    *)
(* state of the source, the risk signals and the evidence; asks the        *)
(* policy; and writes an execution or an approval request.  Managers grant *)
(* and deny approvals meanwhile, operators change the configuration, and   *)
(* ingestion and webhooks change the facts.                                *)
(*                                                                         *)
(* Generated ids are named by what generated them: an approval by the      *)
(* request that asked for it, an execution by the request or the decision  *)
(* that created it.  Audit rows are left out.                              *)
(***************************************************************************)
EXTENDS Policy, FiniteSets

CONSTANTS
  Requests,     \* requests to initiate an action
  Keys,         \* idempotency keys their senders choose
  Asks,         \* what a request may ask for
  Decisions,    \* calls of managers to grant or deny an approval
  Amounts,      \* amounts of refunds, in cents; no amount is 0
  Thresholds,   \* manager_approval_threshold_cents
  MaxChanges,   \* bound: changes of the facts the policy reads
  MaxFaults,    \* bound: failing statements and lost commit answers
  NoRequest     \* a request that has not been sent

AskType == [actionType : ActionType, amount : Amounts, complete : BOOLEAN]

ASSUME ActionsAssumption ==
  /\ Asks \subseteq AskType
  /\ NoRequest \notin [key : Keys, ask : Asks]
  /\ Amounts \subseteq Nat /\ 0 \in Amounts
  /\ Thresholds \subseteq Nat
  /\ MaxChanges \in Nat /\ MaxFaults \in Nat

Source == {"stripe", "shopify"}
Config == [approvalsEnabled : BOOLEAN, threshold : Thresholds]
EvidenceRow == [amount : Amounts, unavailable : BOOLEAN]

\* Keys of clients, and the key a grant derives from its approval.
ClientKey(k) == <<"client", k>>
ApprovalKey(a) == <<"approval", a>>
ExecutionKey == {ClientKey(k) : k \in Keys} \cup {ApprovalKey(a) : a \in Requests}

ByRequest(q) == <<"request", q>>
ByDecision(d) == <<"decision", d>>
ExecutionId == {ByRequest(q) : q \in Requests} \cup {ByDecision(d) : d \in Decisions}

ActionExecution ==
  [id : ExecutionId, key : ExecutionKey, ask : Asks, approval : SUBSET Requests]

ReplyType ==
  [outcome : PolicyOutcome \cup {"ERROR", "none"}, execution : SUBSET ExecutionId]

CallType ==
  [pc : {"idle", "decide", "answered"}, approval : SUBSET Requests,
   verb : {"none", "grant", "deny"},
   answer : {"none", "APPROVED", "DENIED", "CONFLICT", "FORBIDDEN", "ERROR"}]

\* No statement that stores EXPIRED is ever committed.
ApprovalStatus == {"PENDING", "APPROVED", "DENIED"}

VARIABLES
  tenantConfig,  \* tenant_config
  riskSignals,   \* signals of the last 30 days, per severity
  evidence,      \* evidence_normalized: the row of each source that has one
  newest,        \* the sources whose rows share the latest fetched_at
  executions,    \* action_executions
  approval,      \* approval_requests: status, per request that needed one
  expired,       \* approvals whose expires_at has passed
  pc,            \* next statement of each request's handler
  sent,          \* what each request carries
  facts,         \* what its handler has read
  reply,         \* what it was answered
  call,          \* the managers' calls
  mildest,       \* the mildest facts since the request arrived (history)
  changes,
  faults

factVars    == <<tenantConfig, riskSignals, evidence, newest>>
tableVars   == <<executions, approval, expired>>
requestVars == <<pc, sent, facts, reply>>
actionVars  == <<factVars, tableVars, requestVars, call, mildest, changes, faults>>

PCs ==
  {"unsent", "lookup", "config", "degraded", "abuse", "evidence", "create",
   "approve", "resolve", "answered"}

NoReply == [outcome |-> "none", execution |-> {}]
NoFacts ==
  [config |-> [approvalsEnabled |-> FALSE, threshold |-> 0],
   unavailable |-> FALSE, severity |-> "NONE"]
NoCall == [pc |-> "idle", approval |-> {}, verb |-> "none", answer |-> "none"]

-----------------------------------------------------------------------------
(***************************************************************************)
(* What the handler computes from the tables.                              *)
(***************************************************************************)
computeAbuseSeverity ==
  IF riskSignals["HIGH"] >= 1 THEN "HIGH"
  ELSE IF riskSignals["MEDIUM"] >= 2 THEN "MEDIUM" ELSE "NONE"

\* ORDER BY fetched_at DESC LIMIT 1: any of the newest rows, if there is one.
LatestRows ==
  IF newest = {} THEN {[amount |-> 0, unavailable |-> FALSE]}
  ELSE {evidence[s] : s \in newest}

computeDegradedState(unavailable) ==
  IF unavailable THEN "SOURCE_TOMBSTONED" ELSE "NOMINAL"

Input(a, config, unavailable, severity, amount) ==
  [actionType |-> a.actionType, degradedState |-> computeDegradedState(unavailable),
   abuseSeverity |-> severity, refundAmountCents |-> amount,
   isSourceUnavailable |-> unavailable,
   approvalsEnabled |-> config.approvalsEnabled, threshold |-> config.threshold]

findExecutionByIdempotencyKey(k) == {e \in executions : e.key = k}

\* buildEffectsForAction throws when a parameter it needs is missing.
Buildable(a) == a.complete \/ a.actionType \notin {"issue_refund", "post_comment"}

(***************************************************************************)
(* History: the mildest values, fact by fact, that held at some time since *)
(* a request arrived.  No action reads it.                                 *)
(***************************************************************************)
SetMin(S) == CHOOSE x \in S : \A y \in S : x <= y

Now ==
  [approvals |-> {tenantConfig.approvalsEnabled},
   threshold |-> tenantConfig.threshold,
   severity |-> computeAbuseSeverity,
   unavailable |-> \A r \in LatestRows : r.unavailable,
   amount |-> SetMin({r.amount : r \in LatestRows})]

NoFactsYet ==
  [approvals |-> {}, threshold |-> 0, severity |-> "NONE", unavailable |-> FALSE,
   amount |-> 0]

Milder(m, n) ==
  [approvals |-> m.approvals \cup n.approvals,
   threshold |-> IF m.threshold >= n.threshold THEN m.threshold ELSE n.threshold,
   severity |-> IF Severity[m.severity] <= Severity[n.severity]
                THEN m.severity ELSE n.severity,
   unavailable |-> m.unavailable /\ n.unavailable,
   amount |-> IF m.amount <= n.amount THEN m.amount ELSE n.amount]

Deciding(q) == pc[q] \in {"lookup", "config", "degraded", "abuse", "evidence"}

-----------------------------------------------------------------------------
\* The tables keep the types the schema gives them, and the columns only values
\* that some committed statement stores: EXPIRED is none of them.
TypeOK ==
  /\ tenantConfig \in Config
  /\ riskSignals \in [{"MEDIUM", "HIGH"} -> Nat]
  /\ evidence \in UNION {[S -> EvidenceRow] : S \in SUBSET Source}
  /\ newest \in SUBSET DOMAIN evidence
  /\ executions \in SUBSET ActionExecution
  /\ approval \in [Requests -> ApprovalStatus \cup {"ABSENT"}]
  /\ expired \in SUBSET Requests
  /\ pc \in [Requests -> PCs]
  /\ sent \in [Requests -> [key : Keys, ask : Asks] \cup {NoRequest}]
  /\ reply \in [Requests -> ReplyType]
  /\ call \in [Decisions -> CallType]

\* What one ingestion stores for the sources it found: the refund of a charge,
\* an order that may be archived.
Ingested(S, amount, archived) ==
  [s \in S |-> IF s = "stripe" THEN [amount |-> amount, unavailable |-> FALSE]
               ELSE [amount |-> 0, unavailable |-> archived]]

\* The issue has been open for a while: it may have a signal and evidence.
Init ==
  /\ tenantConfig \in Config
  /\ riskSignals \in {[MEDIUM |-> n, HIGH |-> 0] : n \in 0 .. 1}
  /\ \E S \in SUBSET Source, amount \in Amounts, archived \in BOOLEAN :
       /\ evidence = Ingested(S, amount, archived)
       /\ newest = S
  /\ executions = {}
  /\ approval = [q \in Requests |-> "ABSENT"]
  /\ expired = {}
  /\ pc = [q \in Requests |-> "unsent"]
  /\ sent = [q \in Requests |-> NoRequest]
  /\ facts = [q \in Requests |-> NoFacts]
  /\ reply = [q \in Requests |-> NoReply]
  /\ call = [d \in Decisions |-> NoCall]
  /\ mildest = [q \in Requests |-> NoFactsYet]
  /\ changes = 0
  /\ faults = 0

-----------------------------------------------------------------------------
(***************************************************************************)
(* The facts change while requests are handled.  Each action is one        *)
(* transaction of a component modelled only in what it does to them.       *)
(***************************************************************************)
FactsChange ==
  /\ changes < MaxChanges
  /\ changes' = changes + 1
  /\ mildest' = [q \in Requests |->
                   IF Deciding(q) THEN Milder(mildest[q], Now') ELSE mildest[q]]
  /\ UNCHANGED <<tableVars, requestVars, call, faults>>

\* PATCH /ops/tenant-config.
updateTenantConfig ==
  /\ tenantConfig' \in Config \ {tenantConfig}
  /\ UNCHANGED <<riskSignals, evidence, newest>>
  /\ FactsChange

\* recordReopen stores a signal; whether MEDIUM or HIGH depends on the count.
recordReopen(severity) ==
  /\ riskSignals' = [riskSignals EXCEPT ![severity] = @ + 1]
  /\ UNCHANGED <<tenantConfig, evidence, newest>>
  /\ FactsChange

\* A signal is older than the 30-day window.
SignalExpires(severity) ==
  /\ riskSignals[severity] > 0
  /\ riskSignals' = [riskSignals EXCEPT ![severity] = @ - 1]
  /\ UNCHANGED <<tenantConfig, evidence, newest>>
  /\ FactsChange

\* ingestTicketContext replaces the rows of the sources it could read; all of
\* them carry the time of the one transaction.
ingestTicketContext(S, amount, archived) ==
  /\ S # {}
  /\ evidence' = [s \in S \cup DOMAIN evidence |->
                    IF s \in S THEN Ingested(S, amount, archived)[s]
                    ELSE evidence[s]]
  /\ newest' = S
  /\ UNCHANGED <<tenantConfig, riskSignals>>
  /\ FactsChange

\* A refund event brings the Stripe row up to date.
routeStripeEvent(amount) ==
  /\ "stripe" \in DOMAIN evidence
  /\ evidence' = [evidence EXCEPT !["stripe"].amount = amount]
  /\ newest' = {"stripe"}
  /\ UNCHANGED <<tenantConfig, riskSignals>>
  /\ FactsChange

\* An order event refreshes the Shopify row; an archived order only marks it.
routeShopifyEvent(archived) ==
  /\ "shopify" \in DOMAIN evidence
  /\ IF archived
     THEN /\ evidence' = [evidence EXCEPT !["shopify"].unavailable = TRUE]
          /\ UNCHANGED newest
     ELSE /\ newest' = {"shopify"}
          /\ UNCHANGED evidence
  /\ UNCHANGED <<tenantConfig, riskSignals>>
  /\ FactsChange

\* The ticket is deleted: every row of the issue is marked.
handleTicketDeleted ==
  /\ evidence' = [s \in DOMAIN evidence |-> [evidence[s] EXCEPT !.unavailable = TRUE]]
  /\ UNCHANGED <<tenantConfig, riskSignals, newest>>
  /\ FactsChange

-----------------------------------------------------------------------------
(***************************************************************************)
(* initiateAction.                                                         *)
(***************************************************************************)
Goto(q, label) == pc' = [pc EXCEPT ![q] = label]

Answer(q, outcome, execution) ==
  /\ Goto(q, "answered")
  /\ reply' = [reply EXCEPT ![q] = [outcome |-> outcome, execution |-> execution]]
  /\ facts' = [facts EXCEPT ![q] = NoFacts]
  /\ mildest' = [mildest EXCEPT ![q] = NoFactsYet]

\* A failing statement, or a process that dies: the transaction is rolled back
\* and the caller gets a 5xx.
Fault(q) ==
  /\ faults < MaxFaults
  /\ faults' = faults + 1
  /\ Answer(q, "ERROR", {})

receive(q, k, a) ==
  /\ pc[q] = "unsent"
  /\ Goto(q, "lookup")
  /\ sent' = [sent EXCEPT ![q] = [key |-> k, ask |-> a]]
  /\ mildest' = [mildest EXCEPT ![q] = Now]
  /\ UNCHANGED <<factVars, tableVars, facts, reply, call, changes, faults>>

\* The execution a known key stands for is the answer.
replayKnownKey(q, otherwise) ==
  LET known == findExecutionByIdempotencyKey(ClientKey(sent[q].key))
  IN  \/ /\ known # {}
         /\ \E e \in known : Answer(q, "ALLOW", {e.id})
      \/ /\ known = {}
         /\ otherwise

lookup(q) ==
  /\ pc[q] = "lookup"
  /\ replayKnownKey(q, Goto(q, "config") /\ UNCHANGED <<facts, reply, mildest>>)
  /\ UNCHANGED <<factVars, tableVars, sent, call, changes, faults>>

\* One of the queries for the facts.
Read(q, label, next, field, value) ==
  /\ pc[q] = label
  /\ Goto(q, next)
  /\ facts' = [facts EXCEPT ![q] = [@ EXCEPT ![field] = value]]
  /\ UNCHANGED <<factVars, tableVars, sent, reply, call, mildest, changes, faults>>

readConfig(q) == Read(q, "config", "degraded", "config", tenantConfig)

readDegradedState(q) ==
  \E r \in LatestRows : Read(q, "degraded", "abuse", "unavailable", r.unavailable)

readAbuseSeverity(q) ==
  Read(q, "abuse", "evidence", "severity", computeAbuseSeverity)

\* Reads the evidence and evaluates the policy: a denial is answered at once.
readEvidenceAndEvaluate(q) ==
  /\ pc[q] = "evidence"
  /\ \E r \in LatestRows :
       LET f == facts[q]
           outcome == evaluate(Input(sent[q].ask, f.config, f.unavailable,
                                     f.severity, r.amount))
       IN  \/ outcome = "DENY" /\ Answer(q, "DENY", {})
           \/ /\ outcome # "DENY"
              /\ Goto(q, IF outcome = "ALLOW" THEN "create" ELSE "approve")
              /\ UNCHANGED <<facts, reply, mildest>>
  /\ UNCHANGED <<factVars, tableVars, sent, call, changes, faults>>

\* (mutant) Nothing makes keys unique.
KeyTaken_Never(k) == FALSE

\* UNIQUE (tenant_id, idempotency_key) of action_executions.
KeyTaken(k) == \E e \in executions : e.key = k

\* The direct execution, with its outbox rows, in one transaction.  The answer
\* to its COMMIT may be lost.
createActionExecution(q) ==
  LET key == ClientKey(sent[q].key)
      execution == [id |-> ByRequest(q), key |-> key, ask |-> sent[q].ask,
                    approval |-> {}]
  IN
  /\ pc[q] = "create"
  /\ \/ /\ KeyTaken(key)
        /\ Goto(q, "resolve")
        /\ UNCHANGED <<executions, facts, reply, mildest, faults>>
     \/ /\ ~KeyTaken(key) /\ ~Buildable(sent[q].ask)
        /\ Answer(q, "ERROR", {})
        /\ UNCHANGED <<executions, faults>>
     \/ /\ ~KeyTaken(key) /\ Buildable(sent[q].ask)
        /\ executions' = executions \cup {execution}
        /\ \/ Answer(q, "ALLOW", {execution.id}) /\ UNCHANGED faults
           \/ Fault(q)
  /\ UNCHANGED <<factVars, approval, expired, sent, call, changes>>

\* The loser of two concurrent submits answers with the winner's execution.
resolveUniqueViolation(q) ==
  /\ pc[q] = "resolve"
  /\ replayKnownKey(q, Answer(q, "ERROR", {}))
  /\ UNCHANGED <<factVars, tableVars, sent, call, changes, faults>>

createApprovalRequest(q) ==
  /\ pc[q] = "approve"
  /\ approval' = [approval EXCEPT ![q] = "PENDING"]
  /\ \/ Answer(q, "REQUIRES_APPROVAL", {}) /\ UNCHANGED faults
     \/ Fault(q)
  /\ UNCHANGED <<factVars, executions, expired, sent, call, changes>>

faultInHandler(q) ==
  /\ pc[q] \notin {"unsent", "answered"}
  /\ Fault(q)
  /\ UNCHANGED <<factVars, tableVars, sent, call, changes>>

-----------------------------------------------------------------------------
(***************************************************************************)
(* Approvals.  Who is a manager does not change while the system runs.     *)
(***************************************************************************)
\* Time: 24 hours after it was requested.
ApprovalExpires(a) ==
  /\ approval[a] = "PENDING" /\ a \notin expired
  /\ expired' = expired \cup {a}
  /\ UNCHANGED <<factVars, executions, approval, requestVars, call, mildest,
                 changes, faults>>

SetAnswer(d, answer) ==
  call' = [call EXCEPT ![d].pc = "answered", ![d].answer = answer]

AnswerCall(d, answer) == SetAnswer(d, answer) /\ UNCHANGED faults

LoseAnswer(d) ==
  /\ faults < MaxFaults
  /\ faults' = faults + 1
  /\ SetAnswer(d, "ERROR")

\* A grant or a denial arrives; the route asks whether approvals are enabled.
beginDecision(d, a, verb) ==
  /\ call[d].pc = "idle" /\ approval[a] # "ABSENT"
  /\ call' = [call EXCEPT ![d] =
                [approval |-> {a}, verb |-> verb,
                 pc |-> IF tenantConfig.approvalsEnabled THEN "decide" ELSE "answered",
                 answer |-> IF tenantConfig.approvalsEnabled THEN "none" ELSE "FORBIDDEN"]]
  /\ UNCHANGED <<factVars, tableVars, requestVars, mildest, changes, faults>>

\* (mutant) The row is locked without asking for status PENDING.
Grantable_AnyStatus(a) == a \notin expired

Grantable(a) == approval[a] = "PENDING" /\ a \notin expired

\* (mutant) The execution is created in a transaction of its own.
completeApprovalAndEnqueue_TwoTransactions(d, a) ==
  /\ Grantable(a)
  /\ approval' = [approval EXCEPT ![a] = "APPROVED"]
  /\ IF Buildable(sent[a].ask)
     THEN /\ executions' = executions \cup
               {[id |-> ByDecision(d), key |-> ApprovalKey(a),
                 ask |-> sent[a].ask, approval |-> {a}]}
          /\ AnswerCall(d, "APPROVED")
     ELSE AnswerCall(d, "ERROR") /\ UNCHANGED executions

\* The grant, in one transaction that holds the approval's row lock.  The
\* answer to its COMMIT may be lost.
completeApprovalAndEnqueue(d, a) ==
  /\ Grantable(a) /\ Buildable(sent[a].ask)
  /\ approval' = [approval EXCEPT ![a] = "APPROVED"]
  /\ executions' = executions \cup
       {[id |-> ByDecision(d), key |-> ApprovalKey(a), ask |-> sent[a].ask,
         approval |-> {a}]}
  /\ AnswerCall(d, "APPROVED") \/ LoseAnswer(d)

\* (mutant) The update to EXPIRED is committed.
grantFails_StoresExpired(d, a) ==
  /\ ~Grantable(a) /\ AnswerCall(d, "CONFLICT")
  /\ approval' = [approval EXCEPT ![a] = IF @ = "PENDING" THEN "EXPIRED" ELSE @]
  /\ UNCHANGED executions

\* It changes nothing when it throws: the update to EXPIRED is rolled back.
grantFails(d, a) ==
  /\ \/ ~Grantable(a) /\ AnswerCall(d, "CONFLICT")
     \/ Grantable(a) /\ ~Buildable(sent[a].ask) /\ AnswerCall(d, "ERROR")
  /\ UNCHANGED <<approval, executions>>

grant(d) ==
  /\ call[d].pc = "decide" /\ call[d].verb = "grant"
  /\ \E a \in call[d].approval : completeApprovalAndEnqueue(d, a) \/ grantFails(d, a)
  /\ UNCHANGED <<factVars, expired, requestVars, mildest, changes>>

\* The denial does not look at expires_at.
deny(d) ==
  /\ call[d].pc = "decide" /\ call[d].verb = "deny"
  /\ \E a \in call[d].approval :
       IF approval[a] = "PENDING"
       THEN /\ approval' = [approval EXCEPT ![a] = "DENIED"]
            /\ AnswerCall(d, "DENIED") \/ LoseAnswer(d)
       ELSE AnswerCall(d, "CONFLICT") /\ UNCHANGED approval
  /\ UNCHANGED <<factVars, executions, expired, requestVars, mildest, changes>>

-----------------------------------------------------------------------------
HandlerStep(q) ==
  \/ lookup(q)
  \/ readConfig(q)
  \/ readDegradedState(q)
  \/ readAbuseSeverity(q)
  \/ readEvidenceAndEvaluate(q)
  \/ createActionExecution(q)
  \/ resolveUniqueViolation(q)
  \/ createApprovalRequest(q)
  \/ faultInHandler(q)

DecisionStep(d) ==
  \/ \E a \in Requests, verb \in {"grant", "deny"} : beginDecision(d, a, verb)
  \/ grant(d)
  \/ deny(d)

Environment ==
  \/ updateTenantConfig
  \/ \E severity \in {"MEDIUM", "HIGH"} :
       recordReopen(severity) \/ SignalExpires(severity)
  \/ \E S \in SUBSET Source, amount \in Amounts, archived \in BOOLEAN :
       ingestTicketContext(S, amount, archived)
  \/ \E amount \in Amounts : routeStripeEvent(amount)
  \/ \E archived \in BOOLEAN : routeShopifyEvent(archived)
  \/ handleTicketDeleted
  \/ \E a \in Requests : ApprovalExpires(a)

ServerStep ==
  \/ \E q \in Requests : HandlerStep(q)
  \/ \E d \in Decisions : DecisionStep(d)
  \/ Environment

Next ==
  \/ \E q \in Requests, k \in Keys, a \in Asks : receive(q, k, a)
  \/ ServerStep

Spec == Init /\ [][Next]_actionVars

-----------------------------------------------------------------------------
(***************************************************************************)
(* Properties.                                                             *)
(***************************************************************************)
\* A key stands for one action: whatever the interleaving of retries, every
\* request answered ALLOW for it names the same execution, which exists and
\* carries that key (replay lookup and unique violation of initiateAction).
OneExecutionPerKey ==
  \A q \in Requests : reply[q].outcome = "ALLOW" =>
    /\ \E e \in executions :
         reply[q].execution = {e.id} /\ e.key = ClientKey(sent[q].key)
    /\ \A p \in Requests :
         reply[p].outcome = "ALLOW" /\ sent[p].key = sent[q].key
           => reply[p].execution = reply[q].execution

\* An approval is APPROVED exactly when one execution, and only one, came out
\* of it, and managers are told what happened to it: of two that decide at
\* once one is told CONFLICT (grant and deny of routes/approvals.ts).
DecisionsAgree ==
  /\ \A a \in Requests :
       LET produced == {e \in executions : e.approval = {a}}
       IN  IF approval[a] = "APPROVED" THEN Cardinality(produced) = 1
           ELSE produced = {}
  /\ \A d \in Decisions : call[d].answer \in {"APPROVED", "DENIED"} =>
       /\ \A a \in call[d].approval : approval[a] = call[d].answer
       /\ \A c \in Decisions \ {d} :
            call[c].approval = call[d].approval
              => call[c].answer \notin {"APPROVED", "DENIED"}

\* Nothing is executed on an approval that was denied or has expired before
\* the step, and no decision is taken back.
DecisionsAreFinal ==
  [][\A a \in Requests :
       /\ approval[a] \in {"APPROVED", "DENIED"} => approval'[a] = approval[a]
       /\ approval[a] = "DENIED" \/ a \in expired =>
            \A e \in executions' \ executions : e.approval # {a}]_actionVars

\* The policy's outcome for the mildest facts since the request arrived.
MildestOutcome(q) ==
  LET m == mildest[q]
      Outcome(enabled) ==
        evaluate(Input(sent[q].ask,
                       [approvalsEnabled |-> enabled, threshold |-> m.threshold],
                       m.unavailable, m.severity, m.amount))
  IN  SetMin({Strictness[Outcome(enabled)] : enabled \in m.approvals})

\* Although the facts are read one by one while they change, no decision is
\* milder than the policy would take on the mildest value each of them had
\* since the request arrived: no torn or stale read lets an action through
\* that no combination of those values allows.
NotMilderThanFacts ==
  [][\A q \in Requests : pc[q] = "evidence" =>
       /\ pc'[q] = "create" => MildestOutcome(q) = 0
       /\ pc'[q] = "approve" => MildestOutcome(q) <= 1]_actionVars

\* (violated) "Manager approval is required for refunds above the configured
\* threshold" (engine.ts:167).  initiateAction compares the threshold with the
\* refund already in the evidence, and with 0 when it has none, never with the
\* refund that is asked for.
LargeRefundsAreApproved ==
  [][\A q \in Requests :
       /\ pc[q] = "create" /\ facts[q].config.approvalsEnabled
       /\ sent[q].ask.actionType = "issue_refund"
       /\ \E e \in executions' \ executions : e.id = ByRequest(q)
       => sent[q].ask.amount <= facts[q].config.threshold]_actionVars
=============================================================================
