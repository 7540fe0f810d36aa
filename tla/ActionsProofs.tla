--------------------------- MODULE ActionsProofs ---------------------------
(***************************************************************************)
(* The invariants of Actions, proved for any requests, keys, managers and  *)
(* bounds, under ActionsAssumption.                                        *)
(***************************************************************************)
EXTENDS ActionsContract, FiniteSetTheorems, TLAPS

-----------------------------------------------------------------------------
(***************************************************************************)
(* What the rule table decides, for every input: every action type, every  *)
(* amount and every threshold.                                             *)
(***************************************************************************)
Tier(in) == ACTION_RISK_TIERS[in.actionType]

\* Rule k of the table matches an input.
Matches(k, in) == matchesRule(POLICY_RULES[k], in)

(***************************************************************************)
(* Some rule matches, since the last matches everything, and the rule that *)
(* decides is the first of them.                                           *)
(***************************************************************************)
LEMMA TierType ==
  ASSUME NEW in \in PolicyInput
  PROVE  Tier(in) \in ActionRiskTier
BY DEF PolicyInput, Tier, ACTION_RISK_TIERS, ActionType, ActionRiskTier

LEMMA CatchAllMatches ==
  ASSUME NEW in \in PolicyInput
  PROVE  Matches(9, in)
BY TierType DEF PolicyInput, Matches, matchesRule, POLICY_RULES, Rule, when, Tier

LEMMA FirstRuleDecides ==
  ASSUME NEW in \in PolicyInput
  PROVE  /\ Decides(in) \in 1..9
         /\ Matches(Decides(in), in)
         /\ \A j \in 1..9 : j < Decides(in) => ~Matches(j, in)
<1> DEFINE First(k) == Matches(k, in) /\ \A j \in 1..9 : j < k => ~Matches(j, in)
<1>1. Matches(9, in)
  BY CatchAllMatches
<1>2. \E k \in 1..9 : First(k)
  <2> HIDE DEF Matches
  <2> QED BY <1>1
<1>3. Decides(in) = CHOOSE k \in 1..9 : First(k)
  BY DEF Decides, Matches
<1> QED BY <1>2, <1>3

(***************************************************************************)
(* The same decision without the table: what each rule asks once those     *)
(* before it have not matched.                                             *)
(***************************************************************************)
LEMMA RuleOutcomes ==
  /\ POLICY_RULES[1].outcome = "DENY"
  /\ POLICY_RULES[2].outcome = "DENY"
  /\ POLICY_RULES[3].outcome = "REQUIRES_APPROVAL"
  /\ POLICY_RULES[4].outcome = "REQUIRES_APPROVAL"
  /\ POLICY_RULES[5].outcome = "ALLOW"
  /\ POLICY_RULES[6].outcome = "REQUIRES_APPROVAL"
  /\ POLICY_RULES[7].outcome = "ALLOW"
  /\ POLICY_RULES[8].outcome = "ALLOW"
  /\ POLICY_RULES[9].outcome = "REQUIRES_APPROVAL"
BY DEF POLICY_RULES, Rule

LEMMA RuleConditions ==
  ASSUME NEW in \in PolicyInput
  PROVE  /\ Matches(1, in) <=> Tier(in) = "HIGH" /\ in.abuseSeverity = "HIGH"
         /\ Matches(2, in) <=> /\ Tier(in) = "HIGH"
                               /\ in.degradedState = "SOURCE_TOMBSTONED"
                               /\ in.isSourceUnavailable
         /\ Matches(3, in) <=> /\ Tier(in) = "HIGH"
                               /\ in.degradedState = "DEGRADED_UNAVAILABLE"
         /\ Matches(4, in) <=> /\ Tier(in) = "HIGH"
                               /\ in.abuseSeverity # "HIGH"
                               /\ in.refundAmountCents > in.threshold
         /\ Matches(5, in) <=> /\ Tier(in) = "HIGH"
                               /\ in.degradedState = "DEGRADED_STALE"
                               /\ in.abuseSeverity = "NONE"
                               /\ ~in.isSourceUnavailable
         /\ Matches(6, in) <=> Tier(in) = "MEDIUM" /\ in.abuseSeverity = "HIGH"
         /\ Matches(7, in) <=> Tier(in) = "LOW"
         /\ Matches(8, in) <=> /\ Tier(in) \in {"MEDIUM", "HIGH"}
                               /\ in.degradedState \in {"NOMINAL", "DEGRADED_STALE"}
                               /\ in.abuseSeverity # "HIGH"
<1> USE TierType DEF PolicyInput, Matches, matchesRule, POLICY_RULES, Rule, when,
                     Tier, AbuseSeverity, DegradedState
<1>1. Matches(1, in) <=> Tier(in) = "HIGH" /\ in.abuseSeverity = "HIGH"
  OBVIOUS
<1>2. Matches(2, in) <=> /\ Tier(in) = "HIGH"
                         /\ in.degradedState = "SOURCE_TOMBSTONED"
                         /\ in.isSourceUnavailable
  OBVIOUS
<1>3. Matches(3, in) <=> /\ Tier(in) = "HIGH"
                         /\ in.degradedState = "DEGRADED_UNAVAILABLE"
  OBVIOUS
<1>4. Matches(4, in) <=> /\ Tier(in) = "HIGH"
                         /\ in.abuseSeverity # "HIGH"
                         /\ in.refundAmountCents > in.threshold
  OBVIOUS
<1>5. Matches(5, in) <=> /\ Tier(in) = "HIGH"
                         /\ in.degradedState = "DEGRADED_STALE"
                         /\ in.abuseSeverity = "NONE"
                         /\ ~in.isSourceUnavailable
  OBVIOUS
<1>6. Matches(6, in) <=> Tier(in) = "MEDIUM" /\ in.abuseSeverity = "HIGH"
  OBVIOUS
<1>7. Matches(7, in) <=> Tier(in) = "LOW"
  OBVIOUS
<1>8. Matches(8, in) <=> /\ Tier(in) \in {"MEDIUM", "HIGH"}
                         /\ in.degradedState \in {"NOMINAL", "DEGRADED_STALE"}
                         /\ in.abuseSeverity # "HIGH"
  OBVIOUS
<1> QED BY <1>1, <1>2, <1>3, <1>4, <1>5, <1>6, <1>7, <1>8

(***************************************************************************)
(* A definition of the policy by risk tier, without rules or their order.  *)
(***************************************************************************)
NeedsApproval(in) ==
  IF in.approvalsEnabled THEN "REQUIRES_APPROVAL"
  ELSE IF Tier(in) = "HIGH" THEN "DENY" ELSE "ALLOW"

Degraded(in) == in.degradedState \in {"DEGRADED_UNAVAILABLE", "SOURCE_TOMBSTONED"}

Forbidden(in) ==
  \/ in.abuseSeverity = "HIGH"
  \/ in.degradedState = "SOURCE_TOMBSTONED" /\ in.isSourceUnavailable

Ruling(in) ==
  IF Tier(in) = "LOW" THEN "ALLOW"
  ELSE IF Tier(in) = "HIGH" /\ Forbidden(in) THEN "DENY"
  ELSE IF \/ Degraded(in)
          \/ Tier(in) = "HIGH" /\ in.refundAmountCents > in.threshold
          \/ Tier(in) = "MEDIUM" /\ in.abuseSeverity = "HIGH"
       THEN NeedsApproval(in)
  ELSE "ALLOW"

(***************************************************************************)
(* The table decides what the definition by tier says (POLICY_RULES and    *)
(* evaluate of engine.ts): no rule shadows another by its place.           *)
(***************************************************************************)
THEOREM EvaluateIsRuling ==
  ASSUME NEW in \in PolicyInput
  PROVE  evaluate(in) = Ruling(in)
<1> DEFINE k == Decides(in)
           outcome == POLICY_RULES[k].outcome
<1>0. /\ in.abuseSeverity \in {"HIGH", "MEDIUM", "NONE"}
      /\ in.degradedState \in {"NOMINAL", "DEGRADED_STALE",
                               "DEGRADED_UNAVAILABLE", "SOURCE_TOMBSTONED"}
      /\ Tier(in) \in {"HIGH", "MEDIUM", "LOW"}
      /\ in.isSourceUnavailable \in BOOLEAN
      /\ in.approvalsEnabled \in BOOLEAN
  BY TierType DEF PolicyInput, AbuseSeverity, DegradedState, ActionRiskTier
<1>1. /\ k \in 1..9
      /\ Matches(k, in)
      /\ \A j \in 1..9 : j < k => ~Matches(j, in)
  BY FirstRuleDecides
<1>2. evaluate(in) = IF outcome = "REQUIRES_APPROVAL" /\ ~in.approvalsEnabled
                     THEN IF Tier(in) = "HIGH" THEN "DENY" ELSE "ALLOW"
                     ELSE outcome
  BY DEF evaluate, remapRequiresApprovalWithoutToggle, Tier
<1> HIDE DEF k
<1>3. CASE k = 1
  BY <1>0, <1>1, <1>2, <1>3, RuleConditions, RuleOutcomes DEF Ruling, Forbidden
<1>4. CASE k = 2
  BY <1>0, <1>1, <1>2, <1>4, RuleConditions, RuleOutcomes DEF Ruling, Forbidden
<1>5. CASE k = 3
  <2>1. ~Matches(1, in)
    BY <1>1, <1>5
  <2> QED BY <2>1, <1>0, <1>1, <1>2, <1>5, RuleConditions, RuleOutcomes
             DEF Ruling, Forbidden, Degraded, NeedsApproval
<1>6. CASE k = 4
  <2>1. ~Matches(1, in) /\ ~Matches(2, in)
    BY <1>1, <1>6
  <2> QED BY <2>1, <1>0, <1>1, <1>2, <1>6, RuleConditions, RuleOutcomes
             DEF Ruling, Forbidden, Degraded, NeedsApproval
<1>7. CASE k = 5
  <2>1. ~Matches(1, in) /\ ~Matches(2, in) /\ ~Matches(3, in) /\ ~Matches(4, in)
    BY <1>1, <1>7
  <2> QED BY <2>1, <1>0, <1>1, <1>2, <1>7, RuleConditions, RuleOutcomes
             DEF Ruling, Forbidden, Degraded
<1>8. CASE k = 6
  BY <1>0, <1>1, <1>2, <1>8, RuleConditions, RuleOutcomes
     DEF Ruling, NeedsApproval
<1>9. CASE k = 7
  BY <1>0, <1>1, <1>2, <1>9, RuleConditions, RuleOutcomes DEF Ruling
<1>10. CASE k = 8
  <2>1. ~Matches(1, in) /\ ~Matches(2, in) /\ ~Matches(4, in) /\ ~Matches(6, in)
    BY <1>1, <1>10
  <2> QED BY <2>1, <1>0, <1>1, <1>2, <1>10, RuleConditions, RuleOutcomes
             DEF Ruling, Forbidden, Degraded
<1>11. CASE k = 9
  <2>1. /\ ~Matches(1, in) /\ ~Matches(2, in) /\ ~Matches(3, in) /\ ~Matches(4, in)
        /\ ~Matches(5, in) /\ ~Matches(6, in) /\ ~Matches(7, in) /\ ~Matches(8, in)
    BY <1>1, <1>11
  <2> QED BY <2>1, <1>0, <1>1, <1>2, <1>11, RuleConditions, RuleOutcomes
             DEF Ruling, Forbidden, Degraded, NeedsApproval
<1> QED BY <1>1, <1>3, <1>4, <1>5, <1>6, <1>7, <1>8, <1>9, <1>10, <1>11

(***************************************************************************)
(* With approvals disabled evaluate never asks for one (the toggle of      *)
(* engine.ts, documented as "MUST NOT return REQUIRES_APPROVAL").          *)
(***************************************************************************)
THEOREM NoApprovalWhenDisabled ==
  ASSUME NEW in \in PolicyInput, ~in.approvalsEnabled
  PROVE  evaluate(in) \in {"ALLOW", "DENY"}
BY EvaluateIsRuling DEF Ruling, NeedsApproval

(***************************************************************************)
(* Worse facts are never judged more leniently: more abuse, a larger       *)
(* amount, a lower threshold or a less available source make evaluate at   *)
(* least as strict.                                                        *)
(***************************************************************************)
THEOREM WorseIsNeverLaxer ==
  ASSUME NEW in \in PolicyInput, NEW worse \in PolicyInput,
         AtLeastAsBad(worse, in)
  PROVE  Strictness[evaluate(worse)] >= Strictness[evaluate(in)]
<1>0. \A x \in PolicyInput :
        /\ x.abuseSeverity \in {"HIGH", "MEDIUM", "NONE"}
        /\ x.degradedState \in {"NOMINAL", "DEGRADED_STALE",
                                "DEGRADED_UNAVAILABLE", "SOURCE_TOMBSTONED"}
        /\ x.isSourceUnavailable \in BOOLEAN
        /\ x.refundAmountCents \in Nat
        /\ x.threshold \in Nat
  BY DEF PolicyInput, AbuseSeverity, DegradedState
<1>1. Tier(worse) = Tier(in) /\ worse.approvalsEnabled = in.approvalsEnabled
  BY DEF AtLeastAsBad, Tier
<1>2. in.abuseSeverity = "HIGH" => worse.abuseSeverity = "HIGH"
  BY <1>0 DEF AtLeastAsBad, Severity
<1>3. Degraded(in) => Degraded(worse)
  BY <1>0 DEF AtLeastAsBad, Degradation, Degraded
<1>4. in.degradedState = "SOURCE_TOMBSTONED"
        => worse.degradedState = "SOURCE_TOMBSTONED"
  BY <1>0 DEF AtLeastAsBad, Degradation
<1>5. Forbidden(in) => Forbidden(worse)
  BY <1>2, <1>4 DEF AtLeastAsBad, Forbidden
<1>6. in.refundAmountCents > in.threshold => worse.refundAmountCents > worse.threshold
  BY <1>0 DEF AtLeastAsBad
<1>7. NeedsApproval(worse) = NeedsApproval(in)
  BY <1>1 DEF NeedsApproval
<1>8. evaluate(in) = Ruling(in) /\ evaluate(worse) = Ruling(worse)
  BY EvaluateIsRuling
<1>9. Ruling(in) = Ruling(worse) \/ Ruling(in) = "ALLOW" \/ Ruling(worse) = "DENY"
  BY <1>1, <1>2, <1>3, <1>5, <1>6, <1>7 DEF Ruling
<1>10. Ruling(in) \in PolicyOutcome /\ Ruling(worse) \in PolicyOutcome
  BY DEF Ruling, NeedsApproval, PolicyOutcome
<1> QED BY <1>8, <1>9, <1>10 DEF Strictness, PolicyOutcome

-----------------------------------------------------------------------------

(***************************************************************************)
(* The inductive invariant.                                                *)
(***************************************************************************)
\* UNIQUE (tenant_id, idempotency_key).
KeysUnique == \A e, f \in executions : e.key = f.key => e = f

\* What an answer says is so, and stays so.
AnswersHold ==
  \A q \in Requests : reply[q].outcome = "ALLOW" =>
    \E e \in executions :
      reply[q].execution = {e.id} /\ e.key = ClientKey(sent[q].key)

\* A handler that has not answered has answered nothing and asked for nothing.
HandlersOK ==
  \A q \in Requests :
    /\ pc[q] # "answered" => reply[q].outcome = "none" /\ approval[q] = "ABSENT"
    /\ pc[q] # "unsent" => sent[q] # NoRequest

\* Approvals and executions: approved is to have an execution under the key
\* derived from the approval.
ApprovalsOK ==
  \A a \in Requests :
    /\ approval[a] = "APPROVED" => \E e \in executions : e.approval = {a}
    /\ \A e \in executions :
         /\ e.approval = {a} => e.key = ApprovalKey(a)
         /\ e.key = ApprovalKey(a) => approval[a] = "APPROVED"

Decided(d) == call[d].answer \in {"APPROVED", "DENIED"}

\* Managers: an answered decision is the one stored, and nobody else's.
CallsOK ==
  \A d \in Decisions :
    /\ call[d].pc # "idle" =>
         \E a \in Requests : call[d].approval = {a} /\ approval[a] # "ABSENT"
    /\ call[d].pc # "answered" => call[d].answer = "none"
    /\ Decided(d) =>
         /\ \A a \in call[d].approval : approval[a] = call[d].answer
         /\ \A c \in Decisions \ {d} :
              call[c].approval = call[d].approval => ~Decided(c)

AInv ==
  TypeOK /\ KeysUnique /\ AnswersHold /\ HandlersOK /\ ApprovalsOK /\ CallsOK

-----------------------------------------------------------------------------
(***************************************************************************)
(* Facts about the data.                                                   *)
(***************************************************************************)
LEMMA KeysDiffer ==
  ASSUME NEW k, NEW a
  PROVE  ClientKey(k) # ApprovalKey(a)
BY DEF ClientKey, ApprovalKey

LEMMA ApprovalKeysDiffer ==
  ASSUME NEW a, NEW b, ApprovalKey(a) = ApprovalKey(b)
  PROVE  a = b
BY DEF ApprovalKey

\* A request that has been sent carries a key and an ask.
LEMMA SentType ==
  ASSUME TypeOK, NEW q \in Requests, sent[q] # NoRequest
  PROVE  sent[q].key \in Keys /\ sent[q].ask \in Asks
BY DEF TypeOK

\* What stores an answer types it.
LEMMA AnswerTypes ==
  ASSUME TypeOK, NEW q \in Requests,
         NEW outcome \in PolicyOutcome \cup {"ERROR", "none"},
         NEW execution \in SUBSET ExecutionId,
         Answer(q, outcome, execution)
  PROVE  /\ pc' \in [Requests -> PCs]
         /\ reply' \in [Requests -> ReplyType]
         /\ pc' = [pc EXCEPT ![q] = "answered"]
         /\ reply'[q].outcome = outcome /\ reply'[q].execution = execution
         /\ \A p \in Requests \ {q} : reply'[p] = reply[p]
BY DEF Answer, Goto, TypeOK, PCs, ReplyType

-----------------------------------------------------------------------------
LEMMA InitInv == Init => AInv
<1> SUFFICES ASSUME Init PROVE AInv
  OBVIOUS
<1>1. TypeOK
  <2>1. evidence \in UNION {[S -> EvidenceRow] : S \in SUBSET Source}
        /\ newest \in SUBSET DOMAIN evidence
    <3>1. PICK S \in SUBSET Source, amount \in Amounts, archived \in BOOLEAN :
             evidence = Ingested(S, amount, archived) /\ newest = S
      BY DEF Init
    <3>2. Ingested(S, amount, archived) \in [S -> EvidenceRow]
      BY ActionsAssumption DEF Ingested, EvidenceRow
    <3> QED BY <3>1, <3>2
  <2>2. riskSignals \in [{"MEDIUM", "HIGH"} -> Nat]
    BY DEF Init
  <2>3. reply \in [Requests -> ReplyType] /\ call \in [Decisions -> CallType]
    BY DEF Init, NoReply, NoCall, ReplyType, CallType
  <2> QED BY <2>1, <2>2, <2>3 DEF TypeOK, Init, PCs, ApprovalStatus
<1>2. KeysUnique /\ AnswersHold /\ HandlersOK /\ ApprovalsOK /\ CallsOK
  BY DEF Init, KeysUnique, AnswersHold, HandlersOK, ApprovalsOK, CallsOK,
         Decided, NoReply, NoCall
<1> QED BY <1>1, <1>2 DEF AInv

-----------------------------------------------------------------------------
(***************************************************************************)
(* What changes the facts, or the handlers' reading of them, leaves the    *)
(* rest alone.                                                             *)
(***************************************************************************)
EvidenceTable == UNION {[S -> EvidenceRow] : S \in SUBSET Source}

LEMMA EvidenceTableIs ==
  ASSUME NEW f, NEW S \in SUBSET Source, f \in [S -> EvidenceRow]
  PROVE  f \in EvidenceTable /\ DOMAIN f = S
BY DEF EvidenceTable

LEMMA EvidenceTableHas ==
  ASSUME NEW f \in EvidenceTable
  PROVE  /\ DOMAIN f \in SUBSET Source
         /\ f = [s \in DOMAIN f |-> f[s]]
         /\ \A s \in DOMAIN f : f[s] \in EvidenceRow
BY DEF EvidenceTable

\* Who reads and writes no table but those of the facts.
LEMMA Frame ==
  ASSUME AInv, TypeOK', UNCHANGED <<tableVars, requestVars, call>>
  PROVE  AInv'
BY DEF AInv, KeysUnique, AnswersHold, HandlersOK, ApprovalsOK, CallsOK, Decided,
       tableVars, requestVars

LEMMA IngestedType ==
  ASSUME NEW S \in SUBSET Source, NEW amount \in Amounts, NEW archived \in BOOLEAN
  PROVE  Ingested(S, amount, archived) \in [S -> EvidenceRow]
BY ActionsAssumption DEF Ingested, EvidenceRow

FactsTyped ==
  /\ tenantConfig \in Config
  /\ riskSignals \in [{"MEDIUM", "HIGH"} -> Nat]
  /\ evidence \in EvidenceTable
  /\ newest \in SUBSET DOMAIN evidence

LEMMA FactsStep == ASSUME AInv, FactsTyped', FactsChange PROVE AInv'
<1>1. UNCHANGED <<tableVars, requestVars, call>>
  BY DEF FactsChange
<1>2. TypeOK'
  BY <1>1 DEF AInv, TypeOK, FactsTyped, EvidenceTable, tableVars, requestVars
<1> QED BY <1>1, <1>2, Frame

LEMMA EnvironmentStep == ASSUME AInv, Environment PROVE AInv'
<1>0. FactsTyped
  BY DEF AInv, TypeOK, FactsTyped, EvidenceTable
<1>1. CASE updateTenantConfig
  BY <1>0, <1>1, FactsStep DEF updateTenantConfig, FactsTyped
<1>2. ASSUME NEW severity \in {"MEDIUM", "HIGH"}, recordReopen(severity)
      PROVE  AInv'
  BY <1>0, <1>2, FactsStep DEF recordReopen, FactsTyped
<1>3. ASSUME NEW severity \in {"MEDIUM", "HIGH"}, SignalExpires(severity)
      PROVE  AInv'
  BY <1>0, <1>3, FactsStep DEF SignalExpires, FactsTyped
<1>4. ASSUME NEW S \in SUBSET Source, NEW amount \in Amounts,
             NEW archived \in BOOLEAN, ingestTicketContext(S, amount, archived)
      PROVE  AInv'
  <2> DEFINE D == S \cup DOMAIN evidence
  <2>1. \A s \in DOMAIN evidence : evidence[s] \in EvidenceRow
    BY <1>0, EvidenceTableHas DEF FactsTyped
  <2>2. D \in SUBSET Source
    BY <1>0, EvidenceTableHas DEF FactsTyped
  <2>3. evidence' \in [D -> EvidenceRow]
    BY <1>4, <2>1, IngestedType DEF ingestTicketContext
  <2>4. evidence' \in EvidenceTable /\ DOMAIN evidence' = D
    BY <2>2, <2>3, EvidenceTableIs
  <2> QED BY <1>0, <1>4, <2>4, FactsStep DEF ingestTicketContext, FactsTyped
<1>5. ASSUME NEW amount \in Amounts, routeStripeEvent(amount) PROVE AInv'
  <2> DEFINE D == DOMAIN evidence
  <2>1. D \in SUBSET Source /\ evidence \in [D -> EvidenceRow]
    BY <1>0, EvidenceTableHas DEF FactsTyped
  <2>2. evidence' \in [D -> EvidenceRow]
    BY <1>5, <2>1 DEF routeStripeEvent, EvidenceRow
  <2>3. evidence' \in EvidenceTable /\ DOMAIN evidence' = D
    BY <2>1, <2>2, EvidenceTableIs
  <2> QED BY <1>0, <1>5, <2>3, FactsStep DEF routeStripeEvent, FactsTyped
<1>6. ASSUME NEW archived \in BOOLEAN, routeShopifyEvent(archived) PROVE AInv'
  <2> DEFINE D == DOMAIN evidence
  <2>1. D \in SUBSET Source /\ evidence \in [D -> EvidenceRow]
    BY <1>0, EvidenceTableHas DEF FactsTyped
  <2>2. evidence' \in [D -> EvidenceRow]
    BY <1>6, <2>1 DEF routeShopifyEvent, EvidenceRow
  <2>3. evidence' \in EvidenceTable /\ DOMAIN evidence' = D
    BY <2>1, <2>2, EvidenceTableIs
  <2> QED BY <1>0, <1>6, <2>3, FactsStep DEF routeShopifyEvent, FactsTyped
<1>7. CASE handleTicketDeleted
  <2> DEFINE D == DOMAIN evidence
  <2>1. D \in SUBSET Source /\ evidence \in [D -> EvidenceRow]
    BY <1>0, EvidenceTableHas DEF FactsTyped
  <2>2. evidence' \in [D -> EvidenceRow]
    BY <1>7, <2>1 DEF handleTicketDeleted, EvidenceRow
  <2>3. evidence' \in EvidenceTable /\ DOMAIN evidence' = D
    BY <2>1, <2>2, EvidenceTableIs
  <2> QED BY <1>0, <1>7, <2>3, FactsStep DEF handleTicketDeleted, FactsTyped
<1>8. ASSUME NEW a \in Requests, ApprovalExpires(a) PROVE AInv'
  <2>1. TypeOK'
    BY <1>8 DEF AInv, TypeOK, ApprovalExpires, factVars, requestVars
  <2> QED BY <1>8, <2>1 DEF AInv, KeysUnique, AnswersHold, HandlersOK, ApprovalsOK,
             CallsOK, Decided, ApprovalExpires, requestVars
<1> QED BY <1>1, <1>2, <1>3, <1>4, <1>5, <1>6, <1>7, <1>8 DEF Environment

-----------------------------------------------------------------------------
(***************************************************************************)
(* The handlers of requests.                                               *)
(***************************************************************************)
LEMMA ReceiveStep ==
  ASSUME AInv, NEW q \in Requests, NEW k \in Keys, NEW a \in Asks, receive(q, k, a)
  PROVE  AInv'
<1> USE DEF AInv
<1>1. TypeOK'
  BY DEF receive, Goto, TypeOK, PCs, factVars, tableVars
<1>2. AnswersHold'
  BY DEF receive, Goto, TypeOK, AnswersHold, HandlersOK, tableVars
<1>3. HandlersOK'
  BY ActionsAssumption DEF receive, Goto, TypeOK, HandlersOK, tableVars
<1> QED BY <1>1, <1>2, <1>3
        DEF receive, KeysUnique, ApprovalsOK, CallsOK, Decided, tableVars

\* A handler goes on to a statement that is neither its first nor its last.
LEMMA GotoStep ==
  ASSUME AInv, NEW q \in Requests, NEW label \in PCs \ {"unsent", "answered"},
         pc[q] \notin {"unsent", "answered"}, Goto(q, label),
         UNCHANGED <<factVars, tableVars, sent, reply, call>>
  PROVE  AInv'
<1> USE DEF AInv
<1>1. TypeOK'
  BY DEF Goto, TypeOK, factVars, tableVars
<1>2. HandlersOK'
  BY DEF Goto, TypeOK, HandlersOK, tableVars
<1> QED BY <1>1, <1>2
        DEF KeysUnique, AnswersHold, ApprovalsOK, CallsOK, Decided, tableVars

\* A handler answers with what is so, without writing a table.
LEMMA AnswerStep ==
  ASSUME AInv, NEW q \in Requests, pc[q] # "unsent",
         NEW outcome \in PolicyOutcome \cup {"ERROR"},
         NEW execution \in SUBSET ExecutionId, Answer(q, outcome, execution),
         outcome = "ALLOW" =>
           \E e \in executions :
             execution = {e.id} /\ e.key = ClientKey(sent[q].key),
         UNCHANGED <<factVars, tableVars, sent, call>>
  PROVE  AInv'
<1> USE DEF AInv
<1>1. TypeOK'
  BY AnswerTypes DEF TypeOK, factVars, tableVars
<1>2. AnswersHold'
  BY AnswerTypes DEF AnswersHold, tableVars
<1>3. HandlersOK'
  <2>1. pc' = [pc EXCEPT ![q] = "answered"]
    BY AnswerTypes
  <2>2. \A p \in Requests \ {q} : reply'[p] = reply[p]
    BY AnswerTypes
  <2> QED BY <2>1, <2>2 DEF TypeOK, HandlersOK, tableVars
<1> QED BY <1>1, <1>2, <1>3
        DEF KeysUnique, ApprovalsOK, CallsOK, Decided, tableVars

LEMMA FaultStep ==
  ASSUME AInv, NEW q \in Requests, pc[q] # "unsent", Fault(q),
         UNCHANGED <<factVars, tableVars, sent, call>>
  PROVE  AInv'
BY AnswerStep DEF Fault

\* The known execution of replayKnownKey is one of the table.
LEMMA ReplayStep ==
  ASSUME AInv, NEW q \in Requests, pc[q] # "unsent",
         NEW e \in findExecutionByIdempotencyKey(ClientKey(sent[q].key)),
         Answer(q, "ALLOW", {e.id}),
         UNCHANGED <<factVars, tableVars, sent, call>>
  PROVE  AInv'
<1>1. e \in executions /\ e.key = ClientKey(sent[q].key)
  BY DEF findExecutionByIdempotencyKey
<1>2. {e.id} \in SUBSET ExecutionId
  BY <1>1 DEF AInv, TypeOK, ActionExecution
<1> QED BY <1>1, <1>2, AnswerStep DEF PolicyOutcome

LEMMA LookupStep ==
  ASSUME AInv, NEW q \in Requests, lookup(q) \/ resolveUniqueViolation(q)
  PROVE  AInv'
<1>1. CASE lookup(q)
  <2>1. CASE findExecutionByIdempotencyKey(ClientKey(sent[q].key)) # {}
    BY <1>1, <2>1, ReplayStep DEF lookup, replayKnownKey
  <2>2. CASE findExecutionByIdempotencyKey(ClientKey(sent[q].key)) = {}
    BY <1>1, <2>2, GotoStep DEF lookup, replayKnownKey, PCs
  <2> QED BY <2>1, <2>2
<1>2. CASE resolveUniqueViolation(q)
  <2>1. CASE findExecutionByIdempotencyKey(ClientKey(sent[q].key)) # {}
    BY <1>2, <2>1, ReplayStep DEF resolveUniqueViolation, replayKnownKey
  <2>2. CASE findExecutionByIdempotencyKey(ClientKey(sent[q].key)) = {}
    BY <1>2, <2>2, AnswerStep DEF resolveUniqueViolation, replayKnownKey
  <2> QED BY <2>1, <2>2
<1> QED BY <1>1, <1>2

LEMMA ReadStep ==
  ASSUME AInv, NEW q \in Requests,
         readConfig(q) \/ readDegradedState(q) \/ readAbuseSeverity(q)
  PROVE  AInv'
BY GotoStep DEF readConfig, readDegradedState, readAbuseSeverity, Read, PCs

LEMMA EvaluateStep ==
  ASSUME AInv, NEW q \in Requests, readEvidenceAndEvaluate(q)
  PROVE  AInv'
<1>1. CASE Answer(q, "DENY", {})
  BY <1>1, AnswerStep DEF readEvidenceAndEvaluate, PolicyOutcome
<1>2. ASSUME NEW label \in {"create", "approve"}, Goto(q, label), UNCHANGED reply
      PROVE  AInv'
  BY <1>2, GotoStep DEF readEvidenceAndEvaluate, PCs
<1> QED BY <1>1, <1>2 DEF readEvidenceAndEvaluate

\* The inserted execution keeps keys unique, and is none of an approval.
LEMMA CreateStep ==
  ASSUME AInv, NEW q \in Requests, createActionExecution(q)
  PROVE  AInv'
<1> DEFINE key == ClientKey(sent[q].key)
           execution == [id |-> ByRequest(q), key |-> key, ask |-> sent[q].ask,
                         approval |-> {}]
<1>0. pc[q] = "create" /\ UNCHANGED <<factVars, approval, expired, sent, call>>
  BY DEF createActionExecution
<1>1. CASE UNCHANGED executions
  <2>1. CASE Goto(q, "resolve") /\ UNCHANGED reply
    BY <1>0, <1>1, <2>1, GotoStep DEF PCs, tableVars
  <2>2. CASE Answer(q, "ERROR", {})
    BY <1>0, <1>1, <2>2, AnswerStep DEF tableVars
  <2>3. CASE execution \in executions /\ Answer(q, "ALLOW", {execution.id})
    <3>1. {execution.id} \in SUBSET ExecutionId
      BY DEF ExecutionId
    <3>2. execution.key = ClientKey(sent[q].key)
      OBVIOUS
    <3> HIDE DEF execution
    <3> QED BY <1>0, <1>1, <2>3, <3>1, <3>2, AnswerStep DEF tableVars, PolicyOutcome
  <2> QED BY <1>1, <2>1, <2>2, <2>3 DEF createActionExecution, Fault
<1>2. CASE ~KeyTaken(key) /\ executions' = executions \cup {execution}
           /\ (Answer(q, "ALLOW", {execution.id}) \/ Answer(q, "ERROR", {}))
  <2> USE DEF AInv
  <2>1. sent[q].key \in Keys /\ sent[q].ask \in Asks
    BY <1>0, SentType DEF HandlersOK
  <2>2. execution \in ActionExecution
    BY <2>1 DEF ActionExecution, ExecutionId, ExecutionKey
  <2>3. PICK outcome \in {"ALLOW", "ERROR"}, ids \in {{execution.id}, {}} :
          /\ Answer(q, outcome, ids)
          /\ outcome = "ALLOW" => ids = {execution.id}
    BY <1>2
  <2>4. ids \in SUBSET ExecutionId
    BY <2>2, <2>3 DEF ActionExecution
  <2>5. execution.key = key /\ execution.approval = {}
    OBVIOUS
  <2> HIDE DEF execution
  <2>6. TypeOK'
    BY <1>0, <1>2, <2>2, <2>3, <2>4, AnswerTypes
    DEF TypeOK, factVars, PolicyOutcome
  <2>7. KeysUnique'
    BY <1>2, <2>5 DEF KeysUnique, KeyTaken
  <2>8. AnswersHold'
    BY <1>0, <1>2, <2>3, <2>4, <2>5, AnswerTypes DEF AnswersHold, PolicyOutcome
  <2>9. HandlersOK'
    BY <1>0, <2>3, <2>4, AnswerTypes DEF HandlersOK, TypeOK, PolicyOutcome
  <2>10. ApprovalsOK'
    BY <1>0, <1>2, <2>5, KeysDiffer DEF ApprovalsOK
  <2> QED BY <1>0, <2>6, <2>7, <2>8, <2>9, <2>10 DEF CallsOK, Decided
<1> QED BY <1>1, <1>2 DEF createActionExecution, Fault

LEMMA RequestApprovalStep ==
  ASSUME AInv, NEW q \in Requests, createApprovalRequest(q)
  PROVE  AInv'
<1> USE DEF AInv
<1>1. PICK outcome \in {"REQUIRES_APPROVAL", "ERROR"} : Answer(q, outcome, {})
  BY DEF createApprovalRequest, Fault
<1>2. approval[q] = "ABSENT"
  BY DEF createApprovalRequest, HandlersOK
<1>3. TypeOK'
  BY <1>1, AnswerTypes
  DEF createApprovalRequest, TypeOK, factVars, PolicyOutcome, ApprovalStatus
<1>4. AnswersHold'
  BY <1>1, AnswerTypes DEF createApprovalRequest, AnswersHold, PolicyOutcome
<1>5. HandlersOK'
  BY <1>1, AnswerTypes DEF createApprovalRequest, HandlersOK, TypeOK, PolicyOutcome
<1>6. ApprovalsOK'
  BY <1>2 DEF createApprovalRequest, ApprovalsOK, TypeOK
<1>7. CallsOK'
  BY <1>2 DEF createApprovalRequest, CallsOK, Decided, TypeOK
<1> QED BY <1>3, <1>4, <1>5, <1>6, <1>7 DEF createApprovalRequest, KeysUnique

LEMMA HandlerStepKeeps ==
  ASSUME AInv, NEW q \in Requests, HandlerStep(q)
  PROVE  AInv'
<1>1. CASE faultInHandler(q)
  BY <1>1, FaultStep DEF faultInHandler
<1> QED BY <1>1, LookupStep, ReadStep, EvaluateStep, CreateStep,
           RequestApprovalStep DEF HandlerStep

-----------------------------------------------------------------------------
(***************************************************************************)
(* The calls of managers.                                                  *)
(***************************************************************************)
LEMMA BeginStep ==
  ASSUME AInv, NEW d \in Decisions, NEW a \in Requests,
         NEW verb \in {"grant", "deny"}, beginDecision(d, a, verb)
  PROVE  AInv'
<1> USE DEF AInv
<1>1. TypeOK'
  BY DEF beginDecision, TypeOK, CallType, factVars, tableVars, requestVars
<1>2. CallsOK'
  BY DEF beginDecision, CallsOK, Decided, TypeOK, CallType, tableVars
<1> QED BY <1>1, <1>2
        DEF beginDecision, KeysUnique, AnswersHold, HandlersOK, ApprovalsOK,
            tableVars, requestVars

LEMMA SetAnswerType ==
  ASSUME TypeOK, NEW d \in Decisions,
         NEW answer \in {"APPROVED", "DENIED", "CONFLICT", "ERROR"},
         SetAnswer(d, answer)
  PROVE  call' \in [Decisions -> CallType]
<1> DEFINE r == [call[d] EXCEPT !.pc = "answered", !.answer = answer]
<1>1. call[d] \in CallType
  BY DEF TypeOK
<1>2. r \in CallType
  BY <1>1 DEF CallType
<1>3. call' = [call EXCEPT ![d] = r]
  BY DEF SetAnswer, TypeOK
<1> QED BY <1>2, <1>3 DEF TypeOK

\* A manager is answered without a decision.
LEMMA NoDecisionStep ==
  ASSUME AInv, NEW d \in Decisions, call[d].pc = "decide",
         NEW answer \in {"CONFLICT", "ERROR"}, SetAnswer(d, answer),
         UNCHANGED <<factVars, tableVars, requestVars>>
  PROVE  AInv'
<1> USE DEF AInv
<1>1. TypeOK'
  BY SetAnswerType DEF TypeOK, factVars, tableVars, requestVars
<1>2. CallsOK'
  BY DEF SetAnswer, CallsOK, Decided, TypeOK, CallType, tableVars
<1> QED BY <1>1, <1>2
        DEF KeysUnique, AnswersHold, HandlersOK, ApprovalsOK, tableVars, requestVars

\* A pending approval has been decided by nobody, so its decision contradicts
\* no answer.
LEMMA DecisionKeepsCalls ==
  ASSUME AInv, NEW d \in Decisions, NEW a \in call[d].approval,
         call[d].pc = "decide", approval[a] = "PENDING",
         NEW status \in {"APPROVED", "DENIED"},
         approval' = [approval EXCEPT ![a] = status],
         NEW answer \in {status, "ERROR"}, SetAnswer(d, answer)
  PROVE  CallsOK'
<1> USE DEF AInv
<1>1. call[d].approval = {a} /\ a \in Requests
  BY DEF CallsOK
<1>2. /\ call' = [call EXCEPT ![d].pc = "answered", ![d].answer = answer]
      /\ call \in [Decisions -> CallType]
  BY DEF SetAnswer, TypeOK
<1>3. /\ call'[d].approval = {a} /\ call'[d].pc = "answered"
      /\ call'[d].answer = answer
      /\ \A c \in Decisions \ {d} : call'[c] = call[c]
  BY <1>1, <1>2 DEF CallType
<1>4. /\ approval'[a] = status
      /\ \A b \in Requests \ {a} : approval'[b] = approval[b]
  BY <1>1 DEF TypeOK
<1>5. \A c \in Decisions : Decided(c) => a \notin call[c].approval
  BY DEF CallsOK, Decided
<1>6. \A c \in Decisions \ {d} : Decided(c) => call[c].approval # {a}
  BY <1>5
<1>7. \A c \in Decisions : call[c].approval \in SUBSET Requests
  BY DEF TypeOK, CallType
<1>8. ASSUME NEW c \in Decisions
      PROVE  /\ call'[c].pc # "idle" =>
                  \E b \in Requests : call'[c].approval = {b} /\ approval'[b] # "ABSENT"
             /\ call'[c].pc # "answered" => call'[c].answer = "none"
  BY <1>1, <1>3, <1>4 DEF CallsOK
<1>9. ASSUME NEW c \in Decisions, Decided(c)'
      PROVE  /\ \A b \in call'[c].approval : approval'[b] = call'[c].answer
             /\ \A e \in Decisions \ {c} :
                  call'[e].approval = call'[c].approval => ~Decided(e)'
  <2>1. CASE c = d
    BY <1>3, <1>4, <1>6, <1>9, <2>1 DEF Decided
  <2>2. CASE c # d
    BY <1>3, <1>4, <1>5, <1>6, <1>7, <1>9, <2>2 DEF CallsOK, Decided
  <2> QED BY <2>1, <2>2
<1> QED BY <1>8, <1>9 DEF CallsOK

LEMMA GrantStep ==
  ASSUME AInv, NEW d \in Decisions, grant(d)
  PROVE  AInv'
<1> USE DEF AInv
<1>0. call[d].pc = "decide" /\ UNCHANGED <<factVars, expired, requestVars>>
  BY DEF grant
<1>1. PICK a \in call[d].approval :
        completeApprovalAndEnqueue(d, a) \/ grantFails(d, a)
  BY DEF grant
<1>2. a \in Requests /\ approval[a] # "ABSENT"
  BY <1>0 DEF CallsOK
<1>3. CASE grantFails(d, a)
  BY <1>0, <1>3, NoDecisionStep DEF grantFails, AnswerCall, tableVars
<1>4. CASE completeApprovalAndEnqueue(d, a)
  <2> DEFINE execution == [id |-> ByDecision(d), key |-> ApprovalKey(a),
                           ask |-> sent[a].ask, approval |-> {a}]
  <2>1. /\ approval[a] = "PENDING"
        /\ approval' = [approval EXCEPT ![a] = "APPROVED"]
        /\ executions' = executions \cup {execution}
        /\ \E answer \in {"APPROVED", "ERROR"} : SetAnswer(d, answer)
    BY <1>4 DEF completeApprovalAndEnqueue, Grantable, AnswerCall, LoseAnswer
  <2>2. sent[a].ask \in Asks
    BY <1>2, SentType DEF HandlersOK
  <2>3. execution \in ActionExecution
    BY <1>2, <2>2 DEF ActionExecution, ExecutionId, ExecutionKey
  <2>4. execution.key = ApprovalKey(a) /\ execution.approval = {a}
    OBVIOUS
  <2> HIDE DEF execution
  <2>5. TypeOK'
    BY <1>0, <1>2, <2>1, <2>3, SetAnswerType
    DEF TypeOK, ApprovalStatus, factVars, requestVars
  <2>6. \A e \in executions : e.key # ApprovalKey(a) /\ e.approval # {a}
    BY <1>2, <2>1 DEF ApprovalsOK
  <2>7. KeysUnique'
    BY <2>1, <2>4, <2>6 DEF KeysUnique
  <2>8. AnswersHold'
    BY <1>0, <2>1 DEF AnswersHold, requestVars
  <2>9. HandlersOK'
    BY <1>0, <1>2, <2>1 DEF HandlersOK, TypeOK, requestVars
  <2>10. ApprovalsOK'
    BY <1>2, <2>1, <2>4, <2>6, ApprovalKeysDiffer DEF ApprovalsOK, TypeOK
  <2>11. CallsOK'
    BY <1>0, <2>1, DecisionKeepsCalls
  <2> QED BY <2>5, <2>7, <2>8, <2>9, <2>10, <2>11
<1> QED BY <1>1, <1>3, <1>4

LEMMA DenyStep ==
  ASSUME AInv, NEW d \in Decisions, deny(d)
  PROVE  AInv'
<1> USE DEF AInv
<1>0. call[d].pc = "decide"
      /\ UNCHANGED <<factVars, executions, expired, requestVars>>
  BY DEF deny
<1>1. PICK a \in call[d].approval :
        IF approval[a] = "PENDING"
        THEN /\ approval' = [approval EXCEPT ![a] = "DENIED"]
             /\ AnswerCall(d, "DENIED") \/ LoseAnswer(d)
        ELSE AnswerCall(d, "CONFLICT") /\ UNCHANGED approval
  BY DEF deny
<1>2. a \in Requests
  BY <1>0 DEF CallsOK
<1>3. CASE approval[a] # "PENDING"
  BY <1>0, <1>1, <1>3, NoDecisionStep DEF AnswerCall, tableVars
<1>4. CASE approval[a] = "PENDING"
  <2>1. /\ approval' = [approval EXCEPT ![a] = "DENIED"]
        /\ \E answer \in {"DENIED", "ERROR"} : SetAnswer(d, answer)
    BY <1>1, <1>4 DEF AnswerCall, LoseAnswer
  <2>2. TypeOK'
    BY <1>0, <1>2, <2>1, SetAnswerType
    DEF TypeOK, ApprovalStatus, factVars, requestVars
  <2>3. HandlersOK'
    BY <1>0, <1>2, <1>4, <2>1 DEF HandlersOK, TypeOK, requestVars
  <2>4. ApprovalsOK'
    BY <1>0, <1>2, <1>4, <2>1 DEF ApprovalsOK, TypeOK
  <2>5. CallsOK'
    BY <1>0, <1>4, <2>1, DecisionKeepsCalls
  <2> QED BY <1>0, <2>2, <2>3, <2>4, <2>5 DEF KeysUnique, AnswersHold, requestVars
<1> QED BY <1>3, <1>4

LEMMA NextInv == AInv /\ [Next]_actionVars => AInv'
<1> SUFFICES ASSUME AInv, [Next]_actionVars PROVE AInv'
  OBVIOUS
<1>1. ASSUME NEW q \in Requests, NEW k \in Keys, NEW a \in Asks, receive(q, k, a)
      PROVE  AInv'
  BY <1>1, ReceiveStep
<1>2. ASSUME NEW q \in Requests, HandlerStep(q) PROVE AInv'
  BY <1>2, HandlerStepKeeps
<1>3. ASSUME NEW d \in Decisions, DecisionStep(d) PROVE AInv'
  BY <1>3, BeginStep, GrantStep, DenyStep DEF DecisionStep
<1>4. CASE Environment
  BY <1>4, EnvironmentStep
<1>5. CASE UNCHANGED actionVars
  <2>1. TypeOK'
    BY <1>5 DEF AInv, TypeOK, actionVars, factVars, tableVars, requestVars
  <2> QED BY <1>5, <2>1, Frame DEF actionVars
<1> QED BY <1>1, <1>2, <1>3, <1>4, <1>5 DEF Next, ServerStep

(***************************************************************************)
(* The invariant holds throughout: the tables, the answers and the         *)
(* managers' calls of Actions agree.                                       *)
(***************************************************************************)
THEOREM Invariance == Spec => []AInv
BY InitInv, NextInv, PTL DEF Spec

(***************************************************************************)
(* Every variable keeps its type; no approval is ever EXPIRED, whatever    *)
(* grants of expired approvals do (completeApprovalAndEnqueue).            *)
(***************************************************************************)
THEOREM TypeCorrect == Spec => []TypeOK
<1>1. AInv => TypeOK
  BY DEF AInv
<1> QED BY <1>1, Invariance, PTL

(***************************************************************************)
(* However retries with one key interleave, all that are allowed name the  *)
(* same execution, which exists (initiateAction).                          *)
(***************************************************************************)
THEOREM KeysNameOneExecution == Spec => []OneExecutionPerKey
<1>1. ASSUME AInv PROVE OneExecutionPerKey
  <2>1. ASSUME NEW q \in Requests, reply[q].outcome = "ALLOW"
        PROVE  \E e \in executions :
                 reply[q].execution = {e.id} /\ e.key = ClientKey(sent[q].key)
    BY <1>1, <2>1 DEF AInv, AnswersHold
  <2>2. ASSUME NEW q \in Requests, NEW p \in Requests, reply[q].outcome = "ALLOW",
               reply[p].outcome = "ALLOW", sent[p].key = sent[q].key
        PROVE  reply[p].execution = reply[q].execution
    <3>1. PICK e \in executions :
            reply[q].execution = {e.id} /\ e.key = ClientKey(sent[q].key)
      BY <2>1, <2>2
    <3>2. PICK f \in executions :
            reply[p].execution = {f.id} /\ f.key = ClientKey(sent[p].key)
      BY <2>1, <2>2
    <3>3. e = f
      BY <1>1, <2>2, <3>1, <3>2 DEF AInv, KeysUnique
    <3> QED BY <3>1, <3>2, <3>3
  <2> QED BY <2>1, <2>2 DEF OneExecutionPerKey
<1> QED BY <1>1, Invariance, PTL

(***************************************************************************)
(* One execution for an approved approval, none for any other, and of two  *)
(* managers at most one is told that the decision is theirs (grant, deny). *)
(***************************************************************************)
THEOREM ManagersAgree == Spec => []DecisionsAgree
<1>1. ASSUME AInv PROVE DecisionsAgree
  <2> USE <1>1 DEF AInv
  <2>1. ASSUME NEW a \in Requests
        PROVE  LET produced == {e \in executions : e.approval = {a}}
               IN  IF approval[a] = "APPROVED" THEN Cardinality(produced) = 1
                   ELSE produced = {}
    <3> DEFINE produced == {e \in executions : e.approval = {a}}
    <3>1. CASE approval[a] = "APPROVED"
      <4>1. PICK e \in executions : e.approval = {a}
        BY <3>1 DEF ApprovalsOK
      <4>2. produced = {e}
        BY <4>1 DEF ApprovalsOK, KeysUnique
      <4> QED BY <3>1, <4>2, FS_Singleton
    <3>2. CASE approval[a] # "APPROVED"
      BY <3>2 DEF ApprovalsOK
    <3> QED BY <3>1, <3>2
  <2>2. ASSUME NEW d \in Decisions, call[d].answer \in {"APPROVED", "DENIED"}
        PROVE  /\ \A a \in call[d].approval : approval[a] = call[d].answer
               /\ \A c \in Decisions \ {d} :
                    call[c].approval = call[d].approval
                      => call[c].answer \notin {"APPROVED", "DENIED"}
    BY <2>2 DEF CallsOK, Decided
  <2> QED BY <2>1, <2>2 DEF DecisionsAgree
<1> QED BY <1>1, Invariance, PTL

(***************************************************************************)
(* Decisions are final, and nothing is executed on an approval that was    *)
(* denied or had expired (completeApprovalAndEnqueue).                     *)
(***************************************************************************)
THEOREM DecisionsStay == Spec => DecisionsAreFinal
<1> DEFINE Final ==
      \A a \in Requests :
        /\ approval[a] \in {"APPROVED", "DENIED"} => approval'[a] = approval[a]
        /\ approval[a] = "DENIED" \/ a \in expired =>
             \A e \in executions' \ executions : e.approval # {a}
<1>1. ASSUME AInv, [Next]_actionVars PROVE Final
  <2>0. AInv /\ approval \in [Requests -> ApprovalStatus \cup {"ABSENT"}]
    BY <1>1 DEF AInv, TypeOK
  <2>1. CASE UNCHANGED <<executions, approval>>
    BY <2>1
  <2>2. ASSUME NEW q \in Requests, createActionExecution(q) PROVE Final
    <3>1. UNCHANGED approval
      BY <2>2 DEF createActionExecution
    <3>2. \A e \in executions' \ executions : e.approval = {}
      BY <2>2 DEF createActionExecution
    <3> QED BY <3>1, <3>2
  <2>3. ASSUME NEW q \in Requests, createApprovalRequest(q) PROVE Final
    <3>1. approval[q] = "ABSENT"
      BY <2>0, <2>3 DEF createApprovalRequest, AInv, HandlersOK
    <3> QED BY <2>0, <2>3, <3>1 DEF createApprovalRequest
  <2>4. ASSUME NEW d \in Decisions, grant(d) PROVE Final
    <3>1. PICK a \in call[d].approval :
            completeApprovalAndEnqueue(d, a) \/ grantFails(d, a)
      BY <2>4 DEF grant
    <3>2. CASE grantFails(d, a)
      BY <3>2 DEF grantFails
    <3>3. CASE completeApprovalAndEnqueue(d, a)
      <4>1. approval[a] = "PENDING" /\ a \notin expired
        BY <3>3 DEF completeApprovalAndEnqueue, Grantable
      <4>2. approval' = [approval EXCEPT ![a] = "APPROVED"]
        BY <3>3 DEF completeApprovalAndEnqueue
      <4>3. \A e \in executions' \ executions : e.approval = {a}
        BY <3>3 DEF completeApprovalAndEnqueue
      <4> QED BY <2>0, <4>1, <4>2, <4>3
    <3> QED BY <3>1, <3>2, <3>3
  <2>5. ASSUME NEW d \in Decisions, deny(d) PROVE Final
    BY <2>0, <2>5 DEF deny
  <2>6. ASSUME NEW q \in Requests,
               lookup(q) \/ readConfig(q) \/ readDegradedState(q)
               \/ readAbuseSeverity(q) \/ readEvidenceAndEvaluate(q)
               \/ resolveUniqueViolation(q) \/ faultInHandler(q)
        PROVE  UNCHANGED <<executions, approval>>
    BY <2>6 DEF lookup, readConfig, readDegradedState, readAbuseSeverity, Read,
                readEvidenceAndEvaluate, resolveUniqueViolation, faultInHandler,
                tableVars
  <2>7. ASSUME Environment PROVE UNCHANGED <<executions, approval>>
    BY <2>7 DEF Environment, updateTenantConfig, recordReopen, SignalExpires,
                ingestTicketContext, routeStripeEvent, routeShopifyEvent,
                handleTicketDeleted, ApprovalExpires, FactsChange, tableVars
  <2>8. ASSUME NEW q \in Requests, NEW k \in Keys, NEW a \in Asks, receive(q, k, a)
        PROVE  UNCHANGED <<executions, approval>>
    BY <2>8 DEF receive, tableVars
  <2>9. ASSUME NEW d \in Decisions, NEW a \in Requests,
               NEW verb \in {"grant", "deny"}, beginDecision(d, a, verb)
        PROVE  UNCHANGED <<executions, approval>>
    BY <2>9 DEF beginDecision, tableVars
  <2>10. CASE UNCHANGED actionVars
    BY <2>10 DEF actionVars, tableVars
  <2> HIDE DEF Final
  <2> QED BY <1>1, <2>1, <2>2, <2>3, <2>4, <2>5, <2>6, <2>7, <2>8, <2>9, <2>10
          DEF Next, ServerStep, HandlerStep, DecisionStep
<1>2. AInv /\ [Next]_actionVars => [Final]_actionVars
  BY <1>1
<1> QED BY <1>2, Invariance, PTL DEF Spec, DecisionsAreFinal

-----------------------------------------------------------------------------
(***************************************************************************)
(* The facts.  What a handler has read so far, and what it may still read, *)
(* is no milder than the mildest facts since the request arrived.          *)
(***************************************************************************)
FactsType ==
  [config : [approvalsEnabled : BOOLEAN, threshold : Nat], unavailable : BOOLEAN,
   severity : AbuseSeverity]

MildType ==
  [approvals : SUBSET BOOLEAN, threshold : Nat, severity : AbuseSeverity,
   unavailable : BOOLEAN, amount : Nat]

\* Facts are no milder than m.
ConfigBound(m, config) ==
  config.approvalsEnabled \in m.approvals /\ config.threshold <= m.threshold
SeverityBound(m, severity) == Severity[m.severity] <= Severity[severity]
RowBound(m, row) ==
  (m.unavailable => row.unavailable) /\ m.amount <= row.amount

Bounds(m, config, severity, rows) ==
  /\ ConfigBound(m, config)
  /\ SeverityBound(m, severity)
  /\ \A r \in rows : RowBound(m, r)

ReadOK(label, f, m) ==
  /\ label \in {"degraded", "abuse", "evidence"} => ConfigBound(m, f.config)
  /\ label \in {"abuse", "evidence"} => (m.unavailable => f.unavailable)
  /\ label = "evidence" => SeverityBound(m, f.severity)

QueriesOK(q) ==
  Deciding(q) =>
    /\ Bounds(mildest[q], tenantConfig, computeAbuseSeverity, LatestRows)
    /\ ReadOK(pc[q], facts[q], mildest[q])

FactsInv ==
  /\ facts \in [Requests -> FactsType]
  /\ mildest \in [Requests -> MildType]
  /\ \A q \in Requests : QueriesOK(q)

LEMMA SetMinOfPair ==
  ASSUME NEW x \in Nat, NEW y \in Nat
  PROVE  /\ SetMin({x, y}) \in {x, y}
         /\ SetMin({x, y}) <= x /\ SetMin({x, y}) <= y
<1>1. \E z \in {x, y} : \A w \in {x, y} : z <= w
  OBVIOUS
<1> QED BY <1>1 DEF SetMin

\* One row or two, since there are two sources.
LEMMA RowsArePair ==
  FactsTyped => \E r, s \in [amount : Nat, unavailable : BOOLEAN] : LatestRows = {r, s}
<1> SUFFICES ASSUME FactsTyped
             PROVE  \E r, s \in [amount : Nat, unavailable : BOOLEAN] :
                      LatestRows = {r, s}
  OBVIOUS
<1> DEFINE Row == [amount : Nat, unavailable : BOOLEAN]
<1>1. /\ newest \in SUBSET {"stripe", "shopify"}
      /\ \A s \in newest : evidence[s] \in Row
  BY ActionsAssumption, EvidenceTableHas DEF FactsTyped, EvidenceRow, Source
<1>2. CASE newest = {}
  <2>1. LatestRows = {[amount |-> 0, unavailable |-> FALSE],
                      [amount |-> 0, unavailable |-> FALSE]}
    BY <1>2 DEF LatestRows
  <2> QED BY <2>1
<1>3. ASSUME NEW s \in newest, NEW t \in newest, newest = {s, t}
      PROVE  \E x, y \in Row : LatestRows = {x, y}
  <2>1. LatestRows = {evidence[s], evidence[t]}
    BY <1>3 DEF LatestRows
  <2>2. evidence[s] \in Row /\ evidence[t] \in Row
    BY <1>1
  <2> QED BY <2>1, <2>2
<1>4. ASSUME newest # {} PROVE \E s, t \in newest : newest = {s, t}
  <2>1. \/ newest = {"stripe"} \/ newest = {"shopify"}
        \/ newest = {"stripe", "shopify"}
    BY <1>1, <1>4
  <2>2. CASE newest = {"stripe"}
    BY <2>2
  <2>3. CASE newest = {"shopify"}
    BY <2>3
  <2>4. CASE newest = {"stripe", "shopify"}
    BY <2>4
  <2> QED BY <2>1, <2>2, <2>3, <2>4
<1> QED BY <1>2, <1>3, <1>4

NowOK ==
  /\ Now \in MildType
  /\ Bounds(Now, tenantConfig, computeAbuseSeverity, LatestRows)

LEMMA NowBounds == FactsTyped => NowOK
<1> SUFFICES ASSUME FactsTyped PROVE NowOK
  OBVIOUS
<1>1. PICK r, s \in [amount : Nat, unavailable : BOOLEAN] : LatestRows = {r, s}
  BY RowsArePair
<1>2. {x.amount : x \in LatestRows} = {r.amount, s.amount}
  BY <1>1
<1>3. /\ Now.amount \in Nat
      /\ \A x \in LatestRows : Now.amount <= x.amount
  BY <1>1, <1>2, SetMinOfPair DEF Now
<1>4. computeAbuseSeverity \in AbuseSeverity
  BY DEF computeAbuseSeverity, AbuseSeverity
<1>5. /\ Now.approvals = {tenantConfig.approvalsEnabled}
      /\ Now.threshold = tenantConfig.threshold
      /\ Now.severity = computeAbuseSeverity
      /\ Now.unavailable = (\A x \in LatestRows : x.unavailable)
  BY DEF Now
<1>6. tenantConfig.approvalsEnabled \in BOOLEAN /\ tenantConfig.threshold \in Nat
  BY ActionsAssumption DEF FactsTyped, Config
<1>7. Now \in MildType
  BY <1>3, <1>4, <1>6 DEF Now, MildType
<1>8. Severity[Now.severity] <= Severity[computeAbuseSeverity]
  BY <1>4, <1>5 DEF Severity, AbuseSeverity
<1> QED BY <1>3, <1>5, <1>6, <1>7, <1>8
        DEF NowOK, Bounds, ConfigBound, SeverityBound, RowBound

\* The milder of two bounds whatever either of them bounds.
LEMMA MilderIsMilder ==
  ASSUME NEW m \in MildType, NEW n \in MildType
  PROVE  /\ Milder(m, n) \in MildType
         /\ \A config \in [approvalsEnabled : BOOLEAN, threshold : Nat] :
              ConfigBound(m, config) \/ ConfigBound(n, config)
                => ConfigBound(Milder(m, n), config)
         /\ \A severity \in AbuseSeverity :
              SeverityBound(m, severity) \/ SeverityBound(n, severity)
                => SeverityBound(Milder(m, n), severity)
         /\ \A row \in [amount : Nat, unavailable : BOOLEAN] :
              RowBound(m, row) \/ RowBound(n, row) => RowBound(Milder(m, n), row)
         /\ Milder(m, n).unavailable => m.unavailable
<1> DEFINE l == Milder(m, n)
<1>1. l \in MildType
  BY DEF Milder, MildType
<1>2. /\ l.approvals = m.approvals \cup n.approvals
      /\ l.threshold >= m.threshold /\ l.threshold >= n.threshold
      /\ l.unavailable => m.unavailable /\ n.unavailable
      /\ l.amount <= m.amount /\ l.amount <= n.amount
  BY DEF Milder, MildType
<1>3. /\ Severity[l.severity] <= Severity[m.severity]
      /\ Severity[l.severity] <= Severity[n.severity]
  BY DEF Milder, MildType, Severity, AbuseSeverity
<1>4. \A x \in AbuseSeverity : Severity[x] \in Nat
  BY DEF Severity, AbuseSeverity
<1>5. /\ m.threshold \in Nat /\ n.threshold \in Nat /\ l.threshold \in Nat
      /\ m.amount \in Nat /\ n.amount \in Nat /\ l.amount \in Nat
      /\ m.severity \in AbuseSeverity /\ n.severity \in AbuseSeverity
      /\ l.severity \in AbuseSeverity
  BY <1>1 DEF MildType
<1> HIDE DEF l
<1>6. \A config \in [approvalsEnabled : BOOLEAN, threshold : Nat] :
        ConfigBound(m, config) \/ ConfigBound(n, config) => ConfigBound(l, config)
  BY <1>2, <1>5 DEF ConfigBound
<1>7. \A severity \in AbuseSeverity :
        SeverityBound(m, severity) \/ SeverityBound(n, severity)
          => SeverityBound(l, severity)
  BY <1>3, <1>4, <1>5 DEF SeverityBound
<1>8. \A row \in [amount : Nat, unavailable : BOOLEAN] :
        RowBound(m, row) \/ RowBound(n, row) => RowBound(l, row)
  BY <1>2, <1>5 DEF RowBound
<1> QED BY <1>1, <1>2, <1>6, <1>7, <1>8 DEF l

LEMMA FactsInit == Init => FactsInv
BY ActionsAssumption
   DEF Init, FactsInv, QueriesOK, Deciding, NoFacts, NoFactsYet, FactsType,
       MildType, AbuseSeverity

LEMMA FactsPreservedByChange ==
  ASSUME FactsInv, FactsTyped', FactsChange
  PROVE  FactsInv'
<1>1. Now' \in MildType
      /\ Bounds(Now', tenantConfig', computeAbuseSeverity', LatestRows')
  <2>1. NowOK'
    BY NowBounds, PTL
  <2> QED BY <2>1 DEF NowOK
<1>2. /\ UNCHANGED <<pc, facts>>
      /\ mildest' = [q \in Requests |->
                       IF Deciding(q) THEN Milder(mildest[q], Now') ELSE mildest[q]]
  BY DEF FactsChange, requestVars
<1>3. /\ tenantConfig' \in [approvalsEnabled : BOOLEAN, threshold : Nat]
      /\ computeAbuseSeverity' \in AbuseSeverity
      /\ \A r \in LatestRows' : r \in [amount : Nat, unavailable : BOOLEAN]
  <2>1. tenantConfig' \in [approvalsEnabled : BOOLEAN, threshold : Nat]
    BY ActionsAssumption DEF FactsTyped, Config
  <2>2. computeAbuseSeverity' \in AbuseSeverity
    BY DEF computeAbuseSeverity, AbuseSeverity
  <2>3. (\E r, s \in [amount : Nat, unavailable : BOOLEAN] : LatestRows = {r, s})'
    BY RowsArePair, PTL
  <2> QED BY <2>1, <2>2, <2>3
<1>4. ASSUME NEW q \in Requests, Deciding(q)
      PROVE  /\ mildest'[q] \in MildType
             /\ Bounds(mildest'[q], tenantConfig', computeAbuseSeverity', LatestRows')
             /\ ReadOK(pc[q], facts[q], mildest'[q])
  <2>1. mildest'[q] = Milder(mildest[q], Now') /\ mildest[q] \in MildType
    BY <1>2, <1>4 DEF FactsInv
  <2>2. Bounds(mildest'[q], tenantConfig', computeAbuseSeverity', LatestRows')
    BY <1>1, <1>3, <2>1, MilderIsMilder DEF Bounds
  <2>3. ReadOK(pc[q], facts[q], mildest[q])
    BY <1>4 DEF FactsInv, QueriesOK
  <2>4. /\ facts[q].config \in [approvalsEnabled : BOOLEAN, threshold : Nat]
        /\ facts[q].severity \in AbuseSeverity
    BY DEF FactsInv, FactsType
  <2>5. ReadOK(pc[q], facts[q], mildest'[q])
    BY <1>1, <2>1, <2>3, <2>4, MilderIsMilder DEF ReadOK
  <2> QED BY <1>1, <2>1, <2>2, <2>5, MilderIsMilder
<1>5. mildest' \in [Requests -> MildType]
  BY <1>2, <1>4 DEF FactsInv
<1> QED BY <1>2, <1>4, <1>5 DEF FactsInv, QueriesOK, Deciding

\* A step of one handler disturbs what is known of that request only.
LEMMA FactsPreservedByHandler ==
  ASSUME FactsInv, NEW q \in Requests, UNCHANGED factVars,
         facts' \in [Requests -> FactsType], mildest' \in [Requests -> MildType],
         \A p \in Requests \ {q} :
           pc'[p] = pc[p] /\ facts'[p] = facts[p] /\ mildest'[p] = mildest[p],
         QueriesOK(q)'
  PROVE  FactsInv'
<1>1. /\ UNCHANGED <<tenantConfig, riskSignals, evidence, newest>>
      /\ computeAbuseSeverity' = computeAbuseSeverity /\ LatestRows' = LatestRows
  BY DEF factVars, computeAbuseSeverity, LatestRows
<1>2. ASSUME NEW p \in Requests \ {q} PROVE QueriesOK(p)'
  BY <1>1 DEF FactsInv, QueriesOK, Deciding
<1> QED BY <1>2 DEF FactsInv

LEMMA FactsPreservedByReceive ==
  ASSUME AInv, FactsInv, NEW q \in Requests, NEW k \in Keys, NEW a \in Asks,
         receive(q, k, a)
  PROVE  FactsInv'
<1>1. /\ pc' = [pc EXCEPT ![q] = "lookup"] /\ mildest' = [mildest EXCEPT ![q] = Now]
      /\ UNCHANGED <<factVars, facts>>
      /\ pc \in [Requests -> PCs]
  BY DEF receive, Goto, AInv, TypeOK
<1>2. FactsTyped
  BY DEF AInv, TypeOK, FactsTyped, EvidenceTable
<1>3. NowOK
  BY <1>2, NowBounds
<1>4. computeAbuseSeverity' = computeAbuseSeverity /\ LatestRows' = LatestRows
      /\ tenantConfig' = tenantConfig
  BY <1>1 DEF factVars, computeAbuseSeverity, LatestRows
<1>5. pc'[q] = "lookup" /\ mildest'[q] = Now
  BY <1>1 DEF FactsInv
<1>6. QueriesOK(q)'
  BY <1>3, <1>4, <1>5 DEF NowOK, QueriesOK, ReadOK
<1> QED BY <1>1, <1>3, <1>6, FactsPreservedByHandler DEF FactsInv, NowOK

\* A request that leaves the part in which facts are read.
LEMMA FactsPreservedByLeaving ==
  ASSUME AInv, FactsInv, NEW q \in Requests, UNCHANGED factVars,
         \/ \E label \in {"create", "approve", "resolve"} :
              Goto(q, label) /\ UNCHANGED <<facts, mildest>>
         \/ \E outcome, execution : Answer(q, outcome, execution)
  PROVE  FactsInv'
<1>1. PICK label \in {"create", "approve", "resolve", "answered"} :
        pc' = [pc EXCEPT ![q] = label]
  BY DEF Answer, Goto
<1>2. /\ facts' \in [Requests -> FactsType]
      /\ \A p \in Requests \ {q} : facts'[p] = facts[p]
  <2>1. NoFacts \in FactsType
    BY DEF NoFacts, FactsType, AbuseSeverity
  <2>2. facts' = facts \/ facts' = [facts EXCEPT ![q] = NoFacts]
    BY DEF Answer
  <2> QED BY <2>1, <2>2 DEF FactsInv
<1>3. /\ mildest' \in [Requests -> MildType]
      /\ \A p \in Requests \ {q} : mildest'[p] = mildest[p]
  <2>1. NoFactsYet \in MildType
    BY DEF NoFactsYet, MildType, AbuseSeverity
  <2>2. mildest' = mildest \/ mildest' = [mildest EXCEPT ![q] = NoFactsYet]
    BY DEF Answer
  <2> QED BY <2>1, <2>2 DEF FactsInv
<1>4. pc \in [Requests -> PCs]
  BY DEF AInv, TypeOK
<1>5. QueriesOK(q)'
  BY <1>1, <1>4 DEF QueriesOK, Deciding
<1> QED BY <1>1, <1>2, <1>3, <1>4, <1>5, FactsPreservedByHandler

LEMMA FactsPreservedByRead ==
  ASSUME AInv, FactsInv, NEW q \in Requests,
         readConfig(q) \/ readDegradedState(q) \/ readAbuseSeverity(q)
  PROVE  FactsInv'
<1>0. /\ pc \in [Requests -> PCs] /\ facts \in [Requests -> FactsType]
      /\ mildest[q] \in MildType
      /\ UNCHANGED <<factVars, mildest>>
  BY DEF AInv, TypeOK, FactsInv, readConfig, readDegradedState, readAbuseSeverity, Read
<1>1. FactsTyped
  BY DEF AInv, TypeOK, FactsTyped, EvidenceTable
<1>2. computeAbuseSeverity' = computeAbuseSeverity /\ LatestRows' = LatestRows
      /\ tenantConfig' = tenantConfig
  BY <1>0 DEF factVars, computeAbuseSeverity, LatestRows
<1>3. Deciding(q) => Bounds(mildest[q], tenantConfig, computeAbuseSeverity, LatestRows)
                     /\ ReadOK(pc[q], facts[q], mildest[q])
  BY DEF FactsInv, QueriesOK
<1>4. ASSUME NEW label \in {"degraded", "abuse", "evidence"},
             NEW f \in FactsType,
             pc' = [pc EXCEPT ![q] = label], facts' = [facts EXCEPT ![q] = f],
             Deciding(q), ReadOK(label, f, mildest[q])
      PROVE  FactsInv'
  <2>1. pc'[q] = label /\ facts'[q] = f /\ mildest'[q] = mildest[q]
    BY <1>0, <1>4
  <2>2. QueriesOK(q)'
    BY <1>2, <1>3, <1>4, <2>1 DEF QueriesOK
  <2>3. /\ facts' \in [Requests -> FactsType]
        /\ \A p \in Requests \ {q} :
             pc'[p] = pc[p] /\ facts'[p] = facts[p] /\ mildest'[p] = mildest[p]
    BY <1>0, <1>4
  <2> QED BY <1>0, <2>2, <2>3, FactsPreservedByHandler DEF FactsInv
<1>5. CASE readConfig(q)
  <2> DEFINE f == [facts[q] EXCEPT !.config = tenantConfig]
  <2>1. /\ pc[q] = "config" /\ pc' = [pc EXCEPT ![q] = "degraded"]
        /\ facts' = [facts EXCEPT ![q] = f]
    BY <1>5 DEF readConfig, Read, Goto
  <2>2. f \in FactsType /\ f.config = tenantConfig
    BY <1>0, <1>1, ActionsAssumption DEF FactsTyped, Config, FactsType
  <2>3. ReadOK("degraded", f, mildest[q])
    BY <1>3, <2>1, <2>2 DEF Deciding, Bounds, ReadOK
  <2> HIDE DEF f
  <2> QED BY <1>4, <2>1, <2>2, <2>3 DEF Deciding
<1>6. CASE readDegradedState(q)
  <2>1. PICK r \in LatestRows :
          Read(q, "degraded", "abuse", "unavailable", r.unavailable)
    BY <1>6 DEF readDegradedState
  <2> DEFINE f == [facts[q] EXCEPT !.unavailable = r.unavailable]
  <2>2. /\ pc[q] = "degraded" /\ pc' = [pc EXCEPT ![q] = "abuse"]
        /\ facts' = [facts EXCEPT ![q] = f]
    BY <2>1 DEF Read, Goto
  <2>3. r.unavailable \in BOOLEAN
    BY <1>1, RowsArePair
  <2>4. /\ f \in FactsType /\ f.config = facts[q].config
        /\ f.unavailable = r.unavailable
    BY <1>0, <2>3 DEF FactsType
  <2>5. ReadOK("abuse", f, mildest[q])
    BY <1>3, <2>2, <2>4 DEF Deciding, Bounds, RowBound, ReadOK
  <2> HIDE DEF f
  <2> QED BY <1>4, <2>2, <2>4, <2>5 DEF Deciding
<1>7. CASE readAbuseSeverity(q)
  <2> DEFINE f == [facts[q] EXCEPT !.severity = computeAbuseSeverity]
  <2>1. /\ pc[q] = "abuse" /\ pc' = [pc EXCEPT ![q] = "evidence"]
        /\ facts' = [facts EXCEPT ![q] = f]
    BY <1>7 DEF readAbuseSeverity, Read, Goto
  <2>2. computeAbuseSeverity \in AbuseSeverity
    BY DEF computeAbuseSeverity, AbuseSeverity
  <2>3. /\ f \in FactsType /\ f.config = facts[q].config
        /\ f.unavailable = facts[q].unavailable /\ f.severity = computeAbuseSeverity
    BY <1>0, <2>2 DEF FactsType
  <2>4. ReadOK("evidence", f, mildest[q])
    BY <1>3, <2>1, <2>3 DEF Deciding, Bounds, ReadOK
  <2> HIDE DEF f
  <2> QED BY <1>4, <2>1, <2>3, <2>4 DEF Deciding
<1> QED BY <1>5, <1>6, <1>7

LEMMA FactsPreserved == AInv /\ AInv' /\ FactsInv /\ [Next]_actionVars => FactsInv'
<1> SUFFICES ASSUME AInv, AInv', FactsInv, [Next]_actionVars PROVE FactsInv'
  OBVIOUS
<1>1. ASSUME NEW q \in Requests, NEW k \in Keys, NEW a \in Asks, receive(q, k, a)
      PROVE  FactsInv'
  BY <1>1, FactsPreservedByReceive
<1>2. ASSUME NEW q \in Requests, HandlerStep(q) PROVE FactsInv'
  <2>1. CASE lookup(q)
    <3>1. CASE findExecutionByIdempotencyKey(ClientKey(sent[q].key)) # {}
      BY <2>1, <3>1, FactsPreservedByLeaving DEF lookup, replayKnownKey
    <3>2. CASE findExecutionByIdempotencyKey(ClientKey(sent[q].key)) = {}
      <4>1. /\ pc[q] = "lookup" /\ pc' = [pc EXCEPT ![q] = "config"]
            /\ UNCHANGED <<factVars, facts, mildest>>
            /\ pc \in [Requests -> PCs]
        BY <2>1, <3>2 DEF lookup, replayKnownKey, Goto, AInv, TypeOK
      <4>2. /\ computeAbuseSeverity' = computeAbuseSeverity
            /\ LatestRows' = LatestRows /\ tenantConfig' = tenantConfig
        BY <4>1 DEF factVars, computeAbuseSeverity, LatestRows
      <4>3. pc'[q] = "config" /\ facts'[q] = facts[q] /\ mildest'[q] = mildest[q]
        BY <4>1
      <4>4. QueriesOK(q)'
        BY <4>1, <4>2, <4>3 DEF FactsInv, QueriesOK, Deciding, ReadOK
      <4> QED BY <4>1, <4>4, FactsPreservedByHandler DEF FactsInv
    <3> QED BY <3>1, <3>2
  <2>2. CASE readConfig(q) \/ readDegradedState(q) \/ readAbuseSeverity(q)
    BY <2>2, FactsPreservedByRead
  <2>3. CASE readEvidenceAndEvaluate(q)
    <3>1. UNCHANGED factVars
      BY <2>3 DEF readEvidenceAndEvaluate
    <3>2. \/ \E label \in {"create", "approve", "resolve"} :
               Goto(q, label) /\ UNCHANGED <<facts, mildest>>
          \/ \E outcome, execution : Answer(q, outcome, execution)
      BY <2>3 DEF readEvidenceAndEvaluate
    <3> QED BY <3>1, <3>2, FactsPreservedByLeaving
  <2>4. CASE createActionExecution(q)
    <3>1. UNCHANGED factVars
      BY <2>4 DEF createActionExecution
    <3>2. \/ \E label \in {"create", "approve", "resolve"} :
               Goto(q, label) /\ UNCHANGED <<facts, mildest>>
          \/ \E outcome, execution : Answer(q, outcome, execution)
      BY <2>4 DEF createActionExecution, Fault
    <3> QED BY <3>1, <3>2, FactsPreservedByLeaving
  <2>5. CASE resolveUniqueViolation(q)
    <3>1. UNCHANGED factVars
      BY <2>5 DEF resolveUniqueViolation
    <3>2. \E outcome, execution : Answer(q, outcome, execution)
      BY <2>5 DEF resolveUniqueViolation, replayKnownKey
    <3> QED BY <3>1, <3>2, FactsPreservedByLeaving
  <2>6. CASE createApprovalRequest(q)
    BY <2>6, FactsPreservedByLeaving DEF createApprovalRequest, Fault
  <2>7. CASE faultInHandler(q)
    BY <2>7, FactsPreservedByLeaving DEF faultInHandler, Fault
  <2> QED BY <1>2, <2>1, <2>2, <2>3, <2>4, <2>5, <2>6, <2>7 DEF HandlerStep
<1>3. CASE UNCHANGED <<factVars, pc, facts, mildest>>
  <2>1. /\ computeAbuseSeverity' = computeAbuseSeverity
        /\ LatestRows' = LatestRows /\ tenantConfig' = tenantConfig
    BY <1>3 DEF factVars, computeAbuseSeverity, LatestRows
  <2> QED BY <1>3, <2>1 DEF FactsInv, QueriesOK, Deciding
<1>4. ASSUME NEW d \in Decisions, DecisionStep(d)
      PROVE  UNCHANGED <<factVars, pc, facts, mildest>>
  BY <1>4 DEF DecisionStep, beginDecision, grant, deny, requestVars
<1>5. CASE Environment
  <2>1. FactsTyped'
    BY DEF AInv, TypeOK, FactsTyped, EvidenceTable
  <2>2. FactsChange \/ \E a \in Requests : ApprovalExpires(a)
    BY <1>5 DEF Environment, updateTenantConfig, recordReopen, SignalExpires,
                ingestTicketContext, routeStripeEvent, routeShopifyEvent,
                handleTicketDeleted
  <2>3. ASSUME NEW a \in Requests, ApprovalExpires(a)
        PROVE  UNCHANGED <<factVars, pc, facts, mildest>>
    BY <2>3 DEF ApprovalExpires, requestVars
  <2> QED BY <1>3, <2>1, <2>2, <2>3, FactsPreservedByChange
<1>6. CASE UNCHANGED actionVars
  BY <1>3, <1>6 DEF actionVars, requestVars
<1> QED BY <1>1, <1>2, <1>3, <1>4, <1>5, <1>6 DEF Next, ServerStep

(***************************************************************************)
(* Facts that a handler has read are no milder than the mildest there were *)
(* while it read them.                                                     *)
(***************************************************************************)
THEOREM FactsBounded == Spec => [](AInv /\ FactsInv)
BY InitInv, NextInv, FactsInit, FactsPreserved, PTL DEF Spec

-----------------------------------------------------------------------------
LEMMA OutcomesOrdered ==
  ASSUME NEW in \in PolicyInput
  PROVE  evaluate(in) \in PolicyOutcome /\ Strictness[evaluate(in)] \in {0, 1, 2}
BY EvaluateIsRuling DEF Ruling, NeedsApproval, PolicyOutcome, Strictness

LEMMA SetMinOfStrictness ==
  ASSUME NEW S \in SUBSET {0, 1, 2}, NEW x \in S
  PROVE  SetMin(S) \in {0, 1, 2} /\ SetMin(S) <= x
<1>1. \E z \in S : \A w \in S : z <= w
  <2>1. CASE 0 \in S
    BY <2>1
  <2>2. CASE 0 \notin S /\ 1 \in S
    BY <2>2
  <2>3. CASE 0 \notin S /\ 1 \notin S
    BY <2>3
  <2> QED BY <2>1, <2>2, <2>3
<1> QED BY <1>1 DEF SetMin

\* The policy on the facts of a request is at least as strict as on the mildest.
LEMMA DecisionIsNoMilder ==
  ASSUME AInv, FactsInv, NEW q \in Requests, pc[q] = "evidence",
         NEW r \in LatestRows
  PROVE  LET in == Input(sent[q].ask, facts[q].config, facts[q].unavailable,
                         facts[q].severity, r.amount)
         IN  /\ evaluate(in) \in PolicyOutcome
             /\ MildestOutcome(q) \in {0, 1, 2}
             /\ MildestOutcome(q) <= Strictness[evaluate(in)]
<1> DEFINE m == mildest[q]
           f == facts[q]
           ask == sent[q].ask
           in == Input(ask, f.config, f.unavailable, f.severity, r.amount)
           Mild(enabled) ==
             Input(ask, [approvalsEnabled |-> enabled, threshold |-> m.threshold],
                   m.unavailable, m.severity, m.amount)
           outcomes == {Strictness[evaluate(Mild(enabled))] : enabled \in m.approvals}
<1> SUFFICES /\ evaluate(in) \in PolicyOutcome
             /\ MildestOutcome(q) \in {0, 1, 2}
             /\ MildestOutcome(q) <= Strictness[evaluate(in)]
  OBVIOUS
<1>1. /\ m \in MildType /\ f \in FactsType
      /\ Bounds(m, tenantConfig, computeAbuseSeverity, LatestRows)
      /\ ReadOK("evidence", f, m)
  BY DEF FactsInv, QueriesOK, Deciding
<1>2. r \in [amount : Nat, unavailable : BOOLEAN]
  BY RowsArePair DEF AInv, TypeOK, FactsTyped, EvidenceTable
<1>3. ask \in Asks /\ ask.actionType \in ActionType
  BY SentType, ActionsAssumption DEF AInv, HandlersOK, AskType
<1>4. /\ f.config.approvalsEnabled \in m.approvals
      /\ f.config.threshold <= m.threshold
      /\ m.unavailable => f.unavailable
      /\ Severity[m.severity] <= Severity[f.severity]
      /\ m.amount <= r.amount
  BY <1>1 DEF ReadOK, Bounds, ConfigBound, SeverityBound, RowBound
<1>5. ASSUME NEW enabled \in BOOLEAN PROVE Mild(enabled) \in PolicyInput
  BY <1>1, <1>3 DEF Input, computeDegradedState, PolicyInput, MildType, DegradedState
<1>6. in \in PolicyInput
  BY <1>1, <1>2, <1>3
  DEF Input, computeDegradedState, PolicyInput, FactsType, DegradedState
<1>7. f.config.approvalsEnabled \in BOOLEAN
  BY <1>1 DEF FactsType
<1>8. AtLeastAsBad(in, Mild(f.config.approvalsEnabled))
  BY <1>1, <1>2, <1>4
  DEF AtLeastAsBad, Input, computeDegradedState, Degradation, MildType, FactsType
<1> HIDE DEF in, Mild
<1>9. Strictness[evaluate(Mild(f.config.approvalsEnabled))] <= Strictness[evaluate(in)]
  BY <1>5, <1>6, <1>7, <1>8, WorseIsNeverLaxer, OutcomesOrdered
<1>10. outcomes \in SUBSET {0, 1, 2}
  BY <1>1, <1>5, OutcomesOrdered DEF MildType
<1>11. Strictness[evaluate(Mild(f.config.approvalsEnabled))] \in outcomes
  BY <1>4
<1>12. MildestOutcome(q) = SetMin(outcomes)
  BY DEF MildestOutcome, Mild
<1>13. Strictness[evaluate(in)] \in {0, 1, 2} /\ evaluate(in) \in PolicyOutcome
  BY <1>6, OutcomesOrdered
<1> HIDE DEF outcomes
<1>14. /\ SetMin(outcomes) \in {0, 1, 2}
       /\ SetMin(outcomes) <= Strictness[evaluate(Mild(f.config.approvalsEnabled))]
       /\ Strictness[evaluate(Mild(f.config.approvalsEnabled))] \in {0, 1, 2}
  BY <1>10, <1>11, SetMinOfStrictness
<1> QED BY <1>9, <1>12, <1>13, <1>14

(***************************************************************************)
(* Although its facts are read by queries of their own while webhooks and  *)
(* operators change them, no decision is milder than the policy's for the  *)
(* mildest facts since the request arrived (initiateAction).               *)
(***************************************************************************)
THEOREM TornReadsAreSafe == Spec => NotMilderThanFacts
<1> DEFINE NoMilder ==
      \A q \in Requests : pc[q] = "evidence" =>
        /\ pc'[q] = "create" => MildestOutcome(q) = 0
        /\ pc'[q] = "approve" => MildestOutcome(q) <= 1
<1>1. ASSUME AInv, FactsInv, [Next]_actionVars PROVE NoMilder
  <2>0. pc \in [Requests -> PCs]
    BY <1>1 DEF AInv, TypeOK
  <2>1. SUFFICES ASSUME NEW q \in Requests, pc[q] = "evidence",
                        pc'[q] \in {"create", "approve"}
                 PROVE  /\ pc'[q] = "create" => MildestOutcome(q) = 0
                        /\ pc'[q] = "approve" => MildestOutcome(q) <= 1
    OBVIOUS
  <2>2. readEvidenceAndEvaluate(q)
    <3>1. ASSUME NEW p \in Requests, NEW k \in Keys, NEW a \in Asks, receive(p, k, a)
          PROVE  FALSE
      BY <2>0, <2>1, <3>1 DEF receive, Goto
    <3>2. ASSUME NEW d \in Decisions, DecisionStep(d) PROVE UNCHANGED pc
      BY <3>2 DEF DecisionStep, beginDecision, grant, deny, requestVars
    <3>3. ASSUME Environment PROVE UNCHANGED pc
      BY <3>3 DEF Environment, updateTenantConfig, recordReopen, SignalExpires,
                  ingestTicketContext, routeStripeEvent, routeShopifyEvent,
                  handleTicketDeleted, ApprovalExpires, FactsChange, requestVars
    <3>4. ASSUME NEW p \in Requests, HandlerStep(p) PROVE readEvidenceAndEvaluate(q)
      <4>1. \E label : pc' = [pc EXCEPT ![p] = label]
        BY <3>4 DEF HandlerStep, lookup, replayKnownKey, readConfig,
                    readDegradedState, readAbuseSeverity, Read,
                    readEvidenceAndEvaluate, createActionExecution,
                    resolveUniqueViolation, createApprovalRequest, faultInHandler,
                    Fault, Answer, Goto
      <4>2. p = q
        BY <2>0, <2>1, <4>1
      <4>3. ~faultInHandler(q)
        BY <2>0, <2>1 DEF faultInHandler, Fault, Answer, Goto
      <4> QED BY <2>1, <3>4, <4>2, <4>3
              DEF HandlerStep, lookup, readConfig, readDegradedState,
                  readAbuseSeverity, Read, createActionExecution,
                  resolveUniqueViolation, createApprovalRequest
    <3>5. CASE UNCHANGED actionVars
      BY <2>1, <3>5 DEF actionVars, requestVars
    <3> QED BY <1>1, <2>1, <3>1, <3>2, <3>3, <3>4, <3>5 DEF Next, ServerStep
  <2>3. PICK r \in LatestRows :
          LET outcome == evaluate(Input(sent[q].ask, facts[q].config,
                                        facts[q].unavailable, facts[q].severity,
                                        r.amount))
          IN  \/ outcome = "DENY" /\ Answer(q, "DENY", {})
              \/ /\ outcome # "DENY"
                 /\ Goto(q, IF outcome = "ALLOW" THEN "create" ELSE "approve")
    BY <2>2 DEF readEvidenceAndEvaluate
  <2> DEFINE outcome == evaluate(Input(sent[q].ask, facts[q].config,
                                       facts[q].unavailable, facts[q].severity,
                                       r.amount))
  <2>4. /\ outcome \in PolicyOutcome
        /\ MildestOutcome(q) \in {0, 1, 2}
        /\ MildestOutcome(q) <= Strictness[outcome]
    BY <1>1, <2>1, DecisionIsNoMilder
  <2> HIDE DEF outcome
  <2>5. /\ outcome # "DENY"
        /\ pc'[q] = IF outcome = "ALLOW" THEN "create" ELSE "approve"
    BY <2>0, <2>1, <2>3 DEF outcome, Answer, Goto
  <2> QED BY <2>4, <2>5 DEF PolicyOutcome, Strictness
<1>2. AInv /\ FactsInv /\ [Next]_actionVars => [NoMilder]_actionVars
  BY <1>1
<1> QED BY <1>2, FactsBounded, PTL DEF Spec, NotMilderThanFacts
-----------------------------------------------------------------------------
(***************************************************************************)
(* Actions implements SubmissionContract.                                  *)
(***************************************************************************)
\* A handler that goes on, or answers anything but ALLOW, without writing a
\* table, is not seen.
LEMMA QuietStep ==
  ASSUME AInv, NEW q \in Requests, pc[q] \notin {"unsent", "answered"},
         UNCHANGED <<tableVars, sent>>,
         \/ UNCHANGED reply /\ \E label \in PCs \ {"unsent"} : Goto(q, label)
         \/ \E outcome \in (PolicyOutcome \cup {"ERROR"}) \ {"ALLOW"},
               execution \in SUBSET ExecutionId : Answer(q, outcome, execution)
  PROVE  UNCHANGED Contract!contractVars
<1>1. \A p \in Requests : pc'[p] = "unsent" <=> pc[p] = "unsent"
  BY DEF AInv, TypeOK, Goto, Answer
<1>2. \A p \in Requests : reply'[p].outcome = "ALLOW" <=> reply[p].outcome = "ALLOW"
  <2>1. CASE UNCHANGED reply
    BY <2>1
  <2>2. ASSUME NEW outcome \in (PolicyOutcome \cup {"ERROR"}) \ {"ALLOW"},
               NEW execution \in SUBSET ExecutionId, Answer(q, outcome, execution)
        PROVE  \A p \in Requests :
                 reply'[p].outcome = "ALLOW" <=> reply[p].outcome = "ALLOW"
    <3>1. reply'[q].outcome # "ALLOW" /\ \A p \in Requests \ {q} : reply'[p] = reply[p]
      BY <2>2, AnswerTypes DEF AInv
    <3>2. reply[q].outcome # "ALLOW"
      BY DEF AInv, HandlersOK
    <3> QED BY <3>1, <3>2
  <2> QED BY <2>1, <2>2
<1>3. Submitted' = Submitted /\ Told' = Told
  BY <1>1, <1>2 DEF Submitted, Told
<1>4. Done' = Done /\ Granted' = Granted /\ Asked' = Asked
  BY DEF Done, Granted, Asked, PerformedUnder, tableVars
<1> QED BY <1>3, <1>4 DEF Contract!contractVars, tableVars

\* The first ALLOW of a handler adds its key to those that were told.
LEMMA AllowTells ==
  ASSUME AInv, NEW q \in Requests, NEW k \in Keys, k = sent[q].key,
         pc[q] \notin {"unsent", "answered"}, UNCHANGED sent,
         NEW execution \in SUBSET ExecutionId, Answer(q, "ALLOW", execution)
  PROVE  Told' = Told \cup {k} /\ Submitted' = Submitted
<1>1. /\ pc' = [pc EXCEPT ![q] = "answered"]
      /\ reply'[q].outcome = "ALLOW" /\ \A p \in Requests \ {q} : reply'[p] = reply[p]
  BY AnswerTypes DEF AInv, PolicyOutcome
<1>2. {p \in Requests : reply'[p].outcome = "ALLOW"}
        = {p \in Requests : reply[p].outcome = "ALLOW"} \cup {q}
  BY <1>1
<1>3. Told' = Told \cup {k}
  BY <1>2 DEF Told
<1>4. \A p \in Requests : pc'[p] = "unsent" <=> pc[p] = "unsent"
  BY <1>1 DEF AInv, TypeOK
<1>5. Submitted' = Submitted
  BY <1>4 DEF Submitted
<1> QED BY <1>3, <1>5

\* The handler that finds its key known tells what was done under it.
LEMMA ReplayTells ==
  ASSUME AInv, NEW q \in Requests, pc[q] \notin {"unsent", "answered"},
         NEW e \in findExecutionByIdempotencyKey(ClientKey(sent[q].key)),
         Answer(q, "ALLOW", {e.id}), UNCHANGED <<tableVars, sent>>
  PROVE  \E k \in Keys : Contract!Tell(k)
<1>1. PICK k \in Keys : k = sent[q].key
  BY SentType DEF AInv, HandlersOK
<1>2. e \in executions /\ e.key = ClientKey(k)
  BY <1>1 DEF findExecutionByIdempotencyKey
<1>3. {e.id} \in SUBSET ExecutionId
  BY <1>2 DEF AInv, TypeOK, ActionExecution
<1>4. Told' = Told \cup {k} /\ Submitted' = Submitted
  BY <1>1, <1>3, AllowTells
<1>5. Done[k] # {}
  BY <1>2 DEF Done, PerformedUnder
<1>6. Done' = Done /\ Granted' = Granted /\ Asked' = Asked
  BY DEF Done, Granted, Asked, PerformedUnder, tableVars
<1>7. Contract!Tell(k)
  BY <1>4, <1>5, <1>6 DEF Contract!Tell, tableVars
<1> QED BY <1>7

\* A new execution under the key of a client performs what was submitted.
LEMMA CreatePerforms ==
  ASSUME AInv, NEW q \in Requests, createActionExecution(q)
  PROVE  \/ \E k \in Keys, x \in Asks : Contract!Perform(k, x)
         \/ UNCHANGED Contract!contractVars
<1>0. pc[q] = "create" /\ UNCHANGED <<approval, expired, sent>>
  BY DEF createActionExecution
<1>1. PICK k \in Keys, x \in Asks : k = sent[q].key /\ x = sent[q].ask
  BY <1>0, SentType DEF AInv, HandlersOK
<1>2. CASE UNCHANGED executions
           /\ \/ Goto(q, "resolve") /\ UNCHANGED reply
              \/ Answer(q, "ERROR", {})
  BY <1>0, <1>2, QuietStep DEF PCs, tableVars
<1>3. ASSUME ~KeyTaken(ClientKey(k)),
             NEW e, e = [id |-> ByRequest(q), key |-> ClientKey(k), ask |-> x,
                         approval |-> {}],
             executions' = executions \cup {e},
             Answer(q, "ALLOW", {e.id}) \/ Fault(q)
      PROVE  Contract!Perform(k, x)
  <2>1. e.key = ClientKey(k) /\ e.ask = x /\ e.id = ByRequest(q)
    BY <1>3
  <2>2. {e.id} \in SUBSET ExecutionId
    BY <2>1 DEF ExecutionId
  <2>3. sent[q] = [key |-> k, ask |-> x] /\ [key |-> k, ask |-> x] \in Submitted
    <3>1. sent[q] \in [key : Keys, ask : Asks]
      BY <1>0 DEF AInv, TypeOK, HandlersOK
    <3>2. sent[q] = [key |-> k, ask |-> x]
      BY <1>1, <3>1
    <3> QED BY <1>0, <3>2 DEF Submitted
  <2>4. PerformedUnder(ClientKey(k)) = {} /\ PerformedUnder(ClientKey(k))' = {x}
    BY <1>3, <2>1 DEF PerformedUnder, KeyTaken
  <2>5. ASSUME NEW j \in Keys \ {k}
        PROVE  PerformedUnder(ClientKey(j))' = PerformedUnder(ClientKey(j))
    BY <1>3, <2>1 DEF PerformedUnder, ClientKey
  <2>6. Done[k] = {} /\ Done' = [Done EXCEPT ![k] = {x}]
    BY <2>4, <2>5 DEF Done
  <2>7. Granted' = Granted
    <3>1. ASSUME NEW a \in Requests
          PROVE  PerformedUnder(ApprovalKey(a))' = PerformedUnder(ApprovalKey(a))
      BY <1>3, <2>1, KeysDiffer DEF PerformedUnder
    <3> QED BY <3>1 DEF Granted
  <2>8. Asked' = Asked
    BY <1>0 DEF Asked
  <2>9. Told' \in {Told, Told \cup {k}} /\ Submitted' = Submitted
    <3>1. CASE Answer(q, "ALLOW", {e.id})
      BY <1>0, <1>1, <2>2, <3>1, AllowTells
    <3>2. CASE Answer(q, "ERROR", {})
      <4>1. /\ pc' = [pc EXCEPT ![q] = "answered"] /\ reply'[q].outcome # "ALLOW"
            /\ \A p \in Requests \ {q} : reply'[p] = reply[p]
        BY <3>2, AnswerTypes DEF AInv
      <4>2. \A p \in Requests : reply'[p].outcome = "ALLOW" <=> reply[p].outcome = "ALLOW"
        BY <1>0, <4>1 DEF AInv, HandlersOK
      <4>3. \A p \in Requests : pc'[p] = "unsent" <=> pc[p] = "unsent"
        BY <1>0, <4>1 DEF AInv, TypeOK
      <4> QED BY <1>0, <4>2, <4>3 DEF Told, Submitted
    <3> QED BY <1>3, <3>1, <3>2 DEF Fault
  <2> QED BY <1>0, <2>3, <2>6, <2>7, <2>8, <2>9 DEF Contract!Perform
<1>4. CASE /\ ~KeyTaken(ClientKey(sent[q].key))
           /\ executions' = executions \cup
                {[id |-> ByRequest(q), key |-> ClientKey(sent[q].key),
                  ask |-> sent[q].ask, approval |-> {}]}
           /\ Answer(q, "ALLOW", {ByRequest(q)}) \/ Fault(q)
  <2>1. PICK e : e = [id |-> ByRequest(q), key |-> ClientKey(k), ask |-> x,
                      approval |-> {}]
    OBVIOUS
  <2>2. e.id = ByRequest(q) /\ executions' = executions \cup {e}
    BY <1>1, <1>4, <2>1
  <2>3. Contract!Perform(k, x)
    BY <1>1, <1>3, <1>4, <2>1, <2>2
  <2> QED BY <2>3
<1> QED BY <1>2, <1>4 DEF createActionExecution, Fault
\* A request for approval is for what was submitted.
LEMMA ApprovalAsks ==
  ASSUME AInv, NEW q \in Requests, createApprovalRequest(q)
  PROVE  \E x \in Asks : Contract!AskApproval(q, x)
<1>1. /\ pc[q] = "approve" /\ approval[q] = "ABSENT"
      /\ approval' = [approval EXCEPT ![q] = "PENDING"]
      /\ UNCHANGED <<executions, expired, sent>>
  BY DEF createApprovalRequest, AInv, HandlersOK
<1>2. PICK k \in Keys, x \in Asks : sent[q] = [key |-> k, ask |-> x]
  <2>1. sent[q] \in [key : Keys, ask : Asks]
    BY <1>1 DEF AInv, TypeOK, HandlersOK
  <2> QED BY <2>1
<1>3. PICK outcome \in {"REQUIRES_APPROVAL", "ERROR"} : Answer(q, outcome, {})
  BY DEF createApprovalRequest, Fault
<1>4. /\ pc' = [pc EXCEPT ![q] = "answered"] /\ reply'[q].outcome # "ALLOW"
      /\ \A p \in Requests \ {q} : reply'[p] = reply[p]
  BY <1>3, AnswerTypes DEF AInv, PolicyOutcome
<1>5. Told' = Told
  <2>1. \A p \in Requests : reply'[p].outcome = "ALLOW" <=> reply[p].outcome = "ALLOW"
    BY <1>1, <1>4 DEF AInv, HandlersOK
  <2> QED BY <1>1, <2>1 DEF Told
<1>6. Submitted' = Submitted /\ [key |-> k, ask |-> x] \in Submitted
  <2>1. \A p \in Requests : pc'[p] = "unsent" <=> pc[p] = "unsent"
    BY <1>1, <1>4 DEF AInv, TypeOK
  <2> QED BY <1>1, <1>2, <2>1 DEF Submitted
<1>7. Asked' = [Asked EXCEPT ![q] = {x}]
  <2>1. sent'[q].ask = x /\ approval'[q] = "PENDING"
    BY <1>1, <1>2 DEF AInv, TypeOK
  <2>2. \A p \in Requests \ {q} : approval'[p] = approval[p] /\ sent'[p] = sent[p]
    BY <1>1 DEF AInv, TypeOK
  <2> QED BY <2>1, <2>2 DEF Asked
<1>8. Done' = Done /\ Granted' = Granted
  BY <1>1 DEF Done, Granted, PerformedUnder
<1>9. Contract!AskApproval(q, x)
  BY <1>1, <1>5, <1>6, <1>7, <1>8 DEF Contract!AskApproval
<1> QED BY <1>9

LEMMA HandlerImplements ==
  ASSUME AInv, NEW q \in Requests, HandlerStep(q)
  PROVE  Contract!ContractNext \/ UNCHANGED Contract!contractVars
<1>1. CASE createActionExecution(q)
  BY <1>1, CreatePerforms DEF Contract!ContractNext
<1>2. CASE createApprovalRequest(q)
  BY <1>2, ApprovalAsks DEF Contract!ContractNext
<1>3. CASE lookup(q) \/ resolveUniqueViolation(q)
  <2>1. pc[q] \notin {"unsent", "answered"} /\ UNCHANGED <<tableVars, sent>>
    BY <1>3 DEF lookup, resolveUniqueViolation
  <2>2. ASSUME NEW e \in findExecutionByIdempotencyKey(ClientKey(sent[q].key)),
               Answer(q, "ALLOW", {e.id})
        PROVE  Contract!ContractNext
    BY <2>1, <2>2, ReplayTells DEF Contract!ContractNext
  <2>3. CASE UNCHANGED reply /\ Goto(q, "config")
    BY <2>1, <2>3, QuietStep DEF PCs
  <2>4. CASE Answer(q, "ERROR", {})
    BY <2>1, <2>4, QuietStep
  <2> QED BY <1>3, <2>2, <2>3, <2>4 DEF lookup, resolveUniqueViolation, replayKnownKey
<1>4. CASE readConfig(q) \/ readDegradedState(q) \/ readAbuseSeverity(q)
  <2>1. pc[q] \notin {"unsent", "answered"} /\ UNCHANGED <<tableVars, sent, reply>>
    BY <1>4 DEF readConfig, readDegradedState, readAbuseSeverity, Read
  <2>2. PICK label \in {"degraded", "abuse", "evidence"} : Goto(q, label)
    BY <1>4 DEF readConfig, readDegradedState, readAbuseSeverity, Read
  <2> QED BY <2>1, <2>2, QuietStep DEF PCs
<1>5. CASE readEvidenceAndEvaluate(q)
  <2>1. pc[q] \notin {"unsent", "answered"} /\ UNCHANGED <<tableVars, sent>>
    BY <1>5 DEF readEvidenceAndEvaluate
  <2>2. CASE Answer(q, "DENY", {})
    BY <2>1, <2>2, QuietStep DEF PolicyOutcome
  <2>3. ASSUME NEW label \in {"create", "approve"}, Goto(q, label), UNCHANGED reply
        PROVE  UNCHANGED Contract!contractVars
    BY <2>1, <2>3, QuietStep DEF PCs
  <2> QED BY <1>5, <2>2, <2>3 DEF readEvidenceAndEvaluate
<1>6. CASE faultInHandler(q)
  BY <1>6, QuietStep DEF faultInHandler, Fault
<1> QED BY <1>1, <1>2, <1>3, <1>4, <1>5, <1>6 DEF HandlerStep

\* A request that arrives submits its ask, and had none before.
LEMMA ReceiveSubmits ==
  ASSUME AInv, NEW q \in Requests, NEW k \in Keys, NEW x \in Asks, receive(q, k, x)
  PROVE  Contract!Submit(k, x)
<1>1. /\ pc[q] = "unsent" /\ pc' = [pc EXCEPT ![q] = "lookup"]
      /\ sent' = [sent EXCEPT ![q] = [key |-> k, ask |-> x]]
      /\ reply[q].outcome = "none" /\ approval[q] = "ABSENT"
      /\ UNCHANGED <<executions, approval, expired, reply>>
      /\ pc \in [Requests -> PCs]
      /\ sent \in [Requests -> [key : Keys, ask : Asks] \cup {NoRequest}]
  BY DEF receive, Goto, AInv, TypeOK, HandlersOK, tableVars
<1>2. Submitted' = Submitted \cup {[key |-> k, ask |-> x]}
  <2>1. {p \in Requests : pc'[p] # "unsent"} = {p \in Requests : pc[p] # "unsent"} \cup {q}
    BY <1>1
  <2>2. \A p \in {p \in Requests : pc[p] # "unsent"} : sent'[p] = sent[p]
    BY <1>1
  <2>3. sent'[q] = [key |-> k, ask |-> x]
    BY <1>1
  <2> QED BY <2>1, <2>2, <2>3 DEF Submitted
<1>3. Told' = Told
  BY <1>1 DEF Told
<1>4. Asked' = Asked
  BY <1>1 DEF Asked
<1>5. Done' = Done /\ Granted' = Granted
  BY <1>1 DEF Done, Granted, PerformedUnder
<1> QED BY <1>1, <1>2, <1>3, <1>4, <1>5 DEF Contract!Submit

\* Managers touch neither requests nor what was done under their keys.
LEMMA ManagersFrame ==
  ASSUME UNCHANGED requestVars
  PROVE  Submitted' = Submitted /\ Told' = Told
BY DEF Submitted, Told, requestVars

\* What is granted is what was asked for.
LEMMA GrantGrants ==
  ASSUME AInv, NEW d \in Decisions, NEW a \in Requests, UNCHANGED <<requestVars, expired>>,
         completeApprovalAndEnqueue(d, a)
  PROVE  Contract!Grant(a)
<1>1. /\ approval[a] = "PENDING" /\ a \notin expired
      /\ approval' = [approval EXCEPT ![a] = "APPROVED"]
      /\ approval \in [Requests -> ApprovalStatus \cup {"ABSENT"}]
  BY DEF completeApprovalAndEnqueue, Grantable, AInv, TypeOK
<1>2. PICK e : e = [id |-> ByDecision(d), key |-> ApprovalKey(a), ask |-> sent[a].ask,
                    approval |-> {a}]
  OBVIOUS
<1>3. e.key = ApprovalKey(a) /\ e.ask = sent[a].ask /\ executions' = executions \cup {e}
  BY <1>2 DEF completeApprovalAndEnqueue
<1>4. PerformedUnder(ApprovalKey(a)) = {}
      /\ PerformedUnder(ApprovalKey(a))' = {sent[a].ask}
  BY <1>1, <1>3 DEF PerformedUnder, AInv, ApprovalsOK
<1>5. ASSUME NEW b \in Requests \ {a}
      PROVE  PerformedUnder(ApprovalKey(b))' = PerformedUnder(ApprovalKey(b))
  BY <1>3, ApprovalKeysDiffer DEF PerformedUnder
<1>6. Asked[a] = {sent[a].ask} /\ Asked' = Asked
  <2>1. \A b \in Requests : approval'[b] = "ABSENT" <=> approval[b] = "ABSENT"
    BY <1>1
  <2> QED BY <1>1, <2>1 DEF Asked, requestVars
<1>7. Granted[a] = {} /\ Granted' = [Granted EXCEPT ![a] = Asked[a]]
  BY <1>4, <1>5, <1>6 DEF Granted
<1>8. Done' = Done
  <2>1. ASSUME NEW k \in Keys
        PROVE  PerformedUnder(ClientKey(k))' = PerformedUnder(ClientKey(k))
    BY <1>3, KeysDiffer DEF PerformedUnder
  <2> QED BY <2>1 DEF Done
<1> QED BY <1>1, <1>6, <1>7, <1>8, ManagersFrame DEF Contract!Grant

LEMMA DecisionImplements ==
  ASSUME AInv, NEW d \in Decisions, DecisionStep(d)
  PROVE  Contract!ContractNext \/ UNCHANGED Contract!contractVars
<1>1. CASE UNCHANGED <<executions, approval, expired, requestVars>>
  <2>1. Done' = Done /\ Granted' = Granted /\ Asked' = Asked
    BY <1>1 DEF Done, Granted, Asked, PerformedUnder, requestVars
  <2> QED BY <1>1, <2>1, ManagersFrame DEF Contract!contractVars
<1>2. CASE grant(d)
  <2>1. PICK a \in call[d].approval : completeApprovalAndEnqueue(d, a) \/ grantFails(d, a)
    BY <1>2 DEF grant
  <2>2. a \in Requests /\ UNCHANGED <<requestVars, expired>>
    BY <1>2 DEF grant, AInv, TypeOK, CallType
  <2>3. CASE completeApprovalAndEnqueue(d, a)
    BY <2>2, <2>3, GrantGrants DEF Contract!ContractNext
  <2>4. CASE grantFails(d, a)
    BY <1>1, <2>2, <2>4 DEF grantFails
  <2> QED BY <2>1, <2>3, <2>4
<1>3. CASE deny(d)
  <2>1. UNCHANGED <<executions, expired, requestVars>>
    BY <1>3 DEF deny
  <2>2. PICK a \in call[d].approval :
          \/ approval[a] = "PENDING" /\ approval' = [approval EXCEPT ![a] = "DENIED"]
          \/ UNCHANGED approval
    BY <1>3 DEF deny
  <2>3. a \in Requests /\ approval \in [Requests -> ApprovalStatus \cup {"ABSENT"}]
    BY DEF AInv, TypeOK, CallType
  <2>4. CASE approval[a] = "PENDING" /\ approval' = [approval EXCEPT ![a] = "DENIED"]
    <3>1. Asked' = Asked
      <4>1. \A b \in Requests : approval'[b] = "ABSENT" <=> approval[b] = "ABSENT"
        BY <2>3, <2>4
      <4> QED BY <2>1, <4>1 DEF Asked, requestVars
    <3>2. Done' = Done /\ Granted' = Granted
      BY <2>1 DEF Done, Granted, PerformedUnder
    <3>3. Contract!Deny(a)
      BY <2>1, <2>4, <3>1, <3>2, ManagersFrame DEF Contract!Deny
    <3> QED BY <2>3, <3>3 DEF Contract!ContractNext
  <2> QED BY <1>1, <2>1, <2>2, <2>4
<1>4. ASSUME NEW a \in Requests, NEW verb \in {"grant", "deny"}, beginDecision(d, a, verb)
      PROVE  UNCHANGED <<executions, approval, expired, requestVars>>
  BY <1>4 DEF beginDecision, tableVars
<1> QED BY <1>1, <1>2, <1>3, <1>4 DEF DecisionStep

\* The facts are not seen; time expires approvals.
LEMMA EnvironmentImplements ==
  ASSUME AInv, Environment
  PROVE  Contract!ContractNext \/ UNCHANGED Contract!contractVars
<1>1. UNCHANGED <<executions, approval, requestVars>>
  BY DEF Environment, updateTenantConfig, recordReopen, SignalExpires,
         ingestTicketContext, routeStripeEvent, routeShopifyEvent,
         handleTicketDeleted, ApprovalExpires, FactsChange, tableVars
<1>2. Done' = Done /\ Granted' = Granted /\ Asked' = Asked
  BY <1>1 DEF Done, Granted, Asked, PerformedUnder, requestVars
<1>3. CASE UNCHANGED expired
  BY <1>1, <1>2, <1>3, ManagersFrame DEF Contract!contractVars
<1>4. ASSUME NEW a \in Requests, ApprovalExpires(a) PROVE Contract!ContractNext
  <2>1. Contract!Expire(a)
    BY <1>1, <1>2, <1>4, ManagersFrame DEF Contract!Expire, ApprovalExpires
  <2> QED BY <2>1 DEF Contract!ContractNext
<1> QED BY <1>3, <1>4
        DEF Environment, updateTenantConfig, recordReopen, SignalExpires,
            ingestTicketContext, routeStripeEvent, routeShopifyEvent,
            handleTicketDeleted, FactsChange, tableVars

(***************************************************************************)
(* The action service implements SubmissionContract: for any number of     *)
(* retries, managers and faults, a key performs one of the asks submitted  *)
(* under it, nobody is told otherwise, and a grant performs, in the step   *)
(* that decides, exactly what was asked for (initiateAction, grant, deny). *)
(***************************************************************************)
THEOREM ServiceImplementsContract == Spec => ImplementsSubmissionContract
<1>1. Init => Contract!ContractInit
  <2> SUFFICES ASSUME Init PROVE Contract!ContractInit
    OBVIOUS
  <2>1. Submitted = {} /\ Told = {}
    BY DEF Init, Submitted, Told, NoReply
  <2>2. Done = [k \in Keys |-> {}] /\ Granted = [a \in Requests |-> {}]
    BY DEF Init, Done, Granted, PerformedUnder
  <2>3. Asked = [a \in Requests |-> {}]
    BY DEF Init, Asked
  <2> QED BY <2>1, <2>2, <2>3 DEF Init, Contract!ContractInit
<1>2. AInv /\ [Next]_actionVars => [Contract!ContractNext]_(Contract!contractVars)
  <2> SUFFICES ASSUME AInv, [Next]_actionVars
               PROVE  Contract!ContractNext \/ UNCHANGED Contract!contractVars
    OBVIOUS
  <2>1. ASSUME NEW q \in Requests, NEW k \in Keys, NEW x \in Asks, receive(q, k, x)
        PROVE  Contract!ContractNext
    <3>1. Contract!Submit(k, x)
      BY <2>1, ReceiveSubmits
    <3> QED BY <3>1 DEF Contract!ContractNext
  <2>2. CASE UNCHANGED actionVars
    <3>1. Done' = Done /\ Granted' = Granted /\ Asked' = Asked
      BY <2>2 DEF Done, Granted, Asked, PerformedUnder, requestVars, tableVars, actionVars
    <3> QED BY <2>2, <3>1, ManagersFrame DEF Contract!contractVars, actionVars, tableVars
  <2> QED BY <2>1, <2>2, HandlerImplements, DecisionImplements, EnvironmentImplements
          DEF Next, ServerStep
<1> QED BY <1>1, <1>2, Invariance, PTL
        DEF Spec, ImplementsSubmissionContract, Contract!ContractSpec
=============================================================================
