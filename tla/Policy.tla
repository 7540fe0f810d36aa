------------------------------- MODULE Policy -------------------------------
(***************************************************************************)
(* The policy engine, packages/policy/src/engine.ts: a table of rules, of  *)
(* which the first that matches decides.  Pure definitions, no state.      *)
(*                                                                         *)
(* An input carries what some rule reads.  evidenceFresh, matchBand and    *)
(* reopenCountInWindow are passed by the code and read by no rule; the     *)
(* texts of a denial are left out.  A missing amount counts as 0.          *)
(***************************************************************************)
EXTENDS Effects, Naturals

ActionRiskTier == {"HIGH", "MEDIUM", "LOW"}
AbuseSeverity == {"HIGH", "MEDIUM", "NONE"}
DegradedState ==
  {"NOMINAL", "DEGRADED_STALE", "DEGRADED_UNAVAILABLE", "SOURCE_TOMBSTONED"}
PolicyOutcome == {"ALLOW", "REQUIRES_APPROVAL", "DENY"}

PolicyInput ==
  [actionType : ActionType, degradedState : DegradedState,
   abuseSeverity : AbuseSeverity, refundAmountCents : Nat,
   isSourceUnavailable : BOOLEAN, approvalsEnabled : BOOLEAN, threshold : Nat]

ACTION_RISK_TIERS ==
  [a \in ActionType |->
     IF a \in {"issue_refund", "close_confirmed"} THEN "HIGH"
     ELSE IF a \in {"escalate_missing", "update_pending", "reopen_issue"}
          THEN "MEDIUM" ELSE "LOW"]

-----------------------------------------------------------------------------
Rule(id, states, tiers, severities, outcome) ==
  [id |-> id, degradedStates |-> states, riskTiers |-> tiers,
   abuseSeverities |-> severities, outcome |-> outcome]

POLICY_RULES ==
  <<Rule("abuse_high_risk_high_deny",
         DegradedState, {"HIGH"}, {"HIGH"}, "DENY"),
    Rule("tombstone_high_risk_deny",
         {"SOURCE_TOMBSTONED"}, {"HIGH"}, AbuseSeverity, "DENY"),
    Rule("degraded_unavailable_high_risk",
         {"DEGRADED_UNAVAILABLE"}, {"HIGH"}, AbuseSeverity, "REQUIRES_APPROVAL"),
    Rule("amount_threshold_requires_approval",
         DegradedState, {"HIGH"}, {"NONE", "MEDIUM"}, "REQUIRES_APPROVAL"),
    Rule("degraded_stale_high_risk_allow",
         {"DEGRADED_STALE"}, {"HIGH"}, {"NONE"}, "ALLOW"),
    Rule("medium_risk_high_abuse",
         DegradedState, {"MEDIUM"}, {"HIGH"}, "REQUIRES_APPROVAL"),
    Rule("low_risk_allow",
         DegradedState, {"LOW"}, AbuseSeverity, "ALLOW"),
    Rule("nominal_medium_high_allow",
         {"NOMINAL", "DEGRADED_STALE"}, {"MEDIUM", "HIGH"}, {"NONE", "MEDIUM"},
         "ALLOW"),
    Rule("catch_all_default",
         DegradedState, ActionRiskTier, AbuseSeverity, "REQUIRES_APPROVAL")>>

\* (mutant) The threshold counts only when there is no abuse at all.
when_ThresholdWithoutAbuse(id, in) ==
  /\ id = "tombstone_high_risk_deny" => in.isSourceUnavailable
  /\ id = "amount_threshold_requires_approval" =>
       in.refundAmountCents > in.threshold /\ in.abuseSeverity = "NONE"
  /\ id = "degraded_stale_high_risk_allow" => ~in.isSourceUnavailable

\* The extra predicate three of the rules have.
when(id, in) ==
  /\ id = "tombstone_high_risk_deny" => in.isSourceUnavailable
  /\ id = "amount_threshold_requires_approval" =>
       in.refundAmountCents > in.threshold
  /\ id = "degraded_stale_high_risk_allow" => ~in.isSourceUnavailable

matchesRule(rule, in) ==
  /\ in.degradedState \in rule.degradedStates
  /\ ACTION_RISK_TIERS[in.actionType] \in rule.riskTiers
  /\ in.abuseSeverity \in rule.abuseSeverities
  /\ when(rule.id, in)

\* The first rule that matches.
Decides(in) ==
  CHOOSE k \in 1..9 :
    /\ matchesRule(POLICY_RULES[k], in)
    /\ \A j \in 1..9 : j < k => ~matchesRule(POLICY_RULES[j], in)

remapRequiresApprovalWithoutToggle(tier) ==
  IF tier = "HIGH" THEN "DENY" ELSE "ALLOW"

evaluate(in) ==
  LET outcome == POLICY_RULES[Decides(in)].outcome
  IN  IF outcome = "REQUIRES_APPROVAL" /\ ~in.approvalsEnabled
      THEN remapRequiresApprovalWithoutToggle(ACTION_RISK_TIERS[in.actionType])
      ELSE outcome

-----------------------------------------------------------------------------
(***************************************************************************)
(* How strict an outcome is, and when the facts of one input are at least  *)
(* as bad as those of another.                                             *)
(***************************************************************************)
Strictness == [ALLOW |-> 0, REQUIRES_APPROVAL |-> 1, DENY |-> 2]
Severity == [NONE |-> 0, MEDIUM |-> 1, HIGH |-> 2]
Degradation ==
  [NOMINAL |-> 0, DEGRADED_STALE |-> 1, DEGRADED_UNAVAILABLE |-> 2,
   SOURCE_TOMBSTONED |-> 3]

AtLeastAsBad(worse, in) ==
  /\ worse.actionType = in.actionType
  /\ worse.approvalsEnabled = in.approvalsEnabled
  /\ Severity[worse.abuseSeverity] >= Severity[in.abuseSeverity]
  /\ Degradation[worse.degradedState] >= Degradation[in.degradedState]
  /\ in.isSourceUnavailable => worse.isSourceUnavailable
  /\ worse.refundAmountCents >= in.refundAmountCents
  /\ worse.threshold <= in.threshold
=============================================================================
