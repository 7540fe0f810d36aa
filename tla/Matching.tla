------------------------------ MODULE Matching ------------------------------
(***************************************************************************)
(* The matching engine (packages/matching/src/index.ts) and the facts the  *)
(* API hands to it (apps/api/src/services/matching.ts).                    *)
(*                                                                         *)
(* Scores are integers in units of 1/10000: every weight and every product *)
(* of a weight in the code is a multiple of that unit, and computeMatch    *)
(* rounds its result to it.  Amounts are cents, times are hours.           *)
(* Currencies and states of a record are compared trimmed and in lower     *)
(* case, so values that differ in that only are one value here.            *)
(***************************************************************************)
EXTENDS Integers

CONSTANTS
  None,       \* null, undefined or blank
  Ids,        \* order and charge references as they are stored
  Canonical   \* trimmed and in lower case, None if nothing is left

Maybe(S) == S \cup {None}

Currency == {"usd", "eur"}
RefundStatus == {"succeeded", "pending", "failed"}
FinancialStatus == {"paid", "partially_refunded", "refunded"}

\* Facts a provider or a ticket states.
EvidenceFacts ==
  [refundAmountCents : Maybe(Nat), orderTotalCents : Maybe(Nat),
   currency : Maybe(Currency),
   refundStatus : Maybe(RefundStatus),
   financialStatus : Maybe(FinancialStatus),
   chargeId : Maybe(Ids), orderId : Maybe(Ids),
   ticketOrderReference : Maybe(Ids),
   refundCreatedAt : Maybe(Nat), orderCreatedAt : Maybe(Nat),
   ticketCreatedAt : Maybe(Nat),
   isSourceUnavailable : BOOLEAN]

MatchConfig == [amountTolerancePct : Nat, timingWindowHours : Nat]

ASSUME MatchingAssumption ==
  /\ None \notin Nat \cup Ids \cup Currency \cup RefundStatus \cup FinancialStatus
  /\ Canonical \in [Ids -> Ids \cup {None}]

Outcome == {"agree", "disagree", "absent"}
Signal == [outcome : Outcome, contribution : Int]

agree(w)    == [outcome |-> "agree",    contribution |-> w]
disagree(w) == [outcome |-> "disagree", contribution |-> -w]
absent      == [outcome |-> "absent",   contribution |-> 0]

WEIGHTS ==
  [chargeLinkage |-> 3000, amount |-> 2500, currency |-> 1000,
   refundStatus |-> 2000, timing |-> 1500]

SOURCE_UNAVAILABLE_CEILING == 7900
DISAGREEING_IDENTIFIER_CEILING == 2000

normalizeId(id) == IF id = None THEN None ELSE Canonical[id]

\* An order or charge reference that is either record's identifier, or not.
chargeLinkageSignal(facts) ==
  LET reference == normalizeId(facts.ticketOrderReference)
      known == {normalizeId(facts.orderId), normalizeId(facts.chargeId)} \ {None}
  IN IF reference = None \/ known = {} THEN absent
     ELSE IF reference \in known THEN agree(WEIGHTS.chargeLinkage)
     ELSE disagree(WEIGHTS.chargeLinkage)

Abs(n) == IF n < 0 THEN -n ELSE n

\* Four fifths of the weight within the tolerance; a partial refund costs two
\* fifths, one above the total all of it.
amountSignal(facts, config) ==
  LET refund == facts.refundAmountCents
      total == facts.orderTotalCents
  IN IF refund = None \/ total = None \/ total = 0 THEN absent
     ELSE IF refund = total THEN agree(WEIGHTS.amount)
     ELSE IF Abs(refund - total) * 100 <= config.amountTolerancePct * total
       THEN agree(2000)
     ELSE IF refund < total THEN disagree(1000)
     ELSE disagree(WEIGHTS.amount)

currencySignal(facts) ==
  IF facts.currency = None THEN absent ELSE agree(WEIGHTS.currency)

\* (mutant) A refund that is pending counts as made.
refundStatusSignal_PendingCounts(facts) ==
  IF facts.refundStatus = None THEN absent
  ELSE IF facts.refundStatus = "failed" THEN disagree(WEIGHTS.refundStatus)
  ELSE IF facts.financialStatus \in {"refunded", "partially_refunded"}
    THEN agree(WEIGHTS.refundStatus)
    ELSE agree(1400)

\* Seven tenths of the weight while the order is not marked refunded.
refundStatusSignal(facts) ==
  IF facts.refundStatus \in {None, "pending"} THEN absent
  ELSE IF facts.refundStatus # "succeeded" THEN disagree(WEIGHTS.refundStatus)
  ELSE IF facts.financialStatus \in {"refunded", "partially_refunded"}
    THEN agree(WEIGHTS.refundStatus)
    ELSE agree(1400)

timingSignal(facts, config) ==
  LET reference == IF facts.ticketCreatedAt # None THEN facts.ticketCreatedAt
                   ELSE facts.orderCreatedAt
  IN IF facts.refundCreatedAt = None \/ reference = None THEN absent
     ELSE IF Abs(facts.refundCreatedAt - reference) <= config.timingWindowHours
       THEN agree(WEIGHTS.timing)
     ELSE disagree(750)

clamp(n, lo, hi) == IF n < lo THEN lo ELSE IF n > hi THEN hi ELSE n
AtMost(n, ceiling) == IF n > ceiling THEN ceiling ELSE n

\* confidence_score before the column type: clamp, then both ceilings.
confidenceScore(facts, config) ==
  LET linkage == chargeLinkageSignal(facts)
      raw == linkage.contribution + amountSignal(facts, config).contribution
             + currencySignal(facts).contribution
             + refundStatusSignal(facts).contribution
             + timingSignal(facts, config).contribution
      score == clamp(raw, 0, 10000)
      linked == IF linkage.outcome = "disagree"
                THEN AtMost(score, DISAGREEING_IDENTIFIER_CEILING) ELSE score
  IN IF facts.isSourceUnavailable
     THEN AtMost(linked, SOURCE_UNAVAILABLE_CEILING) ELSE linked

MatchBand == {"EXACT", "HIGH", "MEDIUM", "LOW", "NO_MATCH"}

bandFor(score) ==
  IF score >= 9800 THEN "EXACT"
  ELSE IF score >= 8500 THEN "HIGH"
  ELSE IF score >= 7000 THEN "MEDIUM"
  ELSE IF score >= 5000 THEN "LOW"
  ELSE "NO_MATCH"

computeMatch(facts, config) == bandFor(confidenceScore(facts, config))

-----------------------------------------------------------------------------
(* The facts of an issue.  A row is None when its source has none; the two *)
(* sources have one row each.                                              *)

StripeRow ==
  [chargeId : Ids, refundStatus : Maybe(RefundStatus),
   refundAmountCents : Maybe(Nat), currency : Maybe(Currency),
   fetchedAt : Nat, isSourceUnavailable : BOOLEAN]
ShopifyRow ==
  [orderId : Ids, orderTotal : Maybe(Nat), currency : Maybe(Currency),
   financialStatus : Maybe(FinancialStatus),
   fetchedAt : Nat, isSourceUnavailable : BOOLEAN]

\* a ?? b
Or(a, b) == IF a = None THEN b ELSE a

\* The reference of the ticket is the order's own identifier, and without an
\* order the charge's: nothing is read from the ticket.  The times of the
\* records are the times they were read at.
buildFacts(stripe, shopify, ticketCreatedAt) ==
  LET Of(row, value) == IF row = None THEN None ELSE value
      orderId == Of(shopify, shopify.orderId)
      chargeId == Of(stripe, stripe.chargeId)
  IN [refundAmountCents |-> Of(stripe, stripe.refundAmountCents),
      orderTotalCents |-> Of(shopify, shopify.orderTotal),
      currency |-> Or(Of(stripe, stripe.currency), Of(shopify, shopify.currency)),
      refundStatus |-> Of(stripe, stripe.refundStatus),
      financialStatus |-> Of(shopify, shopify.financialStatus),
      chargeId |-> chargeId,
      orderId |-> orderId,
      ticketOrderReference |-> Or(orderId, chargeId),
      refundCreatedAt |-> Of(stripe, stripe.fetchedAt),
      orderCreatedAt |-> Of(shopify, shopify.fetchedAt),
      ticketCreatedAt |-> ticketCreatedAt,
      isSourceUnavailable |->
        \/ stripe # None /\ stripe.isSourceUnavailable
        \/ shopify # None /\ shopify.isSourceUnavailable]

\* The configuration recomputeMatchForIssue uses: the window is not configurable.
MatchConfigOf(tolerance) ==
  [amountTolerancePct |-> tolerance, timingWindowHours |-> 72]

-----------------------------------------------------------------------------
(* Properties, of any facts and configuration.                             *)

\* A high band says that the refund is established: an identifier ties the
\* records together, the payment provider has made the refund, and both
\* sources are there to be looked at.  No rule of the code says so; it follows
\* from the weights.
HighIsEstablished(facts, config) ==
  computeMatch(facts, config) \in {"EXACT", "HIGH"} =>
    /\ chargeLinkageSignal(facts).outcome = "agree"
    /\ facts.refundStatus = "succeeded"
    /\ ~ facts.isSourceUnavailable

\* An exact match leaves nothing open: every signal agrees, the amounts are
\* equal and the order is marked refunded.
ExactIsComplete(facts, config) ==
  computeMatch(facts, config) = "EXACT" =>
    /\ facts.refundAmountCents = facts.orderTotalCents
    /\ facts.financialStatus \in {"refunded", "partially_refunded"}
    /\ facts.currency # None
    /\ timingSignal(facts, config).outcome = "agree"

\* A refund of another transaction matches nothing, whatever else agrees, and
\* a refund that failed is never better than LOW.
ContradictionsWeigh(facts, config) ==
  /\ chargeLinkageSignal(facts).outcome = "disagree" =>
       computeMatch(facts, config) = "NO_MATCH"
  /\ facts.refundStatus = "failed" =>
       computeMatch(facts, config) \in {"LOW", "NO_MATCH"}

\* The bands of computeMatch mean what an agent reads into them.
BandsAreEarned(facts, config) ==
  /\ HighIsEstablished(facts, config)
  /\ ExactIsComplete(facts, config)
  /\ ContradictionsWeigh(facts, config)
=============================================================================
