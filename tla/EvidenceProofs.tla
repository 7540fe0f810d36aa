--------------------------- MODULE EvidenceProofs ---------------------------
(***************************************************************************)
(* Safety of module Evidence for any number of ingestions and of changes   *)
(* at the providers.                                                       *)
(*                                                                         *)
(* OneRowPerSource is not inductive: an ingestion deletes the rows it saw  *)
(* when its transaction began, so the invariant has to say that the one    *)
(* transaction that may insert a thread has seen every row there is        *)
(* (OneThread, SeesAll), that what a transaction inserts is read from a    *)
(* thread (TextFirst), and that the rows an event is about to write back   *)
(* are still there, under its locks (RowsHeld).                            *)
(*                                                                         *)
(* HighBandsAreReal joins what the bands mean, proved first, with an       *)
(* invariant on every claim on its way to the card (RealInv).              *)
(*                                                                         *)
(* QuietRefreshRepairs follows an ingestion that nothing disturbs from     *)
(* statement to statement (QuietInv), over what every writer keeps true of *)
(* the tables and of what is on its way to them (LedInv).                  *)
(***************************************************************************)
EXTENDS Evidence, TLAPS

-----------------------------------------------------------------------------
(***************************************************************************)
(* What the bands of computeMatch say, for every value of the facts and of *)
(* the configuration: first what each signal may contribute, then the sums.*)
(***************************************************************************)
(* Each signal either agrees with at most its weight, is absent and counts *)
(* nothing, or disagrees: chargeLinkageSignal to timingSignal.             *)
LEMMA LinkageContribution ==
  ASSUME NEW facts
  PROVE  \/ chargeLinkageSignal(facts) = agree(3000)
         \/ chargeLinkageSignal(facts) = absent
         \/ chargeLinkageSignal(facts) = disagree(3000)
  BY DEF chargeLinkageSignal, WEIGHTS

LEMMA AmountContribution ==
  ASSUME NEW facts, NEW config
  PROVE  \/ /\ amountSignal(facts, config) = agree(2500)
            /\ facts.refundAmountCents = facts.orderTotalCents
         \/ amountSignal(facts, config) \in
              {agree(2000), absent, disagree(1000), disagree(2500)}
  BY DEF amountSignal, WEIGHTS

LEMMA CurrencyContribution ==
  ASSUME NEW facts
  PROVE  \/ currencySignal(facts) = agree(1000) /\ facts.currency # None
         \/ currencySignal(facts) = absent
  BY DEF currencySignal, WEIGHTS

LEMMA RefundStatusContribution ==
  ASSUME NEW facts
  PROVE  \/ /\ refundStatusSignal(facts) = agree(2000)
            /\ facts.refundStatus = "succeeded"
            /\ facts.financialStatus \in {"refunded", "partially_refunded"}
         \/ refundStatusSignal(facts) = agree(1400) /\ facts.refundStatus = "succeeded"
         \/ refundStatusSignal(facts) = absent /\ facts.refundStatus \in {None, "pending"}
         \/ /\ refundStatusSignal(facts) = disagree(2000)
            /\ facts.refundStatus \notin {None, "pending", "succeeded"}
  BY DEF refundStatusSignal, WEIGHTS

LEMMA TimingContribution ==
  ASSUME NEW facts, NEW config
  PROVE  timingSignal(facts, config) \in {agree(1500), absent, disagree(750)}
  BY DEF timingSignal, WEIGHTS

(* The five contributions, with what is needed of each of them.            *)
LEMMA Contributions ==
  ASSUME NEW facts, NEW config
  PROVE  /\ chargeLinkageSignal(facts).contribution \in {3000, 0, -3000}
         /\ chargeLinkageSignal(facts).outcome = "agree" <=>
              chargeLinkageSignal(facts).contribution = 3000
         /\ chargeLinkageSignal(facts).outcome = "disagree" <=>
              chargeLinkageSignal(facts).contribution = -3000
         /\ amountSignal(facts, config).contribution \in {2500, 2000, 0, -1000, -2500}
         /\ amountSignal(facts, config).contribution = 2500 =>
              facts.refundAmountCents = facts.orderTotalCents
         /\ currencySignal(facts).contribution \in {1000, 0}
         /\ currencySignal(facts).contribution = 1000 => facts.currency # None
         /\ refundStatusSignal(facts).contribution \in {2000, 1400, 0, -2000}
         /\ refundStatusSignal(facts).contribution \in {2000, 1400} =>
              facts.refundStatus = "succeeded"
         /\ refundStatusSignal(facts).contribution = 2000 =>
              facts.financialStatus \in {"refunded", "partially_refunded"}
         /\ timingSignal(facts, config).contribution \in {1500, 0, -750}
         /\ timingSignal(facts, config).contribution = 1500 =>
              timingSignal(facts, config).outcome = "agree"
<1>1. /\ chargeLinkageSignal(facts).contribution \in {3000, 0, -3000}
      /\ chargeLinkageSignal(facts).outcome = "agree" <=>
           chargeLinkageSignal(facts).contribution = 3000
      /\ chargeLinkageSignal(facts).outcome = "disagree" <=>
           chargeLinkageSignal(facts).contribution = -3000
  BY LinkageContribution DEF agree, absent, disagree
<1>2. /\ amountSignal(facts, config).contribution \in {2500, 2000, 0, -1000, -2500}
      /\ amountSignal(facts, config).contribution = 2500 =>
           facts.refundAmountCents = facts.orderTotalCents
  BY AmountContribution DEF agree, absent, disagree
<1>3. /\ currencySignal(facts).contribution \in {1000, 0}
      /\ currencySignal(facts).contribution = 1000 => facts.currency # None
  BY CurrencyContribution DEF agree, absent
<1>4. /\ refundStatusSignal(facts).contribution \in {2000, 1400, 0, -2000}
      /\ refundStatusSignal(facts).contribution \in {2000, 1400} =>
           facts.refundStatus = "succeeded"
      /\ refundStatusSignal(facts).contribution = 2000 =>
           facts.financialStatus \in {"refunded", "partially_refunded"}
  BY RefundStatusContribution DEF agree, absent, disagree
<1>5. /\ timingSignal(facts, config).contribution \in {1500, 0, -750}
      /\ timingSignal(facts, config).contribution = 1500 =>
           timingSignal(facts, config).outcome = "agree"
  BY TimingContribution DEF agree, absent, disagree
<1>6. QED
  BY <1>1, <1>2, <1>3, <1>4, <1>5

(* A refund that failed takes its whole weight away.                       *)
LEMMA FailedRefund ==
  ASSUME NEW facts, facts.refundStatus = "failed"
  PROVE  refundStatusSignal(facts).contribution = -2000
<1>1. "failed" \in RefundStatus
  BY DEF RefundStatus
<1>2. facts.refundStatus \notin {None, "pending"} /\ facts.refundStatus # "succeeded"
  BY <1>1, MatchingAssumption
<1>3. refundStatusSignal(facts) = disagree(2000)
  BY <1>2 DEF refundStatusSignal, WEIGHTS
<1>4. QED
  BY <1>3 DEF disagree

(* confidenceScore, written with the sum of the contributions.             *)
LEMMA Score ==
  ASSUME NEW facts, NEW config
  PROVE  /\ confidenceScore(facts, config) \in 0..10000
         /\ facts.isSourceUnavailable => confidenceScore(facts, config) <= 7900
         /\ chargeLinkageSignal(facts).outcome = "disagree" =>
              confidenceScore(facts, config) <= 2000
         /\ confidenceScore(facts, config) > 0 =>
              confidenceScore(facts, config) <=
                chargeLinkageSignal(facts).contribution
                + amountSignal(facts, config).contribution
                + currencySignal(facts).contribution
                + refundStatusSignal(facts).contribution
                + timingSignal(facts, config).contribution
<1> DEFINE raw == chargeLinkageSignal(facts).contribution
                  + amountSignal(facts, config).contribution
                  + currencySignal(facts).contribution
                  + refundStatusSignal(facts).contribution
                  + timingSignal(facts, config).contribution
           score == clamp(raw, 0, 10000)
           linked == IF chargeLinkageSignal(facts).outcome = "disagree"
                     THEN AtMost(score, 2000) ELSE score
           final == IF facts.isSourceUnavailable THEN AtMost(linked, 7900) ELSE linked
<1>1. raw \in Int
  <2>1. /\ chargeLinkageSignal(facts).contribution \in Int
        /\ amountSignal(facts, config).contribution \in Int
        /\ currencySignal(facts).contribution \in Int
        /\ refundStatusSignal(facts).contribution \in Int
        /\ timingSignal(facts, config).contribution \in Int
    BY Contributions
  <2>2. QED  BY <2>1
<1>2. confidenceScore(facts, config) = final
  BY DEF confidenceScore, SOURCE_UNAVAILABLE_CEILING, DISAGREEING_IDENTIFIER_CEILING
<1> HIDE DEF raw
<1>3. score \in 0..10000 /\ (score > 0 => score <= raw)
  BY <1>1 DEF clamp
<1> HIDE DEF score
<1>4. /\ linked \in 0..10000 /\ linked <= score
      /\ chargeLinkageSignal(facts).outcome = "disagree" => linked <= 2000
  BY <1>3 DEF AtMost
<1> HIDE DEF linked
<1>5. /\ final \in 0..10000 /\ final <= linked
      /\ facts.isSourceUnavailable => final <= 7900
  BY <1>4 DEF AtMost
<1> HIDE DEF final
<1>6. /\ final \in 0..10000
      /\ facts.isSourceUnavailable => final <= 7900
      /\ chargeLinkageSignal(facts).outcome = "disagree" => final <= 2000
      /\ final > 0 => final <= raw
  BY <1>1, <1>3, <1>4, <1>5
<1>7. QED
  BY <1>2, <1>6 DEF raw

(* A band is high only for an established refund (HighIsEstablished).      *)
LEMMA HighBandIsEstablished ==
  ASSUME NEW facts, NEW config, facts.isSourceUnavailable \in BOOLEAN
  PROVE  HighIsEstablished(facts, config)
<1> DEFINE l == chargeLinkageSignal(facts).contribution
           a == amountSignal(facts, config).contribution
           c == currencySignal(facts).contribution
           r == refundStatusSignal(facts).contribution
           t == timingSignal(facts, config).contribution
           s == confidenceScore(facts, config)
<1>1. SUFFICES ASSUME computeMatch(facts, config) \in {"EXACT", "HIGH"}
               PROVE  /\ chargeLinkageSignal(facts).outcome = "agree"
                      /\ facts.refundStatus = "succeeded"
                      /\ ~ facts.isSourceUnavailable
  BY DEF HighIsEstablished
<1>2. s >= 8500
  <2>1. s \in 0..10000 /\ bandFor(s) \in {"EXACT", "HIGH"}
    BY <1>1, Score DEF computeMatch
  <2> HIDE DEF s
  <2>2. QED  BY <2>1 DEF bandFor
<1>3. /\ l \in {3000, 0, -3000} /\ a \in {2500, 2000, 0, -1000, -2500}
      /\ c \in {1000, 0} /\ r \in {2000, 1400, 0, -2000} /\ t \in {1500, 0, -750}
  BY Contributions
<1>4. /\ s \in 0..10000
      /\ facts.isSourceUnavailable => s <= 7900
      /\ s > 0 => s <= l + a + c + r + t
  BY Score
<1>5. ~ facts.isSourceUnavailable
  <2> HIDE DEF l, a, c, r, t, s
  <2>1. QED  BY <1>2, <1>4
<1>6. l = 3000 /\ r \in {2000, 1400}
  <2> HIDE DEF l, a, c, r, t, s
  <2>1. QED  BY <1>2, <1>3, <1>4
<1>7. QED
  BY <1>5, <1>6, Contributions

(* An exact band needs every signal at its full weight (ExactIsComplete).  *)
LEMMA ExactBandIsComplete ==
  ASSUME NEW facts, NEW config
  PROVE  ExactIsComplete(facts, config)
<1> DEFINE l == chargeLinkageSignal(facts).contribution
           a == amountSignal(facts, config).contribution
           c == currencySignal(facts).contribution
           r == refundStatusSignal(facts).contribution
           t == timingSignal(facts, config).contribution
           s == confidenceScore(facts, config)
<1>1. SUFFICES ASSUME computeMatch(facts, config) = "EXACT"
               PROVE  a = 2500 /\ c = 1000 /\ r = 2000 /\ t = 1500
  BY Contributions DEF ExactIsComplete
<1>2. s >= 9800
  <2>1. s \in 0..10000 /\ bandFor(s) = "EXACT"
    BY <1>1, Score DEF computeMatch
  <2> HIDE DEF s
  <2>2. QED  BY <2>1 DEF bandFor
<1>3. /\ l \in {3000, 0, -3000} /\ a \in {2500, 2000, 0, -1000, -2500}
      /\ c \in {1000, 0} /\ r \in {2000, 1400, 0, -2000} /\ t \in {1500, 0, -750}
  BY Contributions
<1>4. s \in 0..10000 /\ (s > 0 => s <= l + a + c + r + t)
  BY Score
<1> HIDE DEF l, a, c, r, t, s
<1>5. QED
  BY <1>2, <1>3, <1>4

(* Contradicting evidence lowers the band (ContradictionsWeigh).           *)
LEMMA ContradictionsLowerTheBand ==
  ASSUME NEW facts, NEW config
  PROVE  ContradictionsWeigh(facts, config)
<1> DEFINE l == chargeLinkageSignal(facts).contribution
           a == amountSignal(facts, config).contribution
           c == currencySignal(facts).contribution
           r == refundStatusSignal(facts).contribution
           t == timingSignal(facts, config).contribution
           s == confidenceScore(facts, config)
<1>1. /\ l \in {3000, 0, -3000} /\ a \in {2500, 2000, 0, -1000, -2500}
      /\ c \in {1000, 0} /\ r \in {2000, 1400, 0, -2000} /\ t \in {1500, 0, -750}
  BY Contributions
<1>2. /\ s \in 0..10000 /\ (s > 0 => s <= l + a + c + r + t)
      /\ chargeLinkageSignal(facts).outcome = "disagree" => s <= 2000
  BY Score
<1>3. ASSUME chargeLinkageSignal(facts).outcome = "disagree"
      PROVE  computeMatch(facts, config) = "NO_MATCH"
  <2>1. s \in 0..10000 /\ s <= 2000 /\ computeMatch(facts, config) = bandFor(s)
    BY <1>2, <1>3 DEF computeMatch
  <2> HIDE DEF s
  <2>2. QED  BY <2>1 DEF bandFor
<1>4. ASSUME facts.refundStatus = "failed"
      PROVE  computeMatch(facts, config) \in {"LOW", "NO_MATCH"}
  <2>1. r = -2000
    BY <1>4, FailedRefund
  <2>2. s < 7000
    <3> HIDE DEF l, a, c, r, t, s
    <3>1. QED  BY <2>1, <1>1, <1>2
  <2>3. s \in 0..10000 /\ computeMatch(facts, config) = bandFor(s)
    BY <1>2 DEF computeMatch
  <2> HIDE DEF s
  <2>4. QED  BY <2>2, <2>3 DEF bandFor
<1>5. QED
  BY <1>3, <1>4 DEF ContradictionsWeigh

(* The bands of computeMatch mean what an agent reads into them            *)
(* (BandsAreEarned), for all facts, amounts, times and tolerances.         *)
THEOREM BandsOfAnyFactsAreEarned ==
  ASSUME NEW facts \in EvidenceFacts, NEW config \in MatchConfig
  PROVE  BandsAreEarned(facts, config)
<1>1. facts.isSourceUnavailable \in BOOLEAN
  BY DEF EvidenceFacts
<1>2. QED
  BY <1>1, HighBandIsEstablished, ExactBandIsComplete, ContradictionsLowerTheBand
     DEF BandsAreEarned

-----------------------------------------------------------------------------
\* The shape of a row, whatever its value.
IsRow(r) ==
  r = [source |-> r.source, id |-> r.id, value |-> r.value, fetchedAt |-> r.fetchedAt,
       isSourceUnavailable |-> r.isSourceUnavailable]

Deliveries == {"none", "sent", "updated", "handled"}

Shape ==
  /\ pc \in [Ingestions -> PCs]
  /\ thread = [p \in Ingestions |-> thread[p]]
  /\ found = [p \in Ingestions |-> [s \in Source |-> found[p][s]]]
  /\ visible = [p \in Ingestions |-> visible[p]]
  /\ delivery \in [Changes -> Deliveries]
  /\ update = [n \in Changes |-> update[n]]
  /\ \A r \in rows : IsRow(r)

\* What is looked up was named in the text.
TextFirst ==
  \A p \in Ingestions, s \in Source :
    /\ pc[p] \in {"idle", "readTicket"} => found[p][s] = None
    /\ found[p][s] # None => thread[p] # None

\* issue_messages has a key: one transaction at a time inserts a thread.
OneThread ==
  \A p, q \in Ingestions :
    pc[p] = "commit" /\ pc[q] = "commit" /\ thread[p] # None /\ thread[q] # None => p = q

\* It has seen every row there is, for nobody else inserts any.
SeesAll ==
  \A p \in Ingestions :
    pc[p] = "commit" /\ thread[p] # None =>
      \A r \in rows : <<r.source, r.id>> \in visible[p].rows

\* The rows of an event are locked, and are those of the table.
RowsHeld ==
  \A n \in Changes :
    delivery[n] = "updated" =>
      /\ update[n].rows \subseteq update[n].locks
      /\ \A q \in update[n].rows : IsRow(q) /\ \E r \in rows : SameRow(r, q)
      /\ \A q, r \in update[n].rows : q.source = r.source => q = r

RowsInv == Shape /\ TextFirst /\ OneThread /\ SeesAll /\ RowsHeld /\ OneRowPerSource

\* The variables that RowsInv speaks of.
rowVars == <<pc, thread, found, visible, delivery, update, rows>>

LEMMA RowsInitially == Init => RowsInv
<1> SUFFICES ASSUME Init PROVE RowsInv
  OBVIOUS
<1>1. /\ pc = [p \in Ingestions |-> "idle"] /\ rows = {}
      /\ thread = [p \in Ingestions |-> None]
      /\ found = [p \in Ingestions |-> [s \in Source |-> None]]
      /\ visible = [p \in Ingestions |-> None]
      /\ delivery = [n \in Changes |-> "none"] /\ update = [n \in Changes |-> None]
  BY DEF Init
<1>2. Shape
  BY <1>1 DEF Shape, PCs, Deliveries
<1>3. TextFirst /\ OneThread /\ SeesAll /\ OneRowPerSource
  BY <1>1 DEF TextFirst, OneThread, SeesAll, OneRowPerSource
<1>4. RowsHeld
  BY <1>1 DEF RowsHeld
<1> QED
  BY <1>2, <1>3, <1>4 DEF RowsInv

LEMMA RowsUntouched ==
  ASSUME RowsInv, UNCHANGED rowVars
  PROVE  RowsInv'
BY DEF RowsInv, rowVars, Shape, TextFirst, OneThread, SeesAll, RowsHeld, OneRowPerSource, SameRow, IsRow

\* An ingestion moves on, and is not at its commit.
LEMMA RowsWhileMoving ==
  ASSUME RowsInv, NEW p \in Ingestions, NEW l \in PCs \ {"idle", "readTicket", "commit"},
         Goto(p, l), UNCHANGED <<thread, found, visible, delivery, update, rows>>
  PROVE  RowsInv'
<1>1. Shape'
  BY DEF RowsInv, Shape, Goto, IsRow
<1>2. \A q \in Ingestions : pc'[q] \in {"idle", "readTicket", "commit"} => pc'[q] = pc[q]
  BY DEF RowsInv, Shape, Goto
<1>3. TextFirst' /\ OneThread' /\ SeesAll'
  BY <1>2 DEF RowsInv, TextFirst, OneThread, SeesAll
<1>4. RowsHeld' /\ OneRowPerSource'
  BY DEF RowsInv, RowsHeld, OneRowPerSource, SameRow, IsRow
<1> QED
  BY <1>1, <1>3, <1>4 DEF RowsInv

\* An ingestion ends, and its locals are gone.
LEMMA RowsAtTheEnd ==
  ASSUME RowsInv, NEW p \in Ingestions, NEW l \in {"done", "failed"},
         End(p, l), UNCHANGED <<delivery, update, rows>>
  PROVE  RowsInv'
<1>1. /\ pc' = [pc EXCEPT ![p] = l] /\ thread' = [thread EXCEPT ![p] = None]
      /\ found' = [found EXCEPT ![p] = [s \in Source |-> None]]
      /\ visible' = [visible EXCEPT ![p] = None]
  BY DEF End, Forget, Goto
<1>2. Shape'
  <2>1. pc' \in [Ingestions -> PCs] /\ delivery' \in [Changes -> Deliveries]
    BY <1>1 DEF RowsInv, Shape, PCs
  <2>2. thread' = [q \in Ingestions |-> thread'[q]] /\ visible' = [q \in Ingestions |-> visible'[q]]
    BY <1>1 DEF RowsInv, Shape
  <2>3. found' = [q \in Ingestions |-> [s \in Source |-> found'[q][s]]]
    BY <1>1 DEF RowsInv, Shape
  <2>4. update' = [n \in Changes |-> update'[n]] /\ \A r \in rows' : IsRow(r)
    BY DEF RowsInv, Shape
  <2> QED
    BY <2>1, <2>2, <2>3, <2>4 DEF Shape, IsRow
<1>3. /\ \A q \in Ingestions \ {p} : /\ pc'[q] = pc[q] /\ thread'[q] = thread[q]
                                    /\ found'[q] = found[q] /\ visible'[q] = visible[q]
      /\ pc'[p] = l /\ thread'[p] = None /\ \A s \in Source : found'[p][s] = None
  BY <1>1 DEF RowsInv, Shape
<1>4. TextFirst' /\ OneThread' /\ SeesAll'
  BY <1>3 DEF RowsInv, TextFirst, OneThread, SeesAll
<1>5. RowsHeld' /\ OneRowPerSource'
  BY DEF RowsInv, RowsHeld, OneRowPerSource, SameRow, IsRow
<1> QED
  BY <1>2, <1>4, <1>5 DEF RowsInv

-----------------------------------------------------------------------------
LEMMA RowsAtReadTicket ==
  ASSUME RowsInv, NEW p \in Ingestions, readTicket(p)
  PROVE  RowsInv'
<1>1. /\ pc[p] = "readTicket" /\ pc' = [pc EXCEPT ![p] = "lookupStripe"]
      /\ thread' = [thread EXCEPT ![p] = p] \/ thread' = thread
      /\ UNCHANGED <<found, visible, delivery, update, rows>>
  BY DEF readTicket, Goto, world, tableVars
<1>2. /\ \A q \in Ingestions \ {p} : pc'[q] = pc[q] /\ thread'[q] = thread[q]
      /\ pc'[p] = "lookupStripe"
  BY <1>1 DEF RowsInv, Shape
<1>3. Shape'
  BY <1>1 DEF RowsInv, Shape, PCs, IsRow
<1>4. TextFirst'
  BY <1>1, <1>2 DEF RowsInv, TextFirst
<1>5. OneThread' /\ SeesAll'
  BY <1>1, <1>2 DEF RowsInv, OneThread, SeesAll
<1>6. RowsHeld' /\ OneRowPerSource'
  BY <1>1 DEF RowsInv, RowsHeld, OneRowPerSource, SameRow, IsRow
<1> QED
  BY <1>3, <1>4, <1>5, <1>6 DEF RowsInv

LEMMA RowsAtLookup ==
  ASSUME RowsInv, NEW p \in Ingestions, lookupStripe(p) \/ lookupShopify(p)
  PROVE  RowsInv'
<1>1. PICK s \in Source, to \in {"lookupShopify", "begin"}, from \in PCs :
        lookup(p, s, from, to)
  <2>1. CASE lookupStripe(p)
    BY <2>1 DEF lookupStripe, Source, PCs
  <2>2. CASE lookupShopify(p)
    BY <2>2 DEF lookupShopify, Source, PCs
  <2> QED
    BY <2>1, <2>2
<1>2. PICK answer \in LookedUp(p, s) : found' = [found EXCEPT ![p][s] = answer]
  BY <1>1 DEF lookup
<1>3. /\ pc' = [pc EXCEPT ![p] = to]
      /\ UNCHANGED <<thread, visible, delivery, update, rows>>
  BY <1>1 DEF lookup, Goto, world, tableVars
<1>4. answer # None => thread[p] # None
  BY <1>2 DEF LookedUp
<1>5. /\ \A q \in Ingestions \ {p} : pc'[q] = pc[q] /\ found'[q] = found[q]
      /\ pc'[p] = to
      /\ \A x \in Source : found'[p][x] = IF x = s THEN answer ELSE found[p][x]
  BY <1>2, <1>3 DEF RowsInv, Shape
<1>6. Shape'
  <2>1. pc' \in [Ingestions -> PCs]
    BY <1>2, <1>3 DEF RowsInv, Shape, PCs
  <2>2. found' = [q \in Ingestions |-> [x \in Source |-> found'[q][x]]]
    BY <1>2, <1>3 DEF RowsInv, Shape
  <2> QED
    BY <1>2, <1>3, <2>1, <2>2 DEF RowsInv, Shape, IsRow
<1>7. TextFirst'
  BY <1>2, <1>3, <1>4, <1>5 DEF RowsInv, TextFirst
<1>8. OneThread' /\ SeesAll'
  BY <1>2, <1>3, <1>5 DEF RowsInv, OneThread, SeesAll
<1>9. RowsHeld' /\ OneRowPerSource'
  BY <1>2, <1>3 DEF RowsInv, RowsHeld, OneRowPerSource, SameRow, IsRow
<1> QED
  BY <1>6, <1>7, <1>8, <1>9 DEF RowsInv

LEMMA RowsAtBegin ==
  ASSUME RowsInv, NEW p \in Ingestions, beginPersist(p)
  PROVE  RowsInv'
<1>1. UNCHANGED <<delivery, update, rows>>
  BY DEF beginPersist, world, tableVars
<1>2. CASE End(p, "failed")
  BY <1>1, <1>2, RowsAtTheEnd
<1>3. CASE ~End(p, "failed")
  <2>1. /\ ~MessagesTaken(p) /\ pc' = [pc EXCEPT ![p] = "commit"]
        /\ visible' = [visible EXCEPT ![p] =
             [messages |-> messages, rows |-> {<<r.source, r.id>> : r \in rows}]]
        /\ UNCHANGED <<thread, found>>
    BY <1>3 DEF beginPersist, Goto
  <2>2. /\ \A q \in Ingestions \ {p} : pc'[q] = pc[q] /\ visible'[q] = visible[q]
        /\ pc'[p] = "commit"
        /\ visible'[p].rows = {<<r.source, r.id>> : r \in rows}
    BY <2>1 DEF RowsInv, Shape
  <2>3. Shape'
    BY <1>1, <2>1 DEF RowsInv, Shape, PCs, IsRow
  <2>4. TextFirst'
    BY <2>1, <2>2 DEF RowsInv, TextFirst
  <2>5. OneThread'
    BY <2>1, <2>2 DEF RowsInv, OneThread, MessagesTaken
  <2>6. SeesAll'
    BY <1>1, <2>1, <2>2 DEF RowsInv, SeesAll
  <2>7. RowsHeld' /\ OneRowPerSource'
    BY <1>1 DEF RowsInv, RowsHeld, OneRowPerSource, SameRow, IsRow
  <2> QED
    BY <2>3, <2>4, <2>5, <2>6, <2>7 DEF RowsInv
<1> QED
  BY <1>2, <1>3

\* The only step that inserts rows.
LEMMA RowsAtCommit ==
  ASSUME RowsInv, NEW p \in Ingestions, commitPersist(p)
  PROVE  RowsInv'
<1>1. /\ pc[p] = "commit" /\ \A n \in Changes : ~Blocks(n, p)
      /\ rows' = {r \in rows : ~Replaces(p, r)} \cup Inserted(p)
      /\ pc' = [pc EXCEPT ![p] = "select"]
      /\ thread' = [thread EXCEPT ![p] = None]
      /\ found' = [found EXCEPT ![p] = [s \in Source |-> None]]
      /\ visible' = [visible EXCEPT ![p] = None]
      /\ UNCHANGED <<delivery, update>>
  BY DEF commitPersist, Forget, Goto, world
<1>2. /\ \A q \in Ingestions \ {p} : /\ pc'[q] = pc[q] /\ thread'[q] = thread[q]
                                    /\ found'[q] = found[q] /\ visible'[q] = visible[q]
      /\ pc'[p] = "select" /\ thread'[p] = None /\ \A s \in Source : found'[p][s] = None
  BY <1>1 DEF RowsInv, Shape
<1>3. \A r \in Inserted(p) :
        /\ IsRow(r) /\ r.source \in Source /\ found[p][r.source] # None
        /\ \A q \in Inserted(p) : q.source = r.source => q = r
  BY DEF Inserted, IsRow
<1>4. Inserted(p) # {} => thread[p] # None
  BY <1>3 DEF RowsInv, TextFirst
<1>5. \A r \in rows : (\E q \in Inserted(p) : q.source = r.source) => Replaces(p, r)
  BY <1>1, <1>3, <1>4 DEF RowsInv, SeesAll, Replaces
<1>6. OneRowPerSource'
  BY <1>1, <1>3, <1>5 DEF RowsInv, OneRowPerSource
<1>7. Shape'
  <2>1. \A r \in rows' : IsRow(r)
    BY <1>1, <1>3 DEF RowsInv, Shape
  <2>2. /\ pc' \in [Ingestions -> PCs]
        /\ thread' = [q \in Ingestions |-> thread'[q]]
        /\ visible' = [q \in Ingestions |-> visible'[q]]
    BY <1>1 DEF RowsInv, Shape, PCs
  <2>3. found' = [q \in Ingestions |-> [s \in Source |-> found'[q][s]]]
    BY <1>1 DEF RowsInv, Shape
  <2> QED
    BY <1>1, <2>1, <2>2, <2>3 DEF RowsInv, Shape, IsRow
<1>8. TextFirst' /\ OneThread'
  BY <1>1, <1>2 DEF RowsInv, TextFirst, OneThread
<1>9. SeesAll'
  <2> SUFFICES ASSUME NEW q \in Ingestions, pc'[q] = "commit", thread'[q] # None,
                      NEW r \in rows'
               PROVE  <<r.source, r.id>> \in visible'[q].rows
    BY DEF SeesAll
  <2>1. q # p /\ pc[q] = "commit" /\ thread[q] # None /\ visible'[q] = visible[q]
    BY <1>1, <1>2
  <2>2. thread[p] = None
    BY <1>1, <2>1 DEF RowsInv, OneThread
  <2>3. r \in rows
    BY <1>1, <1>4, <2>2
  <2> QED
    BY <2>1, <2>3 DEF RowsInv, SeesAll
<1>10. RowsHeld'
  <2> SUFFICES ASSUME NEW n \in Changes, delivery[n] = "updated", NEW q \in update[n].rows
               PROVE  \E r \in rows' : SameRow(r, q)
    BY <1>1 DEF RowsInv, RowsHeld, SameRow, IsRow
  <2>1. PICK r \in rows : SameRow(r, q)
    BY DEF RowsInv, RowsHeld
  <2>2. q \in update[n].locks
    BY DEF RowsInv, RowsHeld
  <2>3. ~Replaces(p, q)
    BY <1>1, <2>2 DEF Blocks
  <2>4. ~Replaces(p, r)
    BY <2>1, <2>3 DEF Replaces, SameRow
  <2> QED
    BY <1>1, <2>1, <2>4
<1> QED
  BY <1>6, <1>7, <1>8, <1>9, <1>10 DEF RowsInv

LEMMA RowsAtIngestion ==
  ASSUME RowsInv, NEW p \in Ingestions, ingestTicketContext(p)
  PROVE  RowsInv'
<1>1. CASE start(p)
  <2>1. /\ pc[p] = "idle" /\ pc' = [pc EXCEPT ![p] = "readTicket"]
        /\ UNCHANGED <<thread, found, visible, delivery, update, rows>>
    BY <1>1 DEF start, Goto, world, tableVars, localVars
  <2>2. pc'[p] = "readTicket" /\ \A q \in Ingestions \ {p} : pc'[q] = pc[q]
    BY <2>1 DEF RowsInv, Shape
  <2>3. Shape'
    BY <2>1 DEF RowsInv, Shape, PCs, IsRow
  <2>4. TextFirst' /\ OneThread' /\ SeesAll'
    BY <2>1, <2>2 DEF RowsInv, TextFirst, OneThread, SeesAll
  <2>5. RowsHeld' /\ OneRowPerSource'
    BY <2>1 DEF RowsInv, RowsHeld, OneRowPerSource, SameRow, IsRow
  <2> QED
    BY <2>3, <2>4, <2>5 DEF RowsInv
<1>2. CASE readTicket(p)
  BY <1>2, RowsAtReadTicket
<1>3. CASE lookupStripe(p) \/ lookupShopify(p)
  BY <1>3, RowsAtLookup
<1>4. CASE beginPersist(p)
  BY <1>4, RowsAtBegin
<1>5. CASE commitPersist(p)
  BY <1>5, RowsAtCommit
<1>6. CASE persistAborted(p)
  BY <1>6, RowsAtTheEnd DEF persistAborted, world, tableVars
<1>7. CASE selectEvidence(p)
  <2>1. Goto(p, "rebuild") \/ Goto(p, "insert")
    BY <1>7 DEF selectEvidence
  <2>2. UNCHANGED <<thread, found, visible, delivery, update, rows>>
    BY <1>7 DEF selectEvidence, world, tableVars
  <2> QED
    BY <2>1, <2>2, RowsWhileMoving DEF PCs
<1>8. CASE insertMatch(p)
  <2>1. UNCHANGED <<delivery, update, rows>>
    BY <1>8 DEF insertMatch, world, tableVars
  <2>2. \/ Goto(p, "rebuild") /\ UNCHANGED <<thread, found, visible>>
        \/ End(p, "failed")
    BY <1>8 DEF insertMatch
  <2> QED
    BY <2>1, <2>2, RowsWhileMoving, RowsAtTheEnd DEF PCs
<1>9. CASE rebuild(p)
  BY <1>9, RowsWhileMoving DEF rebuild, rebuildCardState, world, tableVars, localVars, PCs
<1>10. CASE upsert(p)
  BY <1>10, RowsAtTheEnd DEF upsert, upsertCardState, world
<1> QED
  BY <1>1, <1>2, <1>3, <1>4, <1>5, <1>6, <1>7, <1>8, <1>9, <1>10 DEF ingestTicketContext

-----------------------------------------------------------------------------
LEMMA RowsAtProviderChange ==
  ASSUME RowsInv, NEW n \in Changes, NEW s \in Source, ProviderChanges(n, s)
  PROVE  RowsInv'
<1>1. /\ delivery' = [delivery EXCEPT ![n] = "sent"]
      /\ UNCHANGED <<pc, thread, found, visible, update, rows>>
  BY DEF ProviderChanges, tableVars, localVars
<1>2. Shape'
  BY <1>1 DEF RowsInv, Shape, Deliveries, IsRow
<1>3. TextFirst' /\ OneThread' /\ SeesAll' /\ OneRowPerSource'
  BY <1>1 DEF RowsInv, TextFirst, OneThread, SeesAll, OneRowPerSource
<1>4. \A k \in Changes : delivery'[k] = "updated" => delivery[k] = "updated"
  BY <1>1 DEF RowsInv, Shape
<1>5. RowsHeld'
  BY <1>1, <1>4 DEF RowsInv, RowsHeld, SameRow, IsRow
<1> QED
  BY <1>2, <1>3, <1>5 DEF RowsInv

\* An event writes rows of the table back, each in its place.
LEMMA AppliedKeepsItsPlace ==
  ASSUME NEW r, IsRow(r), NEW event, NEW t
  PROVE  IsRow(Applied(r, event, t)) /\ SameRow(r, Applied(r, event, t))
BY DEF IsRow, Applied, SameRow

LEMMA RowsAtRouteEvent ==
  ASSUME RowsInv, NEW n \in Changes, routeEvent(n)
  PROVE  RowsInv'
<1> DEFINE s == change[n].source
           updated == {Applied(r, change[n], clock + 1) : r \in Of(rows, s)}
<1>1. UNCHANGED <<pc, thread, found, visible, rows>>
  BY DEF routeEvent, tableVars, localVars
<1>2. TextFirst' /\ OneThread' /\ SeesAll' /\ OneRowPerSource'
  BY <1>1 DEF RowsInv, TextFirst, OneThread, SeesAll, OneRowPerSource
<1>3. CASE updated = {}
  <2>1. delivery' = [delivery EXCEPT ![n] = "handled"] /\ UNCHANGED update
    BY <1>3 DEF routeEvent
  <2>2. \A k \in Changes : delivery'[k] = "updated" => delivery[k] = "updated"
    BY <2>1 DEF RowsInv, Shape
  <2>3. Shape'
    BY <1>1, <2>1 DEF RowsInv, Shape, Deliveries, IsRow
  <2>4. RowsHeld'
    BY <1>1, <2>1, <2>2 DEF RowsInv, RowsHeld, SameRow, IsRow
  <2> QED
    BY <1>2, <2>3, <2>4 DEF RowsInv
<1>4. CASE updated # {}
  <2>1. PICK m, anchor :
          /\ delivery' = [delivery EXCEPT ![n] = "updated"]
          /\ update' = [update EXCEPT ![n] =
               [rows |-> updated, match |-> m, locks |-> updated \cup {anchor}]]
    BY <1>4 DEF routeEvent
  <2>2. /\ \A k \in Changes \ {n} : delivery'[k] = delivery[k] /\ update'[k] = update[k]
        /\ update'[n].rows = updated /\ update'[n].locks = updated \cup {anchor}
    BY <2>1 DEF RowsInv, Shape
  <2>3. \A q \in updated : \E r \in Of(rows, s) :
          q = Applied(r, change[n], clock + 1) /\ IsRow(q) /\ SameRow(r, q)
    <3> TAKE q \in updated
    <3>1. PICK r \in Of(rows, s) : q = Applied(r, change[n], clock + 1)
      OBVIOUS
    <3>2. IsRow(r)
      BY DEF RowsInv, Shape, Of
    <3> QED
      BY <3>1, <3>2, AppliedKeepsItsPlace
  <2>4. \A q, r \in updated : q.source = r.source => q = r
    BY <2>3 DEF RowsInv, OneRowPerSource, Of, SameRow
  <2>5. Shape'
    BY <1>1, <2>1 DEF RowsInv, Shape, Deliveries, IsRow
  <2>6. RowsHeld'
    <3>1. \A q \in updated : IsRow(q) /\ \E r \in rows' : SameRow(r, q)
      BY <1>1, <2>3 DEF Of
    <3>2. ASSUME NEW k \in Changes \ {n}, delivery[k] = "updated"
          PROVE  /\ update'[k].rows \subseteq update'[k].locks
                 /\ \A q \in update'[k].rows : IsRow(q) /\ \E r \in rows' : SameRow(r, q)
                 /\ \A q, r \in update'[k].rows : q.source = r.source => q = r
      BY <1>1, <2>2, <3>2 DEF RowsInv, RowsHeld
    <3> HIDE DEF updated
    <3> QED
      BY <2>2, <2>4, <3>1, <3>2 DEF RowsHeld, SameRow, IsRow
  <2> QED
    BY <1>2, <2>5, <2>6 DEF RowsInv
<1> QED
  BY <1>3, <1>4

\* Rows change and stay in their places.
LEMMA RowsInTheirPlaces ==
  ASSUME RowsInv, UNCHANGED <<pc, thread, found, visible>>,
         \A r \in rows' : IsRow(r) /\ \E q \in rows : SameRow(q, r)
  PROVE  TextFirst' /\ OneThread' /\ SeesAll'
<1>1. TextFirst' /\ OneThread'
  BY DEF RowsInv, TextFirst, OneThread
<1>2. SeesAll'
  BY DEF RowsInv, SeesAll, SameRow
<1> QED
  BY <1>1, <1>2

LEMMA RowsAtCommitEvent ==
  ASSUME RowsInv, NEW n \in Changes, commitEvent(n)
  PROVE  RowsInv'
<1> DEFINE new == update[n].rows
<1>1. /\ delivery[n] = "updated"
      /\ rows' = {r \in rows : \A q \in new : ~ SameRow(r, q)} \cup new
      /\ update' = [update EXCEPT ![n] = None]
      /\ delivery' = [delivery EXCEPT ![n] = "handled"]
      /\ UNCHANGED <<pc, thread, found, visible>>
  BY DEF commitEvent, localVars
<1>2. /\ \A q \in new : IsRow(q) /\ \E r \in rows : SameRow(r, q)
      /\ \A q, r \in new : q.source = r.source => q = r
  BY <1>1 DEF RowsInv, RowsHeld
<1>3. \A r \in rows : IsRow(r)
  BY DEF RowsInv, Shape
<1> HIDE DEF new
<1>4. \A r \in rows' : IsRow(r) /\ \E q \in rows : SameRow(q, r)
  BY <1>1, <1>2, <1>3 DEF SameRow
<1>5. TextFirst' /\ OneThread' /\ SeesAll'
  BY <1>1, <1>4, RowsInTheirPlaces
<1>6. \A r \in rows, q \in new : r.source = q.source => SameRow(r, q)
  BY <1>2 DEF RowsInv, OneRowPerSource, SameRow
<1>7. OneRowPerSource'
  <2>1. \A r, q \in rows : r.source = q.source => r = q
    BY DEF RowsInv, OneRowPerSource
  <2> QED
    BY <1>1, <1>2, <1>6, <2>1 DEF OneRowPerSource
<1>8. Shape'
  <2>1. \A r \in rows' : IsRow(r)'
    BY <1>4 DEF IsRow
  <2>2. delivery' \in [Changes -> Deliveries] /\ update' = [k \in Changes |-> update'[k]]
    BY <1>1 DEF RowsInv, Shape, Deliveries
  <2> QED
    BY <1>1, <2>1, <2>2 DEF RowsInv, Shape
<1>9. RowsHeld'
  <2>1. /\ \A k \in Changes \ {n} : delivery'[k] = delivery[k] /\ update'[k] = update[k]
        /\ delivery'[n] = "handled"
    BY <1>1 DEF RowsInv, Shape
  <2>2. ASSUME NEW k \in Changes \ {n}, delivery[k] = "updated"
        PROVE  /\ update[k].rows \subseteq update[k].locks
               /\ \A q \in update[k].rows : IsRow(q) /\ \E r \in rows' : SameRow(r, q)
               /\ \A q, r \in update[k].rows : q.source = r.source => q = r
    <3>1. /\ update[k].rows \subseteq update[k].locks
          /\ \A q \in update[k].rows : IsRow(q) /\ \E r \in rows : SameRow(r, q)
          /\ \A q, r \in update[k].rows : q.source = r.source => q = r
      BY <2>2 DEF RowsInv, RowsHeld
    <3>2. \A r \in rows : \E q \in rows' : SameRow(r, q)
      BY <1>1 DEF SameRow
    <3> QED
      BY <3>1, <3>2 DEF SameRow
  <2> QED
    BY <2>1, <2>2 DEF RowsHeld, SameRow, IsRow
<1> QED
  BY <1>5, <1>7, <1>8, <1>9 DEF RowsInv

LEMMA RowsAtMissEvent ==
  ASSUME RowsInv, NEW n \in Changes, missEvent(n)
  PROVE  RowsInv'
<1>1. /\ delivery' = [delivery EXCEPT ![n] = "handled"]
      /\ UNCHANGED <<pc, thread, found, visible, update, rows>>
  BY DEF missEvent, tableVars, localVars
<1>2. Shape'
  BY <1>1 DEF RowsInv, Shape, Deliveries, IsRow
<1>3. TextFirst' /\ OneThread' /\ SeesAll' /\ OneRowPerSource'
  BY <1>1 DEF RowsInv, TextFirst, OneThread, SeesAll, OneRowPerSource
<1>4. \A k \in Changes : delivery'[k] = "updated" => delivery[k] = "updated"
  BY <1>1 DEF RowsInv, Shape
<1>5. RowsHeld'
  BY <1>1, <1>4 DEF RowsInv, RowsHeld, SameRow, IsRow
<1> QED
  BY <1>2, <1>3, <1>5 DEF RowsInv

LEMMA UnavailableKeepsItsPlace ==
  ASSUME NEW r, IsRow(r)
  PROVE  /\ IsRow([r EXCEPT !.isSourceUnavailable = TRUE])
         /\ SameRow(r, [r EXCEPT !.isSourceUnavailable = TRUE])
<1>1. Applied(r, [answer |-> [archived |-> TRUE]], 0) = [r EXCEPT !.isSourceUnavailable = TRUE]
  BY DEF Applied
<1> QED
  BY <1>1, AppliedKeepsItsPlace

LEMMA RowsAtDeletion ==
  ASSUME RowsInv, handleTicketDeleted
  PROVE  RowsInv'
<1>1. /\ rows' = {[r EXCEPT !.isSourceUnavailable = TRUE] : r \in rows}
      /\ UNCHANGED <<pc, thread, found, visible, delivery, update>>
  BY DEF handleTicketDeleted, localVars
<1>2. \A r \in rows : /\ IsRow([r EXCEPT !.isSourceUnavailable = TRUE])
                     /\ SameRow(r, [r EXCEPT !.isSourceUnavailable = TRUE])
  <2> TAKE r \in rows
  <2>1. IsRow(r)
    BY DEF RowsInv, Shape
  <2> QED
    BY <2>1, UnavailableKeepsItsPlace
<1>3. \A r \in rows' : IsRow(r) /\ \E q \in rows : SameRow(q, r)
  BY <1>1, <1>2
<1>4. TextFirst' /\ OneThread' /\ SeesAll'
  BY <1>1, <1>3, RowsInTheirPlaces
<1>5. OneRowPerSource'
  <2>1. ASSUME NEW q \in rows', NEW r \in rows', q.source = r.source
        PROVE  q = r
    <3>1. PICK x \in rows, y \in rows :
            /\ q = [x EXCEPT !.isSourceUnavailable = TRUE]
            /\ r = [y EXCEPT !.isSourceUnavailable = TRUE]
      BY <1>1
    <3>2. x = y
      BY <1>2, <2>1, <3>1 DEF RowsInv, OneRowPerSource, SameRow
    <3> QED
      BY <3>1, <3>2
  <2> QED
    BY <2>1 DEF OneRowPerSource
<1>6. Shape'
  <2>1. \A r \in rows' : IsRow(r)'
    BY <1>3 DEF IsRow
  <2> QED
    BY <1>1, <2>1 DEF RowsInv, Shape
<1>7. RowsHeld'
  <2>1. \A r \in rows : \E q \in rows' : SameRow(r, q)
    BY <1>1, <1>2
  <2>2. \A n \in Changes : delivery[n] = "updated" =>
          /\ update[n].rows \subseteq update[n].locks
          /\ \A q \in update[n].rows : IsRow(q) /\ \E r \in rows' : SameRow(r, q)
          /\ \A q, r \in update[n].rows : q.source = r.source => q = r
    BY <2>1 DEF RowsInv, RowsHeld, SameRow
  <2> QED
    BY <1>1, <2>2 DEF RowsHeld, SameRow, IsRow
<1> QED
  BY <1>4, <1>5, <1>6, <1>7 DEF RowsInv

LEMMA RowsPreserved == RowsInv /\ [Next]_evidenceVars => RowsInv'
<1> SUFFICES ASSUME RowsInv, [Next]_evidenceVars PROVE RowsInv'
  OBVIOUS
<1>1. CASE \E n \in Changes, s \in Source : ProviderChanges(n, s)
  BY <1>1, RowsAtProviderChange
<1>2. CASE \E p \in Ingestions : ingestTicketContext(p)
  BY <1>2, RowsAtIngestion
<1>3. CASE \E n \in Changes : EventStep(n)
  BY <1>3, RowsAtRouteEvent, RowsAtCommitEvent, RowsAtMissEvent DEF EventStep
<1>4. CASE handleTicketDeleted
  BY <1>4, RowsAtDeletion
<1>5. CASE \E a \in Completions : ActionCompletes(a)
  BY <1>5, RowsUntouched
     DEF ActionCompletes, rebuildCardState, upsertCardState, tableVars, localVars, rowVars
<1>6. CASE UNCHANGED evidenceVars
  BY <1>6, RowsUntouched DEF evidenceVars, tableVars, localVars, rowVars
<1> QED
  BY <1>1, <1>2, <1>3, <1>4, <1>5, <1>6 DEF Next

(***************************************************************************)
(* However many refreshes, webhooks and provider events overlap, the issue *)
(* keeps one normalized row per source (services/ingestion.ts,             *)
(* upsertEvidence), although no key of evidence_normalized demands it.     *)
(***************************************************************************)
THEOREM RowsAreUnique == Spec => []OneRowPerSource
<1>1. RowsInv => OneRowPerSource
  BY DEF RowsInv
<1> QED
  BY <1>1, RowsInitially, RowsPreserved, PTL DEF Spec

(***************************************************************************)
(* Whoever overwrites whom, stored annotations belong to the stored thread *)
(* (services/ingestion.ts, persistThread and persistContext).              *)
(***************************************************************************)
THEOREM SpansFollowMessages == Spec => []SpansHaveTheirMessages
<1>1. Init => SpansHaveTheirMessages
  BY DEF Init, SpansHaveTheirMessages
<1>2. SpansHaveTheirMessages /\ [Next]_evidenceVars => SpansHaveTheirMessages'
  <2> SUFFICES ASSUME SpansHaveTheirMessages, [Next]_evidenceVars
               PROVE  SpansHaveTheirMessages'
    OBVIOUS
  <2>1. ASSUME NEW p \in Ingestions, commitPersist(p) PROVE SpansHaveTheirMessages'
    BY <2>1 DEF commitPersist, StoredSpans, SpansHaveTheirMessages
  <2>2. ASSUME NEW p \in Ingestions, ingestTicketContext(p), ~ commitPersist(p)
        PROVE  UNCHANGED <<messages, spans>>
    BY <2>2 DEF ingestTicketContext, start, readTicket, lookupStripe, lookupShopify, lookup,
                beginPersist, persistAborted, selectEvidence, insertMatch, rebuild, upsert,
                rebuildCardState, upsertCardState, tableVars
  <2>3. CASE \E n \in Changes : EventStep(n)
    BY <2>3 DEF EventStep, routeEvent, commitEvent, missEvent, tableVars, SpansHaveTheirMessages
  <2>4. CASE \/ \E n \in Changes, s \in Source : ProviderChanges(n, s)
             \/ handleTicketDeleted \/ UNCHANGED evidenceVars
             \/ \E a \in Completions : ActionCompletes(a)
    BY <2>4 DEF ProviderChanges, handleTicketDeleted, ActionCompletes, rebuildCardState,
                upsertCardState, tableVars, evidenceVars, SpansHaveTheirMessages
  <2> QED
    BY <2>1, <2>2, <2>3, <2>4 DEF Next, SpansHaveTheirMessages
<1> QED
  BY <1>1, <1>2, PTL DEF Spec

-----------------------------------------------------------------------------
(***************************************************************************)
(* HighBandsAreReal.  A band is computed from rows, a row is made of an    *)
(* answer or an event, and a card of a row and a match, and what was       *)
(* reported once was reported.  RealInv says this of every place where a   *)
(* claim is kept on its way to the card.                                   *)
(***************************************************************************)
\* What value v of source s claims has been reported, when T is the reports.
ValueReal(T, s, v) ==
  /\ s = "stripe" /\ v = "succeeded" => "succeeded" \in T
  /\ s = "shopify" /\ v \in {"refunded", "partially_refunded"} => "refunded" \in T

RowReal(T, r) ==
  /\ r.source \in Source /\ r.fetchedAt \in Nat /\ r.isSourceUnavailable \in BOOLEAN
  /\ ValueReal(T, r.source, r.value)

BandReal(T, band) ==
  /\ band \in {"HIGH", "EXACT"} => "succeeded" \in T
  /\ band = "EXACT" => "refunded" \in T

CardReal(T, c) ==
  c # None => BandReal(T, c.band) /\ (c.refundStatus = "succeeded" => "succeeded" \in T)

IsMatch(m) ==
  m = [source |-> m.source, id |-> m.id, band |-> m.band, computedAt |-> m.computedAt]

TruthOK ==
  /\ truth \in [Source -> Answer] /\ truth["shopify"].value # "partially_refunded"
  /\ \A s \in Source : ValueReal(reported, s, truth[s].value)

FoundReal(T) ==
  \A p \in Ingestions, s \in Source :
    found[p][s] # None =>
      ValueReal(T, s, found[p][s].value) /\ found[p][s].archived \in BOOLEAN

EventsReal(T) ==
  \A n \in Changes :
    /\ delivery[n] = "sent" =>
         /\ change[n].source \in Source
         /\ ValueReal(T, change[n].source, StoredStatus(change[n]))
    /\ delivery[n] = "updated" =>
         /\ \A r \in update[n].rows : RowReal(T, r)
         /\ BandReal(T, update[n].match.band)

ComputedReal(T) ==
  \A p \in Ingestions :
    pc[p] = "insert" => IsMatch(computed[p]) /\ BandReal(T, computed[p].band)

TablesReal(T) ==
  /\ \A r \in rows : RowReal(T, r)
  /\ \A m \in match : BandReal(T, m.band)
  /\ CardReal(T, card)
  /\ selected = [p \in Ingestions \cup Completions |-> selected[p]]
  /\ \A p \in Ingestions \cup Completions : CardReal(T, selected[p])

Times ==
  /\ clock \in Nat /\ at \in [Ingestions -> Nat]
  /\ change = [n \in Changes |-> change[n]]
  /\ computed = [p \in Ingestions |-> computed[p]]

RealInv ==
  /\ TruthOK /\ Times
  /\ FoundReal(reported) /\ EventsReal(reported) /\ ComputedReal(reported) /\ TablesReal(reported)

LEMMA RealInitially == Init => RealInv
<1> SUFFICES ASSUME Init PROVE RealInv
  OBVIOUS
<1>1. /\ pc = [p \in Ingestions |-> "idle"] /\ rows = {} /\ match = {} /\ card = None
      /\ found = [p \in Ingestions |-> [s \in Source |-> None]]
      /\ delivery = [n \in Changes |-> "none"] /\ change = [n \in Changes |-> None]
      /\ computed = [p \in Ingestions |-> None]
      /\ selected = [p \in Ingestions \cup Completions |-> None]
      /\ clock = 0 /\ at = [p \in Ingestions |-> 0]
  BY DEF Init
<1>2. TruthOK
  <2>1. PICK refund \in OldRefunds :
          truth = [s \in Source |->
            [value |-> IF s = "stripe" THEN refund ELSE "paid", archived |-> FALSE]]
    BY DEF Init
  <2>2. refund \in Maybe(Value \cup {"canceled"}) /\ "paid" \in Maybe(Value \cup {"canceled"})
    BY EvidenceAssumption DEF Maybe, Value, RefundStatus, FinancialStatus
  <2>3. reported = {refund, "paid"}
    BY <2>1 DEF Init, Source
  <2>4. /\ truth["stripe"].value = refund /\ truth["shopify"].value = "paid"
        /\ truth \in [Source -> Answer]
    BY <2>1, <2>2 DEF Answer, Source
  <2>5. ValueReal(reported, "stripe", refund) /\ ValueReal(reported, "shopify", "paid")
    BY <2>3 DEF ValueReal
  <2> QED
    BY <2>4, <2>5 DEF TruthOK, Source
<1>3. Times
  BY <1>1 DEF Times
<1>4. FoundReal(reported) /\ EventsReal(reported) /\ ComputedReal(reported) /\ TablesReal(reported)
  BY <1>1 DEF FoundReal, EventsReal, ComputedReal, TablesReal, CardReal
<1> QED
  BY <1>2, <1>3, <1>4 DEF RealInv

-----------------------------------------------------------------------------
\* With one row of a source, First is that row.
LEMMA FirstOfSource ==
  ASSUME NEW R, NEW s, \A r \in R : r.fetchedAt \in Nat,
         \A r, q \in R : r.source = q.source => r = q
  PROVE  LET r == First(Of(R, s)) IN r = None \/ (r \in R /\ r.source = s)
<1>1. CASE Of(R, s) = {}
  <2>1. First(Of(R, s)) = None
    BY <1>1, Zenon DEF First
  <2> QED
    BY <2>1
<1>2. CASE Of(R, s) # {}
  <2>1. PICK r \in R : r.source = s
    BY <1>2 DEF Of
  <2>2. Newest(Of(R, s)) # {}
    <3>1. \A q \in Of(R, s) : q = r
      BY <2>1 DEF Of
    <3>2. r \in Of(R, s) /\ r.fetchedAt <= r.fetchedAt
      BY <2>1 DEF Of
    <3> QED
      BY <3>1, <3>2 DEF Newest
  <2>3. First(Of(R, s)) \in Of(R, s)
    BY <1>2, <2>2 DEF First, Newest
  <2> QED
    BY <2>3 DEF Of
<1> QED
  BY <1>1, <1>2

\* The band of rows that are real is real, by what bands mean.
LEMMA BandOfRealRows ==
  ASSUME NEW T, NEW R, \A r \in R : RowReal(T, r),
         \A r, q \in R : r.source = q.source => r = q
  PROVE  BandReal(T, BandOf(R))
<1> DEFINE st == First(Of(R, "stripe"))
           sh == First(Of(R, "shopify"))
           facts == buildFacts(StripeRowOf(st), ShopifyRowOf(sh), 0)
           config == MatchConfigOf(Tolerance)
<1>1. /\ st = None \/ (st \in R /\ st.source = "stripe")
      /\ sh = None \/ (sh \in R /\ sh.source = "shopify")
  BY FirstOfSource DEF RowReal
<1>2. BandOf(R) = computeMatch(facts, config)
  BY DEF BandOf
<1> HIDE DEF st, sh
<1>3. facts.isSourceUnavailable \in BOOLEAN
  BY DEF buildFacts
<1>4. None \notin {"succeeded", "refunded", "partially_refunded"}
  BY MatchingAssumption DEF RefundStatus, FinancialStatus
<1>5. facts.refundStatus = "succeeded" => "succeeded" \in T
  <2>1. facts.refundStatus = "succeeded" => st # None /\ st.value = "succeeded"
    BY <1>4 DEF buildFacts, StripeRowOf
  <2> QED
    BY <1>1, <2>1 DEF RowReal, ValueReal
<1>6. facts.financialStatus \in {"refunded", "partially_refunded"}
        => "refunded" \in T
  <2>1. facts.financialStatus \in {"refunded", "partially_refunded"}
          => sh # None /\ sh.value \in {"refunded", "partially_refunded"}
    BY <1>4 DEF buildFacts, ShopifyRowOf
  <2> QED
    BY <1>1, <2>1 DEF RowReal, ValueReal
<1> HIDE DEF facts, config
<1>7. HighIsEstablished(facts, config) /\ ExactIsComplete(facts, config)
  BY <1>3, HighBandIsEstablished, ExactBandIsComplete
<1> QED
  BY <1>2, <1>5, <1>6, <1>7 DEF BandReal, HighIsEstablished, ExactIsComplete

LEMMA StoredBands ==
  ASSUME NEW T, NEW M, NEW m, \A q \in M : BandReal(T, q.band), BandReal(T, m.band)
  PROVE  \A q \in Store(M, m) : BandReal(T, q.band)
BY DEF Store

\* What a rebuild reads is a row and a stored match of it, or none.
LEMMA SelectedCard ==
  ASSUME NEW T, TablesReal(T), NEW p \in Ingestions \cup Completions, rebuildCardState(p)
  PROVE  TablesReal(T)'
<1>1. BandReal(T, None) /\ None # "succeeded"
  BY EvidenceAssumption, MatchingAssumption DEF BandReal, MatchBand, RefundStatus
<1>2. \A r : BandReal(T, BandOfRow(r))
  <2> TAKE r
  <2>1. CASE {m \in match : SameRow(m, r)} = {}
    BY <1>1, <2>1 DEF BandOfRow
  <2>2. CASE {m \in match : SameRow(m, r)} # {}
    BY <2>2 DEF BandOfRow, TablesReal
  <2> QED
    BY <2>1, <2>2
<1>3. PICK c \in CurrentCards : selected' = [selected EXCEPT ![p] = c]
  BY DEF rebuildCardState
<1>4. CardReal(T, c)
  <2>1. PICK r \in IF rows = {} THEN {None} ELSE Newest(rows) :
          c = [refundStatus |-> IF r = None \/ r.source = "shopify" THEN None ELSE r.value,
               band |-> IF r = None THEN None ELSE BandOfRow(r),
               isSourceUnavailable |-> r # None /\ r.isSourceUnavailable]
    BY <1>3 DEF CurrentCards
  <2>2. BandReal(T, c.band)
    BY <1>1, <1>2, <2>1
  <2>3. c.refundStatus = "succeeded" => "succeeded" \in T
    <3>1. ASSUME c.refundStatus = "succeeded" PROVE r \in rows /\ r.source = "stripe"
                                                    /\ r.value = "succeeded"
      <4>1. r # None /\ r.source # "shopify" /\ r.value = "succeeded"
        BY <1>1, <2>1, <3>1
      <4>2. r \in rows
        BY <2>1, <4>1 DEF Newest
      <4> QED
        BY <4>1, <4>2 DEF TablesReal, RowReal, Source
    <3> QED
      BY <3>1 DEF TablesReal, RowReal, ValueReal
  <2> QED
    BY <2>2, <2>3 DEF CardReal
<1>5. /\ selected' = [q \in Ingestions \cup Completions |-> selected'[q]]
      /\ \A q \in Ingestions \cup Completions : selected'[q] \in {c, selected[q]}
  BY <1>3 DEF TablesReal
<1>6. \A q \in Ingestions \cup Completions : CardReal(T, selected'[q])
  BY <1>4, <1>5 DEF TablesReal
<1>7. UNCHANGED <<rows, match, card>>
  BY DEF rebuildCardState, tableVars
<1> QED
  BY <1>5, <1>6, <1>7 DEF TablesReal, CardReal, RowReal, ValueReal, BandReal

LEMMA UpsertedCard ==
  ASSUME NEW T, TablesReal(T), NEW p \in Ingestions \cup Completions, upsertCardState(p)
  PROVE  TablesReal(T)'
<1>1. /\ card' = selected[p] /\ selected' = [selected EXCEPT ![p] = None]
      /\ UNCHANGED <<rows, match>>
  BY DEF upsertCardState
<1>2. CardReal(T, card')
  BY <1>1 DEF TablesReal
<1>3. /\ selected' = [q \in Ingestions \cup Completions |-> selected'[q]]
      /\ \A q \in Ingestions \cup Completions : selected'[q] \in {None, selected[q]}
  BY <1>1 DEF TablesReal
<1>4. \A q \in Ingestions \cup Completions : CardReal(T, selected'[q])
  BY <1>3 DEF TablesReal, CardReal
<1> QED
  BY <1>1, <1>2, <1>3, <1>4 DEF TablesReal, CardReal, RowReal, ValueReal, BandReal

-----------------------------------------------------------------------------
\* What a step leaves alone stays real.
LEMMA FoundKept ==
  ASSUME RealInv, UNCHANGED <<reported, found>> PROVE FoundReal(reported)'
BY DEF RealInv, FoundReal, ValueReal

LEMMA EventsKept ==
  ASSUME RealInv, UNCHANGED <<reported, change, delivery, update>> PROVE EventsReal(reported)'
BY DEF RealInv, EventsReal, ValueReal, RowReal, BandReal, StoredStatus

LEMMA TablesKept ==
  ASSUME RealInv, UNCHANGED <<reported, rows, match, card, selected>>
  PROVE  TablesReal(reported)'
BY DEF RealInv, TablesReal, ValueReal, RowReal, BandReal, CardReal

LEMMA ComputedKept ==
  ASSUME RealInv, UNCHANGED <<reported, pc, computed>> PROVE ComputedReal(reported)'
BY DEF RealInv, ComputedReal, IsMatch, BandReal

LEMMA TruthKept ==
  ASSUME RealInv, UNCHANGED <<truth, reported>> PROVE TruthOK'
BY DEF RealInv, TruthOK, ValueReal

\* An ingestion moves on with what it has computed, and is not at its insert.
LEMMA ComputedWhileMoving ==
  ASSUME RealInv, Shape, NEW p \in Ingestions, NEW l \in PCs \ {"insert"}, Goto(p, l),
         UNCHANGED reported, \A q \in Ingestions \ {p} : computed'[q] = computed[q]
  PROVE  ComputedReal(reported)'
<1>1. \A q \in Ingestions : pc'[q] = "insert" => q # p /\ pc[q] = "insert"
  BY DEF Shape, Goto
<1> QED
  BY <1>1 DEF RealInv, ComputedReal, IsMatch, BandReal

LEMMA RealWhenForgotten ==
  ASSUME RealInv, Shape, NEW p \in Ingestions, NEW l \in PCs \ {"insert"}, Goto(p, l), Forget(p),
         UNCHANGED <<reported, change, clock>>
  PROVE  Times' /\ FoundReal(reported)' /\ ComputedReal(reported)'
<1>1. /\ found' = [found EXCEPT ![p] = [s \in Source |-> None]]
      /\ at' = [at EXCEPT ![p] = 0] /\ computed' = [computed EXCEPT ![p] = None]
  BY DEF Forget
<1>2. Times'
  BY <1>1 DEF RealInv, Times
<1>3. \A q \in Ingestions, s \in Source :
        found'[q][s] # None => found'[q][s] = found[q][s]
  BY <1>1 DEF Shape
<1>4. FoundReal(reported)'
  BY <1>3 DEF RealInv, FoundReal, ValueReal
<1>5. \A q \in Ingestions \ {p} : computed'[q] = computed[q]
  BY <1>1 DEF RealInv, Times
<1> QED
  BY <1>1, <1>2, <1>4, <1>5, ComputedWhileMoving

LEMMA RealAtTheEnd ==
  ASSUME RealInv, Shape, NEW p \in Ingestions, NEW l \in {"done", "failed"}, End(p, l),
         UNCHANGED <<reported, change, clock>>
  PROVE  Times' /\ FoundReal(reported)' /\ ComputedReal(reported)'
BY RealWhenForgotten DEF End, PCs

LEMMA RealAtLookup ==
  ASSUME RealInv, Shape, NEW p \in Ingestions, lookupStripe(p) \/ lookupShopify(p)
  PROVE  RealInv'
<1>1. PICK s \in Source, to \in {"lookupShopify", "begin"}, from \in PCs :
        lookup(p, s, from, to)
  BY DEF lookupStripe, lookupShopify, Source, PCs
<1>2. PICK answer \in LookedUp(p, s) : found' = [found EXCEPT ![p][s] = answer]
  BY <1>1 DEF lookup
<1>3. Goto(p, to) /\ UNCHANGED <<world, tableVars, clock, at, computed, selected>>
  BY <1>1 DEF lookup, cardVars
<1>4. answer # None => ValueReal(reported, s, answer.value) /\ answer.archived \in BOOLEAN
  <2>1. truth[s] \in Answer /\ ValueReal(reported, s, truth[s].value)
    BY DEF RealInv, TruthOK
  <2>2. answer # None =>
          answer = [truth[s] EXCEPT !.value = IF truth[s].archived THEN None ELSE @]
    BY <1>2 DEF LookedUp
  <2>3. answer # None => /\ answer.value \in {None, truth[s].value}
                         /\ answer.archived = truth[s].archived
    BY <2>1, <2>2 DEF Answer
  <2>4. None \notin {"succeeded", "refunded", "partially_refunded"}
    BY MatchingAssumption DEF RefundStatus, FinancialStatus
  <2> QED
    BY <2>1, <2>3, <2>4 DEF Answer, ValueReal
<1>5. \A q \in Ingestions, x \in Source :
        found'[q][x] = IF q = p /\ x = s THEN answer ELSE found[q][x]
  BY <1>2 DEF Shape
<1>6. FoundReal(reported)'
  BY <1>3, <1>4, <1>5 DEF RealInv, FoundReal, ValueReal, world, providerVars
<1>7. Times' /\ TruthOK'
  BY <1>3, TruthKept DEF RealInv, Times, world, providerVars
<1>8. ComputedReal(reported)'
  BY <1>3, ComputedWhileMoving DEF PCs, world, providerVars
<1>9. EventsReal(reported)' /\ TablesReal(reported)'
  BY <1>3, EventsKept, TablesKept DEF world, providerVars, tableVars
<1> QED
  BY <1>6, <1>7, <1>8, <1>9 DEF RealInv

LEMMA RealAtCommit ==
  ASSUME RealInv, Shape, NEW p \in Ingestions, commitPersist(p)
  PROVE  RealInv'
<1>1. /\ Goto(p, "select") /\ Forget(p) /\ UNCHANGED <<world, card, clock, selected>>
      /\ rows' = {r \in rows : ~ Replaces(p, r)} \cup Inserted(p)
      /\ match' = {m \in match : ~ Replaces(p, m)}
  BY DEF commitPersist, cardVars
<1>2. \A r \in Inserted(p) : RowReal(reported, r)
  <2>1. at[p] \in Nat
    BY DEF RealInv, Times
  <2>2. \A s \in Source : found[p][s] # None =>
          ValueReal(reported, s, found[p][s].value) /\ found[p][s].archived \in BOOLEAN
    BY DEF RealInv, FoundReal
  <2> QED
    BY <2>1, <2>2 DEF Inserted, RowReal
<1>3. TablesReal(reported)'
  BY <1>1, <1>2 DEF RealInv, TablesReal, CardReal, RowReal, ValueReal, BandReal, world, providerVars
<1>4. Times' /\ FoundReal(reported)' /\ ComputedReal(reported)'
  BY <1>1, RealWhenForgotten DEF PCs, world, providerVars
<1>5. TruthOK' /\ EventsReal(reported)'
  BY <1>1, TruthKept, EventsKept DEF world, providerVars
<1> QED
  BY <1>3, <1>4, <1>5 DEF RealInv

LEMMA RealAtSelect ==
  ASSUME RealInv, RowsInv, NEW p \in Ingestions, selectEvidence(p)
  PROVE  RealInv'
<1>1. UNCHANGED <<world, tableVars, clock, found, at, selected>>
  BY DEF selectEvidence, cardVars
<1>2. TruthOK' /\ FoundReal(reported)' /\ EventsReal(reported)' /\ TablesReal(reported)'
  BY <1>1, TruthKept, FoundKept, EventsKept, TablesKept DEF world, providerVars, tableVars
<1>3. CASE rows = {}
  <2>1. Goto(p, "rebuild") /\ UNCHANGED computed
    BY <1>3 DEF selectEvidence
  <2>2. Times'
    BY <1>1, <2>1 DEF RealInv, Times, world, providerVars
  <2>3. ComputedReal(reported)'
    BY <1>1, <2>1, ComputedWhileMoving DEF PCs, RowsInv, world, providerVars
  <2> QED
    BY <1>2, <2>2, <2>3 DEF RealInv
<1>4. CASE rows # {}
  <2>1. computed' = [computed EXCEPT ![p] = MatchOf(rows, 0)] /\ Goto(p, "insert")
    BY <1>4 DEF selectEvidence
  <2>2. Times'
    BY <1>1, <2>1 DEF RealInv, Times, world, providerVars
  <2>3. BandReal(reported, BandOf(rows))
    BY BandOfRealRows DEF RealInv, TablesReal, RowsInv, OneRowPerSource
  <2>4. IsMatch(MatchOf(rows, 0)) /\ MatchOf(rows, 0).band = BandOf(rows)
    BY DEF MatchOf, IsMatch
  <2>5. /\ computed'[p] = MatchOf(rows, 0)
        /\ \A q \in Ingestions \ {p} : computed'[q] = computed[q] /\ pc'[q] = pc[q]
    BY <2>1 DEF RealInv, Times, Goto, RowsInv, Shape
  <2>6. ComputedReal(reported)'
    <3>1. \A q \in Ingestions : pc'[q] = "insert" =>
            IsMatch(computed'[q]) /\ BandReal(reported, computed'[q].band)
      BY <2>3, <2>4, <2>5 DEF RealInv, ComputedReal
    <3> QED
      BY <1>1, <3>1 DEF ComputedReal, IsMatch, BandReal, world, providerVars
  <2> QED
    BY <1>2, <2>2, <2>6 DEF RealInv
<1> QED
  BY <1>3, <1>4

LEMMA RealAtInsert ==
  ASSUME RealInv, Shape, NEW p \in Ingestions, insertMatch(p)
  PROVE  RealInv'
<1>1. pc[p] = "insert" /\ UNCHANGED <<world, rows, card, selected>>
  BY DEF insertMatch, cardVars
<1>2. TruthOK' /\ EventsReal(reported)'
  BY <1>1, TruthKept, EventsKept DEF world, providerVars
<1>3. CASE \E r \in rows : SameRow(r, computed[p])
  <2> DEFINE m == [computed[p] EXCEPT !.computedAt = clock + 1]
  <2>1. /\ match' = Store(match, m) /\ clock' = clock + 1
        /\ computed' = [computed EXCEPT ![p] = None] /\ Goto(p, "rebuild")
        /\ UNCHANGED <<found, at>>
    BY <1>3 DEF insertMatch
  <2>2. Times'
    BY <1>1, <2>1 DEF RealInv, Times, world, providerVars
  <2>3. IsMatch(computed[p]) /\ BandReal(reported, computed[p].band)
    BY <1>1 DEF RealInv, ComputedReal
  <2>4. m.band = computed[p].band
    BY <2>3 DEF IsMatch
  <2> HIDE DEF m
  <2>5. \A q \in match' : BandReal(reported, q.band)
    BY <2>1, <2>3, <2>4, StoredBands DEF RealInv, TablesReal
  <2>6. TablesReal(reported)'
    BY <1>1, <2>5
       DEF RealInv, TablesReal, CardReal, RowReal, ValueReal, BandReal, world, providerVars
  <2>7. \A q \in Ingestions \ {p} : computed'[q] = computed[q]
    BY <2>1 DEF RealInv, Times
  <2>8. ComputedReal(reported)' /\ FoundReal(reported)'
    BY <1>1, <2>1, <2>7, ComputedWhileMoving, FoundKept DEF PCs, world, providerVars
  <2> QED
    BY <1>2, <2>2, <2>6, <2>8 DEF RealInv
<1>4. CASE ~ \E r \in rows : SameRow(r, computed[p])
  <2>1. End(p, "failed") /\ UNCHANGED <<match, clock>>
    BY <1>4 DEF insertMatch
  <2>2. Times' /\ FoundReal(reported)' /\ ComputedReal(reported)'
    BY <1>1, <2>1, RealAtTheEnd DEF world, providerVars
  <2>3. TablesReal(reported)'
    BY <1>1, <2>1, TablesKept DEF world, providerVars
  <2> QED
    BY <1>2, <2>2, <2>3 DEF RealInv
<1> QED
  BY <1>3, <1>4

LEMMA RealAtIngestion ==
  ASSUME RealInv, RowsInv, NEW p \in Ingestions, ingestTicketContext(p)
  PROVE  RealInv'
<1> USE DEF RowsInv
<1>1. CASE start(p)
  <2>1. /\ Goto(p, "readTicket")
        /\ UNCHANGED <<world, tableVars, clock, found, at, computed, selected>>
    BY <1>1 DEF start, localVars, cardVars
  <2>2. TruthOK' /\ FoundReal(reported)' /\ EventsReal(reported)' /\ TablesReal(reported)'
    BY <2>1, TruthKept, FoundKept, EventsKept, TablesKept DEF world, providerVars, tableVars
  <2>3. Times' /\ ComputedReal(reported)'
    BY <2>1, ComputedWhileMoving DEF RealInv, Times, PCs, world, providerVars
  <2> QED
    BY <2>2, <2>3 DEF RealInv
<1>2. CASE readTicket(p)
  <2>1. /\ Goto(p, "lookupStripe")
        /\ UNCHANGED <<world, tableVars, clock, found, at, computed, selected>>
    BY <1>2 DEF readTicket, cardVars
  <2>2. TruthOK' /\ FoundReal(reported)' /\ EventsReal(reported)' /\ TablesReal(reported)'
    BY <2>1, TruthKept, FoundKept, EventsKept, TablesKept DEF world, providerVars, tableVars
  <2>3. Times' /\ ComputedReal(reported)'
    BY <2>1, ComputedWhileMoving DEF RealInv, Times, PCs, world, providerVars
  <2> QED
    BY <2>2, <2>3 DEF RealInv
<1>3. CASE lookupStripe(p) \/ lookupShopify(p)
  BY <1>3, RealAtLookup
<1>4. CASE beginPersist(p)
  <2>1. UNCHANGED <<world, tableVars, selected>>
    BY <1>4 DEF beginPersist, cardVars
  <2>2. TruthOK' /\ EventsReal(reported)' /\ TablesReal(reported)'
    BY <2>1, TruthKept, EventsKept, TablesKept DEF world, providerVars, tableVars
  <2>3. CASE End(p, "failed") /\ UNCHANGED clock
    <3>1. Times' /\ FoundReal(reported)' /\ ComputedReal(reported)'
      BY <2>1, <2>3, RealAtTheEnd DEF world, providerVars
    <3> QED
      BY <2>2, <3>1 DEF RealInv
  <2>4. CASE ~ (End(p, "failed") /\ UNCHANGED clock)
    <3>1. /\ Goto(p, "commit") /\ clock' = clock + 1
          /\ at' = [at EXCEPT ![p] = clock + 1] /\ UNCHANGED <<found, computed>>
      BY <1>4, <2>4 DEF beginPersist
    <3>2. Times'
      BY <2>1, <3>1 DEF RealInv, Times, world, providerVars
    <3>3. FoundReal(reported)' /\ ComputedReal(reported)'
      BY <2>1, <3>1, FoundKept, ComputedWhileMoving DEF PCs, world, providerVars
    <3> QED
      BY <2>2, <3>2, <3>3 DEF RealInv
  <2> QED
    BY <2>3, <2>4
<1>5. CASE commitPersist(p)
  BY <1>5, RealAtCommit
<1>6. CASE persistAborted(p) \/ upsert(p)
  <2>1. /\ End(p, "failed") \/ End(p, "done")
        /\ UNCHANGED <<world, clock>>
        /\ UNCHANGED <<tableVars, selected>> \/ upsertCardState(p)
    BY <1>6 DEF persistAborted, upsert, cardVars
  <2>2. TruthOK' /\ EventsReal(reported)'
    BY <2>1, TruthKept, EventsKept DEF world, providerVars
  <2>3. Times' /\ FoundReal(reported)' /\ ComputedReal(reported)'
    BY <2>1, RealAtTheEnd DEF world, providerVars
  <2>4. TablesReal(reported)'
    <3>1. CASE UNCHANGED <<tableVars, selected>>
      BY <2>1, <3>1, TablesKept DEF tableVars, world, providerVars
    <3>2. CASE upsertCardState(p)
      <4>1. TablesReal(reported) /\ reported' = reported
        BY <2>1 DEF RealInv, world, providerVars
      <4> QED
        BY <3>2, <4>1, UpsertedCard
    <3> QED
      BY <2>1, <3>1, <3>2
  <2> QED
    BY <2>2, <2>3, <2>4 DEF RealInv
<1>9. CASE rebuild(p)
  <2>1. /\ Goto(p, "upsert") /\ UNCHANGED <<world, clock, found, at, computed>>
        /\ rebuildCardState(p)
    BY <1>9 DEF rebuild, localVars
  <2>2. TruthOK' /\ FoundReal(reported)' /\ EventsReal(reported)'
    BY <2>1, TruthKept, FoundKept, EventsKept DEF world, providerVars
  <2>3. Times' /\ ComputedReal(reported)'
    BY <2>1, ComputedWhileMoving DEF RealInv, Times, PCs, world, providerVars
  <2>4. TablesReal(reported)'
    <3>1. TablesReal(reported) /\ reported' = reported
      BY <2>1 DEF RealInv, world, providerVars
    <3> QED
      BY <2>1, <3>1, SelectedCard
  <2> QED
    BY <2>2, <2>3, <2>4 DEF RealInv
<1>7. CASE selectEvidence(p)
  BY <1>7, RealAtSelect
<1>8. CASE insertMatch(p)
  BY <1>8, RealAtInsert
<1> QED
  BY <1>1, <1>2, <1>3, <1>4, <1>5, <1>6, <1>7, <1>8, <1>9 DEF ingestTicketContext

-----------------------------------------------------------------------------
\* Reports are added, whatever becomes of the provider's record.
LEMMA RealAtProviderChange ==
  ASSUME RealInv, Shape, NEW n \in Changes, NEW s \in Source, ProviderChanges(n, s)
  PROVE  RealInv'
<1>0. PICK answer \in
        {[value |-> v, archived |-> FALSE] : v \in NextValues(s)} \cup
        (IF s = "shopify" THEN {[value |-> truth[s].value, archived |-> TRUE]} ELSE {}) :
          \E kind \in KindsOf(s, answer.value) :
            /\ truth' = [truth EXCEPT ![s] = answer]
            /\ change' = [change EXCEPT ![n] =
                           [source |-> s, answer |-> answer, kind |-> kind]]
            /\ reported' = reported \cup {answer.value} \cup
                           (IF kind = "charge.refunded" THEN {"succeeded"} ELSE {})
  BY DEF ProviderChanges
<1>1. PICK kind \in KindsOf(s, answer.value) :
        /\ truth' = [truth EXCEPT ![s] = answer]
        /\ change' = [change EXCEPT ![n] = [source |-> s, answer |-> answer, kind |-> kind]]
        /\ reported' = reported \cup {answer.value} \cup
                       (IF kind = "charge.refunded" THEN {"succeeded"} ELSE {})
  BY <1>0
<1>2. /\ delivery' = [delivery EXCEPT ![n] = "sent"]
      /\ UNCHANGED <<update, tableVars, clock, pc, found, at, computed, selected>>
  BY DEF ProviderChanges, localVars, cardVars
<1>3. /\ truth \in [Source -> Answer] /\ truth["shopify"].value # "partially_refunded"
      /\ \A x \in Source : ValueReal(reported, x, truth[x].value)
  BY DEF RealInv, TruthOK
<1>4. /\ answer \in Answer
      /\ s = "shopify" => answer.value # "partially_refunded"
  <2>1. NextValues(s) \subseteq Value \cup {"canceled"}
    BY DEF NextValues, Value, RefundStatus, FinancialStatus
  <2>2. "partially_refunded" \notin NextValues("shopify")
    BY DEF NextValues
  <2>3. truth["shopify"].value \in Maybe(Value \cup {"canceled"})
    BY <1>3 DEF Answer, Source
  <2>4. CASE answer \in {[value |-> v, archived |-> FALSE] : v \in NextValues(s)}
    <3>1. PICK v \in NextValues(s) : answer = [value |-> v, archived |-> FALSE]
      BY <2>4
    <3>2. v \in Maybe(Value \cup {"canceled"})
      BY <2>1 DEF Maybe
    <3> QED
      BY <2>2, <3>1, <3>2 DEF Answer
  <2>5. CASE s = "shopify" /\ answer = [value |-> truth[s].value, archived |-> TRUE]
    BY <1>3, <2>3, <2>5 DEF Answer
  <2> QED
    BY <1>0, <2>4, <2>5
<1>5. /\ reported \subseteq reported' /\ answer.value \in reported'
      /\ kind = "charge.refunded" => "succeeded" \in reported'
  BY <1>1
<1>6. /\ \A x, v : ValueReal(reported, x, v) => ValueReal(reported', x, v)
      /\ \A band : BandReal(reported, band) => BandReal(reported', band)
      /\ \A r : RowReal(reported, r) => RowReal(reported', r)
      /\ \A c : CardReal(reported, c) => CardReal(reported', c)
  BY <1>5 DEF ValueReal, BandReal, RowReal, CardReal
<1>7. ValueReal(reported', s, answer.value)
  BY <1>4, <1>5 DEF ValueReal
<1>8. TruthOK'
  <2>1. \A x \in Source : truth'[x] = IF x = s THEN answer ELSE truth[x]
    BY <1>1, <1>3
  <2>2. truth' \in [Source -> Answer]
    BY <1>1, <1>3, <1>4
  <2>3. truth'["shopify"].value # "partially_refunded"
    BY <1>3, <1>4, <2>1 DEF Source
  <2>4. \A x \in Source : ValueReal(reported', x, truth'[x].value)
    BY <1>3, <1>6, <1>7, <2>1
  <2> QED
    BY <2>2, <2>3, <2>4 DEF TruthOK, ValueReal
<1>9. Times'
  BY <1>1, <1>2 DEF RealInv, Times
<1>10. FoundReal(reported)' /\ ComputedReal(reported)' /\ TablesReal(reported)'
  <2>1. FoundReal(reported') /\ ComputedReal(reported') /\ TablesReal(reported')
    BY <1>6 DEF RealInv, FoundReal, ComputedReal, TablesReal
  <2> QED
    BY <1>2, <2>1 DEF FoundReal, ComputedReal, TablesReal, tableVars, ValueReal, BandReal,
                      RowReal, CardReal, IsMatch
<1>11. EventsReal(reported)'
  <2> DEFINE event == [source |-> s, answer |-> answer, kind |-> kind]
  <2>1. ValueReal(reported', s, StoredStatus(event))
    <3>1. s = "shopify" => kind # "charge.refunded"
      BY <1>1 DEF KindsOf
    <3>2. ValueReal(reported', s, "pending")
      BY DEF ValueReal
    <3>3. CASE kind = "charge.refunded"
      BY <1>5, <3>1, <3>3 DEF StoredStatus, ValueReal
    <3>4. CASE kind # "charge.refunded"
      BY <1>7, <3>2, <3>4 DEF StoredStatus
    <3> QED
      BY <3>3, <3>4
  <2>2. \A k \in Changes \ {n} : change'[k] = change[k] /\ delivery'[k] = delivery[k]
    BY <1>1, <1>2 DEF RealInv, Times, Shape
  <2>3. change'[n] = event /\ delivery'[n] = "sent" /\ event.source = s
    BY <1>1, <1>2 DEF RealInv, Times, Shape
  <2> HIDE DEF event
  <2>4. \A k \in Changes :
          /\ delivery'[k] = "sent" =>
               /\ change'[k].source \in Source
               /\ ValueReal(reported', change'[k].source, StoredStatus(change'[k]))
          /\ delivery'[k] = "updated" =>
               /\ \A r \in update[k].rows : RowReal(reported', r)
               /\ BandReal(reported', update[k].match.band)
    BY <1>6, <2>1, <2>2, <2>3 DEF RealInv, EventsReal
  <2> QED
    BY <1>2, <2>4 DEF EventsReal, ValueReal, BandReal, RowReal, StoredStatus
<1> QED
  BY <1>8, <1>9, <1>10, <1>11 DEF RealInv

\* What a step of an event or the deletion leaves alone.
LEMMA RealElsewhere ==
  ASSUME RealInv, UNCHANGED <<providerVars, pc, localVars>>
  PROVE  TruthOK' /\ FoundReal(reported)' /\ ComputedReal(reported)' /\ (clock' \in Nat => Times')
<1>1. UNCHANGED <<truth, reported, change, pc, found, at, computed>>
  BY DEF providerVars, localVars
<1>2. TruthOK' /\ FoundReal(reported)' /\ ComputedReal(reported)'
  BY <1>1, TruthKept, FoundKept, ComputedKept
<1>3. clock' \in Nat => Times'
  BY <1>1 DEF RealInv, Times
<1> QED
  BY <1>2, <1>3

\* A delivery is handled; nothing else is told of events.
LEMMA RealWhenHandled ==
  ASSUME RealInv, Shape, NEW n \in Changes, UNCHANGED providerVars,
         delivery' = [delivery EXCEPT ![n] = "handled"],
         \A k \in Changes \ {n} : update'[k] = update[k]
  PROVE  EventsReal(reported)'
<1>1. \A k \in Changes : delivery'[k] \in {"sent", "updated"} =>
        k # n /\ delivery'[k] = delivery[k]
  BY DEF Shape
<1> QED
  BY <1>1 DEF RealInv, EventsReal, providerVars, ValueReal, BandReal, RowReal, StoredStatus

\* An event stores its own value, or only that the order is gone.
LEMMA AppliedIsReal ==
  ASSUME NEW T, NEW r, IsRow(r), RowReal(T, r), NEW event, NEW t \in Nat,
         ValueReal(T, r.source, StoredStatus(event))
  PROVE  RowReal(T, Applied(r, event, t))
<1> DEFINE a == Applied(r, event, t)
<1>1. /\ a.source = r.source
      /\ a.fetchedAt \in {r.fetchedAt, t}
      /\ a.isSourceUnavailable \in {r.isSourceUnavailable, TRUE}
      /\ a.value \in {r.value, StoredStatus(event)}
  BY DEF Applied, IsRow
<1> HIDE DEF a
<1> QED
  BY <1>1 DEF RowReal, a

LEMMA RealAtRouteEvent ==
  ASSUME RealInv, RowsInv, NEW n \in Changes, routeEvent(n)
  PROVE  RealInv'
<1> DEFINE s == change[n].source
           updated == {Applied(r, change[n], clock + 1) : r \in Of(rows, s)}
           R == (rows \ Of(rows, s)) \cup updated
<1>1. delivery[n] = "sent" /\ UNCHANGED <<providerVars, tableVars, pc, localVars, selected>>
  BY DEF routeEvent, cardVars
<1>2. clock' \in {clock, clock + 1} /\ clock \in Nat
  <2>1. clock' = clock \/ clock' = clock + 1
    BY DEF routeEvent
  <2> QED
    BY <2>1 DEF RealInv, Times
<1>3. TruthOK' /\ FoundReal(reported)' /\ ComputedReal(reported)' /\ Times'
  BY <1>1, <1>2, RealElsewhere
<1>4. TablesReal(reported)'
  BY <1>1, TablesKept DEF providerVars, tableVars
<1>5. CASE updated = {}
  <2>1. delivery' = [delivery EXCEPT ![n] = "handled"] /\ UNCHANGED update
    BY <1>5 DEF routeEvent
  <2> QED
    BY <1>1, <1>3, <1>4, <2>1, RealWhenHandled DEF RealInv, RowsInv
<1>6. CASE updated # {}
  <2>1. PICK m, locks :
          /\ delivery' = [delivery EXCEPT ![n] = "updated"]
          /\ update' = [update EXCEPT ![n] =
               [rows |-> updated, match |-> m, locks |-> locks]]
          /\ m.band = BandOf(R)
    <3>1. MatchOf(R, clock + 1).band = BandOf(R)
      BY DEF MatchOf
    <3> QED
      BY <1>6, <3>1 DEF routeEvent
  <2>2. \A q \in updated : \E r \in Of(rows, s) :
          q = Applied(r, change[n], clock + 1) /\ IsRow(r) /\ q.source = r.source
    <3> TAKE q \in updated
    <3>1. PICK r \in Of(rows, s) : q = Applied(r, change[n], clock + 1)
      OBVIOUS
    <3>2. IsRow(r)
      BY DEF RowsInv, Shape, Of
    <3> QED
      BY <3>1, <3>2, AppliedKeepsItsPlace DEF SameRow
  <2>3. \A q \in updated : RowReal(reported, q)
    <3> TAKE q \in updated
    <3>1. PICK r \in Of(rows, s) : q = Applied(r, change[n], clock + 1) /\ IsRow(r)
      BY <2>2
    <3>2. r \in rows /\ r.source = s /\ RowReal(reported, r)
      BY DEF Of, RealInv, TablesReal
    <3>3. ValueReal(reported, r.source, StoredStatus(change[n])) /\ clock + 1 \in Nat
      BY <1>1, <1>2, <3>2 DEF RealInv, EventsReal
    <3> QED
      BY <3>1, <3>2, <3>3, AppliedIsReal
  <2>4. \A r, q \in R : r.source = q.source => r = q
    BY <2>2 DEF RowsInv, OneRowPerSource, Of
  <2>5. \A r \in R : RowReal(reported, r)
    BY <2>3 DEF RealInv, TablesReal
  <2>6. BandReal(reported, m.band)
    <3> HIDE DEF R
    <3> QED
      BY <2>1, <2>4, <2>5, BandOfRealRows
  <2> HIDE DEF updated, R
  <2>7. /\ delivery'[n] = "updated" /\ update'[n].rows = updated /\ update'[n].match = m
        /\ \A k \in Changes \ {n} : delivery'[k] = delivery[k] /\ update'[k] = update[k]
    BY <2>1 DEF RowsInv, Shape
  <2>8. EventsReal(reported)'
    <3>1. \A k \in Changes :
            /\ delivery'[k] = "sent" =>
                 /\ change[k].source \in Source
                 /\ ValueReal(reported, change[k].source, StoredStatus(change[k]))
            /\ delivery'[k] = "updated" =>
                 /\ \A r \in update'[k].rows : RowReal(reported, r)
                 /\ BandReal(reported, update'[k].match.band)
      BY <2>3, <2>6, <2>7 DEF RealInv, EventsReal
    <3> QED
      BY <1>1, <3>1 DEF EventsReal, ValueReal, BandReal, RowReal, StoredStatus, providerVars
  <2> QED
    BY <1>3, <1>4, <2>8 DEF RealInv
<1> QED
  BY <1>5, <1>6

LEMMA RealAtCommitEvent ==
  ASSUME RealInv, Shape, NEW n \in Changes, commitEvent(n)
  PROVE  RealInv'
<1>1. /\ delivery[n] = "updated"
      /\ rows' = {r \in rows : \A q \in update[n].rows : ~ SameRow(r, q)}
                 \cup update[n].rows
      /\ match' = Store(match, update[n].match)
      /\ update' = [update EXCEPT ![n] = None]
      /\ delivery' = [delivery EXCEPT ![n] = "handled"]
      /\ UNCHANGED <<providerVars, card, clock, pc, localVars, selected>>
  BY DEF commitEvent, cardVars
<1>2. TruthOK' /\ FoundReal(reported)' /\ ComputedReal(reported)' /\ Times'
  BY <1>1, RealElsewhere DEF RealInv, Times
<1>3. /\ \A r \in update[n].rows : RowReal(reported, r)
      /\ BandReal(reported, update[n].match.band)
  BY <1>1 DEF RealInv, EventsReal
<1>4. \A m \in match' : BandReal(reported, m.band)
  BY <1>1, <1>3, StoredBands DEF RealInv, TablesReal
<1>5. TablesReal(reported)'
  BY <1>1, <1>3, <1>4
     DEF RealInv, TablesReal, CardReal, RowReal, ValueReal, BandReal, providerVars
<1>6. \A k \in Changes \ {n} : update'[k] = update[k]
  BY <1>1 DEF Shape
<1> QED
  BY <1>1, <1>2, <1>5, <1>6, RealWhenHandled DEF RealInv

LEMMA RealAtDeletion ==
  ASSUME RealInv, Shape, handleTicketDeleted
  PROVE  RealInv'
<1>1. /\ rows' = {[r EXCEPT !.isSourceUnavailable = TRUE] : r \in rows}
      /\ UNCHANGED <<providerVars, delivery, update, match, card, clock, pc, localVars, selected>>
  BY DEF handleTicketDeleted, cardVars
<1>2. TruthOK' /\ FoundReal(reported)' /\ ComputedReal(reported)' /\ Times'
  BY <1>1, RealElsewhere DEF RealInv, Times
<1>3. EventsReal(reported)'
  BY <1>1, EventsKept DEF providerVars
<1>4. \A r \in rows : RowReal(reported, [r EXCEPT !.isSourceUnavailable = TRUE])
  <2> TAKE r \in rows
  <2>1. IsRow(r) /\ RowReal(reported, r)
    BY DEF Shape, RealInv, TablesReal
  <2> DEFINE a == [r EXCEPT !.isSourceUnavailable = TRUE]
  <2>2. /\ a.source = r.source /\ a.fetchedAt = r.fetchedAt /\ a.value = r.value
        /\ a.isSourceUnavailable = TRUE
    BY <2>1 DEF IsRow
  <2> HIDE DEF a
  <2>3. RowReal(reported, a)
    BY <2>1, <2>2 DEF RowReal
  <2> QED
    BY <2>3 DEF a
<1>5. TablesReal(reported)'
  <2>1. \A r \in rows' : RowReal(reported, r)
    BY <1>1, <1>4
  <2> QED
    BY <1>1, <2>1
       DEF RealInv, TablesReal, CardReal, RowReal, ValueReal, BandReal, providerVars
<1> QED
  BY <1>2, <1>3, <1>5 DEF RealInv

LEMMA RealPreserved == RealInv /\ RowsInv /\ [Next]_evidenceVars => RealInv'
<1> SUFFICES ASSUME RealInv, RowsInv, [Next]_evidenceVars PROVE RealInv'
  OBVIOUS
<1>1. Shape
  BY DEF RowsInv
<1>2. CASE \E n \in Changes, s \in Source : ProviderChanges(n, s)
  BY <1>1, <1>2, RealAtProviderChange
<1>3. CASE \E p \in Ingestions : ingestTicketContext(p)
  BY <1>3, RealAtIngestion
<1>4. ASSUME NEW n \in Changes, missEvent(n) PROVE RealInv'
  <2>1. /\ delivery' = [delivery EXCEPT ![n] = "handled"]
        /\ UNCHANGED <<providerVars, update, tableVars, clock, pc, localVars, selected>>
    BY <1>4 DEF missEvent, cardVars
  <2>2. TruthOK' /\ FoundReal(reported)' /\ ComputedReal(reported)' /\ Times'
    BY <2>1, RealElsewhere DEF RealInv, Times
  <2>3. EventsReal(reported)' /\ TablesReal(reported)'
    BY <1>1, <2>1, RealWhenHandled, TablesKept DEF providerVars, tableVars
  <2> QED
    BY <2>2, <2>3 DEF RealInv
<1>5. CASE \E n \in Changes : EventStep(n)
  BY <1>1, <1>4, <1>5, RealAtRouteEvent, RealAtCommitEvent DEF EventStep
<1>6. CASE handleTicketDeleted
  BY <1>1, <1>6, RealAtDeletion
<1>7. ASSUME NEW a \in Completions, ActionCompletes(a) PROVE RealInv'
  <2>1. /\ rebuildCardState(a) \/ upsertCardState(a)
        /\ UNCHANGED <<providerVars, delivery, update, clock, pc, localVars>>
    BY <1>7 DEF ActionCompletes
  <2>2. TruthOK' /\ FoundReal(reported)' /\ ComputedReal(reported)' /\ Times'
    BY <2>1, RealElsewhere DEF RealInv, Times
  <2>3. EventsReal(reported)'
    BY <2>1, EventsKept DEF providerVars
  <2>4. TablesReal(reported) /\ reported' = reported
    BY <2>1 DEF RealInv, providerVars
  <2>5. TablesReal(reported)'
    BY <2>1, <2>4, SelectedCard, UpsertedCard
  <2> QED
    BY <2>2, <2>3, <2>5 DEF RealInv
<1>8. CASE UNCHANGED evidenceVars
  <2>1. UNCHANGED <<providerVars, delivery, update, tableVars, clock, pc, localVars, selected>>
    BY <1>8 DEF evidenceVars, cardVars
  <2>2. TruthOK' /\ FoundReal(reported)' /\ ComputedReal(reported)' /\ Times'
    BY <2>1, RealElsewhere DEF RealInv, Times
  <2>3. EventsReal(reported)' /\ TablesReal(reported)'
    BY <2>1, EventsKept, TablesKept DEF providerVars, tableVars
  <2> QED
    BY <2>2, <2>3 DEF RealInv
<1> QED
  BY <1>2, <1>3, <1>5, <1>6, <1>7, <1>8 DEF Next

(***************************************************************************)
(* However ingestions, events, the deletion and completions overlap, and   *)
(* whatever becomes of the refund, a stored or shown band that reads as    *)
(* "this refund is established", and a refund shown as made, have been     *)
(* reported by the provider (services/matching.ts, rebuildCardState).      *)
(***************************************************************************)
THEOREM HighBandsAreReported == Spec => []HighBandsAreReal
<1>1. RealInv => HighBandsAreReal
  BY DEF RealInv, TablesReal, CardReal, BandReal, HighBandsAreReal
<1> QED
  BY <1>1, RowsInitially, RowsPreserved, RealInitially, RealPreserved, PTL DEF Spec

-----------------------------------------------------------------------------
(***************************************************************************)
(* QuietRefreshRepairs.  An ingestion that nothing has disturbed is alone, *)
(* what it read is still so, and what it stored is all there is: Quiet     *)
(* says this statement by statement.  LedInv says of the tables what this  *)
(* needs, whoever writes them.                                             *)
(***************************************************************************)
\* Rows are rows, whatever a provider answers.
RowTypes ==
  /\ rows \subseteq EvidenceRow
  /\ \A n \in Changes : delivery[n] = "updated" => update[n].rows \subseteq EvidenceRow
  /\ truth["shopify"].value # "canceled"
  /\ \A p \in Ingestions, s \in Source :
       found[p][s] # None =>
         /\ found[p][s].value \in Maybe(Value \cup {"canceled"})
         /\ s = "shopify" => found[p][s].value # "canceled"
  /\ \A p \in Ingestions : pc[p] = "commit" => ~Unstorable(found[p]["stripe"])

\* Only what the text has a reference to is looked up and stored.
RowsLed ==
  /\ \A r \in rows : r.source \in Leads
  /\ \A p \in Ingestions, s \in Source : found[p][s] # None => s \in Leads

ThreadsOwn == \A p \in Ingestions : thread[p] \in {None, p}

\* No match is of a later time than now.
NotLater ==
  /\ \A m \in match : m.computedAt \in 0..clock
  /\ \A n \in Changes : delivery[n] = "updated" => update[n].match.computedAt \in 0..clock

LedInv == RowTypes /\ RowsLed /\ ThreadsOwn /\ NotLater

Lonely(p) ==
  /\ p \in Ingestions /\ Running(p) /\ \A q \in Ingestions \ {p} : ~Running(q)
  /\ \A n \in Changes : delivery[n] # "updated"

Fresh(p) ==
  \A s \in Source :
    found[p][s] # None =>
      /\ found[p][s].value = IF truth[s].archived THEN None ELSE truth[s].value
      /\ found[p][s].archived = truth[s].archived

\* It has read all there is, as far as it has come.
HasRead(p) ==
  /\ pc[p] \in {"lookupStripe", "lookupShopify", "begin", "commit"} => thread[p] # None
  /\ pc[p] \in {"lookupShopify", "begin", "commit"} /\ "stripe" \in Leads =>
       found[p]["stripe"] # None
  /\ pc[p] \in {"begin", "commit"} /\ "shopify" \in Leads => found[p]["shopify"] # None

\* The rows are p's, and those of the providers' records now.
RowsTrue(p) ==
  /\ {r.source : r \in rows} = Leads
  /\ \A r \in rows :
       /\ r.id = p /\ r.isSourceUnavailable = truth[r.source].archived
       /\ r.value = IF truth[r.source].archived THEN None ELSE truth[r.source].value

Persisted(p) ==
  pc[p] \in {"select", "insert", "rebuild", "upsert"} =>
    messages = p /\ spans = p /\ RowsTrue(p)

Matched(p) ==
  /\ pc[p] = "insert" => rows # {} /\ computed[p] = MatchOf(rows, 0)
  /\ pc[p] \in {"rebuild", "upsert"} /\ rows # {} => BandOfRow(Anchor(rows)) = BandOf(rows)
  /\ pc[p] = "upsert" => selected[p] \in CurrentCards

Quiet(p) == Lonely(p) /\ Fresh(p) /\ HasRead(p) /\ Persisted(p) /\ Matched(p)

QuietInv == \A p \in undisturbed : Quiet(p)

-----------------------------------------------------------------------------
LEMMA LedInitially == Init => LedInv
<1> SUFFICES ASSUME Init PROVE LedInv
  OBVIOUS
<1>1. /\ pc = [p \in Ingestions |-> "idle"] /\ rows = {} /\ match = {}
      /\ found = [p \in Ingestions |-> [s \in Source |-> None]]
      /\ thread = [p \in Ingestions |-> None]
      /\ delivery = [n \in Changes |-> "none"] /\ clock = 0
  BY DEF Init
<1>2. truth["shopify"].value = "paid"
  BY DEF Init, Source
<1>3. RowTypes
  BY <1>1, <1>2 DEF RowTypes
<1>4. RowsLed /\ ThreadsOwn /\ NotLater
  BY <1>1 DEF RowsLed, ThreadsOwn, NotLater
<1> QED
  BY <1>3, <1>4 DEF LedInv

\* Time goes on, and no ingestion gets to its commit.
LEMMA LedElsewhere ==
  ASSUME LedInv, UNCHANGED <<truth, found, thread, rows, delivery, update, match>>,
         clock \in Nat, clock' \in Nat, clock <= clock',
         \A p \in Ingestions : pc'[p] = "commit" => pc[p] = "commit"
  PROVE  LedInv'
<1>1. RowTypes'
  BY DEF LedInv, RowTypes, Unstorable
<1>2. RowsLed' /\ ThreadsOwn'
  BY DEF LedInv, RowsLed, ThreadsOwn
<1>3. NotLater'
  BY DEF LedInv, NotLater
<1> QED
  BY <1>1, <1>2, <1>3 DEF LedInv

LEMMA LedAtTheEnd ==
  ASSUME LedInv, RowsInv, NEW p \in Ingestions, NEW l \in {"done", "failed"}, End(p, l),
         UNCHANGED <<truth, rows, delivery, update, match, clock>>
  PROVE  LedInv'
<1>1. /\ \A q \in Ingestions \ {p} : /\ pc'[q] = pc[q] /\ thread'[q] = thread[q]
                                    /\ found'[q] = found[q]
      /\ pc'[p] = l /\ thread'[p] = None /\ \A s \in Source : found'[p][s] = None
  BY DEF End, Forget, Goto, RowsInv, Shape
<1>2. RowTypes'
  <2>1. \A q \in Ingestions, s \in Source : found'[q][s] # None => found'[q][s] = found[q][s]
    BY <1>1
  <2>2. \A q \in Ingestions : pc'[q] = "commit" => ~Unstorable(found'[q]["stripe"])
    BY <1>1 DEF LedInv, RowTypes
  <2>3. \A q \in Ingestions, s \in Source :
          found'[q][s] # None =>
            /\ found'[q][s].value \in Maybe(Value \cup {"canceled"})
            /\ s = "shopify" => found'[q][s].value # "canceled"
    BY <2>1 DEF LedInv, RowTypes
  <2> QED
    BY <2>2, <2>3 DEF LedInv, RowTypes
<1>3. RowsLed' /\ ThreadsOwn'
  BY <1>1 DEF LedInv, RowsLed, ThreadsOwn
<1>4. NotLater'
  BY DEF LedInv, NotLater
<1> QED
  BY <1>2, <1>3, <1>4 DEF LedInv

LEMMA LedAtReading ==
  ASSUME LedInv, RowsInv, RealInv, NEW p \in Ingestions,
         readTicket(p) \/ lookupStripe(p) \/ lookupShopify(p)
  PROVE  LedInv'
<1>0. UNCHANGED <<truth, rows, delivery, update, match, clock>>
  BY DEF readTicket, lookupStripe, lookupShopify, lookup, world, providerVars, tableVars
<1>1. \A q \in Ingestions : pc'[q] = "commit" => pc[q] = "commit"
  BY DEF readTicket, lookupStripe, lookupShopify, lookup, Goto, RowsInv, Shape
<1>2. CASE readTicket(p)
  <2>1. UNCHANGED found /\ (thread' = [thread EXCEPT ![p] = p] \/ thread' = thread)
    BY <1>2 DEF readTicket
  <2>2. ThreadsOwn'
    BY <2>1 DEF LedInv, ThreadsOwn, RowsInv, Shape
  <2> QED
    BY <1>0, <1>1, <2>1, <2>2 DEF LedInv, RowTypes, RowsLed, NotLater, Unstorable
<1>3. CASE lookupStripe(p) \/ lookupShopify(p)
  <2>1. PICK s \in Source, to \in {"lookupShopify", "begin"}, from \in PCs :
          lookup(p, s, from, to)
    BY <1>3 DEF lookupStripe, lookupShopify, Source, PCs
  <2>2. PICK answer \in LookedUp(p, s) : found' = [found EXCEPT ![p][s] = answer]
    BY <2>1 DEF lookup
  <2>3. UNCHANGED thread /\ pc' = [pc EXCEPT ![p] = to]
    BY <2>1 DEF lookup, Goto
  <2>4. /\ \A q \in Ingestions \ {p} : found'[q] = found[q] /\ pc'[q] = pc[q]
        /\ \A x \in Source : found'[p][x] = IF x = s THEN answer ELSE found[p][x]
        /\ pc'[p] = to
    BY <2>2, <2>3 DEF RowsInv, Shape
  <2>5. answer # None =>
          /\ s \in Leads
          /\ answer.value \in Maybe(Value \cup {"canceled"})
          /\ s = "shopify" => answer.value # "canceled"
    <3>1. truth[s] \in Answer /\ truth["shopify"].value # "canceled"
      BY DEF RealInv, TruthOK, LedInv, RowTypes
    <3>2. answer # None =>
            s \in Leads
            /\ answer = [truth[s] EXCEPT !.value = IF truth[s].archived THEN None ELSE @]
      BY <2>2 DEF LookedUp
    <3>3. None # "canceled"
      BY EvidenceAssumption
    <3> QED
      BY <3>1, <3>2, <3>3 DEF Answer, Maybe
  <2>6. RowTypes'
    <3>1. \A q \in Ingestions, x \in Source :
            found'[q][x] # None =>
              /\ found'[q][x].value \in Maybe(Value \cup {"canceled"})
              /\ x = "shopify" => found'[q][x].value # "canceled"
      <4> SUFFICES ASSUME NEW q \in Ingestions, NEW x \in Source, found'[q][x] # None
                   PROVE  /\ found'[q][x].value \in Maybe(Value \cup {"canceled"})
                          /\ x = "shopify" => found'[q][x].value # "canceled"
        OBVIOUS
      <4>1. CASE q = p /\ x = s
        BY <2>4, <2>5, <4>1
      <4>2. CASE ~(q = p /\ x = s)
        <5>1. found'[q][x] = found[q][x]
          BY <2>4, <4>2
        <5> QED
          BY <5>1 DEF LedInv, RowTypes
      <4> QED
        BY <4>1, <4>2
    <3>2. \A q \in Ingestions : pc'[q] = "commit" => ~Unstorable(found'[q]["stripe"])
      BY <2>4 DEF LedInv, RowTypes
    <3> QED
      BY <1>0, <3>1, <3>2 DEF LedInv, RowTypes
  <2>7. RowsLed' /\ ThreadsOwn' /\ NotLater'
    BY <1>0, <2>3, <2>4, <2>5 DEF LedInv, RowsLed, ThreadsOwn, NotLater
  <2> QED
    BY <2>6, <2>7 DEF LedInv
<1> QED
  BY <1>2, <1>3

LEMMA LedAtBegin ==
  ASSUME LedInv, RowsInv, RealInv, NEW p \in Ingestions, beginPersist(p)
  PROVE  LedInv'
<1>1. UNCHANGED <<truth, rows, delivery, update, match>>
  BY DEF beginPersist, world, providerVars, tableVars
<1>2. CASE End(p, "failed") /\ UNCHANGED clock
  BY <1>1, <1>2, LedAtTheEnd
<1>3. CASE ~(End(p, "failed") /\ UNCHANGED clock)
  <2>1. /\ ~Unstorable(found[p]["stripe"]) /\ pc' = [pc EXCEPT ![p] = "commit"]
        /\ clock' = clock + 1 /\ UNCHANGED <<thread, found>>
    BY <1>3 DEF beginPersist, Goto
  <2>2. \A q \in Ingestions : pc'[q] = "commit" => ~Unstorable(found'[q]["stripe"])
    BY <2>1 DEF LedInv, RowTypes, RowsInv, Shape
  <2>3. RowTypes'
    BY <1>1, <2>1, <2>2 DEF LedInv, RowTypes
  <2>4. NotLater'
    BY <1>1, <2>1 DEF LedInv, NotLater, RealInv, Times
  <2>5. RowsLed' /\ ThreadsOwn'
    BY <1>1, <2>1 DEF LedInv, RowsLed, ThreadsOwn
  <2> QED
    BY <2>3, <2>4, <2>5 DEF LedInv
<1> QED
  BY <1>2, <1>3

LEMMA LedAtCommit ==
  ASSUME LedInv, RowsInv, RealInv, NEW p \in Ingestions, commitPersist(p)
  PROVE  LedInv'
<1>1. /\ pc[p] = "commit" /\ rows' = {r \in rows : ~Replaces(p, r)} \cup Inserted(p)
      /\ match' \subseteq match /\ pc' = [pc EXCEPT ![p] = "select"]
      /\ thread' = [thread EXCEPT ![p] = None]
      /\ found' = [found EXCEPT ![p] = [s \in Source |-> None]]
      /\ UNCHANGED <<truth, delivery, update, clock>>
  BY DEF commitPersist, Forget, Goto, world, providerVars
<1>0. /\ \A q \in Ingestions \ {p} : pc'[q] = pc[q] /\ thread'[q] = thread[q] /\ found'[q] = found[q]
      /\ pc'[p] = "select" /\ thread'[p] = None /\ \A s \in Source : found'[p][s] = None
  BY <1>1 DEF RowsInv, Shape
<1>2. \A r \in Inserted(p) : r \in EvidenceRow /\ r.source \in Leads
  <2> SUFFICES ASSUME NEW s \in Source, found[p][s] # None
               PROVE  /\ [source |-> s, id |-> p, value |-> found[p][s].value, fetchedAt |-> at[p],
                          isSourceUnavailable |-> found[p][s].archived] \in EvidenceRow
                      /\ s \in Leads
    BY DEF Inserted
  <2>1. found[p][s].archived \in BOOLEAN /\ at[p] \in Nat
    BY DEF RealInv, FoundReal, Times
  <2>2. found[p][s].value \in Maybe(Value)
    <3>1. ~Unstorable(found[p]["stripe"])
      BY <1>1 DEF LedInv, RowTypes
    <3>2. /\ found[p][s].value \in Maybe(Value \cup {"canceled"})
          /\ s = "shopify" => found[p][s].value # "canceled"
      BY DEF LedInv, RowTypes
    <3>3. s = "stripe" => found[p][s].value # "canceled"
      BY <3>1 DEF Unstorable
    <3> QED
      BY <3>2, <3>3 DEF Source, Maybe
  <2> QED
    BY <2>1, <2>2 DEF EvidenceRow, LedInv, RowsLed
<1>4. RowTypes'
  <2>1. \A q \in Ingestions : pc'[q] = "commit" => ~Unstorable(found'[q]["stripe"])
    BY <1>0 DEF LedInv, RowTypes
  <2>2. \A q \in Ingestions, s \in Source :
          found'[q][s] # None =>
            /\ found'[q][s].value \in Maybe(Value \cup {"canceled"})
            /\ s = "shopify" => found'[q][s].value # "canceled"
    BY <1>0 DEF LedInv, RowTypes
  <2> QED
    BY <1>1, <1>2, <2>1, <2>2 DEF LedInv, RowTypes
<1>5. RowsLed' /\ ThreadsOwn' /\ NotLater'
  BY <1>0, <1>1, <1>2 DEF LedInv, RowsLed, ThreadsOwn, NotLater
<1> QED
  BY <1>4, <1>5 DEF LedInv

LEMMA LedAtInsert ==
  ASSUME LedInv, RowsInv, RealInv, NEW p \in Ingestions, insertMatch(p)
  PROVE  LedInv'
<1>1. pc[p] = "insert" /\ UNCHANGED <<truth, rows, delivery, update>>
  BY DEF insertMatch, world, providerVars
<1>2. CASE End(p, "failed") /\ UNCHANGED <<match, clock>>
  BY <1>1, <1>2, LedAtTheEnd
<1>3. CASE ~(End(p, "failed") /\ UNCHANGED <<match, clock>>)
  <2> DEFINE m == [computed[p] EXCEPT !.computedAt = clock + 1]
  <2>1. /\ match' = Store(match, m) /\ clock' = clock + 1
        /\ pc' = [pc EXCEPT ![p] = "rebuild"] /\ UNCHANGED <<thread, found>>
    BY <1>3 DEF insertMatch, Goto
  <2>2. m.computedAt = clock + 1
    BY <1>1 DEF RealInv, ComputedReal, IsMatch
  <2> HIDE DEF m
  <2>3. match' \subseteq match \cup {m}
    BY <2>1 DEF Store
  <2>4. NotLater'
    BY <1>1, <2>1, <2>2, <2>3 DEF LedInv, NotLater, RealInv, Times
  <2>5. \A q \in Ingestions : pc'[q] = "commit" => pc[q] = "commit"
    BY <2>1 DEF RowsInv, Shape
  <2>6. RowTypes'
    BY <1>1, <2>1, <2>5 DEF LedInv, RowTypes
  <2>7. RowsLed' /\ ThreadsOwn'
    BY <1>1, <2>1 DEF LedInv, RowsLed, ThreadsOwn
  <2> QED
    BY <2>4, <2>6, <2>7 DEF LedInv
<1> QED
  BY <1>2, <1>3

LEMMA LedAtIngestion ==
  ASSUME LedInv, RowsInv, RealInv, NEW p \in Ingestions, ingestTicketContext(p)
  PROVE  LedInv'
<1>1. CASE start(p) \/ selectEvidence(p) \/ rebuild(p)
  <2>1. UNCHANGED <<truth, found, thread, rows, delivery, update, match, clock>>
    BY <1>1 DEF start, selectEvidence, rebuild, rebuildCardState, world, providerVars, tableVars,
                localVars
  <2>2. \A q \in Ingestions : pc'[q] = "commit" => pc[q] = "commit"
    BY <1>1 DEF start, selectEvidence, rebuild, Goto, RowsInv, Shape
  <2> QED
    BY <2>1, <2>2, LedElsewhere DEF RealInv, Times
<1>2. CASE persistAborted(p) \/ upsert(p)
  BY <1>2, LedAtTheEnd DEF persistAborted, upsert, upsertCardState, world, providerVars, tableVars
<1> QED
  BY <1>1, <1>2, LedAtReading, LedAtBegin, LedAtCommit, LedAtInsert DEF ingestTicketContext

-----------------------------------------------------------------------------
LEMMA LedAtProviderChange ==
  ASSUME LedInv, RowsInv, RealInv, NEW n \in Changes, NEW s \in Source, ProviderChanges(n, s)
  PROVE  LedInv'
<1>1. /\ UNCHANGED <<found, thread, rows, update, match, clock, pc>>
      /\ delivery' = [delivery EXCEPT ![n] = "sent"]
  BY DEF ProviderChanges, tableVars, localVars
<1>2. truth'["shopify"].value # "canceled"
  <2>1. PICK answer \in {[value |-> v, archived |-> FALSE] : v \in NextValues(s)} \cup
                        (IF s = "shopify"
                         THEN {[value |-> truth[s].value, archived |-> TRUE]} ELSE {}) :
          truth' = [truth EXCEPT ![s] = answer]
    BY DEF ProviderChanges
  <2>2. s = "shopify" => answer.value \in {"refunded", truth[s].value}
    BY <2>1 DEF NextValues
  <2>3. truth'["shopify"] = IF s = "shopify" THEN answer ELSE truth["shopify"]
    BY <2>1 DEF RealInv, TruthOK, Source
  <2> QED
    BY <2>2, <2>3 DEF LedInv, RowTypes
<1>3. \A k \in Changes : delivery'[k] = "updated" => delivery[k] = "updated"
  BY <1>1 DEF RowsInv, Shape
<1>4. RowTypes'
  BY <1>1, <1>2, <1>3 DEF LedInv, RowTypes, Unstorable
<1>5. RowsLed' /\ ThreadsOwn' /\ NotLater'
  BY <1>1, <1>3 DEF LedInv, RowsLed, ThreadsOwn, NotLater
<1> QED
  BY <1>4, <1>5 DEF LedInv

\* An event has no row to update, or there is nothing more to do for it.
LEMMA LedWhenHandled ==
  ASSUME LedInv, RowsInv, NEW n \in Changes, delivery' = [delivery EXCEPT ![n] = "handled"],
         UNCHANGED <<truth, found, thread, rows, update, match, clock, pc>>
  PROVE  LedInv'
<1>1. \A k \in Changes : delivery'[k] = "updated" => delivery[k] = "updated"
  BY DEF RowsInv, Shape
<1>2. RowTypes'
  BY <1>1 DEF LedInv, RowTypes, Unstorable
<1>3. RowsLed' /\ ThreadsOwn' /\ NotLater'
  BY <1>1 DEF LedInv, RowsLed, ThreadsOwn, NotLater
<1> QED
  BY <1>2, <1>3 DEF LedInv

LEMMA LedAtRouteEvent ==
  ASSUME LedInv, RowsInv, RealInv, NEW n \in Changes, routeEvent(n)
  PROVE  LedInv'
<1> DEFINE s == change[n].source
           updated == {Applied(r, change[n], clock + 1) : r \in Of(rows, s)}
           R == (rows \ Of(rows, s)) \cup updated
<1>1. UNCHANGED <<truth, found, thread, rows, match, pc>>
  BY DEF routeEvent, providerVars, tableVars, localVars
<1>2. CASE updated = {}
  <2>1. delivery' = [delivery EXCEPT ![n] = "handled"] /\ UNCHANGED <<update, clock>>
    BY <1>2 DEF routeEvent
  <2> QED
    BY <1>1, <2>1, LedWhenHandled
<1>3. CASE updated # {}
  <2>1. /\ delivery' = [delivery EXCEPT ![n] = "updated"] /\ clock' = clock + 1
        /\ update' = [update EXCEPT ![n] =
             [rows |-> updated, match |-> MatchOf(R, clock + 1), locks |-> updated \cup {Anchor(R)}]]
    BY <1>3 DEF routeEvent
  <2>2. \A q \in updated : q \in EvidenceRow
    <3> SUFFICES ASSUME NEW r \in rows
                 PROVE  Applied(r, change[n], clock + 1) \in EvidenceRow
      BY DEF Of
    <3>1. r \in EvidenceRow /\ clock + 1 \in Nat
      BY DEF LedInv, RowTypes, RealInv, Times
    <3>2. StoredStatus(change[n]) \in Value
      BY DEF StoredStatus, Value, RefundStatus
    <3> QED
      BY <3>1, <3>2 DEF Applied, EvidenceRow, Maybe
  <2> HIDE DEF updated, R
  <2>3. \A k \in Changes \ {n} : delivery'[k] = delivery[k] /\ update'[k] = update[k]
    BY <2>1 DEF RowsInv, Shape
  <2>4. update'[n].rows = updated /\ update'[n].match.computedAt = clock + 1
    BY <2>1 DEF RowsInv, Shape, MatchOf
  <2>5. RowTypes'
    BY <1>1, <2>2, <2>3, <2>4 DEF LedInv, RowTypes, Unstorable
  <2>6. NotLater'
    BY <1>1, <2>1, <2>3, <2>4 DEF LedInv, NotLater, RealInv, Times
  <2>7. RowsLed' /\ ThreadsOwn'
    BY <1>1 DEF LedInv, RowsLed, ThreadsOwn
  <2> QED
    BY <2>5, <2>6, <2>7 DEF LedInv
<1> QED
  BY <1>2, <1>3

LEMMA LedAtCommitEvent ==
  ASSUME LedInv, RowsInv, NEW n \in Changes, commitEvent(n)
  PROVE  LedInv'
<1>1. /\ delivery[n] = "updated" /\ delivery' = [delivery EXCEPT ![n] = "handled"]
      /\ rows' \subseteq rows \cup update[n].rows
      /\ match' = Store(match, update[n].match)
      /\ update' = [update EXCEPT ![n] = None]
      /\ UNCHANGED <<truth, found, thread, clock, pc>>
  BY DEF commitEvent, providerVars, localVars
<1>2. \A k \in Changes : delivery'[k] = "updated" => delivery[k] = "updated" /\ update'[k] = update[k]
  BY <1>1 DEF RowsInv, Shape
<1>3. \A r \in update[n].rows : r \in EvidenceRow /\ r.source \in Leads
  BY <1>1 DEF LedInv, RowTypes, RowsLed, RowsInv, RowsHeld, SameRow
<1>4. match' \subseteq match \cup {update[n].match}
  BY <1>1 DEF Store
<1>5. RowTypes'
  BY <1>1, <1>2, <1>3 DEF LedInv, RowTypes, Unstorable
<1>6. RowsLed' /\ ThreadsOwn'
  BY <1>1, <1>3 DEF LedInv, RowsLed, ThreadsOwn
<1>7. NotLater'
  BY <1>1, <1>2, <1>4 DEF LedInv, NotLater
<1> QED
  BY <1>5, <1>6, <1>7 DEF LedInv

LEMMA LedAtDeletion ==
  ASSUME LedInv, handleTicketDeleted
  PROVE  LedInv'
<1>1. /\ rows' = {[r EXCEPT !.isSourceUnavailable = TRUE] : r \in rows}
      /\ UNCHANGED <<truth, found, thread, delivery, update, match, clock, pc>>
  BY DEF handleTicketDeleted, providerVars, localVars
<1>2. \A r \in rows' : r \in EvidenceRow /\ r.source \in Leads
  BY <1>1 DEF LedInv, RowTypes, RowsLed, EvidenceRow
<1>3. RowTypes'
  BY <1>1, <1>2 DEF LedInv, RowTypes, Unstorable
<1>4. RowsLed' /\ ThreadsOwn' /\ NotLater'
  BY <1>1, <1>2 DEF LedInv, RowsLed, ThreadsOwn, NotLater
<1> QED
  BY <1>3, <1>4 DEF LedInv

LEMMA LedPreserved == LedInv /\ RowsInv /\ RealInv /\ [Next]_evidenceVars => LedInv'
<1> SUFFICES ASSUME LedInv, RowsInv, RealInv, [Next]_evidenceVars PROVE LedInv'
  OBVIOUS
<1>1. CASE (\E a \in Completions : ActionCompletes(a)) \/ UNCHANGED evidenceVars
  <2>1. UNCHANGED <<truth, found, thread, rows, delivery, update, match, clock, pc>>
    BY <1>1 DEF ActionCompletes, rebuildCardState, upsertCardState, evidenceVars, providerVars,
                tableVars, localVars
  <2> QED
    BY <2>1, LedElsewhere DEF RealInv, Times
<1>2. ASSUME NEW n \in Changes, missEvent(n) PROVE LedInv'
  BY <1>2, LedWhenHandled DEF missEvent, providerVars, tableVars, localVars
<1>3. CASE \E n \in Changes : EventStep(n)
  BY <1>2, <1>3, LedAtRouteEvent, LedAtCommitEvent DEF EventStep
<1> QED
  BY <1>1, <1>3, LedAtProviderChange, LedAtIngestion, LedAtDeletion DEF Next

-----------------------------------------------------------------------------
LEMMA QuietInitially == Init => QuietInv
  BY DEF Init, QuietInv

\* A step of p can leave nobody but p undisturbed.
LEMMA QuietAlone ==
  ASSUME QuietInv, NEW p \in Ingestions, Running(p), undisturbed' \subseteq undisturbed,
         p \in undisturbed' /\ Quiet(p) => Quiet(p)'
  PROVE  QuietInv'
  BY DEF QuietInv, Quiet, Lonely

LEMMA QuietAtTheEnd ==
  ASSUME QuietInv, NEW p \in Ingestions, Running(p), NEW l \in {"done", "failed"}, End(p, l)
  PROVE  QuietInv'
<1>1. undisturbed' = undisturbed \ {p}
  BY DEF End
<1> QED
  BY <1>1, QuietAlone

\* The next statement of p is still p's alone.
LEMMA LonelyKept ==
  ASSUME RowsInv, NEW p \in Ingestions, Lonely(p),
         NEW l \in {"lookupStripe", "lookupShopify", "begin", "commit", "select", "insert",
                    "rebuild", "upsert"},
         pc' = [pc EXCEPT ![p] = l], UNCHANGED delivery
  PROVE  Lonely(p)' /\ pc'[p] = l
<1>1. pc'[p] = l /\ \A q \in Ingestions \ {p} : pc'[q] = pc[q]
  BY DEF RowsInv, Shape
<1>2. Running(p)'
  BY <1>1 DEF Running
<1>3. \A q \in Ingestions \ {p} : ~Running(q)'
  BY <1>1 DEF Lonely, Running
<1> QED
  BY <1>1, <1>2, <1>3 DEF Lonely

LEMMA QuietAtStart ==
  ASSUME QuietInv, RowsInv, NEW p \in Ingestions, start(p)
  PROVE  QuietInv'
<1>1. /\ pc[p] = "idle" /\ pc' = [pc EXCEPT ![p] = "readTicket"]
      /\ UNCHANGED <<found, delivery>>
  BY DEF start, Goto, world, localVars
<1>2. undisturbed' \subseteq {p}
  BY DEF start
<1> SUFFICES ASSUME p \in undisturbed' PROVE Quiet(p)'
  BY <1>2 DEF QuietInv
<1>3. (\A q \in Ingestions : ~Running(q)) /\ \A n \in Changes : delivery[n] # "updated"
  BY DEF start
<1>4. pc'[p] = "readTicket" /\ \A q \in Ingestions \ {p} : pc'[q] = pc[q]
  BY <1>1 DEF RowsInv, Shape
<1>5. Lonely(p)'
  <2>1. Running(p)' /\ \A q \in Ingestions \ {p} : ~Running(q)'
    BY <1>3, <1>4 DEF Running
  <2> QED
    BY <1>1, <1>3, <2>1 DEF Lonely
<1>6. Fresh(p)'
  BY <1>1 DEF Fresh, RowsInv, TextFirst
<1>7. HasRead(p)' /\ Persisted(p)' /\ Matched(p)'
  BY <1>4 DEF HasRead, Persisted, Matched
<1> QED
  BY <1>5, <1>6, <1>7 DEF Quiet

LEMMA QuietAtReadTicket ==
  ASSUME QuietInv, RowsInv, NEW p \in Ingestions, readTicket(p)
  PROVE  QuietInv'
<1>1. /\ pc[p] = "readTicket" /\ pc' = [pc EXCEPT ![p] = "lookupStripe"]
      /\ UNCHANGED <<found, delivery>>
      /\ undisturbed' \subseteq undisturbed
      /\ p \in undisturbed' => thread' = [thread EXCEPT ![p] = p]
  BY DEF readTicket, Goto, world
<1>2. ASSUME Quiet(p), p \in undisturbed' PROVE Quiet(p)'
  <2>1. Lonely(p)' /\ pc'[p] = "lookupStripe"
    BY <1>1, <1>2, LonelyKept DEF Quiet
  <2>2. Fresh(p)'
    BY <1>1 DEF Fresh, RowsInv, TextFirst
  <2>3. thread'[p] = p /\ p # None
    BY <1>1, <1>2, EvidenceAssumption DEF RowsInv, Shape
  <2>4. HasRead(p)' /\ Persisted(p)' /\ Matched(p)'
    BY <2>1, <2>3 DEF HasRead, Persisted, Matched
  <2> QED
    BY <2>1, <2>2, <2>4 DEF Quiet
<1> QED
  BY <1>1, <1>2, QuietAlone DEF Running

LEMMA QuietAtLookup ==
  ASSUME QuietInv, RowsInv, RealInv, NEW p \in Ingestions, lookupStripe(p) \/ lookupShopify(p)
  PROVE  QuietInv'
<1>1. PICK s \in Source, to \in {"lookupShopify", "begin"},
           from \in {"lookupStripe", "lookupShopify"} :
        /\ lookup(p, s, from, to)
        /\ \/ s = "stripe" /\ from = "lookupStripe" /\ to = "lookupShopify"
           \/ s = "shopify" /\ from = "lookupShopify" /\ to = "begin"
  BY DEF lookupStripe, lookupShopify, Source
<1>2. /\ pc[p] = from /\ pc' = [pc EXCEPT ![p] = to]
      /\ UNCHANGED <<truth, delivery, thread>>
  BY <1>1 DEF lookup, Goto, world, providerVars
<1>3. PICK answer \in LookedUp(p, s) :
        /\ found' = [found EXCEPT ![p][s] = answer]
        /\ undisturbed' \subseteq undisturbed
        /\ p \in undisturbed' /\ s \in Leads => answer # None
  BY <1>1 DEF lookup
<1>4. ASSUME Quiet(p), p \in undisturbed' PROVE Quiet(p)'
  <2>1. Lonely(p)' /\ pc'[p] = to
    BY <1>2, <1>4, LonelyKept DEF Quiet
  <2>2. \A x \in Source : found'[p][x] = IF x = s THEN answer ELSE found[p][x]
    BY <1>3 DEF RowsInv, Shape
  <2>3. answer # None =>
          /\ answer.value = IF truth[s].archived THEN None ELSE truth[s].value
          /\ answer.archived = truth[s].archived
    <3>1. truth[s] \in Answer
      BY DEF RealInv, TruthOK
    <3>2. answer # None =>
            answer = [truth[s] EXCEPT !.value = IF truth[s].archived THEN None ELSE @]
      BY <1>3 DEF LookedUp
    <3> QED
      BY <3>1, <3>2 DEF Answer
  <2>4. Fresh(p)'
    BY <1>2, <1>4, <2>2, <2>3 DEF Quiet, Fresh
  <2>5. HasRead(p)'
    BY <1>1, <1>2, <1>3, <1>4, <2>1, <2>2 DEF Quiet, HasRead, Source
  <2>6. Persisted(p)' /\ Matched(p)'
    BY <2>1 DEF Persisted, Matched
  <2> QED
    BY <2>1, <2>4, <2>5, <2>6 DEF Quiet
<1> QED
  BY <1>2, <1>3, <1>4, QuietAlone DEF Running

LEMMA QuietAtBegin ==
  ASSUME QuietInv, RowsInv, NEW p \in Ingestions, beginPersist(p)
  PROVE  QuietInv'
<1>1. pc[p] = "begin" /\ UNCHANGED <<truth, delivery>>
  BY DEF beginPersist, world, providerVars
<1>2. CASE End(p, "failed")
  BY <1>1, <1>2, QuietAtTheEnd DEF Running
<1>3. CASE ~End(p, "failed")
  <2>1. pc' = [pc EXCEPT ![p] = "commit"] /\ UNCHANGED <<thread, found, undisturbed>>
    BY <1>3 DEF beginPersist, Goto
  <2>2. ASSUME Quiet(p) PROVE Quiet(p)'
    <3>1. Lonely(p)' /\ pc'[p] = "commit"
      BY <1>1, <2>1, <2>2, LonelyKept DEF Quiet
    <3>2. Fresh(p)' /\ HasRead(p)' /\ Persisted(p)' /\ Matched(p)'
      BY <1>1, <2>1, <2>2, <3>1 DEF Quiet, Fresh, HasRead, Persisted, Matched
    <3> QED
      BY <3>1, <3>2 DEF Quiet
  <2> QED
    BY <1>1, <2>1, <2>2, QuietAlone DEF Running
<1> QED
  BY <1>2, <1>3

\* What is inserted for an ingestion that has read all there is.
LEMMA InsertedIsTrue ==
  ASSUME NEW p \in Ingestions, Fresh(p), \A s \in Leads : found[p][s] # None,
         \A s \in Source : found[p][s] # None => s \in Leads, rows' = Inserted(p),
         UNCHANGED truth
  PROVE  RowsTrue(p)'
<1>1. {s \in Source : found[p][s] # None} = Leads
  BY EvidenceAssumption
<1>2. rows' = {[source |-> s, id |-> p, value |-> found[p][s].value, fetchedAt |-> at[p],
               isSourceUnavailable |-> found[p][s].archived] : s \in Leads}
  BY <1>1 DEF Inserted
<1>3. {r.source : r \in rows'} = Leads
  <2>1. \A r \in rows' : r.source \in Leads
    BY <1>2
  <2>2. ASSUME NEW s \in Leads PROVE \E r \in rows' : r.source = s
    <3>1. [source |-> s, id |-> p, value |-> found[p][s].value, fetchedAt |-> at[p],
           isSourceUnavailable |-> found[p][s].archived] \in rows'
      BY <1>2
    <3> QED
      BY <3>1
  <2> QED
    BY <2>1, <2>2
<1>4. \A s \in Leads :
        /\ found[p][s].value = IF truth[s].archived THEN None ELSE truth[s].value
        /\ found[p][s].archived = truth[s].archived
  BY EvidenceAssumption DEF Fresh
<1>5. \A r \in rows' :
        /\ r.id = p /\ r.isSourceUnavailable = truth[r.source].archived
        /\ r.value = IF truth[r.source].archived THEN None ELSE truth[r.source].value
  BY <1>2, <1>4
<1> QED
  BY <1>3, <1>5 DEF RowsTrue

\* Every row there was has been seen and is replaced, every message is p's.
LEMMA QuietAtCommit ==
  ASSUME QuietInv, LedInv, RowsInv, NEW p \in Ingestions, commitPersist(p)
  PROVE  QuietInv'
<1>1. /\ pc[p] = "commit" /\ pc' = [pc EXCEPT ![p] = "select"]
      /\ rows' = {r \in rows : ~Replaces(p, r)} \cup Inserted(p)
      /\ spans' = thread[p] /\ (thread[p] # None => messages' = thread[p])
      /\ found' = [found EXCEPT ![p] = [s \in Source |-> None]]
      /\ UNCHANGED <<truth, delivery, undisturbed>>
  BY DEF commitPersist, Forget, Goto, StoredSpans, world, providerVars
<1>2. ASSUME Quiet(p) PROVE Quiet(p)'
  <2>1. Lonely(p)' /\ pc'[p] = "select"
    BY <1>1, <1>2, LonelyKept DEF Quiet
  <2>2. \A s \in Source : found'[p][s] = None
    BY <1>1 DEF RowsInv, Shape
  <2>3. Fresh(p)' /\ HasRead(p)' /\ Matched(p)'
    BY <2>1, <2>2 DEF Fresh, HasRead, Matched
  <2>4. thread[p] # None /\ \A s \in Leads : found[p][s] # None
    BY <1>1, <1>2, EvidenceAssumption DEF Quiet, HasRead, Source
  <2>5. thread[p] = p
    BY <2>4 DEF LedInv, ThreadsOwn
  <2>6. \A s \in Source : found[p][s] # None => s \in Leads
    BY DEF LedInv, RowsLed
  <2>7. \A r \in rows : Replaces(p, r)
    BY <1>1, <2>4 DEF LedInv, RowsLed, RowsInv, SeesAll, Replaces
  <2>8. rows' = Inserted(p)
    BY <1>1, <2>7
  <2>9. RowsTrue(p)'
    BY <1>1, <1>2, <2>4, <2>6, <2>8, InsertedIsTrue DEF Quiet
  <2>10. Persisted(p)'
    BY <1>1, <2>4, <2>5, <2>9 DEF Persisted
  <2> QED
    BY <2>1, <2>3, <2>10 DEF Quiet
<1> QED
  BY <1>1, <1>2, QuietAlone DEF Running

LEMMA PersistedKept ==
  ASSUME NEW p \in Ingestions, Persisted(p),
         pc[p] \in {"select", "insert", "rebuild", "upsert"},
         UNCHANGED <<truth, rows, messages, spans>>
  PROVE  Persisted(p)'
  BY DEF Persisted, RowsTrue

LEMMA QuietAtSelect ==
  ASSUME QuietInv, RowsInv, RealInv, NEW p \in Ingestions, selectEvidence(p)
  PROVE  QuietInv'
<1>1. /\ pc[p] = "select"
      /\ UNCHANGED <<truth, delivery, rows, messages, spans, match, found, undisturbed>>
  BY DEF selectEvidence, world, providerVars, tableVars
<1>2. PICK to \in {"insert", "rebuild"} :
        /\ pc' = [pc EXCEPT ![p] = to]
        /\ to = "insert" => rows # {} /\ computed' = [computed EXCEPT ![p] = MatchOf(rows, 0)]
        /\ to = "rebuild" => rows = {}
  BY DEF selectEvidence, Goto
<1>3. ASSUME Quiet(p) PROVE Quiet(p)'
  <2>1. Lonely(p)' /\ pc'[p] = to
    BY <1>1, <1>2, <1>3, LonelyKept DEF Quiet
  <2>2. Fresh(p)' /\ HasRead(p)' /\ Persisted(p)'
    BY <1>1, <1>2, <1>3, <2>1, PersistedKept DEF Quiet, Fresh, HasRead
  <2>3. to = "insert" => computed'[p] = MatchOf(rows, 0)
    BY <1>2 DEF RealInv, Times
  <2>4. Matched(p)'
    BY <1>1, <1>2, <2>1, <2>3 DEF Matched
  <2> QED
    BY <2>1, <2>2, <2>4 DEF Quiet
<1> QED
  BY <1>1, <1>3, QuietAlone DEF Running

\* No stored match of the row is later, and the new one is the only one of it.
LEMMA BandOfNewMatch ==
  ASSUME NEW m, NEW a, SameRow(m, a), match' = Store(match, m),
         \A q \in match : ~(q.computedAt > m.computedAt)
  PROVE  BandOfRow(a)' = m.band
<1>1. match' = {q \in match : ~SameRow(q, m)} \cup {m}
  BY DEF Store
<1>2. {q \in match' : SameRow(q, a)} = {m}
  BY <1>1 DEF SameRow
<1> QED
  BY <1>2 DEF BandOfRow

LEMMA QuietAtInsert ==
  ASSUME QuietInv, LedInv, RowsInv, RealInv, NEW p \in Ingestions, insertMatch(p)
  PROVE  QuietInv'
<1>1. /\ pc[p] = "insert" /\ UNCHANGED <<truth, delivery, rows, messages, spans>>
  BY DEF insertMatch, world, providerVars
<1>2. CASE End(p, "failed")
  BY <1>1, <1>2, QuietAtTheEnd DEF Running
<1>3. CASE ~End(p, "failed")
  <2> DEFINE m == [computed[p] EXCEPT !.computedAt = clock + 1]
  <2>1. /\ match' = Store(match, m) /\ pc' = [pc EXCEPT ![p] = "rebuild"]
        /\ UNCHANGED <<found, undisturbed>>
    BY <1>3 DEF insertMatch, Goto
  <2>2. ASSUME Quiet(p) PROVE Quiet(p)'
    <3>1. Lonely(p)' /\ pc'[p] = "rebuild"
      BY <1>1, <2>1, <2>2, LonelyKept DEF Quiet
    <3>2. Fresh(p)' /\ HasRead(p)' /\ Persisted(p)'
      BY <1>1, <2>1, <2>2, <3>1, PersistedKept DEF Quiet, Fresh, HasRead
    <3>3. computed[p] = MatchOf(rows, 0)
      BY <1>1, <2>2 DEF Quiet, Matched
    <3>4. m.computedAt = clock + 1 /\ SameRow(m, Anchor(rows)) /\ m.band = BandOf(rows)
      BY <3>3 DEF MatchOf, SameRow
    <3> HIDE DEF m
    <3>5. \A q \in match : ~(q.computedAt > m.computedAt)
      BY <3>4 DEF LedInv, NotLater, RealInv, Times
    <3>6. BandOfRow(Anchor(rows))' = BandOf(rows)
      <4> DEFINE a == Anchor(rows)
      <4>1. SameRow(m, a)
        BY <3>4
      <4>2. Anchor(rows') = a
        BY <1>1
      <4> HIDE DEF a
      <4>3. \A x : SameRow(m, x) => BandOfRow(x)' = m.band
        BY <2>1, <3>5, BandOfNewMatch
      <4> QED
        BY <3>4, <4>1, <4>2, <4>3
    <3>7. Matched(p)'
      BY <1>1, <3>1, <3>6 DEF Matched
    <3> QED
      BY <3>1, <3>2, <3>7 DEF Quiet
  <2> QED
    BY <1>1, <2>1, <2>2, QuietAlone DEF Running
<1> QED
  BY <1>2, <1>3

\* What is read of a card is of the rows and matches of now.
LEMMA QuietAtRebuild ==
  ASSUME QuietInv, RowsInv, RealInv, NEW p \in Ingestions, rebuild(p)
  PROVE  QuietInv'
<1>1. /\ pc[p] = "rebuild" /\ pc' = [pc EXCEPT ![p] = "upsert"]
      /\ \E c \in CurrentCards : selected' = [selected EXCEPT ![p] = c]
      /\ UNCHANGED <<truth, delivery, rows, messages, spans, match, found, undisturbed>>
  BY DEF rebuild, rebuildCardState, Goto, world, providerVars, tableVars, localVars
<1>2. ASSUME Quiet(p) PROVE Quiet(p)'
  <2>1. Lonely(p)' /\ pc'[p] = "upsert"
    BY <1>1, <1>2, LonelyKept DEF Quiet
  <2>2. Fresh(p)' /\ HasRead(p)' /\ Persisted(p)'
    BY <1>1, <1>2, <2>1, PersistedKept DEF Quiet, Fresh, HasRead
  <2>3. selected'[p] \in CurrentCards
    BY <1>1 DEF RealInv, TablesReal
  <2>4. CurrentCards' = CurrentCards
    BY <1>1 DEF CurrentCards, Newest, BandOfRow
  <2>5. rows # {} => BandOfRow(Anchor(rows)) = BandOf(rows)
    BY <1>1, <1>2 DEF Quiet, Matched
  <2>6. \A r : BandOfRow(r)' = BandOfRow(r)
    BY <1>1 DEF BandOfRow
  <2>7. Matched(p)'
    BY <1>1, <2>1, <2>3, <2>4, <2>5, <2>6 DEF Matched
  <2> QED
    BY <2>1, <2>2, <2>7 DEF Quiet
<1> QED
  BY <1>1, <1>2, QuietAlone DEF Running

LEMMA QuietAtIngestion ==
  ASSUME QuietInv, LedInv, RowsInv, RealInv, NEW p \in Ingestions, ingestTicketContext(p)
  PROVE  QuietInv'
<1>1. CASE persistAborted(p) \/ upsert(p)
  BY <1>1, QuietAtTheEnd DEF persistAborted, upsert, Running
<1> QED
  BY <1>1, QuietAtStart, QuietAtReadTicket, QuietAtLookup, QuietAtBegin, QuietAtCommit,
     QuietAtSelect, QuietAtInsert, QuietAtRebuild DEF ingestTicketContext

LEMMA QuietUntouched ==
  ASSUME QuietInv, UNCHANGED <<truth, delivery, rows, messages, spans, match, pc, thread, found,
                               computed, undisturbed>>,
         \A p \in Ingestions : selected'[p] = selected[p]
  PROVE  QuietInv'
<1> SUFFICES ASSUME NEW p \in undisturbed, Quiet(p) PROVE Quiet(p)'
  BY DEF QuietInv
<1>1. Lonely(p)' /\ Fresh(p)' /\ HasRead(p)'
  BY DEF Quiet, Lonely, Fresh, HasRead, Running
<1>2. Persisted(p)'
  BY DEF Quiet, Persisted, RowsTrue
<1>3. Matched(p)'
  <2>1. CurrentCards' = CurrentCards /\ \A r : BandOfRow(r)' = BandOfRow(r)
    BY DEF CurrentCards, Newest, BandOfRow
  <2>2. p \in Ingestions /\ Matched(p)
    BY DEF Quiet, Lonely
  <2> QED
    BY <2>1, <2>2 DEF Matched
<1> QED
  BY <1>1, <1>2, <1>3 DEF Quiet

LEMMA QuietPreserved ==
  QuietInv /\ LedInv /\ RowsInv /\ RealInv /\ [Next]_evidenceVars => QuietInv'
<1> SUFFICES ASSUME QuietInv, LedInv, RowsInv, RealInv, [Next]_evidenceVars PROVE QuietInv'
  OBVIOUS
<1>1. CASE (\E a \in Completions : ActionCompletes(a)) \/ UNCHANGED evidenceVars
  <2>1. UNCHANGED <<truth, delivery, rows, messages, spans, match, pc, thread, found,
                    computed, undisturbed>>
    BY <1>1 DEF ActionCompletes, rebuildCardState, upsertCardState, evidenceVars, providerVars,
                tableVars, localVars
  <2>2. \A p \in Ingestions : selected'[p] = selected[p]
    <3>1. CASE UNCHANGED evidenceVars
      BY <3>1 DEF evidenceVars, cardVars
    <3>2. ASSUME NEW a \in Completions, ActionCompletes(a)
          PROVE  \A p \in Ingestions : selected'[p] = selected[p]
      <4>1. \E c : selected' = [selected EXCEPT ![a] = c]
        BY <3>2 DEF ActionCompletes, rebuildCardState, upsertCardState
      <4> QED
        BY <4>1, EvidenceAssumption DEF RealInv, TablesReal
    <3> QED
      BY <1>1, <3>1, <3>2
  <2> QED
    BY <2>1, <2>2, QuietUntouched
<1>2. CASE \/ \E n \in Changes, s \in Source : ProviderChanges(n, s)
           \/ \E n \in Changes : EventStep(n)
           \/ handleTicketDeleted
  <2>1. undisturbed' = {}
    BY <1>2 DEF ProviderChanges, EventStep, routeEvent, commitEvent, missEvent,
                handleTicketDeleted
  <2> QED
    BY <2>1 DEF QuietInv
<1> QED
  BY <1>1, <1>2, QuietAtIngestion DEF Next

-----------------------------------------------------------------------------
\* Only its last statement makes an ingestion done.
LEMMA DoneByUpsert ==
  ASSUME RowsInv, [Next]_evidenceVars, NEW p \in Ingestions, pc[p] = "upsert", pc'[p] = "done"
  PROVE  upsert(p)
<1>1. ~UNCHANGED pc
  OBVIOUS
<1>2. PICK q \in Ingestions : ingestTicketContext(q)
  BY <1>1 DEF Next, ProviderChanges, EventStep, routeEvent, commitEvent, missEvent,
              handleTicketDeleted, ActionCompletes, evidenceVars
<1>3. \E l \in PCs : pc' = [pc EXCEPT ![q] = l]
  BY <1>2 DEF ingestTicketContext, start, readTicket, lookupStripe, lookupShopify, lookup,
              beginPersist, commitPersist, persistAborted, selectEvidence, insertMatch, rebuild,
              upsert, Goto, End, PCs
<1>4. q = p
  BY <1>3 DEF RowsInv, Shape
<1> QED
  BY <1>2, <1>4 DEF ingestTicketContext, start, readTicket, lookupStripe, lookupShopify, lookup,
              beginPersist, commitPersist, persistAborted, selectEvidence, insertMatch, rebuild

LEMMA QuietEndRepairs ==
  ASSUME QuietInv, LedInv, RowsInv, NEW p \in undisturbed, upsert(p)
  PROVE  Repaired(p)
<1>1. /\ pc[p] = "upsert" /\ card' = selected[p]
      /\ UNCHANGED <<rows, match, messages, spans>>
  BY DEF upsert, upsertCardState
<1>2. Persisted(p) /\ Matched(p)
  BY DEF QuietInv, Quiet
<1>3. messages' = p /\ spans' = p /\ RowsTrue(p)
  BY <1>1, <1>2 DEF Persisted
<1>4. ASSUME Leads # {}
      PROVE  /\ BandOfRow(Anchor(rows))' = BandOf(rows')
             /\ \E r \in rows' : /\ card'.band = BandOfRow(r)'
                                /\ card'.isSourceUnavailable = r.isSourceUnavailable
  <2>1. rows # {}
    BY <1>3, <1>4 DEF RowsTrue
  <2>2. \A r : BandOfRow(r)' = BandOfRow(r)
    BY <1>1 DEF BandOfRow
  <2>3. BandOfRow(Anchor(rows))' = BandOf(rows')
    <3>1. BandOfRow(Anchor(rows)) = BandOf(rows)
      BY <1>1, <1>2, <2>1 DEF Matched
    <3>2. BandOfRow(Anchor(rows))' = BandOfRow(Anchor(rows))
      BY <1>1 DEF BandOfRow
    <3> QED
      BY <1>1, <3>1, <3>2
  <2>4. PICK r \in Newest(rows) :
          card' = [refundStatus |-> IF r = None \/ r.source = "shopify" THEN None ELSE r.value,
                   band |-> IF r = None THEN None ELSE BandOfRow(r),
                   isSourceUnavailable |-> r # None /\ r.isSourceUnavailable]
    BY <1>1, <1>2, <2>1 DEF Matched, CurrentCards
  <2>5. r \in rows /\ r # None /\ r.isSourceUnavailable \in BOOLEAN
    BY EvidenceAssumption DEF Newest, LedInv, RowTypes, EvidenceRow
  <2>6. card'.band = BandOfRow(r) /\ card'.isSourceUnavailable = r.isSourceUnavailable
    BY <2>4, <2>5
  <2> QED
    BY <1>1, <2>2, <2>3, <2>5, <2>6
<1> QED
  BY <1>1, <1>3, <1>4 DEF Repaired, RowsTrue

\* A refresh that nothing disturbs and that could read all it has references to
\* ends in QuietRefreshRepairs: rows, newest match, thread and card are those of
\* the providers' records now.
THEOREM QuietRefreshesRepair == Spec => QuietRefreshRepairs
<1>1. QuietInv /\ LedInv /\ RowsInv /\ [Next]_evidenceVars =>
        [\A p \in undisturbed :
           pc[p] = "upsert" /\ pc'[p] = "done" => Repaired(p)]_evidenceVars
  BY DoneByUpsert, QuietEndRepairs DEF QuietInv, Quiet, Lonely
<1> QED
  BY <1>1, RowsInitially, RowsPreserved, RealInitially, RealPreserved, LedInitially, LedPreserved,
     QuietInitially, QuietPreserved, PTL DEF Spec, QuietRefreshRepairs
=============================================================================
