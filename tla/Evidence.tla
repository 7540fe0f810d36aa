------------------------------ MODULE Evidence ------------------------------
(***************************************************************************)
(* The evidence of one issue and the card that shows it: ingestion of its  *)
(* ticket (services/ingestion.ts), provider events and the deletion of the *)
(* ticket (routes/webhooks.ts), the match (services/matching.ts) and the   *)
(* read model of the card (rebuildCardState).                              *)
(*                                                                         *)
(* Ingestions run concurrently: the drain of a webhook and refreshes by    *)
(* operators.  Their reads of the providers, the transaction that stores   *)
(* what they found, the match and the card are separate steps.  A provider *)
(* event is one transaction, which holds the rows it updates and the row   *)
(* its match refers to until it commits.  Actions that complete rebuild    *)
(* the card as well.  The tenant and the customer's history do not change  *)
(* here; annotations are present or not.                                   *)
(***************************************************************************)
EXTENDS Matching, FiniteSets

CONSTANTS
  Ingestions,    \* calls of ingestTicketContext
  Completions,   \* actions of the outbox that complete, and rebuild the card
  Changes,       \* numbers of the changes at the providers, with their events
  Leads,         \* the sources the ticket's text has a reference to
  Charge, Order, \* the references
  OldRefunds,    \* what the charge's refund may be in the beginning
  RefundAmount, OrderTotal,
  Tolerance,     \* refund_amount_tolerance_pct
  HoursPerStep,  \* hours between two transactions
  MaxIncidents   \* bound on the changes, completions and deletions of a behaviour

Source == {"stripe", "shopify"}
Value == RefundStatus \cup FinancialStatus

\* The value is the refund's status or the order's financial status; the other
\* columns follow from it.  A row is named by the ingestion that inserted it.
EvidenceRow ==
  [source : Source, id : Ingestions, value : Maybe(Value), fetchedAt : Nat,
   isSourceUnavailable : BOOLEAN]

ASSUME EvidenceAssumption ==
  /\ Leads \subseteq Source
  /\ Charge \in Ids /\ Order \in Ids /\ OldRefunds \subseteq {None, "pending", "succeeded"}
  /\ RefundAmount \in Nat /\ OrderTotal \in Nat
  /\ Tolerance \in Nat /\ HoursPerStep \in Nat /\ MaxIncidents \in Nat
  /\ None \notin Ingestions \cup MatchBand \cup {"canceled"} /\ None \notin EvidenceRow
  /\ Ingestions \cap Completions = {}

VARIABLES
  truth,       \* what each provider answers for the reference
  deleted,     \* issue_tickets.is_deleted
  change,      \* the event of each change
  reported,    \* what the providers have ever recorded or told of (history)
  delivery,    \* where its delivery stands
  update,      \* what its transaction is about to commit
  rows,        \* evidence_normalized
  match,       \* evidence_match_results, the newest of each row
  messages,    \* issue_messages: who read the thread, None if it is empty
  spans,       \* issue_context.annotations: whose thread they are in
  card,        \* issue_card_state
  clock,       \* now() in steps: transactions and inserts of a match so far
  pc,          \* next statement of each ingestion
  thread,      \* itself if it could read the ticket, else None
  found,       \* what it read of each source, if anything
  visible,     \* rows and messages that were committed when it deletes them
  at,          \* now() of its transaction
  computed,    \* the match it has computed and not stored
  completion,  \* next statement of each completion
  selected,    \* the card that each has read and not written
  undisturbed  \* ingestions alone and without a failure since they began (history)

providerVars == <<truth, change, reported>>
tableVars == <<rows, match, messages, spans, card>>
localVars == <<thread, found, visible, at, computed>>
cardVars == <<completion, selected>>
evidenceVars == <<providerVars, deleted, delivery, update, tableVars, clock, pc,
                  localVars, cardVars, undisturbed>>

MatchRow == [source : Source, id : Ingestions, band : MatchBand, computedAt : Nat]
Card == [refundStatus : Maybe(Value), band : Maybe(MatchBand),
         isSourceUnavailable : BOOLEAN]

\* A provider's record; an archived order answers 404, and a refund may have
\* been canceled, which the column refund_status does not admit.
Answer == [value : Maybe(Value \cup {"canceled"}), archived : BOOLEAN]

\* An event has the record it was sent for, and a kind.
Event == [source : Source, answer : Answer,
          kind : {"refund.updated", "charge.refunded", "orders/updated"}]

PCs == {"idle", "readTicket", "lookupStripe", "lookupShopify", "begin", "commit",
        "select", "insert", "rebuild", "upsert", "done", "failed"}
Running(p) == pc[p] \notin {"idle", "done", "failed"}

TypeOK ==
  /\ truth \in [Source -> Answer]
  /\ deleted \in BOOLEAN
  /\ change \in [Changes -> Event \cup {None}]
  /\ reported \subseteq Maybe(Value \cup {"canceled"})
  /\ delivery \in [Changes -> {"none", "sent", "updated", "handled"}]
  /\ rows \in SUBSET EvidenceRow /\ match \in SUBSET MatchRow
  /\ messages \in Maybe(Ingestions) /\ spans \in Maybe(Ingestions)
  /\ card \in Maybe(Card)
  /\ clock \in Nat
  /\ pc \in [Ingestions -> PCs]
  /\ thread \in [Ingestions -> Maybe(Ingestions)]
  /\ found \in [Ingestions -> [Source -> Maybe(Answer)]]
  /\ at \in [Ingestions -> Nat]
  /\ completion \in [Completions -> {"rebuild", "upsert", "done"}]
  /\ selected \in [Ingestions \cup Completions -> Maybe(Card)]
  /\ undisturbed \in SUBSET Ingestions

Init ==
  /\ \E refund \in OldRefunds :
       truth = [s \in Source |->
         [value |-> IF s = "stripe" THEN refund ELSE "paid", archived |-> FALSE]]
  /\ deleted = FALSE
  /\ change = [n \in Changes |-> None]
  /\ reported = {truth[s].value : s \in Source}
  /\ delivery = [n \in Changes |-> "none"]
  /\ update = [n \in Changes |-> None]
  /\ rows = {} /\ match = {} /\ messages = None /\ spans = None /\ card = None
  /\ clock = 0
  /\ pc = [p \in Ingestions |-> "idle"]
  /\ thread = [p \in Ingestions |-> None]
  /\ found = [p \in Ingestions |-> [s \in Source |-> None]]
  /\ visible = [p \in Ingestions |-> None]
  /\ at = [p \in Ingestions |-> 0]
  /\ computed = [p \in Ingestions |-> None]
  /\ completion = [a \in Completions |-> "rebuild"]
  /\ selected = [p \in Ingestions \cup Completions |-> None]
  /\ undisturbed = {}

-----------------------------------------------------------------------------
\* What has happened beside the ingestions leaves room for more.
Room ==
  Cardinality({n \in Changes : change[n] # None})
    + Cardinality({a \in Completions : completion[a] # "rebuild"})
    + (IF deleted THEN 1 ELSE 0) < MaxIncidents

(* The providers.                                                          *)

\* A refund that was made may still fail, and another may follow it.
NextValues(s) ==
  CASE s = "stripe" /\ truth[s].value = "pending" -> {"succeeded", "failed", "canceled"}
    [] s = "stripe" /\ truth[s].value = "succeeded" -> {"failed"}
    [] s = "stripe" /\ truth[s].value \notin {"pending", "succeeded"} -> {"pending", "succeeded"}
    [] s = "shopify" /\ truth[s].value = "paid" -> {"refunded"}
    [] OTHER -> {}

\* A charge is refunded, for the provider, as soon as there is a refund.
KindsOf(s, value) ==
  IF s = "shopify" THEN {"orders/updated"}
  ELSE {"refund.updated"} \cup
       (IF value \in {"pending", "succeeded"} THEN {"charge.refunded"} ELSE {})

\* A provider's record changes, and an event tells of it.
ProviderChanges(n, s) ==
  /\ Room /\ change[n] = None
  /\ ~ truth[s].archived
  /\ \E answer \in
       {[value |-> v, archived |-> FALSE] : v \in NextValues(s)} \cup
       (IF s = "shopify"
        THEN {[value |-> truth[s].value, archived |-> TRUE]} ELSE {}) :
     \E kind \in KindsOf(s, answer.value) :
       /\ truth' = [truth EXCEPT ![s] = answer]
       /\ change' = [change EXCEPT ![n] = [source |-> s, answer |-> answer, kind |-> kind]]
       /\ reported' = reported \cup {answer.value} \cup
                      (IF kind = "charge.refunded" THEN {"succeeded"} ELSE {})
  /\ delivery' = [delivery EXCEPT ![n] = "sent"]
  /\ undisturbed' = {}
  /\ UNCHANGED <<deleted, update, tableVars, clock, pc, localVars, cardVars>>

-----------------------------------------------------------------------------
(* The match of a set of rows, and the card.                               *)

Of(R, s) == {r \in R : r.source = s}
Newest(R) == {r \in R : \A q \in R : q.fetchedAt <= r.fetchedAt}

\* The columns that follow from a row's value; None stands for no row.
StripeRowOf(r) ==
  IF r = None THEN None
  ELSE [chargeId |-> Charge, refundStatus |-> r.value,
        refundAmountCents |-> IF r.value = None THEN None ELSE RefundAmount,
        currency |-> "usd", fetchedAt |-> r.fetchedAt * HoursPerStep,
        isSourceUnavailable |-> r.isSourceUnavailable]
ShopifyRowOf(r) ==
  IF r = None THEN None
  ELSE [orderId |-> Order, financialStatus |-> r.value,
        orderTotal |-> IF r.value = None THEN None ELSE OrderTotal,
        currency |-> IF r.value = None THEN None ELSE "usd",
        fetchedAt |-> r.fetchedAt * HoursPerStep,
        isSourceUnavailable |-> r.isSourceUnavailable]

First(R) == IF R = {} THEN None ELSE CHOOSE r \in Newest(R) : TRUE

\* The band of rows R; the ticket's row was made at time 0.
BandOf(R) ==
  computeMatch(buildFacts(StripeRowOf(First(Of(R, "stripe"))),
                          ShopifyRowOf(First(Of(R, "shopify"))), 0),
               MatchConfigOf(Tolerance))

\* The row a match hangs off.
Anchor(R) == First(IF Of(R, "stripe") # {} THEN Of(R, "stripe") ELSE R)
SameRow(r, q) == r.source = q.source /\ r.id = q.id

\* recomputeMatchForIssue over rows R at time t.
MatchOf(R, t) ==
  [source |-> Anchor(R).source, id |-> Anchor(R).id, band |-> BandOf(R),
   computedAt |-> t]

\* Matches in which m is stored: of one row the newest counts.
Store(M, m) ==
  IF \E q \in M : SameRow(q, m) /\ q.computedAt > m.computedAt
  THEN M ELSE {q \in M : ~ SameRow(q, m)} \cup {m}

BandOfRow(r) ==
  LET of == {m \in match : SameRow(m, r)}
  IN IF of = {} THEN None ELSE (CHOOSE m \in of : TRUE).band

(* rebuildCardState is one INSERT ... SELECT ... ON CONFLICT DO UPDATE:    *)
(* what it reads it reads at its start, and it may wait before it writes.  *)

\* The row of the card is any of the newest; without one there is no match.
CurrentCards ==
  {[refundStatus |-> IF r = None \/ r.source = "shopify" THEN None ELSE r.value,
    band |-> IF r = None THEN None ELSE BandOfRow(r),
    isSourceUnavailable |-> r # None /\ r.isSourceUnavailable] :
     r \in IF rows = {} THEN {None} ELSE Newest(rows)}

rebuildCardState(p) ==
  /\ \E c \in CurrentCards : selected' = [selected EXCEPT ![p] = c]
  /\ UNCHANGED tableVars

\* A card that exists is overwritten, whatever it shows by then.
upsertCardState(p) ==
  /\ card' = selected[p]
  /\ selected' = [selected EXCEPT ![p] = None]
  /\ UNCHANGED <<rows, match, messages, spans>>

\* An action of the outbox completes (Outbox, rebuildCardState).
ActionCompletes(a) ==
  /\ \/ /\ Room /\ completion[a] = "rebuild"
        /\ rebuildCardState(a)
        /\ completion' = [completion EXCEPT ![a] = "upsert"]
     \/ /\ completion[a] = "upsert"
        /\ upsertCardState(a)
        /\ completion' = [completion EXCEPT ![a] = "done"]
  /\ UNCHANGED <<providerVars, deleted, delivery, update, clock, pc, localVars, undisturbed>>

-----------------------------------------------------------------------------
(* ingestTicketContext                                                     *)

Goto(p, label) == pc' = [pc EXCEPT ![p] = label]

\* Its locals are of no use any more.
Forget(p) ==
  /\ thread' = [thread EXCEPT ![p] = None]
  /\ found' = [found EXCEPT ![p] = [s \in Source |-> None]]
  /\ visible' = [visible EXCEPT ![p] = None]
  /\ at' = [at EXCEPT ![p] = 0]
  /\ computed' = [computed EXCEPT ![p] = None]

\* It returns or throws.
End(p, label) == Goto(p, label) /\ Forget(p) /\ undisturbed' = undisturbed \ {p}

world == <<providerVars, deleted, delivery, update>>

start(p) ==
  /\ pc[p] = "idle"
  /\ Goto(p, "readTicket")
  /\ undisturbed' =
       IF \E q \in Ingestions : Running(q) THEN {}
       ELSE IF \E n \in Changes : delivery[n] = "updated" THEN {}
       ELSE {p}
  /\ UNCHANGED <<world, tableVars, clock, localVars, cardVars>>

\* Without the conversation the ingestion goes on, with no text to read.
readTicket(p) ==
  /\ pc[p] = "readTicket"
  /\ \/ thread' = [thread EXCEPT ![p] = p] /\ UNCHANGED undisturbed
     \/ UNCHANGED thread /\ undisturbed' = undisturbed \ {p}
  /\ Goto(p, "lookupStripe")
  /\ UNCHANGED <<world, tableVars, clock, found, visible, at, computed, cardVars>>

\* What a lookup returns: nothing without a reference or when the read fails,
\* and of an archived order its reference only.
LookedUp(p, s) ==
  {None} \cup
  IF thread[p] = None \/ s \notin Leads THEN {}
  ELSE {[truth[s] EXCEPT !.value = IF truth[s].archived THEN None ELSE @]}

lookup(p, s, from, to) ==
  /\ pc[p] = from
  /\ \E answer \in LookedUp(p, s) :
       /\ found' = [found EXCEPT ![p][s] = answer]
       /\ undisturbed' = IF s \in Leads /\ answer = None THEN undisturbed \ {p}
                         ELSE undisturbed
  /\ Goto(p, to)
  /\ UNCHANGED <<world, tableVars, clock, thread, visible, at, computed, cardVars>>

lookupStripe(p)  == lookup(p, "stripe", "lookupStripe", "lookupShopify")
lookupShopify(p) == lookup(p, "shopify", "lookupShopify", "begin")

\* (mutant) The table issue_messages has no key.
MessagesTaken_Never(p) == FALSE

\* Every thread has the ticket's subject, so two transactions that insert
\* threads of one issue insert the same key of issue_messages.
MessagesTaken(p) ==
  /\ thread[p] # None
  /\ \E q \in Ingestions \ {p} : pc[q] = "commit" /\ thread[q] # None

Unstorable(answer) == answer # None /\ answer.value = "canceled"

\* The transaction begins and deletes; what it inserts is seen at its commit.
\* It fails as a whole over a key that is taken or a status that is not allowed.
beginPersist(p) ==
  /\ pc[p] = "begin"
  /\ IF MessagesTaken(p) \/ Unstorable(found[p]["stripe"])
     THEN End(p, "failed") /\ UNCHANGED clock
     ELSE /\ Goto(p, "commit")
          /\ clock' = clock + 1
          /\ at' = [at EXCEPT ![p] = clock + 1]
          /\ visible' = [visible EXCEPT ![p] =
               [messages |-> messages,
                rows |-> {<<r.source, r.id>> : r \in rows}]]
          /\ UNCHANGED <<thread, found, computed, undisturbed>>
  /\ UNCHANGED <<world, tableVars, cardVars>>

Replaces(p, r) ==
  found[p][r.source] # None /\ <<r.source, r.id>> \in visible[p].rows

\* (mutant) A tombstone is stored as a record.
Inserted_NoTombstone(p) ==
  {[source |-> s, id |-> p, value |-> found[p][s].value, fetchedAt |-> at[p],
    isSourceUnavailable |-> FALSE] : s \in {x \in Source : found[p][x] # None}}

Inserted(p) ==
  {[source |-> s, id |-> p, value |-> found[p][s].value, fetchedAt |-> at[p],
    isSourceUnavailable |-> found[p][s].archived] :
     s \in {x \in Source : found[p][x] # None}}

\* (mutant) A failed read keeps the annotations of the previous one.
StoredSpans_KeepsOld(p) == IF thread[p] = None THEN spans ELSE thread[p]

\* persistContext overwrites the annotations, also with none.
StoredSpans(p) == thread[p]

\* An event's transaction that holds a row this one deletes.
Blocks(n, p) ==
  delivery[n] = "updated" /\ \E r \in update[n].locks : Replaces(p, r)

commitPersist(p) ==
  /\ pc[p] = "commit"
  /\ \A n \in Changes : ~ Blocks(n, p)
  /\ messages' = IF thread[p] = None /\ messages # visible[p].messages
                 THEN messages ELSE thread[p]
  /\ spans' = StoredSpans(p)
  /\ rows' = {r \in rows : ~ Replaces(p, r)} \cup Inserted(p)
  /\ match' = {m \in match : ~ Replaces(p, m)}
  /\ Goto(p, "select") /\ Forget(p)
  /\ UNCHANGED <<world, card, clock, cardVars, undisturbed>>

\* It waits for an event that waits for it, and is the one the database aborts.
persistAborted(p) ==
  /\ pc[p] = "commit"
  /\ \E n \in Changes : Blocks(n, p)
  /\ End(p, "failed")
  /\ UNCHANGED <<world, tableVars, clock, cardVars>>

\* recomputeMatchForIssue: the rows are read, and the match inserted later.
selectEvidence(p) ==
  /\ pc[p] = "select"
  /\ IF rows = {} THEN Goto(p, "rebuild") /\ UNCHANGED computed
     ELSE /\ computed' = [computed EXCEPT ![p] = MatchOf(rows, 0)]
          /\ Goto(p, "insert")
  /\ UNCHANGED <<world, tableVars, clock, thread, found, visible, at, cardVars, undisturbed>>

\* The row it refers to may be gone.
insertMatch(p) ==
  /\ pc[p] = "insert"
  /\ IF \E r \in rows : SameRow(r, computed[p])
     THEN /\ match' = Store(match, [computed[p] EXCEPT !.computedAt = clock + 1])
          /\ clock' = clock + 1
          /\ computed' = [computed EXCEPT ![p] = None]
          /\ Goto(p, "rebuild")
          /\ UNCHANGED <<thread, found, visible, at, undisturbed>>
     ELSE End(p, "failed") /\ UNCHANGED <<match, clock>>
  /\ UNCHANGED <<world, rows, messages, spans, card, cardVars>>

rebuild(p) ==
  /\ pc[p] = "rebuild"
  /\ rebuildCardState(p)
  /\ Goto(p, "upsert")
  /\ UNCHANGED <<world, clock, localVars, completion, undisturbed>>

upsert(p) ==
  /\ pc[p] = "upsert"
  /\ upsertCardState(p)
  /\ End(p, "done")
  /\ UNCHANGED <<world, clock, completion>>

ingestTicketContext(p) ==
  \/ start(p) \/ readTicket(p) \/ lookupStripe(p) \/ lookupShopify(p)
  \/ beginPersist(p) \/ commitPersist(p) \/ persistAborted(p)
  \/ selectEvidence(p) \/ insertMatch(p) \/ rebuild(p) \/ upsert(p)

-----------------------------------------------------------------------------
(* Provider events and the deletion of the ticket                          *)

\* A charge event tells of no status and is taken for a success; states that the
\* column does not admit are stored as pending.
StoredStatus(event) ==
  IF event.kind = "charge.refunded" THEN "succeeded"
  ELSE IF event.answer.value \in Value THEN event.answer.value ELSE "pending"

\* What an event makes of a row of its source; an archived order keeps its data
\* and its time.
Applied(r, event, t) ==
  IF event.answer.archived THEN [r EXCEPT !.isSourceUnavailable = TRUE]
  ELSE [r EXCEPT !.value = StoredStatus(event), !.fetchedAt = t]

Holds(n, r) == delivery[n] = "updated" /\ \E q \in update[n].locks : SameRow(q, r)

\* routeStripeEvent, routeShopifyEvent: update the rows, select all rows of the
\* issue, insert their match.  With no row there is nothing to do.
routeEvent(n) ==
  LET s == change[n].source
      updated == {Applied(r, change[n], clock + 1) : r \in Of(rows, s)}
      R == (rows \ Of(rows, s)) \cup updated
  IN /\ delivery[n] = "sent"
     /\ \A k \in Changes, r \in Of(rows, s) : ~ Holds(k, r)
     /\ IF updated = {}
        THEN /\ delivery' = [delivery EXCEPT ![n] = "handled"]
             /\ UNCHANGED <<update, clock>>
        ELSE /\ delivery' = [delivery EXCEPT ![n] = "updated"]
             /\ update' = [update EXCEPT ![n] =
                  [rows |-> updated, match |-> MatchOf(R, clock + 1),
                   locks |-> updated \cup {Anchor(R)}]]
             /\ clock' = clock + 1
     /\ undisturbed' = {}
     /\ UNCHANGED <<providerVars, deleted, tableVars, pc, localVars, cardVars>>

commitEvent(n) ==
  /\ delivery[n] = "updated"
  /\ rows' = {r \in rows : \A q \in update[n].rows : ~ SameRow(r, q)}
             \cup update[n].rows
  /\ match' = Store(match, update[n].match)
  /\ update' = [update EXCEPT ![n] = None]
  /\ delivery' = [delivery EXCEPT ![n] = "handled"]
  /\ undisturbed' = {}
  /\ UNCHANGED <<providerVars, deleted, messages, spans, card, clock, pc, localVars,
                 cardVars>>

\* The event waits for an ingestion that deletes its row or the anchor: it then
\* finds no row, or is aborted, and is not sent again.
missEvent(n) ==
  /\ delivery[n] = "sent"
  /\ \E p \in Ingestions : pc[p] = "commit" /\ \E r \in rows : Replaces(p, r)
  /\ delivery' = [delivery EXCEPT ![n] = "handled"]
  /\ undisturbed' = {}
  /\ UNCHANGED <<providerVars, deleted, update, tableVars, clock, pc, localVars, cardVars>>

\* handleTicketDeleted: the match and the card stay as they are.
handleTicketDeleted ==
  /\ Room /\ ~ deleted
  /\ \A n \in Changes, r \in rows : ~ Holds(n, r)
  /\ deleted' = TRUE
  /\ rows' = {[r EXCEPT !.isSourceUnavailable = TRUE] : r \in rows}
  /\ undisturbed' = {}
  /\ UNCHANGED <<providerVars, delivery, update, match, messages, spans, card,
                 clock, pc, localVars, cardVars>>

EventStep(n) == routeEvent(n) \/ commitEvent(n) \/ missEvent(n)

Next ==
  \/ \E n \in Changes, s \in Source : ProviderChanges(n, s)
  \/ \E p \in Ingestions : ingestTicketContext(p)
  \/ \E n \in Changes : EventStep(n)
  \/ handleTicketDeleted
  \/ \E a \in Completions : ActionCompletes(a)

Spec == Init /\ [][Next]_evidenceVars

-----------------------------------------------------------------------------
(* Properties                                                              *)

\* One normalized row per issue and source, although ingestions that overlap
\* delete only what they see: upsertEvidence has no constraint to rely on, and
\* is saved by the key of issue_messages, which persistThread inserts first.
OneRowPerSource == \A r, q \in rows : r.source = q.source => r = q

\* No annotation points into a thread that is not stored: persistThread and
\* persistContext stay together, whoever overwrites whom.
SpansHaveTheirMessages == spans # None => messages = spans

\* A refresh that nothing overlaps and no read fails in repairs everything: the
\* rows are what the providers have, the newest match of their anchor is the
\* match of these rows, the thread is the ticket's and the card shows one of
\* the rows with its own band (recovery path of ops.ts, refresh-evidence),
\* whatever was there before and although completions rebuild the card between
\* its own read and write.
Repaired(p) ==
  /\ messages' = p /\ spans' = p
  /\ {r.source : r \in rows'} = Leads
  /\ \A r \in rows' :
       /\ r.id = p /\ r.isSourceUnavailable = truth[r.source].archived
       /\ r.value = IF truth[r.source].archived THEN None ELSE truth[r.source].value
  /\ Leads # {} =>
       /\ BandOfRow(Anchor(rows))' = BandOf(rows')
       /\ \E r \in rows' : /\ card'.band = BandOfRow(r)'
                          /\ card'.isSourceUnavailable = r.isSourceUnavailable

QuietRefreshRepairs ==
  [][\A p \in undisturbed :
       pc[p] = "upsert" /\ pc'[p] = "done" => Repaired(p)]_evidenceVars

\* No band an agent reads as "this refund is established" comes of nothing:
\* although rows, matches and cards are of different times, and events,
\* ingestions and completions store and show each other's, a HIGH or EXACT that is
\* stored or shown, and a refund shown as made, mean that the payment provider has
\* had it as made or told that the charge is refunded, and EXACT that the shop has
\* said so as well.  It does not mean that this is so now: refunds fail later.
HighBandsAreReal ==
  /\ \A band \in {m.band : m \in match} \cup (IF card = None THEN {} ELSE {card.band}) :
       /\ band \in {"HIGH", "EXACT"} => "succeeded" \in reported
       /\ band = "EXACT" => "refunded" \in reported
  /\ card # None /\ card.refundStatus = "succeeded" => "succeeded" \in reported
=============================================================================
