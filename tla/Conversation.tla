---------------------------- MODULE Conversation ----------------------------
(***************************************************************************)
(* What a ticket's thread says and which records it may mean: the package  *)
(* extraction (money.ts, identifiers.ts, temporal.ts, asks.ts, index.ts),  *)
(* services/corpus.ts, and their part of services/ingestion.ts, from the   *)
(* reading of the ticket to the row of issue_context.                      *)
(*                                                                         *)
(* Messages are written and records appear at the providers while the      *)
(* steps of an ingestion, each an await of its own, go on.  One ingestion  *)
(* is enough, for the next one replaces all that it stored.  The subject   *)
(* and the description of the ticket are messages like its comments.       *)
(*                                                                         *)
(* A text is what the regular expressions find in it: matches with their   *)
(* rule, their span, what they captured, and `near`, whether the words     *)
(* around are those the rule looks for.  Days are numbered from the first  *)
(* of a leap year; months are 1..12 where the code has 0..11, confidences  *)
(* are in hundredths, amounts are written in whole units.  Left out: the   *)
(* wording of what is shown, and the highlights, which only the audit log  *)
(* receives.                                                               *)
(***************************************************************************)
EXTENDS Calendar, Arrays

CONSTANTS
  None,
  Messages,     \* what may be written: role, public, at, found
  Records,      \* orders, charges and refunds that may come to exist
  MaxMessages   \* bound: messages of the thread

Kind == {"money", "date", "order_reference", "payment_reference", "ask"}

MoneyRules == <<"symbol_prefixed", "code_suffixed", "code_prefixed", "word_suffixed",
                "bare_decimal_with_context">>

STRIPE_RULES == <<"stripe_charge", "stripe_refund", "stripe_payment_intent">>

ORDER_RULES == <<"order_labelled", "order_hash_prefixed", "order_synonym">>

IdentifierRules == STRIPE_RULES \o ORDER_RULES

DateRules == <<"iso_date", "month_name_first", "day_month_name", "numeric_slash",
               "bare_numeric", "bare_ordinal", "relative_named_day", "relative_offset",
               "relative_period", "relative_weekday">>

RelativeRules == {"relative_named_day", "relative_offset", "relative_period", "relative_weekday"}

AskRules == <<"refund_request", "order_status", "cancellation", "return_request",
              "damaged_or_wrong_item", "billing_dispute">>

ConfidenceOf ==
  [symbol_prefixed |-> 97, code_suffixed |-> 97, code_prefixed |-> 97, word_suffixed |-> 90,
   bare_decimal_with_context |-> 62,
   stripe_charge |-> 99, stripe_refund |-> 99, stripe_payment_intent |-> 99,
   order_labelled |-> 93, order_hash_prefixed |-> 72, order_synonym |-> 80,
   refund_request |-> 80, order_status |-> 78, cancellation |-> 80, return_request |-> 80,
   damaged_or_wrong_item |-> 75, billing_dispute |-> 88]

ZERO_DECIMAL == {"JPY", "KRW", "VND", "CLP", "ISK"}

AtMost(a, b) == IF a < b THEN a ELSE b

\* What the patterns capture: numbers of two digits, months that have a name.
MonthNames == {"month_name_first", "day_month_name"}

IsMatch(m) ==
  /\ m.rule \in UNION {ToSet(MoneyRules), ToSet(IdentifierRules), ToSet(DateRules), ToSet(AskRules)}
  /\ m.start \in Nat /\ m.end \in Nat /\ m.start < m.end
  /\ (m.rule \in ToSet(MoneyRules) => m.value.amount \in Nat)
  /\ (m.rule \in ToSet(IdentifierRules) => m.value # None)
  /\ (m.rule \in {"iso_date", "numeric_slash"} => m.value.year \in Int)
  /\ (m.rule \in {"iso_date", "bare_ordinal"} \cup MonthNames => m.value.day \in 0..99)
  /\ (m.rule = "iso_date" => m.value.month \in 0..99)
  /\ (m.rule \in MonthNames => m.value.month \in 1..12 /\ m.value.year \in Int \cup {None})
  /\ (m.rule \in {"numeric_slash", "bare_numeric"} => m.value.a \in 0..99 /\ m.value.b \in 0..99)
  /\ (m.rule = "relative_offset" => m.value.n \in Nat /\ m.value.unit \in {"day", "week", "month"})
  /\ (m.rule = "relative_period" => m.value \in {"week", "month"})
  /\ (m.rule = "relative_weekday" => m.value \in 0..6)

\* A rule finds at most one match at a place, but for asks, which have many cues.
IsMessage(m) ==
  /\ m.at \in Int /\ IsFiniteSet(m.found) /\ \A p \in m.found : IsMatch(p)
  /\ \A p, q \in m.found :
       p.rule = q.rule /\ p.start = q.start => p = q \/ p.rule \in ToSet(AskRules)

ASSUME ConversationAssumption ==
  /\ None \notin Int
  /\ \A m \in Messages : IsMessage(m)
  /\ \A r \in Records : r.day \in Int

VARIABLES
  thread,    \* the texts of the ticket at Zendesk: its subject, then the others
  known,     \* the records the providers have
  work,      \* the ingestion under way
  context    \* issue_messages and issue_context, and what they were made from

conversationVars == <<thread, known, work, context>>

Idle == [step |-> "idle", sources |-> <<>>, signals |-> <<>>, leads |-> <<>>, seen |-> {}, corpus |-> {}, explicit |-> <<>>]

Init == thread = <<>> /\ known = {} /\ work = Idle /\ context = None

-----------------------------------------------------------------------------
(***************************************************************************)
(* The extractors.  Rules are tried from the most specific on, each from   *)
(* left to right, and the first to claim a span owns it.                   *)
(***************************************************************************)
RuleRank(rules, m) == CHOOSE i \in DOMAIN rules : rules[i] = m.rule

Matches(rules, source) == {m \in source.found : m.rule \in ToSet(rules)}

\* (mutant) The whole text is read from left to right.
tried_ByPosition(rules, matches) ==
  stableSort(SetToSeq(matches), LAMBDA m, n : m.start < n.start)

tried(rules, matches) ==
  stableSort(SetToSeq(matches),
             LAMBDA m, n : \/ RuleRank(rules, m) < RuleRank(rules, n)
                           \/ m.rule = n.rule /\ m.start < n.start)

take(claimed, m, accepted) ==
  IF (\E i \in DOMAIN claimed : overlaps(claimed[i], m)) \/ m \notin accepted
  THEN claimed ELSE Append(claimed, m)

claim(rules, matches, accepted) ==
  stableSort(FoldLeft(LAMBDA claimed, m : take(claimed, m, accepted), <<>>, tried(rules, matches)),
             LAMBDA m, n : m.start < n.start)

Signal(kind, value, confidence, m, i, source) ==
  [kind |-> kind, value |-> value, confidence |-> confidence, role |-> source.role,
   source |-> i, rule |-> m.rule, start |-> m.start, end |-> m.end]

\* parseAmount: no minor units for some currencies, and a limit for misparses.
amountCents(v) == v.amount * (IF v.currency \in ZERO_DECIMAL THEN 1 ELSE 100)

IsMoney(m) ==
  /\ m.rule = "bare_decimal_with_context" => m.near
  /\ amountCents(m.value) <= 100000000

moneySignal(m, source, i) ==
  Signal("money", [amountCents |-> amountCents(m.value), currency |-> m.value.currency],
         ConfidenceOf[m.rule], m, i, source)

extractMoney(source, i) ==
  LET matches == Matches(MoneyRules, source)
      claimed == claim(MoneyRules, matches, {m \in matches : IsMoney(m)})
  IN [j \in DOMAIN claimed |-> moneySignal(claimed[j], source, i)]

\* "ticket #1234" names no order: `near` tells of such a word.
IsReference(m) == m.rule = "order_hash_prefixed" => ~m.near

identifierSignal(m, source, i) ==
  Signal(IF m.rule \in ToSet(STRIPE_RULES) THEN "payment_reference" ELSE "order_reference",
         m.value, ConfidenceOf[m.rule], m, i, source)

extractIdentifiers(source, i) ==
  LET matches == Matches(IdentifierRules, source)
      claimed == claim(IdentifierRules, matches, {m \in matches : IsReference(m)})
  IN [j \in DOMAIN claimed |-> identifierSignal(claimed[j], source, i)]

Read(date, yearWritten, confidence) ==
  [date |-> date, yearWritten |-> yearWritten, confidence |-> confidence]

\* Two numbers: American order, unless only the first can be the day.
monthFirst(v) == IF v.a > 12 /\ v.b <= 12 THEN [month |-> v.b, day |-> v.a]
                 ELSE [month |-> v.a, day |-> v.b]

oneIsDay(v) == (v.a > 12) # (v.b > 12)

isoDate(v) == Read(UTC(v.year, v.month, v.day), TRUE, 99)

monthName(v, reference) ==
  IF v.year # None THEN Read(UTC(v.year, v.month, v.day), TRUE, 96)
  ELSE Read(UTC(inferYear(reference, v.month, v.day), v.month, v.day), FALSE, 85)

numericSlash(v) ==
  LET w == monthFirst(v)
  IN Read(UTC(v.year, w.month, w.day), TRUE, IF oneIsDay(v) THEN 95 ELSE 55)

bareNumeric(v, near, reference) ==
  LET w == monthFirst(v)
      confidence == IF oneIsDay(v) THEN 80 ELSE 55
  IN Read(UTC(inferYear(reference, w.month, w.day), w.month, w.day), FALSE,
          IF near THEN AtMost(85, confidence + 20) ELSE confidence)

\* "the 22nd" is read in the month of the message.
bareOrdinal(v, reference) ==
  LET month == MonthOf(reference)
  IN Read(UTC(inferYear(reference, month, v.day), month, v.day), FALSE, 60)

daysOf == [day |-> 1, week |-> 7, month |-> 30]

relative(m, reference) ==
  CASE m.rule = "relative_named_day" ->
         Read(reference - IF m.value = "yesterday" THEN 1 ELSE 0, TRUE, 90)
    [] m.rule = "relative_offset" ->
         Read(reference - m.value.n * daysOf[m.value.unit], TRUE,
              IF m.value.unit = "month" THEN 70 ELSE 85)
    [] m.rule = "relative_period" -> Read(reference - daysOf[m.value], TRUE, 60)
    [] OTHER -> Read(previousWeekday(reference, m.value), TRUE, 75)

dateOf(m, reference) ==
  CASE m.rule = "iso_date" -> isoDate(m.value)
    [] m.rule \in MonthNames -> monthName(m.value, reference)
    [] m.rule = "numeric_slash" -> numericSlash(m.value)
    [] m.rule = "bare_numeric" -> bareNumeric(m.value, m.near, reference)
    [] m.rule = "bare_ordinal" -> bareOrdinal(m.value, reference)
    [] OTHER -> relative(m, reference)

IsDate(m) ==
  /\ m.rule = "bare_numeric" =>
       /\ m.value.a \in 1..31 /\ m.value.b \in 1..31
       /\ m.value.a <= 12 \/ m.value.b <= 12
  /\ m.rule = "bare_ordinal" => m.value.day \in 1..31

dateSignal(m, source, i) ==
  LET r == dateOf(m, source.at)
  IN Signal("date", [date |-> r.date, yearWritten |-> r.yearWritten], r.confidence, m, i, source)

extractDates(source, i) ==
  LET matches == Matches(DateRules, source)
      claimed == claim(DateRules, matches, {m \in matches : IsDate(m)})
  IN [j \in DOMAIN claimed |-> dateSignal(claimed[j], source, i)]

\* One ask per rule however many cues; only the customer asks.
Hits(rule, source) == {m \in source.found : m.rule = rule}

askSignal(rule, source, i) ==
  LET first == CHOOSE m \in Hits(rule, source) :
                 \A n \in Hits(rule, source) : m.start <= n.start
  IN Signal("ask", rule,
            AtMost(96, ConfidenceOf[rule] + 5 * (Cardinality(Hits(rule, source)) - 1)),
            first, i, source)

extractAsks(source, i) ==
  LET hit == filter(AskRules, LAMBDA rule : Hits(rule, source) # {})
      asks == [j \in DOMAIN hit |-> askSignal(hit[j], source, i)]
  IN IF source.role # "customer" THEN <<>>
     ELSE stableSort(asks, LAMBDA s, t : s.confidence > t.confidence)

extractFromSource(source, i) ==
  extractMoney(source, i) \o extractIdentifiers(source, i)
    \o extractDates(source, i) \o extractAsks(source, i)

-----------------------------------------------------------------------------
(***************************************************************************)
(* readConversation: all signals, and for each kind the one that leads.    *)
(***************************************************************************)
\* The subject, the description and the comments, but for an agent's internal notes.
toTextSources(messages) ==
  stableSort(filter(messages, LAMBDA m : m.public \/ m.role # "agent"),
             LAMBDA m, n : m.at < n.at)

signalsOf(sources) ==
  FlattenSeq([i \in DOMAIN sources |-> extractFromSource(sources[i], i)])

KIND_WEIGHT == [payment_reference |-> 5500, order_reference |-> 5060, ask |-> 4400,
                money |-> 4125, date |-> 3025]

\* (mutant) Recency does not count.
salience_Timeless(s, n) ==
  KIND_WEIGHT[s.kind] + 30 * s.confidence + (IF s.role = "customer" THEN 500 ELSE 425)

\* In ten thousandths, and times n - 1, the divisor of a position among n sources.
salience(s, n) ==
  LET fixed == KIND_WEIGHT[s.kind] + 30 * s.confidence
                 + (IF s.role = "customer" THEN 500 ELSE 425)
  IN IF n > 1 THEN fixed * (n - 1) + 1000 * (s.source - 1) ELSE fixed + 1000

\* The first of the most salient.
stronger(s, t, n) == IF salience(s, n) >= salience(t, n) THEN s ELSE t

best(kind, signals, n) ==
  LET candidates == filter(signals, LAMBDA s : s.kind = kind)
  IN IF candidates = <<>> THEN None
     ELSE FoldLeft(LAMBDA s, t : stronger(s, t, n), Head(candidates), Tail(candidates))

leads(signals, n) ==
  [k \in Kind |-> LET s == best(k, signals, n) IN IF s = None THEN None ELSE s.value]

-----------------------------------------------------------------------------
(***************************************************************************)
(* Resolving a span to the records it may mean.                            *)
(***************************************************************************)
\* orderToCandidate and chargeToCandidate: an order goes by its name.
CandidateOf(r) ==
  [type |-> r.type, reference |-> IF r.name # None THEN r.name ELSE r.id,
   amount |-> r.amount, day |-> r.day]

NO_MATCH == [candidates |-> {}, matchedOn |-> None, resolvedYear |-> None]

sameMonthAndDay(m, n) == MonthOf(m) = MonthOf(n) /\ DayOf(m) = DayOf(n)

\* (mutant) The year is taken as written.
dateMatches_AsRead(v, r) == r.day = v.date

\* A year that was not written is any year.
dateMatches(v, r) == IF v.yearWritten THEN r.day = v.date ELSE sameMonthAndDay(r.day, v.date)

\* (mutant) A year is picked.
settledYear_First(years) == IF years = {} THEN None ELSE CHOOSE y \in years : \A z \in years : y <= z

\* The records settle the year if they agree.
settledYear(years) == IF Cardinality(years) = 1 THEN CHOOSE y \in years : TRUE ELSE None

resolveDate(v, corpus) ==
  LET rows == {r \in corpus : dateMatches(v, r)}
  IN IF rows = {} THEN NO_MATCH
     ELSE [candidates |-> {CandidateOf(r) : r \in rows}, matchedOn |-> "date",
           resolvedYear |-> IF v.yearWritten THEN None
                            ELSE settledYear({YearOf(r.day) : r \in rows})]

resolveMoney(v, corpus) ==
  LET rows == {r \in corpus : r.amount = v.amountCents}
  IN IF rows = {} THEN NO_MATCH
     ELSE [NO_MATCH EXCEPT !.candidates = {CandidateOf(r) : r \in rows}, !.matchedOn = "amount"]

resolveIdentifier(reference, corpus, explicit) ==
  LET rows == {r \in corpus : r.id = reference \/ r.name = reference}
      found == IF reference \in DOMAIN explicit THEN {explicit[reference]}
               ELSE {CandidateOf(r) : r \in rows}
  IN IF found = {} THEN NO_MATCH
     ELSE [NO_MATCH EXCEPT !.candidates = found, !.matchedOn = "identifier"]

resolveSpan(s, corpus, explicit) ==
  CASE s.kind \in {"order_reference", "payment_reference"} ->
         resolveIdentifier(s.value, corpus, explicit)
    [] s.kind = "date" -> resolveDate(s.value, corpus)
    [] s.kind = "money" -> resolveMoney(s.value, corpus)
    [] OTHER -> NO_MATCH

-----------------------------------------------------------------------------
(***************************************************************************)
(* The conversation and the providers.                                     *)
(***************************************************************************)
\* The subject comes first, then the description, if there is one, and the comments.
\* Subject and description count as the customer's whoever opened the ticket.
messageWritten(m) ==
  /\ context = None /\ Len(thread) < MaxMessages
  /\ thread = <<>> => m.role = "customer" /\ m.public
  /\ thread # <<>> => thread[Len(thread)].at <= m.at
  /\ thread' = Append(thread, m)
  /\ UNCHANGED <<known, work, context>>

recordMade(r) ==
  /\ context = None /\ r \notin known /\ known' = known \cup {r}
  /\ UNCHANGED <<thread, work, context>>

\* The customer's recent orders and charges.
Listed(records) == {r \in records : r.listed}

-----------------------------------------------------------------------------
(***************************************************************************)
(* The ingestion of the ticket: ingestTicketContext.                       *)
(***************************************************************************)
\* readTicket and readConversation: a thread that cannot be read is empty.
readConversation(sources) ==
  LET signals == signalsOf(sources)
  IN work' = [Idle EXCEPT !.step = "read", !.sources = sources, !.signals = signals,
                          !.leads = leads(signals, Len(sources)), !.seen = Listed(known)]

readTicket ==
  /\ context = None /\ work.step = "idle" /\ thread # <<>>
  /\ readConversation(toTextSources(thread)) \/ readConversation(<<>>)
  /\ UNCHANGED <<thread, known, context>>

\* A customer without a name, or a provider that does not answer: no history of
\* the provider's.
loadCorpusForIssue ==
  /\ work.step = "read"
  /\ \E corpus \in {Listed(known), {r \in Listed(known) : r.type = "order"},
                    {r \in Listed(known) : r.type = "charge"}, {}} :
       work' = [work EXCEPT !.step = "corpus", !.corpus = corpus]
  /\ UNCHANGED <<thread, known, context>>

\* A refund names its charge; a charge is shown by its latest refund.
lookupStripe(reference) ==
  LET refunds == {r \in known : r.type = "refund"
                                /\ (r.id = reference \/ r.charge = reference)}
      charges == {r \in known : r.type = "charge" /\ r.id = reference}
      latest == CHOOSE r \in refunds : \A q \in refunds : q.day <= r.day
  IN IF refunds # {} THEN [charge |-> latest.charge, refund |-> latest.id,
                           amount |-> latest.amount]
     ELSE IF charges # {} THEN [charge |-> reference, refund |-> None,
                                amount |-> (CHOOSE r \in charges : TRUE).amount]
     ELSE None

\* The order of this id; what is written is mostly a name, and an order that is
\* not found is taken for archived.
lookupShopify(reference) ==
  LET orders == {r \in known : r.type = "order" /\ r.id = reference}
      order == CHOOSE r \in orders : TRUE
  IN IF orders # {} THEN [id |-> order.id, name |-> order.name, amount |-> order.amount]
     ELSE [id |-> reference, name |-> None, amount |-> None]

StripeRecord(stripe, reference) ==
  [type |-> IF reference = stripe.refund THEN "refund" ELSE "charge",
   reference |-> reference, amount |-> stripe.amount, day |-> None]

ShopifyRecord(shopify) ==
  [type |-> "order", reference |-> IF shopify.name # None THEN shopify.name ELSE shopify.id,
   amount |-> shopify.amount, day |-> None]

explicitRecords(stripe, shopify) ==
  LET payments == IF stripe = None THEN {} ELSE {stripe.charge, stripe.refund} \ {None}
      orders == IF shopify = None THEN {} ELSE {shopify.id, shopify.name} \ {None}
  IN [k \in payments \cup orders |->
        IF k \in orders THEN ShopifyRecord(shopify) ELSE StripeRecord(stripe, k)]

\* Only what leads is looked up; a provider that fails gives nothing.
lookup ==
  LET payment == work.leads["payment_reference"]
      order == work.leads["order_reference"]
  IN /\ work.step = "corpus"
     /\ \E stripe \in {IF payment = None THEN None ELSE lookupStripe(payment), None},
           shopify \in {IF order = None THEN None ELSE lookupShopify(order), None} :
          work' = [work EXCEPT !.step = "looked", !.explicit = explicitRecords(stripe, shopify)]
     /\ UNCHANGED <<thread, known, context>>

\* What is stored of a signal.  The date that is shown follows the records.
Annotation(s, corpus, explicit) ==
  LET r == resolveSpan(s, corpus, explicit)
  IN [signal |-> s, candidates |-> r.candidates, matchedOn |-> r.matchedOn,
      shown |-> IF s.kind # "date" THEN None
                ELSE IF r.resolvedYear # None
                       THEN [Day(s.value.date) EXCEPT !.year = r.resolvedYear]
                     ELSE Day(s.value.date)]

\* persistThread and persistContext, in one transaction.
persistContext ==
  /\ work.step = "looked"
  /\ context' = [sources |-> work.sources, leads |-> work.leads, seen |-> work.seen,
                 corpus |-> work.corpus,
                 annotations |-> {Annotation(s, work.corpus, work.explicit) :
                                    s \in ToSet(work.signals)}]
  /\ work' = Idle
  /\ UNCHANGED <<thread, known>>

Next ==
  \/ \E m \in Messages : messageWritten(m)
  \/ \E r \in Records : recordMade(r)
  \/ readTicket \/ loadCorpusForIssue \/ lookup \/ persistContext

Spec == Init /\ [][Next]_conversationVars

-----------------------------------------------------------------------------
(***************************************************************************)
(* Properties.                                                             *)
(***************************************************************************)
Stored == context # None

Found(a) ==
  CHOOSE m \in context.sources[a.signal.source].found :
    m.rule = a.signal.rule /\ m.start = a.signal.start /\ m.end = a.signal.end

\* The month and day that are written, or None when the text has none of them, there
\* is no such month, or the year that is written or inferred has no such day.
Written(a) ==
  LET m == Found(a)
      w == IF m.rule \in {"numeric_slash", "bare_numeric"} THEN monthFirst(m.value)
           ELSE IF m.rule \in {"iso_date"} \cup MonthNames
             THEN [month |-> m.value.month, day |-> m.value.day]
           ELSE None
  IN IF w # None /\ w.month \in 1..12 /\ DayOf(a.signal.value.date) = w.day THEN w ELSE None

WrittenYear(m) == IF m.rule = "bare_numeric" THEN None ELSE m.value.year

\* Whether the words of a span may mean a record.
MayMean(a, r) ==
  LET m == Found(a)
      w == Written(a)
  IN CASE a.signal.kind = "date" ->
            /\ w # None /\ MonthOf(r.day) = w.month /\ DayOf(r.day) = w.day
            /\ WrittenYear(m) \in {None, YearOf(r.day)}
       [] a.signal.kind = "money" -> r.amount = amountCents(m.value)
       [] OTHER -> FALSE

\* "A span that matches several records returns all of them": a date or an
\* amount keeps every order and charge that it may mean, of what the providers
\* listed when the ticket was read, and is tied to nothing else; an identifier is
\* tied to records that bear it.
ReadingsAreKept ==
  Stored =>
    \A a \in context.annotations :
      /\ \A r \in context.seen \cap context.corpus : MayMean(a, r) => CandidateOf(r) \in a.candidates
      /\ a.signal.kind = "money" \/ (a.signal.kind = "date" /\ Written(a) # None) =>
           \A c \in a.candidates : \E r \in context.corpus : MayMean(a, r) /\ CandidateOf(r) = c
      /\ a.signal.kind \in {"order_reference", "payment_reference"} =>
           \A c \in a.candidates :
             \/ c.reference = a.signal.value
             \/ \E r \in Records : r.id = a.signal.value /\ CandidateOf(r).reference = c.reference

\* "The display has to follow": the date that is shown is the day of each record
\* the span is tied to, but for the year when they disagree on it.
ShownDatesFollowRecords ==
  Stored =>
    \A a \in context.annotations :
      a.signal.kind = "date" =>
        LET days == {Day(c.day) : c \in a.candidates}
        IN /\ \A d \in days : d.month = a.shown.month /\ d.day = a.shown.day
           /\ Cardinality(days) = 1 => a.shown \in days
           /\ Cardinality(days) # 1 => a.shown = Day(a.signal.value.date)

\* "A date resolving into the future is the wrong reading": a year or a day that
\* was not written is read before the message, also over the end of a month or
\* of a year.  (A 45th of December is read too, as a day of January.)
UnwrittenDatesArePast ==
  Stored =>
    \A a \in context.annotations :
      (/\ a.signal.kind = "date"
       /\ ~a.signal.value.yearWritten \/ a.signal.rule \in RelativeRules
       /\ (a.signal.rule \in MonthNames => Found(a).value.day <= 31))
        => a.signal.value.date <= context.sources[a.signal.source].at

\* "A customer who corrects themselves in a later message means the later
\* message": what is looked up, claimed or asked is nothing that the customer
\* said otherwise later on, as clearly.
CorrectionsLead ==
  Stored =>
    \A k \in Kind :
      context.leads[k] # None =>
        \E a \in context.annotations :
          /\ a.signal.kind = k /\ a.signal.value = context.leads[k]
          /\ ~\E b \in context.annotations :
               /\ b.signal.kind = k /\ b.signal.role = "customer"
               /\ b.signal.source > a.signal.source
               /\ b.signal.confidence >= a.signal.confidence

\* Every character belongs to one reading of a kind: two spans of one extractor
\* never overlap, and what an extractor leaves out is no match of its own or
\* lies under a match of a rule that is at least as specific.
ExtractorOf(m) ==
  CHOOSE rules \in {MoneyRules, IdentifierRules, DateRules} : m.rule \in ToSet(rules)

Accepted(m) ==
  CASE m.rule \in ToSet(MoneyRules) -> IsMoney(m)
    [] m.rule \in ToSet(DateRules) -> IsDate(m)
    [] OTHER -> IsReference(m)

SpecificRulesWin ==
  Stored =>
    \A i \in DOMAIN context.sources :
      LET Spans == {a.signal : a \in {b \in context.annotations : b.signal.source = i}}
          Kept(m) == \E s \in Spans : s.rule = m.rule /\ s.start = m.start
          Spoken == {m \in context.sources[i].found : m.rule \notin ToSet(AskRules)}
      IN \A m \in Spoken :
           IF Kept(m)
             THEN \A n \in Spoken :
                    Kept(n) /\ n # m /\ ExtractorOf(n) = ExtractorOf(m) => ~overlaps(m, n)
             ELSE \/ ~Accepted(m)
                  \/ \E n \in Spoken :
                       /\ Kept(n) /\ ExtractorOf(n) = ExtractorOf(m) /\ overlaps(m, n)
                       /\ RuleRank(ExtractorOf(m), n) <= RuleRank(ExtractorOf(m), m)
=============================================================================
