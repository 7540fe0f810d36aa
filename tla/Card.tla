-------------------------------- MODULE Card --------------------------------
(***************************************************************************)
(* What the card of a ticket says: routes/card.ts with services/context.ts *)
(* and services/history.ts, and what the sidebar makes of it               *)
(* (normalizeContext, AnnotatedThread.tsx, lib/spans.ts).                  *)
(*                                                                         *)
(* The handler reads the extraction, the messages, the issue's subject and *)
(* the customer's other issues in statements of their own, the first three *)
(* at once.  Meanwhile ingestions commit, of this ticket and of the other  *)
(* issues' tickets, and the cards of the other issues are rebuilt from     *)
(* evidence that may say anything by then.  One request is enough, for     *)
(* requests only read.  A thread has one message: spans are sorted to      *)
(* their messages and each is treated alone.                               *)
(*                                                                         *)
(* A text is a sequence of characters, few and arbitrary: the spans are    *)
(* offsets into it.  Left out: the fields the card only passes on, the     *)
(* notices of severity info, and issues opened while the card is read.     *)
(***************************************************************************)
EXTENDS Arrays

CONSTANTS
  None,
  Characters,
  Extractions,     \* what the extractor finds: a text, its spans and its leads
  References,      \* identifiers of orders and of charges
  Others,          \* the customer's other issues; the larger opened later
  Subjects,        \* what their tickets may name
  Statuses,        \* what refund_status of their cards may be
  MaxRows,         \* bound on the rows that they have while a card is read
  HISTORY_LIMIT,
  Kinds            \* kinds of spans

ResolvableKind == {"money", "date", "order_reference", "payment_reference", "merchant"}

KIND_PRIORITY ==
  [k \in Kinds |->
     CASE k = "payment_reference" -> 5 [] k = "order_reference" -> 4 [] k = "money" -> 3
       [] k = "date" -> 2 [] k = "ask" -> 1 [] OTHER -> 0]

Reference == References \cup {None}
Subject == [order : Reference, payment : Reference]
Issue == {[order |-> s.order, payment |-> s.payment, status |-> t] : s \in Subjects, t \in Statuses}
Annotation ==
  [kind : Kinds, start : Nat, end : Nat, excerpt : Seq(Characters), confidence : 0..10]

\* "Build provenance with the excerpt taken from the offsets": provenanceOf.
IsExtraction(x) ==
  /\ x.text \in Seq(Characters) /\ x.order \in Reference /\ x.payment \in Reference
  /\ x.annotations \in Seq(Annotation)
  /\ \A i \in DOMAIN x.annotations :
       LET span == x.annotations[i]
       IN span.end <= Len(x.text) /\ span.excerpt = slice(x.text, span.start, span.end)

ASSUME CardAssumption ==
  /\ Others \subseteq Nat /\ IsFiniteSet(Others) /\ HISTORY_LIMIT \in Nat
  /\ Subjects \subseteq Subject
  /\ Statuses \subseteq {None, "pending", "succeeded", "failed", "not_found"}
  /\ None \notin References /\ None \notin Subject
  /\ \A x \in Extractions : IsExtraction(x)

VARIABLES
  message,     \* issue_messages: the text, or none when it is erased
  context,     \* issue_context
  customer,    \* whether issues.customer_id names a customer
  other,       \* the other issues: subject, and refund_status of their cards
  pending,     \* the statements the request still has to run
  read,        \* what it has read
  seen,        \* the rows that each has had since the request began (history)
  steady       \* no ingestion since it began (history)

requestVars == <<pending, read, seen, steady>>
cardVars    == <<message, context, customer, other, requestVars>>

Statements == {"context", "messages", "subject", "history"}
NothingRead ==
  [context |-> None, message |-> None, subject |-> None, others |-> {}, truncated |-> FALSE]

Init ==
  /\ message = None /\ context = None
  /\ customer \in BOOLEAN
  /\ other \in [Others -> Issue]
  /\ pending = Statements /\ read = NothingRead
  /\ seen = [i \in Others |-> {other[i]}] /\ steady = TRUE

Answered == pending = {}

-----------------------------------------------------------------------------
(***************************************************************************)
(* The tables change.                                                      *)
(***************************************************************************)
\* persistThread and persistContext, in one transaction: the thread is replaced.
ingest(x) ==
  /\ ~Answered
  /\ message' = [body |-> x.text]
  /\ context' = [annotations |-> x.annotations, order |-> x.order, payment |-> x.payment]
  /\ steady' = (pending = Statements)
  /\ UNCHANGED <<customer, other, pending, read, seen>>

\* An operator erases the text, in SQL; nothing in the code does.
erase ==
  /\ ~Answered /\ message # None /\ message.body # None
  /\ message' = [body |-> None]
  /\ UNCHANGED <<context, customer, other, requestVars>>

\* Another issue gets another row, of issue_context or of issue_card_state.
changeOther(i, row) ==
  /\ ~Answered /\ row # other[i]
  /\ other' = [other EXCEPT ![i] = row]
  /\ seen' = IF pending = Statements THEN [seen EXCEPT ![i] = {row}]
             ELSE [seen EXCEPT ![i] = @ \cup {row}]
  /\ Cardinality({r \in Others \X Issue : r[2] \in seen'[r[1]]}) <= MaxRows
  /\ UNCHANGED <<message, context, customer, pending, read, steady>>

\* Its ticket is ingested anew, and may name other transactions or none.
persistContext(i) ==
  \E subject \in Subjects :
    changeOther(i, [order |-> subject.order, payment |-> subject.payment,
                    status |-> other[i].status])

\* Its card is rebuilt: a refund may have been made, have failed since, or not be
\* in the newest row of its evidence.
rebuildCardState(i) ==
  \E status \in Statuses : changeOther(i, [other[i] EXCEPT !.status = status])

-----------------------------------------------------------------------------
(***************************************************************************)
(* The statements of GET /api/v1/card/:zendesk_ticket_id.                  *)
(***************************************************************************)
Ran(s) == s \in pending /\ pending' = pending \ {s}

\* loadIssueContext
readContext ==
  /\ Ran("context") /\ read' = [read EXCEPT !.context = context]
  /\ UNCHANGED <<message, context, customer, other, seen, steady>>

readMessages ==
  /\ Ran("messages") /\ read' = [read EXCEPT !.message = message]
  /\ UNCHANGED <<message, context, customer, other, seen, steady>>

\* currentSubject: nothing is named before the ticket has been ingested.
currentSubject ==
  /\ Ran("subject")
  /\ read' = [read EXCEPT !.subject =
       IF ~customer THEN None
       ELSE IF context = None THEN [order |-> None, payment |-> None]
       ELSE [order |-> context.order, payment |-> context.payment]]
  /\ UNCHANGED <<message, context, customer, other, seen, steady>>

\* (mutant) The oldest issues are kept.
newest_Oldest(n) == {i \in Others : Cardinality({j \in Others : j < i}) < n}

\* ORDER BY opened_at DESC LIMIT n
newest(n) == {i \in Others : Cardinality({j \in Others : j > i}) < n}

\* One issue more than is shown is asked for, to know whether there is more.
assembleCustomerHistory ==
  /\ "subject" \notin pending /\ Ran("history")
  /\ read' = IF read.subject = None THEN read
             ELSE [read EXCEPT
                     !.others = {<<i, other[i]>> : i \in newest(HISTORY_LIMIT)},
                     !.truncated = newest(HISTORY_LIMIT + 1) # newest(HISTORY_LIMIT)]
  /\ UNCHANGED <<message, context, customer, other, seen, steady>>

Next ==
  \/ \E x \in Extractions : ingest(x)
  \/ erase
  \/ \E i \in Others : persistContext(i) \/ rebuildCardState(i)
  \/ readContext \/ readMessages \/ currentSubject \/ assembleCustomerHistory

Spec == Init /\ [][Next]_cardVars

-----------------------------------------------------------------------------
(***************************************************************************)
(* What the handler answers.                                               *)
(***************************************************************************)
\* (mutant) Offsets are trusted.
fits_Trusted(a, body) == TRUE

fits(a, body) == slice(body, a.start, a.end) = a.excerpt

\* Spans that do not land where they claim to are dropped, and so are those of
\* an erased text.
validateSpans(annotations, body) ==
  IF body = None THEN <<>>
  ELSE stableSort(filter(annotations, LAMBDA a : fits(a, body)),
                  LAMBDA a, b : a.start < b.start)

\* toAnnotation: a span without an extent is no span.
usable(annotations) == filter(annotations, LAMBDA a : a.end > a.start)

\* The thread is empty when there is no extraction or no message.
hasThread == read.context # None /\ read.message # None
apiSpans == validateSpans(usable(read.context.annotations), read.message.body)

isSameSubject(subject, row) ==
  \/ subject.order # None /\ row.order = subject.order
  \/ subject.payment # None /\ row.payment = subject.payment

sameSubject == {x \in read.others : isSameSubject(read.subject, x[2])}
wasRefunded(row) == row.status = "succeeded"

\* The interactions that the answer lists as refunds of the same subject.
refundedSameSubject == {x[1] : x \in {y \in sameSubject : wasRefunded(y[2])}}

\* deriveNotices: the critical notice names the first of them, the newest.
priorRefundSameSubject ==
  {i \in refundedSameSubject : \A j \in refundedSameSubject : j <= i}

(***************************************************************************)
(* What the sidebar renders.                                               *)
(***************************************************************************)
\* normalizeContext: placement is checked again against the body received.
normalizedSpans ==
  filter(apiSpans, LAMBDA a : read.message.body # None /\ fits(a, read.message.body))

marks == filter(normalizedSpans, LAMBDA a : a.kind \in ResolvableKind)

priority(a) == KIND_PRIORITY[a.kind] * 100 + a.confidence

\* A span without an extent, or that overlaps one that is kept, is dropped.
keep(kept, a) ==
  IF a.end <= a.start \/ \E i \in DOMAIN kept : overlaps(a, kept[i])
    THEN kept ELSE Append(kept, a)

\* (mutant) Spans are taken in the order of the text.
resolveOverlaps_InOrder(spans) ==
  FoldLeft(keep, <<>>, stableSort(spans, LAMBDA a, b : a.start < b.start))

resolveOverlaps(spans) ==
  LET ordered == stableSort(spans, LAMBDA a, b : priority(a) > priority(b))
  IN stableSort(FoldLeft(keep, <<>>, ordered), LAMBDA a, b : a.start < b.start)

Plain(text) == [marked |-> FALSE, text |-> text, span |-> None]
Marked(text, a) == [marked |-> TRUE, text |-> text, span |-> a]

\* The segments up to the end of a span; it is skipped when it does not fit in.
add(body, state, a) ==
  IF a.start < state.cursor \/ a.end > Len(body) THEN state
  ELSE [cursor |-> a.end,
        segments |->
          state.segments
          \o (IF a.start > state.cursor
                THEN <<Plain(slice(body, state.cursor, a.start))>> ELSE <<>>)
          \o <<Marked(slice(body, a.start, a.end), a)>>]

toSegments(body, spans) ==
  LET end == FoldLeft(LAMBDA state, a : add(body, state, a),
                      [cursor |-> 0, segments |-> <<>>], resolveOverlaps(spans))
  IN end.segments
     \o (IF end.cursor < Len(body)
           THEN <<Plain(slice(body, end.cursor, Len(body)))>> ELSE <<>>)

segments == toSegments(read.message.body, marks)

Rendered == Answered /\ hasThread /\ read.message.body # None

-----------------------------------------------------------------------------
(***************************************************************************)
(* Properties.                                                             *)
(***************************************************************************)
\* (type) Every variable keeps its type.
TypeOK ==
  /\ message = None \/ message.body \in {x.text : x \in Extractions} \cup {None}
  /\ customer \in BOOLEAN /\ steady \in BOOLEAN
  /\ other \in [Others -> Issue] /\ seen \in [Others -> SUBSET Issue]
  /\ pending \subseteq Statements
  /\ "subject" \in pending => "history" \in pending
  /\ read.others \subseteq Others \X Issue /\ Cardinality(read.others) <= HISTORY_LIMIT

\* "Marks never alter the text": although the extraction and the messages are
\* read apart and a new ingestion may fall between, the segments put together
\* are the message, and every mark stands on the words it was made from.
MarksAreTrue ==
  Rendered =>
    LET shown == segments
    IN /\ FlattenSeq([i \in DOMAIN shown |-> shown[i].text]) = read.message.body
       /\ \A i \in DOMAIN shown :
            shown[i].marked => shown[i].text = shown[i].span.excerpt

\* Of two readings of the same words the stronger is shown: a mark that fits the
\* text is shown, or gives way to an overlapping one of at least its priority.
StrongestReadingShown ==
  Rendered =>
    LET fitting == marks
        shown == segments
    IN \A i \in DOMAIN fitting :
         \E j \in DOMAIN shown :
           /\ shown[j].marked
           /\ \/ shown[j].span = fitting[i]
              \/ /\ overlaps(shown[j].span, fitting[i])
                 /\ priority(shown[j].span) >= priority(fitting[i])

\* "The one that prevents paying twice": unless the ticket is ingested anew while
\* its card is read, a refund about the same order or charge that is there all the
\* time is listed, and the critical notice names it or a newer one, or the answer
\* says that it looks no further back; and it names none that was not one at any
\* time since it was asked, whatever becomes of the other issues meanwhile.
RefundsAreNoticed ==
  Answered /\ steady /\ customer /\ context # None =>
    LET Refund(row) ==
          /\ \/ row.order = context.order /\ context.order # None
             \/ row.payment = context.payment /\ context.payment # None
          /\ row.status = "succeeded"
    IN /\ \A i \in refundedSameSubject : \E row \in seen[i] : Refund(row)
       /\ \A i \in Others :
            (\A row \in seen[i] : Refund(row)) =>
              \/ /\ i \in refundedSameSubject
                 /\ \E j \in priorRefundSameSubject : j >= i
              \/ /\ read.truncated
                 /\ Cardinality({j \in Others : j > i}) >= HISTORY_LIMIT
=============================================================================
