------------------------------- MODULE MCCard -------------------------------
(***************************************************************************)
(* Instances of Card for TLC.                                              *)
(***************************************************************************)
EXTENDS Card, TLC

CONSTANTS a, b, o

ChosenSubjects == {[order |-> o, payment |-> None], [order |-> None, payment |-> o]}

ChosenKinds == {"order_reference", "payment_reference", "money", "ask"}

Span(kind, text, start, end, confidence) ==
  [kind |-> kind, start |-> start, end |-> end, excerpt |-> slice(text, start, end),
   confidence |-> confidence]

Extraction(text, spans, order, payment) ==
  [text |-> text, annotations |-> spans, order |-> order, payment |-> payment]

\* A message, and what it becomes when it is edited: characters are inserted
\* before the marks, or taken from its end.
Long  == <<a, b, a>>
Moved == <<b, a, b, a>>
Short == <<a, b>>

\* Two readings of the same words, the weaker beginning first, in either order
\* of finding; one that touches the weaker; and a mark beside the text.
Order == Span("order_reference", Long, 1, 3, 5)
Money == Span("money", Long, 0, 2, 9)
Rest  == Span("money", Long, 2, 3, 7)
Beside == Span("ask", Long, 0, 3, 9)

ChosenExtractions ==
  {Extraction(Long, <<Order, Money>>, o, None),
   Extraction(Long, <<Beside, Money, Rest, Order>>, o, None),
   Extraction(Moved, <<Span("money", Moved, 1, 3, 7), Span("order_reference", Moved, 2, 4, 5)>>,
              o, o),
   Extraction(Short, <<Span("payment_reference", Short, 0, 1, 6)>>, None, o)}
=============================================================================
