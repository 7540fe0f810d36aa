--------------------------- MODULE MCConversation ---------------------------
(***************************************************************************)
(* Instances of Conversation for TLC.  Year 0 is 2024.                     *)
(***************************************************************************)
EXTENDS Conversation, TLC

Match(rule, start, end, near, value) ==
  [rule |-> rule, start |-> start, end |-> end, near |-> near, value |-> value]
Says(rule, start, end, value) == Match(rule, start, end, FALSE, value)
Money(amount, currency) == [amount |-> amount, currency |-> currency]
Numbers(a, b) == [a |-> a, b |-> b]

Message(role, public, at, found) == [role |-> role, public |-> public, at |-> at, found |-> found]
Customer(at, found) == Message("customer", TRUE, at, found)

January == UTC(2, 1, 10)
March   == UTC(2, 3, 15)

\* "order #1001 on 8/1, $39.00": a number that two rules read, and an amount too.
Ordered ==
  Customer(January,
    {Says("order_labelled", 0, 11, "1001"), Says("order_hash_prefixed", 6, 11, "1001"),
     Match("bare_numeric", 15, 18, TRUE, Numbers(8, 1)),
     Says("symbol_prefixed", 20, 26, Money(39, "USD")),
     Match("bare_decimal_with_context", 21, 26, TRUE, Money(39, None))})

\* "sorry, order #1002: charged again, refund, refund"
Corrected ==
  Customer(March,
    {Says("order_labelled", 7, 18, "1002"), Says("billing_dispute", 20, 33, None),
     Says("refund_request", 35, 41, None), Says("refund_request", 43, 49, None)})

\* "ch1, or ticket #1001: on the 31st, 14/3/2026, last monday"
Dated ==
  Customer(March,
    {Says("stripe_charge", 0, 3, "ch1"), Match("order_hash_prefixed", 15, 20, TRUE, "1001"),
     Says("bare_ordinal", 22, 33, [day |-> 31]),
     Says("numeric_slash", 35, 44, [a |-> 14, b |-> 3, year |-> 2]),
     Says("relative_weekday", 46, 57, 1)})

\* A refund by its identifier, the last of February, an amount in yen, 13/14, and
\* "receipt #1001", which the looser rule reads first.
Odd ==
  Customer(January,
    {Says("stripe_refund", 0, 3, "re1"), Says("order_synonym", 42, 55, "1001"),
     Says("order_hash_prefixed", 50, 55, "1001"), Says("bare_numeric", 5, 9, Numbers(2, 29)),
     Says("code_suffixed", 11, 19, Money(3900, "JPY")), Says("bare_numeric", 21, 26, Numbers(13, 14)),
     Says("relative_offset", 28, 40, [n |-> 1, unit |-> "month"])})

Answer == Message("agent", TRUE, March,
  {Says("order_labelled", 0, 11, "1003"), Says("refund_request", 13, 19, None)})
Note == Message("agent", FALSE, March, {Says("order_labelled", 0, 11, "1003")})

ChosenMessages == {Ordered, Corrected, Dated, Odd, Answer, Note}

Record(type, id, name, day, amount, charge, listed) ==
  [type |-> type, id |-> id, name |-> name, day |-> day, amount |-> amount,
   charge |-> charge, listed |-> listed]

\* Two purchases on one day of different years for the same amount, one of them
\* refunded; an order on the day before the messages of March.
ChosenRecords ==
  {Record("order", "o1", "1001", UTC(1, 8, 1), 3900, None, TRUE),
   Record("charge", "ch1", None, UTC(0, 8, 1), 3900, None, TRUE),
   Record("refund", "re1", None, UTC(0, 8, 9), 3900, "ch1", FALSE),
   Record("order", "1003", "1003", UTC(2, 3, 14), 4500, None, TRUE)}
=============================================================================
