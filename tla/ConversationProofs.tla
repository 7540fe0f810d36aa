------------------------- MODULE ConversationProofs -------------------------
(***************************************************************************)
(* The invariants of Conversation and the reading of dates without a year, *)
(* proved for any messages, records and bound, under                       *)
(* ConversationAssumption.                                                 *)
(***************************************************************************)
EXTENDS Conversation, ArraysProofs

-----------------------------------------------------------------------------
(***************************************************************************)
(* The calendar: every day lies in one month of one year.                  *)
(***************************************************************************)
LEMMA YearHoldsDay ==
  ASSUME NEW n \in Int
  PROVE  /\ YearOf(n) \in Int
         /\ YearStart(YearOf(n)) <= n
         /\ n < YearStart(YearOf(n) + 1)
BY SMT DEF YearOf, YearStart

LEMMA YearsAreOrdered ==
  ASSUME NEW y \in Int, NEW z \in Int, y < z
  PROVE  /\ YearStart(y) \in Int /\ YearStart(y + 1) \in Int /\ YearStart(z) \in Int
         /\ YearStart(y + 1) <= YearStart(z)
BY SMT DEF YearStart

\* The days of a year up to the end of a month, and how many the month has.
MonthEnd(y, m) == IF m = 12 THEN YearStart(y + 1) ELSE MonthStart(y, m + 1)

LEMMA Months ==
  ASSUME NEW y \in Int, NEW m \in 1..12
  PROVE  /\ MonthStart(y, m) \in Int /\ MonthEnd(y, m) \in Int
         /\ MonthStart(y, 1) = YearStart(y)
         /\ YearStart(y) <= MonthStart(y, m) /\ MonthEnd(y, m) <= YearStart(y + 1)
         /\ MonthEnd(y, m) - MonthStart(y, m) \in 28..31
         /\ YearStart(y + 1) \in Int /\ MonthStart(y, m) + 31 <= YearStart(y + 1)
<1> DEFINE leap == IF Leap(y) THEN 1 ELSE 0
<1>1. YearStart(y) \in Int /\ YearStart(y + 1) = YearStart(y) + 365 + leap
  BY SMT DEF YearStart, Leap
<1>2. leap \in 0..1
  OBVIOUS
<1>3. \A k \in 1..12 : MonthStart(y, k) = YearStart(y) + DaysBefore[k] + IF k > 2 THEN leap ELSE 0
  BY SMT DEF MonthStart
<1> HIDE DEF leap
<1>4. /\ MonthStart(y, 1) = YearStart(y) /\ MonthStart(y, 2) = YearStart(y) + 31
      /\ MonthStart(y, 3) = YearStart(y) + 59 + leap
      /\ MonthStart(y, 4) = YearStart(y) + 90 + leap
      /\ MonthStart(y, 5) = YearStart(y) + 120 + leap
      /\ MonthStart(y, 6) = YearStart(y) + 151 + leap
      /\ MonthStart(y, 7) = YearStart(y) + 181 + leap
      /\ MonthStart(y, 8) = YearStart(y) + 212 + leap
      /\ MonthStart(y, 9) = YearStart(y) + 243 + leap
      /\ MonthStart(y, 10) = YearStart(y) + 273 + leap
      /\ MonthStart(y, 11) = YearStart(y) + 304 + leap
      /\ MonthStart(y, 12) = YearStart(y) + 334 + leap
  BY <1>1, <1>2, <1>3, SMT DEF DaysBefore
<1>5. /\ m = 1 \/ m = 2 \/ m = 3 \/ m = 4 \/ m = 5 \/ m = 6
         \/ m = 7 \/ m = 8 \/ m = 9 \/ m = 10 \/ m = 11 \/ m = 12
  OBVIOUS
<1> QED BY <1>1, <1>2, <1>4, <1>5, SMT DEF MonthEnd

LEMMA MonthsAreOrdered ==
  ASSUME NEW y \in Int, NEW m \in 1..12, NEW l \in 1..12, m < l
  PROVE  MonthEnd(y, m) <= MonthStart(y, l)
<1> DEFINE S == {k \in Nat : m + k + 1 <= 12 => MonthEnd(y, m) <= MonthStart(y, m + k + 1)}
<1>1. 0 \in S
  <2>1. m + 0 + 1 = m + 1 /\ m # 12
    OBVIOUS
  <2>2. MonthEnd(y, m) = MonthStart(y, m + 1) /\ MonthEnd(y, m) \in Int
    BY <2>1, Months DEF MonthEnd
  <2> QED BY <2>1, <2>2
<1>2. ASSUME NEW k \in Nat, k \in S PROVE k + 1 \in S
  <2> SUFFICES ASSUME m + (k + 1) + 1 <= 12
               PROVE  MonthEnd(y, m) <= MonthStart(y, m + (k + 1) + 1)
    OBVIOUS
  <2>1. m + k + 1 \in 1..12 /\ m + k + 1 # 12 /\ (m + k + 1) + 1 \in 1..12
    OBVIOUS
  <2>2. MonthEnd(y, m) <= MonthStart(y, m + k + 1)
    BY <1>2
  <2>3. /\ MonthStart(y, m + k + 1) \in Int /\ MonthEnd(y, m + k + 1) \in Int
        /\ MonthEnd(y, m + k + 1) - MonthStart(y, m + k + 1) \in 28..31
    BY <2>1, Months
  <2>4. MonthEnd(y, m + k + 1) = MonthStart(y, m + (k + 1) + 1)
    <3>1. (m + k + 1) + 1 = m + (k + 1) + 1
      OBVIOUS
    <3> QED BY <2>1, <3>1 DEF MonthEnd
  <2>5. MonthEnd(y, m) \in Int
    BY Months
  <2> QED BY <2>2, <2>3, <2>4, <2>5
<1> HIDE DEF S
<1>3. l - m - 1 \in Nat /\ l - m - 1 \in S
  BY <1>1, <1>2, Induction
<1> QED
  <2>1. m + (l - m - 1) + 1 = l
    OBVIOUS
  <2> QED BY <1>3, <2>1 DEF S

\* The month and year of a day are those it lies in.
LEMMA InMonth ==
  ASSUME NEW n \in Int, NEW y \in Int, NEW m \in 1..12,
         MonthStart(y, m) <= n, n < MonthEnd(y, m)
  PROVE  YearOf(n) = y /\ MonthOf(n) = m /\ DayOf(n) = n - MonthStart(y, m) + 1
<1>1. YearStart(y) <= n /\ n < YearStart(y + 1)
  <2>1. /\ MonthStart(y, m) \in Int /\ MonthEnd(y, m) \in Int
        /\ YearStart(y) <= MonthStart(y, m) /\ MonthEnd(y, m) <= YearStart(y + 1)
    BY Months
  <2>2. YearStart(y) \in Int /\ YearStart(y + 1) \in Int
    BY SMT DEF YearStart
  <2> QED BY <2>1, <2>2
<1>2. YearOf(n) = y
  <2> DEFINE z == YearOf(n)
  <2>1. z \in Int /\ YearStart(z) <= n /\ n < YearStart(z + 1)
    BY YearHoldsDay
  <2> HIDE DEF z
  <2>2. CASE z < y
    BY <1>1, <2>1, <2>2, YearsAreOrdered
  <2>3. CASE y < z
    BY <1>1, <2>1, <2>3, YearsAreOrdered
  <2> QED BY <2>1, <2>2, <2>3 DEF z
<1> DEFINE In(k) == MonthStart(y, k) <= n /\ (k < 12 => n < MonthStart(y, k + 1))
<1>3. In(m)
  BY DEF MonthEnd
<1>4. ASSUME NEW k \in 1..12, In(k) PROVE k = m
  <2>1. n < MonthEnd(y, k)
    BY <1>1, <1>4 DEF MonthEnd
  <2>2. /\ MonthStart(y, k) \in Int /\ MonthEnd(y, k) \in Int
        /\ MonthStart(y, m) \in Int /\ MonthEnd(y, m) \in Int
    BY Months
  <2>3. CASE k < m
    <3>1. MonthEnd(y, k) <= MonthStart(y, m)
      BY <2>3, MonthsAreOrdered
    <3> QED BY <2>1, <2>2, <3>1
  <2>4. CASE m < k
    <3>1. MonthEnd(y, m) <= MonthStart(y, k)
      BY <2>4, MonthsAreOrdered
    <3> QED BY <1>4, <2>2, <3>1
  <2> QED BY <2>3, <2>4
<1>5. MonthOf(n) = CHOOSE k \in 1..12 : In(k)
  BY <1>2, Zenon DEF MonthOf
<1>6. MonthOf(n) = m
  <2> HIDE DEF In
  <2> QED BY <1>3, <1>4, <1>5
<1> QED BY <1>2, <1>6 DEF DayOf

\* Every day lies in a month.
LEMMA MonthHoldsDay ==
  ASSUME NEW n \in Int
  PROVE  /\ YearOf(n) \in Int /\ MonthOf(n) \in 1..12 /\ DayOf(n) \in 1..31
         /\ MonthStart(YearOf(n), MonthOf(n)) <= n
         /\ n < MonthEnd(YearOf(n), MonthOf(n))
         /\ n = MonthStart(YearOf(n), MonthOf(n)) + DayOf(n) - 1
<1> DEFINE y == YearOf(n)
           S == {m \in 1..12 : MonthStart(y, m) <= n}
           M == Max(S)
<1>1. y \in Int /\ YearStart(y) <= n /\ n < YearStart(y + 1)
  BY YearHoldsDay
<1> HIDE DEF y
<1>2. S \in SUBSET (1..12) /\ 1 \in S
  BY <1>1, Months
<1>3. M \in S /\ \A m \in S : m <= M
  <2> HIDE DEF S
  <2> QED BY <1>2, MaxIn
<1> HIDE DEF M
<1>4. /\ M \in 1..12 /\ MonthStart(y, M) <= n
      /\ MonthStart(y, M) \in Int /\ MonthEnd(y, M) \in Int
      /\ MonthEnd(y, M) - MonthStart(y, M) \in 28..31
  BY <1>1, <1>3, Months
<1>5. n < MonthEnd(y, M)
  <2>1. CASE M = 12
    BY <1>1, <2>1 DEF MonthEnd
  <2>2. CASE M # 12
    <3>1. M + 1 \in 1..12 /\ ~(M + 1 <= M)
      BY <1>4, <2>2
    <3>2. ~(MonthStart(y, M + 1) <= n)
      BY <1>3, <3>1
    <3>3. MonthStart(y, M + 1) \in Int
      BY <1>1, <3>1, Months
    <3> QED BY <2>2, <3>2, <3>3 DEF MonthEnd
  <2> QED BY <2>1, <2>2
<1>6. y = YearOf(n) /\ MonthOf(n) = M /\ DayOf(n) = n - MonthStart(y, M) + 1
  BY <1>1, <1>4, <1>5, InMonth DEF y
<1>7. DayOf(n) \in 1..31 /\ n = MonthStart(y, M) + DayOf(n) - 1
  BY <1>4, <1>5, <1>6
<1> QED BY <1>1, <1>4, <1>5, <1>6, <1>7

LEMMA PlainUTC ==
  ASSUME NEW y \in Int, NEW m \in 1..12, NEW d \in Int
  PROVE  UTC(y, m, d) = MonthStart(y, m) + d - 1
<1>1. (m - 1) \div 12 = 0 /\ (m - 1) % 12 = m - 1
  BY SMT
<1>2. y + 0 = y /\ 1 + (m - 1) = m
  OBVIOUS
<1> QED BY <1>1, <1>2 DEF UTC

LEMMA DayIsUTC ==
  ASSUME NEW n \in Int
  PROVE  n = UTC(YearOf(n), MonthOf(n), DayOf(n))
<1>1. /\ YearOf(n) \in Int /\ MonthOf(n) \in 1..12 /\ DayOf(n) \in Int
      /\ n = MonthStart(YearOf(n), MonthOf(n)) + DayOf(n) - 1
  BY MonthHoldsDay
<1> QED BY <1>1, PlainUTC

\* A date that keeps its day keeps its month and year.
LEMMA SameDay ==
  ASSUME NEW y \in Int, NEW m \in 1..12, NEW d \in Int, DayOf(UTC(y, m, d)) = d
  PROVE  YearOf(UTC(y, m, d)) = y /\ MonthOf(UTC(y, m, d)) = m
<1> DEFINE n == UTC(y, m, d)
<1>1. n = MonthStart(y, m) + d - 1
  BY PlainUTC
<1>2. /\ MonthStart(y, m) \in Int /\ MonthEnd(y, m) \in Int
      /\ MonthEnd(y, m) - MonthStart(y, m) \in 28..31
  BY Months
<1>3. n \in Int
  BY <1>1, <1>2
<1>4. DayOf(n) = d
  OBVIOUS
<1> HIDE DEF n
<1>5. d \in 1..31
  BY <1>3, <1>4, MonthHoldsDay
<1>6. CASE n < MonthEnd(y, m)
  BY <1>1, <1>2, <1>3, <1>5, <1>6, InMonth DEF n
<1>7. CASE ~(n < MonthEnd(y, m))
  <2> DEFINE z == IF m = 12 THEN y + 1 ELSE y
             l == IF m = 12 THEN 1 ELSE m + 1
  <2>1. z \in Int /\ l \in 1..12
    OBVIOUS
  <2>2. MonthStart(z, l) = MonthEnd(y, m)
    <3>1. MonthStart(y + 1, 1) = YearStart(y + 1)
      BY Months
    <3> QED BY <3>1 DEF MonthEnd
  <2> HIDE DEF z, l
  <2>3. MonthEnd(z, l) \in Int /\ MonthEnd(z, l) - MonthStart(z, l) \in 28..31
    BY <2>1, Months
  <2>4. MonthStart(z, l) <= n /\ n < MonthEnd(z, l)
    BY <1>1, <1>2, <1>3, <1>5, <1>7, <2>2, <2>3
  <2>5. DayOf(n) = n - MonthStart(z, l) + 1
    BY <1>3, <2>1, <2>4, InMonth
  <2>6. d = MonthStart(y, m) + d - 1 - MonthEnd(y, m) + 1
    BY <1>1, <1>2, <1>3, <1>4, <2>2, <2>5
  <2> QED BY <1>2, <2>6
<1> QED BY <1>6, <1>7

-----------------------------------------------------------------------------
(***************************************************************************)
(* The reading of a date without a year.                                   *)
(***************************************************************************)
\* "Never a future one": a month and a day without a year are read on the day of
\* the message or before it (inferYear of temporal.ts).
THEOREM InferredDateIsPast ==
  ASSUME NEW n \in Int, NEW m \in 1..12, NEW d \in 0..31
  PROVE  UTC(inferYear(n, m, d), m, d) <= n
<1> DEFINE y == YearOf(n)
<1>1. y \in Int /\ YearStart(y) <= n /\ n < YearStart(y + 1)
  BY YearHoldsDay
<1> HIDE DEF y
<1>2. CASE UTC(y, m, d) > n
  <2>1. inferYear(n, m, d) = y - 1
    BY <1>2 DEF inferYear, y
  <2>2. y - 1 \in Int /\ (y - 1) + 1 = y /\ YearStart(y) \in Int
    BY <1>1, SMT DEF YearStart
  <2>3. UTC(y - 1, m, d) = MonthStart(y - 1, m) + d - 1
    BY <2>2, PlainUTC
  <2>4. MonthStart(y - 1, m) \in Int /\ MonthStart(y - 1, m) + 31 <= YearStart(y)
    <3>1. MonthStart(y - 1, m) \in Int /\ MonthStart(y - 1, m) + 31 <= YearStart((y - 1) + 1)
      BY <2>2, Months
    <3> QED BY <2>2, <3>1
  <2> QED BY <1>1, <2>1, <2>2, <2>3, <2>4
<1>3. CASE ~(UTC(y, m, d) > n)
  <2>1. inferYear(n, m, d) = y
    BY <1>3 DEF inferYear, y
  <2>2. UTC(y, m, d) \in Int
    <3>1. UTC(y, m, d) = MonthStart(y, m) + d - 1
      BY <1>1, PlainUTC
    <3>2. MonthStart(y, m) \in Int
      BY <1>1, Months
    <3> QED BY <3>1, <3>2
  <2> QED BY <1>3, <2>1, <2>2
<1> QED BY <1>2, <1>3

\* "The most recent occurrence": the same month and day of a later year lie after
\* the message.
THEOREM InferredDateIsLatest ==
  ASSUME NEW n \in Int, NEW m \in 1..12, NEW d \in 1..31, NEW z \in Int,
         z > inferYear(n, m, d)
  PROVE  UTC(z, m, d) > n
<1> DEFINE y == YearOf(n)
<1>1. y \in Int /\ YearStart(y) <= n /\ n < YearStart(y + 1)
  BY YearHoldsDay
<1>2. UTC(z, m, d) \in Int /\ YearStart(z) <= UTC(z, m, d)
  <2>1. UTC(z, m, d) = MonthStart(z, m) + d - 1
    BY PlainUTC
  <2>2. MonthStart(z, m) \in Int /\ YearStart(z) \in Int /\ YearStart(z) <= MonthStart(z, m)
    <3>1. YearStart(z) \in Int
      BY SMT DEF YearStart
    <3> QED BY <3>1, Months
  <2> QED BY <2>1, <2>2
<1> HIDE DEF y
<1>3. CASE z > y
  <2>1. /\ YearStart(y + 1) <= YearStart(z)
        /\ YearStart(y + 1) \in Int /\ YearStart(z) \in Int
    BY <1>1, <1>3, YearsAreOrdered
  <2> QED BY <1>1, <1>2, <2>1
<1>4. CASE ~(z > y)
  <2>1. UTC(y, m, d) > n /\ z = y
    BY <1>1, <1>4, SMT DEF inferYear, y
  <2> QED BY <2>1
<1> QED BY <1>3, <1>4

LEMMA Rules ==
  /\ DOMAIN MoneyRules = 1..5 /\ DOMAIN IdentifierRules = 1..6
  /\ DOMAIN DateRules = 1..10 /\ DOMAIN AskRules = 1..6
  /\ ToSet(MoneyRules) = {"symbol_prefixed", "code_suffixed", "code_prefixed", "word_suffixed",
                          "bare_decimal_with_context"}
  /\ ToSet(STRIPE_RULES) = {"stripe_charge", "stripe_refund", "stripe_payment_intent"}
  /\ ToSet(IdentifierRules) = {"stripe_charge", "stripe_refund", "stripe_payment_intent",
                               "order_labelled", "order_hash_prefixed", "order_synonym"}
  /\ ToSet(DateRules) = {"iso_date", "month_name_first", "day_month_name", "numeric_slash",
                         "bare_numeric", "bare_ordinal"} \cup RelativeRules
  /\ ToSet(AskRules) = {"refund_request", "order_status", "cancellation", "return_request",
                        "damaged_or_wrong_item", "billing_dispute"}
<1>1. DOMAIN MoneyRules = 1..5 /\ ToSet(MoneyRules) =
        {"symbol_prefixed", "code_suffixed", "code_prefixed", "word_suffixed",
         "bare_decimal_with_context"}
  <2>1. DOMAIN MoneyRules = 1..5
    BY DEF MoneyRules
  <2>2. 1..5 = {1, 2, 3, 4, 5}
    OBVIOUS
  <2> QED BY <2>1, <2>2 DEF MoneyRules, ToSet
<1>2. ToSet(STRIPE_RULES) = {"stripe_charge", "stripe_refund", "stripe_payment_intent"}
  <2>1. DOMAIN STRIPE_RULES = 1..3
    BY DEF STRIPE_RULES
  <2>2. 1..3 = {1, 2, 3}
    OBVIOUS
  <2> QED BY <2>1, <2>2 DEF STRIPE_RULES, ToSet
<1>3. DOMAIN IdentifierRules = 1..6 /\ ToSet(IdentifierRules) =
        {"stripe_charge", "stripe_refund", "stripe_payment_intent",
         "order_labelled", "order_hash_prefixed", "order_synonym"}
  <2>1. /\ DOMAIN IdentifierRules = 1..6
        /\ IdentifierRules[1] = "stripe_charge" /\ IdentifierRules[2] = "stripe_refund"
        /\ IdentifierRules[3] = "stripe_payment_intent" /\ IdentifierRules[4] = "order_labelled"
        /\ IdentifierRules[5] = "order_hash_prefixed" /\ IdentifierRules[6] = "order_synonym"
    BY DEF IdentifierRules, STRIPE_RULES, ORDER_RULES
  <2>2. 1..6 = {1, 2, 3, 4, 5, 6}
    OBVIOUS
  <2> QED BY <2>1, <2>2 DEF ToSet
<1>4. DOMAIN DateRules = 1..10 /\ ToSet(DateRules) =
        {"iso_date", "month_name_first", "day_month_name", "numeric_slash",
         "bare_numeric", "bare_ordinal"} \cup RelativeRules
  <2>1. DOMAIN DateRules = 1..10
    BY DEF DateRules
  <2>2. 1..10 = {1, 2, 3, 4, 5, 6, 7, 8, 9, 10}
    OBVIOUS
  <2> QED BY <2>1, <2>2 DEF DateRules, RelativeRules, ToSet
<1>5. DOMAIN AskRules = 1..6 /\ ToSet(AskRules) =
        {"refund_request", "order_status", "cancellation", "return_request",
         "damaged_or_wrong_item", "billing_dispute"}
  <2>1. DOMAIN AskRules = 1..6
    BY DEF AskRules
  <2>2. 1..6 = {1, 2, 3, 4, 5, 6}
    OBVIOUS
  <2> QED BY <2>1, <2>2 DEF AskRules, ToSet
<1> QED BY <1>1, <1>2, <1>3, <1>4, <1>5

\* What a date's words say: its month and day, if they are written, and the day
\* that is read.

LEMMA UTCInt ==
  ASSUME NEW y \in Int, NEW m \in Int, NEW d \in Int
  PROVE  UTC(y, m, d) \in Int
<1> DEFINE z == y + (m - 1) \div 12
           l == 1 + ((m - 1) % 12)
<1>1. z \in Int /\ l \in 1..12
  BY SMT
<1>2. UTC(y, m, d) = MonthStart(z, l) + d - 1
  BY DEF UTC
<1> HIDE DEF z, l
<1>3. MonthStart(z, l) \in Int
  BY <1>1, Months
<1> QED BY <1>2, <1>3

LEMMA inferYearInt ==
  ASSUME NEW n \in Int, NEW m, NEW d
  PROVE  inferYear(n, m, d) \in Int
<1>1. YearOf(n) \in Int
  BY YearHoldsDay
<1> QED BY <1>1 DEF inferYear

\* The rules whose text has a month and a day.
DayRules == {"iso_date", "numeric_slash", "bare_numeric"} \cup MonthNames

Words(m) == IF m.rule \in {"numeric_slash", "bare_numeric"} THEN monthFirst(m.value)
            ELSE [month |-> m.value.month, day |-> m.value.day]

LEMMA WordsAreNumbers ==
  ASSUME NEW m, IsMatch(m), m.rule \in DayRules
  PROVE  Words(m).month \in 0..99 /\ Words(m).day \in 0..99
<1>1. CASE m.rule \in {"numeric_slash", "bare_numeric"}
  BY <1>1 DEF IsMatch, Words, monthFirst
<1>2. CASE m.rule \in {"iso_date"} \cup MonthNames
  <2>1. m.rule \notin {"numeric_slash", "bare_numeric"}
    BY <1>2 DEF MonthNames
  <2>2. m.value.day \in 0..99
    BY <1>2 DEF IsMatch
  <2>3. m.value.month \in 0..99
    BY <1>2 DEF IsMatch
  <2> QED BY <2>1, <2>2, <2>3 DEF Words
<1> QED BY <1>1, <1>2 DEF DayRules

\* A month and a day are read as they are written, in the year that is written or
\* in one that is inferred.
LEMMA ReadsWords ==
  ASSUME NEW m, IsMatch(m), m.rule \in DayRules, IsDate(m), NEW reference \in Int,
         NEW r, r = dateOf(m, reference)
  PROVE  \E y \in Int :
           /\ r.date = UTC(y, Words(m).month, Words(m).day)
           /\ r.confidence \in Nat
           /\ \/ r.yearWritten = TRUE /\ WrittenYear(m) = y
              \/ r.yearWritten = FALSE /\ WrittenYear(m) = None
                 /\ y = inferYear(reference, Words(m).month, Words(m).day)
<1>1. CASE m.rule = "iso_date"
  <2>1. r = isoDate(m.value) /\ m.value.year \in Int
    BY <1>1 DEF dateOf, IsMatch, MonthNames
  <2>2. Words(m) = [month |-> m.value.month, day |-> m.value.day] /\ WrittenYear(m) = m.value.year
    BY <1>1 DEF Words, WrittenYear
  <2> QED BY <2>1, <2>2 DEF isoDate, Read
<1>2. CASE m.rule \in MonthNames
  <2>1. r = monthName(m.value, reference) /\ m.value.year \in Int \cup {None}
    BY <1>2 DEF dateOf, IsMatch, MonthNames
  <2>2. Words(m) = [month |-> m.value.month, day |-> m.value.day] /\ WrittenYear(m) = m.value.year
    BY <1>2 DEF Words, WrittenYear, MonthNames
  <2>3. CASE m.value.year # None
    BY <2>1, <2>2, <2>3 DEF monthName, Read
  <2>4. CASE m.value.year = None
    <3>1. inferYear(reference, m.value.month, m.value.day) \in Int
      BY inferYearInt
    <3> QED BY <2>1, <2>2, <2>4, <3>1 DEF monthName, Read
  <2> QED BY <2>3, <2>4
<1>3. CASE m.rule = "numeric_slash"
  <2>1. r = numericSlash(m.value) /\ m.value.year \in Int
    BY <1>3 DEF dateOf, IsMatch, MonthNames
  <2>2. Words(m) = monthFirst(m.value) /\ WrittenYear(m) = m.value.year
    BY <1>3 DEF Words, WrittenYear
  <2> QED BY <2>1, <2>2 DEF numericSlash, Read
<1>4. CASE m.rule = "bare_numeric"
  <2>1. r = bareNumeric(m.value, m.near, reference)
    BY <1>4 DEF dateOf, MonthNames
  <2>2. Words(m) = monthFirst(m.value) /\ WrittenYear(m) = None
    BY <1>4 DEF Words, WrittenYear
  <2>3. inferYear(reference, Words(m).month, Words(m).day) \in Int
    BY inferYearInt
  <2> QED BY <2>1, <2>2, <2>3 DEF bareNumeric, Read, AtMost
<1> QED BY <1>1, <1>2, <1>3, <1>4 DEF DayRules

\* The other rules count from the day of the message.
LEMMA ReadsBack ==
  ASSUME NEW m, IsMatch(m), m.rule \in ToSet(DateRules), m.rule \notin DayRules, IsDate(m),
         NEW reference \in Int, NEW r, r = dateOf(m, reference)
  PROVE  /\ r.date \in Int /\ r.date <= reference /\ r.confidence \in Nat
         /\ r.yearWritten \in BOOLEAN
<1>1. CASE m.rule = "bare_ordinal"
  <2> DEFINE month == MonthOf(reference)
             y == inferYear(reference, month, m.value.day)
  <2>1. r = bareOrdinal(m.value, reference)
    BY <1>1 DEF dateOf, MonthNames
  <2>2. month \in 1..12 /\ m.value.day \in 0..31
    BY <1>1, MonthHoldsDay DEF IsDate
  <2>3. r.date = UTC(y, month, m.value.day) /\ r.confidence = 60
    BY <2>1 DEF bareOrdinal, Read
  <2> HIDE DEF month
  <2>4. UTC(y, month, m.value.day) <= reference
    BY <2>2, InferredDateIsPast
  <2>5. y \in Int
    BY inferYearInt
  <2> HIDE DEF y
  <2>6. UTC(y, month, m.value.day) \in Int
    <3>1. month \in Int /\ m.value.day \in Int
      BY <2>2
    <3> QED BY <2>5, <3>1, UTCInt
  <2>7. r.yearWritten \in BOOLEAN
    BY <2>1 DEF bareOrdinal, Read
  <2> QED BY <2>3, <2>4, <2>6, <2>7
<1>2. CASE m.rule = "relative_named_day"
  <2>1. r = relative(m, reference)
    BY <1>2 DEF dateOf, MonthNames
  <2>2. r = Read(reference - IF m.value = "yesterday" THEN 1 ELSE 0, TRUE, 90)
    BY <1>2, <2>1 DEF relative
  <2> QED BY <2>2 DEF Read
<1>3. CASE m.rule = "relative_offset"
  <2>1. r = relative(m, reference)
    BY <1>3 DEF dateOf, MonthNames
  <2>2. r = Read(reference - m.value.n * daysOf[m.value.unit], TRUE,
                 IF m.value.unit = "month" THEN 70 ELSE 85)
    BY <1>3, <2>1 DEF relative
  <2>3. m.value.n \in Nat /\ daysOf[m.value.unit] \in {1, 7, 30}
    BY <1>3 DEF IsMatch, daysOf
  <2>4. m.value.n * daysOf[m.value.unit] \in Nat
    BY <2>3, SMT
  <2> QED BY <2>2, <2>4 DEF Read
<1>4. CASE m.rule = "relative_period"
  <2>1. r = relative(m, reference)
    BY <1>4 DEF dateOf, MonthNames
  <2>2. r = Read(reference - daysOf[m.value], TRUE, 60)
    BY <1>4, <2>1 DEF relative
  <2>3. daysOf[m.value] \in {1, 7, 30}
    BY <1>4 DEF IsMatch, daysOf
  <2> QED BY <2>2, <2>3 DEF Read
<1>5. CASE m.rule = "relative_weekday"
  <2>1. r = relative(m, reference)
    BY <1>5 DEF dateOf, MonthNames
  <2>2. r = Read(previousWeekday(reference, m.value), TRUE, 75)
    BY <1>5, <2>1 DEF relative
  <2>3. m.value \in 0..6
    BY <1>5 DEF IsMatch
  <2>4. (FirstWeekday + reference - m.value) % 7 \in 0..6
    BY <2>3, SMT DEF FirstWeekday
  <2> DEFINE diff == (FirstWeekday + reference - m.value) % 7
  <2>5. previousWeekday(reference, m.value) = reference - IF diff = 0 THEN 7 ELSE diff
    BY Zenon DEF previousWeekday
  <2> HIDE DEF diff
  <2>6. diff \in 0..6
    BY <2>4 DEF diff
  <2>7. previousWeekday(reference, m.value) \in Int /\ previousWeekday(reference, m.value) <= reference
    BY <2>5, <2>6
  <2>8. r.date = previousWeekday(reference, m.value) /\ r.confidence = 75
    BY <2>2 DEF Read
  <2>9. r.yearWritten \in BOOLEAN
    BY <2>2 DEF Read
  <2> QED BY <2>7, <2>8, <2>9
<1> QED BY <1>1, <1>2, <1>3, <1>4, <1>5, Rules DEF DayRules, MonthNames, RelativeRules

LEMMA ReadsDates ==
  ASSUME NEW m, IsMatch(m), m.rule \in ToSet(DateRules), IsDate(m), NEW reference \in Int,
         NEW r, r = dateOf(m, reference)
  PROVE  r.date \in Int /\ r.confidence \in Nat /\ r.yearWritten \in BOOLEAN
<1>1. CASE m.rule \in DayRules
  <2>1. PICK y \in Int : /\ r.date = UTC(y, Words(m).month, Words(m).day) /\ r.confidence \in Nat
                         /\ r.yearWritten \in BOOLEAN
    BY <1>1, ReadsWords
  <2>2. Words(m).month \in Int /\ Words(m).day \in Int
    BY <1>1, WordsAreNumbers
  <2> QED BY <2>1, <2>2, UTCInt
<1>2. CASE m.rule \notin DayRules
  BY <1>2, ReadsBack
<1> QED BY <1>1, <1>2

\* A day that was not written whole is read no later than the message.
LEMMA ReadsPast ==
  ASSUME NEW m, IsMatch(m), m.rule \in ToSet(DateRules), IsDate(m), NEW reference \in Int,
         NEW r, r = dateOf(m, reference), ~r.yearWritten \/ m.rule \in RelativeRules,
         m.rule \in MonthNames => m.value.day <= 31
  PROVE  r.date <= reference
<1>1. CASE m.rule \in DayRules
  <2>1. PICK y \in Int :
          /\ r.date = UTC(y, Words(m).month, Words(m).day)
          /\ \/ r.yearWritten = TRUE /\ WrittenYear(m) = y
             \/ r.yearWritten = FALSE /\ WrittenYear(m) = None
                 /\ y = inferYear(reference, Words(m).month, Words(m).day)
    BY <1>1, ReadsWords
  <2>2. m.rule \notin RelativeRules
    BY <1>1 DEF DayRules, RelativeRules, MonthNames
  <2>3. WrittenYear(m) = None /\ y = inferYear(reference, Words(m).month, Words(m).day)
    BY <2>1, <2>2
  <2>4. Words(m).month \in 1..12 /\ Words(m).day \in 0..31
    <3>1. CASE m.rule = "bare_numeric"
      BY <3>1 DEF IsDate, Words, monthFirst
    <3>2. CASE m.rule \in MonthNames
      <4>1. m.value.day \in 0..99 /\ m.value.month \in 1..12
        BY <3>2 DEF IsMatch
      <4> QED BY <3>2, <4>1 DEF Words, MonthNames
    <3>3. CASE m.rule \in {"iso_date", "numeric_slash"}
      <4>1. WrittenYear(m) = m.value.year /\ m.value.year \in Int
        BY <3>3 DEF WrittenYear, IsMatch
      <4> QED BY <2>3, <4>1, ConversationAssumption
    <3> QED BY <1>1, <3>1, <3>2, <3>3 DEF DayRules
  <2> HIDE DEF Words
  <2> QED BY <2>1, <2>3, <2>4, InferredDateIsPast
<1>2. CASE m.rule \notin DayRules
  BY <1>2, ReadsBack
<1> QED BY <1>1, <1>2

-----------------------------------------------------------------------------
(***************************************************************************)
(* Which matches are claimed: a fold over the matches as they are tried.   *)
(***************************************************************************)
Spanned(M) == \A m \in M : m.start \in Nat /\ m.end \in Nat

\* The matches claimed after the first k of s are c.
TakenAfter(M, accepted, s, k, c) ==
  /\ c \in Seq(M)
  /\ \A i \in DOMAIN c : c[i] \in accepted
  /\ \A i, j \in DOMAIN c : i # j => ~overlaps(c[i], c[j])
  /\ \A j \in 1..k : s[j] \in accepted =>
       \E i \in DOMAIN c :
         \/ c[i] = s[j]
         \/ overlaps(c[i], s[j]) /\ \E h \in 1..j : c[i] = s[h]
  /\ \A i \in DOMAIN c : \E h \in 1..k : c[i] = s[h]

LEMMA TakeStep ==
  ASSUME NEW M, Spanned(M), NEW accepted, NEW s \in Seq(M), NEW k \in 0..Len(s)-1,
         NEW c, TakenAfter(M, accepted, s, k, c)
  PROVE  TakenAfter(M, accepted, s, k+1, take(c, s[k+1], accepted))
<1> DEFINE a == s[k+1]
<1>1. /\ k + 1 \in 1..Len(s) /\ a \in M /\ c \in Seq(M)
      /\ Len(c) \in Nat /\ DOMAIN c = 1..Len(c)
      /\ a.start \in Nat /\ a.end \in Nat
      /\ \A i \in DOMAIN c : c[i] \in M /\ c[i].start \in Nat /\ c[i].end \in Nat
  <2>1. c \in Seq(M)
    BY DEF TakenAfter
  <2>2. /\ k + 1 \in 1..Len(s) /\ a \in M /\ Len(c) \in Nat /\ DOMAIN c = 1..Len(c)
        /\ \A i \in DOMAIN c : c[i] \in M
    BY <2>1
  <2> HIDE DEF a
  <2> QED BY <2>1, <2>2 DEF Spanned
<1>2. CASE a \notin accepted
  <2>1. take(c, a, accepted) = c
    BY <1>2 DEF take
  <2>2. TakenAfter(M, accepted, s, k+1, c)
    <3>1. ASSUME NEW j \in 1..k+1, s[j] \in accepted
          PROVE  \E i \in DOMAIN c :
                   c[i] = s[j] \/ (overlaps(c[i], s[j]) /\ \E h \in 1..j : c[i] = s[h])
      <4>1. j \in 1..k
        BY <1>2, <3>1
      <4> QED BY <3>1, <4>1 DEF TakenAfter
    <3>2. ASSUME NEW i \in DOMAIN c PROVE \E h \in 1..k+1 : c[i] = s[h]
      <4>1. PICK h \in 1..k : c[i] = s[h]
        BY DEF TakenAfter
      <4> QED BY <4>1
    <3> QED BY <3>1, <3>2 DEF TakenAfter
  <2> QED BY <2>1, <2>2
<1>3. CASE a \in accepted /\ \E i \in DOMAIN c : overlaps(c[i], a)
  <2>1. take(c, a, accepted) = c
    BY <1>3 DEF take
  <2>2. PICK i \in DOMAIN c : overlaps(c[i], a)
    BY <1>3
  <2> HIDE DEF a
  <2>3. TakenAfter(M, accepted, s, k+1, c)
    <3>1. ASSUME NEW l \in DOMAIN c PROVE \E h \in 1..k+1 : c[l] = s[h]
      <4>1. PICK h \in 1..k : c[l] = s[h]
        BY DEF TakenAfter
      <4> QED BY <4>1
    <3>2. ASSUME NEW j \in 1..k+1, s[j] \in accepted
          PROVE  \E l \in DOMAIN c :
                   c[l] = s[j] \/ (overlaps(c[l], s[j]) /\ \E h \in 1..j : c[l] = s[h])
      <4>1. CASE j \in 1..k
        BY <3>2, <4>1 DEF TakenAfter
      <4>2. CASE j = k + 1
        <5>1. PICK h \in 1..k : c[i] = s[h]
          BY <2>2 DEF TakenAfter
        <5>2. h \in 1..j
          BY <4>2
        <5> QED BY <2>2, <4>2, <5>1, <5>2 DEF a
      <4> QED BY <4>1, <4>2
    <3> QED BY <3>1, <3>2 DEF TakenAfter
  <2> QED BY <2>1, <2>3 DEF a
<1>4. CASE a \in accepted /\ \A i \in DOMAIN c : ~overlaps(c[i], a)
  <2> DEFINE u == Append(c, a)
  <2>1. take(c, a, accepted) = u
    BY <1>4 DEF take
  <2>2. /\ u \in Seq(M) /\ DOMAIN u = 1..Len(c)+1 /\ u[Len(c)+1] = a
        /\ \A i \in 1..Len(c) : u[i] = c[i]
    BY <1>1
  <2>3. \A i \in DOMAIN c : ~overlaps(a, c[i])
    BY <1>1, <1>4 DEF overlaps
  <2> HIDE DEF a, u
  <2>4. ASSUME NEW i \in DOMAIN u
        PROVE  u[i] \in accepted /\ \E h \in 1..k+1 : u[i] = s[h]
    <3>1. CASE i = Len(c) + 1
      <4>1. u[i] = s[k+1] /\ k+1 \in 1..k+1
        BY <1>1, <2>2, <3>1 DEF a
      <4> QED BY <1>4, <2>2, <3>1, <4>1
    <3>2. CASE i # Len(c) + 1
      <4>1. i \in DOMAIN c /\ u[i] = c[i]
        BY <1>1, <2>2, <3>2
      <4>2. PICK h \in 1..k : c[i] = s[h]
        BY <4>1 DEF TakenAfter
      <4>3. h \in 1..k+1 /\ c[i] \in accepted
        BY <4>1 DEF TakenAfter
      <4> QED BY <4>1, <4>2, <4>3
    <3> QED BY <3>1, <3>2
  <2>5. ASSUME NEW i \in DOMAIN u, NEW j \in DOMAIN u, i # j
        PROVE  ~overlaps(u[i], u[j])
    <3>1. CASE i = Len(c) + 1
      <4>1. j \in DOMAIN c /\ u[j] = c[j] /\ u[i] = a
        BY <1>1, <2>2, <2>5, <3>1
      <4> QED BY <2>3, <4>1
    <3>2. CASE j = Len(c) + 1
      <4>1. i \in DOMAIN c /\ u[i] = c[i] /\ u[j] = a
        BY <1>1, <2>2, <2>5, <3>2
      <4> QED BY <1>4, <4>1
    <3>3. CASE i # Len(c) + 1 /\ j # Len(c) + 1
      <4>1. i \in DOMAIN c /\ u[i] = c[i] /\ j \in DOMAIN c /\ u[j] = c[j]
        BY <1>1, <2>2, <3>3
      <4> QED BY <2>5, <4>1 DEF TakenAfter
    <3> QED BY <3>1, <3>2, <3>3
  <2>6. ASSUME NEW j \in 1..k+1, s[j] \in accepted
        PROVE  \E i \in DOMAIN u :
                 u[i] = s[j] \/ (overlaps(u[i], s[j]) /\ \E h \in 1..j : u[i] = s[h])
    <3>1. CASE j = k + 1
      <4>1. Len(c) + 1 \in DOMAIN u /\ u[Len(c)+1] = s[j]
        BY <1>1, <2>2, <3>1 DEF a
      <4> QED BY <4>1
    <3>2. CASE j # k + 1
      <4>1. j \in 1..k
        BY <3>2
      <4>2. PICK i \in DOMAIN c :
              c[i] = s[j] \/ (overlaps(c[i], s[j]) /\ \E h \in 1..j : c[i] = s[h])
        BY <2>6, <4>1 DEF TakenAfter
      <4>3. i \in DOMAIN u /\ u[i] = c[i]
        BY <1>1, <2>2
      <4> QED BY <4>2, <4>3
    <3> QED BY <3>1, <3>2
  <2>7. TakenAfter(M, accepted, s, k+1, u)
    BY <2>2, <2>4, <2>5, <2>6 DEF TakenAfter
  <2> QED BY <2>1, <2>7 DEF a
<1> QED BY <1>2, <1>3, <1>4

Taken(s, accepted) == FoldLeft(LAMBDA claimed, m : take(claimed, m, accepted), <<>>, s)

LEMMA TakeFold ==
  ASSUME NEW M, Spanned(M), NEW accepted, NEW s \in Seq(M)
  PROVE  TakenAfter(M, accepted, s, Len(s), Taken(s, accepted))
<1> DEFINE n == Len(s)
           T == Seq(M)
           Step(iter, t) == IF t = {} THEN <<>>
                            ELSE take(iter[t \ {Max(t)}], s[Max(t)], accepted)
           op == [x \in T \X (1..n) |-> take(x[1], s[x[2]], accepted)]
           g == CHOOSE iter : iter = [t \in SUBSET DOMAIN s |-> Step(iter, t)]
<1>1. n \in Nat /\ DOMAIN s = 1..n /\ \A i \in 1..n : s[i] \in M
  OBVIOUS
<1>2. op \in [T \X (1..n) -> T]
  <2>1. ASSUME NEW x \in T \X (1..n) PROVE take(x[1], s[x[2]], accepted) \in T
    BY <1>1 DEF take
  <2> QED BY <2>1
<1>3. PICK f : IsFold(f, n, T, <<>>, op)
  <2>1. <<>> \in T
    OBVIOUS
  <2> HIDE DEF op, n, T
  <2> QED BY <1>1, <1>2, <2>1, FoldExists, Zenon
<1>4. f = [t \in SUBSET DOMAIN s |-> Step(f, t)]
  <2>1. ASSUME NEW t \in SUBSET (1..n) PROVE f[t] = Step(f, t)
    <3>1. CASE t = {}
      BY <1>3, <3>1 DEF IsFold
    <3>2. CASE t # {}
      <4>1. Max(t) \in 1..n /\ t \ {Max(t)} \in SUBSET (1..n)
        BY <1>1, <3>2, MaxIn
      <4>2. f[t \ {Max(t)}] \in T
        BY <1>3, <4>1 DEF IsFold
      <4>3. op[<<f[t \ {Max(t)}], Max(t)>>] = take(f[t \ {Max(t)}], s[Max(t)], accepted)
        BY <4>1, <4>2
      <4> HIDE DEF op
      <4> QED BY <1>3, <3>2, <4>3 DEF IsFold
    <3> QED BY <3>1, <3>2
  <2> HIDE DEF Step
  <2> QED BY <1>1, <1>3, <2>1 DEF IsFold
<1>5. g = [t \in SUBSET DOMAIN s |-> Step(g, t)]
  <2> HIDE DEF Step
  <2> QED BY <1>4
<1>6. Taken(s, accepted) = g[DOMAIN s]
  BY Zenon DEF Taken, FoldLeft, MapThenFoldSet
<1>7. \A t \in SUBSET (1..n) : g[t] = Step(g, t)
  <2> HIDE DEF Step, g
  <2> QED BY <1>1, <1>5
<1> HIDE DEF g
<1> DEFINE S == {k \in 0..n : TakenAfter(M, accepted, s, k, g[1..k])}
<1>8. 0 \in S
  <2>1. 1..0 = {} /\ {} \in SUBSET (1..n)
    OBVIOUS
  <2>2. g[1..0] = <<>>
    BY <1>7, <2>1
  <2>3. TakenAfter(M, accepted, s, 0, <<>>)
    BY DEF TakenAfter
  <2> QED BY <1>1, <2>2, <2>3
<1>9. ASSUME NEW k \in 0..n-1, k \in S PROVE k + 1 \in S
  <2>1. /\ Max(1..k+1) = k+1 /\ (1..k+1) \ {k+1} = 1..k /\ 1..k+1 # {}
        /\ 1..k+1 \in SUBSET (1..n)
    <3>1. k + 1 \in Nat /\ k + 1 # 0 /\ (k + 1) - 1 = k
      OBVIOUS
    <3>2. Max(1..k+1) = k+1
      BY <3>1, MaxOfPrefix
    <3>3. (1..k+1) \ {k+1} = 1..k
      <4> HIDE DEF n
      <4>1. k \in Nat
        BY <1>1
      <4> QED BY <4>1
    <3>5. k + 1 \in 1..k+1
      BY <3>1
    <3>4. 1..k+1 \subseteq 1..n
      BY <1>1
    <3> QED BY <3>2, <3>3, <3>4, <3>5
  <2>2. g[1..k+1] = take(g[1..k], s[k+1], accepted)
    BY <1>7, <2>1
  <2>3. TakenAfter(M, accepted, s, k+1, g[1..k+1])
    BY <1>9, <2>2, TakeStep
  <2> QED BY <2>3
<1>10. n \in S
  <2> HIDE DEF S, n
  <2>1. \A k \in 0..n-1 : k \in S => k + 1 \in S
    BY <1>9
  <2>2. \A k \in 0..n : k \in S
    BY <1>1, <1>8, <2>1, InductionTo
  <2> QED BY <1>1, <2>2
<1> QED BY <1>1, <1>6, <1>10

-----------------------------------------------------------------------------
(***************************************************************************)
(* The order in which the matches are tried, and what they claim.          *)
(***************************************************************************)
\* What one extractor looks at: finitely many matches of its rules.
Looked(rules, matches) ==
  /\ DOMAIN rules \subseteq Nat /\ IsFiniteSet(matches) /\ Spanned(matches)
  /\ \A m \in matches : m.rule \in ToSet(rules)

LEMMA RankIs ==
  ASSUME NEW rules, NEW matches, Looked(rules, matches)
  PROVE  /\ \A m \in matches : RuleRank(rules, m) \in Nat
         /\ \A m, n \in matches : m.rule = n.rule <=> RuleRank(rules, m) = RuleRank(rules, n)
<1>1. \A m \in matches : RuleRank(rules, m) \in DOMAIN rules /\ rules[RuleRank(rules, m)] = m.rule
  <2> SUFFICES ASSUME NEW m \in matches
               PROVE  RuleRank(rules, m) \in DOMAIN rules /\ rules[RuleRank(rules, m)] = m.rule
    OBVIOUS
  <2>1. \E i \in DOMAIN rules : rules[i] = m.rule
    BY DEF Looked, ToSet
  <2> QED BY <2>1 DEF RuleRank
<1>2. \A m, n \in matches : m.rule = n.rule => RuleRank(rules, m) = RuleRank(rules, n)
  BY DEF RuleRank
<1> QED BY <1>1, <1>2 DEF Looked

LEMMA Tried ==
  ASSUME NEW rules, NEW matches, Looked(rules, matches)
  PROVE  \E s \in Seq(matches) :
           /\ s = tried(rules, matches)
           /\ \A m \in matches : \E i \in DOMAIN s : s[i] = m
           /\ \A i, j \in DOMAIN s : i < j => RuleRank(rules, s[i]) <= RuleRank(rules, s[j])
<1> DEFINE u == SetToSeq(matches)
           Before(m, n) == \/ RuleRank(rules, m) < RuleRank(rules, n)
                           \/ m.rule = n.rule /\ m.start < n.start
           D == {x \in (DOMAIN u) \X (DOMAIN u) : Before(u[x[1]], u[x[2]])}
           s == inOrder(u, D)
           N == Len(u)
<1>1. s = tried(rules, matches)
  BY Zenon DEF tried, stableSort
<1>2. u \in Seq(matches) /\ \A m \in matches : \E i \in DOMAIN u : u[i] = m
  BY FromSet DEF Looked
<1> HIDE DEF u
<1>3. N \in Nat /\ DOMAIN u = 1..N /\ \A i \in 1..N : u[i] \in matches
  BY <1>2
<1> HIDE DEF N
<1>4. \A i, j \in 1..N : <<i, j>> \in D <=> Before(u[i], u[j])
  <2> HIDE DEF Before
  <2> QED BY <1>3
<1> HIDE DEF D
<1>5. /\ \A m \in matches : ~Before(m, m)
      /\ \A m, n, o \in matches : Before(m, n) => Before(m, o) \/ Before(o, n)
      /\ \A m, n, o \in matches : Before(m, n) /\ Before(n, o) => Before(m, o)
  <2>1. /\ \A m \in matches : RuleRank(rules, m) \in Nat
        /\ \A m, n \in matches : m.rule = n.rule <=> RuleRank(rules, m) = RuleRank(rules, n)
    BY RankIs
  <2>2. \A m \in matches : m.start \in Nat
    BY DEF Looked, Spanned
  <2> QED BY <2>1, <2>2
<1> HIDE DEF Before
<1>6. /\ \A i \in 1..N : <<i, i>> \notin D
      /\ \A i, j, k \in 1..N : <<i, j>> \in D => \/ <<i, k>> \in D
                                                 \/ <<k, j>> \in D
      /\ \A i, j, k \in 1..N : <<i, j>> \in D /\ <<j, k>> \in D => <<i, k>> \in D
  BY <1>3, <1>4, <1>5
<1>7. PICK K \in [1..N -> Int] : \A i, j \in 1..N : <<i, j>> \in D <=> K[i] < K[j]
  BY <1>3, <1>6, Numbered
<1>8. /\ s \in Seq(matches) /\ Len(s) = Len(u)
      /\ \E p : Picks(s, u, p) /\ Sorts(p, Len(u), K)
  BY <1>2, <1>3, <1>7, InOrder
<1> HIDE DEF s
<1>9. PICK p : Picks(s, u, p) /\ Sorts(p, Len(u), K)
  BY <1>8
<1>10. DOMAIN s = 1..N /\ Len(u) = N
  BY <1>3, <1>8 DEF N
<1>11. \A i \in DOMAIN s : p[i] \in DOMAIN u /\ s[i] = u[p[i]]
  BY <1>9 DEF Picks
<1>12. \A m \in matches : \E i \in DOMAIN s : s[i] = m
  <2> SUFFICES ASSUME NEW m \in matches PROVE \E i \in DOMAIN s : s[i] = m
    OBVIOUS
  <2>1. PICK j \in DOMAIN u : u[j] = m
    BY <1>2
  <2>2. PICK i \in 1..N : p[i] = j
    BY <1>3, <1>9, <1>10, <2>1 DEF Sorts
  <2> QED BY <1>10, <1>11, <2>1, <2>2
<1>13. ASSUME NEW i \in DOMAIN s, NEW j \in DOMAIN s, i < j
       PROVE  RuleRank(rules, s[i]) <= RuleRank(rules, s[j])
  <2>1. K[p[i]] <= K[p[j]] /\ p[i] \in 1..N /\ p[j] \in 1..N
    BY <1>3, <1>9, <1>10, <1>11, <1>13 DEF Sorts
  <2>2. <<p[j], p[i]>> \notin D
    BY <1>7, <2>1
  <2>3. ~Before(s[j], s[i])
    BY <1>4, <1>11, <2>1, <2>2
  <2>4. s[i] \in matches /\ s[j] \in matches
    BY <1>3, <1>11, <2>1
  <2>5. RuleRank(rules, s[i]) \in Nat /\ RuleRank(rules, s[j]) \in Nat
    BY <2>4, RankIs
  <2> QED BY <2>3, <2>5 DEF Before
<1> QED BY <1>1, <1>8, <1>12, <1>13

\* What is claimed, in the order of the text.
Claimed(rules, matches, accepted, c) ==
  /\ c \in Seq(matches)
  /\ \A j \in DOMAIN c : c[j] \in accepted
  /\ \A i, j \in DOMAIN c : c[i] # c[j] => ~overlaps(c[i], c[j])
  /\ \A m \in matches : m \in accepted =>
       \E j \in DOMAIN c :
         \/ c[j] = m
         \/ overlaps(c[j], m) /\ RuleRank(rules, c[j]) <= RuleRank(rules, m)

LEMMA Claim ==
  ASSUME NEW rules, NEW matches, Looked(rules, matches), NEW accepted
  PROVE  Claimed(rules, matches, accepted, claim(rules, matches, accepted))
<1>1. PICK s \in Seq(matches) :
        /\ s = tried(rules, matches)
        /\ \A m \in matches : \E i \in DOMAIN s : s[i] = m
        /\ \A i, j \in DOMAIN s : i < j => RuleRank(rules, s[i]) <= RuleRank(rules, s[j])
  BY Tried
<1> DEFINE t == Taken(s, accepted)
           D == {x \in (DOMAIN t) \X (DOMAIN t) : t[x[1]].start < t[x[2]].start}
           K == [i \in DOMAIN t |-> t[i].start]
           c == inOrder(t, D)
<1>2. TakenAfter(matches, accepted, s, Len(s), t)
  <2>1. Spanned(matches)
    BY DEF Looked
  <2> QED BY <2>1, TakeFold
<1>3. c = claim(rules, matches, accepted)
  BY <1>1, Zenon DEF claim, stableSort, Taken
<1> HIDE DEF t
<1>4. t \in Seq(matches) /\ Len(s) \in Nat /\ DOMAIN s = 1..Len(s)
  BY <1>2 DEF TakenAfter
<1>5. K \in [DOMAIN t -> Int] /\ \A i, j \in DOMAIN t : <<i, j>> \in D <=> K[i] < K[j]
  <2>1. \A i \in DOMAIN t : t[i].start \in Nat
    BY <1>4 DEF Looked, Spanned
  <2> QED BY <2>1
<1> HIDE DEF D, K
<1>6. c \in Seq(matches) /\ Len(c) = Len(t) /\ \E p : Picks(c, t, p) /\ Sorts(p, Len(t), K)
  BY <1>4, <1>5, InOrder
<1> HIDE DEF c
<1>7. PICK p : Picks(c, t, p) /\ Sorts(p, Len(t), K)
  BY <1>6
<1>8. DOMAIN c = DOMAIN t /\ DOMAIN t = 1..Len(t)
  BY <1>4, <1>6
<1>9. \A r \in DOMAIN c : p[r] \in DOMAIN t /\ c[r] = t[p[r]]
  BY <1>7 DEF Picks
<1>10. \A j \in DOMAIN t : \E r \in DOMAIN c : c[r] = t[j]
  <2> SUFFICES ASSUME NEW j \in DOMAIN t PROVE \E r \in DOMAIN c : c[r] = t[j]
    OBVIOUS
  <2>1. PICK r \in 1..Len(t) : p[r] = j
    BY <1>7, <1>8 DEF Sorts
  <2> QED BY <1>8, <1>9, <2>1
<1>11. \A j \in DOMAIN c : c[j] \in accepted
  BY <1>2, <1>9 DEF TakenAfter
<1>12. ASSUME NEW i \in DOMAIN c, NEW j \in DOMAIN c, c[i] # c[j] PROVE ~overlaps(c[i], c[j])
  <2>1. p[i] # p[j]
    BY <1>9, <1>12
  <2> QED BY <1>2, <1>9, <2>1 DEF TakenAfter
<1>13. ASSUME NEW m \in matches, m \in accepted
       PROVE  \E j \in DOMAIN c :
                \/ c[j] = m
                \/ overlaps(c[j], m) /\ RuleRank(rules, c[j]) <= RuleRank(rules, m)
  <2>1. PICK k \in 1..Len(s) : s[k] = m
    BY <1>1, <1>4
  <2>2. PICK i \in DOMAIN t :
          t[i] = s[k] \/ (overlaps(t[i], s[k]) /\ \E h \in 1..k : t[i] = s[h])
    BY <1>2, <1>13, <2>1 DEF TakenAfter
  <2>3. PICK j \in DOMAIN c : c[j] = t[i]
    BY <1>10
  <2>4. CASE \E h \in 1..k : t[i] = s[h]
    <3>1. PICK h \in 1..k : t[i] = s[h]
      BY <2>4
    <3>2. h \in DOMAIN s /\ k \in DOMAIN s /\ (h < k \/ h = k)
      BY <1>4
    <3>3. RuleRank(rules, s[h]) <= RuleRank(rules, s[k])
      <4>1. s[k] \in matches
        BY <2>1
      <4>2. RuleRank(rules, s[k]) \in Nat
        BY <4>1, RankIs
      <4> QED BY <1>1, <3>2, <4>2
    <3> QED BY <2>1, <2>2, <2>3, <3>1, <3>3
  <2>5. CASE t[i] = s[k]
    BY <2>1, <2>3, <2>5
  <2> QED BY <2>2, <2>4, <2>5
<1>14. Claimed(rules, matches, accepted, c)
  BY <1>6, <1>11, <1>12, <1>13 DEF Claimed
<1> QED BY <1>3, <1>14

-----------------------------------------------------------------------------
(***************************************************************************)
(* What an extractor makes of a message.                                   *)
(***************************************************************************)
Extractors == {MoneyRules, IdentifierRules, DateRules}

\* The matches that the rules of an extractor own.
Owned(rules, source) ==
  claim(rules, Matches(rules, source), {m \in Matches(rules, source) : Accepted(m)})

LEMMA MessageFacts ==
  ASSUME NEW source \in Messages
  PROVE  /\ source.at \in Int /\ IsFiniteSet(source.found)
         /\ \A m \in source.found : IsMatch(m) /\ m.start \in Nat /\ m.end \in Nat
         /\ \A m, n \in source.found :
              m.rule = n.rule /\ m.start = n.start => m = n \/ m.rule \in ToSet(AskRules)
<1>1. IsMessage(source)
  BY ConversationAssumption
<1>2. \A m \in source.found : IsMatch(m)
  BY <1>1 DEF IsMessage
<1>3. \A m : IsMatch(m) => m.start \in Nat /\ m.end \in Nat
  BY DEF IsMatch
<1>4. \A m, n \in source.found :
        m.rule = n.rule /\ m.start = n.start => m = n \/ m.rule \in ToSet(AskRules)
  BY <1>1 DEF IsMessage
<1>5. source.at \in Int /\ IsFiniteSet(source.found)
  BY <1>1 DEF IsMessage
<1> QED BY <1>2, <1>3, <1>4, <1>5

LEMMA Looks ==
  ASSUME NEW source \in Messages, NEW rules \in Extractors
  PROVE  /\ Looked(rules, Matches(rules, source))
         /\ Matches(rules, source) \subseteq source.found
         /\ \A m \in source.found : m.rule \in ToSet(rules) => m \in Matches(rules, source)
<1>1. /\ Matches(rules, source) \subseteq source.found
      /\ \A m \in Matches(rules, source) : m.rule \in ToSet(rules)
      /\ \A m \in source.found : m.rule \in ToSet(rules) => m \in Matches(rules, source)
  BY DEF Matches
<1>2. DOMAIN rules \subseteq Nat
  BY Rules DEF Extractors
<1>3. IsFiniteSet(Matches(rules, source))
  BY <1>1, MessageFacts, FS_Subset
<1>4. Spanned(Matches(rules, source))
  BY <1>1, MessageFacts DEF Spanned
<1> QED BY <1>1, <1>2, <1>3, <1>4 DEF Looked

LEMMA Owns ==
  ASSUME NEW source \in Messages, NEW rules \in Extractors
  PROVE  LET c == Owned(rules, source)
         IN /\ c \in Seq(source.found)
            /\ \A j \in DOMAIN c : c[j].rule \in ToSet(rules) /\ Accepted(c[j])
            /\ \A i, j \in DOMAIN c : c[i] # c[j] => ~overlaps(c[i], c[j])
            /\ \A m \in source.found : m.rule \in ToSet(rules) /\ Accepted(m) =>
                 \E j \in DOMAIN c :
                   c[j] = m \/ (overlaps(c[j], m) /\ RuleRank(rules, c[j]) <= RuleRank(rules, m))
<1> DEFINE matches == Matches(rules, source)
           accepted == {m \in matches : Accepted(m)}
           c == Owned(rules, source)
<1>1. /\ Looked(rules, matches) /\ matches \subseteq source.found
      /\ \A m \in source.found : m.rule \in ToSet(rules) => m \in matches
  BY Looks
<1>2. c = claim(rules, matches, accepted)
  BY DEF Owned
<1>3. \A m \in matches : m \in accepted <=> Accepted(m)
  OBVIOUS
<1> HIDE DEF matches, accepted, c
<1>4. Claimed(rules, matches, accepted, c)
  BY <1>1, <1>2, Claim
<1>5. c \in Seq(matches) /\ \A j \in DOMAIN c : c[j] \in matches /\ c[j] \in accepted
  BY <1>4 DEF Claimed
<1>6. c \in Seq(source.found)
  BY <1>1, <1>5
<1>7. \A j \in DOMAIN c : c[j].rule \in ToSet(rules) /\ Accepted(c[j])
  BY <1>1, <1>3, <1>5 DEF Looked
<1>8. \A i, j \in DOMAIN c : c[i] # c[j] => ~overlaps(c[i], c[j])
  BY <1>4 DEF Claimed
<1>9. ASSUME NEW m \in source.found, m.rule \in ToSet(rules), Accepted(m)
      PROVE  \E j \in DOMAIN c :
               c[j] = m \/ (overlaps(c[j], m) /\ RuleRank(rules, c[j]) <= RuleRank(rules, m))
  BY <1>1, <1>3, <1>4, <1>9 DEF Claimed
<1> QED BY <1>6, <1>7, <1>8, <1>9 DEF c

LEMMA Accepts ==
  ASSUME NEW m
  PROVE  /\ m.rule \in ToSet(MoneyRules) => (Accepted(m) <=> IsMoney(m))
         /\ m.rule \in ToSet(IdentifierRules) => (Accepted(m) <=> IsReference(m))
         /\ m.rule \in ToSet(DateRules) => (Accepted(m) <=> IsDate(m))
<1>1. /\ m.rule \in ToSet(MoneyRules) => m.rule \notin ToSet(DateRules)
      /\ m.rule \in ToSet(IdentifierRules) =>
           m.rule \notin ToSet(MoneyRules) /\ m.rule \notin ToSet(DateRules)
  BY Rules DEF RelativeRules
<1> QED BY <1>1 DEF Accepted

LEMMA Extracts ==
  ASSUME NEW source \in Messages, NEW i
  PROVE  /\ extractMoney(source, i) =
              [j \in DOMAIN Owned(MoneyRules, source) |->
                 moneySignal(Owned(MoneyRules, source)[j], source, i)]
         /\ extractIdentifiers(source, i) =
              [j \in DOMAIN Owned(IdentifierRules, source) |->
                 identifierSignal(Owned(IdentifierRules, source)[j], source, i)]
         /\ extractDates(source, i) =
              [j \in DOMAIN Owned(DateRules, source) |->
                 dateSignal(Owned(DateRules, source)[j], source, i)]
<1>1. \A rules : \A m \in Matches(rules, source) : m.rule \in ToSet(rules)
  BY DEF Matches
<1>2. {m \in Matches(MoneyRules, source) : IsMoney(m)}
        = {m \in Matches(MoneyRules, source) : Accepted(m)}
  BY <1>1, Accepts
<1>3. {m \in Matches(IdentifierRules, source) : IsReference(m)}
        = {m \in Matches(IdentifierRules, source) : Accepted(m)}
  BY <1>1, Accepts
<1>4. {m \in Matches(DateRules, source) : IsDate(m)}
        = {m \in Matches(DateRules, source) : Accepted(m)}
  BY <1>1, Accepts
<1>5. extractMoney(source, i) =
        [j \in DOMAIN Owned(MoneyRules, source) |->
           moneySignal(Owned(MoneyRules, source)[j], source, i)]
  BY <1>2, Zenon DEF extractMoney, Owned
<1>6. extractIdentifiers(source, i) =
        [j \in DOMAIN Owned(IdentifierRules, source) |->
           identifierSignal(Owned(IdentifierRules, source)[j], source, i)]
  BY <1>3, Zenon DEF extractIdentifiers, Owned
<1>7. extractDates(source, i) =
        [j \in DOMAIN Owned(DateRules, source) |->
           dateSignal(Owned(DateRules, source)[j], source, i)]
  BY <1>4, Zenon DEF extractDates, Owned
<1> QED BY <1>5, <1>6, <1>7

\* What the asks of a message may be.
HitRules(source) == {rule \in ToSet(AskRules) : Hits(rule, source) # {}}

AsksOf(source, i) == {askSignal(rule, source, i) : rule \in HitRules(source)}

LEMMA AskFields ==
  ASSUME NEW source \in Messages, NEW i, NEW rule \in HitRules(source)
  PROVE  /\ askSignal(rule, source, i).confidence \in Int
         /\ askSignal(rule, source, i).kind = "ask"
         /\ askSignal(rule, source, i).rule \in ToSet(AskRules)
         /\ askSignal(rule, source, i).source = i
         /\ askSignal(rule, source, i).role = source.role
<1> DEFINE H == Hits(rule, source)
           starts == {m.start : m \in H}
           first == CHOOSE m \in H : \A n \in H : m.start <= n.start
           confidence == AtMost(96, ConfidenceOf[rule] + 5 * (Cardinality(H) - 1))
<1>1. /\ H # {} /\ rule \in ToSet(AskRules) /\ H \subseteq source.found
      /\ \A m \in H : m.rule = rule
  BY DEF HitRules, Hits
<1>2. askSignal(rule, source, i) = Signal("ask", rule, confidence, first, i, source)
  BY Zenon DEF askSignal
<1> HIDE DEF H
<1>3. IsFiniteSet(H)
  BY <1>1, MessageFacts, FS_Subset
<1>4. Cardinality(H) \in Nat
  BY <1>3, FS_CardinalityType
<1>5. ConfidenceOf[rule] \in Nat
  BY <1>1, Rules DEF ConfidenceOf
<1>6. confidence \in Int
  BY <1>4, <1>5 DEF AtMost
<1> HIDE DEF confidence
<1>7. \A m \in H : m.start \in Nat
  BY <1>1, MessageFacts
<1>8. starts \in SUBSET Nat /\ starts # {}
  BY <1>1, <1>7
<1>9. PICK k \in starts : \A l \in starts : k <= l
  <2> HIDE DEF starts
  <2> QED BY <1>8, Least
<1>10. \E m \in H : \A n \in H : m.start <= n.start
  BY <1>9
<1>11. first \in H
  BY <1>10
<1>12. first.rule = rule
  BY <1>1, <1>11
<1> HIDE DEF first
<1> QED BY <1>1, <1>2, <1>6, <1>12 DEF Signal

LEMMA Asks ==
  ASSUME NEW source \in Messages, NEW i
  PROVE  extractAsks(source, i) \in Seq(AsksOf(source, i))
<1> DEFINE kept == {k \in DOMAIN AskRules : Hits(AskRules[k], source) # {}}
           hit == keepAt(AskRules, kept)
           asks == [j \in DOMAIN hit |-> askSignal(hit[j], source, i)]
           D == {x \in (DOMAIN asks) \X (DOMAIN asks) :
                   asks[x[1]].confidence > asks[x[2]].confidence}
           K == [j \in DOMAIN asks |-> 0 - asks[j].confidence]
<1>1. extractAsks(source, i) = IF source.role # "customer" THEN <<>> ELSE inOrder(asks, D)
  BY Zenon DEF extractAsks, filter, stableSort
<1>2. AskRules \in Seq(ToSet(AskRules)) /\ kept \in SUBSET DOMAIN AskRules
  <2>1. \A k \in DOMAIN AskRules : AskRules[k] \in ToSet(AskRules)
    BY DEF ToSet
  <2>2. AskRules = [k \in 1..6 |-> AskRules[k]]
    BY DEF AskRules
  <2>3. DOMAIN AskRules = 1..6
    BY Rules
  <2> QED BY <2>1, <2>2, <2>3
<1>3. \A k \in kept : Hits(AskRules[k], source) # {}
  OBVIOUS
<1> HIDE DEF kept
<1>4. hit \in Seq(ToSet(AskRules)) /\ \E p : Selects(hit, AskRules, kept, p)
  BY <1>2, KeepAt
<1> HIDE DEF hit
<1>5. PICK p : Selects(hit, AskRules, kept, p)
  BY <1>4
<1>6. \A j \in DOMAIN hit : hit[j] \in HitRules(source)
  <2> SUFFICES ASSUME NEW j \in DOMAIN hit PROVE hit[j] \in HitRules(source)
    OBVIOUS
  <2>1. p[j] \in DOMAIN AskRules /\ hit[j] = AskRules[p[j]] /\ p[j] \in kept
    BY <1>5 DEF Selects, Picks
  <2>2. Hits(hit[j], source) # {}
    BY <1>3, <2>1
  <2>3. hit[j] \in ToSet(AskRules)
    BY <1>4
  <2> QED BY <2>2, <2>3 DEF HitRules
<1>7. asks \in Seq(AsksOf(source, i))
  <2>1. \A j \in DOMAIN hit : askSignal(hit[j], source, i) \in AsksOf(source, i)
    BY <1>6 DEF AsksOf
  <2>2. DOMAIN hit = 1..Len(hit) /\ Len(hit) \in Nat
    BY <1>4
  <2> QED BY <2>1, <2>2
<1>8. \A t \in AsksOf(source, i) : t.confidence \in Int
  BY AskFields DEF AsksOf
<1> HIDE DEF asks
<1>9. K \in [DOMAIN asks -> Int] /\ \A j, k \in DOMAIN asks : <<j, k>> \in D <=> K[j] < K[k]
  <2>1. \A j \in DOMAIN asks : asks[j].confidence \in Int
    BY <1>7, <1>8
  <2> QED BY <2>1
<1> HIDE DEF D, K
<1>10. inOrder(asks, D) \in Seq(AsksOf(source, i))
  BY <1>7, <1>9, InOrder
<1> QED BY <1>1, <1>10

-----------------------------------------------------------------------------
(***************************************************************************)
(* The signals of a message, and of a thread.                              *)
(***************************************************************************)
MoneyOf(source, i) == {moneySignal(m, source, i) : m \in ToSet(Owned(MoneyRules, source))}

IdentifiersOf(source, i) ==
  {identifierSignal(m, source, i) : m \in ToSet(Owned(IdentifierRules, source))}

DatesOf(source, i) == {dateSignal(m, source, i) : m \in ToSet(Owned(DateRules, source))}

LEMMA Joined ==
  ASSUME NEW T, NEW s \in Seq(T), NEW t \in Seq(T)
  PROVE  s \o t \in Seq(T) /\ ToSet(s \o t) = ToSet(s) \cup ToSet(t)
<1> DEFINE u == s \o t
<1>1. /\ u \in Seq(T) /\ Len(u) = Len(s) + Len(t) /\ Len(s) \in Nat /\ Len(t) \in Nat
      /\ DOMAIN u = 1..Len(s)+Len(t) /\ DOMAIN s = 1..Len(s) /\ DOMAIN t = 1..Len(t)
      /\ \A k \in 1..Len(s) : u[k] = s[k]
      /\ \A k \in 1..Len(t) : u[Len(s) + k] = t[k]
  OBVIOUS
<1> HIDE DEF u
<1>2. ToSet(u) \subseteq ToSet(s) \cup ToSet(t)
  <2> SUFFICES ASSUME NEW k \in DOMAIN u PROVE u[k] \in ToSet(s) \cup ToSet(t)
    BY DEF ToSet
  <2>1. CASE k \in 1..Len(s)
    BY <1>1, <2>1 DEF ToSet
  <2>2. CASE k \notin 1..Len(s)
    <3>1. k - Len(s) \in 1..Len(t) /\ Len(s) + (k - Len(s)) = k
      BY <1>1, <2>2
    <3>2. u[k] = t[k - Len(s)]
      BY <1>1, <3>1
    <3> QED BY <1>1, <3>1, <3>2 DEF ToSet
  <2> QED BY <2>1, <2>2
<1>3. ToSet(s) \subseteq ToSet(u)
  BY <1>1 DEF ToSet
<1>4. ToSet(t) \subseteq ToSet(u)
  <2> SUFFICES ASSUME NEW k \in DOMAIN t PROVE t[k] \in ToSet(u)
    BY DEF ToSet
  <2>1. Len(s) + k \in DOMAIN u /\ u[Len(s) + k] = t[k]
    BY <1>1
  <2> QED BY <2>1 DEF ToSet
<1>5. ToSet(u) = ToSet(s) \cup ToSet(t)
  BY <1>2, <1>3, <1>4
<1> QED BY <1>1, <1>5 DEF u

LEMMA SourceSignals ==
  ASSUME NEW source \in Messages, NEW i
  PROVE  LET T == MoneyOf(source, i) \cup IdentifiersOf(source, i) \cup DatesOf(source, i)
                    \cup AsksOf(source, i)
             x == extractFromSource(source, i)
         IN /\ x \in Seq(T)
            /\ MoneyOf(source, i) \cup IdentifiersOf(source, i) \cup DatesOf(source, i)
                 \subseteq ToSet(x)
<1> DEFINE T == MoneyOf(source, i) \cup IdentifiersOf(source, i) \cup DatesOf(source, i)
                  \cup AsksOf(source, i)
           p == extractMoney(source, i)
           q == extractIdentifiers(source, i)
           r == extractDates(source, i)
           t == extractAsks(source, i)
<1>0. \A rules \in Extractors :
        /\ Len(Owned(rules, source)) \in Nat
        /\ DOMAIN Owned(rules, source) = 1..Len(Owned(rules, source))
  <2> SUFFICES ASSUME NEW rules \in Extractors
               PROVE  /\ Len(Owned(rules, source)) \in Nat
                      /\ DOMAIN Owned(rules, source) = 1..Len(Owned(rules, source))
    OBVIOUS
  <2>1. Owned(rules, source) \in Seq(source.found)
    BY Owns
  <2> QED BY <2>1
<1>00. MoneyRules \in Extractors /\ IdentifierRules \in Extractors /\ DateRules \in Extractors
  BY DEF Extractors
<1>1. p \in Seq(T) /\ ToSet(p) = MoneyOf(source, i)
  <2> DEFINE c == Owned(MoneyRules, source)
  <2>1. p = [j \in DOMAIN c |-> moneySignal(c[j], source, i)]
    BY Extracts
  <2>2. Len(c) \in Nat /\ DOMAIN c = 1..Len(c)
    BY <1>0, <1>00
  <2>3. MoneyOf(source, i) = {moneySignal(c[j], source, i) : j \in DOMAIN c}
    BY DEF MoneyOf, ToSet
  <2> HIDE DEF c, p
  <2>4. ToSet(p) = MoneyOf(source, i)
    BY <2>1, <2>3 DEF ToSet
  <2>5. \A j \in 1..Len(c) : moneySignal(c[j], source, i) \in T
    BY <2>2, <2>3
  <2> HIDE DEF T
  <2> QED BY <2>1, <2>2, <2>4, <2>5
<1>2. q \in Seq(T) /\ ToSet(q) = IdentifiersOf(source, i)
  <2> DEFINE c == Owned(IdentifierRules, source)
  <2>1. q = [j \in DOMAIN c |-> identifierSignal(c[j], source, i)]
    BY Extracts
  <2>2. Len(c) \in Nat /\ DOMAIN c = 1..Len(c)
    BY <1>0, <1>00
  <2>3. IdentifiersOf(source, i) = {identifierSignal(c[j], source, i) : j \in DOMAIN c}
    BY DEF IdentifiersOf, ToSet
  <2> HIDE DEF c, q
  <2>4. ToSet(q) = IdentifiersOf(source, i)
    BY <2>1, <2>3 DEF ToSet
  <2>5. \A j \in 1..Len(c) : identifierSignal(c[j], source, i) \in T
    BY <2>2, <2>3
  <2> HIDE DEF T
  <2> QED BY <2>1, <2>2, <2>4, <2>5
<1>3. r \in Seq(T) /\ ToSet(r) = DatesOf(source, i)
  <2> DEFINE c == Owned(DateRules, source)
  <2>1. r = [j \in DOMAIN c |-> dateSignal(c[j], source, i)]
    BY Extracts
  <2>2. Len(c) \in Nat /\ DOMAIN c = 1..Len(c)
    BY <1>0, <1>00
  <2>3. DatesOf(source, i) = {dateSignal(c[j], source, i) : j \in DOMAIN c}
    BY DEF DatesOf, ToSet
  <2> HIDE DEF c, r
  <2>4. ToSet(r) = DatesOf(source, i)
    BY <2>1, <2>3 DEF ToSet
  <2>5. \A j \in 1..Len(c) : dateSignal(c[j], source, i) \in T
    BY <2>2, <2>3
  <2> HIDE DEF T
  <2> QED BY <2>1, <2>2, <2>4, <2>5
<1>4. t \in Seq(T)
  BY Asks
<1>5. extractFromSource(source, i) = ((p \o q) \o r) \o t
  BY DEF extractFromSource
<1>6. MoneyOf(source, i) \cup IdentifiersOf(source, i) \cup DatesOf(source, i)
        = ToSet(p) \cup ToSet(q) \cup ToSet(r)
  BY <1>1, <1>2, <1>3
<1> HIDE DEF T, p, q, r, t
<1>8. p \o q \in Seq(T) /\ ToSet(p \o q) = ToSet(p) \cup ToSet(q)
  BY <1>1, <1>2, Joined
<1> DEFINE pq == p \o q
<1> HIDE DEF pq
<1>9. pq \o r \in Seq(T) /\ ToSet(pq \o r) = ToSet(pq) \cup ToSet(r) /\ pq \in Seq(T)
  <2>1. pq \in Seq(T)
    BY <1>8 DEF pq
  <2> QED BY <1>3, <2>1, Joined
<1> DEFINE pqr == pq \o r
<1> HIDE DEF pqr
<1>10. pqr \o t \in Seq(T) /\ ToSet(pqr \o t) = ToSet(pqr) \cup ToSet(t)
  <2>1. pqr \in Seq(T)
    BY <1>9 DEF pqr
  <2> QED BY <1>4, <2>1, Joined
<1>11. extractFromSource(source, i) = pqr \o t
  BY <1>5 DEF pq, pqr
<1>12. ToSet(pqr) = ToSet(p) \cup ToSet(q) \cup ToSet(r)
  BY <1>8, <1>9 DEF pq, pqr
<1>13. extractFromSource(source, i) \in Seq(T)
  BY <1>10, <1>11
<1>14. MoneyOf(source, i) \cup IdentifiersOf(source, i) \cup DatesOf(source, i)
         \subseteq ToSet(extractFromSource(source, i))
  BY <1>6, <1>10, <1>11, <1>12
<1> QED BY <1>13, <1>14 DEF T

LEMMA Signals ==
  ASSUME NEW sources \in Seq(Messages)
  PROVE  /\ signalsOf(sources) \in Seq(ToSet(signalsOf(sources)))
         /\ \A x : x \in ToSet(signalsOf(sources))
                     <=> \E i \in DOMAIN sources : x \in ToSet(extractFromSource(sources[i], i))
<1> DEFINE ss == [i \in DOMAIN sources |-> extractFromSource(sources[i], i)]
           T == UNION {ToSet(extractFromSource(sources[i], i)) : i \in DOMAIN sources}
<1>1. Len(sources) \in Nat /\ DOMAIN sources = 1..Len(sources)
      /\ \A i \in DOMAIN sources : sources[i] \in Messages
  OBVIOUS
<1>2. \A i \in DOMAIN sources : extractFromSource(sources[i], i) \in Seq(T)
  <2> SUFFICES ASSUME NEW i \in DOMAIN sources PROVE extractFromSource(sources[i], i) \in Seq(T)
    OBVIOUS
  <2> DEFINE x == extractFromSource(sources[i], i)
  <2>1. PICK U : x \in Seq(U)
    BY <1>1, SourceSignals
  <2>2. ToSet(x) \subseteq T
    OBVIOUS
  <2> HIDE DEF x, T
  <2>3. \A j \in DOMAIN x : x[j] \in T
    BY <2>2 DEF ToSet
  <2>4. x \in Seq(T)
    BY <2>1, <2>3
  <2> QED BY <2>4 DEF x
<1>3. ss \in Seq(Seq(T)) /\ DOMAIN ss = DOMAIN sources
  <2> HIDE DEF T
  <2> QED BY <1>1, <1>2
<1>4. signalsOf(sources) = FlattenSeq(ss)
  BY DEF signalsOf
<1>5. \A i \in DOMAIN sources : ss[i] = extractFromSource(sources[i], i)
  OBVIOUS
<1> HIDE DEF ss, T
<1>6. \A x : (\E i \in DOMAIN FlattenSeq(ss) : FlattenSeq(ss)[i] = x)
               <=> \E k \in DOMAIN ss : \E i \in DOMAIN ss[k] : ss[k][i] = x
  BY <1>3, FlattenRange
<1>7. \A s : \A x : x \in ToSet(s) <=> \E i \in DOMAIN s : s[i] = x
  BY DEF ToSet
<1>8. \A x : x \in ToSet(FlattenSeq(ss)) <=> \E k \in DOMAIN ss : x \in ToSet(ss[k])
  BY <1>6, <1>7
<1>9. FlattenSeq(ss) \in Seq(T)
  BY <1>3, FlattenRange
<1> DEFINE all == FlattenSeq(ss)
<1> HIDE DEF all
<1>10. all \in Seq(ToSet(all))
  <2>1. all \in Seq(T) /\ \A j \in DOMAIN all : all[j] \in ToSet(all)
    BY <1>9 DEF ToSet, all
  <2> QED BY <2>1
<1> QED BY <1>3, <1>4, <1>5, <1>8, <1>10 DEF all

-----------------------------------------------------------------------------
(***************************************************************************)
(* The inductive invariant: what is stored is made of the messages that    *)
(* were read and of records, and nothing of it changes afterwards.         *)
(***************************************************************************)
\* A record that was looked up for k, which is its identifier or its name.
LookedUp(k, c) ==
  c.reference = k \/ \E r \in Records : r.id = k /\ CandidateOf(r).reference = c.reference

Identifiers == {"order_reference", "payment_reference"}

WorkInv ==
  /\ DOMAIN work = DOMAIN Idle
  /\ work.sources \in Seq(Messages)
  /\ work.step # "idle" =>
       /\ work.signals = signalsOf(work.sources)
       /\ work.leads = leads(work.signals, Len(work.sources))
  /\ work.corpus \subseteq Records /\ IsFiniteSet(work.corpus)
  /\ \A k \in DOMAIN work.explicit : LookedUp(k, work.explicit[k])

\* A signal is stored with what the records of the corpus say of it, but for an
\* identifier that was looked up.
StoredFor(a, corpus) ==
  \/ a = Annotation(a.signal, corpus, <<>>)
  \/ /\ a.signal.kind \in Identifiers
     /\ \A c \in a.candidates : LookedUp(a.signal.value, c)

ContextInv ==
  Stored =>
    /\ context.sources \in Seq(Messages)
    /\ context.leads = leads(signalsOf(context.sources), Len(context.sources))
    /\ context.corpus \subseteq Records /\ IsFiniteSet(context.corpus)
    /\ {a.signal : a \in context.annotations} = ToSet(signalsOf(context.sources))
    /\ \A a \in context.annotations : StoredFor(a, context.corpus)

ConversationInv ==
  /\ thread \in Seq(Messages)
  /\ known \subseteq Records /\ IsFiniteSet(known)
  /\ WorkInv /\ ContextInv

LEMMA SourcesAreMessages ==
  ASSUME NEW messages \in Seq(Messages)
  PROVE  toTextSources(messages) \in Seq(Messages)
<1> DEFINE kept == {k \in DOMAIN messages : messages[k].public \/ messages[k].role # "agent"}
           s == keepAt(messages, kept)
           D == {x \in (DOMAIN s) \X (DOMAIN s) : s[x[1]].at < s[x[2]].at}
           K == [j \in DOMAIN s |-> s[j].at]
<1>1. toTextSources(messages) = inOrder(s, D)
  BY Zenon DEF toTextSources, filter, stableSort
<1>2. kept \in SUBSET DOMAIN messages
  OBVIOUS
<1> HIDE DEF kept
<1>3. s \in Seq(Messages)
  BY <1>2, KeepAt
<1> HIDE DEF s
<1>4. K \in [DOMAIN s -> Int] /\ \A j, k \in DOMAIN s : <<j, k>> \in D <=> K[j] < K[k]
  <2>1. \A j \in DOMAIN s : s[j].at \in Int
    BY <1>3, MessageFacts
  <2> QED BY <2>1
<1> HIDE DEF D, K
<1> QED BY <1>1, <1>3, <1>4, InOrder

LEMMA ExplicitIs ==
  ASSUME known \subseteq Records,
         NEW payment, NEW order,
         NEW stripe \in {IF payment = None THEN None ELSE lookupStripe(payment), None},
         NEW shopify \in {IF order = None THEN None ELSE lookupShopify(order), None},
         NEW k \in DOMAIN explicitRecords(stripe, shopify)
  PROVE  LookedUp(k, explicitRecords(stripe, shopify)[k])
<1> DEFINE payments == IF stripe = None THEN {} ELSE {stripe.charge, stripe.refund} \ {None}
           orders == IF shopify = None THEN {} ELSE {shopify.id, shopify.name} \ {None}
           e == explicitRecords(stripe, shopify)
<1>1. e = [j \in payments \cup orders |->
             IF j \in orders THEN ShopifyRecord(shopify) ELSE StripeRecord(stripe, j)]
  BY Zenon DEF explicitRecords
<1>2. CASE k \in orders
  <2>1. e[k] = ShopifyRecord(shopify)
    BY <1>1, <1>2
  <2>2. shopify # None /\ shopify = lookupShopify(order) /\ k \in {shopify.id, shopify.name}
        /\ k # None
    BY <1>2
  <2>3. e[k].reference = IF shopify.name # None THEN shopify.name ELSE shopify.id
    BY <2>1 DEF ShopifyRecord
  <2> DEFINE found == {r \in known : r.type = "order" /\ r.id = order}
             r == CHOOSE q \in found : TRUE
  <2>4. lookupShopify(order) =
          IF found # {} THEN [id |-> r.id, name |-> r.name, amount |-> r.amount]
          ELSE [id |-> order, name |-> None, amount |-> None]
    BY Zenon DEF lookupShopify
  <2>5. CASE found # {}
    <3>1. r \in found
      BY <2>5
    <3>2. r \in Records
      BY <3>1
    <3> HIDE DEF found, r
    <3>3. shopify.id = r.id /\ shopify.name = r.name
      BY <2>2, <2>4, <2>5
    <3>4. CandidateOf(r).reference = IF r.name # None THEN r.name ELSE r.id
      BY DEF CandidateOf
    <3> HIDE DEF e
    <3> QED BY <2>2, <2>3, <3>2, <3>3, <3>4 DEF LookedUp, e
  <2>6. CASE found = {}
    <3> HIDE DEF found, r
    <3>1. shopify.id = order /\ shopify.name = None
      BY <2>2, <2>4, <2>6
    <3> HIDE DEF e
    <3> QED BY <2>2, <2>3, <3>1 DEF LookedUp, e
  <2> QED BY <2>5, <2>6
<1>3. CASE k \notin orders
  <2>1. e[k] = StripeRecord(stripe, k)
    BY <1>1, <1>3
  <2>2. e[k].reference = k
    BY <2>1 DEF StripeRecord
  <2> HIDE DEF e
  <2> QED BY <2>2 DEF LookedUp, e
<1> QED BY <1>2, <1>3

LEMMA AnnotationIs ==
  ASSUME NEW s, NEW corpus, NEW explicit, \A k \in DOMAIN explicit : LookedUp(k, explicit[k])
  PROVE  Annotation(s, corpus, explicit).signal = s /\ StoredFor(Annotation(s, corpus, explicit), corpus)
<1> DEFINE a == Annotation(s, corpus, explicit)
           r == resolveSpan(s, corpus, explicit)
<1>1. a.signal = s /\ a.candidates = r.candidates
  BY DEF Annotation
<1>2. CASE s.kind \in Identifiers
  <2>1. \A e : resolveSpan(s, corpus, e) = resolveIdentifier(s.value, corpus, e)
    BY <1>2 DEF resolveSpan, Identifiers
  <2>2. CASE s.value \in DOMAIN explicit
    <3>1. r.candidates = {explicit[s.value]}
      BY <2>1, <2>2 DEF resolveIdentifier, NO_MATCH
    <3> HIDE DEF a, r
    <3>2. \A c \in a.candidates : LookedUp(a.signal.value, c)
      BY <1>1, <2>2, <3>1
    <3> QED BY <1>1, <1>2, <3>2 DEF StoredFor, a
  <2>3. CASE s.value \notin DOMAIN explicit
    <3>1. resolveIdentifier(s.value, corpus, explicit) = resolveIdentifier(s.value, corpus, <<>>)
      <4>1. s.value \notin DOMAIN <<>>
        OBVIOUS
      <4> QED BY <2>3, <4>1 DEF resolveIdentifier
    <3>2. a = Annotation(s, corpus, <<>>)
      BY <2>1, <3>1, Zenon DEF Annotation
    <3> HIDE DEF a, r
    <3> QED BY <1>1, <3>2 DEF StoredFor, a
  <2> QED BY <2>2, <2>3
<1>3. CASE s.kind \notin Identifiers
  <2>1. resolveSpan(s, corpus, explicit) = resolveSpan(s, corpus, <<>>)
    BY <1>3 DEF resolveSpan, Identifiers
  <2>2. a = Annotation(s, corpus, <<>>)
    BY <2>1, Zenon DEF Annotation
  <2> HIDE DEF a, r
  <2> QED BY <1>1, <2>2 DEF StoredFor, a
<1> QED BY <1>2, <1>3

\* What is stored of an ingestion is what its steps left.
THEOREM Invariant == Spec => []ConversationInv
<1>1. Init => ConversationInv
  <2> SUFFICES ASSUME Init PROVE ConversationInv
    OBVIOUS
  <2>1. thread \in Seq(Messages) /\ known \subseteq Records /\ IsFiniteSet(known)
    BY FS_EmptySet DEF Init
  <2>2. WorkInv
    BY FS_EmptySet DEF Init, Idle, WorkInv
  <2>3. ContextInv
    BY DEF Init, ContextInv, Stored
  <2> QED BY <2>1, <2>2, <2>3 DEF ConversationInv
<1>2. ConversationInv /\ [Next]_conversationVars => ConversationInv'
  <2> SUFFICES ASSUME ConversationInv, [Next]_conversationVars PROVE ConversationInv'
    OBVIOUS
  <2>0. /\ thread \in Seq(Messages) /\ known \subseteq Records /\ IsFiniteSet(known)
        /\ WorkInv /\ ContextInv
    BY DEF ConversationInv
  <2>1. ASSUME NEW m \in Messages, messageWritten(m) PROVE ConversationInv'
    <3>1. thread' \in Seq(Messages) /\ UNCHANGED <<known, work, context>>
      BY <2>0, <2>1 DEF messageWritten
    <3> QED BY <2>0, <3>1 DEF ConversationInv, WorkInv, ContextInv, Stored
  <2>2. ASSUME NEW r \in Records, recordMade(r) PROVE ConversationInv'
    <3>1. known' = known \cup {r} /\ UNCHANGED <<thread, work, context>>
      BY <2>2 DEF recordMade
    <3>2. known' \subseteq Records /\ IsFiniteSet(known')
      BY <2>0, <3>1, FS_AddElement
    <3> QED BY <2>0, <3>1, <3>2 DEF ConversationInv, WorkInv, ContextInv, Stored
  <2>3. CASE readTicket
    <3>1. PICK sources \in Seq(Messages) : readConversation(sources)
      <4>1. <<>> \in Seq(Messages)
        OBVIOUS
      <4> QED BY <2>0, <2>3, <4>1, SourcesAreMessages DEF readTicket
    <3>2. /\ DOMAIN work' = DOMAIN Idle /\ work'.sources = sources
          /\ work'.signals = signalsOf(sources)
          /\ work'.leads = leads(signalsOf(sources), Len(sources))
          /\ work'.corpus = {} /\ work'.explicit = <<>>
      BY <3>1 DEF readConversation, Idle
    <3>3. WorkInv'
      BY <3>2, FS_EmptySet DEF WorkInv
    <3>4. UNCHANGED <<thread, known, context>>
      BY <2>3 DEF readTicket
    <3> QED BY <2>0, <3>3, <3>4 DEF ConversationInv, ContextInv, Stored
  <2>4. CASE loadCorpusForIssue
    <3>1. PICK corpus \in {Listed(known), {r \in Listed(known) : r.type = "order"},
                           {r \in Listed(known) : r.type = "charge"}, {}} :
            work' = [work EXCEPT !.step = "corpus", !.corpus = corpus]
      BY <2>4 DEF loadCorpusForIssue
    <3>2. corpus \subseteq known
      BY DEF Listed
    <3>3. corpus \subseteq Records /\ IsFiniteSet(corpus)
      BY <2>0, <3>2, FS_Subset
    <3>4. /\ DOMAIN work' = DOMAIN work /\ work'.sources = work.sources
          /\ work'.signals = work.signals /\ work'.leads = work.leads
          /\ work'.corpus = corpus /\ work'.explicit = work.explicit /\ work.step # "idle"
      BY <2>0, <2>4, <3>1 DEF WorkInv, Idle, loadCorpusForIssue
    <3>5. WorkInv'
      BY <2>0, <3>3, <3>4 DEF WorkInv
    <3>6. UNCHANGED <<thread, known, context>>
      BY <2>4 DEF loadCorpusForIssue
    <3> QED BY <2>0, <3>5, <3>6 DEF ConversationInv, ContextInv, Stored
  <2>5. CASE lookup
    <3> DEFINE payment == work.leads["payment_reference"]
               order == work.leads["order_reference"]
    <3>1. PICK stripe \in {IF payment = None THEN None ELSE lookupStripe(payment), None},
               shopify \in {IF order = None THEN None ELSE lookupShopify(order), None} :
            work' = [work EXCEPT !.step = "looked", !.explicit = explicitRecords(stripe, shopify)]
      BY <2>5 DEF lookup
    <3>2. /\ DOMAIN work' = DOMAIN work /\ work'.sources = work.sources
          /\ work'.signals = work.signals /\ work'.leads = work.leads
          /\ work'.corpus = work.corpus /\ work'.explicit = explicitRecords(stripe, shopify)
          /\ work.step # "idle"
      BY <2>0, <2>5, <3>1 DEF WorkInv, Idle, lookup
    <3> HIDE DEF payment, order
    <3>3. \A k \in DOMAIN explicitRecords(stripe, shopify) :
            LookedUp(k, explicitRecords(stripe, shopify)[k])
      BY <2>0, ExplicitIs
    <3>4. WorkInv'
      BY <2>0, <3>2, <3>3 DEF WorkInv
    <3>5. UNCHANGED <<thread, known, context>>
      BY <2>5 DEF lookup
    <3> QED BY <2>0, <3>4, <3>5 DEF ConversationInv, ContextInv, Stored
  <2>6. CASE persistContext
    <3>1. /\ context'.sources = work.sources /\ context'.leads = work.leads
          /\ context'.corpus = work.corpus
          /\ context'.annotations = {Annotation(s, work.corpus, work.explicit) :
                                       s \in ToSet(work.signals)}
          /\ work' = Idle /\ UNCHANGED <<thread, known>> /\ work.step = "looked"
      BY <2>6 DEF persistContext
    <3>2. WorkInv'
      <4>1. Idle.sources = <<>> /\ Idle.step = "idle" /\ Idle.corpus = {} /\ Idle.explicit = <<>>
        BY DEF Idle
      <4> QED BY <3>1, <4>1, FS_EmptySet DEF WorkInv
    <3>3. \A s : /\ Annotation(s, work.corpus, work.explicit).signal = s
                 /\ StoredFor(Annotation(s, work.corpus, work.explicit), work.corpus)
      BY <2>0, AnnotationIs DEF WorkInv
    <3>4. {a.signal : a \in context'.annotations} = ToSet(work.signals)
      BY <3>1, <3>3
    <3>5. \A a \in context'.annotations : StoredFor(a, context'.corpus)
      BY <3>1, <3>3
    <3>6. ContextInv'
      BY <2>0, <3>1, <3>4, <3>5 DEF WorkInv, ContextInv
    <3> QED BY <2>0, <3>1, <3>2, <3>6 DEF ConversationInv
  <2>7. CASE UNCHANGED conversationVars
    BY <2>0, <2>7 DEF conversationVars, ConversationInv, WorkInv, ContextInv, Stored
  <2> QED BY <2>1, <2>2, <2>3, <2>4, <2>5, <2>6, <2>7 DEF Next
<1> QED BY <1>1, <1>2, PTL DEF Spec

-----------------------------------------------------------------------------
(***************************************************************************)
(* What a stored annotation is about.                                      *)
(***************************************************************************)
\* Of the match m of message i, which its rules own.
ReadAs(a, i, m) ==
  LET source == context.sources[i]
  IN /\ i \in DOMAIN context.sources /\ source \in Messages
     /\ m \in source.found /\ IsMatch(m) /\ Found(a) = m
     /\ \/ /\ m \in ToSet(Owned(MoneyRules, source)) /\ m.rule \in ToSet(MoneyRules)
           /\ IsMoney(m) /\ a.signal = moneySignal(m, source, i)
        \/ /\ m \in ToSet(Owned(IdentifierRules, source)) /\ m.rule \in ToSet(IdentifierRules)
           /\ IsReference(m) /\ a.signal = identifierSignal(m, source, i)
        \/ /\ m \in ToSet(Owned(DateRules, source)) /\ m.rule \in ToSet(DateRules)
           /\ IsDate(m) /\ a.signal = dateSignal(m, source, i)

LEMMA SignalFields ==
  ASSUME NEW m, NEW source, NEW i
  PROVE  /\ moneySignal(m, source, i).kind = "money"
         /\ moneySignal(m, source, i).value.amountCents = amountCents(m.value)
         /\ moneySignal(m, source, i).rule = m.rule
         /\ moneySignal(m, source, i).start = m.start
         /\ moneySignal(m, source, i).end = m.end
         /\ moneySignal(m, source, i).source = i
         /\ moneySignal(m, source, i).role = source.role
         /\ moneySignal(m, source, i).confidence = ConfidenceOf[m.rule]
         /\ identifierSignal(m, source, i).kind \in Identifiers
         /\ identifierSignal(m, source, i).value = m.value
         /\ identifierSignal(m, source, i).rule = m.rule
         /\ identifierSignal(m, source, i).start = m.start
         /\ identifierSignal(m, source, i).end = m.end
         /\ identifierSignal(m, source, i).source = i
         /\ identifierSignal(m, source, i).role = source.role
         /\ identifierSignal(m, source, i).confidence = ConfidenceOf[m.rule]
         /\ dateSignal(m, source, i).kind = "date"
         /\ dateSignal(m, source, i).value.date = dateOf(m, source.at).date
         /\ dateSignal(m, source, i).value.yearWritten = dateOf(m, source.at).yearWritten
         /\ dateSignal(m, source, i).rule = m.rule
         /\ dateSignal(m, source, i).start = m.start
         /\ dateSignal(m, source, i).end = m.end
         /\ dateSignal(m, source, i).source = i
         /\ dateSignal(m, source, i).role = source.role
         /\ dateSignal(m, source, i).confidence = dateOf(m, source.at).confidence
<1>1. /\ moneySignal(m, source, i).kind = "money"
      /\ moneySignal(m, source, i).value.amountCents = amountCents(m.value)
      /\ moneySignal(m, source, i).rule = m.rule
      /\ moneySignal(m, source, i).start = m.start
      /\ moneySignal(m, source, i).end = m.end
      /\ moneySignal(m, source, i).source = i
      /\ moneySignal(m, source, i).role = source.role
      /\ moneySignal(m, source, i).confidence = ConfidenceOf[m.rule]
  BY DEF moneySignal, Signal
<1>2. /\ identifierSignal(m, source, i).kind \in Identifiers
      /\ identifierSignal(m, source, i).value = m.value
      /\ identifierSignal(m, source, i).rule = m.rule
      /\ identifierSignal(m, source, i).start = m.start
      /\ identifierSignal(m, source, i).end = m.end
      /\ identifierSignal(m, source, i).source = i
      /\ identifierSignal(m, source, i).role = source.role
      /\ identifierSignal(m, source, i).confidence = ConfidenceOf[m.rule]
  BY DEF identifierSignal, Signal, Identifiers
<1>3. /\ dateSignal(m, source, i).kind = "date"
      /\ dateSignal(m, source, i).value.date = dateOf(m, source.at).date
      /\ dateSignal(m, source, i).value.yearWritten = dateOf(m, source.at).yearWritten
      /\ dateSignal(m, source, i).rule = m.rule
      /\ dateSignal(m, source, i).start = m.start
      /\ dateSignal(m, source, i).end = m.end
      /\ dateSignal(m, source, i).source = i
      /\ dateSignal(m, source, i).role = source.role
      /\ dateSignal(m, source, i).confidence = dateOf(m, source.at).confidence
  BY DEF dateSignal, Signal
<1> QED BY <1>1, <1>2, <1>3

LEMMA RulesApart ==
  ASSUME NEW rules \in Extractors, NEW x \in ToSet(rules)
  PROVE  x \notin ToSet(AskRules) /\ \A other \in Extractors : x \in ToSet(other) => other = rules
<1> DEFINE M == ToSet(MoneyRules)
           I == ToSet(IdentifierRules)
           D == ToSet(DateRules)
           A == ToSet(AskRules)
<1>1. /\ \A y \in M : y \notin A /\ y \notin I /\ y \notin D
      /\ \A y \in I : y \notin A /\ y \notin M /\ y \notin D
      /\ \A y \in D : y \notin A /\ y \notin M /\ y \notin I
  BY Rules DEF RelativeRules
<1> HIDE DEF M, I, D, A
<1>2. rules = MoneyRules \/ rules = IdentifierRules \/ rules = DateRules
  BY DEF Extractors
<1>3. CASE rules = MoneyRules
  BY <1>1, <1>3 DEF Extractors, M, I, D, A
<1>4. CASE rules = IdentifierRules
  BY <1>1, <1>4 DEF Extractors, M, I, D, A
<1>5. CASE rules = DateRules
  BY <1>1, <1>5 DEF Extractors, M, I, D, A
<1> QED BY <1>2, <1>3, <1>4, <1>5

LEMMA FoundIs ==
  ASSUME NEW a, NEW i, context.sources[i] \in Messages,
         NEW m \in context.sources[i].found, a.signal.source = i,
         NEW rules \in Extractors, m.rule \in ToSet(rules),
         a.signal.rule = m.rule, a.signal.start = m.start, a.signal.end = m.end
  PROVE  Found(a) = m
<1> DEFINE F == context.sources[i].found
           Is(n) == n.rule = a.signal.rule /\ n.start = a.signal.start /\ n.end = a.signal.end
<1>1. \A n \in F : Is(n) => n = m
  BY MessageFacts, RulesApart
<1>2. Is(m)
  OBVIOUS
<1>3. Found(a) = CHOOSE n \in F : Is(n)
  BY Zenon DEF Found
<1> HIDE DEF Is, F
<1>4. m \in F
  BY DEF F
<1> QED BY <1>1, <1>2, <1>3, <1>4

LEMMA OwnedIsFound ==
  ASSUME NEW source \in Messages, NEW rules \in Extractors, NEW m \in ToSet(Owned(rules, source))
  PROVE  m \in source.found /\ IsMatch(m) /\ m.rule \in ToSet(rules) /\ Accepted(m)
<1> DEFINE c == Owned(rules, source)
<1>1. c \in Seq(source.found) /\ \A j \in DOMAIN c : c[j].rule \in ToSet(rules) /\ Accepted(c[j])
  BY Owns
<1>2. PICK j \in DOMAIN c : m = c[j]
  BY DEF ToSet
<1> HIDE DEF c
<1>3. m \in source.found
  BY <1>1, <1>2
<1> QED BY <1>1, <1>2, <1>3, MessageFacts

LEMMA Meaning ==
  ASSUME ConversationInv, Stored, NEW a \in context.annotations
  PROVE  \E i \in DOMAIN context.sources :
           /\ context.sources[i] \in Messages
           /\ a.signal.source = i /\ a.signal.role = context.sources[i].role
           /\ \/ a.signal \in AsksOf(context.sources[i], i)
              \/ \E m : ReadAs(a, i, m)
<1>1. /\ context.sources \in Seq(Messages)
      /\ a.signal \in ToSet(signalsOf(context.sources))
  BY DEF ConversationInv, ContextInv
<1>2. PICK i \in DOMAIN context.sources :
        a.signal \in ToSet(extractFromSource(context.sources[i], i))
  BY <1>1, Signals
<1> DEFINE source == context.sources[i]
<1>3. source \in Messages
  BY <1>1
<1>4. a.signal \in MoneyOf(source, i) \cup IdentifiersOf(source, i) \cup DatesOf(source, i)
                     \cup AsksOf(source, i)
  <2> DEFINE T == MoneyOf(source, i) \cup IdentifiersOf(source, i) \cup DatesOf(source, i)
                     \cup AsksOf(source, i)
             x == extractFromSource(source, i)
  <2>1. x \in Seq(T)
    BY <1>3, SourceSignals
  <2> HIDE DEF x, T
  <2>2. \A y \in ToSet(x) : y \in T
    BY <2>1 DEF ToSet
  <2> QED BY <1>2, <2>2 DEF x, T
<1>5. MoneyRules \in Extractors /\ IdentifierRules \in Extractors /\ DateRules \in Extractors
  BY DEF Extractors
<1> HIDE DEF source
<1>6. CASE a.signal \in MoneyOf(source, i)
  <2>1. PICK m \in ToSet(Owned(MoneyRules, source)) : a.signal = moneySignal(m, source, i)
    BY <1>6 DEF MoneyOf
  <2>2. m \in source.found /\ IsMatch(m) /\ m.rule \in ToSet(MoneyRules) /\ IsMoney(m)
    BY <1>3, <1>5, OwnedIsFound, Accepts
  <2>3. /\ a.signal.source = i /\ a.signal.role = source.role
        /\ a.signal.rule = m.rule /\ a.signal.start = m.start /\ a.signal.end = m.end
    BY <2>1, SignalFields
  <2>4. Found(a) = m
    BY <1>3, <1>5, <2>2, <2>3, FoundIs DEF source
  <2>5. ReadAs(a, i, m)
    BY <1>3, <2>1, <2>2, <2>4 DEF ReadAs, source
  <2> QED BY <1>3, <2>3, <2>5 DEF source
<1>7. CASE a.signal \in IdentifiersOf(source, i)
  <2>1. PICK m \in ToSet(Owned(IdentifierRules, source)) : a.signal = identifierSignal(m, source, i)
    BY <1>7 DEF IdentifiersOf
  <2>2. m \in source.found /\ IsMatch(m) /\ m.rule \in ToSet(IdentifierRules) /\ IsReference(m)
    BY <1>3, <1>5, OwnedIsFound, Accepts
  <2>3. /\ a.signal.source = i /\ a.signal.role = source.role
        /\ a.signal.rule = m.rule /\ a.signal.start = m.start /\ a.signal.end = m.end
    BY <2>1, SignalFields
  <2>4. Found(a) = m
    BY <1>3, <1>5, <2>2, <2>3, FoundIs DEF source
  <2>5. ReadAs(a, i, m)
    BY <1>3, <2>1, <2>2, <2>4 DEF ReadAs, source
  <2> QED BY <1>3, <2>3, <2>5 DEF source
<1>8. CASE a.signal \in DatesOf(source, i)
  <2>1. PICK m \in ToSet(Owned(DateRules, source)) : a.signal = dateSignal(m, source, i)
    BY <1>8 DEF DatesOf
  <2>2. m \in source.found /\ IsMatch(m) /\ m.rule \in ToSet(DateRules) /\ IsDate(m)
    BY <1>3, <1>5, OwnedIsFound, Accepts
  <2>3. /\ a.signal.source = i /\ a.signal.role = source.role
        /\ a.signal.rule = m.rule /\ a.signal.start = m.start /\ a.signal.end = m.end
    BY <2>1, SignalFields
  <2>4. Found(a) = m
    BY <1>3, <1>5, <2>2, <2>3, FoundIs DEF source
  <2>5. ReadAs(a, i, m)
    BY <1>3, <2>1, <2>2, <2>4 DEF ReadAs, source
  <2> QED BY <1>3, <2>3, <2>5 DEF source
<1>9. CASE a.signal \in AsksOf(source, i)
  <2>1. PICK rule \in HitRules(source) : a.signal = askSignal(rule, source, i)
    BY <1>9 DEF AsksOf
  <2>2. a.signal.source = i /\ a.signal.role = source.role
    BY <1>3, <2>1, AskFields
  <2> QED BY <1>3, <1>9, <2>2 DEF source
<1> QED BY <1>4, <1>6, <1>7, <1>8, <1>9

\* The kinds tell the extractors apart.
LEMMA KindOf ==
  ASSUME ConversationInv, Stored, NEW a \in context.annotations
  PROVE  /\ a.signal.kind = "date" =>
              \E i, m : /\ ReadAs(a, i, m) /\ m.rule \in ToSet(DateRules) /\ IsDate(m)
                        /\ a.signal = dateSignal(m, context.sources[i], i)
                        /\ a.signal.source = i /\ a.signal.rule = m.rule
         /\ a.signal.kind = "money" =>
              \E i, m : ReadAs(a, i, m) /\ a.signal = moneySignal(m, context.sources[i], i)
         /\ a.signal.kind \in Identifiers =>
              \E i, m : /\ ReadAs(a, i, m) /\ m.rule \in ToSet(IdentifierRules)
                        /\ a.signal = identifierSignal(m, context.sources[i], i)
         /\ a.signal.kind \in Kind /\ a.signal.confidence \in Int
         /\ a.signal.source \in DOMAIN context.sources
<1>1. PICK i \in DOMAIN context.sources :
        /\ context.sources[i] \in Messages /\ a.signal.source = i
        /\ \/ a.signal \in AsksOf(context.sources[i], i)
           \/ \E m : ReadAs(a, i, m)
  BY Meaning
<1> DEFINE source == context.sources[i]
<1>2. CASE a.signal \in AsksOf(source, i)
  <2>1. PICK rule \in HitRules(source) : a.signal = askSignal(rule, source, i)
    BY <1>2 DEF AsksOf
  <2>2. a.signal.kind = "ask" /\ a.signal.confidence \in Int
    BY <1>1, <2>1, AskFields
  <2> QED BY <1>1, <2>2 DEF Identifiers, Kind
<1>3. CASE \E m : ReadAs(a, i, m)
  <2>1. PICK m : ReadAs(a, i, m)
    BY <1>3
  <2>2. /\ m \in source.found /\ IsMatch(m)
        /\ \/ m.rule \in ToSet(MoneyRules) /\ a.signal = moneySignal(m, source, i)
           \/ m.rule \in ToSet(IdentifierRules) /\ a.signal = identifierSignal(m, source, i)
           \/ m.rule \in ToSet(DateRules) /\ IsDate(m) /\ a.signal = dateSignal(m, source, i)
    BY <2>1 DEF ReadAs
  <2>3. CASE m.rule \in ToSet(MoneyRules) /\ a.signal = moneySignal(m, source, i)
    <3>1. a.signal.kind = "money" /\ a.signal.confidence = ConfidenceOf[m.rule]
      BY <2>3, SignalFields
    <3>2. ConfidenceOf[m.rule] \in Int
      BY <2>3, Rules DEF ConfidenceOf
    <3> QED BY <1>1, <2>1, <2>3, <3>1, <3>2 DEF Identifiers, Kind
  <2>4. CASE m.rule \in ToSet(IdentifierRules) /\ a.signal = identifierSignal(m, source, i)
    <3>1. a.signal.kind \in Identifiers /\ a.signal.confidence = ConfidenceOf[m.rule]
      BY <2>4, SignalFields
    <3>2. ConfidenceOf[m.rule] \in Int
      BY <2>4, Rules DEF ConfidenceOf
    <3> QED BY <1>1, <2>1, <2>4, <3>1, <3>2 DEF Identifiers, Kind
  <2>5. CASE m.rule \in ToSet(DateRules) /\ IsDate(m) /\ a.signal = dateSignal(m, source, i)
    <3>1. /\ a.signal.kind = "date" /\ a.signal.confidence = dateOf(m, source.at).confidence
          /\ a.signal.rule = m.rule
      BY <2>5, SignalFields
    <3>2. source.at \in Int
      BY <1>1, MessageFacts
    <3>3. dateOf(m, source.at).confidence \in Int
      BY <2>2, <2>5, <3>2, ReadsDates
    <3> QED BY <1>1, <2>1, <2>5, <3>1, <3>3 DEF Identifiers, Kind
  <2> QED BY <2>2, <2>3, <2>4, <2>5
<1> QED BY <1>1, <1>2, <1>3

\* "A date resolving into the future is the wrong reading": a year or a day that
\* was not written is read on the day of the message or before (temporal.ts).
THEOREM DatesAreNotAhead == Spec => []UnwrittenDatesArePast
<1>1. ConversationInv => UnwrittenDatesArePast
  <2> SUFFICES ASSUME ConversationInv, Stored, NEW a \in context.annotations,
                      a.signal.kind = "date",
                      ~a.signal.value.yearWritten \/ a.signal.rule \in RelativeRules,
                      a.signal.rule \in MonthNames => Found(a).value.day <= 31
               PROVE  a.signal.value.date <= context.sources[a.signal.source].at
    BY DEF UnwrittenDatesArePast
  <2>1. PICK i, m : /\ ReadAs(a, i, m) /\ m.rule \in ToSet(DateRules) /\ IsDate(m)
                    /\ a.signal = dateSignal(m, context.sources[i], i)
                    /\ a.signal.source = i /\ a.signal.rule = m.rule
    BY KindOf
  <2> DEFINE source == context.sources[i]
  <2>2. IsMatch(m) /\ Found(a) = m /\ source \in Messages
    BY <2>1 DEF ReadAs
  <2>3. source.at \in Int
    BY <2>2, MessageFacts
  <2> DEFINE r == dateOf(m, source.at)
  <2>4. a.signal.value.date = r.date /\ a.signal.value.yearWritten = r.yearWritten
    BY <2>1, SignalFields
  <2>5. ~r.yearWritten \/ m.rule \in RelativeRules
    BY <2>1, <2>4
  <2>6. m.rule \in MonthNames => m.value.day <= 31
    BY <2>1, <2>2
  <2>7. r.date <= source.at
    BY <2>1, <2>2, <2>3, <2>5, <2>6, ReadsPast
  <2> QED BY <2>1, <2>4, <2>7
<1> QED BY <1>1, Invariant, PTL

-----------------------------------------------------------------------------
(***************************************************************************)
(* What the records say of a span.                                         *)
(***************************************************************************)
LEMMA CandidateFields ==
  ASSUME NEW r
  PROVE  /\ CandidateOf(r).day = r.day
         /\ CandidateOf(r).reference = IF r.name # None THEN r.name ELSE r.id
BY DEF CandidateOf

\* The records that a date may mean, and the year they settle.
DateRows(v, corpus) == {r \in corpus : dateMatches(v, r)}

Settles(v, corpus) ==
  IF DateRows(v, corpus) = {} \/ v.yearWritten THEN None
  ELSE settledYear({YearOf(r.day) : r \in DateRows(v, corpus)})

LEMMA DateStored ==
  ASSUME ConversationInv, Stored, NEW a \in context.annotations, a.signal.kind = "date"
  PROVE  /\ a.candidates = {CandidateOf(r) : r \in DateRows(a.signal.value, context.corpus)}
         /\ a.shown = IF Settles(a.signal.value, context.corpus) # None
                        THEN [Day(a.signal.value.date) EXCEPT
                                !.year = Settles(a.signal.value, context.corpus)]
                      ELSE Day(a.signal.value.date)
         /\ a.signal.value.date \in Int /\ a.signal.value.yearWritten \in BOOLEAN
         /\ \A r \in context.corpus : r \in Records /\ r.day \in Int
         /\ IsFiniteSet(context.corpus)
<1> DEFINE s == a.signal
           v == a.signal.value
           corpus == context.corpus
           rows == DateRows(v, corpus)
           r == resolveSpan(s, corpus, <<>>)
<1>1. a = Annotation(s, corpus, <<>>)
  BY DEF ConversationInv, ContextInv, StoredFor, Identifiers
<1>2. r = resolveDate(v, corpus)
  BY DEF resolveSpan
<1>3. rows = {q \in corpus : dateMatches(v, q)}
  BY DEF DateRows
<1> HIDE DEF rows
<1>4. /\ r.candidates = {CandidateOf(q) : q \in rows}
      /\ r.resolvedYear = IF rows = {} \/ v.yearWritten THEN None
                          ELSE settledYear({YearOf(q.day) : q \in rows})
  <2>1. resolveDate(v, corpus) =
          IF rows = {} THEN NO_MATCH
          ELSE [candidates |-> {CandidateOf(q) : q \in rows}, matchedOn |-> "date",
                resolvedYear |-> IF v.yearWritten THEN None
                                 ELSE settledYear({YearOf(q.day) : q \in rows})]
    BY <1>3, Zenon DEF resolveDate
  <2> HIDE DEF r
  <2>2. CASE rows = {}
    BY <1>2, <2>1, <2>2 DEF NO_MATCH
  <2>3. CASE rows # {}
    BY <1>2, <2>1, <2>3
  <2> QED BY <2>2, <2>3
<1>5. r.resolvedYear = Settles(v, corpus)
  BY <1>4 DEF Settles, rows
<1>6. /\ a.candidates = r.candidates
      /\ a.shown = IF r.resolvedYear # None THEN [Day(v.date) EXCEPT !.year = r.resolvedYear]
                   ELSE Day(v.date)
  <2> HIDE DEF r
  <2>1. /\ Annotation(s, corpus, <<>>).candidates = r.candidates
        /\ Annotation(s, corpus, <<>>).shown =
             IF r.resolvedYear # None THEN [Day(v.date) EXCEPT !.year = r.resolvedYear]
             ELSE Day(v.date)
    BY DEF Annotation, r
  <2> QED BY <1>1, <2>1
<1>7. v.date \in Int /\ v.yearWritten \in BOOLEAN
  <2>1. PICK i, m : /\ ReadAs(a, i, m) /\ m.rule \in ToSet(DateRules) /\ IsDate(m)
                    /\ a.signal = dateSignal(m, context.sources[i], i)
    BY KindOf
  <2> DEFINE source == context.sources[i]
  <2>2. IsMatch(m) /\ source \in Messages
    BY <2>1 DEF ReadAs
  <2>3. source.at \in Int
    BY <2>2, MessageFacts
  <2> DEFINE d == dateOf(m, source.at)
  <2>4. v.date = d.date /\ v.yearWritten = d.yearWritten
    BY <2>1, SignalFields
  <2>5. d.date \in Int /\ d.yearWritten \in BOOLEAN
    BY <2>1, <2>2, <2>3, ReadsDates
  <2> QED BY <2>4, <2>5
<1>8. corpus \subseteq Records /\ IsFiniteSet(corpus)
  BY DEF ConversationInv, ContextInv
<1>9. \A q \in Records : q.day \in Int
  BY ConversationAssumption
<1> QED BY <1>4, <1>5, <1>6, <1>7, <1>8, <1>9 DEF rows

LEMMA DayFields ==
  ASSUME NEW n
  PROVE  /\ Day(n).year = YearOf(n) /\ Day(n).month = MonthOf(n) /\ Day(n).day = DayOf(n)
         /\ \A y : [Day(n) EXCEPT !.year = y] = [year |-> y, month |-> MonthOf(n), day |-> DayOf(n)]
BY DEF Day

LEMMA FiniteImage ==
  ASSUME NEW S, IsFiniteSet(S), NEW f, f = [x \in S |-> f[x]]
  PROVE  IsFiniteSet({f[x] : x \in S})
<1>1. f \in Surjection(S, {f[x] : x \in S})
  BY DEF Surjection
<1> QED BY <1>1, FS_Surjection

LEMMA SettledIs ==
  ASSUME NEW years, IsFiniteSet(years), years \subseteq Int
  PROVE  /\ settledYear(years) # None => years = {settledYear(years)}
         /\ settledYear(years) = None => \A y : years # {y}
<1>1. Cardinality(years) = 1 <=> \E y : years = {y}
  BY FS_Singleton
<1>2. CASE \E y : years = {y}
  <2>1. PICK y : years = {y}
    BY <1>2
  <2>2. settledYear(years) = y
    BY <1>1, <2>1 DEF settledYear
  <2>3. y # None
    BY <2>1, ConversationAssumption
  <2> QED BY <2>1, <2>2, <2>3
<1>3. CASE ~\E y : years = {y}
  BY <1>1, <1>3 DEF settledYear
<1> QED BY <1>2, <1>3

\* "The display has to follow": the date that is shown is the day of each record the
\* span is tied to, but for the year when they disagree on it (ingestion.ts).
THEOREM ShownDatesAgree == Spec => []ShownDatesFollowRecords
<1>1. ConversationInv => ShownDatesFollowRecords
  <2> SUFFICES ASSUME ConversationInv, Stored, NEW a \in context.annotations,
                      a.signal.kind = "date"
               PROVE  LET days == {Day(c.day) : c \in a.candidates}
                      IN /\ \A d \in days : d.month = a.shown.month /\ d.day = a.shown.day
                         /\ Cardinality(days) = 1 => a.shown \in days
                         /\ Cardinality(days) # 1 => a.shown = Day(a.signal.value.date)
    BY DEF ShownDatesFollowRecords
  <2> DEFINE v == a.signal.value
             n == v.date
             corpus == context.corpus
             rows == DateRows(v, corpus)
             days == {Day(c.day) : c \in a.candidates}
             years == {YearOf(r.day) : r \in rows}
             settled == Settles(v, corpus)
  <2>1. /\ a.candidates = {CandidateOf(r) : r \in rows}
        /\ a.shown = IF settled # None THEN [Day(n) EXCEPT !.year = settled] ELSE Day(n)
        /\ n \in Int /\ v.yearWritten \in BOOLEAN
        /\ \A r \in corpus : r.day \in Int
        /\ IsFiniteSet(corpus)
    BY DateStored
  <2>2. days = {Day(r.day) : r \in rows}
    <3> HIDE DEF rows
    <3> QED BY <2>1, CandidateFields
  <2>3. rows \subseteq corpus /\ IsFiniteSet(rows) /\ \A r \in rows : dateMatches(v, r)
    <3>1. rows \subseteq corpus /\ \A r \in rows : dateMatches(v, r)
      BY DEF DateRows
    <3> HIDE DEF rows
    <3> QED BY <2>1, <3>1, FS_Subset
  <2>4. settled = IF rows = {} \/ v.yearWritten THEN None ELSE settledYear(years)
    BY DEF Settles
  <2> HIDE DEF rows, settled, days, n
  <2>5. IsFiniteSet(years) /\ years \subseteq Int
    <3> DEFINE f == [r \in rows |-> YearOf(r.day)]
    <3>0. f = [r \in rows |-> f[r]] /\ years = {f[r] : r \in rows}
      OBVIOUS
    <3> HIDE DEF f, years
    <3>1. IsFiniteSet(years)
      BY <2>3, <3>0, FiniteImage
    <3>2. \A r \in rows : YearOf(r.day) \in Int
      BY <2>1, <2>3, YearHoldsDay
    <3> QED BY <3>1, <3>2 DEF years
  <2>6. IsFiniteSet(days)
    <3> DEFINE f == [r \in rows |-> Day(r.day)]
    <3>0. f = [r \in rows |-> f[r]] /\ days = {f[r] : r \in rows}
      BY <2>2
    <3> HIDE DEF f
    <3> QED BY <2>3, <3>0, FiniteImage
  <2>7. Cardinality(days) = 1 <=> \E d : days = {d}
    BY <2>6, FS_Singleton
  <2> HIDE DEF years
  <2>8. \A r \in rows : MonthOf(r.day) = MonthOf(n) /\ DayOf(r.day) = DayOf(n)
                          /\ (v.yearWritten => r.day = n)
    BY <2>1, <2>3 DEF dateMatches, sameMonthAndDay, n
  <2>9. a.shown.month = MonthOf(n) /\ a.shown.day = DayOf(n)
    BY <2>1, DayFields
  <2>10. \A d \in days : d.month = a.shown.month /\ d.day = a.shown.day
    <3> SUFFICES ASSUME NEW r \in rows
                 PROVE  Day(r.day).month = a.shown.month /\ Day(r.day).day = a.shown.day
      BY <2>2
    <3> QED BY <2>8, <2>9, DayFields
  <2>11. CASE settled = None
    <3>1. a.shown = Day(n)
      BY <2>1, <2>11
    <3>2. ASSUME NEW d, days = {d} PROVE a.shown \in days
      <4>1. PICK r \in rows : d = Day(r.day)
        BY <2>2, <3>2
      <4>2. CASE v.yearWritten
        BY <2>8, <3>1, <3>2, <4>1, <4>2
      <4>3. CASE ~v.yearWritten
        <5>1. \A q \in rows : YearOf(q.day) = d.year
          BY <2>2, <3>2, DayFields
        <5>2. years = {d.year}
          BY <4>1, <5>1 DEF years
        <5>3. settled = settledYear(years)
          BY <2>4, <4>1, <4>3
        <5> QED BY <2>5, <2>11, <5>2, <5>3, SettledIs
      <4> QED BY <4>2, <4>3
    <3> QED BY <2>7, <2>10, <3>1, <3>2 DEF days, n
  <2>12. CASE settled # None
    <3>1. rows # {} /\ settled = settledYear(years)
      BY <2>4, <2>12
    <3>2. years = {settled}
      BY <2>5, <2>12, <3>1, SettledIs
    <3>3. a.shown = [year |-> settled, month |-> MonthOf(n), day |-> DayOf(n)]
      BY <2>1, <2>12, DayFields
    <3>4. \A r \in rows : Day(r.day) = a.shown
      <4>1. \A r \in rows : YearOf(r.day) = settled
        BY <3>2 DEF years
      <4> QED BY <2>8, <3>3, <4>1 DEF Day
    <3>5. days = {a.shown}
      BY <2>2, <3>1, <3>4
    <3> QED BY <2>7, <2>10, <3>5 DEF days
  <2> QED BY <2>11, <2>12 DEF days, n
<1> QED BY <1>1, Invariant, PTL

-----------------------------------------------------------------------------
(***************************************************************************)
(* No reading is lost, none is made up.                                    *)
(***************************************************************************)
LEMMA WrittenIs ==
  ASSUME NEW a, NEW m, Found(a) = m, Written(a) # None
  PROVE  /\ m.rule \in DayRules /\ Written(a) = Words(m)
         /\ Words(m).month \in 1..12 /\ DayOf(a.signal.value.date) = Words(m).day
<1> DEFINE w == IF m.rule \in {"numeric_slash", "bare_numeric"} THEN monthFirst(m.value)
                ELSE IF m.rule \in {"iso_date"} \cup MonthNames
                  THEN [month |-> m.value.month, day |-> m.value.day]
                ELSE None
<1>1. Written(a) = IF w # None /\ w.month \in 1..12 /\ DayOf(a.signal.value.date) = w.day
                     THEN w ELSE None
  BY Zenon DEF Written
<1>2. m.rule \in DayRules => w = Words(m)
  BY DEF DayRules, Words
<1>3. m.rule \notin DayRules => w = None
  BY DEF DayRules
<1> HIDE DEF w
<1> QED BY <1>1, <1>2, <1>3

LEMMA MayMeanIs ==
  ASSUME NEW a, NEW r
  PROVE  /\ a.signal.kind = "date" =>
              (MayMean(a, r) <=>
                 /\ Written(a) # None /\ MonthOf(r.day) = Written(a).month
                 /\ DayOf(r.day) = Written(a).day
                 /\ WrittenYear(Found(a)) \in {None, YearOf(r.day)})
         /\ a.signal.kind = "money" => (MayMean(a, r) <=> r.amount = amountCents(Found(a).value))
         /\ a.signal.kind \notin {"date", "money"} => ~MayMean(a, r)
BY DEF MayMean

\* What a date may mean is what is looked for.
LEMMA DateMeans ==
  ASSUME ConversationInv, Stored, NEW a \in context.annotations, a.signal.kind = "date",
         Written(a) # None, NEW r \in context.corpus
  PROVE  MayMean(a, r) <=> dateMatches(a.signal.value, r)
<1> DEFINE v == a.signal.value
           n == v.date
<1>1. PICK i, m : /\ ReadAs(a, i, m) /\ m.rule \in ToSet(DateRules) /\ IsDate(m)
                  /\ a.signal = dateSignal(m, context.sources[i], i)
  BY KindOf
<1> DEFINE source == context.sources[i]
           d == dateOf(m, source.at)
           w == Words(m)
<1>2. IsMatch(m) /\ source \in Messages /\ Found(a) = m
  BY <1>1 DEF ReadAs
<1>3. source.at \in Int
  BY <1>2, MessageFacts
<1>4. n = d.date /\ v.yearWritten = d.yearWritten
  BY <1>1, SignalFields
<1>5. m.rule \in DayRules /\ Written(a) = w /\ w.month \in 1..12 /\ DayOf(n) = w.day
  BY <1>2, WrittenIs
<1>6. PICK y \in Int :
        /\ d.date = UTC(y, w.month, w.day)
        /\ \/ d.yearWritten = TRUE /\ WrittenYear(m) = y
           \/ d.yearWritten = FALSE /\ WrittenYear(m) = None
  BY <1>1, <1>2, <1>3, <1>5, ReadsWords, ZenonT(60)
<1>7. w.day \in Int
  BY <1>2, <1>5, WordsAreNumbers
<1>8. n \in Int /\ r.day \in Int
  BY DateStored
<1> HIDE DEF w, d
<1>9. YearOf(n) = y /\ MonthOf(n) = w.month
  <2>1. n = UTC(y, w.month, w.day) /\ DayOf(n) = w.day
    BY <1>4, <1>5, <1>6
  <2> HIDE DEF n
  <2> QED BY <1>5, <1>6, <1>7, <2>1, SameDay
<1>10. MayMean(a, r) <=> /\ MonthOf(r.day) = MonthOf(n) /\ DayOf(r.day) = DayOf(n)
                         /\ WrittenYear(m) \in {None, YearOf(r.day)}
  <2>1. MayMean(a, r) <=>
          /\ Written(a) # None /\ MonthOf(r.day) = Written(a).month
          /\ DayOf(r.day) = Written(a).day
          /\ WrittenYear(Found(a)) \in {None, YearOf(r.day)}
    BY MayMeanIs
  <2> QED BY <1>2, <1>5, <1>9, <2>1
<1> HIDE DEF n
<1>11. CASE d.yearWritten = TRUE /\ WrittenYear(m) = y
  <2>1. y # None
    BY <1>6, ConversationAssumption
  <2>2. MayMean(a, r) <=> /\ MonthOf(r.day) = MonthOf(n) /\ DayOf(r.day) = DayOf(n)
                          /\ YearOf(r.day) = YearOf(n)
    BY <1>9, <1>10, <1>11, <2>1
  <2>3. r.day = UTC(YearOf(r.day), MonthOf(r.day), DayOf(r.day))
        /\ n = UTC(YearOf(n), MonthOf(n), DayOf(n))
    BY <1>8, DayIsUTC
  <2>4. dateMatches(v, r) <=> r.day = n
    BY <1>4, <1>11 DEF dateMatches, n
  <2> QED BY <2>2, <2>3, <2>4
<1>12. CASE d.yearWritten = FALSE /\ WrittenYear(m) = None
  <2>1. dateMatches(v, r) <=> sameMonthAndDay(r.day, n)
    BY <1>4, <1>12 DEF dateMatches, n
  <2> QED BY <1>10, <1>12, <2>1 DEF sameMonthAndDay
<1> QED BY <1>6, <1>11, <1>12

LEMMA MoneyStored ==
  ASSUME ConversationInv, Stored, NEW a \in context.annotations, a.signal.kind = "money"
  PROVE  a.candidates = {CandidateOf(r) : r \in {q \in context.corpus : MayMean(a, q)}}
<1> DEFINE s == a.signal
           corpus == context.corpus
           rows == {r \in corpus : r.amount = s.value.amountCents}
<1>1. a = Annotation(s, corpus, <<>>)
  BY DEF ConversationInv, ContextInv, StoredFor, Identifiers
<1>2. resolveSpan(s, corpus, <<>>) = resolveMoney(s.value, corpus)
  BY DEF resolveSpan
<1>3. resolveMoney(s.value, corpus) =
        IF rows = {} THEN NO_MATCH
        ELSE [NO_MATCH EXCEPT !.candidates = {CandidateOf(r) : r \in rows}, !.matchedOn = "amount"]
  BY Zenon DEF resolveMoney
<1>4. PICK i, m : ReadAs(a, i, m) /\ a.signal = moneySignal(m, context.sources[i], i)
  BY KindOf
<1>5. Found(a) = m /\ s.value.amountCents = amountCents(m.value)
  BY <1>4, SignalFields DEF ReadAs
<1>6. rows = {q \in corpus : MayMean(a, q)}
  BY <1>5, MayMeanIs
<1> HIDE DEF rows
<1>7. resolveMoney(s.value, corpus).candidates = {CandidateOf(r) : r \in rows}
  BY <1>3 DEF NO_MATCH
<1>8. Annotation(s, corpus, <<>>).candidates = resolveSpan(s, corpus, <<>>).candidates
  BY DEF Annotation
<1> QED BY <1>1, <1>2, <1>6, <1>7, <1>8

LEMMA IdentifierStored ==
  ASSUME ConversationInv, Stored, NEW a \in context.annotations, a.signal.kind \in Identifiers,
         NEW c \in a.candidates
  PROVE  LookedUp(a.signal.value, c)
<1> DEFINE s == a.signal
           corpus == context.corpus
           rows == {r \in corpus : r.id = s.value \/ r.name = s.value}
           found == {CandidateOf(r) : r \in rows}
<1>1. StoredFor(a, corpus) /\ corpus \subseteq Records
  BY DEF ConversationInv, ContextInv
<1>2. CASE a = Annotation(s, corpus, <<>>)
  <2>1. resolveSpan(s, corpus, <<>>) = resolveIdentifier(s.value, corpus, <<>>)
    BY DEF resolveSpan, Identifiers
  <2>2. resolveIdentifier(s.value, corpus, <<>>) =
          IF found = {} THEN NO_MATCH
          ELSE [NO_MATCH EXCEPT !.candidates = found, !.matchedOn = "identifier"]
    <3>1. s.value \notin DOMAIN <<>>
      OBVIOUS
    <3> QED BY <3>1, Zenon DEF resolveIdentifier
  <2> HIDE DEF found
  <2>3. resolveIdentifier(s.value, corpus, <<>>).candidates \subseteq found
    <3> DEFINE e == resolveIdentifier(s.value, corpus, <<>>)
    <3>1. e = IF found = {} THEN NO_MATCH
              ELSE [NO_MATCH EXCEPT !.candidates = found, !.matchedOn = "identifier"]
      BY <2>2
    <3> HIDE DEF e
    <3>2. e.candidates \subseteq found
      BY <3>1 DEF NO_MATCH
    <3> QED BY <3>2 DEF e
  <2>4. Annotation(s, corpus, <<>>).candidates = resolveSpan(s, corpus, <<>>).candidates
    BY DEF Annotation
  <2>5. c \in found
    BY <1>2, <2>1, <2>3, <2>4
  <2>6. PICK r \in rows : c = CandidateOf(r)
    BY <2>5 DEF found
  <2>7. r \in Records /\ (r.id = s.value \/ r.name = s.value)
    BY <1>1
  <2>8. s.value # None
    <3>1. PICK i, m : /\ ReadAs(a, i, m) /\ m.rule \in ToSet(IdentifierRules)
                      /\ a.signal = identifierSignal(m, context.sources[i], i)
      BY KindOf
    <3>2. IsMatch(m) /\ s.value = m.value
      BY <3>1, SignalFields DEF ReadAs
    <3> QED BY <3>1, <3>2 DEF IsMatch
  <2>9. c.reference = IF r.name # None THEN r.name ELSE r.id
    BY <2>6, CandidateFields
  <2> QED BY <2>6, <2>7, <2>8, <2>9 DEF LookedUp
<1>3. CASE \A e \in a.candidates : LookedUp(s.value, e)
  BY <1>3
<1> QED BY <1>1, <1>2, <1>3 DEF StoredFor

\* "A span that matches several records returns all of them", and no others
\* (resolveSpan of corpus.ts).
THEOREM NoReadingIsLost == Spec => []ReadingsAreKept
<1>1. ConversationInv => ReadingsAreKept
  <2> SUFFICES ASSUME ConversationInv, Stored, NEW a \in context.annotations
               PROVE
      /\ \A r \in context.seen \cap context.corpus : MayMean(a, r) => CandidateOf(r) \in a.candidates
      /\ a.signal.kind = "money" \/ (a.signal.kind = "date" /\ Written(a) # None) =>
           \A c \in a.candidates : \E r \in context.corpus : MayMean(a, r) /\ CandidateOf(r) = c
      /\ a.signal.kind \in {"order_reference", "payment_reference"} =>
           \A c \in a.candidates :
             \/ c.reference = a.signal.value
             \/ \E r \in Records : r.id = a.signal.value /\ CandidateOf(r).reference = c.reference
    BY DEF ReadingsAreKept
  <2>1. CASE a.signal.kind = "date" /\ Written(a) # None
    <3>1. a.candidates = {CandidateOf(r) : r \in DateRows(a.signal.value, context.corpus)}
      BY <2>1, DateStored
    <3>2. DateRows(a.signal.value, context.corpus) = {r \in context.corpus : MayMean(a, r)}
      BY <2>1, DateMeans DEF DateRows
    <3> QED BY <2>1, <3>1, <3>2
  <2>2. CASE a.signal.kind = "money"
    BY <2>2, MoneyStored
  <2>3. CASE a.signal.kind \in Identifiers
    <3>1. \A r : ~MayMean(a, r)
      BY <2>3, MayMeanIs DEF Identifiers
    <3>2. a.signal.kind # "money" /\ a.signal.kind # "date"
      BY <2>3 DEF Identifiers
    <3> QED BY <2>3, <3>1, <3>2, IdentifierStored DEF LookedUp
  <2>4. CASE /\ ~(a.signal.kind = "date" /\ Written(a) # None)
             /\ a.signal.kind # "money" /\ a.signal.kind \notin Identifiers
    <3>1. \A r : ~MayMean(a, r)
      BY <2>4, MayMeanIs
    <3> QED BY <2>4, <3>1 DEF Identifiers
  <2> QED BY <2>1, <2>2, <2>3, <2>4
<1> QED BY <1>1, Invariant, PTL

-----------------------------------------------------------------------------
(***************************************************************************)
(* Which matches are stored: those that an extractor owns.                 *)
(***************************************************************************)
LEMMA ExtractorIs ==
  ASSUME NEW rules \in Extractors, NEW m, m.rule \in ToSet(rules)
  PROVE  ExtractorOf(m) = rules
<1>1. \A other \in Extractors : m.rule \in ToSet(other) => other = rules
  BY RulesApart
<1>2. ExtractorOf(m) = CHOOSE other \in Extractors : m.rule \in ToSet(other)
  BY Zenon DEF ExtractorOf, Extractors
<1> QED BY <1>1, <1>2

LEMMA SpokenHasExtractor ==
  ASSUME NEW m, IsMatch(m), m.rule \notin ToSet(AskRules)
  PROVE  ExtractorOf(m) \in Extractors /\ m.rule \in ToSet(ExtractorOf(m))
<1>1. m.rule \in UNION {ToSet(MoneyRules), ToSet(IdentifierRules), ToSet(DateRules), ToSet(AskRules)}
  BY DEF IsMatch
<1>2. PICK rules \in Extractors : m.rule \in ToSet(rules)
  BY <1>1 DEF Extractors
<1> QED BY <1>2, ExtractorIs

\* A signal of message i stands for the match m.
StoredAs(m, i) ==
  \E a \in context.annotations :
    a.signal.source = i /\ a.signal.rule = m.rule /\ a.signal.start = m.start

LEMMA OwnedIsStored ==
  ASSUME ConversationInv, Stored, NEW i \in DOMAIN context.sources, NEW rules \in Extractors,
         NEW m \in ToSet(Owned(rules, context.sources[i]))
  PROVE  StoredAs(m, i)
<1> DEFINE source == context.sources[i]
<1>1. /\ context.sources \in Seq(Messages)
      /\ {a.signal : a \in context.annotations} = ToSet(signalsOf(context.sources))
  BY DEF ConversationInv, ContextInv
<1>2. source \in Messages
  BY <1>1
<1>3. PICK s \in MoneyOf(source, i) \cup IdentifiersOf(source, i) \cup DatesOf(source, i) :
        s.source = i /\ s.rule = m.rule /\ s.start = m.start
  <2>1. CASE rules = MoneyRules
    <3>1. moneySignal(m, source, i) \in MoneyOf(source, i)
      BY <2>1 DEF MoneyOf
    <3> QED BY <3>1, SignalFields
  <2>2. CASE rules = IdentifierRules
    <3>1. identifierSignal(m, source, i) \in IdentifiersOf(source, i)
      BY <2>2 DEF IdentifiersOf
    <3> QED BY <3>1, SignalFields
  <2>3. CASE rules = DateRules
    <3>1. dateSignal(m, source, i) \in DatesOf(source, i)
      BY <2>3 DEF DatesOf
    <3> QED BY <3>1, SignalFields
  <2> QED BY <2>1, <2>2, <2>3 DEF Extractors
<1>4. s \in ToSet(extractFromSource(source, i))
  BY <1>2, <1>3, SourceSignals
<1>5. s \in ToSet(signalsOf(context.sources))
  BY <1>1, <1>4, Signals
<1>6. PICK a \in context.annotations : a.signal = s
  BY <1>1, <1>5
<1> QED BY <1>3, <1>6 DEF StoredAs

LEMMA StoredIsOwned ==
  ASSUME ConversationInv, Stored, NEW i \in DOMAIN context.sources,
         NEW m \in context.sources[i].found, m.rule \notin ToSet(AskRules), StoredAs(m, i)
  PROVE  m \in ToSet(Owned(ExtractorOf(m), context.sources[i]))
<1> DEFINE source == context.sources[i]
<1>1. PICK a \in context.annotations :
        a.signal.source = i /\ a.signal.rule = m.rule /\ a.signal.start = m.start
  BY DEF StoredAs
<1>2. /\ source \in Messages
      /\ \/ a.signal \in AsksOf(source, i)
         \/ \E n : ReadAs(a, i, n)
  BY <1>1, Meaning
<1>3. a.signal \notin AsksOf(source, i)
  <2>1. \A rule \in HitRules(source) : askSignal(rule, source, i).rule \in ToSet(AskRules)
    BY <1>2, AskFields
  <2> QED BY <1>1, <2>1 DEF AsksOf
<1>4. PICK n : ReadAs(a, i, n)
  BY <1>2, <1>3
<1>5. /\ n \in source.found
      /\ \/ /\ n \in ToSet(Owned(MoneyRules, source)) /\ n.rule \in ToSet(MoneyRules)
            /\ a.signal = moneySignal(n, source, i)
         \/ /\ n \in ToSet(Owned(IdentifierRules, source)) /\ n.rule \in ToSet(IdentifierRules)
            /\ a.signal = identifierSignal(n, source, i)
         \/ /\ n \in ToSet(Owned(DateRules, source)) /\ n.rule \in ToSet(DateRules)
            /\ a.signal = dateSignal(n, source, i)
  BY <1>4 DEF ReadAs
<1>6. a.signal.rule = n.rule /\ a.signal.start = n.start
  BY <1>5, SignalFields
<1>7. n = m
  BY <1>1, <1>2, <1>5, <1>6, MessageFacts
<1>8. PICK rules \in Extractors : m \in ToSet(Owned(rules, source)) /\ m.rule \in ToSet(rules)
  BY <1>5, <1>7 DEF Extractors
<1>9. ExtractorOf(m) = rules
  BY <1>8, ExtractorIs
<1> QED BY <1>8, <1>9

\* "Every character belongs to one reading of a kind", and what is left out yields to a
\* rule that is at least as specific (the claimed spans of the extractors).
THEOREM SpecificRulesFirst == Spec => []SpecificRulesWin
<1>1. ConversationInv => SpecificRulesWin
  <2> SUFFICES ASSUME ConversationInv, Stored, NEW i \in DOMAIN context.sources
               PROVE
      LET Spans == {a.signal : a \in {b \in context.annotations : b.signal.source = i}}
          Kept(m) == \E s \in Spans : s.rule = m.rule /\ s.start = m.start
          Spoken == {m \in context.sources[i].found : m.rule \notin ToSet(AskRules)}
      IN \A m \in Spoken :
           IF Kept(m)
             THEN \A n \in Spoken :
                    Kept(n) /\ n # m /\ ExtractorOf(n) = ExtractorOf(m) => ~overlaps(m, n)
             ELSE \/ ~Accepted(m)
                  \/ \E n \in Spoken :
                       /\ Kept(n) /\ ExtractorOf(n) = ExtractorOf(m) /\ overlaps(m, n)
                       /\ RuleRank(ExtractorOf(m), n) <= RuleRank(ExtractorOf(m), m)
    BY DEF SpecificRulesWin
  <2> DEFINE source == context.sources[i]
             Spans == {a.signal : a \in {b \in context.annotations : b.signal.source = i}}
             Kept(m) == \E s \in Spans : s.rule = m.rule /\ s.start = m.start
             Spoken == {m \in source.found : m.rule \notin ToSet(AskRules)}
  <2>1. source \in Messages
    BY DEF ConversationInv, ContextInv
  <2>2. \A m : Kept(m) <=> StoredAs(m, i)
    BY DEF StoredAs
  <2>3. \A m \in Spoken : /\ m \in source.found /\ m.rule \notin ToSet(AskRules)
                          /\ IsMatch(m) /\ m.start \in Nat /\ m.end \in Nat
                          /\ ExtractorOf(m) \in Extractors /\ m.rule \in ToSet(ExtractorOf(m))
    BY <2>1, MessageFacts, SpokenHasExtractor
  <2> HIDE DEF Kept
  <2>4. ASSUME NEW m \in Spoken, Kept(m), NEW n \in Spoken, Kept(n), n # m,
               ExtractorOf(n) = ExtractorOf(m)
        PROVE  ~overlaps(m, n)
    <3> DEFINE c == Owned(ExtractorOf(m), source)
    <3>1. StoredAs(m, i) /\ StoredAs(n, i)
      BY <2>2, <2>4
    <3>2. m \in ToSet(c) /\ n \in ToSet(c)
      BY <2>3, <2>4, <3>1, StoredIsOwned
    <3>3. \A j, k \in DOMAIN c : c[j] # c[k] => ~overlaps(c[j], c[k])
      BY <2>1, <2>3, Owns
    <3> HIDE DEF c
    <3>4. PICK j \in DOMAIN c : c[j] = m
      BY <3>2 DEF ToSet
    <3>5. PICK k \in DOMAIN c : c[k] = n
      BY <3>2 DEF ToSet
    <3> QED BY <2>4, <3>3, <3>4, <3>5
  <2>5. ASSUME NEW m \in Spoken, ~Kept(m), Accepted(m)
        PROVE  \E n \in Spoken :
                 /\ Kept(n) /\ ExtractorOf(n) = ExtractorOf(m) /\ overlaps(m, n)
                 /\ RuleRank(ExtractorOf(m), n) <= RuleRank(ExtractorOf(m), m)
    <3> DEFINE rules == ExtractorOf(m)
               c == Owned(rules, source)
    <3>1. m \in source.found /\ rules \in Extractors /\ m.rule \in ToSet(rules)
      BY <2>3
    <3> HIDE DEF rules
    <3>2. /\ c \in Seq(source.found) /\ \A j \in DOMAIN c : c[j].rule \in ToSet(rules)
          /\ \E j \in DOMAIN c :
               c[j] = m \/ (overlaps(c[j], m) /\ RuleRank(rules, c[j]) <= RuleRank(rules, m))
      BY <2>1, <2>5, <3>1, Owns
    <3>3. \A j \in DOMAIN c : c[j] \in ToSet(c)
      BY DEF ToSet
    <3>4. \A n \in ToSet(c) : Kept(n)
      BY <2>2, <3>1, OwnedIsStored
    <3> HIDE DEF c
    <3>5. PICK j \in DOMAIN c :
            c[j] = m \/ (overlaps(c[j], m) /\ RuleRank(rules, c[j]) <= RuleRank(rules, m))
      BY <3>2
    <3>6. c[j] \in source.found /\ c[j].rule \in ToSet(rules) /\ Kept(c[j])
      BY <3>2, <3>3, <3>4
    <3>7. overlaps(c[j], m) /\ RuleRank(rules, c[j]) <= RuleRank(rules, m)
      BY <2>5, <3>5, <3>6
    <3>8. c[j] \in Spoken /\ ExtractorOf(c[j]) = rules
      BY <3>1, <3>6, RulesApart, ExtractorIs
    <3>9. overlaps(m, c[j])
      <4>1. /\ m.start \in Nat /\ m.end \in Nat
            /\ c[j].start \in Nat /\ c[j].end \in Nat
        BY <2>3, <3>8
      <4> QED BY <3>7, <4>1 DEF overlaps
    <3> QED BY <3>6, <3>7, <3>8, <3>9 DEF rules
  <2> QED BY <2>4, <2>5 DEF Kept
<1> QED BY <1>1, Invariant, PTL

-----------------------------------------------------------------------------
(***************************************************************************)
(* Which signal leads: a fold over the signals of a kind.                  *)
(***************************************************************************)
\* t is the most salient of first and the first k of s.
Strongest(first, s, k, n, t) ==
  /\ t = first \/ \E j \in 1..k : t = s[j]
  /\ salience(t, n) >= salience(first, n)
  /\ \A j \in 1..k : salience(t, n) >= salience(s[j], n)

StrongestOf(first, s, n) == FoldLeft(LAMBDA x, y : stronger(x, y, n), first, s)

LEMMA StrongestFold ==
  ASSUME NEW n, NEW T, \A x \in T : salience(x, n) \in Int, NEW first \in T, NEW s \in Seq(T)
  PROVE  Strongest(first, s, Len(s), n, StrongestOf(first, s, n))
<1> DEFINE N == Len(s)
           Step(iter, t) == IF t = {} THEN first
                            ELSE stronger(iter[t \ {Max(t)}], s[Max(t)], n)
           op == [x \in T \X (1..N) |-> stronger(x[1], s[x[2]], n)]
           g == CHOOSE iter : iter = [t \in SUBSET DOMAIN s |-> Step(iter, t)]
<1>1. N \in Nat /\ DOMAIN s = 1..N /\ \A i \in 1..N : s[i] \in T
  OBVIOUS
<1>2. op \in [T \X (1..N) -> T]
  <2>1. ASSUME NEW x \in T \X (1..N) PROVE stronger(x[1], s[x[2]], n) \in T
    BY <1>1 DEF stronger
  <2> QED BY <2>1
<1>3. PICK f : IsFold(f, N, T, first, op)
  <2> HIDE DEF op, N
  <2> QED BY <1>1, <1>2, FoldExists, Zenon
<1>4. f = [t \in SUBSET DOMAIN s |-> Step(f, t)]
  <2>1. ASSUME NEW t \in SUBSET (1..N) PROVE f[t] = Step(f, t)
    <3>1. CASE t = {}
      BY <1>3, <3>1 DEF IsFold
    <3>2. CASE t # {}
      <4>1. Max(t) \in 1..N /\ t \ {Max(t)} \in SUBSET (1..N)
        BY <1>1, <3>2, MaxIn
      <4>2. f[t \ {Max(t)}] \in T
        BY <1>3, <4>1 DEF IsFold
      <4>3. op[<<f[t \ {Max(t)}], Max(t)>>] = stronger(f[t \ {Max(t)}], s[Max(t)], n)
        BY <4>1, <4>2
      <4> HIDE DEF op
      <4> QED BY <1>3, <3>2, <4>3 DEF IsFold
    <3> QED BY <3>1, <3>2
  <2> HIDE DEF Step
  <2> QED BY <1>1, <1>3, <2>1 DEF IsFold
<1>5. g = [t \in SUBSET DOMAIN s |-> Step(g, t)]
  <2> HIDE DEF Step
  <2> QED BY <1>4
<1>6. StrongestOf(first, s, n) = g[DOMAIN s]
  BY Zenon DEF StrongestOf, FoldLeft, MapThenFoldSet
<1>7. \A t \in SUBSET (1..N) : g[t] = Step(g, t)
  <2> HIDE DEF Step, g
  <2> QED BY <1>1, <1>5
<1> HIDE DEF g
<1> DEFINE S == {k \in 0..N : Strongest(first, s, k, n, g[1..k])}
<1>8. 0 \in S
  <2>1. 1..0 = {} /\ {} \in SUBSET (1..N)
    OBVIOUS
  <2>2. g[1..0] = first
    BY <1>7, <2>1
  <2>3. Strongest(first, s, 0, n, first)
    <3>1. salience(first, n) \in Int
      OBVIOUS
    <3> QED BY <2>1, <3>1 DEF Strongest
  <2> QED BY <1>1, <2>2, <2>3
<1>9. ASSUME NEW k \in 0..N-1, k \in S PROVE k + 1 \in S
  <2>1. /\ Max(1..k+1) = k+1 /\ (1..k+1) \ {k+1} = 1..k /\ 1..k+1 # {}
        /\ 1..k+1 \in SUBSET (1..N)
    <3>1. k + 1 \in Nat /\ k + 1 # 0 /\ (k + 1) - 1 = k
      OBVIOUS
    <3>2. Max(1..k+1) = k+1
      BY <3>1, MaxOfPrefix
    <3>3. (1..k+1) \ {k+1} = 1..k
      <4> HIDE DEF N
      <4>1. k \in Nat
        BY <1>1
      <4> QED BY <4>1
    <3>5. k + 1 \in 1..k+1
      BY <3>1
    <3>4. 1..k+1 \subseteq 1..N
      BY <1>1
    <3> QED BY <3>2, <3>3, <3>4, <3>5
  <2>2. g[1..k+1] = stronger(g[1..k], s[k+1], n)
    BY <1>7, <2>1
  <2>3. Strongest(first, s, k, n, g[1..k]) /\ s[k+1] \in T /\ k \in Nat /\ \A j \in 1..k : s[j] \in T
    BY <1>1, <1>9
  <2> DEFINE t == g[1..k]
             u == g[1..k+1]
  <2> HIDE DEF t, u
  <2>4. /\ t = first \/ \E j \in 1..k : t = s[j]
        /\ salience(t, n) >= salience(first, n)
        /\ \A j \in 1..k : salience(t, n) >= salience(s[j], n)
        /\ u = stronger(t, s[k+1], n)
    BY <2>2, <2>3 DEF Strongest, t, u
  <2>5. t \in T
    BY <2>3, <2>4
  <2>6. /\ salience(t, n) \in Int /\ salience(s[k+1], n) \in Int /\ salience(first, n) \in Int
        /\ \A j \in 1..k : salience(s[j], n) \in Int
    BY <2>3, <2>5
  <2>7. \A j \in 1..k+1 : j \in 1..k \/ j = k+1
    BY <2>3
  <2>8. CASE salience(t, n) >= salience(s[k+1], n)
    <3>1. u = t
      BY <2>4, <2>8 DEF stronger
    <3>2. \A j \in 1..k+1 : salience(u, n) >= salience(s[j], n)
      BY <2>4, <2>7, <2>8, <3>1
    <3>3. u = first \/ \E j \in 1..k+1 : u = s[j]
      BY <2>3, <2>4, <3>1
    <3> QED BY <2>4, <3>1, <3>2, <3>3 DEF Strongest, u
  <2>9. CASE ~(salience(t, n) >= salience(s[k+1], n))
    <3>1. u = s[k+1] /\ k+1 \in 1..k+1
      BY <2>3, <2>4, <2>9 DEF stronger
    <3>2. \A j \in 1..k+1 : salience(u, n) >= salience(s[j], n)
      BY <2>4, <2>6, <2>7, <2>9, <3>1
    <3>3. salience(u, n) >= salience(first, n)
      BY <2>4, <2>6, <2>9, <3>1
    <3> QED BY <3>1, <3>2, <3>3 DEF Strongest, u
  <2> QED BY <2>8, <2>9
<1>10. N \in S
  <2> HIDE DEF S, N
  <2>1. \A k \in 0..N-1 : k \in S => k + 1 \in S
    BY <1>9
  <2>2. \A k \in 0..N : k \in S
    BY <1>1, <1>8, <2>1, InductionTo
  <2> QED BY <1>1, <2>2
<1> QED BY <1>1, <1>6, <1>10

\* What leads a kind is a signal of the kind, and none of them is more salient.
LEMMA BestIs ==
  ASSUME NEW n, NEW T, \A x \in T : salience(x, n) \in Int, NEW signals \in Seq(T),
         NEW kind, best(kind, signals, n) # None
  PROVE  /\ best(kind, signals, n) \in ToSet(signals)
         /\ best(kind, signals, n).kind = kind
         /\ \A x \in ToSet(signals) : x.kind = kind =>
              salience(best(kind, signals, n), n) >= salience(x, n)
<1> DEFINE kept == {i \in DOMAIN signals : signals[i].kind = kind}
           c == keepAt(signals, kept)
           t == StrongestOf(Head(c), Tail(c), n)
<1>1. best(kind, signals, n) = IF c = <<>> THEN None ELSE t
  BY Zenon DEF best, filter, StrongestOf
<1>2. kept \in SUBSET DOMAIN signals /\ \A i \in DOMAIN signals : i \in kept <=> signals[i].kind = kind
  OBVIOUS
<1> HIDE DEF kept
<1>3. c \in Seq(T) /\ \E p : Selects(c, signals, kept, p)
  BY <1>2, KeepAt
<1> HIDE DEF c
<1>4. PICK p : Selects(c, signals, kept, p)
  BY <1>3
<1>5. c # <<>> /\ best(kind, signals, n) = t
  BY <1>1
<1>6. /\ Len(c) \in Nat \ {0} /\ DOMAIN c = 1..Len(c) /\ Head(c) = c[1] /\ Head(c) \in T
      /\ Tail(c) \in Seq(T) /\ Len(Tail(c)) = Len(c) - 1
      /\ \A j \in 1..Len(c)-1 : Tail(c)[j] = c[j + 1]
  BY <1>3, <1>5
<1>7. Strongest(Head(c), Tail(c), Len(Tail(c)), n, t)
  BY <1>6, StrongestFold
<1> HIDE DEF t
<1>8. \E j \in DOMAIN c : t = c[j]
  <2>1. t = Head(c) \/ \E j \in 1..Len(c)-1 : t = Tail(c)[j]
    BY <1>6, <1>7 DEF Strongest
  <2>2. CASE t = Head(c)
    BY <1>6, <2>2
  <2>3. CASE \E j \in 1..Len(c)-1 : t = Tail(c)[j]
    <3>1. PICK j \in 1..Len(c)-1 : t = Tail(c)[j]
      BY <2>3
    <3>2. j + 1 \in DOMAIN c /\ t = c[j + 1]
      BY <1>6, <3>1
    <3> QED BY <3>2
  <2> QED BY <2>1, <2>2, <2>3
<1>9. \A j \in DOMAIN c : salience(t, n) >= salience(c[j], n)
  <2> SUFFICES ASSUME NEW j \in DOMAIN c PROVE salience(t, n) >= salience(c[j], n)
    OBVIOUS
  <2>1. CASE j = 1
    BY <1>6, <1>7, <2>1 DEF Strongest
  <2>2. CASE j # 1
    <3>1. j - 1 \in 1..Len(c)-1 /\ (j - 1) + 1 = j
      BY <1>6, <2>2
    <3>2. Tail(c)[j - 1] = c[j]
      BY <1>6, <3>1
    <3> QED BY <1>6, <1>7, <3>1, <3>2 DEF Strongest
  <2> QED BY <2>1, <2>2
<1>10. /\ \A j \in DOMAIN c : p[j] \in DOMAIN signals /\ c[j] = signals[p[j]]
       /\ \A i \in DOMAIN signals : i \in kept <=> \E j \in DOMAIN p : p[j] = i
       /\ DOMAIN p = DOMAIN c
  BY <1>4 DEF Selects, Picks
<1>11. \A j \in DOMAIN c : c[j] \in ToSet(signals) /\ c[j].kind = kind
  BY <1>2, <1>10 DEF ToSet
<1>12. \A x \in ToSet(signals) : x.kind = kind => \E j \in DOMAIN c : x = c[j]
  <2> SUFFICES ASSUME NEW i \in DOMAIN signals, signals[i].kind = kind
               PROVE  \E j \in DOMAIN c : signals[i] = c[j]
    BY DEF ToSet
  <2>1. PICK j \in DOMAIN p : p[j] = i
    BY <1>2, <1>10
  <2> QED BY <1>10, <2>1
<1> QED BY <1>5, <1>8, <1>9, <1>11, <1>12

Weight(s) == KIND_WEIGHT[s.kind] + 30 * s.confidence
               + (IF s.role = "customer" THEN 500 ELSE 425)

LEMMA WeightIs ==
  ASSUME NEW s, s.kind \in Kind, s.confidence \in Int
  PROVE  Weight(s) \in Int
<1>1. KIND_WEIGHT[s.kind] \in Nat
  BY DEF Kind, KIND_WEIGHT
<1> QED BY <1>1 DEF Weight

LEMMA SalienceIs ==
  ASSUME NEW s, s.kind \in Kind, s.confidence \in Int, s.source \in Int, NEW n \in Nat
  PROVE  /\ salience(s, n) \in Int
         /\ n > 1 => salience(s, n) = Weight(s) * (n - 1) + 1000 * (s.source - 1)
<1>1. Weight(s) \in Int
  BY WeightIs
<1>2. salience(s, n) = IF n > 1 THEN Weight(s) * (n - 1) + 1000 * (s.source - 1)
                       ELSE Weight(s) + 1000
  BY Zenon DEF salience, Weight
<1>3. Weight(s) * (n - 1) \in Int
  BY <1>1, SMT
<1> QED BY <1>1, <1>2, <1>3

\* Of two readings of one kind, the customer's at no less confidence weighs no less.
LEMMA CustomersWeighMore ==
  ASSUME NEW x, NEW y, x.kind \in Kind, y.kind = x.kind, y.role = "customer",
         x.confidence \in Int, y.confidence \in Int, y.confidence >= x.confidence
  PROVE  Weight(x) <= Weight(y)
<1> DEFINE w == KIND_WEIGHT[x.kind]
<1>1. w \in Nat
  BY DEF Kind, KIND_WEIGHT
<1>2. /\ Weight(x) = w + 30 * x.confidence + (IF x.role = "customer" THEN 500 ELSE 425)
      /\ Weight(y) = w + 30 * y.confidence + 500
  BY DEF Weight
<1> HIDE DEF w
<1> QED BY <1>1, <1>2

LEMMA Grows ==
  ASSUME NEW x \in Int, NEW y \in Int, x <= y, NEW k \in Nat
  PROVE  x * k \in Int /\ y * k \in Int /\ x * k <= y * k
BY SMT

\* "A customer who corrects themselves in a later message means the later message"
\* (salience and best of index.ts).
THEOREM LaterWordsLead == Spec => []CorrectionsLead
<1>1. ConversationInv => CorrectionsLead
  <2> SUFFICES ASSUME ConversationInv, Stored, NEW k \in Kind, context.leads[k] # None
               PROVE  \E a \in context.annotations :
                        /\ a.signal.kind = k /\ a.signal.value = context.leads[k]
                        /\ ~\E b \in context.annotations :
                             /\ b.signal.kind = k /\ b.signal.role = "customer"
                             /\ b.signal.source > a.signal.source
                             /\ b.signal.confidence >= a.signal.confidence
    BY DEF CorrectionsLead
  <2> DEFINE signals == signalsOf(context.sources)
             n == Len(context.sources)
             T == ToSet(signals)
             s == best(k, signals, n)
  <2>1. /\ context.sources \in Seq(Messages)
        /\ context.leads = leads(signals, n)
        /\ {a.signal : a \in context.annotations} = T
    BY DEF ConversationInv, ContextInv
  <2>2. n \in Nat /\ DOMAIN context.sources = 1..n
    BY <2>1
  <2>3. signals \in Seq(T)
    BY <2>1, Signals
  <2>4. context.leads[k] = IF s = None THEN None ELSE s.value
    BY <2>1, Zenon DEF leads
  <2> HIDE DEF signals, n, T
  <2>5. \A a \in context.annotations :
          /\ a.signal.kind \in Kind /\ a.signal.confidence \in Int
          /\ a.signal.source \in Int /\ a.signal.source <= n
    <3> SUFFICES ASSUME NEW a \in context.annotations
                 PROVE  /\ a.signal.kind \in Kind /\ a.signal.confidence \in Int
                        /\ a.signal.source \in Int /\ a.signal.source <= n
      OBVIOUS
    <3>1. /\ a.signal.kind \in Kind /\ a.signal.confidence \in Int
          /\ a.signal.source \in DOMAIN context.sources
      BY KindOf
    <3> QED BY <2>2, <3>1
  <2>6. \A x \in T : salience(x, n) \in Int
    <3> SUFFICES ASSUME NEW a \in context.annotations PROVE salience(a.signal, n) \in Int
      BY <2>1
    <3> QED BY <2>2, <2>5, SalienceIs
  <2>7. s # None /\ s.value = context.leads[k]
    BY <2>4
  <2>8. /\ s \in T /\ s.kind = k
        /\ \A x \in T : x.kind = k => salience(s, n) >= salience(x, n)
    <3>1. s \in ToSet(signals) /\ s.kind = k
          /\ \A x \in ToSet(signals) : x.kind = k => salience(s, n) >= salience(x, n)
      BY <2>3, <2>6, <2>7, BestIs
    <3> QED BY <3>1 DEF T
  <2> HIDE DEF s
  <2>9. PICK a \in context.annotations : a.signal = s
    BY <2>1, <2>8
  <2>10. ASSUME NEW b \in context.annotations, b.signal.kind = k, b.signal.role = "customer",
                b.signal.source > a.signal.source, b.signal.confidence >= a.signal.confidence
         PROVE  FALSE
    <3> DEFINE x == a.signal
               y == b.signal
               low == Weight(x)
               high == Weight(y)
    <3>1. /\ x.kind = k /\ x.confidence \in Int /\ x.source \in Int /\ x.source <= n
          /\ y.kind = k /\ y.confidence \in Int /\ y.source \in Int /\ y.source <= n
      BY <2>5, <2>8, <2>9, <2>10
    <3>2. y.source \in DOMAIN context.sources /\ x.source \in DOMAIN context.sources
      BY KindOf
    <3>3. n > 1 /\ n - 1 \in Nat
      BY <2>2, <2>10, <3>2
    <3>4. /\ salience(x, n) = low * (n - 1) + 1000 * (x.source - 1)
          /\ salience(y, n) = high * (n - 1) + 1000 * (y.source - 1)
      <4>1. x.kind \in Kind /\ y.kind \in Kind /\ n \in Nat /\ n > 1
        BY <2>2, <3>1, <3>3
      <4> HIDE DEF x, y
      <4>2. salience(x, n) = Weight(x) * (n - 1) + 1000 * (x.source - 1)
        BY <3>1, <4>1, SalienceIs
      <4>3. salience(y, n) = Weight(y) * (n - 1) + 1000 * (y.source - 1)
        BY <3>1, <4>1, SalienceIs
      <4> QED BY <4>2, <4>3
    <3>5. low \in Int /\ high \in Int /\ low <= high
      BY <2>10, <3>1, WeightIs, CustomersWeighMore
    <3>6. salience(x, n) >= salience(y, n)
      BY <2>1, <2>8, <2>9, <2>10
    <3> HIDE DEF low, high
    <3>7. low * (n - 1) \in Int /\ high * (n - 1) \in Int /\ low * (n - 1) <= high * (n - 1)
      BY <3>3, <3>5, Grows
    <3> DEFINE l == low * (n - 1)
               h == high * (n - 1)
    <3> HIDE DEF l, h
    <3>8. l \in Int /\ h \in Int /\ l <= h /\ l + 1000 * (x.source - 1) >= h + 1000 * (y.source - 1)
      BY <3>4, <3>6, <3>7 DEF l, h
    <3> QED BY <2>10, <3>1, <3>8
  <2> QED BY <2>7, <2>8, <2>9, <2>10
<1> QED BY <1>1, Invariant, PTL
=============================================================================
