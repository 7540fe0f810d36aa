------------------------------ MODULE Calendar ------------------------------
(***************************************************************************)
(* Days as temporal.ts and corpus.ts count them: Date.UTC, the getUTC      *)
(* methods, and the readings that need the day of the message.             *)
(*                                                                         *)
(* Day 0 is the first of January of year 0, a leap year (say 2024).  Every *)
(* fourth year is one: true from 1901 to 2099.  A message has a time of    *)
(* day, a date that is written is midnight: comparing days is exact.       *)
(***************************************************************************)
EXTENDS Integers

Leap(y) == y % 4 = 0

DaysBefore == <<0, 31, 59, 90, 120, 151, 181, 212, 243, 273, 304, 334>>

YearStart(y) == 365 * y + (y + 3) \div 4

MonthStart(y, m) == YearStart(y) + DaysBefore[m] + IF m > 2 /\ Leap(y) THEN 1 ELSE 0

\* Date.UTC: months beyond December and days beyond the month's end roll over.
UTC(y, m, d) == MonthStart(y + (m - 1) \div 12, 1 + ((m - 1) % 12)) + d - 1

YearOf(n) == (4 * n) \div 1461

MonthOf(n) == CHOOSE m \in 1..12 :
  MonthStart(YearOf(n), m) <= n /\ (m < 12 => n < MonthStart(YearOf(n), m + 1))

DayOf(n) == n - MonthStart(YearOf(n), MonthOf(n)) + 1

Day(n) == [year |-> YearOf(n), month |-> MonthOf(n), day |-> DayOf(n)]

\* (mutant) The year of the message is taken.
inferYear_ThisYear(reference, month, day) == YearOf(reference)

\* The most recent such day of the message's year or the year before.
inferYear(reference, month, day) ==
  IF UTC(YearOf(reference), month, day) > reference
    THEN YearOf(reference) - 1 ELSE YearOf(reference)

\* Weekdays are 0..6, and day 0 has the number FirstWeekday.
FirstWeekday == 1

previousWeekday(reference, weekday) ==
  LET diff == (FirstWeekday + reference - weekday) % 7
  IN reference - IF diff = 0 THEN 7 ELSE diff
=============================================================================
