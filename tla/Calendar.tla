------------------------------ MODULE Calendar ------------------------------
(***************************************************************************)
(* Days, months and years as the statistics compute them: with Go's time    *)
(* package on one side, with EXTRACT on the other.                          *)
(*                                                                         *)
(* A day is numbered from 1 January of year 0 (proleptic Gregorian), an     *)
(* instant counts DayLength to the day.                                     *)
(***************************************************************************)
EXTENDS Integers

CONSTANTS DayLength, Years
ASSUME DayAssumption == DayLength \in Nat \ {0} /\ Years \subseteq Nat

Leap(y) == y % 4 = 0 /\ (y % 100 # 0 \/ y % 400 = 0)
DaysBefore(y) == 365 * y + (y + 3) \div 4 - (y + 99) \div 100 + (y + 399) \div 400
MonthStarts == <<0, 31, 59, 90, 120, 151, 181, 212, 243, 273, 304, 334>>

\* time.Date(y, m, d, 0, 0, 0, 0, time.UTC): a month outside 1..12 and a day
\* outside its month carry over.
YearAt(y, m) == y + (m - 1) \div 12
MonthAt(m) == 1 + ((m - 1) % 12)
Date(y, m, d) ==
    DaysBefore(YearAt(y, m)) + MonthStarts[MonthAt(m)] + d - 1
      + IF MonthAt(m) > 2 /\ Leap(YearAt(y, m)) THEN 1 ELSE 0

Midnight(day) == day * DayLength

\* The year and month a day lies in, within Years.
Civil(day) ==
    LET y == CHOOSE y \in Years : Date(y, 1, 1) <= day /\ day < Date(y + 1, 1, 1)
    IN  <<y, CHOOSE m \in 1..12 : Date(y, m, 1) <= day /\ day < Date(y, m + 1, 1)>>

\* (Time).Day
DayOfMonth(day) == LET c == Civil(day) IN day - Date(c[1], c[2], 1) + 1

\* EXTRACT(YEAR FROM t), EXTRACT(MONTH FROM t) for a session whose time zone is
\* z ahead of UTC.
Extracted(t, z) == Civil((t + z) \div DayLength)

\* Mutation: a month is thirty days.
ThirtyDays(y, m) == [ from |-> Midnight(Date(y, m, 1)), to |-> Midnight(Date(y, m, 31)) ]

\* from is the first of a month, so that AddDate(0, 1, 0) only moves the month.
monthRange(y, m) ==
    [ from |-> Midnight(Date(y, m, 1)), to |-> Midnight(Date(y, m + 1, 1)) ]

\* Mutation: the year ends as its last day begins.
ShortYear(y) == [ from |-> Midnight(Date(y, 1, 1)), to |-> Midnight(Date(y, 12, 31)) ]

yearRange(y) ==
    [ from |-> Midnight(Date(y, 1, 1)), to |-> Midnight(Date(y + 1, 1, 1)) ]

\* Mutation: the month is looked up without normalising it.
DaysUnwrapped(y, m) ==
    IF m \in 1..11 THEN MonthStarts[m + 1] - MonthStarts[m] ELSE 31

\* The day before the first of the next month.
daysInMonth(y, m) == DayOfMonth(Date(y, m + 1, 0))
=============================================================================
