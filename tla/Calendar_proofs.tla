--------------------------- MODULE Calendar_proofs ---------------------------
(***************************************************************************)
(* The arithmetic of Calendar, for every year and every month, in 1..12 or  *)
(* not.                                                                    *)
(***************************************************************************)
EXTENDS Calendar, TLAPS

\* A month outside 1..12 is a month of another year.
LEMMA MonthsCarry ==
    ASSUME NEW y \in Int, NEW m \in Int
    PROVE  /\ YearAt(y, m) \in Int /\ MonthAt(m) \in 1..12
           /\ 12 * YearAt(y, m) + MonthAt(m) = 12 * y + m
BY DEF YearAt, MonthAt

\* A year and a month carried over give the same date.
LEMMA SameDate ==
    ASSUME NEW y \in Int, NEW m \in Int, NEW z \in Int, NEW n \in Int, NEW d \in Int,
           12 * y + m = 12 * z + n
    PROVE  Date(y, m, d) = Date(z, n, d)
<1>1. /\ YearAt(y, m) \in Int /\ MonthAt(m) \in 1..12
      /\ 12 * YearAt(y, m) + MonthAt(m) = 12 * y + m
  BY MonthsCarry
<1>2. /\ YearAt(z, n) \in Int /\ MonthAt(n) \in 1..12
      /\ 12 * YearAt(z, n) + MonthAt(n) = 12 * z + n
  BY MonthsCarry
<1>3. YearAt(y, m) = YearAt(z, n) /\ MonthAt(m) = MonthAt(n)
  BY <1>1, <1>2
<1>. QED  BY <1>3, Zenon DEF Date

\* A month in 1..12 needs no carrying over.
LEMMA InYear ==
    ASSUME NEW y \in Int, NEW m \in 1..12
    PROVE  YearAt(y, m) = y /\ MonthAt(m) = m
<1>1. m \in Int
  OBVIOUS
<1>2. /\ YearAt(y, m) \in Int /\ MonthAt(m) \in 1..12
      /\ 12 * YearAt(y, m) + MonthAt(m) = 12 * y + m
  BY <1>1, MonthsCarry
<1>. QED  BY <1>2

\* Between two new years lie 365 days, or 366.
LEMMA YearLength ==
    ASSUME NEW y \in Int
    PROVE  /\ DaysBefore(y) \in Int
           /\ DaysBefore(y + 1) = DaysBefore(y) + IF Leap(y) THEN 366 ELSE 365
BY DEF DaysBefore, Leap

\* Years do not overlap.
LEMMA YearsApart ==
    ASSUME NEW y \in Int, NEW z \in Int, y < z
    PROVE  DaysBefore(y + 1) <= DaysBefore(z)
BY DEF DaysBefore

\* The first of a month of the year, and of January of the next.
LEMMA FirstOfMonth ==
    ASSUME NEW y \in Int, NEW m \in 1..12
    PROVE  Date(y, m, 1) = DaysBefore(y) + MonthStarts[m] + IF m > 2 /\ Leap(y) THEN 1 ELSE 0
<1>1. YearAt(y, m) = y /\ MonthAt(m) = m
  BY InYear
<1>2. MonthStarts[m] \in Int /\ DaysBefore(y) \in Int
  BY YearLength DEF MonthStarts
<1>. QED  BY <1>1, <1>2 DEF Date

\* The months of a year follow each other and fill it.
LEMMA MonthsFollow ==
    ASSUME NEW y \in Int
    PROVE  /\ Date(y, 1, 1) = DaysBefore(y)
           /\ Date(y, 13, 1) = DaysBefore(y + 1)
           /\ \A m \in 1..12 : Date(y, m, 1) \in Int /\ Date(y, m, 1) < Date(y, m + 1, 1)
<1>1. DaysBefore(y) \in Int /\ DaysBefore(y + 1) \in Int
      /\ DaysBefore(y + 1) = DaysBefore(y) + IF Leap(y) THEN 366 ELSE 365
  BY YearLength
<1>2. Date(y, 13, 1) = Date(y + 1, 1, 1)
  BY SameDate
<1>3. Date(y, 1, 1) = DaysBefore(y) /\ Date(y + 1, 1, 1) = DaysBefore(y + 1)
  BY <1>1, FirstOfMonth DEF MonthStarts
<1>4. ASSUME NEW m \in 1..12 PROVE Date(y, m, 1) \in Int /\ Date(y, m, 1) < Date(y, m + 1, 1)
  <2>1. CASE m = 12
    BY <1>1, <1>2, <1>3, <2>1, FirstOfMonth DEF MonthStarts
  <2>2. CASE m # 12
    <3>1. m \in 1..11 /\ m + 1 \in 1..12
      BY <2>2
    <3>2. MonthStarts[m] \in Int /\ MonthStarts[m + 1] \in Int /\ MonthStarts[m] < MonthStarts[m + 1]
      BY <3>1 DEF MonthStarts
    <3>3. /\ Date(y, m, 1) = DaysBefore(y) + MonthStarts[m] + IF m > 2 /\ Leap(y) THEN 1 ELSE 0
          /\ Date(y, m + 1, 1) =
               DaysBefore(y) + MonthStarts[m + 1] + IF m + 1 > 2 /\ Leap(y) THEN 1 ELSE 0
      BY <3>1, FirstOfMonth
    <3>. QED  BY <1>1, <3>1, <3>2, <3>3
  <2>. QED  BY <2>1, <2>2
<1>. QED  BY <1>2, <1>3, <1>4

\* Firsts of months, January of the next year included, are in the order of the months.
LEMMA MonthsOrdered ==
    ASSUME NEW y \in Int, NEW m \in 1..13, NEW n \in 1..13, m <= n
    PROVE  Date(y, m, 1) \in Int /\ Date(y, n, 1) \in Int /\ Date(y, m, 1) <= Date(y, n, 1)
<1>1. /\ DaysBefore(y) \in Int /\ DaysBefore(y + 1) \in Int
      /\ DaysBefore(y + 1) = DaysBefore(y) + IF Leap(y) THEN 366 ELSE 365
  BY YearLength
<1>2. Date(y, 13, 1) = DaysBefore(y + 1)
  BY MonthsFollow
<1>3. ASSUME NEW k \in 1..12
      PROVE  /\ Date(y, k, 1) = DaysBefore(y) + MonthStarts[k]
                                  + IF k > 2 /\ Leap(y) THEN 1 ELSE 0
             /\ MonthStarts[k] \in 0..334
  BY FirstOfMonth DEF MonthStarts
<1>4. CASE m \in 1..12 /\ n \in 1..12
  <2>1. MonthStarts[m] <= MonthStarts[n]
    BY <1>4 DEF MonthStarts
  <2>2. /\ Date(y, m, 1) = DaysBefore(y) + MonthStarts[m] + IF m > 2 /\ Leap(y) THEN 1 ELSE 0
        /\ MonthStarts[m] \in 0..334
    BY <1>3, <1>4
  <2>3. /\ Date(y, n, 1) = DaysBefore(y) + MonthStarts[n] + IF n > 2 /\ Leap(y) THEN 1 ELSE 0
        /\ MonthStarts[n] \in 0..334
    BY <1>3, <1>4
  <2>4. m > 2 => n > 2
    OBVIOUS
  <2>. DEFINE p == MonthStarts[m]
              q == MonthStarts[n]
              leapM == IF m > 2 /\ Leap(y) THEN 1 ELSE 0
              leapN == IF n > 2 /\ Leap(y) THEN 1 ELSE 0
  <2>5. leapM \in 0..1 /\ leapN \in 0..1 /\ leapM <= leapN
    BY <2>4
  <2>6. /\ Date(y, m, 1) = DaysBefore(y) + p + leapM /\ p \in Int
        /\ Date(y, n, 1) = DaysBefore(y) + q + leapN /\ q \in Int /\ p <= q
    BY <2>1, <2>2, <2>3
  <2>. HIDE DEF p, q, leapM, leapN
  <2>. QED  BY <1>1, <2>5, <2>6
<1>5. CASE m \in 1..12 /\ n = 13
  <2>1. /\ Date(y, m, 1) = DaysBefore(y) + MonthStarts[m] + IF m > 2 /\ Leap(y) THEN 1 ELSE 0
        /\ MonthStarts[m] \in 0..334
    BY <1>3, <1>5
  <2>2. Date(y, n, 1) = DaysBefore(y + 1)
    BY <1>2, <1>5
  <2>. QED  BY <1>1, <2>1, <2>2
<1>6. CASE m = 13 /\ n = 13
  BY <1>1, <1>2, <1>6
<1>. QED  BY <1>4, <1>5, <1>6

\* A day in a month of a year lies in no other.
LEMMA CivilDay ==
    ASSUME NEW y \in Years, NEW m \in 1..12, NEW day \in Int,
           Date(y, m, 1) <= day, day < Date(y, m + 1, 1)
    PROVE  Civil(day) = <<y, m>>
<1>. DEFINE Holds(z) == Date(z, 1, 1) <= day /\ day < Date(z + 1, 1, 1)
            HoldsMonth(n) == Date(y, n, 1) <= day /\ day < Date(y, n + 1, 1)
<1>1. y \in Int /\ \A z \in Years : z \in Int
  BY DayAssumption
<1>2. ASSUME NEW z \in Years
      PROVE  /\ Date(z, 1, 1) = DaysBefore(z) /\ Date(z + 1, 1, 1) = DaysBefore(z + 1)
             /\ DaysBefore(z) \in Int /\ DaysBefore(z + 1) \in Int
  <2>. DEFINE next == z + 1
  <2>1. z \in Int /\ next \in Int
    BY <1>1
  <2>. HIDE DEF next
  <2>2. Date(z, 1, 1) = DaysBefore(z) /\ Date(next, 1, 1) = DaysBefore(next)
    BY <2>1, MonthsFollow
  <2>3. DaysBefore(z) \in Int /\ DaysBefore(next) \in Int
    BY <2>1, YearLength
  <2>. QED  BY <2>2, <2>3 DEF next
<1>3. Holds(y)
  <2>. DEFINE next == m + 1
  <2>1. 1 \in 1..13 /\ 13 \in 1..13 /\ m \in 1..13 /\ 1 <= m /\ next \in 1..13 /\ next <= 13
    OBVIOUS
  <2>2. Date(y, m, 1) <= day /\ day < Date(y, next, 1)
    OBVIOUS
  <2>. HIDE DEF next
  <2>3. /\ Date(y, 1, 1) \in Int /\ Date(y, m, 1) \in Int
        /\ Date(y, 1, 1) <= Date(y, m, 1)
    BY <1>1, <2>1, MonthsOrdered
  <2>4. /\ Date(y, next, 1) \in Int /\ Date(y, 13, 1) \in Int
        /\ Date(y, next, 1) <= Date(y, 13, 1)
    BY <1>1, <2>1, MonthsOrdered
  <2>5. Date(y, 13, 1) = Date(y + 1, 1, 1)
    BY <1>1, <1>2, MonthsFollow
  <2>. QED  BY <2>2, <2>3, <2>4, <2>5
<1>4. \A z \in Years : Holds(z) => z = y
  <2>. SUFFICES ASSUME NEW z \in Years, Holds(z), z # y PROVE FALSE
    OBVIOUS
  <2>1. /\ DaysBefore(z) <= day /\ day < DaysBefore(z + 1)
        /\ DaysBefore(y) <= day /\ day < DaysBefore(y + 1)
        /\ DaysBefore(z) \in Int /\ DaysBefore(z + 1) \in Int
        /\ DaysBefore(y) \in Int /\ DaysBefore(y + 1) \in Int
    BY <1>2, <1>3
  <2>2. CASE z < y
    <3>1. DaysBefore(z + 1) <= DaysBefore(y)
      BY <1>1, <2>2, YearsApart
    <3>. QED  BY <2>1, <3>1
  <2>3. CASE y < z
    <3>1. DaysBefore(y + 1) <= DaysBefore(z)
      BY <1>1, <2>3, YearsApart
    <3>. QED  BY <2>1, <3>1
  <2>. QED  BY <1>1, <2>2, <2>3
<1>5. \A n \in 1..12 : HoldsMonth(n) => n = m
  <2>. SUFFICES ASSUME NEW n \in 1..12, HoldsMonth(n), n # m PROVE FALSE
    OBVIOUS
  <2>. DEFINE mNext == m + 1
              nNext == n + 1
  <2>1. /\ m \in 1..13 /\ n \in 1..13 /\ mNext \in 1..13 /\ nNext \in 1..13
        /\ n < m => nNext <= m
        /\ m < n => mNext <= n
    OBVIOUS
  <2>2. /\ Date(y, m, 1) <= day /\ day < Date(y, mNext, 1)
        /\ Date(y, n, 1) <= day /\ day < Date(y, nNext, 1)
    OBVIOUS
  <2>. HIDE DEF mNext, nNext
  <2>3. CASE n < m
    <3>1. /\ Date(y, nNext, 1) \in Int /\ Date(y, m, 1) \in Int
          /\ Date(y, nNext, 1) <= Date(y, m, 1)
      BY <1>1, <2>1, <2>3, MonthsOrdered
    <3>. QED  BY <2>2, <3>1
  <2>4. CASE m < n
    <3>1. /\ Date(y, mNext, 1) \in Int /\ Date(y, n, 1) \in Int
          /\ Date(y, mNext, 1) <= Date(y, n, 1)
      BY <1>1, <2>1, <2>4, MonthsOrdered
    <3>. QED  BY <2>2, <3>1
  <2>. QED  BY <2>3, <2>4
<1>6. (CHOOSE z \in Years : Holds(z)) = y
  <2>. HIDE DEF Holds
  <2>. QED  BY <1>3, <1>4
<1>7. HoldsMonth(m)
  OBVIOUS
<1>8. (CHOOSE n \in 1..12 : HoldsMonth(n)) = m
  <2>. HIDE DEF HoldsMonth
  <2>. QED  BY <1>5, <1>7
<1>. QED  BY <1>6, <1>8, Zenon DEF Civil

\* daysInMonth, which normalises the month once as part of the first of a month and once
\* as part of the day before the first of the next, is the length of monthRange.
LEMMA LengthOfMonth ==
    ASSUME NEW y \in Int, NEW m \in Int, YearAt(y, m) \in Years
    PROVE  /\ Date(y, m, 1) \in Int /\ Date(y, m + 1, 1) \in Int
           /\ daysInMonth(y, m) = Date(y, m + 1, 1) - Date(y, m, 1)
<1>. DEFINE z == YearAt(y, m)
            n == MonthAt(m)
            next == m + 1
            nNext == n + 1
            last == Date(y, next, 0)
<1>1. z \in Int /\ n \in 1..12 /\ 12 * z + n = 12 * y + m
  BY MonthsCarry
<1>2. z \in Years
  OBVIOUS
<1>3. next \in Int /\ next = m + 1
  OBVIOUS
<1>4. Date(y, next, 1) - 1 = last /\ Date(y, next, 1) \in Int
  <2>. HIDE DEF next
  <2>1. YearAt(y, next) \in Int /\ MonthAt(next) \in 1..12
    BY <1>3, MonthsCarry
  <2>2. DaysBefore(YearAt(y, next)) \in Int /\ MonthStarts[MonthAt(next)] \in Int
    BY <2>1, YearLength DEF MonthStarts
  <2>. QED  BY <2>2 DEF Date
<1>. HIDE DEF z, n
<1>5. nNext \in 1..13 /\ nNext \in Int /\ n \in Int /\ n \in 1..13 /\ 12 * z + nNext = 12 * y + next
  BY <1>1
<1>. HIDE DEF next, nNext, last
<1>6. Date(y, m, 1) = Date(z, n, 1)
  <2>1. YearAt(z, n) = z /\ MonthAt(n) = n
    BY <1>1, InYear
  <2>2. z = YearAt(y, m) /\ n = MonthAt(m)
    BY DEF z, n
  <2>. QED  BY <2>1, <2>2, Zenon DEF Date
<1>7. Date(y, next, 1) = Date(z, nNext, 1)
  BY <1>1, <1>3, <1>5, SameDate
<1>8. Date(z, n, 1) \in Int /\ Date(z, n, 1) < Date(z, n + 1, 1)
  BY <1>1, MonthsFollow
<1>9. Date(z, n, 1) < Date(z, nNext, 1)
  BY <1>8 DEF nNext
<1>10. last \in Int /\ Date(z, n, 1) <= last /\ last < Date(z, nNext, 1)
  BY <1>4, <1>7, <1>8, <1>9
<1>11. Civil(last) = <<z, n>>
  BY <1>1, <1>2, <1>10, CivilDay DEF nNext
<1>12. DayOfMonth(last) = last - Date(z, n, 1) + 1
  BY <1>11 DEF DayOfMonth
<1>13. daysInMonth(y, m) = DayOfMonth(last)
  BY DEF daysInMonth, last, next
<1>14. daysInMonth(y, m) = Date(y, next, 1) - Date(y, m, 1)
  BY <1>4, <1>6, <1>8, <1>10, <1>12, <1>13
<1>. QED  BY <1>4, <1>6, <1>8, <1>14 DEF next

-----------------------------------------------------------------------------
\* An instant is before midnight of a day exactly if its day is before that day.
LEMMA InstantDay ==
    ASSUME NEW t \in Int, NEW day \in Int
    PROVE  t \div DayLength \in Int /\ (Midnight(day) <= t <=> day <= t \div DayLength)
<1> DEFINE q == t \div DayLength
           d == day * DayLength
           n == q * DayLength
<1>1. DayLength \in Nat /\ DayLength > 0
  BY DayAssumption
<1>2. q \in Int /\ n <= t /\ t < n + DayLength /\ n \in Int /\ d \in Int
  BY <1>1
<1>3. day <= q => d <= n
  <2>1. SUFFICES ASSUME q - day \in Nat PROVE d <= n
    BY <1>2
  <2>2. (q - day) * DayLength \in Nat
    BY <1>1, <2>1
  <2>3. (q - day) * DayLength = n - d
    BY <1>1, <1>2
  <2> QED
    BY <1>2, <2>2, <2>3
<1>4. day > q => d >= n + DayLength
  <2>1. SUFFICES ASSUME day - q - 1 \in Nat PROVE d >= n + DayLength
    BY <1>2
  <2>2. (day - q - 1) * DayLength \in Nat
    BY <1>1, <2>1
  <2>3. (day - q - 1) * DayLength = d - n - DayLength
    BY <1>1, <1>2
  <2> QED
    BY <1>1, <1>2, <2>2, <2>3
<1> HIDE DEF q, d, n
<1>5. d <= t <=> day <= q
  BY <1>1, <1>2, <1>3, <1>4
<1> QED
  BY <1>2, <1>5 DEF q, d, Midnight

\* A day is in a year exactly if it is in a month of it, and it is in one only.
LEMMA MonthOfDay ==
    ASSUME NEW y \in Int, NEW day \in Int
    PROVE  /\ Date(y, 1, 1) <= day /\ day < Date(y + 1, 1, 1) <=>
              \E m \in 1..12 : Date(y, m, 1) <= day /\ day < Date(y, m + 1, 1)
           /\ \A m, n \in 1..12 : /\ Date(y, m, 1) <= day /\ day < Date(y, m + 1, 1)
                                  /\ Date(y, n, 1) <= day /\ day < Date(y, n + 1, 1)
                                  => m = n
<1> DEFINE f == [m \in 1..13 |-> Date(y, m, 1)]
<1>1. \A m \in 1..13 : f[m] = Date(y, m, 1) /\ f[m] \in Int
  <2>1. \A m \in 1..13 : m <= m
    OBVIOUS
  <2> QED
    BY <2>1, MonthsOrdered
<1>2. \A m, n \in 1..13 : m <= n => f[m] <= f[n]
  BY MonthsOrdered
<1>3. f[13] = Date(y + 1, 1, 1)
  <2>1. Date(y, 13, 1) = Date(y + 1, 1, 1)
    BY SameDate
  <2> QED
    BY <2>1
<1> HIDE DEF f
<1>4. \A m \in 1..12 : /\ m \in 1..13 /\ m + 1 \in 1..13
                       /\ Date(y, m, 1) = f[m] /\ Date(y, m + 1, 1) = f[m + 1]
  BY <1>1
<1>5. f[1] <= day /\ day < f[13] => \E m \in 1..12 : f[m] <= day /\ day < f[m + 1]
  <2>1. SUFFICES ASSUME f[1] <= day, \A m \in 1..12 : f[m] <= day => f[m + 1] <= day
                 PROVE  f[13] <= day
    BY <1>1
  <2>2. f[2] <= day /\ f[3] <= day /\ f[4] <= day /\ f[5] <= day
    BY <2>1
  <2>3. f[6] <= day /\ f[7] <= day /\ f[8] <= day /\ f[9] <= day
    BY <2>1, <2>2
  <2> QED
    BY <2>1, <2>3
<1>6. ASSUME NEW m \in 1..12, f[m] <= day, day < f[m + 1]
      PROVE  f[1] <= day /\ day < f[13]
  <2>1. f[1] <= f[m] /\ f[m + 1] <= f[13]
    BY <1>2
  <2> QED
    BY <1>1, <1>6, <2>1
<1>7. ASSUME NEW m \in 1..12, NEW n \in 1..12, f[m] <= day, day < f[m + 1],
             f[n] <= day, day < f[n + 1]
      PROVE  ~ (m < n)
  <2>1. m < n => f[m + 1] <= f[n]
    BY <1>2
  <2> QED
    BY <1>1, <1>7, <2>1
<1>8. \A m, n \in 1..12 : f[m] <= day /\ day < f[m + 1] /\ f[n] <= day /\ day < f[n + 1] => m = n
  BY <1>7
<1>9. f[1] = Date(y, 1, 1)
  BY <1>1
<1> QED
  BY <1>3, <1>4, <1>5, <1>6, <1>8, <1>9

\* A day of a year of Years is in the year and the month that EXTRACT gives.
LEMMA CivilInYear ==
    ASSUME NEW y \in Years, NEW day \in Int, Date(y, 1, 1) <= day, day < Date(y + 1, 1, 1)
    PROVE  \E m \in 1..12 : Civil(day) = <<y, m>> /\ Date(y, m, 1) <= day
                                                  /\ day < Date(y, m + 1, 1)
<1>1. y \in Int
  BY DayAssumption
<1>2. PICK m \in 1..12 : Date(y, m, 1) <= day /\ day < Date(y, m + 1, 1)
  BY <1>1, MonthOfDay
<1>3. Civil(day) = <<y, m>>
  BY <1>2, CivilDay
<1> QED
  BY <1>2, <1>3
=============================================================================
