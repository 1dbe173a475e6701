----------------------------- MODULE Statistics -----------------------------
(***************************************************************************)
(* GetMonthStats, GetYearStats and GetAllTimeStats over the expenses of     *)
(* Books.  Each is one query, so it sees the tables of one moment.          *)
(*                                                                         *)
(* Amounts are in units of which Cent make a hundredth: formatAmount rounds *)
(* to hundredths.  Refunds are left out by the queries, but nothing ever    *)
(* stores one.                                                             *)
(***************************************************************************)
EXTENDS Listings, Calendar

CONSTANTS
    AskedYears,     \* what a client may send as year,
    AskedMonths,    \* and as month
    Zones,          \* the time zones a database session may have
    Cent

ASSUME StatsAssumption ==
    /\ AskedYears \subseteq Years
    /\ AskedMonths \subseteq Int /\ Zones \subseteq Int /\ Cent \in Nat \ {0}
    /\ \A y \in AskedYears, m \in AskedMonths : YearAt(y, m) \in Years

\* The dates that requests give to expenses and fees.  Years is a calendar that has
\* each of them, in the time zone of every session.
Dates ==
    {m.date : m \in ExpenseRequests \cup ExpenseEdits \cup IncomeRequests \cup TransferRequests}
        \ {Null}
ASSUME YearsAssumption ==
    \A date \in Dates, z \in Zones \cup {0} : \E y \in Years :
        LET day == (date + z) \div DayLength
        IN  Date(y, 1, 1) <= day /\ day < Date(y + 1, 1, 1)

GetMonthStatsRequest ==
    [ year : AskedYears, month : AskedMonths, baseCurrency : Currencies, user : Opt(Users) ]
GetYearStatsRequest ==
    [ year : AskedYears, baseCurrency : Currencies, user : Opt(Users) ]
GetAllTimeStatsRequest == [ baseCurrency : Currencies, user : Opt(Users) ]
-----------------------------------------------------------------------------
\* Every user; nothing of the service adds or removes one.
ListUsers == Users

\* WHERE base_currency = $1 AND ($4 IS NULL OR user_id = $4) AND base_amount
\* IS NOT NULL.
Priced(m) ==
    {x \in DOMAIN expenses :
        /\ expenses[x].base # Null /\ m.baseCurrency = EUR
        /\ m.user # Null => expenses[x].user = m.user}

\* AND date >= $2 AND date < $3.
During(X, range) == {x \in X : range.from <= expenses[x].date /\ expenses[x].date < range.to}

\* COALESCE(SUM(base_amount), 0)
TotalOf(X) == SumFunction([x \in X |-> expenses[x].base])

\* n units shared among k, in hundredths.
formatAmount(n, k) == (2 * n + k * Cent) \div (2 * k * Cent)

MonthStat(c, X) ==
    [ year |-> c[1], month |-> c[2], total |-> formatAmount(TotalOf(X), 1),
      count |-> Cardinality(X) ]

GetMonthStatsRows(m) == During(Priced(m), monthRange(m.year, m.month))
GetMonthStats(m) ==
    LET X == GetMonthStatsRows(m)
        days == daysInMonth(m.year, m.month)
    IN  [ total |-> formatAmount(TotalOf(X), 1), count |-> Cardinality(X),
          daysInMonth |-> days, averagePerDay |-> formatAmount(TotalOf(X), days) ]

\* GROUP BY the group of each row; no group is empty.
Grouped(group) ==
    {MonthStat(c, {x \in DOMAIN group : group[x] = c}) : c \in {group[x] : x \in DOMAIN group}}
Answer(stats, X) ==
    [ monthlyStats |-> stats, total |-> formatAmount(TotalOf(X), 1),
      averagePerMonth |->
        IF stats = {} THEN 0 ELSE formatAmount(TotalOf(X), Cardinality(stats)) ]

\* The year of the answer is the one asked for, its months are the session's.
GetMonthStatsByYear(m, z) ==
    Grouped([x \in During(Priced(m), yearRange(m.year)) |->
                <<m.year, Extracted(expenses[x].date, z)[2]>>])
GetYearStats(m, z) ==
    Answer(GetMonthStatsByYear(m, z), During(Priced(m), yearRange(m.year)))

GetAllTimeMonthlyStats(m, z) ==
    Grouped([x \in Priced(m) |-> Extracted(expenses[x].date, z)])
GetAllTimeStats(m, z) == Answer(GetAllTimeMonthlyStats(m, z), Priced(m))
-----------------------------------------------------------------------------
OfMonth(y, k) == [ year |-> y, month |-> k, baseCurrency |-> EUR, user |-> Null ]
OfYear(y) == [ year |-> y, baseCurrency |-> EUR, user |-> Null ]
Everyones == [ baseCurrency |-> EUR, user |-> Null ]

\* The twelve months of a year, each asked for by itself, hold every expense of the
\* year once and no other; and where the session is in UTC, the year's entry for a
\* month is the answer for that month.
MonthsFillTheYear ==
    \A y \in AskedYears :
        LET X == Priced(OfYear(y))
            month == [k \in 1..12 |-> During(X, monthRange(y, k))]
        IN  X # {} =>
              /\ \A x \in X :
                    Cardinality({k \in 1..12 : x \in month[k]}) =
                    IF x \in During(X, yearRange(y)) THEN 1 ELSE 0
              /\ \A s \in GetYearStats(OfYear(y), 0).monthlyStats :
                    LET asked == GetMonthStats(OfMonth(y, s.month))
                    IN  s.total = asked.total /\ s.count = asked.count

\* An expense between the new year of UTC, where the years of GetYearStats begin,
\* and that of the session, where those of GetAllTimeStats do.
BetweenNewYears(y, z) ==
    \E x \in DOMAIN expenses :
        LET ago == expenses[x].date - yearRange(y).from IN
        (-z <= ago /\ ago < 0) \/ (0 <= ago /\ ago < -z)

\* The entries of all time for a year are those of the year, in whatever time zone
\* the session is, unless an expense falls between two new years.
YearsFillAllTime ==
    \A z \in Zones :
        LET all == GetAllTimeStats(Everyones, z).monthlyStats
        IN  \A y \in AskedYears :
              ~ BetweenNewYears(y, z) /\ ~ BetweenNewYears(y + 1, z) =>
              {s \in all : s.year = y} = GetYearStats(OfYear(y), z).monthlyStats

\* Months outside 1..12 carry over into other years in both expressions alike: the
\* average per day is taken over as many days as were summed up.
MonthsWrap ==
    \A y \in AskedYears, k \in AskedMonths :
        GetMonthStats(OfMonth(y, k)).daysInMonth * DayLength =
        monthRange(y, k).to - monthRange(y, k).from

\* Three ways to ask what a user has spent agree, whatever was moved between the
\* accounts of different users: the statistics of the user, the user's list, and the
\* lists of the user's accounts.  They part on fees of incomes only, whose user is
\* the request's and which no statistics count.
UserViewsAgree ==
    \A u \in ListUsers :
        LET ListOf(a, by) ==
                {m.id : m \in {m \in ListExpenses([ account |-> a, user |-> by,
                                                    from |-> Null, to |-> Null ]) : m.base # Null}}
            spent == Priced([ baseCurrency |-> EUR, user |-> u ])
        IN  /\ spent = ListOf(Null, u)
            /\ spent = UNION {ListOf(a, Null) : a \in {a \in DOMAIN accounts : Owner(a) = u}}
=============================================================================
