--------------------------- MODULE Reports_proofs ---------------------------
(***************************************************************************)
(* Proofs about Listings, Statistics and Balances, for any requests and any *)
(* tables Books can reach.                                                 *)
(***************************************************************************)
EXTENDS Statistics, Balances, Books_proofs, Calendar_proofs, Sums

(***************************************************************************)
(* Windows.                                                                *)
(***************************************************************************)
\* The rows in a window are those before a cut and those after it, and no row is both.
LEMMA WindowCut ==
    ASSUME NEW from \in Opt(Instants), NEW to \in Opt(Instants), NEW t \in Instants,
           from # Null => from <= t, to # Null => t <= to, NEW date \in Nat
    PROVE  /\ InWindow(date, from, to) <=> InWindow(date, from, t) \/ InWindow(date, t, to)
           /\ ~(InWindow(date, from, t) /\ InWindow(date, t, to))
<1>1. /\ t \in Int /\ t # Null /\ Null \notin Int
      /\ from # Null => from \in Int
      /\ to # Null => to \in Int
  BY InstantsAssumption, SentinelAssumption DEF Opt
<1>. QED  BY <1>1 DEF InWindow

\* An answer names its rows.
LEMMA RowsNamed ==
    /\ \A x : expenseToProto(x).id = x
    /\ \A i : incomeToProto(i).id = i
    /\ \A t : transferToProto(t).id = t
BY DEF expenseToProto, incomeToProto, transferToProto

\* Every date is a number.
LEMMA DatesAreNat ==
    ASSUME TypeOK
    PROVE  /\ \A x \in DOMAIN expenses : expenses[x].date \in Nat
           /\ \A i \in DOMAIN incomes : incomes[i].date \in Nat
           /\ \A t \in DOMAIN transfers : transfers[t].date \in Nat
BY DEF TypeOK, IsTable, ExpenseRow, IncomeRow, TransferRow

\* With one end of the window replaced, a request asks for the same account.
LEMMA CutRequest ==
    ASSUME NEW m \in ListExpensesRequest, m.user = Null, WindowCounts(m), NEW t \in Cuts(m),
           NEW before, before = [m EXCEPT !.to = t],
           NEW after, after = [m EXCEPT !.from = t]
    PROVE  /\ t \in Instants /\ m.from \in Opt(Instants) /\ m.to \in Opt(Instants)
           /\ (m.from # Null => m.from <= t) /\ (m.to # Null => t <= m.to)
           /\ before.account = m.account /\ before.user = Null /\ WindowCounts(before)
           /\ before.from = m.from /\ before.to = t
           /\ after.account = m.account /\ after.user = Null /\ WindowCounts(after)
           /\ after.from = t /\ after.to = m.to
<1>1. t \in Instants /\ t # Null
  BY InstantsAssumption, SentinelAssumption DEF Cuts
<1>2. (m.from # Null => m.from <= t) /\ (m.to # Null => t <= m.to)
  BY DEF Cuts
<1>3. /\ before.account = m.account /\ before.user = Null
      /\ before.from = m.from /\ before.to = t
      /\ after.account = m.account /\ after.user = Null
      /\ after.from = t /\ after.to = m.to
      /\ m.from \in Opt(Instants) /\ m.to \in Opt(Instants)
  BY DEF ListExpensesRequest
<1>. QED  BY <1>1, <1>2, <1>3 DEF WindowCounts

\* A window cut at t tiles the list of expenses,
LEMMA ExpensesTile ==
    ASSUME TypeOK, NEW m \in ListExpensesRequest, m.user = Null, WindowCounts(m),
           NEW t \in Cuts(m)
    PROVE  Tile(ListExpenses, m, t)
<1>. DEFINE In(from, to) ==
              {x \in DOMAIN expenses :
                 /\ m.account # Null => expenses[x].account = m.account
                 /\ InWindow(expenses[x].date, from, to)}
            Messages(from, to) == {expenseToProto(x) : x \in In(from, to)}
            before == [m EXCEPT !.to = t]
            after == [m EXCEPT !.from = t]
<1>1. ASSUME NEW n, n.account = m.account, n.user = Null, WindowCounts(n)
      PROVE  ListExpenses(n) = Messages(n.from, n.to)
  BY <1>1 DEF ListExpenses, ListExpensesByAccount, ListExpensesByDateRange, WindowCounts,
     InWindow
<1>2. /\ t \in Instants /\ m.from \in Opt(Instants) /\ m.to \in Opt(Instants)
      /\ (m.from # Null => m.from <= t) /\ (m.to # Null => t <= m.to)
      /\ before.account = m.account /\ before.user = Null /\ WindowCounts(before)
      /\ before.from = m.from /\ before.to = t
      /\ after.account = m.account /\ after.user = Null /\ WindowCounts(after)
      /\ after.from = t /\ after.to = m.to
  <2>. HIDE DEF before, after
  <2>1. before = [m EXCEPT !.to = t] /\ after = [m EXCEPT !.from = t]
    BY DEF before, after
  <2>. QED  BY <2>1, CutRequest
<1>3. In(m.from, m.to) = In(m.from, t) \cup In(t, m.to) /\ In(m.from, t) \cap In(t, m.to) = {}
  BY <1>2, WindowCut, DatesAreNat
<1>. HIDE DEF In
<1>4. Messages(m.from, t) \cap Messages(t, m.to) = {}
  BY <1>3, RowsNamed
<1>5. Messages(m.from, m.to) = Messages(m.from, t) \cup Messages(t, m.to)
  BY <1>3
<1>. HIDE DEF Messages
<1>6. ListExpenses(m) = Messages(m.from, m.to)
  BY <1>1
<1>. HIDE DEF before, after
<1>7. ListExpenses(before) = Messages(m.from, t) /\ ListExpenses(after) = Messages(t, m.to)
  BY <1>1, <1>2
<1>. QED  BY <1>4, <1>5, <1>6, <1>7 DEF Tile, before, after

\* of incomes,
LEMMA IncomesTile ==
    ASSUME TypeOK, NEW m \in ListExpensesRequest, m.user = Null, WindowCounts(m),
           NEW t \in Cuts(m)
    PROVE  Tile(ListIncomes, m, t)
<1>. DEFINE In(from, to) ==
              {x \in DOMAIN incomes :
                 /\ m.account # Null => incomes[x].account = m.account
                 /\ InWindow(incomes[x].date, from, to)}
            Messages(from, to) == {incomeToProto(x) : x \in In(from, to)}
            before == [m EXCEPT !.to = t]
            after == [m EXCEPT !.from = t]
<1>1. ASSUME NEW n, n.account = m.account, n.user = Null, WindowCounts(n)
      PROVE  ListIncomes(n) = Messages(n.from, n.to)
  BY <1>1 DEF ListIncomes, ListIncomesByAccount, ListIncomesByDateRange, WindowCounts,
     InWindow
<1>2. /\ t \in Instants /\ m.from \in Opt(Instants) /\ m.to \in Opt(Instants)
      /\ (m.from # Null => m.from <= t) /\ (m.to # Null => t <= m.to)
      /\ before.account = m.account /\ before.user = Null /\ WindowCounts(before)
      /\ before.from = m.from /\ before.to = t
      /\ after.account = m.account /\ after.user = Null /\ WindowCounts(after)
      /\ after.from = t /\ after.to = m.to
  <2>. HIDE DEF before, after
  <2>1. before = [m EXCEPT !.to = t] /\ after = [m EXCEPT !.from = t]
    BY DEF before, after
  <2>. QED  BY <2>1, CutRequest
<1>3. In(m.from, m.to) = In(m.from, t) \cup In(t, m.to) /\ In(m.from, t) \cap In(t, m.to) = {}
  BY <1>2, WindowCut, DatesAreNat
<1>. HIDE DEF In
<1>4. Messages(m.from, t) \cap Messages(t, m.to) = {}
  BY <1>3, RowsNamed
<1>5. Messages(m.from, m.to) = Messages(m.from, t) \cup Messages(t, m.to)
  BY <1>3
<1>. HIDE DEF Messages
<1>6. ListIncomes(m) = Messages(m.from, m.to)
  BY <1>1
<1>. HIDE DEF before, after
<1>7. ListIncomes(before) = Messages(m.from, t) /\ ListIncomes(after) = Messages(t, m.to)
  BY <1>1, <1>2
<1>. QED  BY <1>4, <1>5, <1>6, <1>7 DEF Tile, before, after

\* and of transfers.
LEMMA TransfersTile ==
    ASSUME TypeOK, NEW m \in ListTransfersRequest, m.account # Null, NEW t \in Cuts(m)
    PROVE  Tile(ListTransfers, m, t)
<1>. DEFINE In(from, to) ==
              {x \in DOMAIN transfers : /\ m.account \in {transfers[x].from, transfers[x].to}
                                        /\ InWindow(transfers[x].date, from, to)}
            Messages(from, to) == {transferToProto(x) : x \in In(from, to)}
            before == [m EXCEPT !.to = t]
            after == [m EXCEPT !.from = t]
<1>1. ASSUME NEW n, n.account = m.account
      PROVE  ListTransfers(n) = Messages(n.from, n.to)
  BY <1>1 DEF ListTransfers, ListTransfersByAccount
<1>2. /\ t \in Instants /\ m.from \in Opt(Instants) /\ m.to \in Opt(Instants)
      /\ (m.from # Null => m.from <= t) /\ (m.to # Null => t <= m.to)
  BY DEF Cuts, ListTransfersRequest
<1>3. /\ before.account = m.account /\ before.from = m.from /\ before.to = t
      /\ after.account = m.account /\ after.from = t /\ after.to = m.to
  BY DEF ListTransfersRequest
<1>4. In(m.from, m.to) = In(m.from, t) \cup In(t, m.to) /\ In(m.from, t) \cap In(t, m.to) = {}
  BY <1>2, WindowCut, DatesAreNat
<1>. HIDE DEF In
<1>5. Messages(m.from, t) \cap Messages(t, m.to) = {}
  BY <1>4, RowsNamed
<1>6. Messages(m.from, m.to) = Messages(m.from, t) \cup Messages(t, m.to)
  BY <1>4
<1>. HIDE DEF Messages
<1>7. ListTransfers(m) = Messages(m.from, m.to)
  BY <1>1
<1>. HIDE DEF before, after
<1>8. ListTransfers(before) = Messages(m.from, t) /\ ListTransfers(after) = Messages(t, m.to)
  BY <1>1, <1>3
<1>. QED  BY <1>5, <1>6, <1>7, <1>8 DEF Tile, before, after

\* Whatever the tables hold, a window cut at any instant repeats and drops no row.
THEOREM WindowsCut == Spec => []WindowsTile
<1>1. TypeOK => WindowsTile
  <2>. SUFFICES ASSUME TypeOK PROVE WindowsTile
    OBVIOUS
  <2>1. ListExpensesRequest = ListIncomesRequest
    BY DEF ListExpensesRequest, ListIncomesRequest
  <2>. QED
    BY <2>1, ExpensesTile, IncomesTile, TransfersTile DEF WindowsTile
<1>. QED  BY <1>1, BooksTypeCorrect, PTL
-----------------------------------------------------------------------------
(***************************************************************************)
(* Users.                                                                  *)
(***************************************************************************)
\* Nobody prices the fee of an income.  With this, the exception of
\* OwnerFollowsAccount does not reach the statistics.
IncomeFeesUnpriced ==
    \A x \in DOMAIN expenses : expenses[x].income # Null => expenses[x].base = Null

\* No step prices such a fee: UpdateExpense leaves base_amount and income_id alone.
LEMMA FeesStayUnpriced == TypeOK /\ IncomeFeesUnpriced /\ [Next]_vars => IncomeFeesUnpriced'
<1>. SUFFICES ASSUME TypeOK, IncomeFeesUnpriced, [Next]_vars PROVE IncomeFeesUnpriced'
  OBVIOUS
<1>. USE DEF IncomeFeesUnpriced
<1>1. CASE UNCHANGED expenses
  BY <1>1
<1>2. ASSUME NEW id, NEW m, CreateExpense(id, m) PROVE IncomeFeesUnpriced'
  BY <1>2 DEF CreateExpense, With, Row, Purchase
<1>3. ASSUME NEW id, NEW m, CreateIncome(id, m) PROVE IncomeFeesUnpriced'
  BY <1>3 DEF CreateIncome, NewIncome, With, Row, CommissionFee, NoRows, Fee
<1>4. ASSUME NEW id \in Ids, NEW m \in TransferRequests, NEW link \in Opt(Ids),
             CreateTransfer(id, m, link)
      PROVE  IncomeFeesUnpriced'
  <2>1. /\ \A x \in DOMAIN expenses' \ DOMAIN expenses :
              \E a \in {m.from, m.to} \ {Null} : expenses'[x] \in FeeRows(a, id)
        /\ \A x \in DOMAIN expenses : expenses'[x] = expenses[x]
    BY <1>4, CreateTransferTyped
  <2>. QED  BY <2>1 DEF FeeRows
<1>5. ASSUME NEW y, NEW m, UpdateExpense(y, m) PROVE IncomeFeesUnpriced'
  BY <1>5 DEF UpdateExpense, ExpenseAfter, TypeOK, IsTable
<1>6. ASSUME NEW S, expenses' = Without(expenses, S) PROVE IncomeFeesUnpriced'
  BY <1>6 DEF Without, Restrict
<1>. QED
  BY <1>1, <1>2, <1>3, <1>4, <1>5, <1>6 DEF Next, vars, CreateAccount, UpdateAccount,
     DeactivateAccount, DeleteExpense, DeleteIncome, DeleteTransfer, UpdateIncome

\* A user's statistics, the user's list and the lists of the user's accounts have the
\* same priced expenses in every reachable state.
THEOREM UsersAgree == Spec => []UserViewsAgree
<1>1. TypeOK /\ NoDangling /\ OwnerFollowsAccount /\ IncomeFeesUnpriced => UserViewsAgree
  <2>. SUFFICES ASSUME TypeOK, NoDangling, OwnerFollowsAccount, IncomeFeesUnpriced,
                       NEW u \in ListUsers
                PROVE  LET ListOf(a, by) ==
                               {n.id : n \in {n \in ListExpenses([ account |-> a, user |-> by,
                                             from |-> Null, to |-> Null ]) : n.base # Null}}
                           spent == Priced([ baseCurrency |-> EUR, user |-> u ])
                       IN  /\ spent = ListOf(Null, u)
                           /\ spent = UNION {ListOf(a, Null) :
                                             a \in {a \in DOMAIN accounts : Owner(a) = u}}
    BY DEF UserViewsAgree
  <2>. DEFINE Asked(a, by) == [ account |-> a, user |-> by, from |-> Null, to |-> Null ]
              ListOf(a, by) == {n.id : n \in {n \in ListExpenses(Asked(a, by)) : n.base # Null}}
              spent == {x \in DOMAIN expenses : expenses[x].base # Null /\ expenses[x].user = u}
  <2>1. u # Null
    BY SentinelAssumption DEF ListUsers
  <2>2. Priced([ baseCurrency |-> EUR, user |-> u ]) = spent
    BY <2>1 DEF Priced
  <2>3. \A x : expenseToProto(x).id = x /\ expenseToProto(x).base = expenses[x].base
    BY DEF expenseToProto
  <2>4. ListOf(Null, u) = spent
    <3>1. ListExpenses(Asked(Null, u)) =
          {expenseToProto(x) : x \in {x \in DOMAIN expenses : expenses[x].user = u}}
      BY <2>1 DEF ListExpenses, ListExpensesByUser
    <3>. HIDE DEF Asked
    <3>. QED  BY <3>1, <2>3
  <2>5. ASSUME NEW a \in DOMAIN accounts
        PROVE  ListOf(a, Null) = {x \in DOMAIN expenses : /\ expenses[x].base # Null
                                                          /\ expenses[x].account = a}
    <3>1. a # Null
      BY SentinelAssumption DEF TypeOK, IsTable
    <3>2. Asked(a, Null).account = a /\ Asked(a, Null).from = Null /\ Asked(a, Null).to = Null
      OBVIOUS
    <3>. HIDE DEF Asked
    <3>3. ListExpenses(Asked(a, Null)) =
          {expenseToProto(x) : x \in {x \in DOMAIN expenses : expenses[x].account = a}}
      BY <3>1, <3>2 DEF ListExpenses, ListExpensesByAccount, InWindow
    <3>. QED  BY <3>3, <2>3
  <2>. HIDE DEF ListOf
  <2>6. spent = UNION {ListOf(a, Null) : a \in {a \in DOMAIN accounts : Owner(a) = u}}
    BY <2>5 DEF NoDangling, OwnerFollowsAccount, IncomeFeesUnpriced
  <2>. QED  BY <2>2, <2>4, <2>6 DEF ListOf
<1>2. Init => IncomeFeesUnpriced
  BY DEF Init, NoRows, IncomeFeesUnpriced
<1>. QED
  BY <1>1, <1>2, FeesStayUnpriced, BooksTypeCorrect, NothingDangles, OwnersFollow, PTL DEF Spec
-----------------------------------------------------------------------------
(***************************************************************************)
(* Months.                                                                 *)
(***************************************************************************)
LEMMA DaysBetween ==
    ASSUME NEW a \in Int, NEW b \in Int
    PROVE  (b - a) * DayLength = Midnight(b) - Midnight(a)
<1>1. DayLength \in Int
  BY DayAssumption
<1>. QED  BY <1>1 DEF Midnight

\* The days an average is taken over are the days summed up, for any year and any
\* month a client sends.
THEOREM MonthLengthsAgree == Spec => []MonthsWrap
<1>1. ASSUME NEW y \in AskedYears, NEW k \in AskedMonths
      PROVE  daysInMonth(y, k) * DayLength = monthRange(y, k).to - monthRange(y, k).from
  <2>. DEFINE first == Date(y, k, 1)
              next == Date(y, k + 1, 1)
  <2>1. y \in Int /\ k \in Int /\ YearAt(y, k) \in Years
    BY StatsAssumption, DayAssumption
  <2>2. first \in Int /\ next \in Int /\ daysInMonth(y, k) = next - first
    BY <2>1, LengthOfMonth
  <2>3. monthRange(y, k).from = Midnight(first) /\ monthRange(y, k).to = Midnight(next)
    BY DEF monthRange
  <2>. HIDE DEF first, next
  <2>. QED  BY <2>2, <2>3, DaysBetween
<1>2. ASSUME NEW y, NEW k
      PROVE  GetMonthStats(OfMonth(y, k)).daysInMonth = daysInMonth(y, k)
  BY DEF GetMonthStats, OfMonth
<1>3. MonthsWrap
  BY <1>1, <1>2 DEF MonthsWrap
<1>. QED  BY <1>3, PTL
-----------------------------------------------------------------------------
(***************************************************************************)
(* Balances, read while the books are written.                             *)
(***************************************************************************)
\* The totals of an account are made of its entries and of nothing else.
LEMMA TotalsOfEntries ==
    ASSUME NEW a, Entries(a)' = Entries(a), NEW acc
    PROVE  /\ TotalCounted(expenses', a, acc) = TotalCounted(expenses, a, acc)
           /\ TotalCounted(incomes', a, acc) = TotalCounted(incomes, a, acc)
<1>1. ASSUME NEW t, NEW u,
             Restrict(t, {x \in DOMAIN t : t[x].account = a}) =
             Restrict(u, {x \in DOMAIN u : u[x].account = a})
      PROVE  TotalCounted(t, a, acc) = TotalCounted(u, a, acc)
  <2> DEFINE T == {x \in DOMAIN t : t[x].account = a}
             U == {x \in DOMAIN u : u[x].account = a}
             CT == {k \in DOMAIN t : Counted(t[k], a, acc)}
             CU == {k \in DOMAIN u : Counted(u[k], a, acc)}
  <2>1. T = U /\ \A x \in T : t[x] = u[x]
    <3>1. [x \in T |-> t[x]] = [x \in U |-> u[x]]
      BY <1>1 DEF Restrict
    <3> HIDE DEF T, U
    <3> QED
      BY <3>1
  <2>2. CT = CU /\ \A x \in CT : t[x] = u[x]
    <3>1. CT = {k \in T : Counted(t[k], a, acc)} /\ CU = {k \in U : Counted(u[k], a, acc)}
      BY DEF Counted
    <3> HIDE DEF T, U
    <3> QED
      BY <2>1, <3>1
  <2>3. [k \in CT |-> AmountIn(t[k], acc.currency)] = [k \in CU |-> AmountIn(u[k], acc.currency)]
    <3> HIDE DEF CT, CU
    <3> QED
      BY <2>2
  <2> QED
    BY <2>3 DEF TotalCounted
<1>2. /\ Restrict(expenses', {x \in DOMAIN expenses' : expenses'[x].account = a}) =
         Restrict(expenses, {x \in DOMAIN expenses : expenses[x].account = a})
      /\ Restrict(incomes', {i \in DOMAIN incomes' : incomes'[i].account = a}) =
         Restrict(incomes, {i \in DOMAIN incomes : incomes[i].account = a})
  BY DEF Entries
<1> QED
  BY <1>1, <1>2

\* So are its transfers, in and out.
LEMMA TransfersOfEntries ==
    ASSUME NEW a, Entries(a)' = Entries(a), NEW acc
    PROVE  /\ GetAccountTransfersOut(a, acc)' = GetAccountTransfersOut(a, acc)
           /\ GetAccountTransfersIn(a, acc)' = GetAccountTransfersIn(a, acc)
<1> DEFINE Out(t) == {<<k, t[k].date, t[k].fromAmount>> : k \in {k \in DOMAIN t : t[k].from = a}}
           In(t) == {<<k, t[k].date, t[k].toAmount>> : k \in {k \in DOMAIN t : t[k].to = a}}
           Left(t) == {k \in DOMAIN t : /\ t[k].from = a /\ t[k].date >= acc.since
                                        /\ t[k].fromAmount # Null}
           Came(t) == {k \in DOMAIN t : t[k].to = a /\ t[k].date >= acc.since}
<1>1. Out(transfers') = Out(transfers) /\ In(transfers') = In(transfers)
  BY Zenon DEF Entries
<1>2. ASSUME NEW t, NEW u, Out(t) \subseteq Out(u), NEW k \in Left(t)
      PROVE  k \in Left(u) /\ t[k].fromAmount = u[k].fromAmount
  <2>1. <<k, t[k].date, t[k].fromAmount>> \in Out(u)
    BY <1>2
  <2> QED
    BY <2>1
<1>3. ASSUME NEW t, NEW u, In(t) \subseteq In(u), NEW k \in Came(t)
      PROVE  k \in Came(u) /\ t[k].toAmount = u[k].toAmount
  <2>1. <<k, t[k].date, t[k].toAmount>> \in In(u)
    BY <1>3
  <2> QED
    BY <2>1
<1>4. [k \in Left(transfers') |-> transfers'[k].fromAmount] =
      [k \in Left(transfers) |-> transfers[k].fromAmount]
  <2>1. /\ Left(transfers') = Left(transfers)
        /\ \A k \in Left(transfers) : transfers'[k].fromAmount = transfers[k].fromAmount
    <3> DEFINE old == transfers
               new == transfers'
    <3>1. Out(new) \subseteq Out(old) /\ Out(old) \subseteq Out(new)
      BY <1>1
    <3> HIDE DEF Out, Left, old, new
    <3>2. \A k \in Left(new) : k \in Left(old) /\ new[k].fromAmount = old[k].fromAmount
      BY <1>2, <3>1, Zenon
    <3>3. \A k \in Left(old) : k \in Left(new)
      BY <1>2, <3>1, Zenon
    <3>4. Left(new) = Left(old) /\ \A k \in Left(old) : new[k].fromAmount = old[k].fromAmount
      BY <3>2, <3>3
    <3> QED
      BY <3>4 DEF old, new
  <2> HIDE DEF Left
  <2> QED
    BY <2>1
<1>5. [k \in Came(transfers') |-> transfers'[k].toAmount] =
      [k \in Came(transfers) |-> transfers[k].toAmount]
  <2>1. /\ Came(transfers') = Came(transfers)
        /\ \A k \in Came(transfers) : transfers'[k].toAmount = transfers[k].toAmount
    <3> DEFINE old == transfers
               new == transfers'
    <3>1. In(new) \subseteq In(old) /\ In(old) \subseteq In(new)
      BY <1>1
    <3> HIDE DEF In, Came, old, new
    <3>2. \A k \in Came(new) : k \in Came(old) /\ new[k].toAmount = old[k].toAmount
      BY <1>3, <3>1, Zenon
    <3>3. \A k \in Came(old) : k \in Came(new)
      BY <1>3, <3>1, Zenon
    <3>4. Came(new) = Came(old) /\ \A k \in Came(old) : new[k].toAmount = old[k].toAmount
      BY <3>2, <3>3
    <3> QED
      BY <3>4 DEF old, new
  <2> HIDE DEF Came
  <2> QED
    BY <2>1
<1> QED
  BY <1>4, <1>5 DEF GetAccountTransfersOut, GetAccountTransfersIn

\* What the queries so far have added up, if nothing of the account has changed since the
\* first of them, is what they would add up now.
SoFar(a, acc) ==
    CASE query = "out" -> acc.initial - GetAccountExpenses(a, acc)
      [] query = "in" -> acc.initial - GetAccountExpenses(a, acc) - GetAccountTransfersOut(a, acc)
      [] OTHER -> acc.initial - GetAccountExpenses(a, acc) - GetAccountTransfersOut(a, acc)
                    + GetAccountTransfersIn(a, acc)

ReaderInv ==
    current # Null => /\ current \in Accounts \cap DOMAIN listed /\ query \in {"out", "in", "incomes"}
                      /\ still => sum = SoFar(current, listed[current])

\* The invariant holds after every step of the reader and of the writers.
LEMMA ReaderStep == ReaderInv /\ [ReaderNext]_allVars => ReaderInv'
<1> SUFFICES ASSUME ReaderInv, [ReaderNext]_allVars PROVE ReaderInv'
  OBVIOUS
<1>1. CASE UNCHANGED allVars
  BY <1>1 DEF ReaderInv, SoFar, allVars, vars, reader, GetAccountExpenses,
     GetAccountTransfersOut, GetAccountTransfersIn, TotalCounted
<1>2. CASE Write
  <2>1. SUFFICES ASSUME current # Null, still'
                 PROVE  SoFar(current, listed[current])' = SoFar(current, listed[current])
    BY <1>2, Zenon DEF ReaderInv, Write
  <2>2. /\ current \in Accounts /\ Entries(current)' = Entries(current)
        /\ current' = current /\ listed' = listed /\ query' = query
    BY <1>2, <2>1 DEF ReaderInv, Write
  <2> QED
    BY <2>2, TotalsOfEntries, TransfersOfEntries DEF SoFar, GetAccountExpenses
<1>3. ASSUME listed = NoRows, current' = current PROVE ReaderInv'
  BY <1>3 DEF ReaderInv, NoRows
<1>4. CASE \/ \E user \in Opt(Users) : ListAccounts(user)
           \/ \E a \in Accounts, m \in AccountEdits : UpdateAndRead(a, m)
  BY <1>3, <1>4 DEF ListAccounts, UpdateAndRead, StartReading
<1>5. ASSUME UNCHANGED vars, NEW a, NEW acc
      PROVE  /\ GetAccountExpenses(a, acc)' = GetAccountExpenses(a, acc)
             /\ GetAccountTransfersOut(a, acc)' = GetAccountTransfersOut(a, acc)
             /\ GetAccountTransfersIn(a, acc)' = GetAccountTransfersIn(a, acc)
  <2>1. UNCHANGED <<expenses, transfers>>
    BY <1>5 DEF vars
  <2> QED
    BY <2>1, Zenon DEF GetAccountExpenses, TotalCounted, GetAccountTransfersOut, GetAccountTransfersIn
<1>6. ASSUME NEW a \in Accounts, AskExpenses(a) PROVE ReaderInv'
  <2>1. /\ UNCHANGED vars /\ listed' = listed /\ a \in DOMAIN listed
        /\ current' = a /\ query' = "out"
        /\ sum' = listed[a].initial - GetAccountExpenses(a, listed[a])
    BY <1>6 DEF AskExpenses, RowOf
  <2> QED
    BY <1>5, <2>1 DEF ReaderInv, SoFar
<1>7. ASSUME NEW a \in Accounts, AskTransfersOut(a) PROVE ReaderInv'
  <2>1. /\ UNCHANGED vars /\ listed' = listed /\ current = a /\ query = "out"
        /\ current' = a /\ query' = "in" /\ still' = still
        /\ sum' = sum - GetAccountTransfersOut(a, listed[a])
    BY <1>7 DEF AskTransfersOut, Ask, RowOf
  <2> QED
    BY <1>5, <2>1 DEF ReaderInv, SoFar
<1>8. ASSUME NEW a \in Accounts, AskTransfersIn(a) PROVE ReaderInv'
  <2>1. /\ UNCHANGED vars /\ listed' = listed /\ current = a /\ query = "in"
        /\ current' = a /\ query' = "incomes" /\ still' = still
        /\ sum' = sum + GetAccountTransfersIn(a, listed[a])
    BY <1>8 DEF AskTransfersIn, Ask, RowOf
  <2> QED
    BY <1>5, <2>1 DEF ReaderInv, SoFar
<1>9. CASE Respond \/ \E a \in Accounts : AskIncomes(a)
  BY <1>9 DEF Respond, AskIncomes, ReaderInv
<1> QED
  BY <1>1, <1>2, <1>4, <1>6, <1>7, <1>8, <1>9 DEF ReaderNext

\* An answered balance is that of the moment of the last query, if no entry of the account
\* changed since the first (withBalance, ListAccounts).
THEOREM ExactBalances == ReaderSpec => ExactWhenStill
<1>1. ReaderInit => ReaderInv
  BY DEF ReaderInit, ReaderInv
<1>2. ReaderInv /\ [ReaderNext]_allVars =>
      [\A a \in DOMAIN answer' \ DOMAIN answer :
          still => answer'[a] = Balance(a, listed[a])]_allVars
  <2> SUFFICES ASSUME ReaderInv, ReaderNext, NEW a \in DOMAIN answer' \ DOMAIN answer, still
               PROVE  answer'[a] = Balance(a, listed[a])
    BY Zenon
  <2>1. PICK c \in Accounts : AskIncomes(c)
    <3>1. CASE answer' = answer \/ answer' = NoRows
      BY <3>1 DEF NoRows
    <3>2. CASE Write \/ \E user \in Opt(Users) : ListAccounts(user)
      BY <3>1, <3>2 DEF Write, ListAccounts, StartReading
    <3>3. ASSUME NEW b \in Accounts, \/ \E m \in AccountEdits : UpdateAndRead(b, m)
                                     \/ AskExpenses(b) \/ AskTransfersOut(b) \/ AskTransfersIn(b)
          PROVE  FALSE
      BY <3>1, <3>3 DEF UpdateAndRead, StartReading, AskExpenses, AskTransfersOut,
         AskTransfersIn, Ask
    <3>4. CASE Respond
      BY <3>1, <3>4 DEF Respond
    <3> QED
      BY <3>2, <3>3, <3>4 DEF ReaderNext
  <2>2. /\ current = c /\ query = "incomes"
        /\ answer' = With(answer, Row(c, sum + GetAccountIncomes(c, listed[c])))
    BY <2>1 DEF AskIncomes, RowOf
  <2>3. a = c /\ answer'[a] = sum + GetAccountIncomes(c, listed[c])
    BY <2>2 DEF With, Row
  <2>4. c # Null
    BY SentinelAssumption
  <2>5. sum = SoFar(c, listed[c])
    BY <2>2, <2>4 DEF ReaderInv
  <2> QED
    BY <2>2, <2>3, <2>5 DEF SoFar, Balance
<1> QED
  BY <1>1, <1>2, ReaderStep, PTL DEF ReaderSpec, ExactWhenStill
-----------------------------------------------------------------------------
(***************************************************************************)
(* Sums over the tables.                                                   *)
(***************************************************************************)
\* A handler inserts at most a row of each kind and two fees: there are never more than
\* finitely many, so that the queries have sums.
FiniteTables ==
    /\ IsFiniteSet(DOMAIN expenses) /\ IsFiniteSet(DOMAIN incomes)
    /\ IsFiniteSet(DOMAIN transfers)

\* Rows put in and rows taken out.
LEMMA FinitelyMany ==
    /\ \A t, u : IsFiniteSet(DOMAIN t) /\ IsFiniteSet(DOMAIN u) => IsFiniteSet(DOMAIN With(t, u))
    /\ \A t, K : IsFiniteSet(DOMAIN t) => IsFiniteSet(DOMAIN Without(t, K))
    /\ \A k, row : IsFiniteSet(DOMAIN Row(k, row))
    /\ IsFiniteSet(DOMAIN NoRows)
<1>1. ASSUME NEW t, NEW u, IsFiniteSet(DOMAIN t), IsFiniteSet(DOMAIN u)
      PROVE  IsFiniteSet(DOMAIN With(t, u))
  <2>1. DOMAIN With(t, u) = DOMAIN t \cup DOMAIN u
    BY DEF With
  <2> QED
    BY <1>1, <2>1, FS_Union
<1>2. ASSUME NEW t, NEW K, IsFiniteSet(DOMAIN t) PROVE IsFiniteSet(DOMAIN Without(t, K))
  <2>1. DOMAIN Without(t, K) \subseteq DOMAIN t
    BY DEF Without, Restrict
  <2> QED
    BY <1>2, <2>1, FS_Subset
<1>3. ASSUME NEW k, NEW row PROVE IsFiniteSet(DOMAIN Row(k, row))
  <2>1. DOMAIN Row(k, row) = {k}
    BY DEF Row
  <2> QED
    BY <2>1, FS_Singleton
<1>4. IsFiniteSet(DOMAIN NoRows)
  <2>1. DOMAIN NoRows = {}
    BY DEF NoRows
  <2> QED
    BY <2>1, FS_EmptySet
<1> QED
  BY <1>1, <1>2, <1>3, <1>4

\* Every step keeps the tables finite.
LEMMA FiniteStep == FiniteTables /\ [Next]_vars => FiniteTables'
<1> SUFFICES ASSUME FiniteTables, [Next]_vars PROVE FiniteTables'
  OBVIOUS
<1>1. CASE UNCHANGED <<expenses, incomes, transfers>>
  BY <1>1 DEF FiniteTables
<1>2. ASSUME NEW id, NEW m, CreateExpense(id, m) PROVE FiniteTables'
  BY <1>2, FinitelyMany DEF CreateExpense, FiniteTables
<1>3. ASSUME NEW id, NEW m, CreateIncome(id, m) PROVE FiniteTables'
  BY <1>3, FinitelyMany DEF CreateIncome, CommissionFee, FiniteTables
<1>4. ASSUME NEW id, NEW m, NEW link, CreateTransfer(id, m, link) PROVE FiniteTables'
  BY <1>4, FinitelyMany DEF CreateTransfer, SourceFee, DestinationFee, FiniteTables
<1>5. ASSUME NEW x, NEW m, UpdateExpense(x, m) PROVE FiniteTables'
  BY <1>5 DEF UpdateExpense, FiniteTables
<1>6. ASSUME NEW i, NEW m, UpdateIncome(i, m) PROVE FiniteTables'
  BY <1>6 DEF UpdateIncome, FiniteTables
<1>7. ASSUME NEW x, DeleteExpense(x) PROVE FiniteTables'
  BY <1>7, FinitelyMany DEF DeleteExpense, FiniteTables
<1>8. ASSUME NEW i, DeleteIncome(i) PROVE FiniteTables'
  BY <1>8, FinitelyMany DEF DeleteIncome, FiniteTables
<1>9. ASSUME NEW t, DeleteTransfer(t) PROVE FiniteTables'
  <2>1. DOMAIN transfers' = DOMAIN transfers \ {t} /\ expenses' = Without(expenses, TransferFees(t))
        /\ incomes' = incomes
    BY <1>9 DEF DeleteTransfer
  <2> QED
    BY <2>1, FinitelyMany, FS_RemoveElement DEF FiniteTables
<1> QED
  BY <1>1, <1>2, <1>3, <1>4, <1>5, <1>6, <1>7, <1>8, <1>9
     DEF Next, vars, CreateAccount, UpdateAccount, DeactivateAccount

\* There are never more than finitely many rows.
THEOREM TablesFinite == Spec => []FiniteTables
<1>1. Init => FiniteTables
  BY FinitelyMany DEF Init, FiniteTables
<1> QED
  BY <1>1, FiniteStep, PTL DEF Spec

\* The sum over the messages of a list is the sum over the rows they stand for.
LEMMA SumOfMessages ==
    ASSUME NEW S, IsFiniteSet(S), NEW message, NEW v, NEW w,
           \A x, y \in S : message[x] = message[y] => x = y,
           \A x \in S : v[x] \in Int /\ v[x] = w[message[x]],
           v = [x \in S |-> v[x]], NEW M, M = {message[x] : x \in S}, w = [m \in M |-> w[m]]
    PROVE  SumFunction(w) = SumFunction(v)
<1>1. DOMAIN v = S /\ DOMAIN w = M
  OBVIOUS
<1>2. SumFunctionOnSet(v, S) = SumFunctionOnSet(w, {message[x] : x \in S})
  BY SumImage
<1> QED
  BY <1>1, <1>2 DEF SumFunction

\* What is counted of a row is a number.
LEMMA AmountsTyped ==
    ASSUME TypeOK
    PROVE  /\ \A cur : \A x \in DOMAIN expenses : AmountIn(expenses[x], cur) \in Int
           /\ \A cur : \A i \in DOMAIN incomes : AmountIn(incomes[i], cur) \in Int
           /\ \A t \in DOMAIN transfers : /\ transfers[t].toAmount \in Int
                                          /\ transfers[t].fromAmount # Null =>
                                                transfers[t].fromAmount \in Int
<1>1. \A x \in DOMAIN expenses : expenses[x] \in ExpenseRow
  BY DEF TypeOK, IsTable
<1>2. \A i \in DOMAIN incomes : incomes[i] \in IncomeRow
  BY DEF TypeOK, IsTable
<1>3. \A t \in DOMAIN transfers : transfers[t] \in TransferRow
  BY DEF TypeOK, IsTable
<1> QED
  BY <1>1, <1>2, <1>3 DEF AmountIn, ExpenseRow, IncomeRow, TransferRow, Opt

\* A sum of numbers over part of a table is a number.
LEMMA SumTyped ==
    ASSUME NEW S, IsFiniteSet(S), NEW v, v = [x \in S |-> v[x]], \A x \in S : v[x] \in Int
    PROVE  SumFunction(v) \in Int
<1>1. DOMAIN v = S
  OBVIOUS
<1> QED
  BY <1>1, SumInt DEF SumFunction

\* The four totals of a balance are numbers.
LEMMA TotalsTyped ==
    ASSUME TypeOK, FiniteTables, NEW a, NEW acc
    PROVE  /\ GetAccountExpenses(a, acc) \in Int /\ GetAccountIncomes(a, acc) \in Int
           /\ GetAccountTransfersOut(a, acc) \in Int /\ GetAccountTransfersIn(a, acc) \in Int
<1>1. ASSUME NEW table, IsFiniteSet(DOMAIN table),
             \A x \in DOMAIN table : AmountIn(table[x], acc.currency) \in Int
      PROVE  TotalCounted(table, a, acc) \in Int
  <2> DEFINE S == {k \in DOMAIN table : Counted(table[k], a, acc)}
             v == [k \in S |-> AmountIn(table[k], acc.currency)]
  <2>1. IsFiniteSet(S) /\ v = [x \in S |-> v[x]] /\ \A x \in S : v[x] \in Int
    BY <1>1, FS_Subset
  <2>2. SumFunction(v) \in Int
    <3> HIDE DEF S, v
    <3> QED
      BY <2>1, SumTyped
  <2> QED
    BY <2>2 DEF TotalCounted
<1>2. GetAccountTransfersOut(a, acc) \in Int
  <2> DEFINE S == {t \in DOMAIN transfers : /\ transfers[t].from = a /\ transfers[t].date >= acc.since
                                            /\ transfers[t].fromAmount # Null}
             v == [t \in S |-> transfers[t].fromAmount]
  <2>1. IsFiniteSet(S) /\ v = [x \in S |-> v[x]] /\ \A x \in S : v[x] \in Int
    BY AmountsTyped, FS_Subset DEF FiniteTables
  <2>2. SumFunction(v) \in Int
    <3> HIDE DEF S, v
    <3> QED
      BY <2>1, SumTyped
  <2> QED
    BY <2>2 DEF GetAccountTransfersOut
<1>3. GetAccountTransfersIn(a, acc) \in Int
  <2> DEFINE S == {t \in DOMAIN transfers : transfers[t].to = a /\ transfers[t].date >= acc.since}
             v == [t \in S |-> transfers[t].toAmount]
  <2>1. IsFiniteSet(S) /\ v = [x \in S |-> v[x]] /\ \A x \in S : v[x] \in Int
    BY AmountsTyped, FS_Subset DEF FiniteTables
  <2>2. SumFunction(v) \in Int
    <3> HIDE DEF S, v
    <3> QED
      BY <2>1, SumTyped
  <2> QED
    BY <2>2 DEF GetAccountTransfersIn
<1> QED
  BY <1>1, <1>2, <1>3, AmountsTyped DEF FiniteTables, GetAccountExpenses, GetAccountIncomes

\* Since a day means from that day on.
LEMMA Since ==
    ASSUME NEW since \in Nat, NEW date
    PROVE  InWindow(date, since, Null) <=> date >= since
BY SentinelAssumption DEF InWindow

\* The list of an account's expenses since its first day sums up to GetAccountExpenses,
LEMMA ExpensesExplained ==
    ASSUME TypeOK, FiniteTables, NEW a \in DOMAIN accounts, NEW acc, acc.since \in Nat,
           NEW messages,
           messages = ListExpenses([account |-> a, user |-> Null, from |-> acc.since, to |-> Null])
    PROVE  SumFunction([m \in {m \in messages : InCurrency(m, acc.currency)} |->
                           AmountIn(m, acc.currency)]) = GetAccountExpenses(a, acc)
<1> DEFINE S == {x \in DOMAIN expenses : Counted(expenses[x], a, acc)}
           M == {m \in messages : InCurrency(m, acc.currency)}
           message == [x \in S |-> expenseToProto(x)]
           v == [x \in S |-> AmountIn(expenses[x], acc.currency)]
           w == [m \in M |-> AmountIn(m, acc.currency)]
<1>1. a # Null
  BY SentinelAssumption DEF TypeOK, IsTable
<1>2. messages = {expenseToProto(x) : x \in
                     {x \in DOMAIN expenses : expenses[x].account = a /\ expenses[x].date >= acc.since}}
  BY <1>1, Since DEF ListExpenses, ListExpensesByAccount
<1>3. \A x : /\ InCurrency(expenseToProto(x), acc.currency) <=> InCurrency(expenses[x], acc.currency)
             /\ AmountIn(expenseToProto(x), acc.currency) = AmountIn(expenses[x], acc.currency)
  BY DEF expenseToProto, InCurrency, AmountIn
<1>4. M = {expenseToProto(x) : x \in S}
  BY <1>2, <1>3 DEF Counted
<1>5. M = {message[x] : x \in S}
  BY <1>4
<1>6. IsFiniteSet(S)
  BY FS_Subset DEF FiniteTables
<1>7. \A x, y \in S : message[x] = message[y] => x = y
  BY RowsNamed
<1>8. \A x \in S : v[x] \in Int /\ v[x] = w[message[x]]
  <2>1. SUFFICES ASSUME NEW x \in S PROVE v[x] \in Int /\ v[x] = w[message[x]]
    OBVIOUS
  <2>2. message[x] \in M /\ message[x] = expenseToProto(x)
    BY <1>5
  <2>3. v[x] \in Int
    BY AmountsTyped
  <2>4. w[message[x]] = AmountIn(expenseToProto(x), acc.currency)
    <3> HIDE DEF M, message
    <3> QED
      BY <2>2
  <2> QED
    BY <1>3, <2>3, <2>4
<1>9. v = [x \in S |-> v[x]] /\ w = [m \in M |-> w[m]]
  OBVIOUS
<1>10. GetAccountExpenses(a, acc) = SumFunction(v)
  BY DEF GetAccountExpenses, TotalCounted
<1>11. SumFunction(w) = SumFunction(v)
  <2> HIDE DEF S, M, message, v, w
  <2> QED
    BY <1>5, <1>6, <1>7, <1>8, <1>9, SumOfMessages
<1> QED
  BY <1>10, <1>11

\* that of its incomes to GetAccountIncomes,
LEMMA IncomesExplained ==
    ASSUME TypeOK, FiniteTables, NEW a \in DOMAIN accounts, NEW acc, acc.since \in Nat,
           NEW messages,
           messages = ListIncomes([account |-> a, user |-> Null, from |-> acc.since, to |-> Null])
    PROVE  SumFunction([m \in {m \in messages : InCurrency(m, acc.currency)} |->
                           AmountIn(m, acc.currency)]) = GetAccountIncomes(a, acc)
<1> DEFINE S == {x \in DOMAIN incomes : Counted(incomes[x], a, acc)}
           M == {m \in messages : InCurrency(m, acc.currency)}
           message == [x \in S |-> incomeToProto(x)]
           v == [x \in S |-> AmountIn(incomes[x], acc.currency)]
           w == [m \in M |-> AmountIn(m, acc.currency)]
<1>1. a # Null
  BY SentinelAssumption DEF TypeOK, IsTable
<1>2. messages = {incomeToProto(x) : x \in
                     {x \in DOMAIN incomes : incomes[x].account = a /\ incomes[x].date >= acc.since}}
  BY <1>1, Since DEF ListIncomes, ListIncomesByAccount
<1>3. \A x : /\ InCurrency(incomeToProto(x), acc.currency) <=> InCurrency(incomes[x], acc.currency)
             /\ AmountIn(incomeToProto(x), acc.currency) = AmountIn(incomes[x], acc.currency)
  BY DEF incomeToProto, InCurrency, AmountIn
<1>4. M = {incomeToProto(x) : x \in S}
  BY <1>2, <1>3 DEF Counted
<1>5. M = {message[x] : x \in S}
  BY <1>4
<1>6. IsFiniteSet(S)
  BY FS_Subset DEF FiniteTables
<1>7. \A x, y \in S : message[x] = message[y] => x = y
  BY RowsNamed
<1>8. \A x \in S : v[x] \in Int /\ v[x] = w[message[x]]
  <2>1. SUFFICES ASSUME NEW x \in S PROVE v[x] \in Int /\ v[x] = w[message[x]]
    OBVIOUS
  <2>2. message[x] \in M /\ message[x] = incomeToProto(x)
    BY <1>5
  <2>3. v[x] \in Int
    BY AmountsTyped
  <2>4. w[message[x]] = AmountIn(incomeToProto(x), acc.currency)
    <3> HIDE DEF M, message
    <3> QED
      BY <2>2
  <2> QED
    BY <1>3, <2>3, <2>4
<1>9. v = [x \in S |-> v[x]] /\ w = [m \in M |-> w[m]]
  OBVIOUS
<1>10. GetAccountIncomes(a, acc) = SumFunction(v)
  BY DEF GetAccountIncomes, TotalCounted
<1>11. SumFunction(w) = SumFunction(v)
  <2> HIDE DEF S, M, message, v, w
  <2> QED
    BY <1>5, <1>6, <1>7, <1>8, <1>9, SumOfMessages
<1> QED
  BY <1>10, <1>11

\* and that of its transfers to GetAccountTransfersOut
LEMMA OutExplained ==
    ASSUME TypeOK, FiniteTables, NEW a \in DOMAIN accounts, NEW acc, acc.since \in Nat,
           NEW messages,
           messages = ListTransfers([account |-> a, from |-> acc.since, to |-> Null])
    PROVE  SumFunction([m \in {m \in messages : m.from = a /\ m.fromAmount # Null} |-> m.fromAmount]) = GetAccountTransfersOut(a, acc)
<1> DEFINE S == {t \in DOMAIN transfers : /\ transfers[t].from = a /\ transfers[t].date >= acc.since
                                      /\ transfers[t].fromAmount # Null}
           M == {m \in messages : m.from = a /\ m.fromAmount # Null}
           message == [t \in S |-> transferToProto(t)]
           v == [t \in S |-> transfers[t].fromAmount]
           w == [m \in M |-> m.fromAmount]
<1>1. a # Null
  BY SentinelAssumption DEF TypeOK, IsTable
<1>2. messages = {transferToProto(t) : t \in
                     {t \in DOMAIN transfers : /\ a \in {transfers[t].from, transfers[t].to}
                                               /\ transfers[t].date >= acc.since}}
  BY <1>1, Since DEF ListTransfers, ListTransfersByAccount
<1>3. \A t : /\ transferToProto(t).from = transfers[t].from
             /\ transferToProto(t).to = transfers[t].to
             /\ transferToProto(t).fromAmount = transfers[t].fromAmount
             /\ transferToProto(t).toAmount = transfers[t].toAmount
  BY DEF transferToProto
<1>4. M = {transferToProto(t) : t \in S}
  BY <1>2, <1>3
<1>5. M = {message[t] : t \in S}
  BY <1>4
<1>6. IsFiniteSet(S)
  BY FS_Subset DEF FiniteTables
<1>7. \A x, y \in S : message[x] = message[y] => x = y
  BY RowsNamed
<1>8. \A t \in S : v[t] \in Int /\ v[t] = w[message[t]]
  <2>1. SUFFICES ASSUME NEW t \in S PROVE v[t] \in Int /\ v[t] = w[message[t]]
    OBVIOUS
  <2>2. message[t] \in M /\ message[t] = transferToProto(t)
    BY <1>5
  <2>3. v[t] \in Int
    BY AmountsTyped
  <2>4. w[message[t]] = transferToProto(t).fromAmount
    <3> HIDE DEF M, message
    <3> QED
      BY <2>2
  <2> QED
    BY <1>3, <2>3, <2>4
<1>9. v = [t \in S |-> v[t]] /\ w = [m \in M |-> w[m]]
  OBVIOUS
<1>10. GetAccountTransfersOut(a, acc) = SumFunction(v)
  BY DEF GetAccountTransfersOut
<1>11. SumFunction(w) = SumFunction(v)
  <2> HIDE DEF S, M, message, v, w
  <2> QED
    BY <1>5, <1>6, <1>7, <1>8, <1>9, SumOfMessages
<1> QED
  BY <1>10, <1>11

\* and GetAccountTransfersIn.
LEMMA InExplained ==
    ASSUME TypeOK, FiniteTables, NEW a \in DOMAIN accounts, NEW acc, acc.since \in Nat,
           NEW messages,
           messages = ListTransfers([account |-> a, from |-> acc.since, to |-> Null])
    PROVE  SumFunction([m \in {m \in messages : m.to = a} |-> m.toAmount]) = GetAccountTransfersIn(a, acc)
<1> DEFINE S == {t \in DOMAIN transfers : transfers[t].to = a /\ transfers[t].date >= acc.since}
           M == {m \in messages : m.to = a}
           message == [t \in S |-> transferToProto(t)]
           v == [t \in S |-> transfers[t].toAmount]
           w == [m \in M |-> m.toAmount]
<1>1. a # Null
  BY SentinelAssumption DEF TypeOK, IsTable
<1>2. messages = {transferToProto(t) : t \in
                     {t \in DOMAIN transfers : /\ a \in {transfers[t].from, transfers[t].to}
                                               /\ transfers[t].date >= acc.since}}
  BY <1>1, Since DEF ListTransfers, ListTransfersByAccount
<1>3. \A t : /\ transferToProto(t).from = transfers[t].from
             /\ transferToProto(t).to = transfers[t].to
             /\ transferToProto(t).fromAmount = transfers[t].fromAmount
             /\ transferToProto(t).toAmount = transfers[t].toAmount
  BY DEF transferToProto
<1>4. M = {transferToProto(t) : t \in S}
  BY <1>2, <1>3
<1>5. M = {message[t] : t \in S}
  BY <1>4
<1>6. IsFiniteSet(S)
  BY FS_Subset DEF FiniteTables
<1>7. \A x, y \in S : message[x] = message[y] => x = y
  BY RowsNamed
<1>8. \A t \in S : v[t] \in Int /\ v[t] = w[message[t]]
  <2>1. SUFFICES ASSUME NEW t \in S PROVE v[t] \in Int /\ v[t] = w[message[t]]
    OBVIOUS
  <2>2. message[t] \in M /\ message[t] = transferToProto(t)
    BY <1>5
  <2>3. v[t] \in Int
    BY AmountsTyped
  <2>4. w[message[t]] = transferToProto(t).toAmount
    <3> HIDE DEF M, message
    <3> QED
      BY <2>2
  <2> QED
    BY <1>3, <2>3, <2>4
<1>9. v = [t \in S |-> v[t]] /\ w = [m \in M |-> w[m]]
  OBVIOUS
<1>10. GetAccountTransfersIn(a, acc) = SumFunction(v)
  BY DEF GetAccountTransfersIn
<1>11. SumFunction(w) = SumFunction(v)
  <2> HIDE DEF S, M, message, v, w
  <2> QED
    BY <1>5, <1>6, <1>7, <1>8, <1>9, SumOfMessages
<1> QED
  BY <1>10, <1>11

\* The balance a client adds up from the lists is the one the service answers, for every
\* account and whatever the tables hold (withBalance, ListExpenses, ListIncomes,
\* ListTransfers).
THEOREM BalancesExplained == Spec => []ListsExplainBalance
<1>1. TypeOK /\ FiniteTables => ListsExplainBalance
  <2> SUFFICES ASSUME TypeOK, FiniteTables, NEW a \in DOMAIN accounts
               PROVE  Statement(a, accounts[a]) = Balance(a, accounts[a])
    BY DEF ListsExplainBalance
  <2> DEFINE acc == accounts[a]
             since == [account |-> a, user |-> Null, from |-> acc.since, to |-> Null]
             moved == ListTransfers([account |-> a, from |-> acc.since, to |-> Null])
             Sum(messages) == SumFunction([m \in {m \in messages : InCurrency(m, acc.currency)} |->
                                              AmountIn(m, acc.currency)])
             In == {m \in moved : m.to = a}
             Out == {m \in moved : m.from = a /\ m.fromAmount # Null}
  <2>1. acc.since \in Nat
    BY DEF TypeOK, IsTable, AccountRow
  <2>2. Sum(ListExpenses(since)) = GetAccountExpenses(a, acc)
    BY <2>1, ExpensesExplained
  <2>3. Sum(ListIncomes(since)) = GetAccountIncomes(a, acc)
    BY <2>1, IncomesExplained
  <2>4. SumFunction([m \in Out |-> m.fromAmount]) = GetAccountTransfersOut(a, acc)
    BY <2>1, OutExplained
  <2>5. SumFunction([m \in In |-> m.toAmount]) = GetAccountTransfersIn(a, acc)
    BY <2>1, InExplained
  <2>6. Statement(a, acc) = acc.initial - Sum(ListExpenses(since)) + Sum(ListIncomes(since))
          + SumFunction([m \in In |-> m.toAmount]) - SumFunction([m \in Out |-> m.fromAmount])
    BY Zenon DEF Statement
  <2>7. acc.initial \in Int
    BY DEF TypeOK, IsTable, AccountRow
  <2> HIDE DEF acc, since, Sum, In, Out
  <2>8. Statement(a, acc) = Balance(a, acc)
    BY <2>2, <2>3, <2>4, <2>5, <2>6, <2>7, TotalsTyped DEF Balance
  <2> QED
    BY <2>8 DEF acc
<1> QED
  BY <1>1, BooksTypeCorrect, TablesFinite, PTL

\* An expense is between two midnights exactly if its day is one of those between them.
LEMMA BetweenMidnights ==
    ASSUME NEW t \in Int, NEW a \in Int, NEW b \in Int
    PROVE  Midnight(a) <= t /\ t < Midnight(b) <=> a <= t \div DayLength /\ t \div DayLength < b
<1>1. Midnight(b) \in Int
  BY DayAssumption DEF Midnight
<1>2. /\ t \div DayLength \in Int /\ (Midnight(a) <= t <=> a <= t \div DayLength)
      /\ (Midnight(b) <= t <=> b <= t \div DayLength)
  BY InstantDay
<1> QED
  BY <1>1, <1>2

\* The instants of a year and of its months are those of its days.
LEMMA RangesOfDays ==
    ASSUME NEW t \in Int, NEW y \in Int
    PROVE  LET day == t \div DayLength
           IN  /\ day \in Int
               /\ yearRange(y).from <= t /\ t < yearRange(y).to <=>
                     Date(y, 1, 1) <= day /\ day < Date(y + 1, 1, 1)
               /\ \A m \in 1..12 :
                     monthRange(y, m).from <= t /\ t < monthRange(y, m).to <=>
                        Date(y, m, 1) <= day /\ day < Date(y, m + 1, 1)
<1>1. \A m \in 1..13 : Date(y, m, 1) \in Int
  <2>1. \A m \in 1..13 : m <= m
    OBVIOUS
  <2> QED
    BY <2>1, MonthsOrdered
<1>2. Date(y, 1, 1) \in Int /\ Date(y + 1, 1, 1) \in Int
  <2>1. Date(y, 13, 1) = Date(y + 1, 1, 1)
    BY SameDate
  <2> QED
    BY <1>1, <2>1
<1>3. yearRange(y).from = Midnight(Date(y, 1, 1)) /\ yearRange(y).to = Midnight(Date(y + 1, 1, 1))
  BY DEF yearRange
<1>4. ASSUME NEW m \in 1..12
      PROVE  monthRange(y, m).from <= t /\ t < monthRange(y, m).to <=>
                Date(y, m, 1) <= t \div DayLength /\ t \div DayLength < Date(y, m + 1, 1)
  <2>1. Date(y, m, 1) \in Int /\ Date(y, m + 1, 1) \in Int
    BY <1>1
  <2>2. /\ monthRange(y, m).from = Midnight(Date(y, m, 1))
        /\ monthRange(y, m).to = Midnight(Date(y, m + 1, 1))
    BY DEF monthRange
  <2> QED
    BY <2>1, <2>2, BetweenMidnights
<1>5. t \div DayLength \in Int
  BY <1>2, InstantDay
<1>6. yearRange(y).from <= t /\ t < yearRange(y).to <=>
         Date(y, 1, 1) <= t \div DayLength /\ t \div DayLength < Date(y + 1, 1, 1)
  <2> DEFINE next == y + 1
  <2> HIDE DEF next
  <2>1. /\ Date(y, 1, 1) \in Int /\ Date(next, 1, 1) \in Int
        /\ yearRange(y).from = Midnight(Date(y, 1, 1))
        /\ yearRange(y).to = Midnight(Date(next, 1, 1))
    BY <1>2, <1>3 DEF next
  <2>2. yearRange(y).from <= t /\ t < yearRange(y).to <=>
           Date(y, 1, 1) <= t \div DayLength /\ t \div DayLength < Date(next, 1, 1)
    BY <2>1, BetweenMidnights
  <2> QED
    BY <2>2 DEF next
<1> QED
  BY <1>4, <1>5, <1>6, Zenon

\* Which month of a year an expense is in is what EXTRACT makes of it in UTC.
LEMMA MonthsOfRows ==
    ASSUME NEW t \in Nat, NEW y \in AskedYears
    PROVE  /\ yearRange(y).from <= t /\ t < yearRange(y).to <=>
                 \E m \in 1..12 : monthRange(y, m).from <= t /\ t < monthRange(y, m).to
           /\ \A m, n \in 1..12 :
                 /\ monthRange(y, m).from <= t /\ t < monthRange(y, m).to
                 /\ monthRange(y, n).from <= t /\ t < monthRange(y, n).to
                 => m = n
           /\ \A m \in 1..12 :
                 monthRange(y, m).from <= t /\ t < monthRange(y, m).to =>
                    Extracted(t, 0) = <<y, m>>
<1> DEFINE day == t \div DayLength
<1>1. y \in Years /\ y \in Int /\ t \in Int /\ day \in Int /\ t + 0 = t
  BY StatsAssumption, DayAssumption, RangesOfDays
<1>2. \A m \in 1..12 : Date(y, m, 1) <= day /\ day < Date(y, m + 1, 1) => Civil(day) = <<y, m>>
  BY <1>1, CivilDay
<1>3. Extracted(t, 0) = Civil(day)
  BY <1>1 DEF Extracted
<1> HIDE DEF day
<1>4. /\ yearRange(y).from <= t /\ t < yearRange(y).to <=>
           Date(y, 1, 1) <= day /\ day < Date(y + 1, 1, 1)
      /\ \A m \in 1..12 : monthRange(y, m).from <= t /\ t < monthRange(y, m).to <=>
                             Date(y, m, 1) <= day /\ day < Date(y, m + 1, 1)
  BY <1>1, RangesOfDays DEF day
<1> QED
  BY <1>1, <1>2, <1>3, <1>4, MonthOfDay

\* Each expense of a year is in one of its twelve months, and the year's entry for a month
\* is the answer for that month, whatever was spent (GetMonthStats, GetYearStats).
THEOREM MonthsAreTheYear == Spec => []MonthsFillTheYear
<1>1. TypeOK => MonthsFillTheYear
  <2> SUFFICES ASSUME TypeOK, NEW y \in AskedYears
               PROVE  LET X == Priced(OfYear(y))
                          month == [k \in 1..12 |-> During(X, monthRange(y, k))]
                      IN  /\ \A x \in X :
                                Cardinality({k \in 1..12 : x \in month[k]}) =
                                IF x \in During(X, yearRange(y)) THEN 1 ELSE 0
                          /\ \A s \in GetYearStats(OfYear(y), 0).monthlyStats :
                                LET asked == GetMonthStats(OfMonth(y, s.month))
                                IN  s.total = asked.total /\ s.count = asked.count
    BY Zenon DEF MonthsFillTheYear
  <2> DEFINE X == Priced(OfYear(y))
             month == [k \in 1..12 |-> During(X, monthRange(y, k))]
             year == During(X, yearRange(y))
             group == [x \in year |-> <<y, Extracted(expenses[x].date, 0)[2]>>]
  <2>1. \A x \in X : x \in DOMAIN expenses /\ expenses[x].date \in Nat
    BY DatesAreNat DEF Priced
  <2>2. ASSUME NEW x \in X
        PROVE  Cardinality({k \in 1..12 : x \in month[k]}) = IF x \in year THEN 1 ELSE 0
    <3> DEFINE K == {k \in 1..12 : x \in month[k]}
    <3>1. K = {k \in 1..12 : /\ monthRange(y, k).from <= expenses[x].date
                             /\ expenses[x].date < monthRange(y, k).to}
      BY <2>2 DEF During
    <3>2. x \in year <=> yearRange(y).from <= expenses[x].date /\ expenses[x].date < yearRange(y).to
      BY <2>2 DEF During
    <3>3. (x \in year <=> K # {}) /\ \A m, n \in K : m = n
      BY <2>1, <2>2, <3>1, <3>2, MonthsOfRows
    <3> HIDE DEF K, year
    <3>4. CASE x \in year
      <4>1. PICK k : K = {k}
        BY <3>3, <3>4
      <4> QED
        BY <3>4, <4>1, FS_Singleton DEF K
    <3>5. CASE x \notin year
      BY <3>3, <3>5, FS_EmptySet DEF K
    <3> QED
      BY <3>4, <3>5
  <2>3. GetYearStats(OfYear(y), 0).monthlyStats = Grouped(group)
    BY DEF GetYearStats, GetMonthStatsByYear, Answer, OfYear
  <2>4. ASSUME NEW s \in Grouped(group)
        PROVE  LET asked == GetMonthStats(OfMonth(y, s.month))
               IN  s.total = asked.total /\ s.count = asked.count
    <3>1. PICK z \in DOMAIN group : s = MonthStat(group[z], {x \in DOMAIN group : group[x] = group[z]})
      <4> HIDE DEF group
      <4> QED
        BY <2>4 DEF Grouped
    <3> DEFINE rows == {x \in DOMAIN group : group[x] = group[z]}
    <3>2. \A x \in year : \E m \in 1..12 :
             /\ monthRange(y, m).from <= expenses[x].date /\ expenses[x].date < monthRange(y, m).to
             /\ group[x] = <<y, m>> /\ x \in X
      <4>1. SUFFICES ASSUME NEW x \in year
            PROVE \E m \in 1..12 :
             /\ monthRange(y, m).from <= expenses[x].date /\ expenses[x].date < monthRange(y, m).to
             /\ group[x] = <<y, m>> /\ x \in X
        OBVIOUS
      <4>2. /\ x \in X /\ yearRange(y).from <= expenses[x].date
            /\ expenses[x].date < yearRange(y).to
        BY DEF During
      <4>3. PICK m \in 1..12 : /\ monthRange(y, m).from <= expenses[x].date
                               /\ expenses[x].date < monthRange(y, m).to
                               /\ Extracted(expenses[x].date, 0) = <<y, m>>
        BY <2>1, <4>2, MonthsOfRows
      <4>4. group[x] = <<y, m>>
        BY <4>3
      <4> QED
        BY <4>2, <4>3, <4>4
    <3>3. PICK m \in 1..12 : group[z] = <<y, m>>
      BY <3>1, <3>2
    <3>4. rows = During(X, monthRange(y, m))
      <4>1. DOMAIN group = year
        OBVIOUS
      <4>2. \A x \in During(X, monthRange(y, m)) : x \in year /\ group[x] = <<y, m>>
        <5>1. SUFFICES ASSUME NEW x \in During(X, monthRange(y, m))
                       PROVE  x \in year /\ group[x] = <<y, m>>
          OBVIOUS
        <5>2. /\ x \in X /\ monthRange(y, m).from <= expenses[x].date
              /\ expenses[x].date < monthRange(y, m).to
          BY DEF During
        <5>3. /\ yearRange(y).from <= expenses[x].date /\ expenses[x].date < yearRange(y).to
              /\ Extracted(expenses[x].date, 0) = <<y, m>>
          BY <2>1, <5>2, MonthsOfRows
        <5>4. x \in year
          BY <5>2, <5>3 DEF During
        <5> QED
          BY <5>3, <5>4
      <4>3. ASSUME NEW x \in rows PROVE x \in During(X, monthRange(y, m))
        <5>1. PICK n \in 1..12 :
                /\ monthRange(y, n).from <= expenses[x].date /\ expenses[x].date < monthRange(y, n).to
                /\ group[x] = <<y, n>> /\ x \in X
          BY <3>2, <4>1, <4>3
        <5>2. n = m
          BY <3>3, <4>3, <5>1
        <5> QED
          BY <5>1, <5>2 DEF During
      <4> QED
        BY <3>3, <4>1, <4>2, <4>3
    <3>5. /\ s.month = m /\ s.total = formatAmount(TotalOf(rows), 1)
          /\ s.count = Cardinality(rows)
      <4> HIDE DEF rows, group
      <4>1. s = MonthStat(<<y, m>>, rows)
        BY <3>1, <3>3 DEF rows
      <4> QED
        BY <4>1 DEF MonthStat
    <3>6. GetMonthStatsRows(OfMonth(y, m)) = During(X, monthRange(y, m))
      BY DEF GetMonthStatsRows, OfMonth, OfYear, Priced
    <3>7. /\ GetMonthStats(OfMonth(y, m)).total = formatAmount(TotalOf(rows), 1)
          /\ GetMonthStats(OfMonth(y, m)).count = Cardinality(rows)
      <4> HIDE DEF rows
      <4> QED
        BY <3>4, <3>6 DEF GetMonthStats
    <3> QED
      BY <3>5, <3>7
  <2> QED
    BY <2>2, <2>3, <2>4
<1> QED
  BY <1>1, BooksTypeCorrect, PTL
-----------------------------------------------------------------------------
(***************************************************************************)
(* All time.                                                               *)
(***************************************************************************)
\* The handlers store the dates they are sent and compute none.
DatesKnown == \A x \in DOMAIN expenses : expenses[x].date \in Dates

\* No step gives an expense any other date.
LEMMA DatesStep == DatesKnown /\ [Next]_vars => DatesKnown'
<1> SUFFICES ASSUME DatesKnown, [Next]_vars PROVE DatesKnown'
  OBVIOUS
<1> USE DEF DatesKnown
<1>1. CASE UNCHANGED expenses
  BY <1>1
<1>2. ASSUME NEW m \in ExpenseRequests \cup ExpenseEdits \cup IncomeRequests
                                       \cup TransferRequests, m.date # Null
      PROVE  m.date \in Dates
  BY <1>2 DEF Dates
<1>3. \A m \in ExpenseRequests \cup IncomeRequests \cup TransferRequests : m.date \in Dates
  <2>1. SUFFICES ASSUME NEW m \in ExpenseRequests \cup IncomeRequests \cup TransferRequests
                 PROVE  m.date # Null
    BY <1>2
  <2>2. m.date \in Nat
    BY RequestsAssumption DEF ExpenseRequest, IncomeRequest, TransferRequest
  <2> QED
    BY <2>2, SentinelAssumption
<1>4. ASSUME NEW id, NEW m \in ExpenseRequests, CreateExpense(id, m) PROVE DatesKnown'
  BY <1>3, <1>4 DEF CreateExpense, With, Row, Purchase
<1>5. ASSUME NEW id, NEW m \in IncomeRequests, CreateIncome(id, m) PROVE DatesKnown'
  BY <1>3, <1>5 DEF CreateIncome, With, Row, CommissionFee, NoRows, Fee
<1>6. ASSUME NEW id, NEW m \in TransferRequests, NEW link, CreateTransfer(id, m, link)
      PROVE  DatesKnown'
  <2>1. PICK b : expenses' = With(expenses, With(SourceFee(id, m), DestinationFee(id, m, b)))
    BY <1>6 DEF CreateTransfer
  <2>2. /\ \A k \in DOMAIN SourceFee(id, m) : SourceFee(id, m)[k].date = m.date
        /\ \A k \in DOMAIN DestinationFee(id, m, b) : DestinationFee(id, m, b)[k].date = m.date
    BY DEF SourceFee, DestinationFee, Row, NoRows, Fee
  <2> QED
    BY <1>3, <2>1, <2>2 DEF With
<1>7. ASSUME NEW y, NEW m \in ExpenseEdits, UpdateExpense(y, m) PROVE DatesKnown'
  BY <1>2, <1>7 DEF UpdateExpense, ExpenseAfter, Coalesce
<1>8. ASSUME NEW K, expenses' = Without(expenses, K) PROVE DatesKnown'
  BY <1>8 DEF Without, Restrict
<1> QED
  BY <1>1, <1>4, <1>5, <1>6, <1>7, <1>8 DEF Next, vars, CreateAccount, UpdateAccount,
     DeactivateAccount, DeleteExpense, DeleteIncome, DeleteTransfer, UpdateIncome

\* Every expense has a date that some request gave.
THEOREM DatesAreGiven == Spec => []DatesKnown
<1>1. Init => DatesKnown
  BY DEF Init, NoRows, DatesKnown
<1> QED
  BY <1>1, DatesStep, PTL DEF Spec

\* The year and month of an expense, in the time zone of a session, are in Years and
\* in 1..12, and the year is the one whose days hold it.
LEMMA YearsOfRows ==
    ASSUME NEW t \in Dates, t \in Nat, NEW z \in Zones \cup {0}
    PROVE  \E w \in Years, k \in 1..12 :
              /\ Extracted(t, z) = <<w, k>>
              /\ \A y \in Years : yearRange(y).from <= t + z /\ t + z < yearRange(y).to <=> w = y
<1> DEFINE day == (t + z) \div DayLength
<1>1. z \in Int /\ Years \subseteq Int
  BY StatsAssumption, DayAssumption
<1>2. t + z \in Int /\ day \in Int
  BY <1>1, RangesOfDays
<1>3. PICK w \in Years : Date(w, 1, 1) <= day /\ day < Date(w + 1, 1, 1)
  BY YearsAssumption
<1>4. PICK k \in 1..12 : Civil(day) = <<w, k>>
  <2> HIDE DEF day
  <2> QED
    BY <1>2, <1>3, CivilInYear
<1>5. Extracted(t, z) = <<w, k>>
  BY <1>4 DEF Extracted
<1>6. ASSUME NEW y \in Years
      PROVE  yearRange(y).from <= t + z /\ t + z < yearRange(y).to <=> w = y
  <2>1. yearRange(y).from <= t + z /\ t + z < yearRange(y).to <=>
           Date(y, 1, 1) <= day /\ day < Date(y + 1, 1, 1)
    BY <1>1, <1>2, RangesOfDays
  <2>2. Date(y, 1, 1) <= day /\ day < Date(y + 1, 1, 1) => w = y
    <3>1. SUFFICES ASSUME Date(y, 1, 1) <= day, day < Date(y + 1, 1, 1) PROVE w = y
      OBVIOUS
    <3>2. PICK m \in 1..12 : Civil(day) = <<y, m>>
      <4> HIDE DEF day
      <4> QED
        BY <1>2, <3>1, CivilInYear
    <3> QED
      BY <1>4, <3>2
  <2> QED
    BY <1>3, <2>1, <2>2
<1> QED
  BY <1>5, <1>6

\* Unless an expense falls between two new years, a year has the same rows in both
\* queries.
LEMMA YearOfRows ==
    ASSUME NEW t \in Dates, t \in Nat, NEW z \in Zones, NEW y \in AskedYears,
           \A n \in {y, y + 1} : LET ago == t - yearRange(n).from IN
               ~ ((-z <= ago /\ ago < 0) \/ (0 <= ago /\ ago < -z))
    PROVE  /\ yearRange(y).from <= t /\ t < yearRange(y).to <=> Extracted(t, z)[1] = y
           /\ Extracted(t, z)[1] = y => Extracted(t, z) = <<y, Extracted(t, z)[2]>>
<1>1. z \in Int /\ y \in Int /\ y \in Years /\ z \in Zones \cup {0}
  BY StatsAssumption, DayAssumption
<1>2. PICK w \in Years, k \in 1..12 :
         /\ Extracted(t, z) = <<w, k>>
         /\ yearRange(y).from <= t + z /\ t + z < yearRange(y).to <=> w = y
  BY <1>1, YearsOfRows
<1>3. yearRange(y + 1).from = yearRange(y).to
  BY Zenon DEF yearRange
<1>4. yearRange(y).from \in Int /\ yearRange(y).to \in Int
  <2>1. Date(y, 1, 1) \in Int /\ Date(y, 13, 1) \in Int
    <3>1. 1 \in 1..13 /\ 13 \in 1..13 /\ 1 <= 1 /\ 13 <= 13
      OBVIOUS
    <3> QED
      BY <1>1, <3>1, MonthsOrdered
  <2>2. Date(y, 13, 1) = Date(y + 1, 1, 1)
    BY <1>1, SameDate
  <2>3. yearRange(y).from = Midnight(Date(y, 1, 1)) /\ yearRange(y).to = Midnight(Date(y, 13, 1))
    BY <2>2 DEF yearRange
  <2>4. DayLength \in Int
    BY DayAssumption
  <2> QED
    BY <2>1, <2>3, <2>4 DEF Midnight
<1> DEFINE from == yearRange(y).from
           to == yearRange(y).to
<1>5. /\ ~ ((-z <= t - from /\ t - from < 0) \/ (0 <= t - from /\ t - from < -z))
      /\ ~ ((-z <= t - to /\ t - to < 0) \/ (0 <= t - to /\ t - to < -z))
  BY <1>3, Zenon
<1> HIDE DEF from, to
<1>6. from <= t /\ t < to <=> from <= t + z /\ t + z < to
  BY <1>1, <1>4, <1>5 DEF from, to
<1> QED
  BY <1>2, <1>6 DEF from, to

\* Each year of GetAllTimeStats is the answer of GetYearStats for it, unless an expense
\* falls between the two new years that the service and the database begin it with.
THEOREM AllTimeIsTheYears == Spec => []YearsFillAllTime
<1>1. TypeOK /\ DatesKnown => YearsFillAllTime
  <2> SUFFICES ASSUME TypeOK, DatesKnown, NEW z \in Zones, NEW y \in AskedYears,
                      ~ BetweenNewYears(y, z), ~ BetweenNewYears(y + 1, z)
               PROVE  {s \in GetAllTimeStats(Everyones, z).monthlyStats : s.year = y}
                         = GetYearStats(OfYear(y), z).monthlyStats
    BY Zenon DEF YearsFillAllTime
  <2> DEFINE P == Priced(Everyones)
             year == During(P, yearRange(y))
             all == [x \in P |-> Extracted(expenses[x].date, z)]
             group == [x \in year |-> <<y, Extracted(expenses[x].date, z)[2]>>]
  <2>1. GetAllTimeStats(Everyones, z).monthlyStats = Grouped(all)
    BY DEF GetAllTimeStats, GetAllTimeMonthlyStats, Answer
  <2>2. Priced(OfYear(y)) = P
    BY DEF Priced, OfYear, Everyones
  <2>3. GetYearStats(OfYear(y), z).monthlyStats = Grouped(group)
    BY <2>2 DEF GetYearStats, GetMonthStatsByYear, Answer, OfYear
  <2>4. ASSUME NEW x \in P
        PROVE  (x \in year <=> all[x][1] = y) /\ (x \in year => group[x] = all[x])
    <3> DEFINE t == expenses[x].date
    <3>1. x \in DOMAIN expenses
      BY DEF Priced
    <3>2. t \in Dates /\ t \in Nat
      BY <3>1, DatesAreNat DEF DatesKnown
    <3>3. \A n \in {y, y + 1} : LET ago == t - yearRange(n).from IN
               ~ ((-z <= ago /\ ago < 0) \/ (0 <= ago /\ ago < -z))
      BY <3>1, Zenon DEF BetweenNewYears
    <3>4. x \in year <=> yearRange(y).from <= t /\ t < yearRange(y).to
      BY DEF During
    <3> HIDE DEF t
    <3>5. /\ x \in year <=> Extracted(t, z)[1] = y
          /\ Extracted(t, z)[1] = y => Extracted(t, z) = <<y, Extracted(t, z)[2]>>
      BY <3>2, <3>3, <3>4, YearOfRows
    <3>6. all[x] = Extracted(t, z) /\ (x \in year => group[x] = <<y, Extracted(t, z)[2]>>)
      BY DEF t
    <3> HIDE DEF all, group, year
    <3> QED
      BY <3>5, <3>6
  <2>5. DOMAIN all = P /\ DOMAIN group = year /\ year \subseteq P
    BY DEF During
  <2> HIDE DEF P, year, all, group
  <2>6. ASSUME NEW c, c[1] = y
        PROVE  {x \in DOMAIN all : all[x] = c} = {x \in DOMAIN group : group[x] = c}
    BY <2>4, <2>5, <2>6
  <2>7. \A c, X : MonthStat(c, X).year = c[1]
    BY DEF MonthStat
  <2>8. {c \in {all[x] : x \in DOMAIN all} : c[1] = y} = {group[x] : x \in DOMAIN group}
    BY <2>4, <2>5
  <2>9. ASSUME NEW s PROVE s \in Grouped(all) /\ s.year = y <=> s \in Grouped(group)
    <3>1. s \in Grouped(all) <=> \E c \in {all[x] : x \in DOMAIN all} :
                                    s = MonthStat(c, {x \in DOMAIN all : all[x] = c})
      BY DEF Grouped
    <3>2. s \in Grouped(group) <=> \E c \in {group[x] : x \in DOMAIN group} :
                                    s = MonthStat(c, {x \in DOMAIN group : group[x] = c})
      BY DEF Grouped
    <3>3. ASSUME s \in Grouped(all), s.year = y PROVE s \in Grouped(group)
      <4>1. PICK c \in {all[x] : x \in DOMAIN all} :
               s = MonthStat(c, {x \in DOMAIN all : all[x] = c})
        BY <3>1, <3>3
      <4>2. c[1] = y
        BY <2>7, <3>3, <4>1
      <4> QED
        BY <2>6, <2>8, <3>2, <4>1, <4>2
    <3>4. ASSUME s \in Grouped(group) PROVE s \in Grouped(all) /\ s.year = y
      <4>1. PICK c \in {group[x] : x \in DOMAIN group} :
               s = MonthStat(c, {x \in DOMAIN group : group[x] = c})
        BY <3>2, <3>4
      <4>2. c \in {all[x] : x \in DOMAIN all} /\ c[1] = y
        BY <2>8
      <4>3. s = MonthStat(c, {x \in DOMAIN all : all[x] = c})
        BY <2>6, <4>1, <4>2
      <4> QED
        BY <2>7, <3>1, <4>2, <4>3
    <3> QED
      BY <3>3, <3>4
  <2> QED
    BY <2>1, <2>3, <2>9
<1> QED
  BY <1>1, BooksTypeCorrect, DatesAreGiven, PTL
=============================================================================
