------------------------------ MODULE Listings ------------------------------
(***************************************************************************)
(* ListExpenses, ListIncomes and ListTransfers: which rows of Books answer  *)
(* which request, and what of a row reaches the client.  Each is one query, *)
(* so it sees the tables of one moment.                                     *)
(*                                                                         *)
(* An answer is the set of its messages: their order, and the fields that   *)
(* Books leaves out, are left out here too.                                 *)
(***************************************************************************)
EXTENDS Books

CONSTANT Instants       \* what a client may send as date_from and date_to
ASSUME InstantsAssumption == Instants \subseteq Nat

\* category_id is in the messages, and no handler reads it.
ListExpensesRequest ==
    [ user : Opt(Users), account : Opt(Accounts), from : Opt(Instants), to : Opt(Instants) ]
ListIncomesRequest ==
    [ user : Opt(Users), account : Opt(Accounts), from : Opt(Instants), to : Opt(Instants) ]
ListTransfersRequest ==
    [ account : Opt(Accounts), from : Opt(Instants), to : Opt(Instants) ]
-----------------------------------------------------------------------------
\* Mutation: the end of the window belongs to it.
ClosedWindow(t, from, to) == (from # Null => t >= from) /\ (to # Null => t <= to)

\* ($2 IS NULL OR date >= $2) AND ($3 IS NULL OR date < $3)
InWindow(t, from, to) == (from # Null => t >= from) /\ (to # Null => t < to)

expenseToProto(x) ==
    LET row == expenses[x] IN
    [ id |-> x, user |-> row.user, account |-> row.account, amount |-> row.amount,
      currency |-> row.currency, charged |-> row.charged,
      chargedCurrency |-> row.chargedCurrency, transfer |-> row.transfer,
      date |-> row.date, base |-> row.base,
      baseCurrency |-> IF row.base = Null THEN Null ELSE EUR ]

ListExpensesByAccount(a, from, to) ==
    {x \in DOMAIN expenses : expenses[x].account = a /\ InWindow(expenses[x].date, from, to)}
ListExpensesByUser(u) == {x \in DOMAIN expenses : expenses[x].user = u}
ListExpensesByDateRange(from, to) ==
    {x \in DOMAIN expenses : from <= expenses[x].date /\ expenses[x].date < to}
ListAllExpenses == DOMAIN expenses

\* An account beats a user, a user the dates; dates count with an account, or
\* alone and both of them.
ListExpenses(m) ==
    {expenseToProto(x) : x \in
        IF m.account # Null THEN ListExpensesByAccount(m.account, m.from, m.to)
        ELSE IF m.user # Null THEN ListExpensesByUser(m.user)
        ELSE IF m.from # Null /\ m.to # Null THEN ListExpensesByDateRange(m.from, m.to)
        ELSE ListAllExpenses}

\* The base amount stays behind.
incomeToProto(i) ==
    LET row == incomes[i] IN
    [ id |-> i, user |-> row.user, account |-> row.account, amount |-> row.amount,
      currency |-> row.currency, charged |-> row.charged,
      chargedCurrency |-> row.chargedCurrency, date |-> row.date ]

ListIncomesByAccount(a, from, to) ==
    {i \in DOMAIN incomes : incomes[i].account = a /\ InWindow(incomes[i].date, from, to)}
ListIncomesByUser(u) == {i \in DOMAIN incomes : incomes[i].user = u}
ListIncomesByDateRange(from, to) ==
    {i \in DOMAIN incomes : from <= incomes[i].date /\ incomes[i].date < to}
ListAllIncomes == DOMAIN incomes

ListIncomes(m) ==
    {incomeToProto(i) : i \in
        IF m.account # Null THEN ListIncomesByAccount(m.account, m.from, m.to)
        ELSE IF m.user # Null THEN ListIncomesByUser(m.user)
        ELSE IF m.from # Null /\ m.to # Null THEN ListIncomesByDateRange(m.from, m.to)
        ELSE ListAllIncomes}

transferToProto(t) ==
    LET row == transfers[t] IN
    [ id |-> t, from |-> row.from, fromAmount |-> row.fromAmount, to |-> row.to,
      toAmount |-> row.toAmount, link |-> row.link, date |-> row.date ]

\* Mutation: only what leaves the account.
TransfersFromAccount(a, from, to) ==
    {t \in DOMAIN transfers : transfers[t].from = a /\ InWindow(transfers[t].date, from, to)}

ListTransfersByAccount(a, from, to) ==
    {t \in DOMAIN transfers :
        a \in {transfers[t].from, transfers[t].to} /\ InWindow(transfers[t].date, from, to)}
ListAllTransfers == DOMAIN transfers

ListTransfers(m) ==
    {transferToProto(t) : t \in
        IF m.account # Null THEN ListTransfersByAccount(m.account, m.from, m.to)
        ELSE ListAllTransfers}
-----------------------------------------------------------------------------
\* What a client adds up from the messages of account a since its first day.
Statement(a, acc) ==
    LET since == [account |-> a, user |-> Null, from |-> acc.since, to |-> Null]
        Sum(messages) == SumFunction([m \in {m \in messages : InCurrency(m, acc.currency)} |->
                                         AmountIn(m, acc.currency)])
        moved == ListTransfers([account |-> a, from |-> acc.since, to |-> Null])
        In == {m \in moved : m.to = a}
        Out == {m \in moved : m.from = a /\ m.fromAmount # Null}
    IN  acc.initial - Sum(ListExpenses(since)) + Sum(ListIncomes(since))
          + SumFunction([m \in In |-> m.toAmount]) - SumFunction([m \in Out |-> m.fromAmount])

\* The balance the service sums up in SQL is the one a client gets from the
\* lists of the account's expenses, incomes and transfers: seven queries and three
\* conversions agree on what belongs to an account, and from when on.
ListsExplainBalance ==
    \A a \in DOMAIN accounts : Statement(a, accounts[a]) = Balance(a, accounts[a])

\* A window cut at any instant gives every row once: paging by months neither
\* repeats nor drops the rows of midnight.  A list by user has no window, and
\* without an account both ends must be given for the dates to count.
WindowCounts(m) == m.account # Null \/ (m.from # Null /\ m.to # Null)
Cuts(m) == {t \in Instants : (m.from # Null => m.from <= t) /\ (m.to # Null => t <= m.to)}
Tile(List(_), m, t) ==
    LET before == List([m EXCEPT !.to = t])
        after == List([m EXCEPT !.from = t])
    IN  List(m) = before \cup after /\ before \cap after = {}
WindowsTile ==
    /\ \A m \in ListExpensesRequest : m.user = Null /\ WindowCounts(m) =>
          \A t \in Cuts(m) : Tile(ListExpenses, m, t) /\ Tile(ListIncomes, m, t)
    /\ \A m \in ListTransfersRequest : m.account # Null =>
          \A t \in Cuts(m) : Tile(ListTransfers, m, t)
=============================================================================
