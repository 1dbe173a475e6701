------------------------------ MODULE Balances ------------------------------
(***************************************************************************)
(* ListAccounts and the second half of UpdateAccount, reading balances      *)
(* while the handlers of Books write.  The rows of the accounts are read    *)
(* first; then, account by account, withBalance sends four queries of its   *)
(* own, outside any transaction, so each of them sees what was committed    *)
(* when it ran.                                                             *)
(*                                                                         *)
(* One reader is enough: readers change nothing.                           *)
(***************************************************************************)
EXTENDS Books

VARIABLES
    listed,   \* the account rows as they were read; none when no one reads
    answer,   \* balances computed so far
    current,  \* the account whose totals are being read, or Null
    query,    \* the query withBalance sends next
    sum,      \* what the earlier ones add up to
    still     \* no row of the current account has changed since the first

reader == <<listed, answer, current, query, sum, still>>
allVars == <<vars, reader>>

ReaderInit ==
    /\ Init
    /\ listed = NoRows /\ answer = NoRows
    /\ current = Null /\ query = "expenses" /\ sum = 0 /\ still = TRUE
-----------------------------------------------------------------------------
\* The rows of expenses, incomes and transfers that concern account a.
Entries(a) ==
    << Restrict(expenses, {x \in DOMAIN expenses : expenses[x].account = a}),
       Restrict(incomes, {i \in DOMAIN incomes : incomes[i].account = a}),
       {<<t, transfers[t].date, transfers[t].fromAmount>> :
           t \in {t \in DOMAIN transfers : transfers[t].from = a}},
       {<<t, transfers[t].date, transfers[t].toAmount>> :
           t \in {t \in DOMAIN transfers : transfers[t].to = a}} >>

\* withBalance is about to run for the accounts in rows.
StartReading(rows) ==
    /\ listed' = rows
    /\ UNCHANGED <<answer, current, query, sum, still>>

\* A handler of Books runs beside the reader.
Write ==
    /\ Next
    /\ still' = (still /\ \A a \in Accounts : a = current => Entries(a)' = Entries(a))
    /\ UNCHANGED <<listed, answer, current, query, sum>>

ListActiveAccounts == {a \in DOMAIN accounts : accounts[a].active}
ListActiveAccountsByUser(u) == {a \in ListActiveAccounts : Owner(a) = u}

ListAccounts(user) ==
    /\ listed = NoRows
    /\ StartReading(Restrict(accounts,
          IF user = Null THEN ListActiveAccounts ELSE ListActiveAccountsByUser(user)))
    /\ UNCHANGED vars

\* UpdateAccount answers with the row its UPDATE returned, and its balance.
UpdateAndRead(a, m) ==
    /\ listed = NoRows
    /\ UpdateAccount(a, m)
    /\ StartReading(Row(a, accounts'[a]))

\* Mutation: the row of the account is read again by every query.
ReadAgain(a) == accounts[a]

\* The row withBalance was called with.
RowOf(a) == listed[a]

Ask(a, q, next, subtotal) ==
    /\ current = a /\ query = q
    /\ query' = next /\ sum' = subtotal
    /\ UNCHANGED <<vars, listed, answer, current, still>>

AskExpenses(a) ==
    /\ a \in DOMAIN listed \ DOMAIN answer
    /\ current = Null
    /\ current' = a /\ query' = "out" /\ still' = TRUE
    /\ sum' = RowOf(a).initial - GetAccountExpenses(a, RowOf(a))
    /\ UNCHANGED <<vars, listed, answer>>

AskTransfersOut(a) == Ask(a, "out", "in", sum - GetAccountTransfersOut(a, RowOf(a)))
AskTransfersIn(a) == Ask(a, "in", "incomes", sum + GetAccountTransfersIn(a, RowOf(a)))

\* The last of the four totals completes the account.
AskIncomes(a) ==
    /\ current = a /\ query = "incomes"
    /\ answer' = With(answer, Row(a, sum + GetAccountIncomes(a, RowOf(a))))
    /\ current' = Null /\ query' = "expenses" /\ sum' = 0
    /\ UNCHANGED <<vars, listed, still>>

\* The response is sent once every account is done, or an error when a query
\* fails: then the whole response is dropped.
Respond ==
    /\ listed # NoRows
    /\ listed' = NoRows /\ answer' = NoRows
    /\ current' = Null /\ query' = "expenses" /\ sum' = 0 /\ still' = TRUE
    /\ UNCHANGED vars

ReaderNext ==
    \/ Write
    \/ \E user \in Opt(Users) : ListAccounts(user)
    \/ \E a \in Accounts :
          \/ \E m \in AccountEdits : UpdateAndRead(a, m)
          \/ AskExpenses(a) \/ AskTransfersOut(a) \/ AskTransfersIn(a) \/ AskIncomes(a)
    \/ Respond

ReaderSpec == ReaderInit /\ [][ReaderNext]_allVars
-----------------------------------------------------------------------------
\* A balance is exact for the account row it was listed with if no entry of
\* that account changed while its totals were read, whatever happened to other
\* accounts, to the account's own row (its initial balance and date are taken
\* from one version of it) or before the account's turn came.
ExactWhenStill ==
    [][\A a \in DOMAIN answer' \ DOMAIN answer :
          still => answer'[a] = Balance(a, listed[a])]_allVars
=============================================================================
