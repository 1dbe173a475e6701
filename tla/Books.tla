------------------------------- MODULE Books -------------------------------
(***************************************************************************)
(* The tables accounts, expenses, incomes and transfers, every handler that *)
(* writes them, and the four queries an account's balance is made of.       *)
(*                                                                         *)
(* A handler is one statement or one transaction that only inserts, and its *)
(* rows appear at once; UpdateExpense first reads the new account, whose    *)
(* owner never changes and which is never deleted.  So a handler is one     *)
(* step here.  How an amount in another currency is priced is the subject   *)
(* of LotPricing: here its base amount is any of Bases, or Null.            *)
(*                                                                         *)
(* An id is handed out once, as gen_random_uuid does.  The request that     *)
(* gets id inserts the transfer or income id, the expense <<id, "spend">>   *)
(* (a purchase, Commission2, or the commission of an income) and the        *)
(* expense <<id, "source">> (Commission of a transfer).                     *)
(***************************************************************************)
EXTENDS Integers, FiniteSets, FiniteSetsExt, Functions

CONSTANTS
    Users, Accounts, Ids,
    Currencies, EUR, Null,
    Bases,          \* what LotPricing may price an amount at
    \* What the requests may ask for; an absent optional field is Null.
    AccountRequests, AccountEdits,
    ExpenseRequests, ExpenseEdits,
    IncomeRequests, IncomeEdits,
    TransferRequests

VARIABLES accounts, expenses, incomes, transfers, used

vars == <<accounts, expenses, incomes, transfers, used>>

Opt(S) == S \cup {Null}

AccountRequest == [ user : Users, currency : Currencies, initial : Int, since : Nat ]
AccountEdit == [ initial : Opt(Int), since : Opt(Nat) ]
ExpenseRequest ==
    [ account : Accounts, date : Nat, amount : Nat, currency : Currencies,
      charged : Opt(Nat), chargedCurrency : Opt(Currencies) ]
ExpenseEdit ==
    [ account : Opt(Accounts), date : Opt(Nat), amount : Opt(Nat),
      currency : Opt(Currencies), charged : Opt(Nat),
      chargedCurrency : Opt(Currencies) ]
\* A fee is Null when the commission is absent, empty or "0".
IncomeRequest ==
    [ user : Users, account : Accounts, date : Nat, amount : Nat,
      currency : Currencies, charged : Opt(Nat), chargedCurrency : Opt(Currencies),
      fee : Opt(Nat), feeCurrency : Currencies ]
IncomeEdit ==
    [ date : Opt(Nat), amount : Opt(Nat), currency : Opt(Currencies),
      charged : Opt(Nat), chargedCurrency : Opt(Currencies) ]
TransferRequest ==
    [ date : Nat, from : Opt(Accounts), fromAmount : Opt(Nat),
      to : Opt(Accounts), toAmount : Nat,
      fee : Opt(Nat), feeCurrency : Currencies,
      fee2 : Opt(Nat), fee2Currency : Currencies ]

ASSUME SentinelAssumption ==
    /\ EUR \in Currencies
    /\ Null \notin Int \cup Users \cup Accounts \cup Currencies \cup Ids
ASSUME RequestsAssumption ==
    /\ Bases \subseteq Nat
    /\ AccountRequests \subseteq AccountRequest /\ AccountEdits \subseteq AccountEdit
    /\ ExpenseRequests \subseteq ExpenseRequest /\ ExpenseEdits \subseteq ExpenseEdit
    /\ IncomeRequests \subseteq IncomeRequest /\ IncomeEdits \subseteq IncomeEdit
    /\ TransferRequests \subseteq TransferRequest

\* Rows.  base_currency is EUR where base_amount is not NULL.
AccountRow ==
    [ user : Users, currency : Currencies, initial : Int, since : Nat,
      active : BOOLEAN ]
ExpenseRow ==
    [ user : Users, account : Accounts, date : Nat, amount : Nat,
      currency : Currencies, charged : Opt(Nat), chargedCurrency : Opt(Currencies),
      transfer : Opt(Ids), income : Opt(Ids), base : Opt(Nat) ]
IncomeRow ==
    [ user : Users, account : Accounts, date : Nat, amount : Nat,
      currency : Currencies, charged : Opt(Nat), chargedCurrency : Opt(Currencies),
      base : Opt(Nat) ]
TransferRow ==
    [ date : Nat, from : Opt(Accounts), fromAmount : Opt(Nat), to : Opt(Accounts),
      toAmount : Nat, link : Opt(Ids) ]

ExpenseIds == Ids \X {"spend", "source"}

\* A table: its rows by their primary keys.
IsTable(t, keys, rows) == DOMAIN t \subseteq keys /\ t \in [DOMAIN t -> rows]

TypeOK ==
    /\ used \subseteq Ids
    /\ IsTable(accounts, Accounts, AccountRow)
    /\ IsTable(expenses, ExpenseIds, ExpenseRow)
    /\ IsTable(incomes, Ids, IncomeRow)
    /\ IsTable(transfers, Ids, TransferRow)

NoRows == [k \in {} |-> Null]

Init ==
    /\ used = {}
    /\ accounts = NoRows /\ expenses = NoRows
    /\ incomes = NoRows /\ transfers = NoRows
-----------------------------------------------------------------------------
\* Tables as functions: one row under its key, rows put in, rows taken out.
Row(k, row) == [j \in {k} |-> row]
With(table, rows) ==
    [k \in DOMAIN table \cup DOMAIN rows |->
        IF k \in DOMAIN table THEN table[k] ELSE rows[k]]
Without(table, K) == Restrict(table, DOMAIN table \ K)

\* Mutation: SET column = narg.
SetNull(new, old) == new

\* COALESCE(narg, column) of the SET clauses.
Coalesce(new, old) == IF new # Null THEN new ELSE old

\* GetAccount(a), and the column of it the handlers use.
Exists(a) == a \in DOMAIN accounts
Owner(a) == accounts[a].user

NewId(id) == id \in Ids \ used /\ used' = used \cup {id}

\* What computeBaseAmount may return for an amount.
PricedAt(amount, currency) == IF currency = EUR THEN {amount} ELSE Opt(Bases)
-----------------------------------------------------------------------------
(***************************************************************************)
(* Accounts.                                                               *)
(***************************************************************************)
NewAccount(m) ==
    [ user |-> m.user, currency |-> m.currency, initial |-> m.initial,
      since |-> m.since, active |-> TRUE ]

CreateAccount(a, m) ==
    /\ a \in Accounts /\ ~Exists(a)
    /\ accounts' = With(accounts, Row(a, NewAccount(m)))
    /\ UNCHANGED <<expenses, incomes, transfers, used>>

AccountAfter(row, m) ==
    [ row EXCEPT !.initial = Coalesce(m.initial, row.initial),
                 !.since = Coalesce(m.since, row.since) ]

\* The UPDATE; the balance in its answer is read by Balances.
UpdateAccount(a, m) ==
    /\ Exists(a)
    /\ accounts' = [accounts EXCEPT ![a] = AccountAfter(@, m)]
    /\ UNCHANGED <<expenses, incomes, transfers, used>>

DeactivateAccount(a) ==
    /\ Exists(a)
    /\ accounts' = [accounts EXCEPT ![a].active = FALSE]
    /\ UNCHANGED <<expenses, incomes, transfers, used>>
-----------------------------------------------------------------------------
(***************************************************************************)
(* Expenses.  The user_id of an expense is the owner of its account, not    *)
(* the user of the request.                                                 *)
(***************************************************************************)
Purchase(m, b) ==
    [ user |-> Owner(m.account), account |-> m.account, date |-> m.date,
      amount |-> m.amount, currency |-> m.currency, charged |-> m.charged,
      chargedCurrency |-> m.chargedCurrency, transfer |-> Null, income |-> Null,
      base |-> b ]

UsesCharge(m) == m.charged # Null /\ m.chargedCurrency # Null

CreateExpense(id, m) ==
    /\ NewId(id)
    /\ Exists(m.account)
    /\ \E b \in IF UsesCharge(m) THEN PricedAt(m.charged, m.chargedCurrency)
                                 ELSE PricedAt(m.amount, m.currency) :
          expenses' = With(expenses, Row(<<id, "spend">>, Purchase(m, b)))
    /\ UNCHANGED <<accounts, incomes, transfers>>

\* Mutation: moving an expense leaves user_id alone.
KeepsUser(row, m) == row.user

\* With an account goes its owner.
UserAfter(row, m) == IF m.account # Null THEN Owner(m.account) ELSE row.user

\* The SET clauses; base_amount, transfer_id and income_id are not among them.
ExpenseAfter(row, m) ==
    [ user |-> UserAfter(row, m), account |-> Coalesce(m.account, row.account),
      date |-> Coalesce(m.date, row.date), amount |-> Coalesce(m.amount, row.amount),
      currency |-> Coalesce(m.currency, row.currency),
      charged |-> Coalesce(m.charged, row.charged),
      chargedCurrency |-> Coalesce(m.chargedCurrency, row.chargedCurrency),
      transfer |-> row.transfer, income |-> row.income, base |-> row.base ]

UpdateExpense(x, m) ==
    /\ x \in DOMAIN expenses
    /\ m.account = Null \/ Exists(m.account)
    /\ expenses' = [expenses EXCEPT ![x] = ExpenseAfter(@, m)]
    /\ UNCHANGED <<accounts, incomes, transfers, used>>

DeleteExpense(x) ==
    /\ x \in DOMAIN expenses
    /\ expenses' = Without(expenses, {x})
    /\ UNCHANGED <<accounts, incomes, transfers, used>>
-----------------------------------------------------------------------------
(***************************************************************************)
(* Incomes.  Their user, and that of their fee, is the request's; nobody    *)
(* computes a base amount for either.                                       *)
(***************************************************************************)
Fee(user, account, date, amount, currency, transfer, income, b) ==
    [ user |-> user, account |-> account, date |-> date, amount |-> amount,
      currency |-> currency, charged |-> Null, chargedCurrency |-> Null,
      transfer |-> transfer, income |-> income, base |-> b ]

CommissionFee(id, m) ==
    IF m.fee = Null THEN NoRows
    ELSE Row(<<id, "spend">>,
             Fee(m.user, m.account, m.date, m.fee, m.feeCurrency, Null, id, Null))

NewIncome(m) ==
    [ user |-> m.user, account |-> m.account, date |-> m.date, amount |-> m.amount,
      currency |-> m.currency, charged |-> m.charged,
      chargedCurrency |-> m.chargedCurrency, base |-> Null ]

CreateIncome(id, m) ==
    /\ NewId(id)
    /\ Exists(m.account)
    /\ incomes' = With(incomes, Row(id, NewIncome(m)))
    /\ expenses' = With(expenses, CommissionFee(id, m))
    /\ UNCHANGED <<accounts, transfers>>

IncomeAfter(row, m) ==
    [ user |-> row.user, account |-> row.account, date |-> Coalesce(m.date, row.date),
      amount |-> Coalesce(m.amount, row.amount),
      currency |-> Coalesce(m.currency, row.currency),
      charged |-> Coalesce(m.charged, row.charged),
      chargedCurrency |-> Coalesce(m.chargedCurrency, row.chargedCurrency),
      base |-> row.base ]

UpdateIncome(i, m) ==
    /\ i \in DOMAIN incomes
    /\ incomes' = [incomes EXCEPT ![i] = IncomeAfter(@, m)]
    /\ UNCHANGED <<accounts, expenses, transfers, used>>

\* Mutation: the foreign key does not cascade.
KeptFees(id) == {}

\* ON DELETE CASCADE of expenses.income_id.
IncomeFees(i) == {x \in DOMAIN expenses : expenses[x].income = i}

DeleteIncome(i) ==
    /\ i \in DOMAIN incomes
    /\ incomes' = Without(incomes, {i})
    /\ expenses' = Without(expenses, IncomeFees(i))
    /\ UNCHANGED <<accounts, transfers, used>>
-----------------------------------------------------------------------------
(***************************************************************************)
(* Transfers.                                                              *)
(***************************************************************************)
SourceFee(id, m) ==
    IF m.fee = Null \/ m.from = Null THEN NoRows
    ELSE Row(<<id, "source">>,
             Fee(Owner(m.from), m.from, m.date, m.fee, m.feeCurrency, id, Null,
                 IF m.feeCurrency = EUR THEN m.fee ELSE Null))

DestinationFee(id, m, b) ==
    IF m.fee2 = Null \/ m.to = Null THEN NoRows
    ELSE Row(<<id, "spend">>,
             Fee(Owner(m.to), m.to, m.date, m.fee2, m.fee2Currency, id, Null, b))

NewTransfer(m, link) ==
    [ date |-> m.date, from |-> m.from, fromAmount |-> m.fromAmount,
      to |-> m.to, toAmount |-> m.toAmount, link |-> link ]

\* The foreign keys and the CHECK of the table stand in for the handler's guards.
CreateTransfer(id, m, link) ==
    /\ NewId(id)
    /\ m.from # Null \/ m.to # Null
    /\ m.from # Null => Exists(m.from)
    /\ m.to # Null => Exists(m.to)
    /\ link \in Opt(DOMAIN transfers)
    /\ transfers' = With(transfers, Row(id, NewTransfer(m, link)))
    /\ \E b \in IF m.fee2 = Null THEN {Null} ELSE PricedAt(m.fee2, m.fee2Currency) :
          expenses' = With(expenses, With(SourceFee(id, m), DestinationFee(id, m, b)))
    /\ UNCHANGED <<accounts, incomes>>

\* ON DELETE CASCADE of expenses.transfer_id.
TransferFees(t) == {x \in DOMAIN expenses : expenses[x].transfer = t}

\* ON DELETE SET NULL of linked_transfer_id.
LinkAfter(u, t) == IF transfers[u].link = t THEN Null ELSE transfers[u].link

DeleteTransfer(t) ==
    /\ t \in DOMAIN transfers
    /\ transfers' = [u \in DOMAIN transfers \ {t} |->
         [transfers[u] EXCEPT !.link = LinkAfter(u, t)]]
    /\ expenses' = Without(expenses, TransferFees(t))
    /\ UNCHANGED <<accounts, incomes, used>>
-----------------------------------------------------------------------------
Next ==
    \/ \E a \in Accounts :
          \/ \E m \in AccountRequests : CreateAccount(a, m)
          \/ \E m \in AccountEdits : UpdateAccount(a, m)
          \/ DeactivateAccount(a)
    \/ \E id \in Ids :
          \/ \E m \in ExpenseRequests : CreateExpense(id, m)
          \/ \E m \in IncomeRequests : CreateIncome(id, m)
          \/ \E m \in IncomeEdits : UpdateIncome(id, m)
          \/ \E m \in TransferRequests, link \in Opt(Ids) : CreateTransfer(id, m, link)
          \/ DeleteIncome(id) \/ DeleteTransfer(id)
    \/ \E x \in ExpenseIds :
          \/ \E m \in ExpenseEdits : UpdateExpense(x, m)
          \/ DeleteExpense(x)

Spec == Init /\ [][Next]_vars
-----------------------------------------------------------------------------
(***************************************************************************)
(* The balance of account a whose row was read as acc: what withBalance     *)
(* computes from four SUMs, each from the initial date of the account on.   *)
(***************************************************************************)
\* GetAccountExpenses and GetAccountIncomes count what is in the account's
\* currency: the charged amount if that is, or else the amount.
InCurrency(row, cur) == row.currency = cur \/ row.chargedCurrency = cur
Counted(row, a, acc) ==
    row.account = a /\ row.date >= acc.since /\ InCurrency(row, acc.currency)
AmountIn(row, cur) ==
    IF row.chargedCurrency = cur /\ row.charged # Null THEN row.charged ELSE row.amount

TotalCounted(table, a, acc) ==
    SumFunction([k \in {k \in DOMAIN table : Counted(table[k], a, acc)} |->
                    AmountIn(table[k], acc.currency)])

GetAccountExpenses(a, acc) == TotalCounted(expenses, a, acc)
GetAccountIncomes(a, acc) == TotalCounted(incomes, a, acc)

\* SUM skips the rows whose from_amount is NULL.
GetAccountTransfersOut(a, acc) ==
    SumFunction([t \in {t \in DOMAIN transfers :
                          /\ transfers[t].from = a /\ transfers[t].date >= acc.since
                          /\ transfers[t].fromAmount # Null} |-> transfers[t].fromAmount])
GetAccountTransfersIn(a, acc) ==
    SumFunction([t \in {t \in DOMAIN transfers :
                          transfers[t].to = a /\ transfers[t].date >= acc.since} |->
                    transfers[t].toAmount])

Balance(a, acc) ==
    acc.initial - GetAccountExpenses(a, acc) - GetAccountTransfersOut(a, acc)
      + GetAccountTransfersIn(a, acc) + GetAccountIncomes(a, acc)
-----------------------------------------------------------------------------
(***************************************************************************)
(* Safety.                                                                 *)
(***************************************************************************)
\* Every row a row refers to is there: the fee expenses of a transfer or an
\* income go with it, even after they were edited or moved to another account,
\* and so do the links of other transfers to it.
NoDangling ==
    /\ \A x \in DOMAIN expenses :
          /\ expenses[x].account \in DOMAIN accounts
          /\ expenses[x].transfer \in Opt(DOMAIN transfers)
          /\ expenses[x].income \in Opt(DOMAIN incomes)
    /\ \A i \in DOMAIN incomes : incomes[i].account \in DOMAIN accounts
    /\ \A t \in DOMAIN transfers :
          /\ transfers[t].from \in Opt(DOMAIN accounts)
          /\ transfers[t].to \in Opt(DOMAIN accounts)
          /\ transfers[t].link \in Opt(DOMAIN transfers)

\* The user whose statistics count an expense is the owner of the account it
\* is paid from, wherever UpdateExpense has moved it since.  Fees of incomes
\* are excepted: their user is the one named in the request.
OwnerFollowsAccount ==
    \A x \in DOMAIN expenses :
        expenses[x].income = Null => expenses[x].user = Owner(expenses[x].account)
-----------------------------------------------------------------------------
(***************************************************************************)
(* What comments of the repository say, and the code does otherwise.       *)
(***************************************************************************)
\* schema.sql: an expense with a transfer_id is "excluded from balance".
FeesOutsideBalance ==
    \A a \in DOMAIN accounts : \A x \in DOMAIN expenses :
        Counted(expenses[x], a, accounts[a]) => expenses[x].transfer = Null

\* account.sql: GetAccountExpenses "uses chargedAmount when currency differs
\* from account currency".
ForeignPurchasesCharged ==
    \A a \in DOMAIN accounts : \A x \in DOMAIN expenses :
        /\ Counted(expenses[x], a, accounts[a])
        /\ expenses[x].currency # accounts[a].currency
        => AmountIn(expenses[x], accounts[a].currency) = expenses[x].charged

\* schema.sql, on incomes: base_amount is "computed at insert".  At the least
\* an income in the base currency would have one.
IncomesHaveBase ==
    \A i \in DOMAIN incomes : incomes[i].currency = EUR => incomes[i].base # Null
=============================================================================
