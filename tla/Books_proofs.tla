---------------------------- MODULE Books_proofs ----------------------------
(***************************************************************************)
(* Proofs about Books, for any number of users, accounts, ids and requests. *)
(***************************************************************************)
EXTENDS Books, TLAPS

(***************************************************************************)
(* Tables: inserting, changing and removing rows keeps them tables.         *)
(***************************************************************************)
\* A row that is inserted: the table keeps its rows and gets that one.
LEMMA Inserted ==
    ASSUME NEW t, NEW K, NEW R, IsTable(t, K, R), NEW k \in K, NEW r \in R
    PROVE  /\ IsTable(With(t, Row(k, r)), K, R)
           /\ DOMAIN With(t, Row(k, r)) = DOMAIN t \cup {k}
           /\ \A j \in DOMAIN t : With(t, Row(k, r))[j] = t[j]
           /\ k \notin DOMAIN t => With(t, Row(k, r))[k] = r
BY DEF IsTable, With, Row

\* Two tables put together.
LEMMA Merged ==
    ASSUME NEW t, NEW u, NEW K, NEW R, IsTable(t, K, R), IsTable(u, K, R)
    PROVE  /\ IsTable(With(t, u), K, R)
           /\ DOMAIN With(t, u) = DOMAIN t \cup DOMAIN u
           /\ \A j \in DOMAIN With(t, u) :
                 With(t, u)[j] = IF j \in DOMAIN t THEN t[j] ELSE u[j]
BY DEF IsTable, With

\* The rows that stay are the rows they were.
LEMMA Removed ==
    ASSUME NEW t, NEW K, NEW R, IsTable(t, K, R), NEW S
    PROVE  /\ IsTable(Without(t, S), K, R)
           /\ DOMAIN Without(t, S) = DOMAIN t \ S
           /\ \A j \in DOMAIN t \ S : Without(t, S)[j] = t[j]
BY DEF IsTable, Without, Restrict

\* A table of one row, and the table without rows.
LEMMA OneRow ==
    ASSUME NEW K, NEW R, NEW k \in K, NEW r \in R
    PROVE  IsTable(Row(k, r), K, R) /\ DOMAIN Row(k, r) = {k} /\ Row(k, r)[k] = r
BY DEF IsTable, Row

\* The tables at the start have no rows.
LEMMA Empty ==
    ASSUME NEW K, NEW R
    PROVE  IsTable(NoRows, K, R) /\ DOMAIN NoRows = {}
BY DEF IsTable, NoRows

\* A column keeps its type whether or not a request names a new value.
LEMMA Coalesced ==
    ASSUME NEW S, NEW new \in Opt(S), NEW old \in S
    PROVE  Coalesce(new, old) \in S
BY DEF Coalesce, Opt

\* The same for a nullable column, which an edit cannot set back to NULL.
LEMMA CoalescedOpt ==
    ASSUME NEW S, NEW new \in Opt(S), NEW old \in Opt(S)
    PROVE  Coalesce(new, old) \in Opt(S)
BY DEF Coalesce, Opt
-----------------------------------------------------------------------------
(***************************************************************************)
(* Type correctness.                                                       *)
(***************************************************************************)
\* What computeBaseAmount returns fits the base_amount column.
LEMMA PricedTyped ==
    ASSUME NEW amount \in Nat, NEW currency, NEW b \in PricedAt(amount, currency)
    PROVE  b \in Opt(Nat)
BY RequestsAssumption DEF PricedAt, Opt

\* A fee is a row of the table of expenses.
LEMMA FeeTyped ==
    ASSUME NEW user \in Users, NEW account \in Accounts, NEW date \in Nat,
           NEW amount \in Nat, NEW currency \in Currencies,
           NEW t \in Opt(Ids), NEW i \in Opt(Ids), NEW b \in Opt(Nat)
    PROVE  Fee(user, account, date, amount, currency, t, i, b) \in ExpenseRow
BY DEF Fee, ExpenseRow, Opt

\* The owner of an account that is there is a user.
LEMMA OwnerTyped ==
    ASSUME TypeOK, NEW a, Exists(a)
    PROVE  a \in Accounts /\ accounts[a] \in AccountRow /\ Owner(a) \in Users
BY DEF TypeOK, IsTable, Exists, Owner, AccountRow

\* What a fee of transfer id on account a looks like.
FeeRows(a, id) ==
    [ user : {Owner(a)}, account : {a}, date : Nat, amount : Nat,
      currency : Currencies, charged : {Null}, chargedCurrency : {Null},
      transfer : {id}, income : {Null}, base : Opt(Nat) ]

\* The fee of the source account as a table of at most one row.
LEMMA SourceFeeTable ==
    ASSUME TypeOK, NEW id \in Ids, NEW m \in TransferRequest,
           m.from # Null => Exists(m.from)
    PROVE  /\ IsTable(SourceFee(id, m), ExpenseIds, ExpenseRow)
           /\ \A x \in DOMAIN SourceFee(id, m) :
                 m.from # Null /\ SourceFee(id, m)[x] \in FeeRows(m.from, id)
<1> USE DEF Opt
<1>1. CASE m.fee = Null \/ m.from = Null
  BY <1>1, Empty DEF SourceFee
<1>2. CASE m.fee # Null /\ m.from # Null
  <2> DEFINE fee == Fee(Owner(m.from), m.from, m.date, m.fee, m.feeCurrency, id, Null,
                        IF m.feeCurrency = EUR THEN m.fee ELSE Null)
  <2>1. Owner(m.from) \in Users /\ m.from \in Accounts
    BY <1>2, OwnerTyped
  <2>2. m.date \in Nat /\ m.fee \in Nat /\ m.feeCurrency \in Currencies
    BY <1>2 DEF TransferRequest
  <2>3. fee \in ExpenseRow
    BY <2>1, <2>2, FeeTyped
  <2>4. fee \in FeeRows(m.from, id)
    BY <1>2, <2>2 DEF Fee, FeeRows
  <2>5. SourceFee(id, m) = Row(<<id, "source">>, fee)
    BY <1>2 DEF SourceFee
  <2> HIDE DEF fee
  <2> DEFINE k == <<id, "source">>
  <2>6. k \in ExpenseIds
    BY DEF ExpenseIds
  <2> HIDE DEF k
  <2>7. IsTable(Row(k, fee), ExpenseIds, ExpenseRow) /\ DOMAIN Row(k, fee) = {k}
          /\ Row(k, fee)[k] = fee
    BY <2>3, <2>6, OneRow
  <2> QED
    BY <1>2, <2>4, <2>5, <2>7 DEF k
<1> QED
  BY <1>1, <1>2

\* ... and that of the destination account.
LEMMA DestinationFeeTable ==
    ASSUME TypeOK, NEW id \in Ids, NEW m \in TransferRequest, NEW b \in Opt(Nat),
           m.to # Null => Exists(m.to)
    PROVE  /\ IsTable(DestinationFee(id, m, b), ExpenseIds, ExpenseRow)
           /\ \A x \in DOMAIN DestinationFee(id, m, b) :
                 m.to # Null /\ DestinationFee(id, m, b)[x] \in FeeRows(m.to, id)
<1> USE DEF Opt
<1>1. CASE m.fee2 = Null \/ m.to = Null
  BY <1>1, Empty DEF DestinationFee
<1>2. CASE m.fee2 # Null /\ m.to # Null
  <2> DEFINE fee == Fee(Owner(m.to), m.to, m.date, m.fee2, m.fee2Currency, id, Null, b)
  <2>1. Owner(m.to) \in Users /\ m.to \in Accounts
    BY <1>2, OwnerTyped
  <2>2. m.date \in Nat /\ m.fee2 \in Nat /\ m.fee2Currency \in Currencies
    BY <1>2 DEF TransferRequest
  <2>3. fee \in ExpenseRow
    BY <2>1, <2>2, FeeTyped
  <2>4. fee \in FeeRows(m.to, id)
    BY <1>2, <2>2 DEF Fee, FeeRows
  <2>5. DestinationFee(id, m, b) = Row(<<id, "spend">>, fee)
    BY <1>2 DEF DestinationFee
  <2> HIDE DEF fee
  <2> DEFINE k == <<id, "spend">>
  <2>6. k \in ExpenseIds
    BY DEF ExpenseIds
  <2> HIDE DEF k
  <2>7. IsTable(Row(k, fee), ExpenseIds, ExpenseRow) /\ DOMAIN Row(k, fee) = {k}
          /\ Row(k, fee)[k] = fee
    BY <2>3, <2>6, OneRow
  <2> QED
    BY <1>2, <2>4, <2>5, <2>7 DEF k
<1> QED
  BY <1>1, <1>2

\* The empty tables are well-typed.
LEMMA InitTypeOK == Init => TypeOK
<1> SUFFICES ASSUME Init PROVE TypeOK
  OBVIOUS
<1> QED
  BY Empty DEF Init, TypeOK

\* Handlers of accounts.
LEMMA AccountsTyped ==
    ASSUME TypeOK, NEW a \in Accounts,
           \/ \E m \in AccountRequests : CreateAccount(a, m)
           \/ \E m \in AccountEdits : UpdateAccount(a, m)
           \/ DeactivateAccount(a)
    PROVE  TypeOK'
<1>1. CASE \E m \in AccountRequests : CreateAccount(a, m)
  <2> PICK m \in AccountRequests : CreateAccount(a, m)
    BY <1>1
  <2> DEFINE row == [ user |-> m.user, currency |-> m.currency, initial |-> m.initial,
                      since |-> m.since, active |-> TRUE ]
  <2>1. row \in AccountRow
    BY RequestsAssumption DEF AccountRequest, AccountRow
  <2>2. accounts' = With(accounts, Row(a, row))
    BY DEF CreateAccount, NewAccount
  <2> HIDE DEF row
  <2>3. IsTable(accounts', Accounts, AccountRow)
    BY <2>1, <2>2, Inserted DEF TypeOK
  <2> QED
    BY <2>3 DEF TypeOK, CreateAccount, NewAccount
<1>2. CASE \E m \in AccountEdits : UpdateAccount(a, m)
  <2> PICK m \in AccountEdits : UpdateAccount(a, m)
    BY <1>2
  <2> DEFINE row == [accounts[a] EXCEPT
                        !.initial = Coalesce(m.initial, accounts[a].initial),
                        !.since = Coalesce(m.since, accounts[a].since)]
  <2>1. accounts[a] \in AccountRow
    BY OwnerTyped DEF UpdateAccount, AccountAfter
  <2>2. m.initial \in Opt(Int) /\ m.since \in Opt(Nat)
    BY RequestsAssumption DEF AccountEdit
  <2>3. Coalesce(m.initial, accounts[a].initial) \in Int
    BY <2>1, <2>2, Coalesced DEF AccountRow
  <2>4. Coalesce(m.since, accounts[a].since) \in Nat
    BY <2>1, <2>2, Coalesced DEF AccountRow
  <2>5. row \in AccountRow
    BY <2>1, <2>3, <2>4 DEF AccountRow
  <2>6. accounts' = [accounts EXCEPT ![a] = row]
    BY <2>1 DEF UpdateAccount, AccountAfter, TypeOK, IsTable, AccountRow
  <2> HIDE DEF row
  <2>7. IsTable(accounts', Accounts, AccountRow)
    BY <2>5, <2>6, OwnerTyped DEF IsTable, TypeOK, UpdateAccount, AccountAfter, Exists
  <2> QED
    BY <2>7 DEF TypeOK, UpdateAccount, AccountAfter
<1>3. CASE DeactivateAccount(a)
  <2> DEFINE row == [accounts[a] EXCEPT !.active = FALSE]
  <2>1. row \in AccountRow
    BY <1>3, OwnerTyped DEF DeactivateAccount, AccountRow
  <2>2. accounts' = [accounts EXCEPT ![a] = row]
    BY <1>3 DEF DeactivateAccount, TypeOK, IsTable
  <2> HIDE DEF row
  <2>3. IsTable(accounts', Accounts, AccountRow)
    BY <1>3, <2>1, <2>2, OwnerTyped DEF IsTable, TypeOK, DeactivateAccount, Exists
  <2> QED
    BY <1>3, <2>3 DEF TypeOK, DeactivateAccount
<1> QED
  BY <1>1, <1>2, <1>3

\* The row a purchase becomes.
LEMMA PurchaseTyped ==
    ASSUME TypeOK, NEW m \in ExpenseRequests, Exists(m.account),
           NEW b \in IF UsesCharge(m) THEN PricedAt(m.charged, m.chargedCurrency)
                                      ELSE PricedAt(m.amount, m.currency)
    PROVE  Purchase(m, b) \in ExpenseRow
<1>1. m \in ExpenseRequest
  BY RequestsAssumption
<1>2. Owner(m.account) \in Users
  BY OwnerTyped
<1>3. b \in Opt(Nat)
  <2>1. CASE UsesCharge(m)
    <3>1. m.charged \in Nat
      BY <1>1, <2>1 DEF ExpenseRequest, UsesCharge, Opt
    <3> QED
      BY <2>1, <3>1, PricedTyped
  <2>2. CASE ~UsesCharge(m)
    BY <1>1, <2>2, PricedTyped DEF ExpenseRequest
  <2> QED
    BY <2>1, <2>2
<1> QED
  BY <1>1, <1>2, <1>3 DEF Purchase, ExpenseRequest, ExpenseRow, Opt

\* The row an edit makes of an expense.
LEMMA EditedExpenseTyped ==
    ASSUME TypeOK, NEW m \in ExpenseEdits, NEW row \in ExpenseRow,
           m.account = Null \/ Exists(m.account)
    PROVE  ExpenseAfter(row, m) \in ExpenseRow
<1>1. m \in ExpenseEdit
  BY RequestsAssumption
<1>2. UserAfter(row, m) \in Users
  BY OwnerTyped DEF UserAfter, ExpenseRow
<1>3. Coalesce(m.account, row.account) \in Accounts
  BY <1>1, Coalesced DEF ExpenseEdit, ExpenseRow
<1>4. Coalesce(m.date, row.date) \in Nat
  BY <1>1, Coalesced DEF ExpenseEdit, ExpenseRow
<1>5. Coalesce(m.amount, row.amount) \in Nat
  BY <1>1, Coalesced DEF ExpenseEdit, ExpenseRow
<1>6. Coalesce(m.currency, row.currency) \in Currencies
  BY <1>1, Coalesced DEF ExpenseEdit, ExpenseRow
<1>7. Coalesce(m.charged, row.charged) \in Opt(Nat)
  BY <1>1, CoalescedOpt DEF ExpenseEdit, ExpenseRow
<1>8. Coalesce(m.chargedCurrency, row.chargedCurrency) \in Opt(Currencies)
  BY <1>1, CoalescedOpt DEF ExpenseEdit, ExpenseRow
<1> QED
  BY <1>2, <1>3, <1>4, <1>5, <1>6, <1>7, <1>8
     DEF ExpenseAfter, ExpenseRow

\* Handlers of expenses.
LEMMA CreateExpenseTyped ==
    ASSUME TypeOK, NEW id \in Ids, NEW m \in ExpenseRequests, CreateExpense(id, m)
    PROVE  TypeOK'
<1> PICK b \in IF UsesCharge(m) THEN PricedAt(m.charged, m.chargedCurrency)
                                ELSE PricedAt(m.amount, m.currency) :
       expenses' = With(expenses, Row(<<id, "spend">>, Purchase(m, b)))
  BY DEF CreateExpense
<1>1. Purchase(m, b) \in ExpenseRow
  BY PurchaseTyped DEF CreateExpense
<1>2. <<id, "spend">> \in ExpenseIds
  BY DEF ExpenseIds
<1>3. IsTable(expenses', ExpenseIds, ExpenseRow)
  BY <1>1, <1>2, Inserted DEF TypeOK
<1> QED
  BY <1>3 DEF TypeOK, CreateExpense, NewId

\* UpdateExpense writes a row of its type, whichever columns the request leaves out.
LEMMA UpdateExpenseTyped ==
    ASSUME TypeOK, NEW x \in ExpenseIds, NEW m \in ExpenseEdits, UpdateExpense(x, m)
    PROVE  TypeOK'
<1>1. expenses' = [expenses EXCEPT ![x] = ExpenseAfter(expenses[x], m)]
  BY DEF UpdateExpense
<1>2. expenses[x] \in ExpenseRow
  BY DEF TypeOK, IsTable, UpdateExpense
<1>3. ExpenseAfter(expenses[x], m) \in ExpenseRow
  BY <1>2, EditedExpenseTyped DEF UpdateExpense
<1>4. IsTable(expenses', ExpenseIds, ExpenseRow)
  BY <1>1, <1>3, OwnerTyped DEF IsTable, TypeOK, UpdateExpense
<1> QED
  BY <1>4 DEF TypeOK, UpdateExpense

\* DeleteExpense leaves fewer rows.
LEMMA DeleteExpenseTyped ==
    ASSUME TypeOK, NEW x \in ExpenseIds, DeleteExpense(x)
    PROVE  TypeOK'
BY Removed DEF TypeOK, DeleteExpense

\* Handlers of incomes.
LEMMA CommissionFeeTable ==
    ASSUME NEW id \in Ids, NEW m \in IncomeRequest
    PROVE  /\ IsTable(CommissionFee(id, m), ExpenseIds, ExpenseRow)
           /\ \A x \in DOMAIN CommissionFee(id, m) :
                 /\ CommissionFee(id, m)[x].account = m.account
                 /\ CommissionFee(id, m)[x].income = id
                 /\ CommissionFee(id, m)[x].transfer = Null
<1>1. CASE m.fee = Null
  BY <1>1, Empty DEF CommissionFee
<1>2. CASE m.fee # Null
  <2> DEFINE fee == Fee(m.user, m.account, m.date, m.fee, m.feeCurrency, Null, id, Null)
             k == <<id, "spend">>
  <2>1. fee \in ExpenseRow
    BY <1>2, FeeTyped DEF IncomeRequest, Opt
  <2>2. fee.account = m.account /\ fee.income = id /\ fee.transfer = Null
    BY DEF Fee
  <2>3. CommissionFee(id, m) = Row(k, fee)
    BY <1>2 DEF CommissionFee
  <2>4. k \in ExpenseIds
    BY DEF ExpenseIds
  <2> HIDE DEF fee, k
  <2>5. IsTable(Row(k, fee), ExpenseIds, ExpenseRow) /\ DOMAIN Row(k, fee) = {k}
          /\ Row(k, fee)[k] = fee
    BY <2>1, <2>4, OneRow
  <2> QED
    BY <2>2, <2>3, <2>5
<1> QED
  BY <1>1, <1>2

\* CreateIncome writes an income and at most one fee.
LEMMA CreateIncomeTyped ==
    ASSUME TypeOK, NEW id \in Ids, NEW m \in IncomeRequests, CreateIncome(id, m)
    PROVE  TypeOK'
<1> DEFINE row == [ user |-> m.user, account |-> m.account, date |-> m.date,
                    amount |-> m.amount, currency |-> m.currency,
                    charged |-> m.charged, chargedCurrency |-> m.chargedCurrency,
                    base |-> Null ]
<1>1. m \in IncomeRequest
  BY RequestsAssumption
<1>2. row \in IncomeRow
  BY <1>1 DEF IncomeRequest, IncomeRow, Opt
<1>3. incomes' = With(incomes, Row(id, row))
  BY DEF CreateIncome, NewIncome
<1> HIDE DEF row
<1>4. IsTable(incomes', Ids, IncomeRow)
  BY <1>2, <1>3, Inserted DEF TypeOK
<1>5. IsTable(expenses', ExpenseIds, ExpenseRow)
  BY <1>1, CommissionFeeTable, Merged DEF TypeOK, CreateIncome, NewIncome
<1> QED
  BY <1>4, <1>5 DEF TypeOK, CreateIncome, NewIncome, NewId

\* UpdateIncome writes a row of its type and leaves its account alone.
LEMMA UpdateIncomeTyped ==
    ASSUME TypeOK, NEW i \in Ids, NEW m \in IncomeEdits, UpdateIncome(i, m)
    PROVE  /\ TypeOK'
           /\ DOMAIN incomes' = DOMAIN incomes
           /\ \A j \in DOMAIN incomes : incomes'[j].account = incomes[j].account
<1> DEFINE old == incomes[i]
<1>1. m \in IncomeEdit
  BY RequestsAssumption
<1>2. old \in IncomeRow
  BY DEF TypeOK, IsTable, UpdateIncome, IncomeAfter
<1>3. Coalesce(m.date, old.date) \in Nat
  BY <1>1, <1>2, Coalesced DEF IncomeEdit, IncomeRow
<1>4. Coalesce(m.amount, old.amount) \in Nat
  BY <1>1, <1>2, Coalesced DEF IncomeEdit, IncomeRow
<1>5. Coalesce(m.currency, old.currency) \in Currencies
  BY <1>1, <1>2, Coalesced DEF IncomeEdit, IncomeRow
<1>6. Coalesce(m.charged, old.charged) \in Opt(Nat)
  BY <1>1, <1>2, CoalescedOpt DEF IncomeEdit, IncomeRow
<1>7. Coalesce(m.chargedCurrency, old.chargedCurrency) \in Opt(Currencies)
  BY <1>1, <1>2, CoalescedOpt DEF IncomeEdit, IncomeRow
<1> DEFINE row == [ user |-> old.user, account |-> old.account,
                    date |-> Coalesce(m.date, old.date),
                    amount |-> Coalesce(m.amount, old.amount),
                    currency |-> Coalesce(m.currency, old.currency),
                    charged |-> Coalesce(m.charged, old.charged),
                    chargedCurrency |-> Coalesce(m.chargedCurrency, old.chargedCurrency),
                    base |-> old.base ]
<1>8. row \in IncomeRow
  BY <1>2, <1>3, <1>4, <1>5, <1>6, <1>7 DEF IncomeRow
<1>9. incomes' = [incomes EXCEPT ![i] = row]
  BY DEF UpdateIncome, IncomeAfter
<1>10. row.account = old.account
  OBVIOUS
<1> HIDE DEF row
<1> QED
  BY <1>8, <1>9, <1>10 DEF UpdateIncome, IncomeAfter, TypeOK, IsTable

\* DeleteIncome leaves fewer rows in two tables.
LEMMA DeleteIncomeTyped ==
    ASSUME TypeOK, NEW i \in Ids, DeleteIncome(i)
    PROVE  TypeOK'
BY Removed DEF TypeOK, DeleteIncome

\* Handlers of transfers.
LEMMA CreateTransferTyped ==
    ASSUME TypeOK, NEW id \in Ids, NEW m \in TransferRequests, NEW link \in Opt(Ids),
           CreateTransfer(id, m, link)
    PROVE  /\ TypeOK'
           /\ \A x \in DOMAIN expenses' \ DOMAIN expenses :
                 \E a \in {m.from, m.to} \ {Null} : expenses'[x] \in FeeRows(a, id)
           /\ \A x \in DOMAIN expenses : expenses'[x] = expenses[x]
<1> DEFINE row == [ date |-> m.date, from |-> m.from, fromAmount |-> m.fromAmount,
                    to |-> m.to, toAmount |-> m.toAmount, link |-> link ]
<1>1. m \in TransferRequest
  BY RequestsAssumption
<1>2. row \in TransferRow
  BY <1>1 DEF TransferRequest, TransferRow
<1>3. transfers' = With(transfers, Row(id, row))
  BY DEF CreateTransfer, NewTransfer
<1> HIDE DEF row
<1>4. IsTable(transfers', Ids, TransferRow)
  BY <1>2, <1>3, Inserted DEF TypeOK
<1> PICK b \in IF m.fee2 = Null THEN {Null} ELSE PricedAt(m.fee2, m.fee2Currency) :
       expenses' = With(expenses, With(SourceFee(id, m), DestinationFee(id, m, b)))
  BY DEF CreateTransfer, NewTransfer
<1>5. b \in Opt(Nat)
  <2>1. CASE m.fee2 = Null
    BY <2>1 DEF Opt
  <2>2. CASE m.fee2 # Null
    <3>1. m.fee2 \in Nat
      BY <1>1, <2>2 DEF TransferRequest, Opt
    <3> QED
      BY <2>2, <3>1, PricedTyped
  <2> QED
    BY <2>1, <2>2
<1> DEFINE source == SourceFee(id, m)
           dest == DestinationFee(id, m, b)
           fees == With(source, dest)
<1>6. /\ IsTable(source, ExpenseIds, ExpenseRow)
      /\ \A x \in DOMAIN source : m.from # Null /\ source[x] \in FeeRows(m.from, id)
  BY <1>1, SourceFeeTable DEF CreateTransfer, NewTransfer
<1>7. /\ IsTable(dest, ExpenseIds, ExpenseRow)
      /\ \A x \in DOMAIN dest : m.to # Null /\ dest[x] \in FeeRows(m.to, id)
  BY <1>1, <1>5, DestinationFeeTable DEF CreateTransfer, NewTransfer
<1> HIDE DEF source, dest
<1>8. /\ IsTable(fees, ExpenseIds, ExpenseRow)
      /\ DOMAIN fees = DOMAIN source \cup DOMAIN dest
      /\ \A x \in DOMAIN fees : fees[x] = IF x \in DOMAIN source THEN source[x] ELSE dest[x]
  BY <1>6, <1>7 DEF IsTable, With
<1>9. \A x \in DOMAIN fees : \E a \in {m.from, m.to} \ {Null} : fees[x] \in FeeRows(a, id)
  BY <1>6, <1>7, <1>8
<1>10. expenses' = With(expenses, fees)
  BY DEF source, dest
<1> HIDE DEF fees
<1>11. /\ DOMAIN expenses' = DOMAIN expenses \cup DOMAIN fees
       /\ \A x \in DOMAIN expenses' :
             expenses'[x] = IF x \in DOMAIN expenses THEN expenses[x] ELSE fees[x]
  BY <1>10 DEF With
<1>12. IsTable(With(expenses, fees), ExpenseIds, ExpenseRow)
  BY <1>8, Merged DEF TypeOK
<1>13. TypeOK'
  BY <1>4, <1>10, <1>12 DEF TypeOK, CreateTransfer, NewTransfer, NewId
<1> QED
  BY <1>9, <1>11, <1>13

\* DeleteTransfer keeps the links of other transfers, or clears them.
LEMMA DeleteTransferTyped ==
    ASSUME TypeOK, NEW t \in Ids, DeleteTransfer(t)
    PROVE  TypeOK'
<1>1. IsTable(expenses', ExpenseIds, ExpenseRow)
  BY Removed DEF TypeOK, DeleteTransfer
<1>2. \A u \in DOMAIN transfers \ {t} : transfers'[u] \in TransferRow
  <2> SUFFICES ASSUME NEW u \in DOMAIN transfers \ {t} PROVE transfers'[u] \in TransferRow
    OBVIOUS
  <2>1. transfers[u] \in TransferRow
    BY DEF TypeOK, IsTable
  <2>2. LinkAfter(u, t) \in Opt(Ids)
    BY <2>1 DEF LinkAfter, TransferRow, Opt
  <2>3. transfers'[u] = [transfers[u] EXCEPT !.link = LinkAfter(u, t)]
    BY DEF DeleteTransfer
  <2> QED
    BY <2>1, <2>2, <2>3 DEF TransferRow
<1>3. IsTable(transfers', Ids, TransferRow)
  BY <1>2 DEF TypeOK, IsTable, DeleteTransfer
<1> QED
  BY <1>1, <1>3 DEF TypeOK, DeleteTransfer

\* Every step keeps the tables well-typed.
LEMMA NextTypeOK == TypeOK /\ [Next]_vars => TypeOK'
<1> SUFFICES ASSUME TypeOK, [Next]_vars PROVE TypeOK'
  OBVIOUS
<1>1. CASE UNCHANGED vars
  BY <1>1 DEF vars, TypeOK
<1>2. CASE Next
  BY <1>2, AccountsTyped, CreateExpenseTyped, UpdateExpenseTyped, DeleteExpenseTyped,
     CreateIncomeTyped, UpdateIncomeTyped, DeleteIncomeTyped, CreateTransferTyped,
     DeleteTransferTyped DEF Next
<1> QED
  BY <1>1, <1>2

\* The tables hold rows of the right shape, whatever is created, edited and
\* deleted: no edit ever writes NULL into a column that must not be NULL.
THEOREM BooksTypeCorrect == Spec => []TypeOK
BY InitTypeOK, NextTypeOK, PTL DEF Spec
-----------------------------------------------------------------------------
(***************************************************************************)
(* References and owners.  Neither is inductive without the other: a new    *)
(* account leaves the owner of an expense's account alone because that      *)
(* account is there already.                                               *)
(***************************************************************************)
Inv == TypeOK /\ NoDangling /\ OwnerFollowsAccount

\* Accounts are never deleted and never change hands.
AccountsStay ==
    \A a \in DOMAIN accounts : a \in DOMAIN accounts' /\ Owner(a)' = Owner(a)

\* Every step keeps the accounts and their owners.
LEMMA AccountsKept ==
    ASSUME TypeOK, [Next]_vars
    PROVE  AccountsStay
<1>1. CASE UNCHANGED vars
  BY <1>1 DEF vars, AccountsStay, Owner
<1>2. ASSUME NEW a \in Accounts, NEW m \in AccountRequests, CreateAccount(a, m)
      PROVE  AccountsStay
  BY <1>2 DEF CreateAccount, NewAccount, AccountsStay, Owner, With
<1>3. ASSUME NEW a \in Accounts, NEW m \in AccountEdits, UpdateAccount(a, m)
      PROVE  AccountsStay
  BY <1>3 DEF UpdateAccount, AccountAfter, AccountsStay, Owner, TypeOK, IsTable, AccountRow
<1>4. ASSUME NEW a \in Accounts, DeactivateAccount(a)
      PROVE  AccountsStay
  BY <1>4 DEF DeactivateAccount, AccountsStay, Owner, TypeOK, IsTable, AccountRow
<1>5. CASE UNCHANGED accounts
  BY <1>5 DEF AccountsStay, Owner
<1> QED
  BY <1>1, <1>2, <1>3, <1>4, <1>5 DEF Next, CreateExpense, UpdateExpense,
     DeleteExpense, CreateIncome, UpdateIncome, DeleteIncome, CreateTransfer,
     DeleteTransfer

\* A step that only touches accounts breaks nothing.
LEMMA AccountsOnly ==
    ASSUME Inv, AccountsStay, UNCHANGED <<expenses, incomes, transfers>>
    PROVE  NoDangling' /\ OwnerFollowsAccount'
BY DEF Inv, AccountsStay, NoDangling, OwnerFollowsAccount, Opt

\* A new expense belongs to the owner of an account that is there.
LEMMA CreateExpenseKeeps ==
    ASSUME Inv, NEW id \in Ids, NEW m \in ExpenseRequests, CreateExpense(id, m)
    PROVE  NoDangling' /\ OwnerFollowsAccount'
<1> PICK b : expenses' = With(expenses, Row(<<id, "spend">>, Purchase(m, b)))
  BY DEF CreateExpense
<1>1. \A x \in DOMAIN expenses' : expenses'[x] = IF x \in DOMAIN expenses
                                                 THEN expenses[x] ELSE Purchase(m, b)
  BY DEF With, Row
<1>2. /\ Purchase(m, b).account = m.account /\ Purchase(m, b).user = Owner(m.account)
      /\ Purchase(m, b).transfer = Null /\ Purchase(m, b).income = Null
  BY DEF Purchase
<1>3. m.account \in DOMAIN accounts
  BY DEF CreateExpense, Exists
<1> QED
  BY <1>1, <1>2, <1>3
     DEF Inv, CreateExpense, NoDangling, OwnerFollowsAccount, Owner, Opt

\* An edited expense follows its account, whether the edit names one or not.
LEMMA UpdateExpenseKeeps ==
    ASSUME Inv, NEW x \in ExpenseIds, NEW m \in ExpenseEdits, UpdateExpense(x, m)
    PROVE  NoDangling' /\ OwnerFollowsAccount'
<1> DEFINE row == ExpenseAfter(expenses[x], m)
<1>1. expenses' = [expenses EXCEPT ![x] = row]
  BY DEF UpdateExpense, ExpenseAfter
<1>2. /\ row.account = IF m.account # Null THEN m.account ELSE expenses[x].account
      /\ row.user = IF m.account # Null THEN Owner(m.account) ELSE expenses[x].user
      /\ row.transfer = expenses[x].transfer /\ row.income = expenses[x].income
  BY DEF ExpenseAfter, Coalesce, UserAfter
<1>3. m.account # Null => m.account \in DOMAIN accounts
  BY DEF UpdateExpense, ExpenseAfter, Exists
<1> HIDE DEF row
<1>4. /\ DOMAIN expenses' = DOMAIN expenses
      /\ \A y \in DOMAIN expenses : expenses'[y] = IF y = x THEN row ELSE expenses[y]
  BY <1>1 DEF UpdateExpense, ExpenseAfter, Inv, TypeOK, IsTable
<1> QED
  BY <1>2, <1>3, <1>4
     DEF Inv, UpdateExpense, ExpenseAfter, NoDangling, OwnerFollowsAccount, Owner

\* A new income is there when its fee refers to it.
LEMMA CreateIncomeKeeps ==
    ASSUME Inv, NEW id \in Ids, NEW m \in IncomeRequests, CreateIncome(id, m)
    PROVE  NoDangling' /\ OwnerFollowsAccount'
<1> DEFINE fees == CommissionFee(id, m)
<1>1. m \in IncomeRequest
  BY RequestsAssumption
<1>2. \A x \in DOMAIN fees : fees[x].account = m.account /\ fees[x].income = id
                               /\ fees[x].transfer = Null
  BY <1>1, CommissionFeeTable
<1>3. expenses' = With(expenses, fees)
  BY DEF CreateIncome, NewIncome
<1> HIDE DEF fees
<1>4. \A x \in DOMAIN expenses' :
         \/ x \in DOMAIN expenses /\ expenses'[x] = expenses[x]
         \/ x \in DOMAIN fees /\ expenses'[x] = fees[x]
  BY <1>3 DEF With
<1>5. /\ DOMAIN incomes' = DOMAIN incomes \cup {id}
      /\ \A i \in DOMAIN incomes' :
            incomes'[i].account = IF i \in DOMAIN incomes THEN incomes[i].account ELSE m.account
  BY DEF CreateIncome, NewIncome, With, Row
<1>6. m.account \in DOMAIN accounts /\ id # Null
  BY SentinelAssumption DEF CreateIncome, NewIncome, Exists
<1>7. UNCHANGED <<accounts, transfers>>
  BY DEF CreateIncome, NewIncome
<1>8. NoDangling'
  BY <1>2, <1>4, <1>5, <1>6, <1>7 DEF Inv, NoDangling, Opt
<1>9. OwnerFollowsAccount'
  BY <1>2, <1>4, <1>6, <1>7 DEF Inv, OwnerFollowsAccount, Owner
<1> QED
  BY <1>8, <1>9

\* A new transfer is there when its fees refer to it, and so is what it links to.
LEMMA CreateTransferKeeps ==
    ASSUME Inv, NEW id \in Ids, NEW m \in TransferRequests, NEW link \in Opt(Ids),
           CreateTransfer(id, m, link)
    PROVE  NoDangling' /\ OwnerFollowsAccount'
<1>1. /\ \A x \in DOMAIN expenses' \ DOMAIN expenses :
            \E a \in {m.from, m.to} \ {Null} : expenses'[x] \in FeeRows(a, id)
      /\ \A x \in DOMAIN expenses : expenses'[x] = expenses[x]
  BY CreateTransferTyped DEF Inv
<1>2. \A x \in DOMAIN expenses' \ DOMAIN expenses :
         /\ expenses'[x].account \in DOMAIN accounts
         /\ expenses'[x].user = Owner(expenses'[x].account)
         /\ expenses'[x].transfer = id /\ expenses'[x].income = Null
  BY <1>1 DEF FeeRows, CreateTransfer, NewTransfer, Exists
<1>3. /\ DOMAIN transfers' = DOMAIN transfers \cup {id}
      /\ \A t \in DOMAIN transfers' :
            \/ t \in DOMAIN transfers /\ transfers'[t] = transfers[t]
            \/ /\ transfers'[t].from = m.from /\ transfers'[t].to = m.to
               /\ transfers'[t].link = link
  BY DEF CreateTransfer, NewTransfer, With, Row
<1>4. /\ m.from # Null => m.from \in DOMAIN accounts
      /\ m.to # Null => m.to \in DOMAIN accounts
      /\ link \in Opt(DOMAIN transfers)
      /\ UNCHANGED <<accounts, incomes>>
  BY DEF CreateTransfer, NewTransfer, Exists
<1>5. NoDangling'
  BY <1>1, <1>2, <1>3, <1>4 DEF Inv, NoDangling, Opt
<1>6. OwnerFollowsAccount'
  BY <1>1, <1>2, <1>4 DEF Inv, OwnerFollowsAccount, Owner
<1> QED
  BY <1>5, <1>6

\* The cascades take every row that refers to what is deleted.
LEMMA DeletesKeep ==
    ASSUME Inv,
           \/ \E x \in ExpenseIds : DeleteExpense(x)
           \/ \E i \in Ids : DeleteIncome(i)
           \/ \E t \in Ids : DeleteTransfer(t)
    PROVE  NoDangling' /\ OwnerFollowsAccount'
<1>1. ASSUME NEW x \in ExpenseIds, DeleteExpense(x)
      PROVE  NoDangling' /\ OwnerFollowsAccount'
  BY <1>1 DEF DeleteExpense, Without, Restrict, Inv, NoDangling, OwnerFollowsAccount, Owner
<1>2. ASSUME NEW i \in Ids, DeleteIncome(i)
      PROVE  NoDangling' /\ OwnerFollowsAccount'
  BY <1>2 DEF DeleteIncome, IncomeFees, Without, Restrict, Inv, NoDangling,
     OwnerFollowsAccount, Owner, Opt
<1>3. ASSUME NEW t \in Ids, DeleteTransfer(t)
      PROVE  NoDangling' /\ OwnerFollowsAccount'
  <2>1. /\ DOMAIN transfers' = DOMAIN transfers \ {t}
        /\ \A u \in DOMAIN transfers' :
              /\ transfers'[u].from = transfers[u].from
              /\ transfers'[u].to = transfers[u].to
              /\ transfers'[u].link = LinkAfter(u, t)
    BY <1>3 DEF DeleteTransfer, Inv, TypeOK, IsTable, TransferRow
  <2>2. /\ DOMAIN expenses' = DOMAIN expenses \ TransferFees(t)
        /\ \A x \in DOMAIN expenses' : expenses'[x] = expenses[x]
    BY <1>3 DEF DeleteTransfer, Without, Restrict
  <2>3. UNCHANGED <<accounts, incomes>>
    BY <1>3 DEF DeleteTransfer
  <2>4. NoDangling'
    BY <2>1, <2>2, <2>3 DEF Inv, NoDangling, TransferFees, LinkAfter, Opt
  <2>5. OwnerFollowsAccount'
    BY <2>2, <2>3 DEF Inv, OwnerFollowsAccount, Owner
  <2> QED
    BY <2>4, <2>5
<1> QED
  BY <1>1, <1>2, <1>3

\* An edited income stays on its account.
LEMMA UpdateIncomeKeeps ==
    ASSUME Inv, NEW i \in Ids, NEW m \in IncomeEdits, UpdateIncome(i, m)
    PROVE  NoDangling' /\ OwnerFollowsAccount'
<1>1. /\ DOMAIN incomes' = DOMAIN incomes
      /\ \A j \in DOMAIN incomes : incomes'[j].account = incomes[j].account
  BY UpdateIncomeTyped DEF Inv
<1>2. UNCHANGED <<accounts, expenses, transfers>>
  BY DEF UpdateIncome, IncomeAfter
<1> QED
  BY <1>1, <1>2 DEF Inv, NoDangling, OwnerFollowsAccount, Owner

\* The invariant holds after every step,
LEMMA NextInv == Inv /\ [Next]_vars => Inv'
<1> SUFFICES ASSUME Inv, [Next]_vars PROVE NoDangling' /\ OwnerFollowsAccount'
  BY NextTypeOK DEF Inv
<1>1. CASE UNCHANGED <<expenses, incomes, transfers>>
  BY <1>1, AccountsKept, AccountsOnly DEF Inv
<1>2. CASE Next
  BY <1>1, <1>2, CreateExpenseKeeps, UpdateExpenseKeeps, CreateIncomeKeeps,
     UpdateIncomeKeeps, CreateTransferKeeps, DeletesKeep
     DEF Next, CreateAccount, UpdateAccount, DeactivateAccount
<1> QED
  BY <1>1, <1>2 DEF vars

\* and at the start.
LEMMA InitInv == Init => Inv
<1> SUFFICES ASSUME Init PROVE NoDangling /\ OwnerFollowsAccount
  BY InitTypeOK DEF Inv
<1> QED
  BY DEF Init, NoRows, NoDangling, OwnerFollowsAccount

\* No row ever refers to a row that is gone: cascades reach every fee of a
\* deleted transfer or income, edited and moved or not.
THEOREM NothingDangles == Spec => []NoDangling
BY InitInv, NextInv, PTL DEF Spec, Inv

\* Apart from fees of incomes, an expense belongs to the owner of the account
\* it is paid from, in every reachable state.
THEOREM OwnersFollow == Spec => []OwnerFollowsAccount
BY InitInv, NextInv, PTL DEF Spec, Inv
=============================================================================
