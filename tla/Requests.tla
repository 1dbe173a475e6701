------------------------------ MODULE Requests ------------------------------
(***************************************************************************)
(* The two kinds of request that touch the cost-basis lots, CreateExpense   *)
(* and CreateTransfer, as the handlers read them.  A request is a record;   *)
(* an optional protobuf field that is absent (a nil pointer, or the empty   *)
(* string where the code treats the two alike) is the value Null.           *)
(*                                                                         *)
(* Amounts and rates are natural numbers of some smallest unit: the eight   *)
(* decimals of the NUMERIC columns and the float64 arithmetic of the        *)
(* handlers are abstracted to exact integers here.                          *)
(***************************************************************************)
EXTENDS Naturals, FiniteSetsExt

CONSTANTS
    Accounts,      \* rows of the accounts table, none of which is ever deleted
    Currencies,    \* currency codes that occur in requests
    EUR,           \* BaseCurrency, the currency every base amount is in
    Null           \* an absent optional field, and SQL's NULL

ASSUME CurrencyAssumption == EUR \in Currencies
ASSUME NullAssumption == Null \notin Nat \cup Accounts \cup Currencies

(***************************************************************************)
(* An expense has an amount in a currency and, when the card was charged in *)
(* another currency, what was charged.  A transfer receives toAmount on the *)
(* destination account, at a rate to the base currency (0: none given), and *)
(* may carry a fee on the source account (sourceFee, the code's Commission) *)
(* and one on the destination account: Commission2, whose amount and        *)
(* currency are the fields of those names, because both kinds of request    *)
(* hand them to computeBaseAmount.                                          *)
(***************************************************************************)
Request ==
    [ kind : {"expense", "transfer"},
      account : Accounts \cup {Null},       \* AccountId, or ToAccountId
      date : Nat,
      toAmount : Nat,
      toCurrency : Currencies,
      rate : Nat,
      sourceFee : BOOLEAN,                  \* Commission given, and FromAccountId
      amount : Nat \cup {Null},             \* Amount, or Commission2
      currency : Currencies,
      charged : Nat \cup {Null},
      chargedCurrency : Currencies \cup {Null} ]

(***************************************************************************)
(* The priority rule at the top of computeBaseAmount: what was charged      *)
(* counts when both of its fields are there, the purchase amount otherwise. *)
(***************************************************************************)
UsesCharge(q) == q.charged # Null /\ q.chargedCurrency # Null
EffectiveAmount(q) == IF UsesCharge(q) THEN q.charged ELSE q.amount
EffectiveCurrency(q) == IF UsesCharge(q) THEN q.chargedCurrency ELSE q.currency

\* CreateTransfer opens a lot on the destination account.
MakesLot(q) ==
    q.kind = "transfer" /\ q.account # Null /\ q.toCurrency # EUR /\ q.rate > 0

\* The request calls computeBaseAmount: every expense, and a transfer with a
\* commission on its destination account.
HasSpend(q) ==
    q.account # Null /\ q.amount # Null

\* ... and the amount is not in the base currency already, so lots price it.
NeedsLots(q) == HasSpend(q) /\ EffectiveCurrency(q) # EUR

(***************************************************************************)
(* The order of ListAvailableLots: ORDER BY date, created_at.               *)
(***************************************************************************)
Older(q1, time1, q2, time2) ==
    \/ q1.date < q2.date
    \/ q1.date = q2.date /\ time1 < time2
=============================================================================
