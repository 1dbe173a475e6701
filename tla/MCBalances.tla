----------------------------- MODULE MCBalances -----------------------------
(***************************************************************************)
(* A reader of balances beside the writers: one request of each kind, all   *)
(* in one currency so that everything counts, and an expense that moves.    *)
(***************************************************************************)
EXTENDS Balances, MCBooks

FewAccountRequests == {[ user |-> ann, currency |-> EUR, initial |-> 9, since |-> 0 ]}
FewExpenseRequests == {Paid(eur, EUR)}
FewExpenseEdits == {[NoEdit EXCEPT !.account = kzt]}
FewIncomeRequests == {i \in MCIncomeRequests : i.account = eur}
FewIncomeEdits == {}
FewTransferRequests == {[Exchange EXCEPT !.fee = Null, !.fee2Currency = EUR, !.date = Late]}
=============================================================================
