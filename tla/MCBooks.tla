------------------------------ MODULE MCBooks ------------------------------
(***************************************************************************)
(* Books for TLC: two users, two accounts, two requests that insert rows,   *)
(* and any number of edits and deletions of those.                         *)
(***************************************************************************)
EXTENDS Books, TLC

CONSTANTS ann, bob, eur, kzt, KZT, i1, i2, Early, Late

MCAccountRequests ==
    { [ user |-> ann, currency |-> EUR, initial |-> 9, since |-> 0 ],
      [ user |-> bob, currency |-> KZT, initial |-> 0, since |-> Late ] }
MCAccountEdits == { [ initial |-> 7, since |-> Late ] }

Symmetry == Permutations(Ids)

Paid(account, currency) ==
    [ account |-> account, date |-> Early, amount |-> 2, currency |-> currency,
      charged |-> Null, chargedCurrency |-> Null ]
MCExpenseRequests ==
    { Paid(eur, EUR), [Paid(kzt, KZT) EXCEPT !.date = Late],
      [Paid(kzt, EUR) EXCEPT !.charged = 5, !.chargedCurrency = KZT] }

NoEdit ==
    [ account |-> Null, date |-> Null, amount |-> Null, currency |-> Null,
      charged |-> Null, chargedCurrency |-> Null ]
MCExpenseEdits ==
    { [NoEdit EXCEPT !.account = kzt], [NoEdit EXCEPT !.account = eur, !.amount = 4, !.date = Late] }

\* An edit that names the currency charged, but not how much.
HalfChargedEdits == { [NoEdit EXCEPT !.account = kzt, !.date = Late, !.chargedCurrency = KZT] }

MCIncomeRequests ==
    { [ user |-> bob, account |-> eur, date |-> Early, amount |-> 6, currency |-> EUR,
        charged |-> Null, chargedCurrency |-> Null, fee |-> 1, feeCurrency |-> EUR ],
      [ user |-> bob, account |-> kzt, date |-> Late, amount |-> 6, currency |-> KZT,
        charged |-> Null, chargedCurrency |-> Null, fee |-> Null, feeCurrency |-> EUR ] }
MCIncomeEdits ==
    { [ date |-> Late, amount |-> Null, currency |-> Null, charged |-> 8,
        chargedCurrency |-> EUR ] }

Exchange ==
    [ date |-> Early, from |-> eur, fromAmount |-> 3, to |-> kzt, toAmount |-> 9,
      fee |-> 1, feeCurrency |-> EUR, fee2 |-> 2, fee2Currency |-> KZT ]
MCTransferRequests ==
    { Exchange, [Exchange EXCEPT !.from = Null, !.fromAmount = Null, !.fee2 = Null, !.date = Late],
      [Exchange EXCEPT !.to = Null, !.fee = Null] }
=============================================================================
