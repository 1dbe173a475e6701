---------------------------- MODULE MCLotPricing ----------------------------
(***************************************************************************)
(* LotPricing for TLC: two transfers that open lots on one account, in      *)
(* either order of their dates, and two requests that draw from them.       *)
(***************************************************************************)
EXTENDS LotPricing, TLC

CONSTANTS t1, t2, e1, e2, kzt, eur, KZT, USD

Blank ==
    [ kind |-> "expense", account |-> kzt, date |-> 1, toAmount |-> 0,
      toCurrency |-> EUR, rate |-> 0, sourceFee |-> FALSE, amount |-> 2,
      currency |-> KZT, charged |-> Null, chargedCurrency |-> Null ]

Buy(date, amount, rate) ==
    [Blank EXCEPT !.kind = "transfer", !.date = date, !.toAmount = amount,
                  !.toCurrency = KZT, !.rate = rate, !.amount = Null]

Spend(amount) == [Blank EXCEPT !.amount = amount]

MCReq == {t1, t2, e1, e2}

\* t2 is dated after t1, or back-dated before it, and then takes a fee of its
\* own from the lots of the account.
MCCmds == (t1 :> {Buy(2, 2, 3)}) @@ (t2 :> {Buy(3, 1, 5), [Buy(1, 1, 5) EXCEPT !.amount = 2]})
            @@ (e1 :> {Spend(2)}) @@ (e2 :> {Spend(2)})

(***************************************************************************)
(* Three requests with every kind of input: purchases in another currency   *)
(* than the card was charged in, of nothing, or from an account without     *)
(* lots; transfers that open no lot (no rate, a destination in the base     *)
(* currency or outside the system), with fees on either account.            *)
(***************************************************************************)
MixedReq == {t1, t2, e1}
MixedCmds ==
    (t1 :> { Buy(2, 2, 3), Buy(2, 2, 0),
             [Buy(2, 2, 3) EXCEPT !.account = eur, !.toCurrency = EUR,
                                  !.amount = 1, !.currency = EUR],
             [Buy(2, 2, 3) EXCEPT !.account = Null, !.sourceFee = TRUE] })
      @@ (t2 :> { [Buy(1, 1, 5) EXCEPT !.amount = 2, !.sourceFee = TRUE],
                  [Buy(2, 3, 5) EXCEPT !.amount = 1] })
      @@ (e1 :> { Spend(2), Spend(0), [Spend(1) EXCEPT !.account = eur],
                  [Spend(1) EXCEPT !.charged = 2, !.chargedCurrency = EUR],
                  [Spend(1) EXCEPT !.currency = EUR, !.charged = 3, !.chargedCurrency = KZT],
                  [Spend(2) EXCEPT !.chargedCurrency = EUR] })

\* Two lots, both shared by two purchases, over two connections.
RaceCmds ==
    (t1 :> {Buy(2, 2, 3)}) @@ (t2 :> {Buy(1, 1, 5)}) @@ (e1 :> {Spend(2)}) @@ (e2 :> {Spend(2)})

\* A second transfer, dated after the first, whose fee meets the lot of the first.
FeeCmds ==
    (t1 :> {Buy(1, 2, 3)}) @@ (t2 :> {[Buy(2, 1, 5) EXCEPT !.amount = 2]}) @@ (e1 :> {Spend(2)})

\* A purchase in a third currency from the account, with nothing charged in
\* the account's own.
ForeignCmds ==
    (t1 :> {Buy(2, 2, 3)}) @@ (t2 :> {Buy(1, 1, 5)})
      @@ (e1 :> {[Spend(2) EXCEPT !.currency = USD]})
=============================================================================
