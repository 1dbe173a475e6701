------------------------------ MODULE Decimals ------------------------------
(***************************************************************************)
(* What the decimals of an amount do to the lots of one account.  A client  *)
(* sends any decimal number, negative ones included; computeBaseAmount      *)
(* takes it as it is, while lots, rates and base amounts are rounded to the *)
(* eighth decimal whenever they are stored.                                 *)
(*                                                                         *)
(* LotPricing shows that a pricing is one atomic step and that lots are     *)
(* used in order; here a request is one step, and its numbers are exact     *)
(* multiples of a grain finer than the eighth decimal.  What float64 adds   *)
(* is which way a tie is rounded: a number half-way between two decimals    *)
(* has a float on either side.  Its own errors, in the sixteenth digit, are *)
(* left out.                                                               *)
(***************************************************************************)
EXTENDS Integers, Sequences, FiniteSetsExt

CONSTANTS
    One,            \* units in 1: 10^8 in the code
    Grains,         \* of an amount in a unit
    RateGrains,     \* of a rate in a unit
    Dust,           \* grains in 1e-9
    Amounts, Rates, \* what clients send, in grains
    MaxLots, MaxExpenses,
    Null

ASSUME DecimalsAssumption ==
    /\ One \in Nat \ {0} /\ RateGrains \in Nat \ {0} /\ Dust \in Nat \ {0}
    /\ 10 * Dust = Grains
    /\ Amounts \subseteq Int /\ Rates \subseteq Nat /\ MaxLots \in Nat /\ MaxExpenses \in Nat
    /\ Null \notin Int

VARIABLES
    lots,       \* account_lots, oldest first
    sent,       \* the rate each lot's transfer was sent with
    drawn,      \* grains priced from each lot
    inexact,    \* draws from each lot that ended between two units
    priced      \* the expenses, as they were priced

vars == <<lots, sent, drawn, inexact, priced>>

Lots == DOMAIN lots
Lot == [ original : Int, remaining : Int, rate : Nat ]
Pricing == [ amount : Int, draw : Seq(Nat), base : Int \cup {Null} ]

TypeOK ==
    /\ lots \in Seq(Lot) /\ Len(lots) <= MaxLots
    /\ sent \in [Lots -> Rates] /\ drawn \in [Lots -> Nat] /\ inexact \in [Lots -> Nat]
    /\ priced \in Seq(Pricing) /\ Len(priced) <= MaxExpenses

Init == lots = <<>> /\ sent = <<>> /\ drawn = <<>> /\ inexact = <<>> /\ priced = <<>>
-----------------------------------------------------------------------------
\* Mutation: the decimals past the eighth are cut off.
CutOff(n, unit) == {n \div unit}

\* strconv.FormatFloat(f, 'f', 8, 64): the nearest unit, or either one at a tie.
numericFromFloat64(n, unit) ==
    {k \in {n \div unit, n \div unit + 1} : 2 * (n - k * unit) \in -unit..unit}

\* A lot holds what arrives, however little, at a rate that was given.
CreateLot(amount, rate) ==
    /\ Len(lots) < MaxLots
    /\ rate > 0
    /\ \E k \in numericFromFloat64(amount, Grains), r \in numericFromFloat64(rate, RateGrains) :
          lots' = Append(lots, [ original |-> k, remaining |-> k, rate |-> r ])
    /\ sent' = Append(sent, rate)
    /\ drawn' = Append(drawn, 0) /\ inexact' = Append(inexact, 0)
    /\ UNCHANGED priced

\* WHERE remaining > 0
ListAvailableLots == {l \in Lots : lots[l].remaining > 0}

\* What of the amount is left when the loop comes to lot l.
Unpriced(amount, l) ==
    amount - Grains * SumFunctionOnSet([m \in Lots |-> lots[m].remaining],
                                       {m \in ListAvailableLots : m < l})

\* Mutation: the loop ends when nothing is left, in either direction.
NotZero(rest) == rest = 0

\* Mutation: a rest that would round to nothing counts as priced.
BelowHalfUnit(rest) == 2 * rest < Grains

Done(rest) == rest < Dust

Least(a, b) == IF a <= b THEN a ELSE b

\* What the loop takes from lot l.
Consume(amount, l) ==
    IF l \notin ListAvailableLots \/ Done(Unpriced(amount, l)) THEN 0
    ELSE Least(Unpriced(amount, l), Grains * lots[l].remaining)

RemainingAfter(amount, l) ==
    IF l \notin ListAvailableLots \/ Done(Unpriced(amount, l)) THEN {lots[l].remaining}
    ELSE LET rest == Grains * lots[l].remaining - Consume(amount, l)
         IN  numericFromFloat64(IF rest > 0 THEN rest ELSE 0, Grains)

CreateExpense(amount) ==
    LET draw == [l \in Lots |-> Consume(amount, l)]
        baseTotal == SumFunctionOnSet([l \in Lots |-> draw[l] * lots[l].rate], Lots)
    IN  /\ Len(priced) < MaxExpenses
        /\ \E after \in [Lots -> UNION {RemainingAfter(amount, l) : l \in Lots}] :
              /\ \A l \in Lots : after[l] \in RemainingAfter(amount, l)
              /\ lots' = [l \in Lots |-> [lots[l] EXCEPT !.remaining = after[l]]]
        /\ \E b \in IF ListAvailableLots = {} THEN {Null}
                    ELSE numericFromFloat64(baseTotal, Grains * One) :
              priced' = Append(priced, [ amount |-> amount, draw |-> draw, base |-> b ])
        /\ drawn' = [l \in Lots |-> drawn[l] + draw[l]]
        /\ inexact' = [l \in Lots |->
              IF draw[l] % Grains = 0 THEN inexact[l] ELSE inexact[l] + 1]
        /\ UNCHANGED sent

\* The service goes on; the model is bounded.
Full == Len(lots) = MaxLots /\ Len(priced) = MaxExpenses /\ UNCHANGED vars

Next ==
    \/ \E amount \in Amounts, rate \in Rates : CreateLot(amount, rate)
    \/ \E amount \in Amounts : CreateExpense(amount)
    \/ Full

Spec == Init /\ [][Next]_vars
-----------------------------------------------------------------------------
\* No amount, negative ones and dust included, puts anything back into a lot or
\* makes it owe something.
LotsOnlyFall ==
    [][\A l \in Lots : lots'[l].remaining \in 0..lots[l].remaining
                       \/ lots'[l].remaining = lots[l].remaining]_vars

\* Amounts of eight decimals, or fewer, keep a lot's books exactly, over any number
\* of draws; each finer one puts them wrong by half a unit at most.
DriftBounded ==
    \A l \in Lots :
        LET wrong == Grains * (lots[l].remaining - lots[l].original) + drawn[l]
        IN  2 * wrong \in -(inexact[l] * Grains)..(inexact[l] * Grains)

\* An amount that the lots could price is priced but for less than 1e-9: what is
\* left unpriced for want of stock leaves every lot empty.
StockUsedUp ==
    [][priced' # priced =>
          LET p == priced'[Len(priced')]
          IN  p.amount - SumFunctionOnSet(p.draw, Lots) >= Dust =>
                 \A l \in Lots : lots'[l].remaining <= 0]_vars

\* Three roundings on the way, of each rate, of the total and of the lot, leave a base
\* amount right to half a unit, and half a unit of the rate for all that was drawn.
PriceBounded ==
    \A i \in DOMAIN priced : priced[i].base # Null =>
        LET p == priced[i]
            of == DOMAIN p.draw
            owed == SumFunctionOnSet([l \in of |-> p.draw[l] * sent[l]], of)
            slack == RateGrains * (Grains * One + SumFunctionOnSet(p.draw, of))
        IN  2 * (RateGrains * Grains * One * p.base - owed) \in -slack..slack
=============================================================================
