-------------------------- MODULE Decimals_proofs --------------------------
(***************************************************************************)
(* Proofs about Decimals: whatever numbers clients send, at however many    *)
(* decimals the service stores.                                            *)
(***************************************************************************)
EXTENDS Decimals, Sums, SequenceTheorems

\* A number is rounded to an integer, wrong by half a unit at most.
LEMMA Rounded ==
    ASSUME NEW n \in Int, NEW unit \in Nat \ {0}, NEW k \in numericFromFloat64(n, unit)
    PROVE  k \in Int /\ 2 * (n - k * unit) \in -unit..unit
BY DEF numericFromFloat64

\* Rounding does not carry a number over a whole number of units.
LEMMA RoundedBetween ==
    ASSUME NEW n \in Int, NEW unit \in Nat \ {0}, NEW k \in numericFromFloat64(n, unit),
           NEW b \in Int
    PROVE  /\ n <= b * unit => k <= b
           /\ n >= b * unit => k >= b
<1>1. k \in Int /\ 2 * (n - k * unit) <= unit /\ 2 * (n - k * unit) >= -unit
  BY Rounded
<1>2. unit \in Int /\ unit > 0 /\ k * unit \in Int /\ b * unit \in Int
  BY <1>1
<1>3. k > b => k * unit >= b * unit + unit
  <2>1. SUFFICES ASSUME k - b - 1 \in Nat PROVE k * unit >= b * unit + unit
    BY <1>1
  <2>2. (k - b - 1) * unit >= 0
    BY <2>1
  <2>3. (k - b - 1) * unit = k * unit - b * unit - unit
    BY <1>1, <1>2
  <2> QED
    BY <1>1, <1>2, <2>2, <2>3
<1>4. k < b => k * unit <= b * unit - unit
  <2>1. SUFFICES ASSUME b - k - 1 \in Nat PROVE k * unit <= b * unit - unit
    BY <1>1
  <2>2. (b - k - 1) * unit >= 0
    BY <2>1
  <2>3. (b - k - 1) * unit = b * unit - k * unit - unit
    BY <1>1, <1>2
  <2> QED
    BY <1>1, <1>2, <2>2, <2>3
<1> DEFINE kn == k * unit
           bn == b * unit
<1>5. kn \in Int /\ bn \in Int /\ 2 * (n - kn) <= unit /\ 2 * (n - kn) >= -unit
  BY <1>1, <1>2
<1>6. (k > b => kn >= bn + unit) /\ (k < b => kn <= bn - unit)
  BY <1>3, <1>4
<1> HIDE DEF kn, bn
<1>7. (n <= bn => k <= b) /\ (n >= bn => k >= b)
  BY <1>1, <1>2, <1>5, <1>6
<1> QED
  BY <1>7 DEF bn

\* A whole number of units is not changed by rounding.
LEMMA RoundedExact ==
    ASSUME NEW b \in Int, NEW unit \in Nat \ {0}, NEW k \in numericFromFloat64(b * unit, unit)
    PROVE  k = b
<1>1. b * unit \in Int /\ b * unit <= b * unit /\ b * unit >= b * unit
  OBVIOUS
<1>2. k \in Int
  BY <1>1, Rounded
<1> QED
  BY <1>1, <1>2, RoundedBetween

\* The grains of a unit, and what an amount has to be below to be dust.
LEMMA Positive ==
    /\ Grains \in Nat \ {0} /\ Dust \in Nat \ {0} /\ One \in Nat \ {0}
    /\ RateGrains \in Nat \ {0}
BY DecimalsAssumption

-----------------------------------------------------------------------------
\* There are finitely many lots.
LEMMA LotsAreFinite == lots \in Seq(Lot) => Lots = 1..Len(lots) /\ IsFiniteSet(Lots)
BY FS_Interval DEF Lots

\* Each of them is one.
LEMMA LotsHold == lots \in Seq(Lot) => \A l \in Lots : lots[l] \in Lot
BY DEF Lots

\* What is left when the loop comes to a lot is a number, and so is what it takes: never
\* less than nothing, and never more than the lot.
LEMMA Consumed ==
    ASSUME TypeOK, NEW amount \in Int, NEW l \in Lots
    PROVE  /\ Unpriced(amount, l) \in Int /\ lots[l].remaining \in Int
           /\ Consume(amount, l) \in Nat
           /\ Consume(amount, l) > 0 => /\ l \in ListAvailableLots
                                        /\ Consume(amount, l) <= Grains * lots[l].remaining
<1> DEFINE held == [m \in Lots |-> lots[m].remaining]
           before == {m \in ListAvailableLots : m < l}
           sum == SumFunctionOnSet(held, before)
<1>1. IsFiniteSet(Lots) /\ \A m \in Lots : lots[m].remaining \in Int
  BY LotsAreFinite, LotsHold DEF TypeOK, Lot
<1>2. before \subseteq Lots /\ IsFiniteSet(before)
  BY <1>1, FS_Subset DEF ListAvailableLots
<1>3. sum \in Int
  BY <1>1, <1>2, SumInt
<1>4. Unpriced(amount, l) = amount - Grains * sum
  BY DEF Unpriced
<1> HIDE DEF sum
<1>5. Unpriced(amount, l) \in Int
  BY <1>3, <1>4, Positive
<1> DEFINE rest == Unpriced(amount, l)
           whole == Grains * lots[l].remaining
<1>6. whole \in Int /\ rest \in Int /\ Dust \in Nat \ {0}
  BY <1>1, <1>5, Positive
<1>7. l \in ListAvailableLots => whole > 0
  <2>1. SUFFICES ASSUME l \in ListAvailableLots PROVE whole > 0
    OBVIOUS
  <2>2. lots[l].remaining \in Nat \ {0}
    BY <1>1, <2>1 DEF ListAvailableLots
  <2> QED
    BY <2>2, Positive
<1>8. Consume(amount, l) = IF l \notin ListAvailableLots \/ rest < Dust THEN 0
                           ELSE IF rest <= whole THEN rest ELSE whole
  BY DEF Consume, Done, Least
<1> HIDE DEF rest, whole
<1>9. /\ Consume(amount, l) \in Nat
      /\ Consume(amount, l) > 0 => l \in ListAvailableLots /\ Consume(amount, l) <= whole
  BY <1>6, <1>7, <1>8
<1> QED
  BY <1>1, <1>5, <1>9 DEF whole

\* After a pricing a lot holds an integer, no more than before and no less than nothing if
\* it held something; and what it has given up is what was drawn, exactly if that was a
\* whole number of units and by half a unit otherwise.
LEMMA AfterDraw ==
    ASSUME TypeOK, NEW amount \in Int, NEW l \in Lots,
           NEW left \in RemainingAfter(amount, l)
    PROVE  /\ left \in Int
           /\ left \in 0..lots[l].remaining \/ left = lots[l].remaining
           /\ LET wrong == Grains * (left - lots[l].remaining) + Consume(amount, l)
              IN  /\ 2 * wrong \in -Grains..Grains
                  /\ Consume(amount, l) % Grains = 0 => wrong = 0
<1> DEFINE held == lots[l].remaining
           draw == Consume(amount, l)
           whole == Grains * held
<1>1. /\ held \in Int /\ draw \in Nat /\ Grains \in Nat \ {0} /\ whole \in Int
      /\ draw > 0 => l \in ListAvailableLots /\ draw <= whole
  BY Consumed, Positive
<1>2. CASE l \notin ListAvailableLots \/ Done(Unpriced(amount, l))
  <2>1. left = held /\ draw = 0
    BY <1>2 DEF RemainingAfter, Consume
  <2> QED
    BY <1>1, <2>1
<1>3. CASE ~ (l \notin ListAvailableLots \/ Done(Unpriced(amount, l)))
  <2>1. draw <= whole
    <3>1. l \in ListAvailableLots /\ held \in Nat
      BY <1>1, <1>3 DEF ListAvailableLots
    <3>2. whole >= 0
      BY <1>1, <3>1
    <3> QED
      BY <1>1, <3>2
  <2>2. left \in numericFromFloat64(whole - draw, Grains)
    <3> DEFINE rest == whole - draw
    <3>1. rest \in Int /\ rest >= 0
      BY <1>1, <2>1
    <3>2. (IF rest > 0 THEN rest ELSE 0) = rest
      BY <3>1
    <3> QED
      BY <1>3, <3>2 DEF RemainingAfter
  <2>3. whole - draw \in Int /\ whole - draw >= 0 /\ whole - draw <= whole
    BY <1>1, <2>1
  <2>4. left \in Int /\ 2 * ((whole - draw) - left * Grains) \in -Grains..Grains
    BY <1>1, <2>2, <2>3, Rounded
  <2>5. left \in 0..held
    <3> DEFINE rest == whole - draw
    <3>1. rest <= held * Grains /\ rest >= 0 * Grains
      BY <1>1, <2>3
    <3>2. rest \in Int /\ left \in numericFromFloat64(rest, Grains)
      BY <2>2, <2>3
    <3>3. held \in Int /\ 0 \in Int /\ Grains \in Nat \ {0} /\ left \in Int
      BY <1>1, <2>4
    <3> HIDE DEF rest, held, draw, whole
    <3>4. left <= held
      BY <3>1, <3>2, <3>3, RoundedBetween
    <3>5. left >= 0
      BY <3>1, <3>2, <3>3, RoundedBetween
    <3> QED
      BY <3>3, <3>4, <3>5
  <2> DEFINE wrong == Grains * (left - held) + draw
  <2>6. wrong = left * Grains - (whole - draw) /\ wrong \in Int
    BY <1>1, <2>4
  <2>7. 2 * wrong \in -Grains..Grains
    <3> DEFINE m == left * Grains
    <3>1. m \in Int
      BY <1>1, <2>4
    <3> HIDE DEF m, whole
    <3>2. 2 * ((whole - draw) - m) \in -Grains..Grains /\ wrong = m - (whole - draw)
      BY <2>4, <2>6 DEF m
    <3> QED
      BY <1>1, <2>6, <3>1, <3>2
  <2>8. ASSUME draw % Grains = 0 PROVE wrong = 0
    <3> DEFINE q == draw \div Grains
    <3>1. q \in Int /\ draw = q * Grains
      BY <1>1, <2>8
    <3>2. whole - draw = (held - q) * Grains /\ held - q \in Int
      <4>1. whole - q * Grains = (held - q) * Grains
        BY <1>1, <3>1
      <4> QED
        BY <1>1, <3>1, <4>1
    <3>3. left = held - q
      BY <1>1, <2>2, <3>2, RoundedExact
    <3> QED
      BY <2>6, <3>2, <3>3, <1>1, <2>4
  <2> QED
    BY <2>4, <2>5, <2>7, <2>8
<1> QED
  BY <1>2, <1>3

-----------------------------------------------------------------------------
\* A lot's rate is its transfer's, wrong by half a unit at most.
RatesRounded ==
    \A l \in Lots : 2 * (sent[l] - lots[l].rate * RateGrains) \in -RateGrains..RateGrains

\* A pricing knows of the lots there were.
DrawsWithin == \A i \in DOMAIN priced : Len(priced[i].draw) <= Len(lots)

\* What makes the bound on a base amount inductive: the bound on each rate, for lots that
\* are still there.
DecimalsInv == TypeOK /\ RatesRounded /\ DrawsWithin /\ DriftBounded /\ PriceBounded

\* Appending to a sequence leaves what it had.
LEMMA Appended ==
    ASSUME NEW T, NEW n \in Nat, NEW f \in [1..n -> T], NEW x \in T
    PROVE  /\ Append(f, x) \in [1..(n + 1) -> T] /\ Append(f, x)[n + 1] = x
           /\ \A i \in 1..n : Append(f, x)[i] = f[i]
<1>1. f \in Seq(T) /\ Len(f) = n
  OBVIOUS
<1>2. Append(f, x) \in Seq(T) /\ Len(Append(f, x)) = n + 1
  BY <1>1
<1>3. \A i \in 1..n : Append(f, x)[i] = f[i]
  BY <1>1
<1>4. Append(f, x)[n + 1] = x
  BY <1>1
<1> QED
  BY <1>2, <1>3, <1>4, LenProperties

\* What a transfer into the account changes: one lot at the end, of a rounded amount, and
\* nothing in those before it.
LEMMA LotCreated ==
    ASSUME TypeOK, NEW amount \in Amounts, NEW rate \in Rates, CreateLot(amount, rate)
    PROVE  /\ lots' \in Seq(Lot) /\ Len(lots') = Len(lots) + 1 /\ Len(lots') <= MaxLots
           /\ Lots' = Lots \cup {Len(lots')} /\ Len(lots') \notin Lots
           /\ sent' \in [Lots' -> Rates] /\ drawn' \in [Lots' -> Nat]
           /\ inexact' \in [Lots' -> Nat] /\ priced' = priced
           /\ \A l \in Lots : /\ lots'[l] = lots[l] /\ sent'[l] = sent[l]
                              /\ drawn'[l] = drawn[l] /\ inexact'[l] = inexact[l]
           /\ LET n == Len(lots')
              IN  /\ lots'[n] \in Lot /\ lots'[n].remaining = lots'[n].original
                  /\ drawn'[n] = 0 /\ inexact'[n] = 0
                  /\ 2 * (sent'[n] - lots'[n].rate * RateGrains) \in -RateGrains..RateGrains
<1>1. PICK k \in numericFromFloat64(amount, Grains),
           r \in numericFromFloat64(rate, RateGrains) :
              lots' = Append(lots, [ original |-> k, remaining |-> k, rate |-> r ])
  BY DEF CreateLot
<1> DEFINE new == [ original |-> k, remaining |-> k, rate |-> r ]
<1>2. amount \in Int /\ rate \in Nat /\ rate > 0
  BY DecimalsAssumption DEF CreateLot
<1>3. k \in Int /\ r \in Int /\ 2 * (rate - r * RateGrains) \in -RateGrains..RateGrains
  BY <1>2, Rounded, Positive
<1>4. r >= 0
  <2>1. rate >= 0 * RateGrains
    BY <1>2, Positive
  <2> QED
    BY <1>2, <2>1, RoundedBetween, Positive
<1>5. new \in Lot
  BY <1>3, <1>4 DEF Lot
<1>6. lots \in Seq(Lot) /\ Lots = 1..Len(lots) /\ Len(lots) \in Nat /\ Len(lots) < MaxLots
  BY LotsAreFinite DEF TypeOK, CreateLot
<1> HIDE DEF new
<1>7. /\ lots' \in Seq(Lot) /\ Len(lots') = Len(lots) + 1 /\ lots'[Len(lots')] = new
      /\ \A l \in 1..Len(lots) : lots'[l] = lots[l]
  BY <1>1, <1>5, <1>6 DEF new
<1>8. Lots' = 1..Len(lots')
  BY <1>7 DEF Lots
<1>9. /\ sent \in [Lots -> Rates] /\ drawn \in [Lots -> Nat] /\ inexact \in [Lots -> Nat]
      /\ sent' = Append(sent, rate) /\ drawn' = Append(drawn, 0)
      /\ inexact' = Append(inexact, 0) /\ priced' = priced
  BY DEF TypeOK, CreateLot
<1>10. /\ sent' \in [Lots' -> Rates] /\ sent'[Len(lots')] = rate
       /\ \A l \in Lots : sent'[l] = sent[l]
  <2>1. sent \in [1..Len(lots) -> Rates] /\ rate \in Rates /\ Len(lots) \in Nat
    BY <1>6, <1>9
  <2>2. Append(sent, rate) \in [1..(Len(lots) + 1) -> Rates]
    BY <2>1, Appended
  <2>3. /\ Append(sent, rate)[Len(lots) + 1] = rate
        /\ \A l \in 1..Len(lots) : Append(sent, rate)[l] = sent[l]
    BY <2>1, Appended
  <2> QED
    BY <1>6, <1>7, <1>8, <1>9, <2>2, <2>3
<1>11. /\ drawn' \in [Lots' -> Nat] /\ drawn'[Len(lots')] = 0
       /\ \A l \in Lots : drawn'[l] = drawn[l]
  <2>1. drawn \in [1..Len(lots) -> Nat] /\ 0 \in Nat /\ Len(lots) \in Nat
    BY <1>6, <1>9
  <2>2. Append(drawn, 0) \in [1..(Len(lots) + 1) -> Nat]
    BY <2>1, Appended
  <2>3. /\ Append(drawn, 0)[Len(lots) + 1] = 0
        /\ \A l \in 1..Len(lots) : Append(drawn, 0)[l] = drawn[l]
    BY <2>1, Appended
  <2> QED
    BY <1>6, <1>7, <1>8, <1>9, <2>2, <2>3
<1>12. /\ inexact' \in [Lots' -> Nat] /\ inexact'[Len(lots')] = 0
       /\ \A l \in Lots : inexact'[l] = inexact[l]
  <2>1. inexact \in [1..Len(lots) -> Nat] /\ 0 \in Nat /\ Len(lots) \in Nat
    BY <1>6, <1>9
  <2>2. Append(inexact, 0) \in [1..(Len(lots) + 1) -> Nat]
    BY <2>1, Appended
  <2>3. /\ Append(inexact, 0)[Len(lots) + 1] = 0
        /\ \A l \in 1..Len(lots) : Append(inexact, 0)[l] = inexact[l]
    BY <2>1, Appended
  <2> QED
    BY <1>6, <1>7, <1>8, <1>9, <2>2, <2>3
<1>13. Lots' = Lots \cup {Len(lots')} /\ Len(lots') \notin Lots /\ Len(lots') <= MaxLots
  BY <1>6, <1>7, <1>8, DecimalsAssumption
<1>14. new.remaining = new.original /\ new.rate = r
  BY DEF new
<1> QED
  BY <1>3, <1>6, <1>7, <1>9, <1>10, <1>11, <1>12, <1>13, <1>14

\* What the pricing of an expense changes: what remains of each lot, and what was drawn.
LEMMA ExpenseCreated ==
    ASSUME TypeOK, NEW amount \in Amounts, CreateExpense(amount)
    PROVE  /\ amount \in Int
           /\ lots' \in Seq(Lot) /\ Lots' = Lots /\ Len(lots') = Len(lots) /\ sent' = sent
           /\ drawn' \in [Lots -> Nat] /\ inexact' \in [Lots -> Nat]
           /\ \A l \in Lots :
                 /\ lots'[l].original = lots[l].original /\ lots'[l].rate = lots[l].rate
                 /\ lots'[l].remaining \in RemainingAfter(amount, l)
                 /\ drawn'[l] = drawn[l] + Consume(amount, l)
                 /\ inexact'[l] = IF Consume(amount, l) % Grains = 0 THEN inexact[l]
                                  ELSE inexact[l] + 1
<1>1. amount \in Int /\ Len(lots) \in Nat /\ Lots = 1..Len(lots)
  BY DecimalsAssumption, LotsAreFinite DEF TypeOK
<1>2. PICK after \in [Lots -> UNION {RemainingAfter(amount, l) : l \in Lots}] :
         /\ \A l \in Lots : after[l] \in RemainingAfter(amount, l)
         /\ lots' = [l \in Lots |-> [lots[l] EXCEPT !.remaining = after[l]]]
  BY DEF CreateExpense
<1>3. \A l \in Lots : /\ lots[l] \in Lot /\ after[l] \in Int /\ Consume(amount, l) \in Nat
                      /\ drawn[l] \in Nat /\ inexact[l] \in Nat
  BY <1>1, <1>2, LotsHold, AfterDraw, Consumed DEF TypeOK
<1>4. \A l \in Lots : /\ lots'[l] = [lots[l] EXCEPT !.remaining = after[l]]
                      /\ lots'[l] \in Lot
  BY <1>2, <1>3 DEF Lot
<1>5. lots' = [l \in 1..Len(lots) |-> lots'[l]] /\ DOMAIN lots' = 1..Len(lots)
  BY <1>1, <1>2
<1>6. lots' \in Seq(Lot) /\ Len(lots') = Len(lots) /\ Lots' = Lots
  <2>1. lots' \in [1..Len(lots) -> Lot]
    BY <1>1, <1>4, <1>5
  <2>2. lots' \in Seq(Lot)
    BY <1>1, <2>1, SeqDef
  <2>3. Len(lots') \in Nat /\ 1..Len(lots') = 1..Len(lots)
    BY <1>5, <2>2, LenProperties
  <2>4. Len(lots') = Len(lots)
    BY <1>1, <2>3
  <2> QED
    BY <1>1, <1>5, <2>2, <2>4 DEF Lots
<1>7. \A l \in Lots : /\ lots'[l].original = lots[l].original
                      /\ lots'[l].rate = lots[l].rate
                      /\ lots'[l].remaining = after[l]
  BY <1>3, <1>4 DEF Lot
<1>8. /\ drawn' = [l \in Lots |-> drawn[l] + Consume(amount, l)] /\ sent' = sent
      /\ inexact' = [l \in Lots |-> IF Consume(amount, l) % Grains = 0 THEN inexact[l]
                                    ELSE inexact[l] + 1]
  BY DEF CreateExpense
<1>9. drawn' \in [Lots -> Nat] /\ inexact' \in [Lots -> Nat]
  BY <1>3, <1>8
<1>10. \A l \in Lots :
          /\ drawn'[l] = drawn[l] + Consume(amount, l)
          /\ inexact'[l] = IF Consume(amount, l) % Grains = 0 THEN inexact[l]
                           ELSE inexact[l] + 1
  BY <1>8
<1>11. \A l \in Lots : lots'[l].remaining \in RemainingAfter(amount, l)
  BY <1>2, <1>7
<1> QED
  BY <1>1, <1>6, <1>7, <1>8, <1>9, <1>10, <1>11

\* The pricing it adds: of each lot what the loop takes, and a base amount that is the
\* total rounded, unless there was no lot to price it from.
LEMMA PricingAdded ==
    ASSUME TypeOK, NEW amount \in Amounts, CreateExpense(amount)
    PROVE  \E p \in Pricing :
              /\ priced' = Append(priced, p) /\ Len(priced) < MaxExpenses
              /\ p.amount = amount
              /\ p.draw = [l \in Lots |-> Consume(amount, l)]
              /\ p.base # Null =>
                    LET total == SumFunctionOnSet([l \in Lots |-> p.draw[l] * lots[l].rate],
                                                  Lots)
                    IN  /\ p.base \in Int /\ total \in Int
                        /\ 2 * (total - p.base * (Grains * One)) \in -(Grains * One)..(Grains * One)
<1> DEFINE draw == [l \in Lots |-> Consume(amount, l)]
           parts == [l \in Lots |-> draw[l] * lots[l].rate]
           total == SumFunctionOnSet(parts, Lots)
<1>1. PICK b \in IF ListAvailableLots = {} THEN {Null}
                 ELSE numericFromFloat64(total, Grains * One) :
              priced' = Append(priced, [ amount |-> amount, draw |-> draw, base |-> b ])
  BY DEF CreateExpense
<1>2. amount \in Int /\ Lots = 1..Len(lots) /\ Len(lots) \in Nat /\ IsFiniteSet(Lots)
  BY DecimalsAssumption, LotsAreFinite DEF TypeOK
<1>3. \A l \in Lots : draw[l] \in Nat /\ lots[l].rate \in Nat
  BY <1>2, Consumed, LotsHold DEF TypeOK, Lot
<1>4. draw \in Seq(Nat)
  BY <1>2, <1>3
<1>5. \A l \in Lots : parts[l] \in Int
  BY <1>3
<1>6. total \in Int
  BY <1>2, <1>5, SumInt
<1>7. Grains * One \in Nat \ {0}
  BY Positive
<1>8. /\ b \in Int \cup {Null}
      /\ b # Null => /\ b \in Int
                     /\ 2 * (total - b * (Grains * One)) \in -(Grains * One)..(Grains * One)
  <2>1. CASE ListAvailableLots = {}
    BY <1>1, <2>1
  <2>2. CASE ListAvailableLots # {}
    <3>1. b \in numericFromFloat64(total, Grains * One)
      BY <1>1, <2>2
    <3> HIDE DEF total
    <3> QED
      BY <1>6, <1>7, <3>1, Rounded
  <2> QED
    BY <2>1, <2>2
<1> DEFINE p == [ amount |-> amount, draw |-> draw, base |-> b ]
<1>9. p \in Pricing
  BY <1>2, <1>4, <1>8 DEF Pricing
<1>10. p.amount = amount /\ p.draw = draw /\ p.base = b
  OBVIOUS
<1>11. Len(priced) < MaxExpenses
  BY DEF CreateExpense
<1> HIDE DEF p
<1>12. priced' = Append(priced, p)
  BY <1>1 DEF p
<1> WITNESS p \in Pricing
<1> QED
  BY <1>6, <1>8, <1>10, <1>11, <1>12

-----------------------------------------------------------------------------
\* Nothing is there at first.
LEMMA DecimalsInit == Init => DecimalsInv
<1> SUFFICES ASSUME Init PROVE DecimalsInv
  OBVIOUS
<1>1. lots = <<>> /\ sent = <<>> /\ drawn = <<>> /\ inexact = <<>> /\ priced = <<>>
  BY DEF Init
<1>2. Lots = {} /\ DOMAIN priced = {}
  BY <1>1 DEF Lots
<1>3. TypeOK
  BY <1>1, <1>2, DecimalsAssumption DEF TypeOK
<1> QED
  BY <1>1, <1>2, <1>3
     DEF DecimalsInv, RatesRounded, DrawsWithin, DriftBounded, PriceBounded

\* The tables stay what they are.
LEMMA TypeStep ==
    ASSUME TypeOK,
           \/ \E amount \in Amounts, rate \in Rates : CreateLot(amount, rate)
           \/ \E amount \in Amounts : CreateExpense(amount)
    PROVE  TypeOK'
<1>1. CASE \E amount \in Amounts, rate \in Rates : CreateLot(amount, rate)
  BY <1>1, LotCreated DEF TypeOK
<1>2. ASSUME NEW amount \in Amounts, CreateExpense(amount) PROVE TypeOK'
  <2>1. PICK p \in Pricing : priced' = Append(priced, p) /\ Len(priced) < MaxExpenses
    BY <1>2, PricingAdded
  <2>2. priced' \in Seq(Pricing) /\ Len(priced') <= MaxExpenses
    BY <2>1, DecimalsAssumption DEF TypeOK
  <2> QED
    BY <1>2, <2>2, ExpenseCreated DEF TypeOK
<1> QED
  BY <1>1, <1>2

\* Rates are rounded when a lot is made and not touched again.
LEMMA RatesStep ==
    ASSUME TypeOK, RatesRounded,
           \/ \E amount \in Amounts, rate \in Rates : CreateLot(amount, rate)
           \/ \E amount \in Amounts : CreateExpense(amount)
    PROVE  RatesRounded'
<1>1. ASSUME NEW amount \in Amounts, NEW rate \in Rates, CreateLot(amount, rate)
      PROVE  RatesRounded'
  BY <1>1, LotCreated DEF RatesRounded
<1>2. ASSUME NEW amount \in Amounts, CreateExpense(amount) PROVE RatesRounded'
  BY <1>2, ExpenseCreated DEF RatesRounded
<1> QED
  BY <1>1, <1>2

\* A draw that ends between two units adds half a unit to what may be wrong with a lot.
LEMMA DriftStep ==
    ASSUME TypeOK, DriftBounded,
           \/ \E amount \in Amounts, rate \in Rates : CreateLot(amount, rate)
           \/ \E amount \in Amounts : CreateExpense(amount)
    PROVE  DriftBounded'
<1> DEFINE Within(w, n) == 2 * w \in -(n * Grains)..(n * Grains)
           wrong(l) == Grains * (lots[l].remaining - lots[l].original) + drawn[l]
           wrong1(l) == Grains * (lots'[l].remaining - lots'[l].original) + drawn'[l]
<1>1. ASSUME NEW amount \in Amounts, NEW rate \in Rates, CreateLot(amount, rate)
      PROVE  DriftBounded'
  <2> DEFINE n == Len(lots')
  <2>1. /\ Lots' = Lots \cup {n} /\ lots'[n].remaining = lots'[n].original
        /\ drawn'[n] = 0 /\ inexact'[n] = 0
        /\ \A l \in Lots : lots'[l] = lots[l] /\ drawn'[l] = drawn[l] /\ inexact'[l] = inexact[l]
    BY <1>1, LotCreated
  <2>2. lots'[n] \in Lot
    BY <1>1, LotCreated
  <2>3. wrong1(n) = 0
    <3>1. lots'[n].remaining \in Int
      BY <2>2 DEF Lot
    <3> QED
      BY <2>1, <3>1, Positive
  <2>4. Within(wrong1(n), inexact'[n])
    BY <2>1, <2>3, Positive
  <2>5. \A l \in Lots : Within(wrong1(l), inexact'[l])
    BY <2>1 DEF DriftBounded
  <2> QED
    BY <2>1, <2>4, <2>5 DEF DriftBounded
<1>2. ASSUME NEW amount \in Amounts, CreateExpense(amount) PROVE DriftBounded'
  <2>1. SUFFICES ASSUME NEW l \in Lots PROVE Within(wrong1(l), inexact'[l])
    BY <1>2, ExpenseCreated DEF DriftBounded
  <2> DEFINE draw == Consume(amount, l)
             left == lots'[l].remaining
             held == lots[l].remaining
             had == lots[l].original
             more == Grains * (left - held) + draw
  <2>2. /\ left \in RemainingAfter(amount, l) /\ lots'[l].original = had
        /\ drawn'[l] = drawn[l] + draw /\ amount \in Int
        /\ inexact'[l] = IF draw % Grains = 0 THEN inexact[l] ELSE inexact[l] + 1
    BY <1>2, ExpenseCreated
  <2>3. /\ left \in Int /\ 2 * more \in -Grains..Grains
        /\ draw % Grains = 0 => more = 0
    BY <2>2, AfterDraw
  <2>4. /\ held \in Int /\ had \in Int /\ draw \in Nat /\ drawn[l] \in Nat /\ inexact[l] \in Nat
        /\ Grains \in Nat
    BY <2>2, Consumed, LotsHold, Positive DEF TypeOK, Lot
  <2>5. wrong1(l) = wrong(l) + more
    <3>1. Grains * (left - had) = Grains * (held - had) + Grains * (left - held)
      BY <2>3, <2>4
    <3> DEFINE a == Grains * (left - had)
               b == Grains * (held - had)
               c == Grains * (left - held)
    <3>2. a \in Int /\ b \in Int /\ c \in Int
      BY <2>3, <2>4
    <3> HIDE DEF a, b, c
    <3>3. a = b + c
      BY <3>1 DEF a, b, c
    <3>4. a + (drawn[l] + draw) = (b + drawn[l]) + (c + draw)
      BY <2>4, <3>2, <3>3
    <3> QED
      BY <2>2, <3>4 DEF a, b, c
  <2>6. wrong(l) \in Int /\ more \in Int
    BY <2>3, <2>4
  <2>7. Within(wrong(l), inexact[l])
    BY DEF DriftBounded
  <2> HIDE DEF wrong, wrong1, more, draw
  <2>8. CASE draw % Grains = 0
    BY <2>2, <2>3, <2>5, <2>6, <2>7, <2>8
  <2>9. CASE draw % Grains # 0
    <3> DEFINE now == inexact[l] * Grains
               next == (inexact[l] + 1) * Grains
    <3>1. now \in Int /\ next = now + Grains /\ next \in Int
      BY <2>4
    <3>2. 2 * wrong(l) \in -now..now
      BY <2>7
    <3> HIDE DEF now, next
    <3>3. 2 * wrong1(l) \in -next..next
      BY <2>3, <2>4, <2>5, <2>6, <3>1, <3>2
    <3> QED
      BY <2>2, <2>9, <3>3 DEF next
  <2> QED
    BY <2>8, <2>9
<1> QED
  BY <1>1, <1>2

-----------------------------------------------------------------------------
\* A bound holds for multiples.
LEMMA BoundScale ==
    ASSUME NEW c \in Nat, NEW x \in Int, NEW b \in Int, x \in -b..b
    PROVE  c * x \in -(c * b)..(c * b)
<1>1. b - x \in Nat /\ b + x \in Nat
  OBVIOUS
<1>2. c * (b - x) \in Nat /\ c * (b + x) \in Nat
  BY <1>1
<1>3. c * (b - x) = c * b - c * x /\ c * (b + x) = c * b + c * x
  OBVIOUS
<1>4. c * x \in Int /\ c * b \in Int
  OBVIOUS
<1> QED
  BY <1>2, <1>3, <1>4

\* What is drawn from lots at rates wrong by half a unit at most is wrong, in all, by half
\* a unit of what is drawn.
LEMMA OwedBound ==
    ASSUME NEW S, IsFiniteSet(S), NEW draw, NEW asked, NEW rate,
           \A l \in S : /\ draw[l] \in Nat /\ asked[l] \in Int /\ rate[l] \in Int
                        /\ 2 * (asked[l] - rate[l] * RateGrains) \in -RateGrains..RateGrains
    PROVE  LET owed == SumFunctionOnSet([l \in S |-> draw[l] * asked[l]], S)
               total == SumFunctionOnSet([l \in S |-> draw[l] * rate[l]], S)
               all == SumFunctionOnSet(draw, S)
           IN  /\ owed \in Int /\ total \in Int /\ all \in Nat
               /\ 2 * owed - 2 * RateGrains * total \in -(RateGrains * all)..(RateGrains * all)
<1> DEFINE O == [l \in S |-> draw[l] * asked[l]]
           R == [l \in S |-> draw[l] * rate[l]]
           u == [l \in S |-> 2 * O[l]]
           v == [l \in S |-> (-2 * RateGrains) * R[l]]
           e == [l \in S |-> u[l] + v[l]]
           top == [l \in S |-> RateGrains * draw[l]]
           low == [l \in S |-> (-RateGrains) * draw[l]]
           owed == SumFunctionOnSet(O, S)
           total == SumFunctionOnSet(R, S)
           all == SumFunctionOnSet(draw, S)
<1>1. RateGrains \in Nat /\ RateGrains \in Int /\ -RateGrains \in Int /\ -2 * RateGrains \in Int
  BY Positive
<1>2. \A l \in S : O[l] \in Int /\ R[l] \in Int
  OBVIOUS
<1>3. owed \in Int /\ total \in Int /\ all \in Nat
  <2>1. \A l \in S : draw[l] \in Nat
    OBVIOUS
  <2> QED
    BY <1>2, <2>1, SumInt, SumNat
<1>4. SumFunctionOnSet(u, S) = 2 * owed
  <2>1. \A l \in S : u[l] = 2 * O[l]
    OBVIOUS
  <2> HIDE DEF O, u
  <2> QED
    BY <1>2, <2>1, SumScale
<1>5. SumFunctionOnSet(v, S) = (-2 * RateGrains) * total
  <2>1. \A l \in S : v[l] = (-2 * RateGrains) * R[l]
    OBVIOUS
  <2> HIDE DEF R, v
  <2> QED
    BY <1>1, <1>2, <2>1, SumScale
<1>6. SumFunctionOnSet(e, S) = 2 * owed + (-2 * RateGrains) * total
  <2>1. \A l \in S : u[l] \in Int /\ v[l] \in Int /\ e[l] = u[l] + v[l]
    <3>1. \A l \in S : u[l] = 2 * O[l] /\ v[l] = (-2 * RateGrains) * R[l]
      OBVIOUS
    <3>2. \A l \in S : e[l] = u[l] + v[l]
      OBVIOUS
    <3> HIDE DEF O, R, u, v, e
    <3> QED
      BY <1>1, <1>2, <3>1, <3>2
  <2> HIDE DEF u, v, e, owed, total
  <2> QED
    BY <1>4, <1>5, <2>1, SumPlus
<1>7. /\ SumFunctionOnSet(top, S) = RateGrains * all
      /\ SumFunctionOnSet(low, S) = (-RateGrains) * all
  <2>1. \A l \in S : /\ draw[l] \in Int /\ top[l] = RateGrains * draw[l]
                     /\ low[l] = (-RateGrains) * draw[l]
    OBVIOUS
  <2> HIDE DEF top, low
  <2> QED
    BY <1>1, <2>1, SumScale
<1>8. \A l \in S : /\ e[l] \in Int /\ top[l] \in Int /\ low[l] \in Int
                   /\ e[l] <= top[l] /\ low[l] <= e[l]
  <2>1. SUFFICES ASSUME NEW l \in S
        PROVE  /\ e[l] \in Int /\ top[l] \in Int /\ low[l] \in Int
               /\ e[l] <= top[l] /\ low[l] <= e[l]
    OBVIOUS
  <2> DEFINE x == 2 * (asked[l] - rate[l] * RateGrains)
  <2>2. x \in Int /\ x \in -RateGrains..RateGrains /\ draw[l] \in Nat
    BY <1>1
  <2>3. draw[l] * x \in -(draw[l] * RateGrains)..(draw[l] * RateGrains)
    <3> HIDE DEF x
    <3> QED
      BY <1>1, <2>2, BoundScale
  <2>4. e[l] = draw[l] * x
    <3>1. e[l] = 2 * (draw[l] * asked[l]) + (-2 * RateGrains) * (draw[l] * rate[l])
      BY <2>1
    <3>2. /\ draw[l] \in Int /\ asked[l] \in Int /\ rate[l] \in Int
      BY <2>1
    <3> QED
      BY <1>1, <3>1, <3>2
  <2>5. top[l] = draw[l] * RateGrains /\ low[l] = -(draw[l] * RateGrains)
    <3>1. top[l] = RateGrains * draw[l] /\ low[l] = (-RateGrains) * draw[l]
      BY <2>1
    <3> QED
      BY <1>1, <2>2, <3>1
  <2> DEFINE dr == draw[l] * RateGrains
             dx == draw[l] * x
  <2>6. dr \in Int /\ dx \in Int
    BY <1>1, <2>2
  <2> HIDE DEF e, top, low, x, dr, dx
  <2>7. dx \in -dr..dr /\ e[l] = dx /\ top[l] = dr /\ low[l] = -dr
    BY <2>3, <2>4, <2>5 DEF dr, dx
  <2> QED
    BY <2>6, <2>7
<1>9. /\ SumFunctionOnSet(e, S) <= SumFunctionOnSet(top, S)
      /\ SumFunctionOnSet(low, S) <= SumFunctionOnSet(e, S)
  <2> HIDE DEF e, top, low
  <2> QED
    BY <1>8, SumMonotone
<1> HIDE DEF e, top, low, owed, total, all
<1> DEFINE ra == RateGrains * all
           rt == 2 * RateGrains * total
<1>10. ra \in Int /\ rt \in Int /\ (-RateGrains) * all = -ra
       /\ (-2 * RateGrains) * total = -rt
  BY <1>1, <1>3
<1> HIDE DEF ra, rt
<1>11. 2 * owed - rt \in -ra..ra
  <2>1. 2 * owed - rt <= ra /\ -ra <= 2 * owed - rt
    BY <1>3, <1>6, <1>7, <1>9, <1>10 DEF ra
  <2> QED
    BY <1>3, <1>10, <2>1
<1> QED
  BY <1>3, <1>11 DEF ra, rt, owed, total, all

\* The bound on one pricing's base amount, its lots having been sent with the rates in r.
PriceOf(p, r) ==
    p.base # Null =>
        LET of == DOMAIN p.draw
            owed == SumFunctionOnSet([l \in of |-> p.draw[l] * r[l]], of)
            slack == RateGrains * (Grains * One + SumFunctionOnSet(p.draw, of))
        IN  2 * (RateGrains * Grains * One * p.base - owed) \in -slack..slack

\* The bound on all of them is the bound on each.
LEMMA PricesAreRight == PriceBounded <=> \A i \in DOMAIN priced : PriceOf(priced[i], sent)
BY Zenon DEF PriceBounded, PriceOf

\* A pricing stays as right as it was: its lots keep their rates.
LEMMA PriceKept ==
    ASSUME NEW p \in Pricing, NEW r, NEW q, PriceOf(p, r), \A l \in DOMAIN p.draw : q[l] = r[l]
    PROVE  PriceOf(p, q)
<1> DEFINE of == DOMAIN p.draw
<1>1. [l \in of |-> p.draw[l] * r[l]] = [l \in of |-> p.draw[l] * q[l]]
  OBVIOUS
<1> QED
  BY <1>1, Zenon DEF PriceOf

\* A new pricing is right: one rounding of the total, and one of each rate it used.
LEMMA PriceIsRight ==
    ASSUME TypeOK, RatesRounded, NEW amount \in Amounts, CreateExpense(amount)
    PROVE  \E p \in Pricing : /\ priced' = Append(priced, p) /\ DOMAIN p.draw = Lots
                              /\ PriceOf(p, sent)
<1>1. PICK p \in Pricing :
         /\ priced' = Append(priced, p)
         /\ p.draw = [l \in Lots |-> Consume(amount, l)]
         /\ p.base # Null =>
               LET total == SumFunctionOnSet([l \in Lots |-> p.draw[l] * lots[l].rate], Lots)
               IN  /\ p.base \in Int /\ total \in Int
                   /\ 2 * (total - p.base * (Grains * One)) \in -(Grains * One)..(Grains * One)
  BY PricingAdded
<1> DEFINE draw == p.draw
           rate == [l \in Lots |-> lots[l].rate]
           O == [l \in Lots |-> draw[l] * sent[l]]
           R == [l \in Lots |-> draw[l] * rate[l]]
           owed == SumFunctionOnSet(O, Lots)
           total == SumFunctionOnSet(R, Lots)
           all == SumFunctionOnSet(draw, Lots)
           unit == Grains * One
           b == p.base
<1>2. amount \in Int /\ DOMAIN draw = Lots /\ IsFiniteSet(Lots)
  BY <1>1, DecimalsAssumption, LotsAreFinite DEF TypeOK
<1>3. SUFFICES ASSUME b # Null
               PROVE  2 * (RateGrains * Grains * One * b - owed) \in
                      -(RateGrains * (unit + all))..(RateGrains * (unit + all))
  BY <1>1, <1>2 DEF PriceOf
<1>4. \A l \in Lots : /\ draw[l] \in Nat /\ sent[l] \in Int /\ rate[l] \in Int
                      /\ 2 * (sent[l] - rate[l] * RateGrains) \in -RateGrains..RateGrains
  <2>1. SUFFICES ASSUME NEW l \in Lots
        PROVE  /\ draw[l] \in Nat /\ sent[l] \in Int /\ rate[l] \in Int
               /\ 2 * (sent[l] - rate[l] * RateGrains) \in -RateGrains..RateGrains
    OBVIOUS
  <2>2. draw[l] \in Nat
    BY <1>1, <1>2, Consumed
  <2>3. sent[l] \in Int
    <3>1. sent[l] \in Rates
      BY DEF TypeOK
    <3>2. \A x \in Rates : x \in Int
      BY DecimalsAssumption
    <3> QED
      BY <3>1, <3>2, Zenon
  <2>4. rate[l] = lots[l].rate /\ rate[l] \in Int
    BY LotsHold DEF TypeOK, Lot
  <2> QED
    BY <2>2, <2>3, <2>4 DEF RatesRounded
<1>5. R = [l \in Lots |-> p.draw[l] * lots[l].rate]
  OBVIOUS
<1>6. b \in Int /\ total \in Int /\ 2 * (total - b * unit) \in -unit..unit
  BY <1>1, <1>3, <1>5
<1>7. /\ owed \in Int /\ all \in Nat
      /\ 2 * owed - 2 * RateGrains * total \in -(RateGrains * all)..(RateGrains * all)
  <2> HIDE DEF draw, rate
  <2> QED
    BY <1>2, <1>4, OwedBound
<1>8. RateGrains \in Nat /\ unit \in Nat /\ Grains \in Nat /\ One \in Nat
  BY Positive
<1> HIDE DEF owed, total, all, b
<1>9. RateGrains * (2 * (total - b * unit)) \in -(RateGrains * unit)..(RateGrains * unit)
  <2> DEFINE x == 2 * (total - b * unit)
  <2>1. x \in Int
    BY <1>6, <1>8
  <2> HIDE DEF x, unit
  <2>2. x \in -unit..unit
    BY <1>6 DEF x
  <2> QED
    BY <1>8, <2>1, <2>2, BoundScale DEF x
<1> DEFINE rt == RateGrains * total
           rb == RateGrains * (b * unit)
           ru == RateGrains * unit
           ra == RateGrains * all
<1>10. rt \in Int /\ rb \in Int /\ ru \in Int /\ ra \in Int
  BY <1>6, <1>7, <1>8
<1>11. RateGrains * (2 * (total - b * unit)) = 2 * rt - 2 * rb
  BY <1>6, <1>8
<1>12. RateGrains * Grains * One * b = rb /\ RateGrains * (unit + all) = ru + ra
       /\ 2 * RateGrains * total = 2 * rt
  BY <1>6, <1>7, <1>8
<1> HIDE DEF rt, rb, ru, ra, unit
<1>13. 2 * rt - 2 * rb \in -ru..ru /\ 2 * owed - 2 * rt \in -ra..ra
  BY <1>7, <1>9, <1>11, <1>12 DEF ru, ra
<1>14. 2 * (rb - owed) \in -(ru + ra)..(ru + ra)
  BY <1>7, <1>10, <1>13
<1> QED
  BY <1>12, <1>14

\* Every pricing stays right, the new one included.
LEMMA PriceStep ==
    ASSUME DecimalsInv,
           \/ \E amount \in Amounts, rate \in Rates : CreateLot(amount, rate)
           \/ \E amount \in Amounts : CreateExpense(amount)
    PROVE  PriceBounded' /\ DrawsWithin'
<1>1. /\ TypeOK /\ priced \in Seq(Pricing) /\ Lots = 1..Len(lots) /\ Len(lots) \in Nat
      /\ \A i \in DOMAIN priced : PriceOf(priced[i], sent)
  BY PricesAreRight, LotsAreFinite DEF DecimalsInv, TypeOK
<1>2. \A i \in DOMAIN priced : /\ priced[i] \in Pricing
                               /\ DOMAIN priced[i].draw \subseteq Lots
                               /\ Len(priced[i].draw) <= Len(lots)
                               /\ Len(priced[i].draw) \in Nat
  <2>1. SUFFICES ASSUME NEW i \in DOMAIN priced
        PROVE  /\ priced[i] \in Pricing /\ DOMAIN priced[i].draw \subseteq Lots
               /\ Len(priced[i].draw) <= Len(lots) /\ Len(priced[i].draw) \in Nat
    OBVIOUS
  <2>2. priced[i] \in Pricing
    BY <1>1
  <2>3. Len(priced[i].draw) <= Len(lots)
    BY DEF DecimalsInv, DrawsWithin
  <2>4. priced[i].draw \in Seq(Nat)
    BY <2>2 DEF Pricing
  <2> QED
    BY <1>1, <2>2, <2>3, <2>4
<1>3. ASSUME NEW amount \in Amounts, NEW rate \in Rates, CreateLot(amount, rate)
      PROVE  PriceBounded' /\ DrawsWithin'
  <2>1. priced' = priced /\ Len(lots') = Len(lots) + 1 /\ \A l \in Lots : sent'[l] = sent[l]
    BY <1>1, <1>3, LotCreated
  <2>2. \A i \in DOMAIN priced : PriceOf(priced[i], sent')
    BY <1>1, <1>2, <2>1, PriceKept
  <2>3. DrawsWithin'
    BY <1>1, <1>2, <2>1 DEF DrawsWithin
  <2>4. PriceBounded'
    BY <2>1, <2>2, Zenon DEF PriceBounded, PriceOf
  <2> QED
    BY <2>3, <2>4
<1>4. ASSUME NEW amount \in Amounts, CreateExpense(amount) PROVE PriceBounded' /\ DrawsWithin'
  <2>1. sent' = sent /\ Len(lots') = Len(lots)
    BY <1>1, <1>4, ExpenseCreated
  <2>2. PICK p \in Pricing : /\ priced' = Append(priced, p) /\ DOMAIN p.draw = Lots
                             /\ PriceOf(p, sent)
    BY <1>1, <1>4, PriceIsRight DEF DecimalsInv
  <2>3. Len(p.draw) = Len(lots)
    BY <1>1, <2>2 DEF Pricing
  <2>4. \A i \in DOMAIN priced' : priced'[i] = p \/ (i \in DOMAIN priced /\ priced'[i] = priced[i])
    BY <1>1, <2>2
  <2>5. DrawsWithin'
    BY <1>1, <1>2, <2>1, <2>3, <2>4 DEF DrawsWithin
  <2>6. \A i \in DOMAIN priced' : PriceOf(priced'[i], sent')
    BY <1>1, <2>1, <2>2, <2>4
  <2>7. PriceBounded'
    BY <2>6, Zenon DEF PriceBounded, PriceOf
  <2> QED
    BY <2>5, <2>7
<1> QED
  BY <1>3, <1>4

-----------------------------------------------------------------------------
\* Nothing changes while nothing is changed.
LEMMA DecimalsStutter == DecimalsInv /\ UNCHANGED vars => DecimalsInv'
BY Zenon DEF DecimalsInv, TypeOK, RatesRounded, DrawsWithin, DriftBounded, PriceBounded, Lots,
             Lot, Pricing, vars

\* What a step of the account does.
LEMMA DecimalsStep == DecimalsInv /\ [Next]_vars => DecimalsInv'
<1> SUFFICES ASSUME DecimalsInv, [Next]_vars PROVE DecimalsInv'
  OBVIOUS
<1>1. CASE \/ \E amount \in Amounts, rate \in Rates : CreateLot(amount, rate)
           \/ \E amount \in Amounts : CreateExpense(amount)
  <2>1. TypeOK /\ RatesRounded /\ DriftBounded
    BY DEF DecimalsInv
  <2>2. TypeOK'
    BY <1>1, <2>1, TypeStep
  <2>3. RatesRounded'
    BY <1>1, <2>1, RatesStep
  <2>4. DriftBounded'
    BY <1>1, <2>1, DriftStep
  <2>5. PriceBounded' /\ DrawsWithin'
    BY <1>1, PriceStep
  <2> QED
    BY <2>2, <2>3, <2>4, <2>5 DEF DecimalsInv
<1>2. CASE UNCHANGED vars
  BY <1>2, DecimalsStutter
<1> QED
  BY <1>1, <1>2 DEF Next, Full

\* The tables are what they are, and the bounds on them hold, for every amount and rate.
THEOREM DecimalsRight == Spec => []DecimalsInv
BY DecimalsInit, DecimalsStep, PTL DEF Spec

\* Lots, draws and pricings are of their types: no lot, whatever was sent, gets a negative
\* rate, and nothing negative is drawn (computeBaseAmount, CreateTransfer).
THEOREM DecimalsTyped == Spec => []TypeOK
<1>1. DecimalsInv => TypeOK
  BY DEF DecimalsInv
<1> QED
  BY <1>1, DecimalsRight, PTL

\* A lot's books are exact but for half a unit for each draw that ended between two units
\* (numericFromFloat64, UpdateLotRemaining).
THEOREM DriftIsBounded == Spec => []DriftBounded
<1>1. DecimalsInv => DriftBounded
  BY DEF DecimalsInv
<1> QED
  BY <1>1, DecimalsRight, PTL

\* A base amount is right to half a unit, and half a unit of the rate for all that was
\* drawn (computeBaseAmount).
THEOREM PriceIsBounded == Spec => []PriceBounded
<1>1. DecimalsInv => PriceBounded
  BY DEF DecimalsInv
<1> QED
  BY <1>1, DecimalsRight, PTL

\* No amount puts anything back into a lot or makes it owe something (RemainingAfter's
\* rounding included).
THEOREM OnlyFalls == Spec => LotsOnlyFall
<1>1. TypeOK /\ [Next]_vars =>
      [\A l \in Lots : lots'[l].remaining \in 0..lots[l].remaining
                       \/ lots'[l].remaining = lots[l].remaining]_vars
  <2> DEFINE Fall == \A l \in Lots : lots'[l].remaining \in 0..lots[l].remaining
                                     \/ lots'[l].remaining = lots[l].remaining
  <2> SUFFICES ASSUME TypeOK, Next PROVE Fall \/ UNCHANGED vars
    OBVIOUS
  <2>1. ASSUME NEW amount \in Amounts, NEW rate \in Rates, CreateLot(amount, rate) PROVE Fall
    BY <2>1, LotCreated
  <2>2. ASSUME NEW amount \in Amounts, CreateExpense(amount) PROVE Fall
    BY <2>2, ExpenseCreated, AfterDraw
  <2> QED
    BY <2>1, <2>2 DEF Next, Full
<1> QED
  BY <1>1, DecimalsTyped, PTL DEF Spec, LotsOnlyFall

\* The first lot that is not used up ends the loop: what comes to it is what the lots
\* before it have not covered, and it covers that, but for dust.
LEMMA FirstLeft ==
    ASSUME TypeOK, NEW amount \in Int, NEW l \in ListAvailableLots,
           Consume(amount, l) # Grains * lots[l].remaining,
           \A m \in ListAvailableLots :
              m < l => Consume(amount, m) = Grains * lots[m].remaining
    PROVE  amount - SumFunctionOnSet([m \in Lots |-> Consume(amount, m)], Lots) < Dust
<1> DEFINE draw == [m \in Lots |-> Consume(amount, m)]
           held == [m \in Lots |-> lots[m].remaining]
           before == {m \in ListAvailableLots : m < l}
           earlier == {m \in Lots : m < l}
           rest == Unpriced(amount, l)
           spent == SumFunctionOnSet(draw, earlier)
           others == Lots \ earlier
           later == others \ {l}
<1>1. /\ IsFiniteSet(Lots) /\ l \in Lots /\ l \in Int
      /\ \A m \in Lots : /\ draw[m] \in Nat /\ lots[m].remaining \in Int /\ m \in Int
                         /\ Consume(amount, m) > 0 => m \in ListAvailableLots
  BY LotsAreFinite, Consumed DEF TypeOK, ListAvailableLots
<1>2. before \subseteq earlier /\ earlier \subseteq Lots /\ l \in others
  BY <1>1 DEF ListAvailableLots
<1>3. IsFiniteSet(earlier) /\ IsFiniteSet(before) /\ IsFiniteSet(others) /\ IsFiniteSet(later)
  BY <1>1, <1>2, FS_Subset
<1>4. spent = SumFunctionOnSet(draw, before)
  <2>1. \A m \in earlier \ before : draw[m] = 0
    BY <1>1
  <2>2. IsFiniteSet(earlier \ before)
    BY <1>3, FS_Subset
  <2>3. SumFunctionOnSet(draw, earlier \ before) = 0
    <3> HIDE DEF draw, earlier, before
    <3> QED
      BY <2>1, <2>2, SumZero
  <2>4. \A m \in earlier : draw[m] \in Int
    BY <1>1
  <2>5. SumFunctionOnSet(draw, earlier) =
        SumFunctionOnSet(draw, before) + SumFunctionOnSet(draw, earlier \ before)
    <3> HIDE DEF draw, earlier, before
    <3> QED
      BY <1>2, <1>3, <2>4, SumSplit
  <2>6. SumFunctionOnSet(draw, before) \in Int
    <3>1. \A m \in before : draw[m] \in Int
      BY <1>2, <2>4
    <3> HIDE DEF draw, before
    <3> QED
      BY <1>3, <3>1, SumInt
  <2> QED
    BY <2>3, <2>5, <2>6
<1>5. SumFunctionOnSet(draw, before) = Grains * SumFunctionOnSet(held, before)
  <2>1. \A m \in before : held[m] \in Int /\ draw[m] = Grains * held[m]
    BY <1>1, <1>2
  <2>2. Grains \in Int
    BY Positive
  <2> HIDE DEF draw, held, before
  <2> QED
    BY <1>3, <2>1, <2>2, SumScale
<1>6. rest = amount - spent /\ rest \in Int
  <2>1. rest = amount - Grains * SumFunctionOnSet(held, before)
    BY DEF Unpriced
  <2>2. rest \in Int
    BY <1>1, Consumed
  <2> HIDE DEF rest, held, before, spent
  <2> QED
    BY <1>4, <1>5, <2>1, <2>2
<1>7. draw[l] = IF rest < Dust THEN 0 ELSE rest
  BY <1>1 DEF Consume, Done, Least
<1> HIDE DEF draw, rest
<1>8. /\ SumFunctionOnSet(draw, Lots) = spent + SumFunctionOnSet(draw, others)
      /\ SumFunctionOnSet(draw, others) = draw[l] + SumFunctionOnSet(draw, later)
      /\ SumFunctionOnSet(draw, later) \in Nat /\ spent \in Nat
  <2>1. \A m \in Lots : draw[m] \in Int /\ draw[m] \in Nat
    BY <1>1
  <2>2. /\ \A m \in others : draw[m] \in Int
        /\ \A m \in later : draw[m] \in Nat
        /\ \A m \in earlier : draw[m] \in Nat
    BY <2>1
  <2>3. SumFunctionOnSet(draw, Lots) = spent + SumFunctionOnSet(draw, others)
    <3>1. IsFiniteSet(Lots) /\ earlier \in SUBSET Lots /\ \A m \in Lots : draw[m] \in Int
      BY <1>1, <1>2, <2>1
    <3> HIDE DEF earlier
    <3>2. \A A \in SUBSET Lots : SumFunctionOnSet(draw, Lots) =
             SumFunctionOnSet(draw, A) + SumFunctionOnSet(draw, Lots \ A)
      BY <3>1, SumSplit
    <3>3. SumFunctionOnSet(draw, Lots) =
          SumFunctionOnSet(draw, earlier) + SumFunctionOnSet(draw, Lots \ earlier)
      BY <3>1, <3>2
    <3> QED
      BY <3>3
  <2> HIDE DEF others
  <2>4. SumFunctionOnSet(draw, others) = draw[l] + SumFunctionOnSet(draw, later)
    BY <1>2, <1>3, <2>2, SumRemove
  <2> QED
    BY <1>3, <2>2, <2>3, <2>4, SumNat
<1> DEFINE all == SumFunctionOnSet(draw, Lots)
           after == SumFunctionOnSet(draw, later)
<1>9. all = spent + (draw[l] + after) /\ after \in Nat /\ spent \in Nat /\ draw[l] \in Nat
  BY <1>1, <1>8
<1> HIDE DEF all, after, spent
<1>10. amount - all < Dust
  BY <1>6, <1>7, <1>9, Positive
<1> QED
  BY <1>10 DEF all, draw

\* If what is left of an amount is more than dust, every lot was used up.
LEMMA AllUsedUp ==
    ASSUME TypeOK, NEW amount \in Int,
           amount - SumFunctionOnSet([m \in Lots |-> Consume(amount, m)], Lots) >= Dust
    PROVE  \A l \in ListAvailableLots : Consume(amount, l) = Grains * lots[l].remaining
<1> DEFINE B == {l \in ListAvailableLots : Consume(amount, l) # Grains * lots[l].remaining}
           all == SumFunctionOnSet([m \in Lots |-> Consume(amount, m)], Lots)
<1>1. SUFFICES ASSUME B # {} PROVE FALSE
  OBVIOUS
<1>2. B \subseteq Nat
  BY LotsAreFinite DEF TypeOK, ListAvailableLots
<1>3. PICK l \in B : \A m \in B : l <= m
  <2>1. PICK l \in B : \A m \in B : <<m, l>> \notin OpToRel(<, Nat)
    BY <1>1, <1>2, WFMin, NatLessThanWellFounded, Zenon
  <2>2. \A m \in B : ~ (m < l)
    BY <1>2, <2>1, Zenon DEF OpToRel
  <2> QED
    BY <1>2, <2>2
<1>4. \A m \in ListAvailableLots : m < l => Consume(amount, m) = Grains * lots[m].remaining
  <2>1. SUFFICES ASSUME NEW m \in ListAvailableLots, m < l, m \in B PROVE FALSE
    OBVIOUS
  <2> QED
    BY <1>2, <1>3, <2>1
<1>5. amount - all < Dust
  BY <1>3, <1>4, FirstLeft
<1>6. all \in Int
  <2>1. IsFiniteSet(Lots) /\ \A m \in Lots : [k \in Lots |-> Consume(amount, k)][m] \in Int
    BY LotsAreFinite, Consumed DEF TypeOK
  <2> QED
    BY <2>1, SumInt
<1> HIDE DEF all
<1> QED
  BY <1>5, <1>6, Positive DEF all

\* Stock that is used up is gone: its rounding leaves nothing.
LEMMA NothingLeft ==
    ASSUME TypeOK, NEW amount \in Int, NEW l \in Lots,
           l \in ListAvailableLots => Consume(amount, l) = Grains * lots[l].remaining,
           NEW left \in RemainingAfter(amount, l)
    PROVE  left <= 0
<1>1. CASE l \notin ListAvailableLots
  <2>1. left = lots[l].remaining /\ lots[l].remaining \in Int /\ ~ (lots[l].remaining > 0)
    BY <1>1, Consumed DEF RemainingAfter, ListAvailableLots
  <2> QED
    BY <2>1
<1>2. CASE l \in ListAvailableLots
  <2> DEFINE whole == Grains * lots[l].remaining
  <2>1. lots[l].remaining \in Nat \ {0}
    BY <1>2, Consumed DEF ListAvailableLots
  <2>2. whole \in Nat /\ whole > 0 /\ Consume(amount, l) = whole
    BY <1>2, <2>1, Positive
  <2>3. ~ Done(Unpriced(amount, l))
    BY <2>2 DEF Consume
  <2>4. left \in numericFromFloat64(IF whole - Consume(amount, l) > 0
                                    THEN whole - Consume(amount, l) ELSE 0, Grains)
    BY <1>2, <2>3 DEF RemainingAfter
  <2>5. (IF whole - Consume(amount, l) > 0 THEN whole - Consume(amount, l) ELSE 0) = 0
    BY <2>2
  <2>6. left \in numericFromFloat64(0, Grains) /\ 0 <= 0 * Grains
    BY <2>4, <2>5, Positive
  <2> QED
    BY <2>6, Rounded, RoundedBetween, Positive
<1> QED
  BY <1>1, <1>2

\* An amount the lots could price is priced but for dust: what is left unpriced leaves
\* every lot empty (the loop of computeBaseAmount).
THEOREM StockIsUsedUp == Spec => StockUsedUp
<1>1. TypeOK /\ [Next]_vars =>
      [priced' # priced =>
          LET p == priced'[Len(priced')]
          IN  p.amount - SumFunctionOnSet(p.draw, Lots) >= Dust =>
                 \A l \in Lots : lots'[l].remaining <= 0]_vars
  <2> DEFINE p == priced'[Len(priced')]
  <2> SUFFICES ASSUME TypeOK, Next, priced' # priced,
                      p.amount - SumFunctionOnSet(p.draw, Lots) >= Dust,
                      NEW l \in Lots
               PROVE  lots'[l].remaining <= 0 \/ UNCHANGED vars
    BY Zenon
  <2>1. ASSUME NEW amount \in Amounts, NEW rate \in Rates, CreateLot(amount, rate) PROVE FALSE
    BY <2>1, LotCreated
  <2>2. ASSUME NEW amount \in Amounts, CreateExpense(amount) PROVE lots'[l].remaining <= 0
    <3>1. PICK q \in Pricing : /\ priced' = Append(priced, q) /\ q.amount = amount
                               /\ q.draw = [m \in Lots |-> Consume(amount, m)]
      BY <2>2, PricingAdded
    <3>2. p = q
      <4>1. priced \in Seq(Pricing)
        BY DEF TypeOK
      <4> QED
        BY <3>1, <4>1
    <3>3. amount \in Int /\ lots'[l].remaining \in RemainingAfter(amount, l)
      BY <2>2, ExpenseCreated
    <3>4. amount - SumFunctionOnSet([m \in Lots |-> Consume(amount, m)], Lots) >= Dust
      BY <3>1, <3>2
    <3>5. l \in ListAvailableLots => Consume(amount, l) = Grains * lots[l].remaining
      BY <3>3, <3>4, AllUsedUp
    <3> QED
      BY <3>3, <3>5, NothingLeft
  <2>3. CASE Full
    BY <2>3 DEF Full
  <2> QED
    BY <2>1, <2>2, <2>3 DEF Next
<1> QED
  BY <1>1, DecimalsTyped, PTL DEF Spec, StockUsedUp
=============================================================================
