-------------------------- MODULE CostBasis_proofs --------------------------
(***************************************************************************)
(* What the lots lose is what is priced, and every run of LotPricing is a   *)
(* run of CostBasis: proofs that need sums over requests and lots.          *)
(***************************************************************************)
EXTENDS LotPricing_proofs, Sums

(***************************************************************************)
(* The invariant behind Conservation, PricedFromStock and the refinement:   *)
(* the arithmetic of computeBaseAmount while its transaction is open, and   *)
(* what lots and draws have to do with each other.                          *)
(***************************************************************************)
Drawn(r) == SumFunctionOnSet(draw[r], Req)
Worth(r) == [l \in Req |-> draw[r][l] * arg[l].rate]

\* Nothing has been read, drawn or written yet.
Fresh(r) ==
    pc[r] \in {"idle", "list", "lock"} =>
        /\ ~poisoned[r]
        /\ pc[r] # "idle" => /\ NeedsLots(arg[r])
                             /\ need[r] = EffectiveAmount(arg[r]) /\ base[r] = Null

\* The loop has priced what is no longer needed, at the rates of its lots.
Priced(r) ==
    Active(r) /\ NeedsLots(arg[r]) =>
        /\ need[r] + Drawn(r) = EffectiveAmount(arg[r])
        /\ base[r] # Null => base[r] = SumFunctionOnSet(Worth(r), Req)

\* The loop runs only if a lot was fetched, and ends with nothing left to price or
\* no lot left to draw from.
Ended(r) ==
    /\ pc[r] = "spend" => NeedsLots(arg[r]) /\ Fetched(r) # {} /\ base[r] # Null
    /\ pc[r] = "commit" /\ NeedsLots(arg[r]) /\ ~poisoned[r] =>
          /\ base[r] = Null <=> Fetched(r) = {}
          /\ LoopDone(r)

\* A request that needs no lots has looked at none.
Direct(r) ==
    Active(r) /\ ~NeedsLots(arg[r]) =>
        /\ ~poisoned[r] /\ snap[r] = {} /\ Drawn(r) = 0
        /\ \A l \in Req : draw[r][l] = 0
        /\ base[r] = IF HasSpend(arg[r]) THEN EffectiveAmount(arg[r]) ELSE Null

Pricing(r) == Fresh(r) /\ Priced(r) /\ Ended(r) /\ Direct(r) /\ held[r] \subseteq snap[r]

\* A lot is untouched until its transfer is committed, but for its own request.
LotsWhole == \A r \in Req : Active(r) /\ MakesLot(arg[r]) => rem[r] = arg[r].toAmount
DrawnCommitted == \A r \in Req, l \in Req : draw[r][l] > 0 => pc[l] = "ok" \/ l = r

PricingInv ==
    /\ \A r \in Req : Pricing(r)
    /\ LotsWhole /\ DrawnCommitted
    /\ deleting \subseteq transfers
-----------------------------------------------------------------------------
\* A request is priced as before while its own columns stay.
LEMMA PricingKept ==
    ASSUME TypeOK, NEW r \in Req, Pricing(r), arg' = arg,
           pc'[r] = pc[r], poisoned'[r] = poisoned[r], need'[r] = need[r], base'[r] = base[r],
           draw'[r] = draw[r], snap'[r] = snap[r], held'[r] = held[r], seen'[r] = seen[r]
    PROVE  Pricing(r)'
<1>1. Drawn(r)' = Drawn(r) /\ Worth(r)' = Worth(r)
  BY DEF Drawn, Worth
<1>2. Fetched(r)' = Fetched(r) /\ Unspent(r)' = Unspent(r) /\ LoopDone(r)' = LoopDone(r)
  BY DEF Fetched, Unspent, LoopDone
<1>3. Active(r)' = Active(r)
  BY DEF Active
<1>4. Fresh(r)'
  BY DEF Pricing, Fresh
<1>5. Priced(r)'
  BY <1>1, <1>3 DEF Pricing, Priced
<1>6. Ended(r)'
  BY <1>2 DEF Pricing, Ended
<1>7. Direct(r)'
  BY <1>1, <1>3 DEF Pricing, Direct
<1> QED
  BY <1>4, <1>5, <1>6, <1>7 DEF Pricing

\* A step of request r keeps PricingInv if it leaves the columns of the others alone.
LEMMA PricingAround ==
    ASSUME TypeOK, PricingInv, NEW r \in Req, arg' = arg,
           \A s \in Req \ {r} :
              /\ pc'[s] = pc[s] /\ poisoned'[s] = poisoned[s] /\ need'[s] = need[s]
              /\ base'[s] = base[s] /\ draw'[s] = draw[s] /\ snap'[s] = snap[s]
              /\ held'[s] = held[s] /\ seen'[s] = seen[s],
           Pricing(r)', LotsWhole', DrawnCommitted', (deleting \subseteq transfers)'
    PROVE  PricingInv'
<1>1. ASSUME NEW s \in Req PROVE Pricing(s)'
  <2>1. CASE s = r
    BY <2>1
  <2>2. CASE s # r
    <3>1. Pricing(s)
      BY DEF PricingInv
    <3> QED
      BY <2>2, <3>1, PricingKept
  <2> QED
    BY <2>1, <2>2
<1> QED
  BY <1>1 DEF PricingInv

\* A request that has drawn nothing has priced nothing.
LEMMA NothingDrawn ==
    ASSUME TypeOK, NEW r \in Req, \A l \in Req : draw[r][l] = 0
    PROVE  Drawn(r) = 0 /\ SumFunctionOnSet(Worth(r), Req) = 0
<1>1. Drawn(r) = 0
  BY ReqAssumption, SumZero DEF Drawn
<1>2. \A l \in Req : Worth(r)[l] = 0
  <2>1. \A l \in Req : arg[l].rate \in Nat
    BY ColumnsAreNat DEF TypeOK
  <2> QED
    BY <2>1 DEF Worth
<1> QED
  BY <1>1, <1>2, ReqAssumption, SumZero

\* The invariant holds before any request has begun.
LEMMA PricingInit == Init => PricingInv
<1> SUFFICES ASSUME Init PROVE PricingInv
  OBVIOUS
<1> QED
  BY DEF Init, PricingInv, Pricing, Fresh, Priced, Ended, Direct, LotsWhole, DrawnCommitted,
         Active, Running, Nothing

\* A transaction begins with all of its amount to be priced.
LEMMA BeginPricing ==
    ASSUME TypeOK, LockingInv, LoopInv, PricingInv, NEW r \in Req, Begin(r)
    PROVE  PricingInv'
<1> USE DEF TypeOK
<1>1. /\ pc[r] = "idle" /\ pc'[r] = IF NeedsLots(arg[r]) THEN "list" ELSE "commit"
      /\ need'[r] = IF NeedsLots(arg[r]) THEN EffectiveAmount(arg[r]) ELSE 0
      /\ base'[r] = IF HasSpend(arg[r]) /\ EffectiveCurrency(arg[r]) = EUR
                    THEN EffectiveAmount(arg[r]) ELSE Null
      /\ rem'[r] = IF MakesLot(arg[r]) THEN arg[r].toAmount ELSE 0
      /\ UNCHANGED <<transfers, arg, snap, held, seen, draw, poisoned, deleting>>
  BY DEF Begin, locking
<1>2. /\ \A l \in Req : draw[r][l] = 0
      /\ snap[r] = {} /\ held[r] = {} /\ ~poisoned[r]
  BY <1>1 DEF LoopInv, LockingInv, OnlyActiveHold, Holding, PricingInv, Pricing, Fresh
<1>3. Drawn(r) = 0 /\ SumFunctionOnSet(Worth(r), Req) = 0
  BY <1>2, NothingDrawn
<1>4. Drawn(r)' = Drawn(r) /\ Worth(r)' = Worth(r)
  BY <1>1 DEF Drawn, Worth
<1>5. Pricing(r)'
  <2>1. arg[r] \in Request
    OBVIOUS
  <2>2. NeedsLots(arg[r]) => EffectiveAmount(arg[r]) \in Nat
    BY <2>1, AmountIsNat DEF NeedsLots
  <2>3. NeedsLots(arg[r]) <=> HasSpend(arg[r]) /\ EffectiveCurrency(arg[r]) # EUR
    BY DEF NeedsLots
  <2>4. Fresh(r)'
    BY <1>1, <1>2, <2>3 DEF Fresh
  <2>5. Priced(r)'
    BY <1>1, <1>3, <1>4, <2>2, <2>3 DEF Priced
  <2>6. Ended(r)'
    BY <1>1 DEF Ended
  <2>7. Direct(r)'
    BY <1>1, <1>2, <1>3, <1>4, <2>3 DEF Direct
  <2> QED
    BY <1>1, <1>2, <2>4, <2>5, <2>6, <2>7 DEF Pricing
<1>6. \A s \in Req \ {r} : /\ pc'[s] = pc[s] /\ need'[s] = need[s] /\ base'[s] = base[s]
                           /\ rem'[s] = rem[s]
  BY DEF Begin
<1>7. LotsWhole'
  BY <1>1, <1>6 DEF PricingInv, LotsWhole, Active
<1>8. DrawnCommitted'
  BY <1>1, <1>6 DEF PricingInv, DrawnCommitted
<1>9. (deleting \subseteq transfers)'
  BY <1>1 DEF PricingInv
<1> QED
  BY <1>1, <1>5, <1>6, <1>7, <1>8, <1>9, PricingAround

\* Listing the lots prices nothing, and neither does failing to.
LEMMA ListPricing ==
    ASSUME TypeOK, LockingInv, PricingInv, NEW r \in Req,
           ListAvailableLots(r) \/ ListFails(r)
    PROVE  PricingInv'
<1> USE DEF TypeOK
<1>1. /\ pc[r] = "list" /\ pc'[r] \in {"lock", "commit"}
      /\ pc'[r] = "commit" => poisoned'[r]
      /\ pc'[r] = "lock" => ~poisoned'[r]
      /\ UNCHANGED <<transfers, lots, rem, arg, need, base, held, seen, draw, deleting>>
      /\ \A s \in Req \ {r} : /\ pc'[s] = pc[s] /\ poisoned'[s] = poisoned[s]
                              /\ snap'[s] = snap[s]
  BY DEF ListAvailableLots, ListFails, tables, locking, loop, PricingInv, Pricing, Fresh
<1>2. /\ NeedsLots(arg[r]) /\ need[r] = EffectiveAmount(arg[r]) /\ base[r] = Null
      /\ Active(r)
  BY <1>1 DEF PricingInv, Pricing, Fresh, Active, Running
<1>3. Drawn(r)' = Drawn(r) /\ Worth(r)' = Worth(r)
  BY <1>1 DEF Drawn, Worth
<1>4. Pricing(r)'
  <2>1. held[r] = {}
    BY <1>1 DEF LockingInv, OnlyActiveHold, Holding
  <2>2. Fresh(r)'
    BY <1>1, <1>2 DEF Fresh
  <2>3. Priced(r)'
    BY <1>1, <1>2, <1>3 DEF PricingInv, Pricing, Priced
  <2>4. Ended(r)'
    BY <1>1 DEF Ended
  <2>5. Direct(r)'
    BY <1>1, <1>2 DEF Direct
  <2> QED
    BY <1>1, <2>1, <2>2, <2>3, <2>4, <2>5 DEF Pricing
<1>5. LotsWhole'
  BY <1>1, <1>2 DEF PricingInv, LotsWhole, Active
<1>6. DrawnCommitted'
  BY <1>1 DEF PricingInv, DrawnCommitted
<1>7. (deleting \subseteq transfers)'
  BY <1>1 DEF PricingInv
<1> QED
  BY <1>1, <1>4, <1>5, <1>6, <1>7, PricingAround

\* Locking a lot, or skipping one that is gone, prices nothing.
LEMMA LockPricing ==
    ASSUME TypeOK, LockingInv, PricingInv, NEW r \in Req, NEW l \in Req,
           LockLot(r, l) \/ SkipLot(r, l)
    PROVE  PricingInv'
<1> USE DEF TypeOK
<1>1. /\ pc[r] = "lock"
      /\ UNCHANGED <<transfers, lots, rem, arg, pc, need, base, snap, draw, poisoned, deleting>>
      /\ \A s \in Req \ {r} : held'[s] = held[s] /\ seen'[s] = seen[s]
      /\ held'[r] \subseteq held[r] \cup {l} /\ l \in todo[r]
  BY DEF LockLot, SkipLot, IsFirst, tables, loop
<1>2. Drawn(r)' = Drawn(r) /\ Worth(r)' = Worth(r) /\ Active(r)' = Active(r)
  BY <1>1 DEF Drawn, Worth, Active
<1>3. Pricing(r)'
  <2>1. held'[r] \subseteq snap'[r]
    BY <1>1 DEF LockingInv, SnapCommitted, PricingInv, Pricing
  <2>2. Fresh(r)'
    BY <1>1 DEF PricingInv, Pricing, Fresh
  <2>3. Priced(r)'
    BY <1>1, <1>2 DEF PricingInv, Pricing, Priced
  <2>4. Ended(r)'
    BY <1>1 DEF Ended
  <2>5. Direct(r)'
    BY <1>1, <1>2 DEF PricingInv, Pricing, Direct
  <2> QED
    BY <2>1, <2>2, <2>3, <2>4, <2>5 DEF Pricing
<1>4. LotsWhole'
  BY <1>1 DEF PricingInv, LotsWhole, Active
<1>5. DrawnCommitted'
  BY <1>1 DEF PricingInv, DrawnCommitted
<1>6. (deleting \subseteq transfers)'
  BY <1>1 DEF PricingInv
<1> QED
  BY <1>1, <1>3, <1>4, <1>5, <1>6, PricingAround

\* The loop starts at zero, or there was no lot and the base stays Null.
LEMMA StartPricing ==
    ASSUME TypeOK, LockingInv, LoopInv, PricingInv, NEW r \in Req, StartLoop(r)
    PROVE  PricingInv'
<1> USE DEF TypeOK
<1>1. /\ pc[r] = "lock" /\ pc'[r] = IF Fetched(r) = {} THEN "commit" ELSE "spend"
      /\ base'[r] = IF Fetched(r) = {} THEN Null ELSE 0
      /\ UNCHANGED <<transfers, lots, rem, arg, need, snap, held, seen, draw, poisoned, deleting>>
      /\ \A s \in Req \ {r} : pc'[s] = pc[s] /\ base'[s] = base[s]
  BY DEF StartLoop, tables, locking
<1>2. /\ NeedsLots(arg[r]) /\ need[r] = EffectiveAmount(arg[r]) /\ Active(r)
      /\ \A l \in Req : draw[r][l] = 0
  BY <1>1 DEF PricingInv, Pricing, Fresh, Active, Running, LoopInv
<1>3. Drawn(r)' = Drawn(r) /\ Worth(r)' = Worth(r) /\ Fetched(r)' = Fetched(r)
  BY <1>1 DEF Drawn, Worth, Fetched
<1>4. Drawn(r) = 0 /\ SumFunctionOnSet(Worth(r), Req) = 0
  BY <1>2, NothingDrawn
<1>5. Pricing(r)'
  <2>1. held'[r] \subseteq snap'[r]
    BY <1>1 DEF PricingInv, Pricing
  <2>2. Fresh(r)'
    BY <1>1 DEF Fresh
  <2>3. Priced(r)'
    BY <1>1, <1>2, <1>3, <1>4 DEF Priced
  <2>4. Ended(r)'
    <3>1. Fetched(r) = {} => LoopDone(r)'
      BY <1>3 DEF LoopDone, Unspent
    <3> QED
      BY <1>1, <1>2, <1>3, <3>1, NullAssumption DEF Ended
  <2>5. Direct(r)'
    BY <1>1, <1>2 DEF Direct
  <2> QED
    BY <2>1, <2>2, <2>3, <2>4, <2>5 DEF Pricing
<1>6. LotsWhole'
  BY <1>1, <1>2 DEF PricingInv, LotsWhole, Active
<1>7. DrawnCommitted'
  BY <1>1 DEF PricingInv, DrawnCommitted
<1>8. (deleting \subseteq transfers)'
  BY <1>1 DEF PricingInv
<1> QED
  BY <1>1, <1>5, <1>6, <1>7, <1>8, PricingAround

\* One turn of the loop: what it takes from the lot is priced at the lot's rate, and
\* no longer needed.
LEMMA ConsumePricing ==
    ASSUME TypeOK, LockingInv, LoopInv, PricingInv, NEW r \in Req, NEW l \in Req,
           NEW w \in BOOLEAN, Consume(r, l, w)
    PROVE  PricingInv'
<1> DEFINE consume == MinOf(need[r], seen[r][l])
<1>1. need[r] \in Nat /\ seen[r][l] \in Nat /\ \A k \in Req : arg[k].rate \in Nat
  BY ColumnsAreNat DEF TypeOK
<1>2. consume \in Nat /\ consume <= need[r]
  BY <1>1, MinIsNat
<1>3. /\ draw' = [draw EXCEPT ![r] = [@ EXCEPT ![l] = consume]]
      /\ need' = [need EXCEPT ![r] = @ - consume]
      /\ base' = [base EXCEPT ![r] = @ + consume * arg[l].rate]
      /\ UNCHANGED <<transfers, lots, rem, arg, pc, snap, held, seen, deleting>>
      /\ pc[r] = "spend" /\ l \in Unspent(r)
  BY DEF Consume, IsFirst, tables, locking
<1>4. \A s \in Req \ {r} : poisoned'[s] = poisoned[s]
  BY DEF Consume, TypeOK
<1> HIDE DEF consume
<1> USE DEF TypeOK
<1>5. /\ Active(r) /\ Active(r)' /\ base[r] \in Nat /\ NeedsLots(arg[r])
      /\ l \in held[r] /\ draw[r][l] = 0 /\ Fetched(r) # {} /\ Fetched(r)' = Fetched(r)
  BY <1>3 DEF Active, Running, LockingInv, BaseStarted, PricingInv, Pricing, Ended, Unspent,
              Fetched
<1>6. need[r] + Drawn(r) = EffectiveAmount(arg[r]) /\ base[r] = SumFunctionOnSet(Worth(r), Req)
  BY <1>5, NullAssumption DEF PricingInv, Pricing, Priced
<1>7. Drawn(r)' = Drawn(r) + consume /\ Drawn(r) \in Int
  <2> DEFINE u == draw'[r]
             v == draw[r]
  <2>1. \A k \in Req : u[k] \in Int /\ v[k] \in Int
    BY <1>2, <1>3
  <2>2. \A k \in Req \ {l} : u[k] = v[k]
    BY <1>3
  <2>3. u[l] = consume /\ v[l] = 0
    BY <1>3, <1>5
  <2>4. Drawn(r)' = SumFunctionOnSet(u, Req) /\ Drawn(r) = SumFunctionOnSet(v, Req)
    BY DEF Drawn
  <2> HIDE DEF u, v
  <2>5. SumFunctionOnSet(u, Req) = SumFunctionOnSet(v, Req) + (u[l] - v[l])
    BY <2>1, <2>2, ReqAssumption, SumPoint
  <2>6. SumFunctionOnSet(v, Req) \in Int
    BY <2>1, ReqAssumption, SumInt
  <2> QED
    BY <1>2, <2>3, <2>4, <2>5, <2>6
<1>8. SumFunctionOnSet(Worth(r)', Req) = SumFunctionOnSet(Worth(r), Req) + consume * arg[l].rate
  <2> DEFINE u == Worth(r)'
             v == Worth(r)
  <2>1. \A k \in Req : u[k] = draw'[r][k] * arg[k].rate /\ v[k] = draw[r][k] * arg[k].rate
    BY <1>3 DEF Worth
  <2>2. \A k \in Req : u[k] \in Int /\ v[k] \in Int
    <3>1. \A k \in Req : draw'[r][k] \in Nat /\ draw[r][k] \in Nat
      BY <1>2, <1>3
    <3> HIDE DEF u, v
    <3> SUFFICES ASSUME NEW k \in Req PROVE u[k] \in Int /\ v[k] \in Int
      OBVIOUS
    <3>2. draw'[r][k] * arg[k].rate \in Int /\ draw[r][k] * arg[k].rate \in Int
      BY <1>1, <3>1
    <3> QED
      BY <2>1, <3>2
  <2>3. \A k \in Req \ {l} : draw'[r][k] = draw[r][k]
    BY <1>3
  <2>4. u[l] = consume * arg[l].rate
    BY <1>3, <2>1
  <2> HIDE DEF u, v
  <2>5. v[l] = 0
    <3>1. arg[l].rate \in Nat /\ v[l] = 0 * arg[l].rate
      BY <1>1, <1>5, <2>1
    <3> QED
      BY <3>1
  <2>6. \A k \in Req \ {l} : u[k] = v[k]
    BY <2>1, <2>3
  <2>7. SumFunctionOnSet(u, Req) = SumFunctionOnSet(v, Req) + (u[l] - v[l])
    BY <2>2, <2>6, ReqAssumption, SumPoint
  <2>8. SumFunctionOnSet(v, Req) \in Int
    BY <2>2, ReqAssumption, SumInt
  <2>9. u[l] \in Int
    BY <2>2
  <2>10. SumFunctionOnSet(u, Req) = SumFunctionOnSet(v, Req) + consume * arg[l].rate
    BY <2>4, <2>5, <2>7, <2>8, <2>9
  <2> QED
    BY <2>10 DEF u, v
<1>9. Pricing(r)'
  <2>1. need'[r] = need[r] - consume /\ base'[r] = base[r] + consume * arg[l].rate
    BY <1>3
  <2>2. base'[r] \in Nat /\ base'[r] # Null
    <3>1. consume * arg[l].rate \in Nat
      BY <1>1, <1>2
    <3> QED
      BY <1>5, <2>1, <3>1, NullAssumption
  <2>3. Fresh(r)'
    BY <1>3 DEF Fresh
  <2>4. Priced(r)'
    <3>1. need'[r] + Drawn(r)' = EffectiveAmount(arg[r])
      BY <1>1, <1>2, <1>6, <1>7, <2>1
    <3>2. base'[r] = SumFunctionOnSet(Worth(r)', Req)
      BY <1>6, <1>8, <2>1
    <3>3. arg' = arg
      BY <1>3
    <3> QED
      BY <3>1, <3>2, <3>3 DEF Priced
  <2>5. Ended(r)'
    BY <1>3, <1>5, <2>2 DEF Ended
  <2>6. Direct(r)'
    BY <1>3, <1>5 DEF Direct
  <2>7. held'[r] \subseteq snap'[r]
    BY <1>3 DEF PricingInv, Pricing
  <2> QED
    BY <2>3, <2>4, <2>5, <2>6, <2>7 DEF Pricing
<1>10. LotsWhole'
  BY <1>3 DEF PricingInv, LotsWhole, Active
<1>11. DrawnCommitted'
  <2>1. pc[l] = "ok" \/ l = r
    BY <1>5 DEF PricingInv, Pricing, LockingInv, SnapCommitted
  <2> QED
    BY <1>3, <2>1 DEF PricingInv, DrawnCommitted
<1>12. (deleting \subseteq transfers)'
  BY <1>3 DEF PricingInv
<1> QED
  BY <1>3, <1>4, <1>9, <1>10, <1>11, <1>12, PricingAround

\* The loop ends with all of the amount drawn, or with every fetched lot empty.
LEMMA EndPricing ==
    ASSUME TypeOK, PricingInv, NEW r \in Req, EndLoop(r)
    PROVE  PricingInv'
<1> USE DEF TypeOK
<1>1. /\ pc[r] = "spend" /\ pc'[r] = "commit" /\ LoopDone(r)
      /\ UNCHANGED <<transfers, lots, rem, arg, need, base, snap, held, seen, draw, poisoned,
                     deleting>>
      /\ \A s \in Req \ {r} : pc'[s] = pc[s]
  BY DEF EndLoop, tables, locking, loop
<1>2. /\ NeedsLots(arg[r]) /\ Fetched(r) # {} /\ base[r] # Null
      /\ Active(r) /\ Active(r)'
  BY <1>1 DEF PricingInv, Pricing, Ended, Active, Running
<1>3. /\ Drawn(r)' = Drawn(r) /\ Worth(r)' = Worth(r)
      /\ Fetched(r)' = Fetched(r) /\ LoopDone(r)'
  BY <1>1 DEF Drawn, Worth, Fetched, Unspent, LoopDone
<1>4. Pricing(r)'
  <2>1. Fresh(r)'
    BY <1>1 DEF Fresh
  <2>2. Priced(r)'
    BY <1>1, <1>2, <1>3 DEF PricingInv, Pricing, Priced
  <2>3. Ended(r)'
    BY <1>1, <1>2, <1>3 DEF Ended
  <2>4. Direct(r)'
    BY <1>1, <1>2 DEF Direct
  <2> QED
    BY <1>1, <2>1, <2>2, <2>3, <2>4 DEF PricingInv, Pricing
<1>5. LotsWhole'
  BY <1>1, <1>2 DEF PricingInv, LotsWhole, Active
<1>6. DrawnCommitted'
  BY <1>1 DEF PricingInv, DrawnCommitted
<1>7. (deleting \subseteq transfers)'
  BY <1>1 DEF PricingInv
<1> QED
  BY <1>1, <1>4, <1>5, <1>6, <1>7, PricingAround

\* The end of r's transaction: it holds nothing, and nobody else's own lot has changed.
LEMMA EndsPricing ==
    ASSUME TypeOK, LockingInv, PricingInv, NEW r \in Req, Active(r), Commit(r) \/ Rollback(r)
    PROVE  PricingInv'
<1> USE DEF TypeOK
<1>1. /\ pc[r] # "ok" /\ pc'[r] \in {"ok", "failed"}
      /\ UNCHANGED <<arg, deleting>> /\ transfers \subseteq transfers'
      /\ held'[r] = {} /\ snap'[r] = {}
      /\ \A s \in Req \ {r} :
            /\ pc'[s] = pc[s] /\ poisoned'[s] = poisoned[s] /\ need'[s] = need[s]
            /\ base'[s] = base[s] /\ draw'[s] = draw[s] /\ snap'[s] = snap[s]
            /\ held'[s] = held[s] /\ seen'[s] = seen[s]
  BY DEF Active, Running, Commit, Rollback, Release
<1>2. pc'[r] = "ok" => draw'[r] = draw[r]
  BY DEF Commit, Rollback
<1>3. pc'[r] = "failed" => \A l \in Req : draw'[r][l] = 0
  BY DEF Commit, Rollback, Nothing
<1>4. Pricing(r)'
  <2>1. ~Active(r)' /\ pc'[r] \notin {"idle", "list", "lock", "spend", "commit"}
    BY <1>1 DEF Active, Running
  <2> QED
    BY <1>1, <2>1 DEF Pricing, Fresh, Priced, Ended, Direct
<1>5. LotsWhole'
  <2> SUFFICES ASSUME NEW s \in Req, Active(s)', MakesLot(arg[s])
               PROVE  rem'[s] = arg[s].toAmount
    BY <1>1 DEF LotsWhole
  <2>1. s # r /\ Active(s)
    BY <1>1 DEF Active, Running
  <2>2. rem[s] = arg[s].toAmount
    BY <2>1 DEF PricingInv, LotsWhole
  <2>3. s \notin wrote[r]
    BY <2>1 DEF LockingInv, WritesLocked, NoLostUpdate, VisibleLots, LotsCommitted, Active, Running
  <2> QED
    BY <2>1, <2>2, <2>3 DEF Commit, Rollback
<1>6. DrawnCommitted'
  <2> SUFFICES ASSUME NEW s \in Req, NEW l \in Req, draw'[s][l] > 0, l # s
               PROVE  pc'[l] = "ok"
    BY DEF DrawnCommitted
  <2>1. draw[s][l] > 0
    BY <1>1, <1>2, <1>3
  <2>2. pc[l] = "ok"
    BY <2>1 DEF PricingInv, DrawnCommitted
  <2> QED
    BY <1>1, <2>2
<1>7. (deleting \subseteq transfers)'
  BY <1>1 DEF PricingInv
<1> QED
  BY <1>1, <1>4, <1>5, <1>6, <1>7, PricingAround

\* Deletions, and steps that change nothing, price nothing.
LEMMA PricingUntouched ==
    ASSUME TypeOK, PricingInv,
           UNCHANGED <<arg, pc, poisoned, need, base, draw, snap, held, seen, rem>>,
           (deleting \subseteq transfers)'
    PROVE  PricingInv'
<1>1. \A r \in Req : Pricing(r)'
  BY PricingKept DEF PricingInv
<1> QED
  BY <1>1 DEF PricingInv, LotsWhole, DrawnCommitted, Active

\* The invariant holds after every step.
LEMMA PricingStep ==
    TypeOK /\ LockingInv /\ LoopInv /\ PricingInv /\ [Next]_vars => PricingInv'
<1> SUFFICES ASSUME TypeOK, LockingInv, LoopInv, PricingInv, [Next]_vars PROVE PricingInv'
  OBVIOUS
<1>1. ASSUME NEW r \in Req, Commit(r) \/ InsertFails(r) \/ Fail(r) PROVE PricingInv'
  BY <1>1, EndsPricing DEF Commit, InsertFails, Fail, Active, Running
<1>2. ASSUME NEW t \in Req, BeginDelete(t) \/ FinishDelete(t) \/ AbortDelete(t)
      PROVE  PricingInv'
  BY <1>2, PricingUntouched
  DEF BeginDelete, FinishDelete, AbortDelete, tables, locking, loop, PricingInv
<1>3. ASSUME NEW x \in ExpenseRows, DeleteExpense(x) PROVE PricingInv'
  BY <1>3, PricingUntouched DEF DeleteExpense, locking, loop, PricingInv
<1>4. CASE UNCHANGED vars
  BY <1>4, PricingUntouched DEF vars, tables, locking, loop, PricingInv
<1>5. \A r \in Req : poisoned[r] \in BOOLEAN
  BY DEF TypeOK
<1> QED
  BY <1>1, <1>2, <1>3, <1>4, <1>5, BeginPricing, ListPricing, LockPricing, StartPricing,
     ConsumePricing, EndPricing
  DEF Next, Advance, Quiescent

\* The arithmetic of computeBaseAmount is right at every point of every transaction.
THEOREM PricingRight == Spec => []PricingInv
BY PricingInit, PricingStep, TypeCorrect, RowLocks, LoopRight, PTL DEF Spec
-----------------------------------------------------------------------------
(***************************************************************************)
(* Conservation.  Only a commit changes what the committed requests have    *)
(* drawn, and it takes from each lot what it has drawn, although it writes  *)
(* differences from what it read.                                          *)
(***************************************************************************)
\* At the commit, the lots fetched are those seen that still exist and have stock,
\* and each of them loses what was drawn.
LEMMA CommitTakes ==
    ASSUME TypeOK, LockingInv, LoopInv, PricingInv, NEW r \in Req, Commit(r)
    PROVE  /\ \A l \in Req : draw[r][l] <= rem[l] /\ rem'[l] = rem[l] - draw[r][l]
           /\ Fetched(r) = {l \in snap[r] \cap VisibleLots(r) : rem[l] > 0}
           /\ \A l \in Fetched(r) : seen[r][l] = rem[l]
<1> USE DEF TypeOK
<1>1. Active(r) /\ ~poisoned[r] /\ todo[r] = {}
  BY DEF Commit, Doomed, Active, Running, LoopInv
<1>2. \A l \in held[r] : l \in VisibleLots(r) /\ seen[r][l] = rem[l]
  BY DEF LockingInv, NoLostUpdate
<1>3. \A l \in snap[r] : l \in held[r] \/ l \notin VisibleLots(r)
  BY <1>1 DEF LoopInv
<1>4. Fetched(r) = {l \in snap[r] \cap VisibleLots(r) : rem[l] > 0}
  BY <1>2, <1>3 DEF Fetched, PricingInv, Pricing
<1>5. ASSUME NEW l \in Req PROVE draw[r][l] <= rem[l] /\ rem'[l] = rem[l] - draw[r][l]
  <2>1. rem'[l] = IF l \in wrote[r] THEN seen[r][l] - draw[r][l] ELSE rem[l]
    BY DEF Commit
  <2>2. draw[r][l] \in Nat /\ rem[l] \in Nat
    OBVIOUS
  <2>3. l \in wrote[r] => draw[r][l] <= rem[l] /\ seen[r][l] = rem[l]
    BY <1>2 DEF LockingInv, WritesLocked
  <2>4. draw[r][l] > 0 => l \in wrote[r]
    BY <1>1 DEF LoopInv, DrawInOrder
  <2> QED
    BY <2>1, <2>2, <2>3, <2>4
<1> QED
  BY <1>2, <1>4, <1>5 DEF Fetched

\* What the committed requests drew depends on them alone.
LEMMA DrawnKept ==
    ASSUME TypeOK, NEW l \in Req,
           \A r \in Req : Committed(r)' = Committed(r),
           \A r \in Req : Committed(r) => draw'[r] = draw[r]
    PROVE  DrawnFrom(l)' = DrawnFrom(l)
<1> DEFINE S == {r \in Req : Committed(r)}
           v == [r \in Req |-> draw'[r][l]]
           w == [r \in Req |-> draw[r][l]]
<1>1. S' = S
  OBVIOUS
<1>2. IsFiniteSet(S)
  BY ReqAssumption, FS_Subset
<1>3. \A r \in S : v[r] = w[r]
  OBVIOUS
<1>4. DrawnFrom(l) = SumFunctionOnSet(w, S) /\ DrawnFrom(l)' = SumFunctionOnSet(v, S)
  BY <1>1 DEF DrawnFrom
<1> HIDE DEF v, w, S
<1> QED
  BY <1>2, <1>3, <1>4, SumSame

\* Lots that neither change nor appear are conserved while no request commits.
LEMMA ConservationKept ==
    ASSUME TypeOK, Conservation, arg' = arg, lots' \subseteq lots,
           \A l \in lots : rem'[l] = rem[l],
           \A r \in Req : pc'[r] = "ok" <=> pc[r] = "ok",
           \A r \in Req : pc[r] = "ok" => draw'[r] = draw[r]
    PROVE  Conservation'
<1>1. \A r \in Req : Committed(r)' = Committed(r)
  BY DEF Committed
<1>2. \A l \in lots : DrawnFrom(l)' = DrawnFrom(l)
  BY <1>1, DrawnKept DEF Committed, TypeOK
<1> QED
  BY <1>2 DEF Conservation

\* A commit draws on the lots there were, and its own lot is new and whole.
LEMMA CommitConserves ==
    ASSUME TypeOK, LockingInv, LoopInv, PricingInv, Conservation, NEW r \in Req, Commit(r)
    PROVE  Conservation'
<1> USE DEF TypeOK
<1>1. /\ pc[r] = "commit" /\ pc' = [pc EXCEPT ![r] = "ok"] /\ draw' = draw /\ arg' = arg
      /\ lots' = VisibleLots(r)
  BY DEF Commit
<1>2. SUFFICES ASSUME NEW l \in lots'
               PROVE  rem'[l] + DrawnFrom(l)' = arg[l].toAmount
  BY <1>1 DEF Conservation
<1>3. l \in Req
  BY <1>1, <1>2 DEF VisibleLots
<1> DEFINE S == {s \in Req : Committed(s)}
           w == [s \in Req |-> draw[s][l]]
<1>4. IsFiniteSet(S)
  BY ReqAssumption, FS_Subset
<1>5. DrawnFrom(l) = SumFunctionOnSet(w, S)
  BY DEF DrawnFrom
<1>6. DrawnFrom(l)' = SumFunctionOnSet(w, S \cup {r})
  <2>1. {s \in Req : Committed(s)}' = S \cup {r}
    BY <1>1 DEF Committed
  <2> QED
    BY <1>1, <2>1 DEF DrawnFrom
<1>7. r \notin S /\ \A s \in S \cup {r} : w[s] \in Int /\ w[s] = draw[s][l]
  BY <1>1, <1>3 DEF Committed
<1>8. DrawnFrom(l)' = draw[r][l] + DrawnFrom(l) /\ DrawnFrom(l) \in Int
  <2> HIDE DEF S, w
  <2> QED
    BY <1>4, <1>5, <1>6, <1>7, SumAdd, SumInt
<1>9. rem'[l] = rem[l] - draw[r][l] /\ rem[l] \in Nat /\ draw[r][l] \in Nat
  BY <1>3, CommitTakes
<1>10. rem[l] + DrawnFrom(l) = arg[l].toAmount
  <2>1. CASE l \in lots
    BY <2>1 DEF Conservation
  <2>2. CASE l \notin lots
    <3>1. l = r /\ MakesLot(arg[r]) /\ Active(r)
      BY <1>1, <1>2, <2>2 DEF VisibleLots, Active, Running
    <3>2. rem[l] = arg[l].toAmount
      BY <3>1 DEF PricingInv, LotsWhole
    <3>3. \A s \in S : w[s] = 0
      BY <1>1, <1>3, <3>1 DEF PricingInv, DrawnCommitted, Committed
    <3>4. DrawnFrom(l) = 0
      <4> HIDE DEF S, w
      <4> QED
        BY <1>4, <1>5, <3>3, SumZero
    <3> QED
      BY <1>9, <3>2, <3>4
  <2> QED
    BY <2>1, <2>2
<1> HIDE DEF S, w
<1> QED
  BY <1>8, <1>9, <1>10

\* No step makes or loses any of a lot's amount.
LEMMA ConservationStep ==
    TypeOK /\ LockingInv /\ LoopInv /\ PricingInv /\ Conservation /\ [Next]_vars
      => Conservation'
<1> SUFFICES ASSUME TypeOK, LockingInv, LoopInv, PricingInv, Conservation, [Next]_vars
             PROVE  Conservation'
  OBVIOUS
<1> USE DEF TypeOK
<1>1. ASSUME NEW r \in Req, pc[r] # "ok" PROVE r \notin lots
  BY <1>1 DEF LockingInv, LotsCommitted
<1>2. ASSUME NEW r \in Req, Begin(r) PROVE Conservation'
  <2>1. pc[r] = "idle" /\ pc'[r] # "ok"
    BY <1>2 DEF Begin
  <2> QED
    BY <1>1, <1>2, <2>1, ConservationKept DEF Begin
<1>3. ASSUME NEW r \in Req, Active(r), Rollback(r) PROVE Conservation'
  <2>1. pc[r] # "ok" /\ pc'[r] # "ok"
    BY <1>3 DEF Rollback, Active, Running
  <2> QED
    BY <1>1, <1>3, <2>1, ConservationKept DEF Rollback
<1>4. ASSUME NEW r \in Req, NEW l \in Req, NEW w \in BOOLEAN, Consume(r, l, w)
      PROVE  Conservation'
  <2>1. /\ pc[r] # "ok" /\ \A s \in Req \ {r} : draw'[s] = draw[s]
        /\ UNCHANGED <<arg, lots, rem, pc>>
    BY <1>4 DEF Consume, tables
  <2> QED
    BY <2>1, ConservationKept
<1>5. ASSUME NEW r \in Req, ListAvailableLots(r) \/ ListFails(r) \/ StartLoop(r) \/ EndLoop(r)
      PROVE  Conservation'
  <2>1. UNCHANGED <<arg, lots, rem, draw>> /\ \A s \in Req : pc'[s] = "ok" <=> pc[s] = "ok"
    BY <1>5 DEF ListAvailableLots, ListFails, StartLoop, EndLoop, tables, loop
  <2> QED
    BY <2>1, ConservationKept
<1>6. ASSUME NEW r \in Req, NEW l \in Req, LockLot(r, l) \/ SkipLot(r, l) PROVE Conservation'
  BY <1>6, ConservationKept DEF LockLot, SkipLot, tables, loop
<1>7. ASSUME NEW t \in Req, BeginDelete(t) \/ FinishDelete(t) \/ AbortDelete(t)
      PROVE  Conservation'
  BY <1>7, ConservationKept
  DEF BeginDelete, FinishDelete, AbortDelete, CascadedLot, tables, loop
<1>8. ASSUME NEW x \in ExpenseRows, DeleteExpense(x) PROVE Conservation'
  BY <1>8, ConservationKept DEF DeleteExpense, loop
<1>9. CASE UNCHANGED vars
  BY <1>9, ConservationKept DEF vars, tables, loop
<1>10. \A r \in Req : poisoned[r] \in BOOLEAN
  OBVIOUS
<1> QED
  BY <1>2, <1>3, <1>4, <1>5, <1>6, <1>7, <1>8, <1>9, <1>10, CommitConserves
  DEF Next, Advance, InsertFails, Fail, Quiescent, Active, Running

\* No unit of a lot is priced twice and none disappears, whatever overlapped, failed
\* half-way or was deleted since.
THEOREM NothingCreated == Spec => []Conservation
<1>1. Init => Conservation
  BY DEF Init, Conservation
<1> QED
  BY <1>1, ConservationStep, TypeCorrect, RowLocks, LoopRight, PricingRight, PTL DEF Spec
-----------------------------------------------------------------------------
(***************************************************************************)
(* What a committed pricing says.                                          *)
(***************************************************************************)
\* When it commits, the loop has drawn from nothing but the lots it fetched; unless it
\* has priced the whole amount, it has emptied them all.
LEMMA CommitDraws ==
    ASSUME TypeOK, LockingInv, LoopInv, PricingInv, NEW r \in Req, Commit(r), NeedsLots(arg[r])
    PROVE  /\ \A l \in Req : draw[r][l] > 0 => l \in Fetched(r)
           /\ need[r] \in Nat /\ Drawn(r) \in Nat /\ need[r] + Drawn(r) = EffectiveAmount(arg[r])
           /\ \A l \in Fetched(r) : draw[r][l] < rem[l] =>
                need[r] = 0 /\ \A m \in Fetched(r) : Before(l, m) => draw[r][m] = 0
           /\ base[r] = Null <=> Fetched(r) = {}
           /\ base[r] # Null => base[r] = SumFunctionOnSet(Worth(r), Req)
<1> USE DEF TypeOK
<1>1. Active(r) /\ pc[r] = "commit" /\ ~poisoned[r]
  BY DEF Commit, Doomed, Active, Running
<1>2. \A l \in Req : draw[r][l] > 0 => DrawInOrder(r, l)
  BY <1>1 DEF LoopInv
<1>3. Drawn(r) \in Nat
  BY ReqAssumption, SumNat DEF Drawn
<1>4. \A l \in Req : draw[r][l] > 0 => l \in Fetched(r)
  BY <1>2 DEF DrawInOrder
<1>5. need[r] \in Nat /\ need[r] + Drawn(r) = EffectiveAmount(arg[r])
  BY <1>1 DEF PricingInv, Pricing, Priced
<1>6. /\ base[r] = Null <=> Fetched(r) = {}
      /\ LoopDone(r)
      /\ base[r] # Null => base[r] = SumFunctionOnSet(Worth(r), Req)
  BY <1>1 DEF PricingInv, Pricing, Priced, Ended
<1>7. ASSUME NEW l \in Fetched(r), draw[r][l] < rem[l]
      PROVE  need[r] = 0 /\ \A m \in Fetched(r) : Before(l, m) => draw[r][m] = 0
  <2>1. l \in Req /\ seen[r][l] = rem[l] /\ draw[r][l] < seen[r][l]
    BY <1>7, CommitTakes DEF Fetched
  <2>2. need[r] = 0
    <3>1. CASE draw[r][l] > 0
      BY <1>2, <2>1, <3>1 DEF DrawInOrder
    <3>2. CASE draw[r][l] = 0
      BY <1>6, <1>7, <3>2 DEF LoopDone, Unspent
    <3> QED
      BY <2>1, <3>1, <3>2
  <2>3. ASSUME NEW m \in Fetched(r), Before(l, m) PROVE draw[r][m] = 0
    <3>1. m \in Req /\ draw[r][m] \in Nat /\ draw[r][l] \in Nat /\ seen[r][l] \in Nat
      BY <2>1 DEF Fetched
    <3>2. draw[r][m] > 0 => draw[r][l] = seen[r][l]
      BY <1>2, <1>7, <2>3, <3>1 DEF DrawInOrder
    <3> QED
      BY <2>1, <3>1, <3>2
  <2> QED
    BY <2>2, <2>3
<1> QED
  BY <1>3, <1>4, <1>5, <1>6, <1>7

\* A committed base amount is what its draws are worth, and falls short of the amount
\* only when the lots offered are exhausted.
THEOREM PricedRight == Spec => PricedFromStock
<1> DEFINE Dry(r) == \A m \in snap[r] : m \notin lots' \/ rem'[m] = 0
           Right(r) ==
             /\ base[r] # Null => base[r] = SumFunctionOnSet(Worth(r), Req)
             /\ Drawn(r) <= EffectiveAmount(arg[r])
             /\ Drawn(r) < EffectiveAmount(arg[r]) => Dry(r)
             /\ base[r] = Null => Dry(r) /\ Drawn(r) = 0
<1>1. TypeOK /\ LockingInv /\ LoopInv /\ PricingInv /\ [Next]_vars
        => [\A r \in Req : Prices(r) => Right(r)]_vars
  <2> SUFFICES ASSUME TypeOK, LockingInv, LoopInv, PricingInv, [Next]_vars,
                      NEW r \in Req, Prices(r)
               PROVE  Right(r)
    OBVIOUS
  <2> USE DEF TypeOK
  <2>1. Commit(r) /\ NeedsLots(arg[r])
    BY PricesCommits DEF Prices
  <2>2. lots' = VisibleLots(r)
    BY <2>1 DEF Commit
  <2>3. ASSUME \A l \in Fetched(r) : draw[r][l] = rem[l] PROVE Dry(r)
    <3> SUFFICES ASSUME NEW m \in snap[r], m \in lots' PROVE rem'[m] = 0
      OBVIOUS
    <3>1. m \in Req /\ rem[m] \in Nat /\ draw[r][m] \in Nat
      OBVIOUS
    <3>2. draw[r][m] <= rem[m] /\ rem'[m] = rem[m] - draw[r][m]
      BY <2>1, <3>1, CommitTakes
    <3>3. rem[m] > 0 => m \in Fetched(r)
      BY <2>1, <2>2, <3>1, CommitTakes
    <3> QED
      BY <2>3, <3>1, <3>2, <3>3
  <2>4. Drawn(r) < EffectiveAmount(arg[r]) => \A l \in Fetched(r) : draw[r][l] = rem[l]
    <3> SUFFICES ASSUME Drawn(r) < EffectiveAmount(arg[r]), NEW l \in Fetched(r)
                 PROVE  draw[r][l] = rem[l]
      OBVIOUS
    <3>1. need[r] # 0 /\ ~(draw[r][l] < rem[l])
      BY <2>1, CommitDraws
    <3>2. l \in Req /\ rem[l] \in Nat /\ draw[r][l] \in Nat
      BY DEF Fetched
    <3>3. draw[r][l] <= rem[l]
      BY <2>1, <3>2, CommitTakes
    <3>4. \A a, b \in Nat : a <= b /\ ~(a < b) => a = b
      OBVIOUS
    <3> QED
      BY <3>1, <3>2, <3>3, <3>4
  <2>5. Drawn(r) <= EffectiveAmount(arg[r])
    BY <2>1, CommitDraws
  <2>6. base[r] = Null => Fetched(r) = {} /\ Drawn(r) = 0
    <3>1. base[r] = Null => \A l \in Req : draw[r][l] = 0
      BY <2>1, CommitDraws
    <3> QED
      BY <2>1, <3>1, CommitDraws, NothingDrawn
  <2>7. base[r] # Null => base[r] = SumFunctionOnSet(Worth(r), Req)
    BY <2>1, CommitDraws
  <2> QED
    BY <2>3, <2>4, <2>5, <2>6, <2>7
<1>2. [\A r \in Req : Prices(r) => Right(r)]_vars
        <=> [\A r \in Req : Prices(r) =>
              LET drawn == SumFunctionOnSet(draw[r], Req)
                  dry == \A m \in snap[r] : m \notin lots' \/ rem'[m] = 0
              IN  /\ base[r] # Null =>
                        base[r] = SumFunctionOnSet([l \in Req |-> draw[r][l] * arg[l].rate], Req)
                  /\ drawn <= EffectiveAmount(arg[r])
                  /\ drawn < EffectiveAmount(arg[r]) => dry
                  /\ base[r] = Null => dry /\ drawn = 0]_vars
  BY DEF Drawn, Worth
<1> QED
  BY <1>1, <1>2, TypeCorrect, RowLocks, LoopRight, PricingRight, PTL DEF Spec, PricedFromStock
-----------------------------------------------------------------------------
(***************************************************************************)
(* The closed formula of CostBasis.  The loop takes from each lot the share *)
(* that Share gives it; this needs lots to be totally ordered, which they   *)
(* are because no two transactions have the same stamp.                     *)
(***************************************************************************)
Begun(r) == pc[r] # "idle"

\* Every transaction that has begun has a stamp of its own, in the past.
Stamped ==
    \A r \in Req : Begun(r) =>
        /\ created[r] < clock
        /\ \A s \in Req \ {r} : Begun(s) => created[s] # created[r]

\* A transaction that begins gets a stamp no other one has.
LEMMA StampedStep == TypeOK /\ Stamped /\ [Next]_vars => Stamped'
<1> SUFFICES ASSUME TypeOK, Stamped, [Next]_vars PROVE Stamped'
  OBVIOUS
<1> USE DEF TypeOK
<1>1. ASSUME UNCHANGED <<created, clock>>, \A r \in Req : Begun(r)' => Begun(r)
      PROVE  Stamped'
  BY <1>1 DEF Stamped
<1>2. ASSUME NEW r \in Req, Begin(r) PROVE Stamped'
  <2>1. /\ created'[r] = clock /\ clock' = clock + 1
        /\ \A s \in Req \ {r} : created'[s] = created[s] /\ pc'[s] = pc[s]
    BY <1>2 DEF Begin
  <2>2. \A s \in Req : created[s] \in Nat /\ clock \in Nat
    OBVIOUS
  <2>3. ASSUME NEW q \in Req, Begun(q)'
        PROVE  /\ created'[q] < clock'
               /\ \A s \in Req \ {q} : Begun(s)' => created'[s] # created'[q]
    <3>1. CASE q = r
      BY <2>1, <2>2, <3>1 DEF Stamped, Begun
    <3>2. CASE q # r
      <4>1. pc[q] # "idle"
        BY <2>1, <2>3, <3>2 DEF Begun
      <4>2. /\ created[q] < clock
            /\ \A s \in Req \ {q} : pc[s] # "idle" => created[s] # created[q]
        BY <4>1 DEF Stamped, Begun
      <4>3. created'[q] = created[q] /\ created'[r] = clock /\ clock' = clock + 1
        BY <2>1, <3>2
      <4>4. ASSUME NEW s \in Req \ {q}, Begun(s)' PROVE created'[s] # created'[q]
        <5>1. CASE s = r
          BY <2>2, <4>2, <4>3, <5>1
        <5>2. CASE s # r
          BY <2>1, <4>2, <4>3, <4>4, <5>2 DEF Begun
        <5> QED
          BY <5>1, <5>2
      <4>5. created'[q] < clock'
        BY <2>2, <4>2, <4>3
      <4> QED
        BY <4>4, <4>5
    <3> QED
      BY <3>1, <3>2
  <2> QED
    BY <2>3 DEF Stamped
<1>3. ASSUME NEW r \in Req, Active(r), Commit(r) \/ Rollback(r) PROVE Stamped'
  <2>1. Begun(r)
    BY <1>3 DEF Active, Running, Begun
  <2>2. UNCHANGED <<created, clock>> /\ \A s \in Req \ {r} : pc'[s] = pc[s]
    BY <1>3 DEF Commit, Rollback
  <2> QED
    BY <1>1, <2>1, <2>2 DEF Begun
<1>4. ASSUME NEW r \in Req, NEW l \in Req, LockLot(r, l) \/ SkipLot(r, l) PROVE Stamped'
  BY <1>1, <1>4 DEF LockLot, SkipLot, Begun
<1>5. ASSUME NEW r \in Req, ListAvailableLots(r) \/ ListFails(r) \/ StartLoop(r) \/ EndLoop(r)
      PROVE  Stamped'
  BY <1>1, <1>5 DEF ListAvailableLots, ListFails, StartLoop, EndLoop, Begun
<1>6. ASSUME NEW t \in Req, BeginDelete(t) \/ FinishDelete(t) \/ AbortDelete(t) PROVE Stamped'
  BY <1>1, <1>6 DEF BeginDelete, FinishDelete, AbortDelete, Begun
<1>7. ASSUME NEW x \in ExpenseRows, DeleteExpense(x) PROVE Stamped'
  BY <1>1, <1>7 DEF DeleteExpense, Begun
<1>8. CASE UNCHANGED vars
  BY <1>1, <1>8 DEF vars, Begun
<1>9. ASSUME NEW r \in Req, Commit(r) \/ InsertFails(r) \/ Fail(r) PROVE Stamped'
  <2>1. Active(r) /\ (Commit(r) \/ Rollback(r))
    BY <1>9 DEF Commit, InsertFails, Fail, Active, Running
  <2> QED
    BY <1>3, <2>1
<1>10. ASSUME NEW r \in Req, NEW l \in Req, NEW w \in BOOLEAN, Consume(r, l, w) PROVE Stamped'
  BY <1>1, <1>10 DEF Consume, Begun
<1>11. \A r \in Req : poisoned[r] \in BOOLEAN
  OBVIOUS
<1> QED
  BY <1>2, <1>4, <1>5, <1>6, <1>7, <1>8, <1>9, <1>10, <1>11 DEF Next, Advance, Quiescent

\* Transactions are stamped apart.
LEMMA StampsDiffer == Spec => []Stamped
<1>1. Init => Stamped
  BY DEF Init, Stamped, Begun
<1> QED
  BY <1>1, StampedStep, TypeCorrect, PTL DEF Spec

\* Of two lots fetched, one is before the other.
LEMMA FetchedOrdered ==
    ASSUME TypeOK, LockingInv, PricingInv, Stamped, NEW r \in Req, Active(r),
           NEW l \in Fetched(r), NEW m \in Fetched(r), l # m
    PROVE  Before(l, m) \/ Before(m, l)
<1> USE DEF TypeOK
<1>1. l \in Req /\ m \in Req /\ l \in snap[r] /\ m \in snap[r]
  BY DEF Fetched, PricingInv, Pricing
<1>2. Begun(l) /\ Begun(m)
  BY <1>1 DEF LockingInv, SnapCommitted, Begun, Active, Running
<1>3. created[l] # created[m] /\ created[l] \in Nat /\ created[m] \in Nat
  BY <1>1, <1>2 DEF Stamped
<1>4. arg[l].date \in Nat /\ arg[m].date \in Nat
  <2>1. arg[l] \in Request /\ arg[m] \in Request
    BY <1>1
  <2> QED
    BY <2>1 DEF Request
<1>5. \A a, b \in Nat : a < b \/ b < a \/ a = b
  OBVIOUS
<1> QED
  BY <1>3, <1>4, <1>5 DEF Before, Older

\* At the commit, the amount is what is taken from the lots older than l, from l, and
\* from newer ones.
LEMMA DrawnParts ==
    ASSUME TypeOK, LockingInv, LoopInv, PricingInv, NEW r \in Req, Commit(r), NeedsLots(arg[r]),
           NEW l \in Fetched(r), NEW O \in SUBSET (Fetched(r) \ {l})
    PROVE  /\ SumFunctionOnSet(draw[r], O) \in Nat
           /\ SumFunctionOnSet(draw[r], (Fetched(r) \ {l}) \ O) \in Nat
           /\ Drawn(r) = draw[r][l] + SumFunctionOnSet(draw[r], O)
                          + SumFunctionOnSet(draw[r], (Fetched(r) \ {l}) \ O)
<1> DEFINE F == Fetched(r)
           G == F \ {l}
           d == draw[r]
<1>1. F \subseteq Req /\ l \in F /\ O \subseteq G
  BY DEF Fetched, TypeOK
<1>2. \A m \in Req : d[m] \in Nat /\ d[m] \in Int
  BY DEF TypeOK
<1>3. \A m \in Req \ F : d[m] = 0
  BY <1>2, CommitDraws
<1>4. Drawn(r) = SumFunctionOnSet(d, Req)
  BY DEF Drawn
<1> HIDE DEF d, F
<1>5. IsFiniteSet(F) /\ IsFiniteSet(Req \ F) /\ IsFiniteSet(G) /\ IsFiniteSet(O)
      /\ IsFiniteSet(G \ O)
  BY <1>1, ReqAssumption, FS_Subset
<1>6. SumFunctionOnSet(d, Req) = SumFunctionOnSet(d, F) + SumFunctionOnSet(d, Req \ F)
  BY <1>1, <1>2, ReqAssumption, SumSplit
<1>7. SumFunctionOnSet(d, Req \ F) = 0
  BY <1>3, <1>5, SumZero
<1>8. SumFunctionOnSet(d, F) = d[l] + SumFunctionOnSet(d, G)
  BY <1>1, <1>2, <1>5, SumRemove
<1>9. SumFunctionOnSet(d, G) = SumFunctionOnSet(d, O) + SumFunctionOnSet(d, G \ O)
  <2>1. \A m \in G : d[m] \in Int
    BY <1>1, <1>2
  <2> HIDE DEF G
  <2> QED
    BY <1>1, <1>5, <2>1, SumSplit
<1>10. SumFunctionOnSet(d, O) \in Nat /\ SumFunctionOnSet(d, G \ O) \in Nat
  <2>1. (\A m \in O : d[m] \in Nat) /\ (\A m \in G \ O : d[m] \in Nat)
    BY <1>1, <1>2
  <2> HIDE DEF G
  <2> QED
    BY <1>5, <2>1, SumNat
<1>11. d[l] \in Nat
  BY <1>1, <1>2
<1>12. Drawn(r) = d[l] + SumFunctionOnSet(d, O) + SumFunctionOnSet(d, G \ O)
  BY <1>4, <1>6, <1>7, <1>8, <1>9, <1>10, <1>11
<1> QED
  BY <1>10, <1>12 DEF d, F

\* CostBasis has its own copies of the operators on requests, and of the sum.
LEMMA SameSum ==
    ASSUME NEW w, NEW S
    PROVE  Atomic!SumFunctionOnSet(w, S) = SumFunctionOnSet(w, S)
BY Zenon DEF SumFunctionOnSet, FoldFunctionOnSet, MapThenFoldSet,
             Atomic!SumFunctionOnSet, Atomic!FoldFunctionOnSet, Atomic!MapThenFoldSet

\* The copies of the operators on requests are the operators.
LEMMA SameRequests ==
    ASSUME NEW q, NEW p, NEW s, NEW t
    PROVE  /\ Atomic!Older(q, s, p, t) <=> Older(q, s, p, t)
           /\ Atomic!MakesLot(q) <=> MakesLot(q)
           /\ Atomic!HasSpend(q) <=> HasSpend(q)
           /\ Atomic!NeedsLots(q) <=> NeedsLots(q)
           /\ Atomic!EffectiveAmount(q) = EffectiveAmount(q)
BY DEF Older, MakesLot, HasSpend, NeedsLots, EffectiveAmount, EffectiveCurrency, UsesCharge,
       Atomic!Older, Atomic!MakesLot, Atomic!HasSpend, Atomic!NeedsLots,
       Atomic!EffectiveAmount, Atomic!EffectiveCurrency, Atomic!UsesCharge

\* The loop has drawn from every lot what the closed formula says.
LEMMA DrawIsShare ==
    ASSUME TypeOK, LockingInv, LoopInv, PricingInv, Stamped,
           NEW r \in Req, Commit(r), NeedsLots(arg[r]), NEW l \in Req
    PROVE  Atomic!Share(EffectiveAmount(arg[r]), Fetched(r), l) = draw[r][l]
<1> DEFINE F == Fetched(r)
           O == {m \in F : Older(arg[m], created[m], arg[l], created[l])}
           N == (F \ {l}) \ O
           before == SumFunctionOnSet(rem, O)
           drawn == SumFunctionOnSet(draw[r], O)
           newer == SumFunctionOnSet(draw[r], N)
           amount == EffectiveAmount(arg[r])
           wanted == IF amount > before THEN amount - before ELSE 0
<1>1. Atomic!Share(amount, F, l) =
         IF l \notin F THEN 0 ELSE IF wanted <= rem[l] THEN wanted ELSE rem[l]
  <2>1. O = {m \in F : Atomic!Older(arg[m], created[m], arg[l], created[l])}
    BY SameRequests
  <2>2. before = Atomic!SumFunctionOnSet(rem, O)
    BY SameSum
  <2> HIDE DEF F, O, before, amount
  <2> QED
    BY Zenon, <2>1, <2>2 DEF Atomic!Share
<1>2. draw[r][l] \in Nat /\ rem[l] \in Nat /\ draw[r][l] <= rem[l]
  BY CommitTakes DEF TypeOK
<1>3. CASE l \notin F
  BY <1>1, <1>2, <1>3, CommitDraws
<1>4. CASE l \in F
  <2>1. F \subseteq Req /\ O \subseteq F \ {l} /\ N \subseteq F
    <3>1. F \subseteq Req
      BY DEF Fetched, TypeOK
    <3>2. ASSUME NEW m \in O PROVE m # l
      <4>1. arg[l].date \in Nat /\ created[l] \in Nat
        <5>1. arg[l] \in Request
          BY DEF TypeOK
        <5> QED
          BY <5>1 DEF Request, TypeOK
      <4> QED
        BY <4>1 DEF Older
    <3> QED
      BY <3>1, <3>2
  <2>2. IsFiniteSet(O) /\ IsFiniteSet(N)
    <3>1. O \subseteq Req /\ N \subseteq Req
      BY <2>1
    <3> HIDE DEF O, N
    <3> QED
      BY <3>1, ReqAssumption, FS_Subset
  <2>3. drawn \in Nat /\ newer \in Nat /\ Drawn(r) = draw[r][l] + drawn + newer
    <3>1. O \in SUBSET (Fetched(r) \ {l})
      BY <2>1
    <3> HIDE DEF O
    <3> QED
      BY <1>4, <3>1, DrawnParts
  <2>4. amount = need[r] + Drawn(r) /\ need[r] \in Nat /\ Drawn(r) \in Nat
    BY CommitDraws
  <2>5. \A m \in O : rem[m] \in Nat /\ draw[r][m] \in Nat /\ draw[r][m] <= rem[m]
    <3>1. O \subseteq Req
      BY <2>1
    <3> HIDE DEF O
    <3> QED
      BY <3>1, CommitTakes DEF TypeOK
  <2>6. before \in Nat /\ drawn <= before
    <3> DEFINE d == draw[r]
    <3>1. \A m \in O : d[m] \in Int /\ rem[m] \in Int /\ d[m] <= rem[m] /\ rem[m] \in Nat
      BY <2>5
    <3> HIDE DEF O, d
    <3>2. SumFunctionOnSet(d, O) <= SumFunctionOnSet(rem, O)
      BY <2>2, <3>1, SumMonotone
    <3>3. SumFunctionOnSet(rem, O) \in Nat
      BY <2>2, <3>1, SumNat
    <3> QED
      BY <3>2, <3>3 DEF d
  <2>7. draw[r][l] > 0 => drawn = before
    <3> SUFFICES ASSUME draw[r][l] > 0 PROVE drawn = before
      OBVIOUS
    <3> DEFINE d == draw[r]
    <3>1. DrawInOrder(r, l)
      BY DEF LoopInv, Commit, Active, Running
    <3>2. \A m \in O : d[m] = rem[m]
      BY <3>1, CommitTakes DEF DrawInOrder, Before
    <3> HIDE DEF O, d
    <3>3. SumFunctionOnSet(d, O) = SumFunctionOnSet(rem, O)
      BY <2>2, <3>2, SumSame
    <3> QED
      BY <3>3 DEF d
  <2>8. draw[r][l] < rem[l] => need[r] = 0 /\ newer = 0
    <3> SUFFICES ASSUME draw[r][l] < rem[l] PROVE need[r] = 0 /\ newer = 0
      OBVIOUS
    <3> DEFINE d == draw[r]
    <3>1. Active(r)
      BY DEF Commit, Active, Running
    <3>2. ASSUME NEW m \in N PROVE d[m] = 0
      <4>1. Before(l, m)
        <5>1. m \in F /\ m # l /\ ~Before(m, l)
          BY DEF Before
        <5> QED
          BY <1>4, <3>1, <5>1, FetchedOrdered
      <4> QED
        BY <1>4, <4>1, CommitDraws
    <3>3. need[r] = 0
      BY <1>4, CommitDraws
    <3> HIDE DEF N, d
    <3>4. SumFunctionOnSet(d, N) = 0
      BY <2>2, <3>2, SumZero
    <3> QED
      BY <3>3, <3>4 DEF d
  <2>9. IF wanted <= rem[l] THEN wanted = draw[r][l] ELSE rem[l] = draw[r][l]
    <3> HIDE DEF F, O, N, before, drawn, newer, amount
    <3>1. CASE draw[r][l] < rem[l]
      <4>1. amount = draw[r][l] + drawn
        BY <1>2, <2>3, <2>4, <2>8, <3>1
      <4>2. wanted = draw[r][l]
        BY <1>2, <2>3, <2>6, <2>7, <4>1
      <4> QED
        BY <1>2, <4>2
    <3>2. CASE draw[r][l] = rem[l]
      <4>1. CASE draw[r][l] = 0
        BY <1>2, <2>3, <2>4, <2>6, <3>2, <4>1
      <4>2. CASE draw[r][l] > 0
        BY <1>2, <2>3, <2>4, <2>6, <2>7, <3>2, <4>2
      <4> QED
        BY <1>2, <4>1, <4>2
    <3> QED
      BY <1>2, <3>1, <3>2
  <2> HIDE DEF F, wanted, amount
  <2>10. Atomic!Share(amount, F, l) = draw[r][l]
    BY <1>1, <1>4, <2>9
  <2> QED
    BY <2>10 DEF F, amount
<1> QED
  BY <1>3, <1>4
-----------------------------------------------------------------------------
(***************************************************************************)
(* LotPricing implements CostBasis, step by step: Begin opens, the start of *)
(* ListAvailableLots looks, Commit settles, a rollback gives up, and the    *)
(* deletions remove; taking locks and the loop change nothing in CostBasis. *)
(***************************************************************************)
Status == [r \in Req |-> Abstractly(r)]
Settled == [r \in Req |-> IF Committed(r) THEN base[r] ELSE Null]

\* A step of r changes r's entries alone.
LEMMA MappedStep ==
    ASSUME TypeOK, NEW r \in Req, arg' = arg,
           \A s \in Req \ {r} : /\ pc'[s] = pc[s] /\ poisoned'[s] = poisoned[s]
                               /\ snap'[s] = snap[s] /\ base'[s] = base[s]
    PROVE  /\ Status' = [Status EXCEPT ![r] = Abstractly(r)']
           /\ Settled' = [Settled EXCEPT ![r] = IF Committed(r)' THEN base'[r] ELSE Null]
<1>1. \A s \in Req \ {r} : Abstractly(s)' = Abstractly(s)
  BY DEF Abstractly, Active, Running
<1>2. \A s \in Req \ {r} : Committed(s)' = Committed(s)
  BY DEF Committed
<1>3. Status' = [Status EXCEPT ![r] = Abstractly(r)']
  BY <1>1 DEF Status
<1>4. Settled' = [Settled EXCEPT ![r] = IF Committed(r)' THEN base'[r] ELSE Null]
  BY <1>2 DEF Settled
<1> QED
  BY <1>3, <1>4

\* A step of r that CostBasis does not see.
LEMMA MappedStutter ==
    ASSUME TypeOK, NEW r \in Req, Active(r), Active(r)',
           \A s \in Req \ {r} : /\ pc'[s] = pc[s] /\ poisoned'[s] = poisoned[s]
                               /\ base'[s] = base[s],
           Abstractly(r)' = Abstractly(r),
           UNCHANGED <<tables, arg, created, clock, snap>>
    PROVE  UNCHANGED Atomic!vars
<1>1. ~Committed(r) /\ ~Committed(r)'
  BY DEF Committed, Active, Running
<1>2. /\ Status' = [Status EXCEPT ![r] = Abstractly(r)']
      /\ Settled' = [Settled EXCEPT ![r] = Null]
  BY <1>1, MappedStep
<1>3. Status' = Status
  BY <1>2 DEF Status
<1>4. Settled' = Settled
  BY <1>1, <1>2 DEF Settled
<1> QED
  BY <1>3, <1>4 DEF Status, Settled, Atomic!vars, tables

\* Begin is Open of the ledger,
LEMMA BeginOpens ==
    ASSUME TypeOK, LockingInv, PricingInv, NEW r \in Req, Begin(r)
    PROVE  Atomic!Open(r)
<1> USE DEF TypeOK
<1>1. /\ pc[r] = "idle" /\ pc'[r] = IF NeedsLots(arg[r]) THEN "list" ELSE "commit"
      /\ created' = [created EXCEPT ![r] = clock] /\ clock' = clock + 1
      /\ rem' = [rem EXCEPT ![r] = IF MakesLot(arg[r]) THEN arg[r].toAmount ELSE 0]
      /\ UNCHANGED <<transfers, lots, expenses, arg, snap, poisoned>>
      /\ \A s \in Req \ {r} : pc'[s] = pc[s] /\ base'[s] = base[s]
  BY DEF Begin, locking
<1>2. Abstractly(r) = "idle" /\ Abstractly(r)' = "open"
  BY <1>1 DEF Abstractly, Active, Running
<1>3. ~Committed(r) /\ ~Committed(r)'
  BY <1>1 DEF Committed
<1>4. Status[r] = "idle" /\ Status' = [Status EXCEPT ![r] = "open"]
  BY <1>1, <1>2, MappedStep DEF Status
<1>5. Settled' = Settled
  <2>1. Settled' = [Settled EXCEPT ![r] = Null]
    BY <1>1, <1>3, MappedStep
  <2> QED
    BY <1>3, <2>1 DEF Settled
<1> QED
  BY <1>1, <1>4, <1>5, SameRequests DEF Atomic!Open, Status, Settled

\* ListAvailableLots is its Look,
LEMMA ListLooks ==
    ASSUME TypeOK, LockingInv, PricingInv, NEW r \in Req, ListAvailableLots(r)
    PROVE  Atomic!Look(r)
<1> USE DEF TypeOK
<1>1. /\ pc[r] = "list" /\ pc'[r] = "lock"
      /\ snap' = [snap EXCEPT ![r] =
            {l \in VisibleLots(r) : arg[l].account = arg[r].account /\ rem[l] > 0}]
      /\ UNCHANGED <<transfers, lots, rem, expenses, arg, created, clock, poisoned, base>>
      /\ \A s \in Req \ {r} : pc'[s] = pc[s] /\ snap'[s] = snap[s]
  BY DEF ListAvailableLots, tables, loop
<1>2. NeedsLots(arg[r]) /\ ~poisoned[r]
  BY <1>1 DEF PricingInv, Pricing, Fresh
<1>3. Abstractly(r) = "open" /\ Abstractly(r)' = "looked"
  BY <1>1, <1>2 DEF Abstractly, Active, Running
<1>4. ~Committed(r) /\ ~Committed(r)'
  BY <1>1 DEF Committed
<1>5. Status[r] = "open" /\ Status' = [Status EXCEPT ![r] = "looked"]
  BY <1>1, <1>3, MappedStep DEF Status
<1>6. Settled' = Settled
  <2>1. Settled' = [Settled EXCEPT ![r] = Null]
    BY <1>1, <1>4, MappedStep
  <2> QED
    BY <1>4, <2>1 DEF Settled
<1>7. VisibleLots(r) = lots \cup Atomic!Own(r)
  BY SameRequests DEF VisibleLots, Atomic!Own
<1> QED
  BY <1>1, <1>2, <1>5, <1>6, <1>7, SameRequests DEF Atomic!Look, Status, Settled

\* and a rollback its GiveUp.
LEMMA RollbackGivesUp ==
    ASSUME TypeOK, NEW r \in Req, Active(r), Rollback(r)
    PROVE  Atomic!GiveUp(r)
<1> USE DEF TypeOK
<1>1. /\ pc'[r] = "failed"
      /\ rem' = IF MakesLot(arg[r]) THEN [rem EXCEPT ![r] = 0] ELSE rem
      /\ snap' = [snap EXCEPT ![r] = {}]
      /\ UNCHANGED <<transfers, lots, expenses, arg, created, clock>>
      /\ \A s \in Req \ {r} : /\ pc'[s] = pc[s] /\ snap'[s] = snap[s] /\ base'[s] = base[s]
                              /\ poisoned'[s] = poisoned[s]
  BY DEF Rollback, Release
<1>2. Abstractly(r) \in {"open", "looked"} /\ Abstractly(r)' = "failed"
  BY <1>1 DEF Abstractly, Active, Running
<1>3. ~Committed(r) /\ ~Committed(r)'
  BY <1>1 DEF Committed, Active, Running
<1>4. Status[r] \in {"open", "looked"} /\ Status' = [Status EXCEPT ![r] = "failed"]
  BY <1>1, <1>2, MappedStep DEF Status
<1>5. Settled' = Settled
  <2>1. Settled' = [Settled EXCEPT ![r] = Null]
    BY <1>1, <1>3, MappedStep
  <2> QED
    BY <1>3, <2>1 DEF Settled
<1> QED
  BY <1>1, <1>4, <1>5, SameRequests DEF Atomic!GiveUp, Status, Settled

\* Failing to list, locking, skipping and looping are invisible.
LEMMA PricingStutters ==
    ASSUME TypeOK, LockingInv, LoopInv, PricingInv, NEW r \in Req,
           \/ ListFails(r) \/ StartLoop(r) \/ EndLoop(r)
           \/ \E l \in Req : LockLot(r, l) \/ SkipLot(r, l)
           \/ \E l \in Req, w \in BOOLEAN : Consume(r, l, w)
    PROVE  UNCHANGED Atomic!vars
<1> USE DEF TypeOK, Active, Running
<1>1. CASE ListFails(r)
  <2>1. snap[r] = {}
    BY <1>1 DEF ListFails, LockingInv, OnlyActiveHold, Holding
  <2>2. Abstractly(r)' = Abstractly(r)
    BY <1>1, <2>1 DEF ListFails, locking, Abstractly
  <2>3. \A s \in Req \ {r} : pc'[s] = pc[s] /\ poisoned'[s] = poisoned[s] /\ base'[s] = base[s]
    BY <1>1 DEF ListFails, loop
  <2> QED
    BY <1>1, <2>2, <2>3, MappedStutter DEF ListFails, locking
<1>2. CASE StartLoop(r)
  <2>1. Abstractly(r)' = Abstractly(r)
    BY <1>2 DEF StartLoop, locking, Abstractly
  <2>2. \A s \in Req \ {r} : pc'[s] = pc[s] /\ poisoned'[s] = poisoned[s] /\ base'[s] = base[s]
    BY <1>2 DEF StartLoop
  <2> QED
    BY <1>2, <2>1, <2>2, MappedStutter DEF StartLoop, locking
<1>3. CASE EndLoop(r)
  <2>1. Abstractly(r)' = Abstractly(r)
    BY <1>3 DEF EndLoop, locking, Abstractly
  <2>2. \A s \in Req \ {r} : pc'[s] = pc[s] /\ poisoned'[s] = poisoned[s] /\ base'[s] = base[s]
    BY <1>3 DEF EndLoop, loop
  <2> QED
    BY <1>3, <2>1, <2>2, MappedStutter DEF EndLoop, locking
<1>4. ASSUME NEW l \in Req, LockLot(r, l) \/ SkipLot(r, l) PROVE UNCHANGED Atomic!vars
  <2>1. UNCHANGED <<tables, arg, pc, created, clock, snap, base, poisoned>> /\ pc[r] = "lock"
    BY <1>4 DEF LockLot, SkipLot, loop
  <2>2. Abstractly(r)' = Abstractly(r)
    BY <2>1 DEF Abstractly
  <2> QED
    BY <2>1, <2>2, MappedStutter
<1>5. ASSUME NEW l \in Req, NEW w \in BOOLEAN, Consume(r, l, w) PROVE UNCHANGED Atomic!vars
  <2>1. /\ UNCHANGED <<tables, arg, pc, created, clock, snap>> /\ pc[r] = "spend"
        /\ \A s \in Req \ {r} : base'[s] = base[s] /\ poisoned'[s] = poisoned[s]
    BY <1>5 DEF Consume, locking
  <2>2. snap[r] # {}
    BY <2>1 DEF PricingInv, Pricing, Ended, Fetched
  <2>3. Abstractly(r)' = Abstractly(r)
    BY <2>1, <2>2 DEF Abstractly
  <2> QED
    BY <2>1, <2>3, MappedStutter
<1> QED
  BY <1>1, <1>2, <1>3, <1>4, <1>5

\* A commit settles: what it drew, wrote and priced is what the closed formula says.
LEMMA CommitSettles ==
    ASSUME TypeOK, LockingInv, LoopInv, PricingInv, Stamped, NEW r \in Req, Commit(r)
    PROVE  Atomic!Settle(r)
<1> USE DEF TypeOK
<1> DEFINE amount == Atomic!EffectiveAmount(arg[r])
           stocked == {l \in snap[r] \cap (lots \cup Atomic!Own(r)) : rem[l] > 0}
           share == [l \in Req |-> IF Atomic!NeedsLots(arg[r])
                                    THEN Atomic!Share(amount, stocked, l) ELSE 0]
           worth == [l \in Req |-> share[l] * arg[l].rate]
           price == IF ~Atomic!HasSpend(arg[r]) THEN Null
                    ELSE IF ~Atomic!NeedsLots(arg[r]) THEN amount
                    ELSE IF stocked = {} THEN Null
                    ELSE Atomic!SumFunctionOnSet(worth, Req)
<1>0. /\ Atomic!NeedsLots(arg[r]) <=> NeedsLots(arg[r])
      /\ Atomic!HasSpend(arg[r]) <=> HasSpend(arg[r])
      /\ Atomic!MakesLot(arg[r]) <=> MakesLot(arg[r])
      /\ amount = EffectiveAmount(arg[r])
  BY SameRequests
<1>1. /\ pc[r] = "commit" /\ pc'[r] = "ok" /\ ~poisoned[r] /\ Active(r)
      /\ expenses' = expenses \cup NewExpenses(r)
      /\ transfers' = IF arg[r].kind = "transfer" THEN transfers \cup {r} ELSE transfers
      /\ lots' = VisibleLots(r)
      /\ snap' = [snap EXCEPT ![r] = {}]
      /\ UNCHANGED <<arg, created, clock, base>>
      /\ \A s \in Req \ {r} : /\ pc'[s] = pc[s] /\ snap'[s] = snap[s] /\ base'[s] = base[s]
                              /\ poisoned'[s] = poisoned[s]
  BY DEF Commit, Doomed, Release, Active, Running
<1>2. VisibleLots(r) = lots \cup Atomic!Own(r)
  BY SameRequests DEF VisibleLots, Atomic!Own
<1>3. stocked = Fetched(r)
  BY <1>2, CommitTakes
<1>4. \A l \in Req : share[l] = draw[r][l]
  <2>1. CASE NeedsLots(arg[r])
    BY <1>0, <1>3, <2>1, DrawIsShare
  <2>2. CASE ~NeedsLots(arg[r])
    BY <1>0, <1>1, <2>2 DEF PricingInv, Pricing, Direct
  <2> QED
    BY <2>1, <2>2
<1>5. rem' = [l \in Req |-> rem[l] - share[l]]
  <2>1. \A l \in Req : rem'[l] = rem[l] - draw[r][l]
    BY CommitTakes
  <2>2. rem' = [l \in Req |-> rem'[l]]
    BY DEF Commit
  <2> HIDE DEF share
  <2> QED
    BY <1>4, <2>1, <2>2
<1>6. worth = Worth(r)
  <2> HIDE DEF share
  <2> QED
    BY <1>4 DEF Worth
<1>7. base[r] = price
  <2>1. CASE NeedsLots(arg[r])
    <3>1. HasSpend(arg[r])
      BY <2>1 DEF NeedsLots
    <3> HIDE DEF worth, stocked
    <3> QED
      BY <1>0, <1>3, <1>6, <2>1, <3>1, CommitDraws, SameSum
  <2>2. CASE ~NeedsLots(arg[r])
    BY <1>0, <1>1, <2>2 DEF PricingInv, Pricing, Direct
  <2> QED
    BY <2>1, <2>2
<1>8. /\ Status[r] = IF Atomic!NeedsLots(arg[r]) THEN "looked" ELSE "open"
      /\ Abstractly(r)' = "ok"
  BY <1>0, <1>1 DEF Status, Abstractly, Active, Running
<1>9. Status' = [Status EXCEPT ![r] = "ok"] /\ Settled' = [Settled EXCEPT ![r] = price]
  <2>1. Committed(r)'
    BY <1>1 DEF Committed
  <2> HIDE DEF price
  <2> QED
    BY <1>1, <1>7, <1>8, <2>1, MappedStep
<1>10. expenses' = expenses
              \cup (IF Atomic!HasSpend(arg[r]) THEN {<<r, "spend">>} ELSE {})
              \cup (IF arg[r].kind = "transfer" /\ arg[r].sourceFee
                    THEN {<<r, "source">>} ELSE {})
  BY <1>0, <1>1 DEF NewExpenses
<1> QED
  BY <1>1, <1>2, <1>5, <1>8, <1>9, <1>10 DEF Atomic!Settle, Status, Settled

\* The deletions are the same in both.
LEMMA DeletesRemove ==
    ASSUME TypeOK, PricingInv
    PROVE  /\ \A t \in Req : FinishDelete(t) => Atomic!RemoveTransfer(t)
           /\ \A t \in Req : BeginDelete(t) \/ AbortDelete(t) => UNCHANGED Atomic!vars
           /\ \A x \in ExpenseRows : DeleteExpense(x) => Atomic!RemoveExpense(x)
           /\ UNCHANGED vars => UNCHANGED Atomic!vars
<1>1. ASSUME UNCHANGED <<arg, pc, poisoned, snap, base>>
      PROVE  Status' = Status /\ Settled' = Settled
  BY <1>1 DEF Status, Settled, Abstractly, Committed, Active
<1>2. ASSUME NEW t \in Req, FinishDelete(t) PROVE Atomic!RemoveTransfer(t)
  <2>1. t \in transfers
    BY <1>2 DEF FinishDelete, PricingInv
  <2> QED
    BY <1>1, <1>2, <2>1
    DEF FinishDelete, CascadedLot, locking, loop, Atomic!RemoveTransfer, Status, Settled
<1>3. ASSUME NEW t \in Req, BeginDelete(t) \/ AbortDelete(t) PROVE UNCHANGED Atomic!vars
  BY <1>1, <1>3 DEF BeginDelete, AbortDelete, tables, locking, loop, Atomic!vars, Status, Settled
<1>4. ASSUME NEW x \in ExpenseRows, DeleteExpense(x) PROVE Atomic!RemoveExpense(x)
  BY <1>1, <1>4 DEF DeleteExpense, locking, loop, Atomic!RemoveExpense, Status, Settled
<1>5. ASSUME UNCHANGED vars PROVE UNCHANGED Atomic!vars
  BY <1>1, <1>5 DEF vars, tables, locking, loop, Atomic!vars, Status, Settled
<1> QED
  BY <1>2, <1>3, <1>4, <1>5

\* Nothing has begun: the ledger is as at its start.
LEMMA MappedInit == Init => Atomic!Init
<1> SUFFICES ASSUME Init PROVE Atomic!Init
  OBVIOUS
<1>1. Status = [r \in Req |-> "idle"] /\ Settled = [r \in Req |-> Null]
  BY DEF Init, Status, Settled, Abstractly, Committed, Active, Running
<1> QED
  BY <1>1 DEF Init, Atomic!Init, Nothing, Status, Settled

\* Every step is a step of the ledger, or leaves it alone.
LEMMA MappedNext ==
    TypeOK /\ LockingInv /\ LoopInv /\ PricingInv /\ Stamped /\ [Next]_vars
      => [Atomic!Next]_(Atomic!vars)
<1> SUFFICES ASSUME TypeOK, LockingInv, LoopInv, PricingInv, Stamped, [Next]_vars
             PROVE  Atomic!Next \/ UNCHANGED Atomic!vars
  OBVIOUS
<1>1. ASSUME NEW r \in Req, Begin(r) PROVE Atomic!Next
  BY <1>1, BeginOpens DEF Atomic!Next
<1>2. ASSUME NEW r \in Req, ListAvailableLots(r) PROVE Atomic!Next
  BY <1>2, ListLooks DEF Atomic!Next
<1>3. ASSUME NEW r \in Req, Commit(r) PROVE Atomic!Next
  BY <1>3, CommitSettles DEF Atomic!Next
<1>4. ASSUME NEW r \in Req, InsertFails(r) \/ Fail(r) PROVE Atomic!Next
  <2>1. Active(r) /\ Rollback(r)
    BY <1>4 DEF InsertFails, Fail, Active, Running
  <2> QED
    BY <2>1, RollbackGivesUp DEF Atomic!Next
<1>5. ASSUME NEW t \in Req, FinishDelete(t) PROVE Atomic!Next
  BY <1>5, DeletesRemove DEF Atomic!Next
<1>6. ASSUME NEW x \in ExpenseRows, DeleteExpense(x) PROVE Atomic!Next
  BY <1>6, DeletesRemove DEF Atomic!Next, ExpenseRows
<1>7. ASSUME NEW t \in Req, BeginDelete(t) \/ AbortDelete(t) PROVE UNCHANGED Atomic!vars
  BY <1>7, DeletesRemove
<1>8. CASE UNCHANGED vars
  BY <1>8, DeletesRemove
<1>9. ASSUME NEW r \in Req, ListFails(r) \/ StartLoop(r) \/ EndLoop(r)
      PROVE  UNCHANGED Atomic!vars
  BY <1>9, PricingStutters
<1>10. ASSUME NEW r \in Req, NEW l \in Req, LockLot(r, l) \/ SkipLot(r, l)
       PROVE  UNCHANGED Atomic!vars
  BY <1>10, PricingStutters
<1>11. ASSUME NEW r \in Req, NEW l \in Req, NEW w \in BOOLEAN, Consume(r, l, w)
       PROVE  UNCHANGED Atomic!vars
  BY <1>11, PricingStutters
<1>12. \A r \in Req : poisoned[r] \in BOOLEAN
  BY DEF TypeOK
<1> QED
  BY <1>1, <1>2, <1>3, <1>4, <1>5, <1>6, <1>7, <1>8, <1>9, <1>10, <1>11, <1>12
  DEF Next, Advance, Quiescent

\* Concurrent requests price their amounts as if each had done so in one atomic step,
\* oldest lot first, at the moment of its commit.
THEOREM AtomicPricing == Spec => ImplementsCostBasis
<1>1. Spec => Atomic!Spec
  BY MappedInit, MappedNext, TypeCorrect, RowLocks, LoopRight, PricingRight, StampsDiffer,
     PTL DEF Spec, Atomic!Spec
<1> QED
  BY <1>1 DEF ImplementsCostBasis
=============================================================================
