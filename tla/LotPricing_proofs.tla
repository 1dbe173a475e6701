------------------------- MODULE LotPricing_proofs --------------------------
(***************************************************************************)
(* Proofs about LotPricing, for every set of requests, whatever they ask    *)
(* for, and every pool size.                                               *)
(***************************************************************************)
EXTENDS LotPricing, TLAPS

\* Every message a request can carry is a well-formed request.
LEMMA ArgIsRequest == Init => arg \in [Req -> Request]
BY CmdsAssumption DEF Init

\* An amount that is to be priced is a number.
LEMMA AmountIsNat ==
    ASSUME NEW q \in Request, HasSpend(q)
    PROVE  EffectiveAmount(q) \in Nat
BY DEF Request, HasSpend, EffectiveAmount, UsesCharge

\* The columns of a request that the arithmetic of the loop uses are numbers.
LEMMA ColumnsAreNat ==
    ASSUME NEW q \in Request
    PROVE  q.rate \in Nat /\ q.toAmount \in Nat
BY DEF Request

\* The smaller of two amounts is an amount, and is within both.
LEMMA MinIsNat ==
    ASSUME NEW a \in Nat, NEW b \in Nat
    PROVE  MinOf(a, b) \in Nat /\ MinOf(a, b) <= a /\ MinOf(a, b) <= b
BY DEF MinOf
-----------------------------------------------------------------------------
(***************************************************************************)
(* Type correctness.  It needs two facts of LockingInv: a transaction wrote *)
(* only what leaves a lot non-negative, and the base total is a number once *)
(* the loop runs.                                                          *)
(***************************************************************************)
LEMMA TypeInit == Init => TypeOK
<1> SUFFICES ASSUME Init PROVE TypeOK
  OBVIOUS
<1>1. arg \in [Req -> Request]
  BY ArgIsRequest
<1> QED
  BY <1>1 DEF Init, TypeOK, PCs, Running, Nothing, ExpenseRows

\* Every step keeps the state well-typed.
LEMMA TypeStep == TypeOK /\ LockingInv /\ [Next]_vars => TypeOK'
<1> SUFFICES ASSUME TypeOK, LockingInv, [Next]_vars PROVE TypeOK'
  OBVIOUS
<1> USE DEF TypeOK, Running, PCs
<1>1. ASSUME NEW r \in Req, Begin(r) PROVE TypeOK'
  <2>1. arg[r] \in Request
    OBVIOUS
  <2>2. NeedsLots(arg[r]) => EffectiveAmount(arg[r]) \in Nat
    BY <2>1, AmountIsNat DEF NeedsLots
  <2>3. HasSpend(arg[r]) => EffectiveAmount(arg[r]) \in Nat
    BY <2>1, AmountIsNat
  <2>4. arg[r].toAmount \in Nat
    BY <2>1, ColumnsAreNat
  <2>5. need' \in [Req -> Nat]
    BY <1>1, <2>2 DEF Begin
  <2>6. base' \in [Req -> Nat \cup {Null}]
    BY <1>1, <2>3 DEF Begin
  <2>7. rem' \in [Req -> Nat]
    BY <1>1, <2>4 DEF Begin
  <2> QED
    BY <1>1, <2>5, <2>6, <2>7 DEF Begin, locking
<1>2. ASSUME NEW r \in Req, ListAvailableLots(r) PROVE TypeOK'
  BY <1>2 DEF ListAvailableLots, VisibleLots, tables, loop
<1>3. ASSUME NEW r \in Req, ListFails(r) PROVE TypeOK'
  BY <1>3 DEF ListFails, tables, loop, locking
<1>4. ASSUME NEW r \in Req, NEW l \in Req, LockLot(r, l) PROVE TypeOK'
  <2>1. seen' \in [Req -> [Req -> Nat]]
    BY <1>4 DEF LockLot
  <2> QED
    BY <1>4, <2>1 DEF LockLot, tables, loop
<1>5. ASSUME NEW r \in Req, NEW l \in Req, SkipLot(r, l) PROVE TypeOK'
  BY <1>5 DEF SkipLot, tables, loop
<1>6. ASSUME NEW r \in Req, StartLoop(r) PROVE TypeOK'
  BY <1>6 DEF StartLoop, tables, locking
<1>7. ASSUME NEW r \in Req, NEW l \in Req, NEW w \in BOOLEAN, Consume(r, l, w) PROVE TypeOK'
  <2> DEFINE consume == MinOf(need[r], seen[r][l])
  <2>1. consume \in Nat /\ need[r] - consume \in Nat
    <3>1. need[r] \in Nat /\ seen[r][l] \in Nat
      OBVIOUS
    <3>2. consume \in Nat /\ consume <= need[r]
      BY <3>1, MinIsNat
    <3> HIDE DEF consume
    <3> QED
      BY <3>1, <3>2
  <2>2. base[r] \in Nat
    BY <1>7 DEF Consume, LockingInv, BaseStarted
  <2>3. arg[l].rate \in Nat
    BY ColumnsAreNat
  <2> HIDE DEF consume
  <2>4. base[r] + consume * arg[l].rate \in Nat
    <3>1. consume * arg[l].rate \in Nat
      BY <2>1, <2>3
    <3> QED
      BY <2>2, <3>1
  <2>5. /\ need' = [need EXCEPT ![r] = @ - consume]
        /\ draw' = [draw EXCEPT ![r] = [@ EXCEPT ![l] = consume]]
        /\ base' = [base EXCEPT ![r] = @ + consume * arg[l].rate]
    BY <1>7 DEF Consume, consume
  <2>6. need' \in [Req -> Nat]
    BY <2>1, <2>5
  <2>7. draw' \in [Req -> [Req -> Nat]]
    BY <2>1, <2>5
  <2>8. base' \in [Req -> Nat \cup {Null}]
    BY <2>4, <2>5
  <2>9. wrote' \in [Req -> SUBSET Req] /\ poisoned' \in [Req -> BOOLEAN]
    BY <1>7 DEF Consume
  <2> QED
    BY <1>7, <2>6, <2>7, <2>8, <2>9 DEF Consume, tables, locking
<1>8. ASSUME NEW r \in Req, EndLoop(r) PROVE TypeOK'
  BY <1>8 DEF EndLoop, tables, locking, loop
<1>9. ASSUME NEW r \in Req, Commit(r) PROVE TypeOK'
  <2>1. rem' \in [Req -> Nat]
    <3>1. \A l \in wrote[r] : seen[r][l] - draw[r][l] \in Nat
      BY DEF LockingInv, WritesLocked
    <3> QED
      BY <1>9, <3>1 DEF Commit
  <2>2. expenses' \subseteq ExpenseRows
    BY <1>9 DEF Commit, NewExpenses, ExpenseRows
  <2>3. lots' \subseteq Req /\ transfers' \subseteq Req
    BY <1>9 DEF Commit, VisibleLots
  <2> QED
    BY <1>9, <2>1, <2>2, <2>3 DEF Commit, Release, Nothing
<1>10. ASSUME NEW r \in Req, Rollback(r) PROVE TypeOK'
  BY <1>10 DEF Rollback, Release, Nothing
<1>11. ASSUME NEW t \in Req, BeginDelete(t) PROVE TypeOK'
  BY <1>11 DEF BeginDelete, tables, locking, loop
<1>12. ASSUME NEW t \in Req, FinishDelete(t) PROVE TypeOK'
  BY <1>12 DEF FinishDelete, locking, loop
<1>13. ASSUME NEW t \in Req, AbortDelete(t) PROVE TypeOK'
  BY <1>13 DEF AbortDelete, tables, locking, loop
<1>14. ASSUME NEW x \in ExpenseRows, DeleteExpense(x) PROVE TypeOK'
  BY <1>14 DEF DeleteExpense, locking, loop
<1>15. CASE UNCHANGED vars
  BY <1>15 DEF vars, tables, locking, loop
<1> QED
  <2>1. \A r \in Req : poisoned[r] \in BOOLEAN
    OBVIOUS
  <2> QED
    BY <1>1, <1>2, <1>3, <1>4, <1>5, <1>6, <1>7, <1>8, <1>9, <1>10, <1>11, <1>12,
       <1>13, <1>14, <1>15, <2>1
    DEF Next, Advance, InsertFails, Fail, Quiescent
-----------------------------------------------------------------------------
(***************************************************************************)
(* The row locks.  An action that touches nothing LockingInv speaks of is   *)
(* dealt with by one lemma; the others take one step each.                  *)
(***************************************************************************)
LEMMA LockingInit == Init => LockingInv
<1> SUFFICES ASSUME Init PROVE LockingInv
  OBVIOUS
<1> QED
  BY DEF Init, LockingInv, LocksExclusive, OnlyActiveHold, LotsCommitted, WritesLocked,
         SnapCommitted, BaseStarted, NoLostUpdate

\* Locks, snapshots and what was written under a lock are left alone, no lot
\* appears, none that is locked disappears or changes, and requests do not
\* leave the states the invariant ties them to.
LEMMA LockingKept ==
    ASSUME TypeOK, LockingInv,
           UNCHANGED <<held, seen, snap, todo, draw, wrote, arg>>,
           lots' \subseteq lots,
           \A r \in Req : held[r] \cap lots \subseteq lots',
           \A r \in Req : \A l \in held[r] : rem'[l] = rem[l],
           \A r \in Req : pc[r] = "ok" <=> pc'[r] = "ok",
           \A r \in Req : pc[r] \in Holding => pc'[r] \in Holding,
           \A r \in Req : pc'[r] = "spend" => base'[r] \in Nat
    PROVE  LockingInv'
<1> USE DEF TypeOK
<1>1. LocksExclusive'
  BY DEF LockingInv, LocksExclusive
<1>2. OnlyActiveHold'
  BY DEF LockingInv, OnlyActiveHold, Holding
<1>3. LotsCommitted'
  BY DEF LockingInv, LotsCommitted
<1>4. WritesLocked'
  BY DEF LockingInv, WritesLocked
<1>5. SnapCommitted'
  BY DEF LockingInv, SnapCommitted
<1>6. NoLostUpdate'
  BY DEF LockingInv, NoLostUpdate, VisibleLots
<1> QED
  BY <1>1, <1>2, <1>3, <1>4, <1>5, <1>6 DEF LockingInv, BaseStarted

\* A transaction that ends gives up its locks and its snapshot; what the others
\* have locked is still there, as they read it.
LEMMA LockingReleased ==
    ASSUME TypeOK, LockingInv,
           NEW r \in Req, Active(r),
           Release(r),
           UNCHANGED arg,
           NEW status \in {"ok", "failed"}, pc' = [pc EXCEPT ![r] = status],
           lots \subseteq lots', lots' \subseteq VisibleLots(r),
           r \in lots' => status = "ok",
           \A s \in Req \ {r} : draw'[s] = draw[s] /\ base'[s] = base[s],
           \A s \in Req \ {r} : \A l \in held[s] : rem'[l] = rem[l]
    PROVE  LockingInv'
<1> USE DEF TypeOK, Release
<1>1. pc[r] # "ok" /\ r \notin lots
  BY DEF Active, Running, LockingInv, LotsCommitted
<1>2. held'[r] = {} /\ wrote'[r] = {} /\ snap'[r] = {} /\ todo'[r] = {}
  OBVIOUS
<1>3. \A s \in Req \ {r} : /\ held'[s] = held[s] /\ wrote'[s] = wrote[s]
                           /\ snap'[s] = snap[s] /\ todo'[s] = todo[s]
                           /\ seen'[s] = seen[s] /\ pc'[s] = pc[s]
  OBVIOUS
<1>4. pc'[r] = status /\ status \notin Running \cup Holding
  BY DEF Running, Holding
<1>5. LocksExclusive'
  BY <1>2, <1>3 DEF LockingInv, LocksExclusive
<1>6. OnlyActiveHold'
  BY <1>2, <1>3 DEF LockingInv, OnlyActiveHold, Holding, Active
<1>7. LotsCommitted'
  BY <1>3, <1>4 DEF LockingInv, LotsCommitted, VisibleLots
<1>8. WritesLocked'
  BY <1>2, <1>3 DEF LockingInv, WritesLocked
<1>9. SnapCommitted'
  BY <1>1, <1>2, <1>3 DEF LockingInv, SnapCommitted
<1>10. BaseStarted'
  BY <1>3, <1>4 DEF LockingInv, BaseStarted, Running
<1>11. NoLostUpdate'
  BY <1>2, <1>3 DEF LockingInv, NoLostUpdate, VisibleLots
<1> QED
  BY <1>5, <1>6, <1>7, <1>8, <1>9, <1>10, <1>11 DEF LockingInv

\* A transaction begins with no lock,
LEMMA BeginLocking ==
    ASSUME TypeOK, LockingInv, NEW r \in Req, Begin(r)
    PROVE  LockingInv'
<1> USE DEF TypeOK, Begin, locking
<1>1. \A s \in Req : r \notin held[s]
  <2> SUFFICES ASSUME NEW s \in Req, r \in held[s] PROVE FALSE
    OBVIOUS
  <2>1. r \in lots \/ s = r
    BY DEF LockingInv, NoLostUpdate, VisibleLots
  <2>2. r \notin lots
    BY DEF LockingInv, LotsCommitted
  <2>3. held[r] = {}
    BY DEF LockingInv, OnlyActiveHold, Holding, Active, Running
  <2> QED
    BY <2>1, <2>2, <2>3
<1>2. \A s \in Req : \A l \in held[s] : rem'[l] = rem[l]
  BY <1>1
<1>3. \A s \in Req : pc[s] = "ok" <=> pc'[s] = "ok"
  OBVIOUS
<1>4. \A s \in Req : pc[s] \in Holding => pc'[s] \in Holding
  BY DEF Holding
<1>5. \A s \in Req : pc'[s] = "spend" => base'[s] \in Nat
  BY DEF LockingInv, BaseStarted
<1> QED
  BY <1>2, <1>3, <1>4, <1>5, LockingKept

\* and with none after listing the lots,
LEMMA ListLocking ==
    ASSUME TypeOK, LockingInv, NEW r \in Req, ListAvailableLots(r)
    PROVE  LockingInv'
<1> USE DEF TypeOK, ListAvailableLots, tables, loop
<1>1. LocksExclusive'
  BY DEF LockingInv, LocksExclusive
<1>2. OnlyActiveHold'
  BY DEF LockingInv, OnlyActiveHold, Holding, Active, Running
<1>3. LotsCommitted'
  BY DEF LockingInv, LotsCommitted
<1>4. WritesLocked'
  BY DEF LockingInv, WritesLocked
<1>5. SnapCommitted'
  BY DEF LockingInv, SnapCommitted, LotsCommitted, VisibleLots
<1>6. BaseStarted'
  BY DEF LockingInv, BaseStarted
<1>7. NoLostUpdate'
  BY DEF LockingInv, NoLostUpdate, VisibleLots
<1> QED
  BY <1>1, <1>2, <1>3, <1>4, <1>5, <1>6, <1>7 DEF LockingInv

\* The one step that takes a lock: it is free, and the row is read under it.
LEMMA LockLotLocking ==
    ASSUME TypeOK, LockingInv, NEW r \in Req, NEW l \in Req, LockLot(r, l)
    PROVE  LockingInv'
<1> USE DEF TypeOK, LockLot, tables, loop
<1>1. LocksExclusive'
  BY DEF LockingInv, LocksExclusive, LockedByOther
<1>2. OnlyActiveHold'
  BY DEF LockingInv, OnlyActiveHold, Holding, Active, Running
<1>3. LotsCommitted'
  BY DEF LockingInv, LotsCommitted
<1>4. WritesLocked'
  <2>1. l \in held[r] => seen[r][l] = rem[l]
    BY DEF LockingInv, NoLostUpdate
  <2> QED
    BY <2>1 DEF LockingInv, WritesLocked
<1>5. SnapCommitted'
  BY DEF LockingInv, SnapCommitted
<1>6. BaseStarted'
  BY DEF LockingInv, BaseStarted
<1>7. NoLostUpdate'
  BY DEF LockingInv, NoLostUpdate, VisibleLots
<1> QED
  BY <1>1, <1>2, <1>3, <1>4, <1>5, <1>6, <1>7 DEF LockingInv

\* starts the loop with those of the lots it fetched,
LEMMA StartLoopLocking ==
    ASSUME TypeOK, LockingInv, NEW r \in Req, StartLoop(r)
    PROVE  LockingInv'
<1> USE DEF TypeOK, StartLoop, tables, locking
<1>1. \A s \in Req : pc[s] = "ok" <=> pc'[s] = "ok"
  OBVIOUS
<1>2. \A s \in Req : pc[s] \in Holding => pc'[s] \in Holding
  BY DEF Holding
<1>3. \A s \in Req : pc'[s] = "spend" => base'[s] \in Nat
  BY DEF LockingInv, BaseStarted
<1> QED
  BY <1>1, <1>2, <1>3, LockingKept

\* The loop draws from a lot it has locked no more than it read.
LEMMA ConsumeLocking ==
    ASSUME TypeOK, LockingInv, NEW r \in Req, NEW l \in Req, NEW w \in BOOLEAN,
           Consume(r, l, w)
    PROVE  LockingInv'
<1> DEFINE consume == MinOf(need[r], seen[r][l])
<1>1. need[r] \in Nat /\ seen[r][l] \in Nat /\ arg[l].rate \in Nat
  BY ColumnsAreNat DEF TypeOK
<1>2. consume \in Nat /\ consume <= seen[r][l]
  BY <1>1, MinIsNat
<1>3. base[r] \in Nat
  BY DEF Consume, LockingInv, BaseStarted
<1>4. l \in held[r]
  BY DEF Consume, IsFirst, Unspent, Fetched
<1>5. /\ draw' = [draw EXCEPT ![r] = [@ EXCEPT ![l] = consume]]
      /\ base' = [base EXCEPT ![r] = @ + consume * arg[l].rate]
      /\ wrote' = IF w THEN [wrote EXCEPT ![r] = @ \cup {l}] ELSE wrote
      /\ UNCHANGED <<tables, arg, pc, created, clock, locking, deleting>>
  BY DEF Consume
<1> HIDE DEF consume
<1>6. base[r] + consume * arg[l].rate \in Nat
  <2>1. consume * arg[l].rate \in Nat
    BY <1>1, <1>2
  <2> QED
    BY <1>3, <2>1
<1> USE <1>5 DEF TypeOK, tables, locking
<1>7. LocksExclusive'
  BY DEF LockingInv, LocksExclusive
<1>8. OnlyActiveHold'
  BY DEF LockingInv, OnlyActiveHold, Holding, Active, Running, Consume
<1>9. LotsCommitted'
  BY DEF LockingInv, LotsCommitted
<1>10. WritesLocked'
  BY <1>2, <1>4 DEF LockingInv, WritesLocked
<1>11. SnapCommitted'
  BY DEF LockingInv, SnapCommitted
<1>12. BaseStarted'
  BY <1>6 DEF LockingInv, BaseStarted
<1>13. NoLostUpdate'
  BY DEF LockingInv, NoLostUpdate, VisibleLots
<1> QED
  BY <1>7, <1>8, <1>9, <1>10, <1>11, <1>12, <1>13 DEF LockingInv

\* and its commit,
LEMMA CommitLocking ==
    ASSUME TypeOK, LockingInv, NEW r \in Req, Commit(r)
    PROVE  LockingInv'
<1> USE DEF TypeOK, Commit
<1>1. \A s \in Req \ {r} : \A l \in held[s] : rem'[l] = rem[l]
  <2>1. \A s \in Req \ {r} : \A l \in held[s] : l \notin wrote[r]
    BY DEF LockingInv, LocksExclusive, WritesLocked
  <2> QED
    BY <2>1
<1>2. Active(r) /\ Release(r) /\ UNCHANGED <<arg, draw, base>>
  BY DEF Active, Running
<1>3. lots \subseteq lots' /\ lots' \subseteq VisibleLots(r)
  BY DEF VisibleLots
<1>4. pc' = [pc EXCEPT ![r] = "ok"]
  OBVIOUS
<1>5. \A s \in Req \ {r} : draw'[s] = draw[s] /\ base'[s] = base[s]
  BY <1>2
<1> QED
  BY <1>1, <1>2, <1>3, <1>4, <1>5, LockingReleased

\* or its rollback, gives them back.
LEMMA RollbackLocking ==
    ASSUME TypeOK, LockingInv, NEW r \in Req, Active(r), Rollback(r)
    PROVE  LockingInv'
<1> USE DEF TypeOK, Rollback
<1>1. r \notin lots
  BY DEF LockingInv, LotsCommitted, Active, Running
<1>2. \A s \in Req \ {r} : \A l \in held[s] : rem'[l] = rem[l]
  <2>1. \A s \in Req \ {r} : r \notin held[s]
    BY <1>1 DEF LockingInv, NoLostUpdate, VisibleLots
  <2> QED
    BY <2>1
<1>3. Release(r) /\ UNCHANGED <<arg, lots>> /\ pc' = [pc EXCEPT ![r] = "failed"]
  OBVIOUS
<1>4. \A s \in Req \ {r} : draw'[s] = draw[s] /\ base'[s] = base[s]
  OBVIOUS
<1>5. lots \subseteq lots' /\ lots' \subseteq VisibleLots(r) /\ r \notin lots'
  BY <1>1, <1>3 DEF VisibleLots
<1> QED
  BY <1>2, <1>3, <1>4, <1>5, LockingReleased

\* The invariant holds after every step.
LEMMA LockingStep == TypeOK /\ LockingInv /\ [Next]_vars => LockingInv'
<1> SUFFICES ASSUME TypeOK, LockingInv, [Next]_vars PROVE LockingInv'
  OBVIOUS
<1>1. ASSUME NEW r \in Req, ListFails(r) PROVE LockingInv'
  <2>1. \A s \in Req : pc[s] \in Holding => pc'[s] \in Holding
    BY <1>1 DEF ListFails, Holding, TypeOK
  <2>2. \A s \in Req : pc'[s] = "spend" => base'[s] \in Nat
    BY <1>1 DEF ListFails, LockingInv, BaseStarted, TypeOK, loop
  <2> QED
    BY <1>1, <2>1, <2>2, LockingKept DEF ListFails, TypeOK, tables, locking, loop
<1>2. ASSUME NEW r \in Req, NEW l \in Req, SkipLot(r, l) PROVE LockingInv'
  BY <1>2 DEF SkipLot, tables, loop, TypeOK, LockingInv, LocksExclusive, OnlyActiveHold,
              Active, LotsCommitted, WritesLocked, SnapCommitted, BaseStarted,
              NoLostUpdate, VisibleLots
<1>3. ASSUME NEW r \in Req, EndLoop(r) PROVE LockingInv'
  <2>1. \A s \in Req : pc[s] \in Holding => pc'[s] \in Holding
    BY <1>3 DEF EndLoop, Holding, TypeOK
  <2>2. \A s \in Req : pc'[s] = "spend" => base'[s] \in Nat
    BY <1>3 DEF EndLoop, LockingInv, BaseStarted, TypeOK, loop
  <2> QED
    BY <1>3, <2>1, <2>2, LockingKept DEF EndLoop, TypeOK, tables, locking, loop
<1>4. ASSUME NEW t \in Req, BeginDelete(t) \/ AbortDelete(t) PROVE LockingInv'
  BY <1>4, LockingKept
  DEF BeginDelete, AbortDelete, tables, locking, loop, LockingInv, BaseStarted
<1>5. ASSUME NEW t \in Req, FinishDelete(t) PROVE LockingInv'
  BY <1>5, LockingKept
  DEF FinishDelete, CascadedLot, locking, loop, LockingInv, BaseStarted
<1>6. ASSUME NEW x \in ExpenseRows, DeleteExpense(x) PROVE LockingInv'
  BY <1>6, LockingKept DEF DeleteExpense, locking, loop, LockingInv, BaseStarted
<1>7. CASE UNCHANGED vars
  BY <1>7, LockingKept DEF vars, tables, locking, loop, LockingInv, BaseStarted
<1>8. ASSUME NEW r \in Req, InsertFails(r) \/ Fail(r) PROVE LockingInv'
  BY <1>8, RollbackLocking DEF InsertFails, Fail, Active, Running
<1>9. \A r \in Req : poisoned[r] \in BOOLEAN
  BY DEF TypeOK
<1> QED
  BY <1>1, <1>2, <1>3, <1>4, <1>5, <1>6, <1>7, <1>8, <1>9, BeginLocking, ListLocking,
     LockLotLocking, StartLoopLocking, ConsumeLocking, CommitLocking
  DEF Next, Advance, Quiescent
-----------------------------------------------------------------------------
\* The variables keep their types: no lot goes negative, whatever overlaps.
THEOREM TypeCorrect == Spec => []TypeOK
<1>1. Init => TypeOK /\ LockingInv
  BY TypeInit, LockingInit
<1>2. TypeOK /\ LockingInv /\ [Next]_vars => (TypeOK /\ LockingInv)'
  BY TypeStep, LockingStep
<1> QED
  BY <1>1, <1>2, PTL DEF Spec

\* The row locks of FOR UPDATE do what computeBaseAmount relies on.
THEOREM RowLocks == Spec => []LockingInv
<1>1. Init => TypeOK /\ LockingInv
  BY TypeInit, LockingInit
<1>2. TypeOK /\ LockingInv /\ [Next]_vars => (TypeOK /\ LockingInv)'
  BY TypeStep, LockingStep
<1> QED
  BY <1>1, <1>2, PTL DEF Spec

\* What a request has read of a locked lot stays current until it commits.
THEOREM NothingLost == Spec => []NoLostUpdate
<1>1. LockingInv => NoLostUpdate
  BY DEF LockingInv
<1> QED
  BY <1>1, RowLocks, PTL

\* No step gives stock back to a lot.
THEOREM NeverRefilled == Spec => LotNeverRefilled
<1> DEFINE Down == \A l \in lots \cap lots' : rem'[l] <= rem[l]
<1>1. TypeOK /\ LockingInv /\ [Next]_vars => [Down]_vars
  <2> SUFFICES ASSUME TypeOK, LockingInv, [Next]_vars PROVE Down
    OBVIOUS
  <2> USE DEF TypeOK
  <2>1. ASSUME rem' = rem PROVE Down
    BY <2>1
  <2>2. ASSUME NEW r \in Req, Begin(r) PROVE Down
    <3>1. r \notin lots
      BY <2>2 DEF Begin, LockingInv, LotsCommitted
    <3> QED
      BY <2>2, <3>1 DEF Begin
  <2>3. ASSUME NEW r \in Req, Active(r), Rollback(r) PROVE Down
    <3>1. r \notin lots
      BY <2>3 DEF Active, Running, LockingInv, LotsCommitted
    <3> QED
      BY <2>3, <3>1 DEF Rollback
  <2>4. ASSUME NEW r \in Req, Commit(r) PROVE Down
    <3>1. \A l \in wrote[r] : seen[r][l] - draw[r][l] <= rem[l]
      BY DEF LockingInv, WritesLocked, NoLostUpdate
    <3> QED
      BY <2>4, <3>1 DEF Commit
  <2> QED
    BY <2>1, <2>2, <2>3, <2>4
    DEF Next, Advance, ListAvailableLots, ListFails, LockLot, SkipLot, StartLoop, Consume,
        EndLoop, InsertFails, Fail, BeginDelete, FinishDelete, AbortDelete, DeleteExpense,
        Quiescent, vars, tables, Active, Running
<1> QED
  BY <1>1, TypeCorrect, RowLocks, PTL DEF Spec, LotNeverRefilled
-----------------------------------------------------------------------------
(***************************************************************************)
(* Deadlock freedom.  Locks are taken oldest lot first, so every lock a     *)
(* request waits for is newer than all it has.  Beginning a transaction     *)
(* stamps lots nobody can see yet, so the order of those in play is fixed.  *)
(***************************************************************************)
LEMMA OrderStep ==
    TypeOK /\ LockingInv /\ LocksInOrder /\ [Next]_vars => LocksInOrder'
<1> SUFFICES ASSUME TypeOK, LockingInv, LocksInOrder, [Next]_vars PROVE LocksInOrder'
  OBVIOUS
<1> USE DEF TypeOK
<1>1. ASSUME UNCHANGED <<arg, created>>,
             \A r \in Req : held'[r] \subseteq held[r] /\ todo'[r] \subseteq todo[r]
      PROVE  LocksInOrder'
  BY <1>1 DEF LocksInOrder, Before
<1>2. ASSUME NEW r \in Req, Begin(r) PROVE LocksInOrder'
  <2>1. r \notin lots /\ held[r] = {} /\ snap[r] = {} /\ pc[r] # "ok"
    BY <1>2 DEF Begin, LockingInv, LotsCommitted, OnlyActiveHold, Holding, Active, Running
  <2>2. \A s \in Req : r \notin held[s] /\ r \notin todo[s]
    BY <2>1 DEF LockingInv, NoLostUpdate, SnapCommitted, VisibleLots
  <2> QED
    BY <1>2, <2>2 DEF Begin, locking, LocksInOrder, Before
<1>3. ASSUME NEW r \in Req, ListAvailableLots(r) PROVE LocksInOrder'
  <2>1. held[r] = {}
    BY <1>3 DEF ListAvailableLots, LockingInv, OnlyActiveHold, Holding
  <2> QED
    BY <1>3, <2>1 DEF ListAvailableLots, LocksInOrder, Before
<1>4. ASSUME NEW r \in Req, NEW l \in Req, LockLot(r, l) PROVE LocksInOrder'
  BY <1>4 DEF LockLot, LocksInOrder, Before, IsFirst
<1>5. ASSUME NEW r \in Req, Commit(r) \/ Rollback(r) PROVE LocksInOrder'
  <2>1. /\ held' = [held EXCEPT ![r] = {}] /\ todo' = [todo EXCEPT ![r] = {}]
        /\ UNCHANGED <<arg, created>>
    BY <1>5 DEF Commit, Rollback, Release
  <2>2. \A s \in Req : held'[s] \subseteq held[s] /\ todo'[s] \subseteq todo[s]
    BY <2>1
  <2> QED
    BY <2>1, <2>2, <1>1
<1>6. ASSUME NEW r \in Req, NEW l \in Req, SkipLot(r, l) PROVE LocksInOrder'
  BY <1>6, <1>1 DEF SkipLot
<1>7. ASSUME NEW r \in Req, NEW l \in Req, NEW w \in BOOLEAN, Consume(r, l, w)
      PROVE  LocksInOrder'
  BY <1>7, <1>1 DEF Consume, locking
<1>8. ASSUME NEW r \in Req, ListFails(r) \/ StartLoop(r) \/ EndLoop(r) PROVE LocksInOrder'
  BY <1>8, <1>1 DEF ListFails, StartLoop, EndLoop, locking
<1>9. ASSUME NEW t \in Req, BeginDelete(t) \/ FinishDelete(t) \/ AbortDelete(t)
      PROVE  LocksInOrder'
  BY <1>9, <1>1 DEF BeginDelete, FinishDelete, AbortDelete, locking
<1>10. ASSUME NEW x \in ExpenseRows, DeleteExpense(x) PROVE LocksInOrder'
  BY <1>10, <1>1 DEF DeleteExpense, locking
<1>11. CASE UNCHANGED vars
  BY <1>11, <1>1 DEF vars, locking
<1>12. \A r \in Req : poisoned[r] \in BOOLEAN
  OBVIOUS
<1> QED
  BY <1>2, <1>3, <1>4, <1>5, <1>6, <1>7, <1>8, <1>9, <1>10, <1>11, <1>12
  DEF Next, Advance, InsertFails, Fail, Quiescent

\* Whatever requests overlap, none waits for a lot older than one it holds, so that
\* no circle of requests can wait for each other.
THEOREM DeadlockFree == Spec => []LocksInOrder
<1>1. Init => LocksInOrder
  BY DEF Init, LocksInOrder
<1> QED
  BY <1>1, OrderStep, TypeCorrect, RowLocks, PTL DEF Spec

(***************************************************************************)
(* A transfer, its lot and its fees.                                       *)
(***************************************************************************)
LEMMA WholeStep == TypeOK /\ LockingInv /\ TransferWhole /\ [Next]_vars => TransferWhole'
<1> SUFFICES ASSUME TypeOK, TransferWhole, [Next]_vars PROVE TransferWhole'
  OBVIOUS
<1> USE DEF TypeOK
<1>1. ASSUME UNCHANGED <<transfers, lots, arg>>, expenses' \subseteq expenses
      PROVE  TransferWhole'
  BY <1>1 DEF TransferWhole
<1>2. ASSUME NEW r \in Req, Commit(r) PROVE TransferWhole'
  <2>1. lots' = {t \in transfers' : MakesLot(arg'[t])}
    BY <1>2 DEF Commit, TransferWhole, VisibleLots, MakesLot
  <2>2. \A s \in Req : arg'[s].kind = "transfer" /\ s \notin transfers'
           => <<s, "spend">> \notin expenses' /\ <<s, "source">> \notin expenses'
    BY <1>2 DEF Commit, TransferWhole, NewExpenses
  <2> QED
    BY <2>1, <2>2 DEF TransferWhole
<1>3. ASSUME NEW t \in Req, FinishDelete(t) PROVE TransferWhole'
  BY <1>3 DEF FinishDelete, CascadedLot, TransferWhole
<1> QED
  BY <1>1, <1>2, <1>3
  DEF Next, Advance, Begin, ListAvailableLots, ListFails, LockLot, SkipLot, StartLoop,
      Consume, EndLoop, Rollback, InsertFails, Fail, BeginDelete, AbortDelete,
      DeleteExpense, Quiescent, vars, tables

\* Whatever fails or is deleted, a transfer never stays without its lot and its fees.
THEOREM AllOrNothing == Spec => []TransferWhole
<1>1. Init => TransferWhole
  BY DEF Init, TransferWhole
<1> QED
  BY <1>1, WholeStep, TypeCorrect, RowLocks, PTL DEF Spec
-----------------------------------------------------------------------------
(***************************************************************************)
(* First in, first out.  LoopInv is inductive next to LockingInv; at the    *)
(* commit it says that every lot of the snapshot older than a drawn one is  *)
(* deleted, was read empty, or was drawn empty and written.                 *)
(***************************************************************************)
\* A request the step is not about keeps its part of LoopInv.
LEMMA LoopKept ==
    ASSUME TypeOK, LoopInv, NEW r \in Req,
           held'[r] = held[r], todo'[r] = todo[r], snap'[r] = snap[r],
           seen'[r] = seen[r], draw'[r] = draw[r], need'[r] = need[r],
           wrote'[r] = wrote[r], poisoned[r] => poisoned'[r],
           Active(r), Active(r)', UNCHANGED arg,
           \A l \in held[r] : created'[l] = created[l],
           \A m \in snap[r] \ held[r] : m \in VisibleLots(r)' => m \in VisibleLots(r)
    PROVE  /\ \A m \in snap'[r] \ todo'[r] : m \in held'[r] \/ m \notin VisibleLots(r)'
           /\ \A l \in Req : draw'[r][l] > 0 => DrawInOrder(r, l)'
<1> USE DEF TypeOK
<1>1. \A m \in snap'[r] \ todo'[r] : m \in held'[r] \/ m \notin VisibleLots(r)'
  BY DEF LoopInv
<1>2. ASSUME NEW l \in Req, draw'[r][l] > 0 PROVE DrawInOrder(r, l)'
  <2>1. DrawInOrder(r, l)
    BY <1>2 DEF LoopInv
  <2>2. \A m \in Fetched(r) : Before(m, l)' => Before(m, l)
    BY <2>1 DEF DrawInOrder, Fetched, Before
  <2>3. Fetched(r)' = Fetched(r)
    BY DEF Fetched
  <2> QED
    BY <2>1, <2>2, <2>3 DEF DrawInOrder
<1> QED
  BY <1>1, <1>2

\* The lots a request has locked have their stamps from before.
LEMMA HeldIsOld ==
    ASSUME TypeOK, LockingInv, NEW r \in Req, pc[r] = "idle"
    PROVE  \A s \in Req : r \notin held[s] /\ r \notin snap[s]
<1>1. r \notin lots /\ held[r] = {} /\ snap[r] = {}
  BY DEF LockingInv, LotsCommitted, OnlyActiveHold, Holding
<1> QED
  BY <1>1 DEF LockingInv, NoLostUpdate, SnapCommitted, VisibleLots

\* A transaction begins with nothing drawn,
LEMMA BeginLoop ==
    ASSUME TypeOK, LockingInv, LoopInv, NEW r \in Req, Begin(r)
    PROVE  LoopInv'
<1> USE DEF TypeOK
<1>1. \A s \in Req : r \notin held[s] /\ r \notin snap[s]
  BY HeldIsOld DEF Begin
<1>2. ASSUME NEW s \in Req \ {r}, Active(s)'
      PROVE  /\ \A m \in snap'[s] \ todo'[s] : m \in held'[s] \/ m \notin VisibleLots(s)'
             /\ \A l \in Req : draw'[s][l] > 0 => DrawInOrder(s, l)'
  <2>1. Active(s)
    BY <1>2 DEF Begin, Active
  <2>2. \A l \in held[s] : created'[l] = created[l]
    BY <1>1 DEF Begin
  <2>3. VisibleLots(s)' = VisibleLots(s)
    BY DEF Begin, VisibleLots
  <2> QED
    BY <1>2, <2>1, <2>2, <2>3, LoopKept DEF Begin, locking
<1>3. todo[r] = {} /\ snap[r] = {} /\ \A l \in Req : draw[r][l] = 0
  BY DEF Begin, LockingInv, OnlyActiveHold, Holding, SnapCommitted, LoopInv
<1>4. \A s \in Req \ {r} : pc'[s] = pc[s]
  BY DEF Begin
<1>5. UNCHANGED <<todo, snap, draw>> /\ pc'[r] \in {"list", "commit"}
  BY DEF Begin, locking
<1> QED
  BY <1>2, <1>3, <1>4, <1>5 DEF LoopInv

\* lists its lots,
LEMMA ListLoop ==
    ASSUME TypeOK, LockingInv, LoopInv, NEW r \in Req, ListAvailableLots(r)
    PROVE  LoopInv'
<1> USE DEF TypeOK, ListAvailableLots, tables, loop
<1>1. ASSUME NEW s \in Req \ {r}, Active(s)'
      PROVE  /\ \A m \in snap'[s] \ todo'[s] : m \in held'[s] \/ m \notin VisibleLots(s)'
             /\ \A l \in Req : draw'[s][l] > 0 => DrawInOrder(s, l)'
  <2>1. Active(s) /\ VisibleLots(s)' = VisibleLots(s)
    BY <1>1 DEF Active, VisibleLots
  <2> QED
    BY <1>1, <2>1, LoopKept
<1>2. snap'[r] = todo'[r] /\ \A l \in Req : draw'[r][l] = 0
  BY DEF LoopInv
<1>3. pc'[r] = "lock" /\ \A s \in Req \ {r} : pc'[s] = pc[s] /\ todo'[s] = todo[s]
  OBVIOUS
<1> QED
  BY <1>1, <1>2, <1>3 DEF LoopInv

\* locks them one by one, or finds one gone,
LEMMA LockLotLoop ==
    ASSUME TypeOK, LockingInv, LoopInv, NEW r \in Req, NEW l \in Req,
           LockLot(r, l) \/ SkipLot(r, l)
    PROVE  LoopInv'
<1> USE DEF TypeOK, tables, loop
<1>1. /\ UNCHANGED <<lots, arg, created, pc, snap, draw, need, wrote, poisoned>>
      /\ pc[r] = "lock"
      /\ todo' = [todo EXCEPT ![r] = @ \ {l}]
      /\ \A s \in Req \ {r} : held'[s] = held[s] /\ seen'[s] = seen[s]
      /\ held[r] \subseteq held'[r]
      /\ l \in held'[r] \/ l \notin VisibleLots(r)
  BY DEF LockLot, SkipLot
<1>2. ASSUME NEW s \in Req \ {r}, Active(s)'
      PROVE  /\ \A m \in snap'[s] \ todo'[s] : m \in held'[s] \/ m \notin VisibleLots(s)'
             /\ \A k \in Req : draw'[s][k] > 0 => DrawInOrder(s, k)'
  <2>1. Active(s) /\ VisibleLots(s)' = VisibleLots(s)
    BY <1>1, <1>2 DEF Active, VisibleLots
  <2> QED
    BY <1>1, <1>2, <2>1, LoopKept
<1>3. \A k \in Req : draw'[r][k] = 0
  BY <1>1 DEF LoopInv
<1>4. \A m \in snap'[r] \ todo'[r] : m \in held'[r] \/ m \notin VisibleLots(r)'
  BY <1>1 DEF LoopInv, Active, Running, VisibleLots
<1> QED
  BY <1>1, <1>2, <1>3, <1>4 DEF LoopInv

\* and starts the loop with those it has.
LEMMA StartLoopLoop ==
    ASSUME TypeOK, LockingInv, LoopInv, NEW r \in Req, StartLoop(r)
    PROVE  LoopInv'
<1> USE DEF TypeOK, StartLoop, tables, locking
<1>1. ASSUME NEW s \in Req, Active(s)'
      PROVE  /\ \A m \in snap'[s] \ todo'[s] : m \in held'[s] \/ m \notin VisibleLots(s)'
             /\ \A l \in Req : draw'[s][l] > 0 => DrawInOrder(s, l)'
  <2>1. Active(s) /\ VisibleLots(s)' = VisibleLots(s)
    BY <1>1 DEF Active, Running, VisibleLots
  <2> QED
    BY <1>1, <2>1, LoopKept
<1>2. pc'[r] \in {"spend", "commit"} /\ todo[r] = {}
  OBVIOUS
<1>3. \A s \in Req \ {r} : pc'[s] = pc[s]
  OBVIOUS
<1> QED
  BY <1>1, <1>2, <1>3 DEF LoopInv

\* One turn of the loop: whatever was drawn before is drawn in full, or nothing
\* would be left to price; and the lot it takes is older than all the others.
LEMMA ConsumeLoop ==
    ASSUME TypeOK, LockingInv, LoopInv, NEW r \in Req, NEW l \in Req, NEW w \in BOOLEAN,
           Consume(r, l, w)
    PROVE  LoopInv'
<1> DEFINE consume == MinOf(need[r], seen[r][l])
<1>1. need[r] \in Nat /\ seen[r][l] \in Nat /\ need[r] > 0
  BY DEF TypeOK, Consume
<1>2. consume \in Nat /\ consume <= seen[r][l] /\ (consume < seen[r][l] => need[r] - consume = 0)
  BY <1>1 DEF MinOf
<1>3. l \in Unspent(r) /\ \A m \in Unspent(r) \ {l} : Before(l, m)
  BY DEF Consume, IsFirst
<1>4. /\ draw' = [draw EXCEPT ![r] = [@ EXCEPT ![l] = consume]]
      /\ need' = [need EXCEPT ![r] = @ - consume]
      /\ wrote' = IF w THEN [wrote EXCEPT ![r] = @ \cup {l}] ELSE wrote
      /\ poisoned' = IF w THEN poisoned ELSE [poisoned EXCEPT ![r] = TRUE]
      /\ UNCHANGED <<lots, arg, pc, created, snap, todo, held, seen>>
      /\ pc[r] = "spend"
  BY DEF Consume, tables, locking
<1> HIDE DEF consume
<1> USE DEF TypeOK
<1>5. ASSUME NEW s \in Req \ {r}, Active(s)'
      PROVE  /\ \A m \in snap'[s] \ todo'[s] : m \in held'[s] \/ m \notin VisibleLots(s)'
             /\ \A k \in Req : draw'[s][k] > 0 => DrawInOrder(s, k)'
  <2>1. Active(s) /\ VisibleLots(s)' = VisibleLots(s)
    BY <1>4, <1>5 DEF Active, VisibleLots
  <2>2. draw'[s] = draw[s] /\ need'[s] = need[s] /\ wrote'[s] = wrote[s] /\ poisoned'[s] = poisoned[s]
    BY <1>4
  <2> QED
    BY <1>4, <1>5, <2>1, <2>2, LoopKept
<1>6. Active(r)
  BY <1>4 DEF Active, Running
<1>7. \A m \in snap'[r] \ todo'[r] : m \in held'[r] \/ m \notin VisibleLots(r)'
  BY <1>4, <1>6 DEF LoopInv, VisibleLots
<1>8. Fetched(r)' = Fetched(r) /\ l \in Fetched(r) /\ draw[r][l] = 0
  BY <1>3, <1>4 DEF Fetched, Unspent
<1>9. ASSUME NEW k \in Req \ {l}, draw[r][k] > 0
      PROVE  /\ draw[r][k] = seen[r][k] /\ k \in Fetched(r)
             /\ ~poisoned[r] => k \in wrote[r]
             /\ \A m \in Fetched(r) : Before(m, k) => draw[r][m] = seen[r][m]
             /\ ~Before(l, k)
  <2>1. DrawInOrder(r, k)
    BY <1>6, <1>9 DEF LoopInv
  <2>2. draw[r][k] = seen[r][k]
    <3>1. draw[r][k] \in Nat /\ seen[r][k] \in Nat
      OBVIOUS
    <3>2. need[r] # 0
      BY <1>1
    <3>3. /\ draw[r][k] <= seen[r][k]
          /\ draw[r][k] < seen[r][k] => need[r] = 0
      BY <2>1 DEF DrawInOrder
    <3>4. \A a, b \in Nat : a <= b /\ ~(a < b) => a = b
      OBVIOUS
    <3> QED
      BY <3>1, <3>2, <3>3, <3>4
  <2>3. seen[r][l] > 0
    BY <1>8 DEF Fetched
  <2> QED
    BY <2>1, <2>2, <2>3, <1>8 DEF DrawInOrder
<1>10. ASSUME NEW m \in Fetched(r), Before(m, l) PROVE draw[r][m] = seen[r][m] /\ m # l
  <2>1. arg[m].date \in Nat /\ arg[l].date \in Nat /\ m \in Req
    BY DEF Request, Fetched
  <2>2. ~Before(l, m)
    BY <1>10, <2>1 DEF Before, Older
  <2>3. m # l
    BY <1>10, <2>1 DEF Before, Older
  <2>4. m \notin Unspent(r)
    BY <1>3, <2>2, <2>3
  <2>5. draw[r][m] > 0
    BY <2>1, <2>4 DEF Unspent
  <2> QED
    BY <1>9, <2>1, <2>3, <2>5
<1>11. DrawInOrder(r, l)'
  <2>1. draw'[r][l] = consume /\ need'[r] = need[r] - consume
    BY <1>4
  <2>2. \A m \in Fetched(r) : Before(m, l) => draw'[r][m] = seen[r][m]
    BY <1>4, <1>10
  <2>3. ~poisoned'[r] => l \in wrote'[r]
    BY <1>4
  <2> QED
    BY <1>2, <1>4, <1>8, <2>1, <2>2, <2>3 DEF DrawInOrder, Before
<1>12. ASSUME NEW k \in Req \ {l}, draw'[r][k] > 0 PROVE DrawInOrder(r, k)'
  <2>1. draw'[r][k] = draw[r][k]
    BY <1>4
  <2>2. \A m \in Fetched(r) : Before(m, k) => draw'[r][m] = seen[r][m]
    BY <1>4, <1>9, <1>12, <2>1
  <2>3. ~poisoned'[r] => k \in wrote'[r]
    BY <1>4, <1>9, <1>12, <2>1
  <2> QED
    BY <1>4, <1>8, <1>9, <1>12, <2>1, <2>2, <2>3 DEF DrawInOrder, Before
<1> QED
  BY <1>4, <1>5, <1>7, <1>11, <1>12 DEF LoopInv

\* The end of r's transaction leaves it nothing, and takes nothing from others.
LEMMA EndsLoop ==
    ASSUME TypeOK, LockingInv, LoopInv, NEW r \in Req, Active(r), Commit(r) \/ Rollback(r)
    PROVE  LoopInv'
<1> USE DEF TypeOK
<1>1. /\ Release(r) /\ UNCHANGED <<arg, created>> /\ lots' \subseteq lots \cup {r}
      /\ lots \subseteq lots' /\ pc'[r] \in {"ok", "failed"}
      /\ \A s \in Req \ {r} : draw'[s] = draw[s] /\ pc'[s] = pc[s]
  BY DEF Commit, Rollback, VisibleLots
<1>2. pc[r] # "ok"
  BY DEF Active, Running
<1>3. ASSUME NEW s \in Req \ {r}, Active(s)'
      PROVE  /\ \A m \in snap'[s] \ todo'[s] : m \in held'[s] \/ m \notin VisibleLots(s)'
             /\ \A l \in Req : draw'[s][l] > 0 => DrawInOrder(s, l)'
  <2>1. /\ held'[s] = held[s] /\ todo'[s] = todo[s] /\ snap'[s] = snap[s]
        /\ seen'[s] = seen[s] /\ need'[s] = need[s] /\ wrote'[s] = wrote[s]
        /\ poisoned'[s] = poisoned[s]
    BY <1>1 DEF Release
  <2>2. Active(s)
    BY <1>1, <1>3 DEF Active
  <2>3. r \notin snap[s]
    BY <1>2 DEF LockingInv, SnapCommitted
  <2>4. \A m \in snap[s] : m \in VisibleLots(s)' => m \in VisibleLots(s)
    BY <1>1, <2>3 DEF VisibleLots
  <2> QED
    BY <1>1, <1>3, <2>1, <2>2, <2>4, LoopKept
<1>4. pc'[r] \notin Running \cup {"idle"} /\ \A s \in Req \ {r} : todo'[s] = todo[s]
  BY <1>1 DEF Running, Release
<1> QED
  BY <1>1, <1>3, <1>4 DEF LoopInv, Active, Running

\* Steps that change neither locks, snapshots nor draws, and let no lot appear.
LEMMA LoopUntouched ==
    ASSUME TypeOK, LockingInv, LoopInv,
           UNCHANGED <<arg, created, todo, snap, held, seen, draw, need, wrote>>,
           lots' \subseteq lots,
           \A r \in Req : poisoned[r] => poisoned'[r],
           \A r \in Req : \/ pc'[r] = pc[r]
                          \/ /\ Active(r) /\ pc'[r] = "commit"
                             /\ todo[r] = {}
    PROVE  LoopInv'
<1>1. ASSUME NEW s \in Req, Active(s)'
      PROVE  /\ \A m \in snap'[s] \ todo'[s] : m \in held'[s] \/ m \notin VisibleLots(s)'
             /\ \A l \in Req : draw'[s][l] > 0 => DrawInOrder(s, l)'
  <2>1. Active(s)
    BY <1>1 DEF Active
  <2>2. \A m \in snap[s] : m \in VisibleLots(s)' => m \in VisibleLots(s)
    BY DEF VisibleLots
  <2> QED
    BY <1>1, <2>1, <2>2, LoopKept
<1> QED
  BY <1>1 DEF LoopInv

\* The invariant holds before any request has begun,
LEMMA LoopInit == Init => LoopInv
BY DEF Init, LoopInv, Active, Running, Nothing

\* and after every step.
LEMMA LoopStep == TypeOK /\ LockingInv /\ LoopInv /\ [Next]_vars => LoopInv'
<1> SUFFICES ASSUME TypeOK, LockingInv, LoopInv, [Next]_vars PROVE LoopInv'
  OBVIOUS
<1>1. ASSUME NEW r \in Req, ListFails(r) PROVE LoopInv'
  <2>1. todo[r] = {} /\ Active(r)
    BY <1>1 DEF ListFails, LockingInv, OnlyActiveHold, Holding, SnapCommitted, Active, Running
  <2> QED
    BY <1>1, <2>1, LoopUntouched DEF ListFails, tables, locking, loop, TypeOK
<1>2. ASSUME NEW r \in Req, EndLoop(r) PROVE LoopInv'
  <2>1. todo[r] = {} /\ Active(r)
    BY <1>2 DEF EndLoop, LoopInv, Active, Running
  <2> QED
    BY <1>2, <2>1, LoopUntouched DEF EndLoop, tables, locking, loop, TypeOK
<1>3. ASSUME NEW t \in Req, BeginDelete(t) \/ FinishDelete(t) \/ AbortDelete(t)
      PROVE  LoopInv'
  BY <1>3, LoopUntouched
  DEF BeginDelete, FinishDelete, AbortDelete, CascadedLot, tables, locking, loop
<1>4. ASSUME NEW x \in ExpenseRows, DeleteExpense(x) PROVE LoopInv'
  BY <1>4, LoopUntouched DEF DeleteExpense, locking, loop
<1>5. CASE UNCHANGED vars
  BY <1>5, LoopUntouched DEF vars, tables, locking, loop
<1>6. ASSUME NEW r \in Req, Commit(r) \/ InsertFails(r) \/ Fail(r) PROVE LoopInv'
  BY <1>6, EndsLoop DEF Commit, InsertFails, Fail, Active, Running
<1>7. \A r \in Req : poisoned[r] \in BOOLEAN
  BY DEF TypeOK
<1> QED
  BY <1>1, <1>2, <1>3, <1>4, <1>5, <1>6, <1>7, BeginLoop, ListLoop, LockLotLoop,
     StartLoopLoop, ConsumeLoop
  DEF Next, Advance, Quiescent

\* Only the commit of r makes r a committed request.
LEMMA PricesCommits ==
    ASSUME TypeOK, [Next]_vars, NEW r \in Req, Prices(r)
    PROVE  Commit(r)
<1> USE DEF TypeOK
<1>1. pc[r] # "ok" /\ pc'[r] = "ok"
  BY DEF Prices, Committed
<1>2. ASSUME NEW s \in Req, Commit(s) PROVE s = r
  BY <1>1, <1>2 DEF Commit
<1>3. ASSUME NEW s \in Req, NEW l \in Req, LockLot(s, l) \/ SkipLot(s, l) PROVE FALSE
  BY <1>1, <1>3 DEF LockLot, SkipLot
<1>4. ASSUME NEW s \in Req, NEW l \in Req, NEW w \in BOOLEAN, Consume(s, l, w) PROVE FALSE
  BY <1>1, <1>4 DEF Consume
<1>5. ASSUME NEW s \in Req, Begin(s) PROVE FALSE
  BY <1>1, <1>5 DEF Begin
<1>6. ASSUME NEW s \in Req, ListAvailableLots(s) \/ ListFails(s) \/ StartLoop(s) \/ EndLoop(s)
      PROVE  FALSE
  BY <1>1, <1>6 DEF ListAvailableLots, ListFails, StartLoop, EndLoop
<1>7. ASSUME NEW s \in Req, Rollback(s) PROVE FALSE
  BY <1>1, <1>7 DEF Rollback
<1>8. ASSUME NEW t \in Req, BeginDelete(t) \/ FinishDelete(t) \/ AbortDelete(t) PROVE FALSE
  BY <1>1, <1>8 DEF BeginDelete, FinishDelete, AbortDelete
<1>9. ASSUME NEW x \in ExpenseRows, DeleteExpense(x) PROVE FALSE
  BY <1>1, <1>9 DEF DeleteExpense
<1>10. CASE UNCHANGED vars
  BY <1>1, <1>10 DEF vars
<1>11. \A s \in Req : poisoned[s] \in BOOLEAN
  OBVIOUS
<1> QED
  BY <1>2, <1>3, <1>4, <1>5, <1>6, <1>7, <1>8, <1>9, <1>10, <1>11
  DEF Next, Advance, InsertFails, Fail, Quiescent

\* The loop works through locked lots in order, whatever other requests do meanwhile.
THEOREM LoopRight == Spec => []LoopInv
BY LoopInit, LoopStep, TypeCorrect, RowLocks, PTL DEF Spec

\* Requests that overlap in time price their amounts first in, first out.
THEOREM FirstInFirstOut == Spec => FifoOrder
<1> DEFINE InOrder(r) ==
      \A l \in Req, m \in snap[r] :
          draw[r][l] > 0 /\ Before(m, l) => m \notin lots' \/ rem'[m] = 0
<1>1. TypeOK /\ LockingInv /\ LoopInv /\ [Next]_vars
         => [\A r \in Req : Prices(r) => InOrder(r)]_vars
  <2> SUFFICES ASSUME TypeOK, LockingInv, LoopInv, [Next]_vars,
                      NEW r \in Req, Prices(r), NEW l \in Req, NEW m \in snap[r],
                      draw[r][l] > 0, Before(m, l), m \in lots'
               PROVE  rem'[m] = 0
    OBVIOUS
  <2> USE DEF TypeOK
  <2>1. Commit(r)
    BY PricesCommits
  <2>2. Active(r) /\ todo[r] = {} /\ m \in VisibleLots(r) /\ m \in Req
    BY <2>1 DEF Commit, Active, Running, LoopInv
  <2>3. m \in held[r]
    BY <2>2 DEF LoopInv
  <2>4. seen[r][m] = rem[m] /\ rem[m] \in Nat
    BY <2>2, <2>3 DEF LockingInv, NoLostUpdate
  <2>5. DrawInOrder(r, l) /\ ~poisoned[r]
    BY <2>1, <2>2 DEF LoopInv, Commit, Doomed
  <2>6. rem'[m] = IF m \in wrote[r] THEN seen[r][m] - draw[r][m] ELSE rem[m]
    BY <2>1, <2>2 DEF Commit
  <2>7. CASE seen[r][m] > 0
    <3>1. m \in Fetched(r)
      BY <2>3, <2>7 DEF Fetched
    <3>2. draw[r][m] = seen[r][m]
      BY <2>5, <3>1 DEF DrawInOrder
    <3>3. m \in wrote[r]
      BY <2>2, <2>5, <2>7, <3>2 DEF LoopInv, DrawInOrder
    <3> QED
      BY <2>4, <2>6, <3>2, <3>3
  <2>8. CASE seen[r][m] = 0
    <3>1. m \in wrote[r] => draw[r][m] <= 0
      BY <2>8 DEF LockingInv, WritesLocked
    <3>2. draw[r][m] \in Nat
      BY <2>2
    <3> QED
      BY <2>4, <2>6, <2>8, <3>1, <3>2
  <2> QED
    BY <2>4, <2>7, <2>8
<1>2. Init => LoopInv
  BY LoopInit
<1> QED
  BY <1>1, <1>2, LoopStep, TypeCorrect, RowLocks, PTL DEF Spec, FifoOrder

=============================================================================
