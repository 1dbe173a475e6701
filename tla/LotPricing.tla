----------------------------- MODULE LotPricing -----------------------------
(***************************************************************************)
(* CreateExpense, CreateTransfer, DeleteTransfer and DeleteExpense running  *)
(* concurrently against PostgreSQL at READ COMMITTED, statement by          *)
(* statement, as far as the cost-basis lots are concerned.                  *)
(*                                                                         *)
(* The rows a request inserts are named after the request: request r        *)
(* creates transfer r, lot r (account_lots.transfer_id = r), the expense    *)
(* <<r, "spend">> (the purchase, or Commission2) and the expense            *)
(* <<r, "source">> (Commission).  Rows become visible to others at Commit.  *)
(*                                                                         *)
(* What the database does is external to the repository and is modelled     *)
(* from its use: SELECT ... FOR UPDATE fixes its rows when the statement    *)
(* starts, then locks them one by one in the ORDER BY, waiting for the      *)
(* holder of a lock and reading the row anew once it has it; locks are held *)
(* to the end of the transaction; a failed statement makes every later one  *)
(* of its transaction fail; a deleted row is passed over.                   *)
(***************************************************************************)
EXTENDS Requests, FiniteSets

CONSTANTS
    Req,        \* the requests that may arrive, each at most once
    Cmds,       \* what each of them may ask for
    PoolSize    \* MaxConns of the connection pool

ASSUME CmdsAssumption ==
    /\ Cmds \in [Req -> SUBSET Request]
    /\ \A r \in Req : \A q \in Cmds[r] :
          /\ q.kind = "expense" => q.account # Null /\ q.amount # Null
          /\ q.kind = "transfer" => q.charged = Null
ASSUME PoolAssumption == PoolSize \in Nat \ {0}

\* However long the service runs, so far it has received finitely many.
ASSUME ReqAssumption == IsFiniteSet(Req)

VARIABLES
    \* Committed tables, and the columns of their rows.
    transfers,  \* transfers
    lots,       \* account_lots
    rem,        \* account_lots.remaining
    expenses,   \* expenses
    base,       \* expenses.base_amount of <<r, "spend">>; baseTotal before that
    \* Each request and its transaction.
    arg,        \* the request message
    pc,         \* where its handler is
    created,    \* NOW() of its transaction: created_at of what it inserts
    clock,      \* the database's clock: see Begin
    snap,       \* lots in the result of ListAvailableLots when it started
    todo,       \* those of them the statement has not reached yet
    held,       \* lots whose row lock the transaction holds
    seen,       \* their Remaining as it was read under the lock
    need,       \* the loop's variable remaining
    draw,       \* what the loop took from each lot, kept after commit
    wrote,      \* lots whose UpdateLotRemaining succeeded
    poisoned,   \* a statement of the transaction has failed
    deleting    \* transfers locked by a DeleteTransfer in progress

tables == <<transfers, lots, rem, expenses>>
locking == <<snap, todo, held, seen>>
loop == <<need, draw, wrote, base>>
vars == <<tables, arg, pc, created, clock, locking, loop, poisoned, deleting>>

Running == {"list", "lock", "spend", "commit"}
PCs == Running \cup {"idle", "ok", "failed"}
ExpenseRows == Req \X {"spend", "source"}

TypeOK ==
    /\ transfers \subseteq Req
    /\ lots \subseteq Req
    /\ rem \in [Req -> Nat]
    /\ expenses \subseteq ExpenseRows
    /\ base \in [Req -> Nat \cup {Null}]
    /\ arg \in [Req -> Request]
    /\ pc \in [Req -> PCs]
    /\ created \in [Req -> Nat]
    /\ clock \in Nat
    /\ snap \in [Req -> SUBSET Req]
    /\ todo \in [Req -> SUBSET Req]
    /\ held \in [Req -> SUBSET Req]
    /\ seen \in [Req -> [Req -> Nat]]
    /\ need \in [Req -> Nat]
    /\ draw \in [Req -> [Req -> Nat]]
    /\ wrote \in [Req -> SUBSET Req]
    /\ poisoned \in [Req -> BOOLEAN]
    /\ deleting \subseteq Req

Nothing == [l \in Req |-> 0]

Init ==
    /\ transfers = {} /\ lots = {} /\ expenses = {}
    /\ rem = Nothing
    /\ base = [r \in Req |-> Null]
    /\ arg \in [Req -> UNION {Cmds[r] : r \in Req}]
    /\ \A r \in Req : arg[r] \in Cmds[r]
    /\ pc = [r \in Req |-> "idle"]
    /\ created = Nothing /\ clock = 1
    /\ snap = [r \in Req |-> {}] /\ todo = [r \in Req |-> {}]
    /\ held = [r \in Req |-> {}]
    /\ seen = [r \in Req |-> Nothing]
    /\ need = Nothing /\ draw = [r \in Req |-> Nothing]
    /\ wrote = [r \in Req |-> {}]
    /\ poisoned = [r \in Req |-> FALSE]
    /\ deleting = {}
-----------------------------------------------------------------------------
Before(l, m) == Older(arg[l], created[l], arg[m], created[m])

\* Mutation: the rows come in any order.
InAnyOrder(l, S) == l \in S

\* l is the first of the lots S in the order of ListAvailableLots.
IsFirst(l, S) == l \in S /\ \A m \in S \ {l} : Before(l, m)

Active(r) == pc[r] \in Running

\* A pooled connection is free: one is taken by every open transaction and by
\* every DELETE that is under way.
ConnectionFree ==
    Cardinality({r \in Req : Active(r)}) + Cardinality(deleting) < PoolSize

\* Rows r sees: what is committed, and what its own transaction has inserted.
VisibleLots(r) == lots \cup (IF MakesLot(arg[r]) THEN {r} ELSE {})

\* Mutation: SELECT without FOR UPDATE.
NeverLocked(r, l) == FALSE

LockedByOther(r, l) == \E s \in Req \ {r} : l \in held[s]

\* The slice of lots computeBaseAmount loops over, less those it is done with.
Fetched(r) == {l \in held[r] : seen[r][l] > 0}
Unspent(r) == {l \in Fetched(r) : draw[r][l] = 0}

\* Mutation: the whole amount is taken from the first lot.
FirstOf(a, b) == a

MinOf(a, b) == IF a <= b THEN a ELSE b
-----------------------------------------------------------------------------
(***************************************************************************)
(* The transaction opens, and the statements ahead of computeBaseAmount     *)
(* run: GetAccount; for a transfer, the INSERTs of the transfer, of the     *)
(* source fee and of the lot.  None of them waits and their rows are        *)
(* private until Commit, so they are one step.  An amount in the base       *)
(* currency is its own base amount.                                         *)
(*                                                                         *)
(* The clock goes on with each transaction.  NOW() may be the same for two  *)
(* of them, and the query has no third key for their lots: the order of     *)
(* such lots stands in created as well, taken to be the same in every       *)
(* result of ListAvailableLots.                                             *)
(***************************************************************************)
Begin(r) ==
    /\ pc[r] = "idle"
    /\ ConnectionFree
    /\ created' = [created EXCEPT ![r] = clock]
    /\ clock' = clock + 1
    /\ pc' = [pc EXCEPT ![r] = IF NeedsLots(arg[r]) THEN "list" ELSE "commit"]
    /\ need' = [need EXCEPT ![r] =
                  IF NeedsLots(arg[r]) THEN EffectiveAmount(arg[r]) ELSE 0]
    /\ base' = [base EXCEPT ![r] =
                  IF HasSpend(arg[r]) /\ EffectiveCurrency(arg[r]) = EUR
                  THEN EffectiveAmount(arg[r]) ELSE Null]
    /\ rem' = [rem EXCEPT ![r] = IF MakesLot(arg[r]) THEN arg[r].toAmount ELSE 0]
    /\ UNCHANGED <<transfers, lots, expenses, arg, locking, draw, wrote,
                   poisoned, deleting>>

\* ListAvailableLots starts: its snapshot fixes the rows it will try to lock.
ListAvailableLots(r) ==
    /\ pc[r] = "list"
    /\ LET found == {l \in VisibleLots(r) :
                        arg[l].account = arg[r].account /\ rem[l] > 0}
       IN  /\ snap' = [snap EXCEPT ![r] = found]
           /\ todo' = [todo EXCEPT ![r] = found]
    /\ pc' = [pc EXCEPT ![r] = "lock"]
    /\ UNCHANGED <<tables, arg, created, clock, held, seen, loop, poisoned, deleting>>

\* ListAvailableLots fails, and computeBaseAmount goes on as if there were no lots.
ListFails(r) ==
    /\ pc[r] = "list"
    /\ poisoned' = [poisoned EXCEPT ![r] = TRUE]
    /\ pc' = [pc EXCEPT ![r] = "commit"]
    /\ UNCHANGED <<tables, arg, created, clock, locking, loop, deleting>>

(***************************************************************************)
(* FOR UPDATE takes the next row lock, waiting while another transaction    *)
(* has it, and reads the row as that one left it.  A row that has been used *)
(* up meanwhile no longer satisfies remaining > 0: it stays locked but is   *)
(* not returned (seen is 0).                                                *)
(***************************************************************************)
LockLot(r, l) ==
    /\ pc[r] = "lock"
    /\ IsFirst(l, todo[r])
    /\ l \in VisibleLots(r)
    /\ ~LockedByOther(r, l)
    /\ todo' = [todo EXCEPT ![r] = @ \ {l}]
    /\ held' = [held EXCEPT ![r] = @ \cup {l}]
    /\ seen' = [seen EXCEPT ![r] = [@ EXCEPT ![l] = rem[l]]]
    /\ UNCHANGED <<tables, arg, pc, created, clock, snap, loop, poisoned, deleting>>

\* The row was deleted after the snapshot.
SkipLot(r, l) ==
    /\ pc[r] = "lock"
    /\ IsFirst(l, todo[r])
    /\ l \notin VisibleLots(r)
    /\ todo' = [todo EXCEPT ![r] = @ \ {l}]
    /\ UNCHANGED <<tables, arg, pc, created, clock, snap, held, seen, loop,
                   poisoned, deleting>>

\* The rows are back.  Without any, the base amount is NULL.
StartLoop(r) ==
    /\ pc[r] = "lock"
    /\ todo[r] = {}
    /\ pc' = [pc EXCEPT ![r] = IF Fetched(r) = {} THEN "commit" ELSE "spend"]
    /\ base' = [base EXCEPT ![r] = IF Fetched(r) = {} THEN Null ELSE 0]
    /\ UNCHANGED <<tables, arg, created, clock, locking, need, draw, wrote,
                   poisoned, deleting>>

(***************************************************************************)
(* One turn of the loop.  The error of UpdateLotRemaining is dropped, so    *)
(* the turn counts the same whether or not the row was written (written).   *)
(***************************************************************************)
Consume(r, l, written) ==
    LET consume == MinOf(need[r], seen[r][l])
    IN  /\ pc[r] = "spend"
        /\ need[r] > 0
        /\ IsFirst(l, Unspent(r))
        /\ written => ~poisoned[r]
        /\ need' = [need EXCEPT ![r] = @ - consume]
        /\ draw' = [draw EXCEPT ![r] = [@ EXCEPT ![l] = consume]]
        /\ base' = [base EXCEPT ![r] = @ + consume * arg[l].rate]
        /\ wrote' = IF written THEN [wrote EXCEPT ![r] = @ \cup {l}] ELSE wrote
        /\ poisoned' = IF written THEN poisoned ELSE [poisoned EXCEPT ![r] = TRUE]
        /\ UNCHANGED <<tables, arg, pc, created, clock, locking, deleting>>

\* Mutation: the last unit is taken for a rounding error.
AlmostDone(r) == need[r] <= 1 \/ Unspent(r) = {}

\* The loop breaks once nothing is left to price, or runs out of lots.
LoopDone(r) == need[r] = 0 \/ Unspent(r) = {}

EndLoop(r) ==
    /\ pc[r] = "spend"
    /\ LoopDone(r)
    /\ pc' = [pc EXCEPT ![r] = "commit"]
    /\ UNCHANGED <<tables, arg, created, clock, locking, loop, poisoned, deleting>>
-----------------------------------------------------------------------------
\* The rows of expenses that request r inserts.
NewExpenses(r) ==
    (IF HasSpend(arg[r]) THEN {<<r, "spend">>} ELSE {})
      \cup (IF arg[r].kind = "transfer" /\ arg[r].sourceFee THEN {<<r, "source">>} ELSE {})

\* What the transaction kept for itself ends with it.
Release(r) ==
    /\ snap' = [snap EXCEPT ![r] = {}]
    /\ todo' = [todo EXCEPT ![r] = {}]
    /\ held' = [held EXCEPT ![r] = {}]
    /\ seen' = [seen EXCEPT ![r] = Nothing]
    /\ need' = [need EXCEPT ![r] = 0]
    /\ wrote' = [wrote EXCEPT ![r] = {}]
    /\ poisoned' = [poisoned EXCEPT ![r] = FALSE]

\* Once a statement has failed, every later one of the transaction fails too.
Doomed(r) == poisoned[r]

\* CreateExpense inserts the expense, and BeginFunc commits.
Commit(r) ==
    /\ pc[r] = "commit"
    /\ ~Doomed(r)
    /\ expenses' = expenses \cup NewExpenses(r)
    /\ transfers' = IF arg[r].kind = "transfer" THEN transfers \cup {r} ELSE transfers
    /\ lots' = VisibleLots(r)
    /\ rem' = [l \in Req |-> IF l \in wrote[r] THEN seen[r][l] - draw[r][l] ELSE rem[l]]
    /\ pc' = [pc EXCEPT ![r] = "ok"]
    /\ Release(r)
    /\ UNCHANGED <<arg, created, clock, draw, base, deleting>>

Rollback(r) ==
    /\ pc' = [pc EXCEPT ![r] = "failed"]
    /\ rem' = IF MakesLot(arg[r]) THEN [rem EXCEPT ![r] = 0] ELSE rem
    /\ draw' = [draw EXCEPT ![r] = Nothing]
    /\ base' = [base EXCEPT ![r] = Null]
    /\ Release(r)
    /\ UNCHANGED <<transfers, lots, expenses, arg, created, clock, deleting>>

\* The INSERT of the expense fails in a transaction one of whose statements
\* failed; its error is returned, and BeginFunc rolls back.
InsertFails(r) == pc[r] = "commit" /\ Doomed(r) /\ Rollback(r)

\* Mutation: an error returns without a rollback.
LeavesOpen(r) ==
    /\ Active(r) /\ ~poisoned[r]
    /\ pc' = [pc EXCEPT ![r] = "failed"]
    /\ UNCHANGED <<tables, arg, created, clock, locking, loop, poisoned, deleting>>

\* Any other error on the way: an unknown account, a cancelled context, a lost
\* connection, a crash of the service.
Fail(r) == Active(r) /\ ~poisoned[r] /\ Rollback(r)
-----------------------------------------------------------------------------
(***************************************************************************)
(* DeleteTransfer locks the row of the transfer, then the cascade deletes   *)
(* its fee expenses and its lot, waiting for the lot's lock.  A second      *)
(* DELETE of the same transfer waits for the first and finds no row.        *)
(***************************************************************************)
BeginDelete(t) ==
    /\ t \in transfers \ deleting
    /\ ConnectionFree
    /\ deleting' = deleting \cup {t}
    /\ UNCHANGED <<tables, arg, pc, created, clock, locking, loop, poisoned>>

\* Mutation: the lot's foreign key does not cascade.
LotStays(t) == {}

\* ON DELETE CASCADE of account_lots.transfer_id.
CascadedLot(t) == {t}

FinishDelete(t) ==
    /\ t \in deleting
    /\ \A r \in Req : t \notin held[r]
    /\ transfers' = transfers \ {t}
    /\ lots' = lots \ CascadedLot(t)
    /\ expenses' = expenses \ {<<t, "spend">>, <<t, "source">>}
    /\ deleting' = deleting \ {t}
    /\ UNCHANGED <<rem, arg, pc, created, clock, locking, loop, poisoned>>

AbortDelete(t) ==
    /\ t \in deleting
    /\ deleting' = deleting \ {t}
    /\ UNCHANGED <<tables, arg, pc, created, clock, locking, loop, poisoned>>

\* DeleteExpense is one DELETE of one row.
DeleteExpense(x) ==
    /\ x \in expenses
    /\ expenses' = expenses \ {x}
    /\ UNCHANGED <<transfers, lots, rem, arg, pc, created, clock, locking, loop,
                   poisoned, deleting>>

\* Every request has been answered: the model ends here, the service waits.
Quiescent ==
    /\ deleting = {} /\ \A r \in Req : pc[r] \in {"ok", "failed"}
    /\ UNCHANGED vars

\* What a request does when left to itself.
Advance(r) ==
    \/ ListAvailableLots(r) \/ StartLoop(r) \/ EndLoop(r)
    \/ \E l \in Req : LockLot(r, l) \/ SkipLot(r, l) \/ Consume(r, l, ~poisoned[r])
    \/ Commit(r) \/ InsertFails(r)

Next ==
    \/ \E r \in Req :
          \/ Begin(r) \/ Advance(r)
          \/ ListFails(r) \/ Fail(r)
          \/ \E l \in Req : Consume(r, l, FALSE)
    \/ \E t \in Req : BeginDelete(t) \/ FinishDelete(t) \/ AbortDelete(t)
    \/ \E x \in ExpenseRows : DeleteExpense(x)
    \/ Quiescent

Spec == Init /\ [][Next]_vars

\* A statement sent to the database is answered; a lock, once free, is granted.
Fairness ==
    /\ \A r \in Req : WF_vars(Advance(r))
    /\ \A t \in Req : WF_vars(FinishDelete(t))

FairSpec == Spec /\ Fairness
-----------------------------------------------------------------------------
(***************************************************************************)
(* Safety.                                                                 *)
(***************************************************************************)
Committed(r) == pc[r] = "ok"
DrawnFrom(l) == SumFunctionOnSet([r \in Req |-> draw[r][l]], {r \in Req : Committed(r)})

(***************************************************************************)
(* What the row locks maintain; the proofs rest on it.  Locks are exclusive *)
(* and only a transaction past the start of its ListAvailableLots has any;  *)
(* a lot that another request can see was committed; a transaction wrote    *)
(* only lots it had locked, drawing no more than it had read; and the       *)
(* result of ListAvailableLots has only lots that were committed, or the    *)
(* request's own.                                                           *)
(***************************************************************************)
LocksExclusive == \A r, s \in Req : r # s => held[r] \cap held[s] = {}
Holding == {"lock", "spend", "commit"}
OnlyActiveHold ==
    \A r \in Req : pc[r] \notin Holding => held[r] = {} /\ wrote[r] = {} /\ snap[r] = {}
LotsCommitted == \A l \in lots : pc[l] = "ok"
WritesLocked ==
    \A r \in Req : \A l \in wrote[r] : l \in held[r] /\ draw[r][l] <= seen[r][l]
SnapCommitted ==
    \A r \in Req : todo[r] \subseteq snap[r] /\ \A l \in snap[r] : pc[l] = "ok" \/ l = r
BaseStarted == \A r \in Req : pc[r] = "spend" => base[r] \in Nat

\* FOR UPDATE makes the amount computeBaseAmount read the current one until
\* the transaction ends, for every lot it has locked: UpdateLotRemaining,
\* which writes an absolute value, never overwrites another request's draw,
\* and the lot is not deleted meanwhile.
NoLostUpdate ==
    \A r \in Req : \A l \in held[r] : l \in VisibleLots(r) /\ seen[r][l] = rem[l]

\* All of this together is inductive.
LockingInv ==
    /\ LocksExclusive /\ OnlyActiveHold /\ LotsCommitted
    /\ WritesLocked /\ SnapCommitted /\ BaseStarted /\ NoLostUpdate

(***************************************************************************)
(* The loop of computeBaseAmount, for a transaction that is open.  By the   *)
(* time it starts, every lot of the snapshot is locked or deleted; it has   *)
(* drawn only from lots it fetched, and written them unless a statement     *)
(* failed; it leaves something in a lot only when nothing is left to price, *)
(* and it has emptied every lot older than one it has drawn from.           *)
(***************************************************************************)
DrawInOrder(r, l) ==
    /\ l \in Fetched(r)
    /\ draw[r][l] <= seen[r][l]
    /\ draw[r][l] < seen[r][l] => need[r] = 0
    /\ ~poisoned[r] => l \in wrote[r]
    /\ \A m \in Fetched(r) : Before(m, l) => draw[r][m] = seen[r][m]

LoopInv ==
    \A r \in Req :
        /\ pc[r] \in {"idle", "list", "lock"} => \A l \in Req : draw[r][l] = 0
        /\ pc[r] \in {"spend", "commit"} => todo[r] = {}
        /\ Active(r) =>
              /\ \A m \in snap[r] \ todo[r] : m \in held[r] \/ m \notin VisibleLots(r)
              /\ \A l \in Req : draw[r][l] > 0 => DrawInOrder(r, l)

\* A lot has lost exactly what the committed requests drew from it, whatever
\* overlapped, failed half-way or was deleted since: no unit is priced twice
\* and none disappears, although the errors of UpdateLotRemaining are dropped.
Conservation ==
    \A l \in lots : rem[l] + DrawnFrom(l) = arg[l].toAmount

\* A transfer and its lot come and go together, and its fee expenses never
\* outlive it: all or nothing on commit, the cascade on DELETE.
TransferWhole ==
    /\ lots = {t \in transfers : MakesLot(arg[t])}
    /\ \A r \in Req : arg[r].kind = "transfer" /\ r \notin transfers
          => <<r, "spend">> \notin expenses /\ <<r, "source">> \notin expenses

\* Lots are locked oldest first, so a request only ever waits for a lock newer
\* than all those it has: the waits of several requests cannot form a cycle.
LocksInOrder ==
    \A r \in Req : \A l \in held[r] : \A m \in todo[r] : Before(l, m)
-----------------------------------------------------------------------------
(***************************************************************************)
(* What a step may never do.                                               *)
(***************************************************************************)
\* The stock of a lot only goes down: neither an aborted request nor the
\* deletion of the expense that used it gives anything back.
LotNeverRefilled ==
    [][\A l \in lots \cap lots' : rem'[l] <= rem[l]]_vars

\* r commits in this step a pricing made from lots.
Prices(r) ==
    /\ ~Committed(r) /\ Committed(r)'
    /\ NeedsLots(arg[r])

\* First in, first out across concurrent requests: when a request commits a
\* draw from a lot, every older lot it was offered is empty or deleted.
FifoOrder ==
    [][\A r \in Req : Prices(r) =>
          \A l \in Req, m \in snap[r] :
              draw[r][l] > 0 /\ Before(m, l) => m \notin lots' \/ rem'[m] = 0]_vars

\* A committed base amount is the sum of the units drawn, each at the rate of
\* its own lot; it covers the whole amount unless every lot offered is used up
\* or deleted, and is NULL only if no lot had any stock left for the request.
PricedFromStock ==
    [][\A r \in Req : Prices(r) =>
          LET drawn == SumFunctionOnSet(draw[r], Req)
              dry == \A m \in snap[r] : m \notin lots' \/ rem'[m] = 0
          IN  /\ base[r] # Null =>
                    base[r] = SumFunctionOnSet([l \in Req |-> draw[r][l] * arg[l].rate], Req)
              /\ drawn <= EffectiveAmount(arg[r])
              /\ drawn < EffectiveAmount(arg[r]) => dry
              /\ base[r] = Null => dry /\ drawn = 0]_vars
-----------------------------------------------------------------------------
(***************************************************************************)
(* Liveness.                                                               *)
(***************************************************************************)
\* Every request whose transaction has opened is answered: it waits neither
\* for ever for a lot, nor for a connection.
Answered == \A r \in Req : Active(r) ~> pc[r] \in {"ok", "failed"}

\* Every DELETE of a transfer ends, however many requests use its lot.
DeleteEnds == \A t \in Req : t \in deleting ~> t \notin deleting
-----------------------------------------------------------------------------
\* The comment at Commission2 in CreateTransfer: it "consumes from the FIFO lot
\* created above", the one the same transfer has just opened.
FeeUsesOwnLot ==
    \A r \in Req : \A l \in Req :
        Committed(r) /\ MakesLot(arg[r]) /\ draw[r][l] > 0 => l = r

\* schema.sql: rate_to_base is "how many base_currency units per 1 unit of
\* account currency".  It is applied to units of the lot's own currency only.
UnitsAgree ==
    \A r \in Req : \A l \in Req :
        Committed(r) /\ draw[r][l] > 0 => EffectiveCurrency(arg[r]) = arg[l].toCurrency
-----------------------------------------------------------------------------
(***************************************************************************)
(* The row locks make every pricing one atomic step of CostBasis.           *)
(***************************************************************************)
\* A request whose ListAvailableLots failed has not seen any lot.
Abstractly(r) ==
    IF ~Active(r) THEN pc[r]
    ELSE IF pc[r] = "list" \/ ~NeedsLots(arg[r]) \/ (poisoned[r] /\ snap[r] = {}) THEN "open"
    ELSE "looked"

Atomic == INSTANCE CostBasis WITH
    base <- [r \in Req |-> IF Committed(r) THEN base[r] ELSE Null],
    status <- [r \in Req |-> Abstractly(r)],
    known <- snap

\* Every run of the handlers is a run of CostBasis: a request that commits has
\* priced its amount as if it had been alone at the moment of its commit.
ImplementsCostBasis == Atomic!Spec
=============================================================================
