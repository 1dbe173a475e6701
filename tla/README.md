# Verification of lifepilot-finance-service

A Go service (Connect RPC over HTTP, PostgreSQL through pgx and sqlc) that keeps
a household's accounts: expenses, incomes, transfers, balances, statistics, and
the cost basis of foreign money in FIFO lots. This directory holds TLA+ models
of it, the TLC runs that check them, and proofs checked by TLAPS.

## 1. The system

The process keeps no state of its own: all of it is in PostgreSQL, and what the
handlers share is the tables, the row locks and the connection pool. Requests run
concurrently, in goroutines, at READ COMMITTED. Nothing runs in the background.
Several instances may run beside each other, as they do while a release rolls out.

| Component | State | Operations | Interaction |
|---|---|---|---|
| Cost-basis pricing, `computeBaseAmount` (`expense.go:138-180`, `lot.sql`) | `account_lots` | `CreateLot`, `ListAvailableLots ... FOR UPDATE`, `UpdateLotRemaining` | called inside the transactions of `CreateExpense` and `CreateTransfer` |
| Expense handlers (`expense.go`) | `expenses` | create, update, delete, list | price through the lots; owner copied from the account |
| Transfer handlers (`transfer.go`) | `transfers` | create (with up to two fee expenses and one lot), delete, list | open lots, insert expenses; DELETE cascades to both |
| Income handlers (`income.go`) | `incomes` | create (with a fee expense), update, delete, list | insert an expense; DELETE cascades to it |
| Account handlers (`account.go`) | `accounts` | create, update, deactivate, list | balances are computed from the other tables at each read |
| Statistics (`stats.go`) | none | month, year, all time | read `base_amount` of expenses |
| Read-only lists (`category.go`, `currency.go`, `user.go`) | seed data | one SELECT each | none |
| Conversions (`shared.go`) | none | text, float64, NUMERIC, UUID, dates | used by every handler |
| Server (`cmd/server/main.go`) | the migration lock, the pool | migrate with retries, serve, shut down | runs before and around everything |
| Schema (`schema.sql`), migrations | the tables | foreign keys with CASCADE and SET NULL, one CHECK | what holds between tables |
| Generated code (`gen/`, `client/gen/`, `*.sql.go`), historical data scripts (`*.py`, `migrate_*.sql`), tests | | | |

What is hard, and what makes each component correct:

- **Pricing.** Two requests on one account read the same lots and write
  `remaining` as an absolute value; the errors of the lot statements are dropped; a
  transfer may be deleted, and its lot with it, while a purchase waits for that lot;
  lots are locked one after another; a waiting transaction keeps its pooled
  connection. Correct means: no draw is lost or counted twice, oldest lot first even
  across concurrent requests, a base amount that is the price of exactly the units
  drawn, no deadlock, an answer to everyone.
- **Writers.** Fee expenses may be edited, moved or deleted by themselves and must
  still go with their owner; an expense that moves to another account takes on
  that account's owner.
- **Balances.** Four queries outside a transaction, per account, while others write.
- **Lists.** Which filter counts depends on which others are given, and ends of
  windows are open: rows at a border, and rows that a balance counts and a list does not.
- **Statistics.** Calendar arithmetic in two places, and two time zones. Correct means
  that a month, its year and all time say the same.
- **Conversions.** Everything stored goes through float64 and eight decimals, again and
  again for a lot. Correct means that the error does not grow beyond what each rounding
  may add, and that no odd amount (negative, dust) turns the arithmetic around.
- **Server.** Several instances compete for one migration lock, and may die holding it,
  while their session at the database lives on and keeps it; a signal finds calls waiting
  for connections, and HTTP/2 connections the server does not know; the acknowledgement of
  a write may be lost. Correct means that no migration is applied twice or left out, that
  nobody serves a schema older than its release, that no write is sent twice, and that
  starting and stopping end.

`PROJECT.json` lists these hazards at their lines, with the property that covers
each or the reason why none does.

## 2. Modules

| Module | What it is |
|---|---|
| `Requests` | The request messages that touch lots, and the pure decisions on them: which amount counts (`UsesCharge`), whether a lot is opened (`MakesLot`), whether lots are needed (`NeedsLots`), the order of lots (`Older`). |
| `LotPricing` | `CreateExpense`, `CreateTransfer`, `DeleteTransfer`, `DeleteExpense` and the database, statement by statement. |
| `CostBasis` | The abstract ledger: a request looks at the lots, then settles in one atomic step whose draws are a closed formula, not a loop. |
| `LotPricing_proofs`, `CostBasis_proofs` | Theorems about `LotPricing`: locks and loop; then all that speaks of sums, the refinement of `CostBasis` included. |
| `Books` | The four tables the handlers write and every handler that writes them, each one step; the balance as four sums. |
| `Balances` | A reader of balances, query by query, beside the writers of `Books`. |
| `Listings` | `ListExpenses`, `ListIncomes`, `ListTransfers`: which rows of `Books` answer which request, and the messages made of them. |
| `Calendar` | Days, months and years as Go's `time` and SQL's EXTRACT compute them. |
| `Statistics` | `GetMonthStats`, `GetYearStats`, `GetAllTimeStats` over the expenses of `Books`. |
| `Decimals` | Lots, draws and base amounts of one account with the rounding of each. |
| `Server` | `main` and `runMigrations` of several instances, the pool, and calls under way. |
| `Sums` | Facts about sums over finite sets, for any module that adds up. |
| `Books_proofs`, `Calendar_proofs`, `Reports_proofs`, `Decimals_proofs`, `Server_proofs` | Theorems about `Books`, `Calendar`, the readers of `Books` (`Listings`, `Statistics`, `Balances`), `Decimals` and `Server`. |
| `MCLotPricing`, `MCBooks`, `MCReports`, `MCBalances`, `MCDecimals`, `MCServer` | Small instances for TLC. |

What extends what: `Requests` <- `LotPricing` (which instantiates `CostBasis`);
`Books` <- `Balances`, `Books` <- `Listings` <- `Statistics`, with `Calendar`.
`Decimals` and `Server` stand for themselves: the first takes from `LotPricing` that a
pricing is one atomic step, the second reduces each handler to its use of the pool.

### LotPricing

A request `r` is a handler with its transaction; `pc[r]` is where it is: `idle`, `list`
(about to send `ListAvailableLots`), `lock` (the statement is running), `spend` (in the
loop), `commit`, then `ok` or `failed`. Since every row a request inserts belongs to
it, rows are named after the request.

| Action | Code |
|---|---|
| `Begin` | `BeginFunc`, `GetAccount`, the INSERTs of transfer, first fee and lot |
| `ListAvailableLots`, `ListFails` | the SELECT starts: its snapshot fixes `snap`; or fails, with its error dropped (`expense.go:155`) |
| `LockLot`, `SkipLot` | FOR UPDATE locks the next row in the ORDER BY, waiting for its holder, and reads it anew; a deleted row is passed over |
| `StartLoop`, `Consume`, `EndLoop` | the loop; each turn with `UpdateLotRemaining` succeeding or not (`written`) |
| `Commit`, `InsertFails`, `Fail` | the INSERT of the expense and COMMIT; its failure after any failed statement; every other error, a lost connection, a crash |
| `BeginDelete`, `FinishDelete`, `AbortDelete` | `DeleteTransfer`: its row, then the cascade, which waits for the lot |
| `DeleteExpense` | one DELETE |

What PostgreSQL and pgx do is not in the repository. It is modelled from the use
made of it and marked external: snapshot per statement, row locks to the end of the
transaction with a re-check of the row after the wait, a failed statement that dooms
its transaction, `BeginFunc` that rolls back on error, `pgxpool` with `PoolSize`
connections. The statements of `Begin` are one step: none waits for a lock that
another handler keeps, and their rows are private until commit. One conflict is left
out with that: a fee or a lot refers to the request's own transfer only, and a link
to another transfer (`linked_transfer_id`) is in `Books`, not here.

Amounts and rates are natural numbers here; sign and rounding are in `Decimals`.
`created` never repeats, while `created_at` is NOW(), which has microseconds and may be the
same for two transactions, and `lot.sql:9` has no third key. It stands for the order by
`created_at` and, among lots that are equal there, for the order in which the database
returns them, taken to be the same for every statement. Of a database that returns two
such lots now in one order and now in the other, `LocksInOrder` and all that
rests on it say nothing.

### CostBasis

`Atomic == INSTANCE CostBasis WITH base <- ..., status <- ..., known <- snap` in
`LotPricing` maps a request that is between its SELECT and its end to `looked`, its
locks and its loop to nothing, and hides base amounts that are not committed.
`ImplementsCostBasis` says that every interleaving of statements is then a run of
the ledger: whatever overlapped, a request that commits has priced its amount as if
it had been alone at its commit, from the lots it was offered. The arms of
`Abstractly` exclude each other: a request that has ended is nothing but ended, whatever
it needed.

### Books and Balances

Each handler is one step of `Books`: it is one statement, or one transaction that
only inserts (its rows appear together), or, for `UpdateExpense`, a read of an
account whose owner never changes and which is never deleted, then one statement.
A table is a function from primary keys to rows. `used` holds the ids handed
out, since `gen_random_uuid` does not repeat one. How amounts are priced
belongs to `LotPricing`: here a base amount in another currency is any of `Bases`
or Null. `Coalesce` is the SET clause of the UPDATE statements, `TransferFees`,
`IncomeFees` and `LinkAfter` are the foreign keys' ON DELETE rules.

`Balances` adds one reader to `Books`: `ListAccounts` or `UpdateAccount` reads
account rows, then `AskExpenses`, `AskTransfersOut`, `AskTransfersIn`,
`AskIncomes` in this order for each account, with any writer between any two of
them. One reader is enough, since readers change nothing. `still` remembers
whether an entry of the account changed since its first query.

### Listings, Calendar and Statistics

Each procedure is one SELECT and changes nothing: it is an operator on the state of
`Books`, named like the query, and a request is a record of the message's fields. An
answer is a set of messages; its order is left out. `ListExpenses` and `ListIncomes`
take the first filter that applies, in the handler's order: account (with window), user,
both dates, none.

`Calendar` numbers days and computes a date as `time.Date` does, with months and days
that carry over, and EXTRACT as the year and month of the shifted instant. The time zone
of the database session is a constant of `Statistics` (`Zones`), since the queries depend
on it and no code sets it. `formatAmount` rounds to hundredths; totals are exact before.

### Decimals

One account, one request at a time. A stored number is an integer of units, the eighth
decimal; what clients send is an integer of grains, `Grains` to the unit, so that a tie, dust
below `1e-9` and several digits beyond the eighth are all there. `numericFromFloat64`
returns the nearest unit, and either of them at a tie, since a decimal tie has a
float on either side. `CreateLot` rounds amount and rate; `CreateExpense` is the loop:
`Consume` is what it takes from each lot, `RemainingAfter` what is written back.
`sent`, `drawn` and `inexact` remember what the properties compare with.

### Server

`phase[i]` is where `main` is in instance `i`; `call[c]` is a request of client `c`
with how many uses of the pool it has left, whether it has a connection and how many
writes it has stored. `sessions` are the sessions at the database that hold the migration
lock: each belongs to an atlas process that some instance has started (`of`), remembers
whether that process has ended without it (`left`) and which migration of its list comes
next (`next`).

| Action | Code |
|---|---|
| `Start` | up to `runMigrations` |
| `TakeLock`, `LockBusy` | one turn of the loop: `MigrateApply` gets the lock, or "lock is held by other session" and, at the last attempt, `os.Exit(1)` |
| `ApplyOne` | the next migration of the list a session made when it got the lock, a transaction of its own; by a session that was left behind as well |
| `MigrateDone` | `MigrateApply` returns and gives the lock back |
| `SessionEnds` | a session ends, and the lock with it: the database notices that the client is gone, is restarted, or loses the connection of a client that is not gone, whose `MigrateApply` then fails |
| `OpenPool` | `pgxpool.New`, the routes, `ListenAndServe` |
| `Fails`, `Killed` | every `os.Exit(1)`; SIGKILL at any moment. The process ends, its session does not (`LeftBehind`): until `SessionEnds`, if ever, others find the lock busy, the same instance started anew among them |
| `Send`, `TakeConn`, `UseDone`, `UseFails`, `PoolClosed`, `Answer` | a handler: it takes a connection for each query or transaction, one at a time |
| `Signal`, `DrainEnds`, `ClosePool` | the signal, `Shutdown` returning with or without its deadline passed, the deferred `pool.Close` |

What `Shutdown` does and does not wait for: the server forgets a connection that the
h2c handler takes over, so `Tracked` has the HTTP/1 calls only, and HTTP/2 clients may
send new requests until the process ends (`Reaches`). `main` does not return at the end of
the ten seconds either: the deferred `pool.Close` waits until every connection that is
lent is back, so a transaction under way is not cut off, while a call that still waits
for a connection gets `ErrClosedPool`.

A use that fails (`UseFails`) may have written or not: a statement or a transaction
that meets an error is rolled back, but one whose acknowledgement is lost, with the
connection or the context, is done, and the handler answers `CodeInternal` in both cases.
What is the same in both is that the handler does not try again.

Atlas and the advisory lock are external. From the use `main.go` makes of them it is taken
that the migrations under a lock go through the session that has it, so that they end with
it, and that atlas lists what is pending once it has the lock.

## 3. Runs

All bounds are in the `.cfg` files and the MC modules.

| Run | Question | Instance | Distinct states |
|---|---|---|---|
| `lots_contention` | Do the lots keep their books whatever overlaps and fails? | 2 transfers with lots of 2 and 1 units, in either order of their dates, the second with a fee; 2 purchases of 2 units; 4 connections | 614 000 |
| `lots_refinement` | Is every interleaving one of the atomic ledger? | 2 transfers and a purchase with every kind of input: no rate, destination in EUR or outside, both fees, charged amounts, amount zero | 296 000 |
| `lots_answered` | Is everything that began answered? | 2 lots, 2 purchases that need both, 2 connections, deletions | 80 000 |
| `books` | Do references and owners survive edits, moves and deletions? Do lists, balances and statistics agree in every state? | 2 users, 2 accounts of either currency and owner, 2 inserting requests, deletions and one edit of each kind any number of times; ids are symmetric; rows dated noon of the last day of 2023 and midnight of the first of 2024, sessions in UTC and on either side of it, months asked for from -10 to 14 | 16 000 |
| `books_balance_reads` | What is a balance worth that is read while others write? | the accounts of `books` with one request of each kind, and a reader | 544 000 |
| `server` | Do instances that start, serve, stop and die in any order keep the schema and the calls right, and come to an end, whatever sessions they leave behind? | a release with 1 migration beside one with 3, 3 attempts, 1 connection each, 2 clients, one of them over HTTP/2 | 80 000 |
| `decimals` | How wrong do roundings make a lot and a base amount? | 2 lots, 3 expenses; 20 grains to a unit, dust of 2; amounts -30, 1, 2, 10, 31 and 60 grains, rates of 1, 5 and 14 tenths of a unit | 1 794 000 |
| `lots_fee_own_lot`, `lots_foreign_currency`, `books_transfer_fees`, `books_foreign_purchases`, `books_income_base` | Is a comment of the repository true? (no: section 6) | small | |

Why these bounds are enough for the cases that matter. Two lots and two
consumers are the smallest instance with a conflict on one lot, a conflict on two
in a fixed order, a purchase that spans lots, one that finds a lot emptied or
deleted while it waited, one that exhausts them, and a back-dated lot opened while
another request holds the newer one. Lots of 1 and 2 units make every case of
`min(remaining, lotRemaining)` occur: equal, less, more. Two inserting requests in
`Books` give every pair (a transfer and its link, an income with its fee and a
purchase, and so on), and since edits and deletions are not bounded, every
sequence of them on those rows. The two dates of `MCReports` lie half a day apart on
either side of the new year, so that in each of the three time zones another one, both
or none of them has changed years; a window can end at, before and after each.
The amounts of `MCDecimals` are a tie, a number past a tie, one below and one at the
threshold of `1e-9`, a whole number of units and a negative; two roundings of one lot
and one across both lots fit into three expenses. In `MCServer` one pooled connection is
what makes calls wait for each other, and two instances what makes one wait for the
lock of another, or of a session nobody is behind any more: with three attempts it may get
the lock at once, after waiting, or never.
The procedures called are `UpdateExpense` (one or two uses of the pool, the last writes)
and `UpdateAccount` (the first writes), which stand for the patterns of all others.

The model of `LotPricing` ends when every request is answered; `Quiescent` stutters
there, so that TLC's deadlock check stays on and reports any real wait without end.
`Books`, `Balances` and `Server` never stop; `Decimals` stutters (`Full`) at its bound.

### Properties

`LotPricing`:
- `NoLostUpdate`: what a request has read of a lot it locked stays true until its
  transaction ends, so that an absolute `UpdateLotRemaining` is safe.
- `Conservation`: what a lot has lost is what committed requests have drawn from it.
- `TransferWhole`: a transfer, its lot and its fees come and go together.
- `LocksInOrder`: a request waits only for locks newer than those it has: no deadlock.
- `LotNeverRefilled`, `FifoOrder`, `PricedFromStock` (action properties): stock only
  goes down; a committed draw leaves nothing in an older lot; a base amount is
  the sum of the units drawn at their lots' rates, partial or NULL only when every
  lot that was offered is empty or gone.
- `Answered`, `DeleteEnds` (liveness); `ImplementsCostBasis` (refinement).
- `LockingInv`, `LoopInv`: the inductive invariants of section 5.

`Books`: `NoDangling`, `OwnerFollowsAccount`. `Balances`:
`ExactWhenStill`, a balance is exact for the row it was listed with if no entry of
that account changed while its four totals were read. It says nothing across
accounts, and rightly: the sum over accounts may count a moved expense twice.

`Listings`: `WindowsTile`, a window cut at any instant gives every row once;
`ListsExplainBalance`, what a client adds up from the lists is the balance the service sums
up in SQL. `Statistics`: `MonthsFillTheYear` (each expense of a year is in exactly one of
its months, and the entries of the year are what the months say), `YearsFillAllTime` (so
are those of all time; where the session's time zone is not UTC only unless an
expense lies between the two new years: the exception is the hazard at `stats.sql:15`,
and it is exact), `MonthsWrap` (the days averaged over are the days summed up),
`UserViewsAgree` (statistics, list and accounts of a user show the same priced expenses).

`Decimals`: `LotsOnlyFall`; `DriftBounded` (what a lot has lost differs from what was
drawn by at most half a unit for each draw finer than eight decimals, and not at all without
those); `StockUsedUp`; `PriceBounded` (a base amount is right to half a unit, and half a
unit of the rate per unit drawn).

`Server`:
- `AppliedOnce`: what a session is about to apply is the first migration the database
  lacks, though it made its list when it got the lock: the lock is enough to have each
  applied once and in order, also by sessions whose process is gone and for a second
  instance, or the same one again, that comes meanwhile. That lock is also what makes
  others wait, and run out of attempts, for as long as such a session stays.
- `ServesOnTarget`: who serves finds the migrations of its release applied.
- `WritesOnce`: a handler that comes to an answer has written once, one that fails at
  most once, known to its client or not.
- `RefusedStoredNothing`: whom the closing pool refuses has stored nothing, so that its
  request may go to another instance; except `UpdateAccount`, which reads after it writes.
- `StopAnswers`: an instance that stops within its ten seconds leaves no HTTP/1 call open.
- `Decides` (who starts serves or ends), `StopEnds`, `CallsEnd` (liveness).

Each property has a mutant in `PROJECT.json`: a change to one definition, the
kind of bug one would make in that code (FOR UPDATE dropped, ORDER BY lost, the
cascade forgotten, COALESCE forgotten), under which TLC finds it violated. The
operators with a comment `Mutation:` in the modules are these changes; nothing else
uses them.

## 4. Fairness

`lots_answered` assumes weak fairness of `Advance(r)` for each request and of
`FinishDelete(t)` for each DELETE: the goroutine of a request is scheduled, a
statement that was sent is answered, and a lock that stays free is granted. Weak is
enough: the holder is never in a position to take the lock back, as it releases it
only by ending. It is not assumed that a request begins, that an error occurs,
that a deletion starts, or that connections are handed out in any order.

`server` assumes weak fairness of each step an instance or a handler takes by itself:
goroutines are scheduled, attempts and pauses end, `Shutdown` has its deadline, and a
statement is answered (that no wait for a row lock is for ever is what `lots_answered`
shows). `TakeConn` has strong fairness: `pgxpool` hands a connection to those who wait in
the order in which they came, so that one who waits is not passed over for ever, though
the connection is taken and free again and again. Nothing is assumed of clients,
signals, failures, kills and `UseFails`, nor of sessions that are left behind: they may
apply what is left or not, and may keep the lock for ever. `Decides` does without, since
the attempts are counted.

## 5. Proofs

Checked by `tlapm` on `Sums` and the modules `*_proofs`, for every value of the constants:
any requests, accounts, currencies, amounts, dates, decimals, instances and pool size.
Every property of a passing run is a theorem, except the five liveness properties.

Assumptions, all of them evaluated by TLC in the runs:
- `EUR` is a currency and `Null` is none of the values it stands beside
  (`CurrencyAssumption`, `NullAssumption`, `SentinelAssumption`);
- requests are of the types of the messages, a purchase has an account and an amount
  (`CmdsAssumption`, `RequestsAssumption`, `InstantsAssumption`), and there are finitely
  many of those that touch lots, at any time a service has run (`ReqAssumption`);
- the pool has a connection (`PoolAssumption`, `ServerAssumption`);
- a unit is ten times the dust of `1e-9`, or `10^-8` (`DecimalsAssumption`); how many
  grains a rate has, and how many units are in 1, is left open;
- the calendar: years are counted from 0 (`DayAssumption`), and `Years` has those a client
  asks for, with months carried over (`StatsAssumption`), and those of the dates that
  requests give to expenses, in each time zone (`YearsAssumption`). `Years` bounds the
  search of EXTRACT for TLC; the service has no such bound, and all of `Nat` is a value
  that satisfies both as long as no date is before the year 0.

| Theorem | Statement |
|---|---|
| `TypeCorrect`, `RowLocks`, `LoopRight`, `PricingRight` | `Spec => []TypeOK`, and so for `LockingInv`, `LoopInv`, `PricingInv` |
| `NothingLost`, `AllOrNothing`, `DeadlockFree` | `Spec => []NoLostUpdate`, `[]TransferWhole`, `[]LocksInOrder` |
| `NothingCreated` | `Spec => []Conservation` |
| `NeverRefilled`, `FirstInFirstOut`, `PricedRight` | `Spec => LotNeverRefilled`, `FifoOrder`, `PricedFromStock` |
| `AtomicPricing` | `Spec => ImplementsCostBasis`, the refinement |
| `BooksTypeCorrect`, `NothingDangles`, `OwnersFollow` | the three invariants of `Books` |
| `TablesFinite`, `DatesAreGiven` | `Spec => []FiniteTables`, `[]DatesKnown` |
| `WindowsCut`, `BalancesExplained` | `WindowsTile`, `ListsExplainBalance` |
| `UsersAgree`, `MonthLengthsAgree`, `MonthsAreTheYear`, `AllTimeIsTheYears` | `UserViewsAgree`, `MonthsWrap`, `MonthsFillTheYear`, `YearsFillAllTime` |
| `ExactBalances` | `ReaderSpec => ExactWhenStill` |
| `DecimalsRight`, `DecimalsTyped`, `DriftIsBounded`, `PriceIsBounded` | `DecimalsInv` and the three invariants it consists of |
| `OnlyFalls`, `StockIsUsedUp` | `LotsOnlyFall`, `StockUsedUp` |
| `ServerInvariant` | `Spec => []ServerInv` |
| `ServerTypeCorrect`, `MigrationsOnce`, `TargetReached` | `Spec => []TypeOK`, `[]AppliedOnce`, `[]ServesOnTarget` |
| `CallsWriteOnce`, `RefusedUntouched`, `AnsweredInTime` | `WritesOnce`, `RefusedStoredNothing`, `StopAnswers` |

**Sums.** The models add up with `SumFunctionOnSet`, a fold, which is a function defined
by recursion on subsets. An induction theorem that takes a predicate as its parameter
cannot be used here, but a set of counterexamples can be named: `SmallestSubset` says that
of any nonempty set of subsets of a finite set one is minimal (strict inclusion is well
founded). `SumExists` and `SumEquation` take the smallest subset on which the recursive
function would be wrong; the other lemmas (a sum without one term, the sum of two sums,
a sum split in two, renamed terms, a smaller sum) follow from the equation, each again
by a smallest counterexample.

**Locks and loop of `LotPricing`.** `NoLostUpdate` alone is not inductive: to know that
a commit of `s` does not change a lot `r` has locked, one needs that `s` writes only
lots it has locked itself (`WritesLocked`) and that locks are exclusive
(`LocksExclusive`); to know that a lock is on something that stays, that only an open
transaction holds locks (`OnlyActiveHold`), that visible lots of others are committed
(`LotsCommitted`, `SnapCommitted`), and that deletions wait. `LockingInv` is the
conjunction, and inductive. `LotNeverRefilled` follows: a committed write is
`seen - draw` of a lot whose `seen` is still its `remaining`. `LoopInv` says what
the loop has done so far: it has drawn only from lots it fetched, emptied every lot
older than one it has drawn from, and left something only when nothing was left to
price. With `LockingInv` it gives `FifoOrder` at the commit. `LocksInOrder` rests on
the order being total on the lots one can see, which holds since `created` never
repeats among transactions that have begun.

**Amounts of `LotPricing`.** `PricingInv` is the arithmetic while a transaction is open:
what is still needed and what was drawn are the amount (`Priced`), the base total is the
worth of the draws, the loop ends with nothing left to price or no lot to draw from
(`Ended`), a request that needs no lot has looked at none (`Direct`), and nobody else has
drawn on a lot whose transfer is not committed (`LotsWhole`, `DrawnCommitted`). At a
commit (`CommitTakes`, `CommitDraws`) each lot loses exactly what was drawn, although the
code writes a difference from what it had read: with that, `Conservation` is kept by
the one step that changes either side, and `PricedFromStock` is what a commit finds.

**The refinement.** Each step is mapped by itself: `Begin` is `Open`, the SELECT is
`Look`, a commit is `Settle`, every failure is `GiveUp`, and locks and loop are
stutters. What is hard is `Settle`: the ledger computes each draw by a closed formula from
the sum of the older lots (`Share`), the code by a loop. `DrawIsShare` shows that they
agree: if the loop has emptied all lots older than `l` and left something only when
nothing was left to price, then what it has drawn from `l` is the share of `l`. That
needs lots to be totally ordered, hence `Stamped`: no two transactions that have begun have
the same stamp.

**`Books`.** `NoDangling` and `OwnerFollowsAccount` are inductive together with `TypeOK`:
accounts are never deleted and no action changes their owner, an inserted row names rows
that are there, and each DELETE takes with it, or unlinks, exactly the rows that refer to
its key. `FiniteTables` and `DatesKnown` are inductive by themselves.

**Lists and balances.** `WindowsTile` is a fact about intervals that are open at one end,
lifted through the choice among four queries. For `ListsExplainBalance`, each of the four
sums in SQL over rows is a sum over messages with its terms renamed, as a message names its
row (`RowsNamed`, `SumOfMessages`): what is left to show is that query and conversion
choose the same rows. `ExactWhenStill` needs what the reader has added up so far to be what
the queries would add up now, as long as nothing of the account has changed
(`ReaderInv`), and that a write to other accounts changes none of the four totals
(`TotalsOfEntries`, `TransfersOfEntries`).

**Statistics.** `UserViewsAgree` follows from `NoDangling`, `OwnerFollowsAccount` and the
invariant that nobody prices the fee of an income (`IncomeFeesUnpriced`), the one kind
of expense whose user may not be the owner. For the rest, `Calendar_proofs` shows that a year
and a month carried over give the same date (`SameDate`), that firsts of months are
ordered and fill the year (`MonthsFollow`, `MonthsOrdered`), hence that a day lies in one
month only (`CivilDay`, `MonthOfDay`), that its number in the month is the distance from
the first (`LengthOfMonth`), and that an instant is past a midnight exactly if its day is
(`InstantDay`). With these, the window of instants that one query uses and the month that
EXTRACT gives in the other choose the same rows (`MonthsOfRows`, `YearOfRows`): the groups of
`MonthsFillTheYear` and `YearsFillAllTime` are the same sets, hence have the same
totals. The exception in `YearsFillAllTime` is what the proof of `YearOfRows` needs, no more.

**`Decimals`.** `DriftBounded` and `PriceBounded` become inductive with the bound on each
rate (`RatesRounded`) and with the lots of a pricing being still there (`DrawsWithin`).
A draw is between nothing and what remains (`Consumed`), and rounding never crosses a
whole number of units (`RoundedBetween`) and keeps one (`RoundedExact`): hence `LotsOnlyFall`,
and a lot that was used up in grains is empty in units. For `StockUsedUp`, if the loop had
left a lot with something, take the oldest such lot: all before it were used up, so the loop
came to it with more than dust to price, and would have used it up.

**`Server`.** To the invariants that are checked, `ServerInv` adds that one session at most
has the lock, and that its instance is applying unless the session was left behind
(`OneSession`): then nobody else moves `schema` between the list a session makes and its
last migration, which is what keeps `AppliedOnce`, and `MigrateDone` finds the target
reached. An open call is at an instance that serves (`OpenIsServed`), a connection is lent
only for a use to come (`LentForUse`), and what an open call has stored follows from its
procedure and the uses it has left (`StoredSoFar`): nothing before the use that writes, one
write after it. `WritesOnce` and `RefusedStoredNothing` are the steps in which a call
ends. `ClosesDrained`, that the pool closes in time only with no HTTP/1 call open, gives
`StopAnswers`, since only `ClosePool` stops an instance.

Only model-checked: the liveness properties (`Answered`, `DeleteEnds`, `Decides`,
`StopEnds`, `CallsEnd`), since neither ENABLED nor fairness is within this prover's
reach; and that the disagreements of section 6 are there. That the models are faithful to
the code is shown by neither: `PROJECT.json` maps each definition to its lines.

## 6. Where the code and its documentation differ

Each run below checks one statement of the repository and finds it violated.

| Run | Statement | What the code does |
|---|---|---|
| `lots_fee_own_lot` | `transfer.go:123`, `handler_integration_test.go:602`: Commission2 "consumes from the FIFO lot created above" | the oldest lot with stock pays (`lot.sql:9`); the test has only one |
| `lots_foreign_currency` | `schema.sql:139`: the rate is "per 1 unit of account currency" | a purchase in a third currency is subtracted from the lots unit for unit (`expense.go:154-171`) |
| `books_transfer_fees` | `account.sql:33`, `schema.sql:86`: transfer fees are "excluded from balance" | the query does not exclude them (`account.sql:41-44`). The tests want them counted, and from_amount without them (`handler_integration_test.go:222-223`), against `schema.sql:60` |
| `books_foreign_purchases` | `account.sql:34`: "Uses chargedAmount when currency differs" | without a charged amount the foreign amount is summed (`account.sql:38`) |
| `books_income_base` | `schema.sql:117`: base amount of incomes "computed at insert" | never set (`income.go:64-74`) |

Not checked by a run, of the same kind: `schema.sql:62` and `transfer.proto:27` call
the rate "from_currency per to_currency" where `transfer.go:104` takes it as EUR per
unit of to_currency; `schema.sql:137` says that incomes create lots, none does.

## 7. Not modelled

- Names, descriptions, notes, payment methods and categories of rows, and the lists of
  categories and currencies: nothing is computed from them.
- What each migration does to the schema, and an old instance on a newer schema:
  `Server` counts migrations only.
- The parsing of malformed input beyond "it becomes NULL": NaN, which pgtype and
  NUMERIC accept as an amount, the zero date, and a malformed user id, which the
  statistics take for "everyone" (`PROJECT.json`, hazards at `shared.go:17` and
  `stats.go:33`).
- The errors of float64 arithmetic itself, in the sixteenth digit: `Decimals` has
  the rounding to decimals only. Sums of balances and totals are exact.
- Refunds (`is_refund`, `refunded_expense_id`): no handler sets them.
- Retries by clients: a request sent twice is two requests, for the service as for the
  models. Who is told of an error cannot know whether its write was stored (`UseFails`).
- A lock session that ends while atlas still applies a migration over another connection:
  `Server` takes both to be one session.
- Descriptors, reflection and clients in the generated code, queries without a caller
  (`GetTransfer`, `ListAllAccounts`, `SetExpenseBaseAmount`, `CreateUser`,
  `CreateCategory`), scripts for historical data, tests.

What would come next: for the liveness properties, the invariants from which an argument
by hand would start (who waits for whom, and what each step brings closer to its end);
instances of different releases on one schema, once a migration removes something.
