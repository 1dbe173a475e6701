------------------------------- MODULE Server -------------------------------
(***************************************************************************)
(* main: instances of the service that start beside each other, migrate the *)
(* schema under one lock, serve calls over a pool of connections each, and  *)
(* stop on a signal, on an error or by being killed.                        *)
(*                                                                         *)
(* A call is a client with its connection to an instance, by HTTP/1 or by   *)
(* cleartext HTTP/2, that sends one request after the other.  Of a handler  *)
(* only its use of the pool is modelled: how often it takes a connection,   *)
(* and in which of these uses it writes.  What it writes is in Books and    *)
(* LotPricing, where an instance that dies is a Fail of each of its calls.  *)
(***************************************************************************)
EXTENDS Integers, FiniteSets

CONSTANTS
    Instances, Calls,
    Http2,          \* the calls over cleartext HTTP/2
    Procedures,     \* what the clients call
    Target,         \* Target[i]: migrations the release of instance i has
    MaxAttempts,    \* 5 in the code
    PoolSize,
    BalanceUses,    \* 4 in the code: the queries of withBalance
    Listed,         \* how many accounts a list may have
    Nobody

\* The routes of each service.
ExpenseService == {"ListExpenses", "CreateExpense", "UpdateExpense", "DeleteExpense"}
TransferService == {"ListTransfers", "CreateTransfer", "DeleteTransfer"}
AccountService == {"ListAccounts", "CreateAccount", "UpdateAccount", "DeactivateAccount"}
IncomeService == {"ListIncomes", "CreateIncome", "UpdateIncome", "DeleteIncome"}
CurrencyService == {"ListCurrencies"}
UserService == {"ListUsers"}
CategoryService == {"ListCategories"}
StatsService == {"GetMonthStats", "GetYearStats", "GetAllTimeStats"}

Mounted ==
    UNION {ExpenseService, TransferService, AccountService, CurrencyService,
           UserService, CategoryService, IncomeService, StatsService}

ASSUME ServerAssumption ==
    /\ Nobody \notin Instances
    /\ Http2 \subseteq Calls /\ Procedures \subseteq Mounted
    /\ Target \in [Instances -> Nat]
    /\ MaxAttempts \in Nat \ {0} /\ PoolSize \in Nat \ {0}
    /\ BalanceUses \in Nat /\ Listed \subseteq Nat

VARIABLES
    phase,      \* what each instance is doing
    attempt,    \* of runMigrations, 1 outside it
    late,       \* Shutdown gave up waiting
    sessions,   \* at the database, those that hold the migration lock
    schema,     \* how many migrations the database has
    call

vars == <<phase, attempt, late, sessions, schema, call>>

Phases ==
    {"down", "stopped", "migrating", "applying", "opening", "serving", "draining",
     "closing"}
\* A session of atlas: for which instance, whether that process has ended and left it
\* behind, and which of the migrations it listed under the lock comes next.
Session == [ of : Instances, left : BOOLEAN, next : Nat \ {0} ]
\* A call ends answered, refused by a closed pool, failed, or cut off with its instance;
\* stored counts the writes that took effect.
CallState ==
    [ at : Instances \cup {Nobody},
      status : {"idle", "open", "answered", "refused", "failed", "cut"},
      proc : Mounted, left : Nat, conn : BOOLEAN, stored : Nat ]

TypeOK ==
    /\ phase \in [Instances -> Phases]
    /\ attempt \in [Instances -> 1..MaxAttempts]
    /\ late \in [Instances -> BOOLEAN]
    /\ sessions \subseteq Session
    /\ schema \in Nat
    /\ call \in [Calls -> CallState]

Unused ==
    [ at |-> Nobody, status |-> "idle", proc |-> "ListUsers", left |-> 0,
      conn |-> FALSE, stored |-> 0 ]

Init ==
    /\ phase = [i \in Instances |-> "down"]
    /\ attempt = [i \in Instances |-> 1]
    /\ late = [i \in Instances |-> FALSE]
    /\ sessions = {} /\ schema = 0
    /\ call = [c \in Calls |-> Unused]
-----------------------------------------------------------------------------
Open(c) == call[c].status = "open"
OpenAt(i) == {c \in Calls : call[c].at = i /\ Open(c)}
Lent(i) == {c \in Calls : call[c].at = i /\ call[c].conn}

Goes(i, p) == phase' = [phase EXCEPT ![i] = p]

\* The sessions of an instance that ends are left behind: atlas may go on without its
\* caller, a backend be busy with a statement, or not have noticed that its peer is gone.
LeftBehind(i) == {[s EXCEPT !.left = @ \/ s.of = i] : s \in sessions}

\* The process ends: its pooled connections close, what was open is rolled back or, if
\* the statement had arrived, done; its caller is not told which.
Ends(i, how) ==
    /\ Goes(i, how)
    /\ sessions' = LeftBehind(i)
    /\ attempt' = [attempt EXCEPT ![i] = 1]
    /\ late' = [late EXCEPT ![i] = FALSE]
    /\ call' = [c \in Calls |->
         IF call[c].at # i THEN call[c]
         ELSE [Unused EXCEPT !.status = IF Open(c) THEN "cut" ELSE "idle"]]
    /\ UNCHANGED schema
-----------------------------------------------------------------------------
(***************************************************************************)
(* Starting.                                                               *)
(***************************************************************************)
Start(i) ==
    /\ phase[i] \in {"down", "stopped"} /\ Goes(i, "migrating")
    /\ UNCHANGED <<attempt, late, sessions, schema, call>>

\* Mutation: the lock of a process that is gone is taken over.
NoneAlive == \A s \in sessions : s.left

LockFree == sessions = {}

\* MigrateApply begins: atlas takes the lock, then lists what is to be applied.
TakeLock(i) ==
    /\ phase[i] = "migrating" /\ LockFree
    /\ sessions' = sessions \cup {[ of |-> i, left |-> FALSE, next |-> schema + 1 ]}
    /\ Goes(i, "applying")
    /\ UNCHANGED <<attempt, late, schema, call>>

\* Mutation: the attempts are not counted.
SameAttempt(i) == attempt[i]

\* Mutation: a lock that is never free is no reason not to serve.
ServesAnyway(i) ==
    /\ Goes(i, "opening") /\ attempt' = [attempt EXCEPT ![i] = 1]
    /\ UNCHANGED <<late, sessions, schema, call>>

NextAttempt(i) == attempt[i] + 1

\* Mutation: one attempt too many.
OneTooMany(i) == attempt[i] > MaxAttempts

IsLastAttempt(i) == attempt[i] = MaxAttempts

\* "migration lock not released after retries", and os.Exit(1).
OutOfAttempts(i) == Ends(i, "down")

\* "lock is held by other session", be it one that this instance has left behind itself:
\* after a pause the next attempt, or none.
LockBusy(i) ==
    /\ phase[i] = "migrating" /\ ~LockFree
    /\ IF IsLastAttempt(i) THEN OutOfAttempts(i)
       ELSE /\ attempt' = [attempt EXCEPT ![i] = NextAttempt(i)]
            /\ UNCHANGED <<phase, late, sessions, schema, call>>

\* One migration, a transaction of its own; at the database it makes no difference
\* whether somebody still waits for it.
ApplyOne(s) ==
    /\ s.next <= Target[s.of]
    /\ schema' = s.next
    /\ sessions' = (sessions \ {s}) \cup {[s EXCEPT !.next = @ + 1]}
    /\ UNCHANGED <<phase, attempt, late, call>>

\* A session ends without its client's doing: the database notices that a client is
\* gone, is restarted, or loses the connection of one that is not.
SessionEnds(s) ==
    /\ sessions' = sessions \ {s}
    /\ UNCHANGED <<phase, attempt, late, schema, call>>

Own(i) == {s \in sessions : s.of = i /\ ~s.left}

MigrateDone(i) ==
    /\ phase[i] = "applying"
    /\ \E s \in Own(i) : s.next > Target[i] /\ sessions' = sessions \ {s}
    /\ Goes(i, "opening")
    /\ attempt' = [attempt EXCEPT ![i] = 1]
    /\ UNCHANGED <<late, schema, call>>

\* The pool connects when it is first used.
OpenPool(i) ==
    /\ phase[i] = "opening" /\ Goes(i, "serving")
    /\ UNCHANGED <<attempt, late, sessions, schema, call>>

\* No DATABASE_URL, no atlas, any other error of MigrateApply or of pgxpool.New, and
\* ListenAndServe failing while others serve: os.Exit(1), past every defer.
Fails(i) ==
    /\ phase[i] \in {"migrating", "applying", "opening", "serving"}
    /\ Ends(i, "down")

\* A signal before signal.Notify, SIGKILL, a crash of the machine.
Killed(i) == phase[i] \notin {"down", "stopped"} /\ Ends(i, "down")
-----------------------------------------------------------------------------
(***************************************************************************)
(* Serving.                                                                *)
(***************************************************************************)
\* How often a handler takes a connection: once, for a query or a transaction.
\* UpdateExpense may read an account first, balances are read query by query.
Uses(p) ==
    CASE p = "UpdateExpense" -> {1, 2}
      [] p = "UpdateAccount" -> {1 + BalanceUses}
      [] p = "ListAccounts" -> {1 + BalanceUses * n : n \in Listed}
      [] OTHER -> {1}

Reads ==
    StatsService \cup {"ListExpenses", "ListTransfers", "ListAccounts", "ListIncomes",
                       "ListCurrencies", "ListUsers", "ListCategories"}

\* UpdateAccount updates, then reads the balance; others write in their last use.
UsesAfter(p) == IF p = "UpdateAccount" THEN BalanceUses ELSE 0

\* Mutation: the row is written before its new account is read.
WritesEarly(c) == call[c].proc \notin Reads

\* The use that is under way writes.
Writes(c) == call[c].proc \notin Reads /\ call[c].left = 1 + UsesAfter(call[c].proc)

Written(c) == call[c].stored + (IF Writes(c) THEN 1 ELSE 0)

\* After Shutdown has begun only connections the server no longer knows bring new
\* requests: those the HTTP/2 handler has taken over.
Reaches(c, i) ==
    \/ phase[i] = "serving"
    \/ phase[i] \in {"draining", "closing"} /\ c \in Http2 /\ call[c].at = i

Send(c, i, p) ==
    /\ ~Open(c) /\ Reaches(c, i)
    /\ \E n \in Uses(p) :
          call' = [call EXCEPT ![c] =
            [ at |-> i, status |-> "open", proc |-> p, left |-> n, conn |-> FALSE,
              stored |-> 0 ]]
    /\ UNCHANGED <<phase, attempt, late, sessions, schema>>

Changes(c, row) ==
    /\ call' = [call EXCEPT ![c] = row]
    /\ UNCHANGED <<phase, attempt, late, sessions, schema>>

Waits(c) == Open(c) /\ ~call[c].conn /\ call[c].left > 0

\* Mutation: a closed pool still lends.
AlwaysLends(i) == TRUE

Lends(i) == phase[i] # "closing"

\* Mutation: a query inside a transaction asks the pool for a connection of its own.
OneMore(c) == 2

\* No handler asks for a connection while it has one.
Needed(c) == 1

TakeConn(c) ==
    /\ Waits(c) /\ Lends(call[c].at)
    /\ Cardinality(Lent(call[c].at)) + Needed(c) <= PoolSize
    /\ Changes(c, [call[c] EXCEPT !.conn = TRUE])

\* ErrClosedPool: the handler answers with CodeInternal.
PoolClosed(c) ==
    /\ Waits(c) /\ ~Lends(call[c].at)
    /\ Changes(c, [call[c] EXCEPT !.status = "refused", !.left = 0])

\* The end of a query, or of a transaction, returns its connection.
UseDone(c) ==
    /\ Open(c) /\ call[c].conn
    /\ Changes(c, [call[c] EXCEPT !.conn = FALSE, !.left = @ - 1, !.stored = Written(c)])

\* Mutation: the handler sends again what has failed.
TriesAgain(c) ==
    /\ Open(c) /\ call[c].conn
    /\ \E n \in {call[c].stored, Written(c)} :
          Changes(c, [call[c] EXCEPT !.conn = FALSE, !.stored = n])

\* An error, answered with CodeInternal: of the statement or the transaction, which is
\* rolled back; or of the connection or the context once a write, or its COMMIT, has
\* arrived: done, and the acknowledgement lost.
UseFails(c) ==
    /\ Open(c) /\ call[c].conn
    /\ \E n \in {call[c].stored, Written(c)} :
          Changes(c, [call[c] EXCEPT !.conn = FALSE, !.left = 0, !.status = "failed",
                                     !.stored = n])

Answer(c) ==
    /\ Open(c) /\ call[c].left = 0
    /\ Changes(c, [Unused EXCEPT !.at = call[c].at, !.status = "answered"])
-----------------------------------------------------------------------------
(***************************************************************************)
(* Stopping.                                                               *)
(***************************************************************************)
Signal(i) ==
    /\ phase[i] = "serving" /\ Goes(i, "draining")
    /\ UNCHANGED <<attempt, late, sessions, schema, call>>

\* Mutation: every connection is taken over by the HTTP/2 handler.
NoneTracked(i) == {}

\* Shutdown waits for the connections the server knows.
Tracked(i) == OpenAt(i) \ Http2

\* Shutdown returns: everything it knows is answered, or ten seconds have passed.
DrainEnds(i) ==
    /\ phase[i] = "draining" /\ Goes(i, "closing")
    /\ late' = [late EXCEPT ![i] = Tracked(i) # {}]
    /\ UNCHANGED <<attempt, sessions, schema, call>>

\* pool.Close returns when every connection is back.
AllBack(i) == Lent(i) = {}

ClosePool(i) == phase[i] = "closing" /\ AllBack(i) /\ Ends(i, "stopped")
-----------------------------------------------------------------------------
Attempt(i) == TakeLock(i) \/ LockBusy(i)
\* MigrateApply ends, with an error if its session did before.
Migrate(i) ==
    \/ \E s \in Own(i) : ApplyOne(s)
    \/ MigrateDone(i)
    \/ phase[i] = "applying" /\ Own(i) = {} /\ Fails(i)

Next ==
    \/ \E i \in Instances :
          \/ Start(i) \/ Attempt(i) \/ Migrate(i) \/ OpenPool(i)
          \/ Signal(i) \/ DrainEnds(i) \/ ClosePool(i)
          \/ Fails(i) \/ Killed(i)
    \/ \E s \in sessions : SessionEnds(s) \/ (s.left /\ ApplyOne(s))
    \/ \E c \in Calls :
          \/ \E i \in Instances, p \in Procedures : Send(c, i, p)
          \/ TakeConn(c) \/ PoolClosed(c) \/ UseDone(c) \/ UseFails(c) \/ Answer(c)

Spec == Init /\ [][Next]_vars

\* The processes run, statements are answered (LotPricing: no wait is for ever), and
\* the pool serves waiters in turn; nothing fails, dies, starts or is called by itself,
\* and a session that is left behind may stay for ever.
Fairness ==
    /\ \A i \in Instances :
          /\ WF_vars(Attempt(i)) /\ WF_vars(Migrate(i)) /\ WF_vars(OpenPool(i))
          /\ WF_vars(DrainEnds(i)) /\ WF_vars(ClosePool(i))
    /\ \A c \in Calls :
          /\ SF_vars(TakeConn(c)) /\ WF_vars(PoolClosed(c))
          /\ WF_vars(UseDone(c)) /\ WF_vars(Answer(c))

FairSpec == Spec /\ Fairness
-----------------------------------------------------------------------------
(***************************************************************************)
(* Properties.                                                             *)
(***************************************************************************)
\* What a session is about to apply is the first migration the database lacks, though
\* it listed them when it took the lock: none is applied twice, skipped or undone, when
\* instances of several releases start, die, leave sessions behind and start again.
AppliedOnce == \A s \in sessions : s.next = schema + 1

\* An instance that takes calls finds at least the migrations of its release, also
\* when it stood in line behind another.
ServesOnTarget ==
    \A i \in Instances :
        phase[i] \in {"opening", "serving", "draining", "closing"} => schema >= Target[i]

\* An instance told to stop answers all that it can within the ten seconds, though over
\* HTTP/1 only.
StopAnswers ==
    [][\A c \in Calls \ Http2, i \in Instances :
          call[c].at = i /\ Open(c) /\ phase'[i] = "stopped" => late[i]]_vars

\* A call whose handler comes to an answer has written exactly once; one that gets an
\* error, whatever the client is left to believe, at most once.
WritesOnce ==
    \A c \in Calls :
        /\ call[c].stored <= 1
        /\ Open(c) /\ call[c].left = 0 /\ call[c].proc \notin Reads => call[c].stored = 1

\* Whom the closing pool refuses may go to another instance with the same request: it
\* has stored nothing, though it may have used the pool before.  Except by
\* UpdateAccount, which updates before it reads the balance it answers with.
RefusedStoredNothing ==
    \A c \in Calls :
        call[c].status = "refused" /\ call[c].stored > 0 => call[c].proc = "UpdateAccount"

(***************************************************************************)
(* What the proofs rest on, together with the invariants above: one session *)
(* has the lock, and the instance it is of applies; an open call is at a    *)
(* process that serves; a connection is lent for a use to come; what a call *)
(* has stored follows from the uses it has left; and once the pool closes   *)
(* in time, no call over HTTP/1 is open.                                    *)
(***************************************************************************)
OneSession ==
    /\ \A s, t \in sessions : s = t
    /\ \A s \in sessions : ~s.left => phase[s.of] = "applying"
OpenIsServed ==
    \A c \in Calls : Open(c) =>
        call[c].at \in Instances /\ phase[call[c].at] \in {"serving", "draining", "closing"}
LentForUse == \A c \in Calls : call[c].conn => Open(c) /\ call[c].left > 0
Stored(p, left) == IF p \notin Reads /\ left <= UsesAfter(p) THEN 1 ELSE 0
StoredSoFar ==
    \A c \in Calls : Open(c) => call[c].stored = Stored(call[c].proc, call[c].left)
ClosesDrained ==
    \A i \in Instances : phase[i] = "closing" /\ ~late[i] => Tracked(i) = {}

ServerInv ==
    /\ TypeOK /\ AppliedOnce /\ ServesOnTarget /\ WritesOnce /\ RefusedStoredNothing
    /\ OneSession /\ OpenIsServed /\ LentForUse /\ StoredSoFar /\ ClosesDrained

\* An instance that starts comes to serve or ends, however many others start.
Decides == \A i \in Instances : phase[i] = "migrating" ~> phase[i] \in {"opening", "down"}

\* An instance told to stop does, though HTTP/2 clients go on calling it.
StopEnds == \A i \in Instances : phase[i] = "draining" ~> phase[i] \in {"down", "stopped"}

\* Every call ends: with an answer, an error or a lost connection.
CallsEnd == \A c \in Calls : Open(c) ~> ~Open(c)
=============================================================================
