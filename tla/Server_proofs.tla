---------------------------- MODULE Server_proofs ----------------------------
(***************************************************************************)
(* Proofs about Server, for any number of instances, releases, calls and    *)
(* connections.                                                            *)
(***************************************************************************)
EXTENDS Server, TLAPS

\* Before any instance has started the invariant holds.
LEMMA InitInv == Init => ServerInv
<1>. SUFFICES ASSUME Init PROVE ServerInv
  OBVIOUS
<1>. USE ServerAssumption DEF Init, Unused
<1>1. TypeOK
  BY DEF TypeOK, Phases, CallState, Mounted, UserService
<1>2. AppliedOnce /\ OneSession /\ ServesOnTarget
  BY DEF AppliedOnce, OneSession, ServesOnTarget
<1>3. WritesOnce /\ RefusedStoredNothing /\ OpenIsServed /\ LentForUse /\ StoredSoFar
  BY DEF WritesOnce, RefusedStoredNothing, OpenIsServed, LentForUse, StoredSoFar, Open
<1>4. ClosesDrained
  BY DEF ClosesDrained
<1>. QED  BY <1>1, <1>2, <1>3, <1>4 DEF ServerInv
-----------------------------------------------------------------------------
(***************************************************************************)
(* Steps of one call.                                                      *)
(***************************************************************************)
\* A handler writes once, and has done so when no use is left.
LEMMA StoredOnce ==
    ASSUME NEW p, NEW n \in Nat
    PROVE  /\ Stored(p, n) \in 0..1
           /\ n = 0 /\ p \notin Reads => Stored(p, n) = 1
           /\ n > 0 /\ Stored(p, n) > 0 => p = "UpdateAccount"
BY ServerAssumption DEF Stored, UsesAfter

\* A call that changes alone keeps the invariant if its new row does.
LEMMA OneCall ==
    ASSUME ServerInv, NEW c \in Calls, NEW row \in CallState, Changes(c, row),
           row.stored <= 1,
           row.status = "refused" /\ row.stored > 0 => row.proc = "UpdateAccount",
           row.conn => row.status = "open" /\ row.left > 0,
           row.status = "open" =>
              /\ row.at \in Instances
              /\ phase[row.at] \in {"serving", "draining", "closing"}
              /\ phase[row.at] = "closing" /\ c \notin Http2 => Open(c) /\ row.at = call[c].at
              /\ row.stored = Stored(row.proc, row.left)
    PROVE  ServerInv'
<1>. USE DEF ServerInv, Changes
<1>1. call' \in [Calls -> CallState] /\ call'[c] = row
  BY DEF TypeOK
<1>2. \A d \in Calls \ {c} : call'[d] = call[d]
  BY DEF TypeOK
<1>3. TypeOK'
  BY <1>1 DEF TypeOK
<1>4. AppliedOnce' /\ OneSession' /\ ServesOnTarget'
  BY DEF AppliedOnce, OneSession, ServesOnTarget
<1>5. RefusedStoredNothing' /\ LentForUse' /\ OpenIsServed'
  BY <1>1, <1>2 DEF RefusedStoredNothing, LentForUse, OpenIsServed, Open
<1>6. StoredSoFar'
  <2>1. \A d \in Calls :
           call'[d].status = "open" => call'[d].stored = Stored(call'[d].proc, call'[d].left)
    BY <1>1, <1>2 DEF StoredSoFar, Open
  <2>. QED  BY <2>1 DEF StoredSoFar, Stored, Open
<1>7. WritesOnce'
  <2>1. row.left \in Nat
    BY DEF CallState
  <2>2. row.status = "open" /\ row.left = 0 /\ row.proc \notin Reads => row.stored = 1
    BY <2>1, StoredOnce
  <2>. QED  BY <1>1, <1>2, <2>2 DEF WritesOnce, Open
<1>8. ClosesDrained'
  <2>. SUFFICES ASSUME NEW i \in Instances, phase[i] = "closing", ~late[i],
                       NEW d \in Calls \ Http2, call'[d].at = i, call'[d].status = "open"
                PROVE  FALSE
    BY DEF ClosesDrained, Tracked, OpenAt, Open
  <2>1. call[d].at = i /\ Open(d)
    BY <1>1, <1>2 DEF Open
  <2>. QED  BY <2>1 DEF ClosesDrained, Tracked, OpenAt
<1>. QED  BY <1>3, <1>4, <1>5, <1>6, <1>7, <1>8

\* A handler uses the pool a whole number of times, and at least once.
LEMMA UsesCounted ==
    ASSUME NEW p, NEW n \in Uses(p)
    PROVE  n \in Nat /\ n > 0 /\ (p = "UpdateAccount" => n = 1 + BalanceUses)
<1>1. ASSUME NEW m \in Listed PROVE BalanceUses * m \in Nat
  <2>1. BalanceUses \in Nat /\ m \in Nat
    BY <1>1, ServerAssumption
  <2>. QED  BY <2>1
<1>2. CASE p = "UpdateExpense"
  BY <1>2 DEF Uses
<1>3. CASE p = "UpdateAccount"
  BY <1>3, ServerAssumption DEF Uses
<1>4. CASE p = "ListAccounts"
  BY <1>4, <1>1 DEF Uses
<1>5. CASE p \notin {"UpdateExpense", "UpdateAccount", "ListAccounts"}
  BY <1>5 DEF Uses
<1>. QED  BY <1>2, <1>3, <1>4, <1>5

\* A call arrives at an instance that listens.
LEMMA SendKeeps ==
    ASSUME ServerInv, NEW c \in Calls, NEW i \in Instances, NEW p \in Procedures,
           Send(c, i, p)
    PROVE  ServerInv'
<1>1. PICK n \in Uses(p) :
         Changes(c, [ at |-> i, status |-> "open", proc |-> p, left |-> n, conn |-> FALSE,
                      stored |-> 0 ])
  BY DEF Send, Changes
<1>2. n \in Nat /\ n > 0 /\ p \in Mounted /\ Stored(p, n) = 0
  BY UsesCounted, ServerAssumption DEF Stored, UsesAfter
<1>3. /\ phase[i] \in {"serving", "draining", "closing"}
      /\ phase[i] = "closing" => c \in Http2
  BY DEF Send, Reaches
<1>. DEFINE row == [ at |-> i, status |-> "open", proc |-> p, left |-> n, conn |-> FALSE,
                     stored |-> 0 ]
<1>4. row \in CallState
  BY <1>2 DEF CallState
<1>. QED  BY <1>1, <1>2, <1>3, <1>4, OneCall

\* A call takes a connection for a use it has left.
LEMMA TakeConnKeeps ==
    ASSUME ServerInv, NEW c \in Calls, TakeConn(c) PROVE ServerInv'
<1>. DEFINE row == [call[c] EXCEPT !.conn = TRUE]
<1>1. row \in CallState
  BY DEF ServerInv, TypeOK, CallState
<1>2. Changes(c, row) /\ Open(c) /\ call[c].left > 0
  BY DEF TakeConn, Waits
<1>3. /\ row.at = call[c].at /\ row.status = "open" /\ row.left = call[c].left
      /\ row.stored = call[c].stored /\ row.proc = call[c].proc
  BY <1>2 DEF ServerInv, TypeOK, CallState, Open
<1>4. /\ call[c].at \in Instances
      /\ phase[call[c].at] \in {"serving", "draining", "closing"}
      /\ call[c].stored = Stored(call[c].proc, call[c].left)
      /\ call[c].stored <= 1
  BY <1>2 DEF ServerInv, OpenIsServed, StoredSoFar, WritesOnce
<1>. HIDE DEF row
<1>. QED  BY <1>1, <1>2, <1>3, <1>4, OneCall

\* A call that finds the pool closed has stored nothing, UpdateAccount excepted.
LEMMA PoolClosedKeeps ==
    ASSUME ServerInv, NEW c \in Calls, PoolClosed(c) PROVE ServerInv'
<1>. DEFINE row == [call[c] EXCEPT !.status = "refused", !.left = 0]
<1>1. row \in CallState
  BY DEF ServerInv, TypeOK, CallState
<1>2. Changes(c, row) /\ Open(c) /\ call[c].left > 0 /\ ~call[c].conn
  BY DEF PoolClosed, Waits
<1>3. /\ row.status = "refused" /\ row.conn = call[c].conn
      /\ row.stored = call[c].stored /\ row.proc = call[c].proc
  BY <1>2 DEF ServerInv, TypeOK, CallState
<1>4. call[c].left \in Nat /\ call[c].stored = Stored(call[c].proc, call[c].left)
  BY <1>2 DEF ServerInv, StoredSoFar, TypeOK, CallState
<1>5. row.stored <= 1 /\ (row.stored > 0 => row.proc = "UpdateAccount")
  BY <1>2, <1>3, <1>4, StoredOnce
<1>. HIDE DEF row
<1>. QED  BY <1>1, <1>2, <1>3, <1>5, OneCall

\* One more use, and with it at most the one write that is to come.
LEMMA UseCounts ==
    ASSUME ServerInv, NEW c \in Calls, Open(c), call[c].conn
    PROVE  /\ call[c] \in CallState /\ call[c].left \in Nat /\ call[c].left > 0
           /\ call[c].stored \in Nat /\ call[c].stored <= 1
           /\ Written(c) \in Nat /\ Written(c) <= 1
           /\ Written(c) = Stored(call[c].proc, call[c].left - 1)
<1>1. call[c] \in CallState /\ call[c].left \in Nat /\ call[c].left > 0
  BY DEF ServerInv, TypeOK, CallState, LentForUse
<1>2. call[c].stored = Stored(call[c].proc, call[c].left) /\ call[c].stored \in 0..1
  BY <1>1, StoredOnce DEF ServerInv, StoredSoFar
<1>3. Written(c) = Stored(call[c].proc, call[c].left - 1)
  BY <1>1, <1>2, ServerAssumption DEF Written, Writes, Stored, UsesAfter
<1>4. call[c].left - 1 \in Nat
  BY <1>1
<1>5. Written(c) \in 0..1
  BY <1>3, <1>4, StoredOnce
<1>. QED  BY <1>1, <1>2, <1>3, <1>5

\* A use that is done has written what it had to.
LEMMA UseDoneKeeps ==
    ASSUME ServerInv, NEW c \in Calls, UseDone(c) PROVE ServerInv'
<1>. DEFINE row == [call[c] EXCEPT !.conn = FALSE, !.left = call[c].left - 1,
                                   !.stored = Written(c)]
<1>1. Changes(c, row) /\ Open(c) /\ call[c].conn
  BY DEF UseDone
<1>2. /\ call[c] \in CallState /\ call[c].left \in Nat /\ call[c].left > 0
      /\ Written(c) \in Nat /\ Written(c) <= 1
      /\ Written(c) = Stored(call[c].proc, call[c].left - 1)
  BY <1>1, UseCounts
<1>3. row \in CallState
  <2>1. call[c].left - 1 \in Nat
    BY <1>2
  <2>. QED  BY <1>2, <2>1 DEF CallState
<1>4. /\ row.at = call[c].at /\ row.status = "open" /\ row.left = call[c].left - 1
      /\ row.proc = call[c].proc /\ row.conn = FALSE /\ row.stored = Written(c)
  BY <1>1, <1>2 DEF CallState, Open
<1>5. call[c].at \in Instances /\ phase[call[c].at] \in {"serving", "draining", "closing"}
  BY <1>1 DEF ServerInv, OpenIsServed
<1>. HIDE DEF row
<1>. QED  BY <1>1, <1>2, <1>3, <1>4, <1>5, OneCall

\* A use that fails may have written, but no other has.
LEMMA UseFailsKeeps ==
    ASSUME ServerInv, NEW c \in Calls, UseFails(c) PROVE ServerInv'
<1>1. PICK n \in {call[c].stored, Written(c)} :
         Changes(c, [call[c] EXCEPT !.conn = FALSE, !.left = 0, !.status = "failed",
                                    !.stored = n])
  BY DEF UseFails
<1>. DEFINE row == [call[c] EXCEPT !.conn = FALSE, !.left = 0, !.status = "failed",
                                   !.stored = n]
<1>2. call[c] \in CallState /\ n \in Nat /\ n <= 1
  BY UseCounts DEF UseFails
<1>3. row \in CallState
  BY <1>2 DEF CallState
<1>4. row.status = "failed" /\ row.conn = FALSE /\ row.stored = n
  BY <1>2 DEF CallState
<1>. HIDE DEF row
<1>. QED  BY <1>1, <1>2, <1>3, <1>4, OneCall DEF row

\* An answered call holds no connection.
LEMMA AnswerKeeps ==
    ASSUME ServerInv, NEW c \in Calls, Answer(c) PROVE ServerInv'
<1>. DEFINE row == [Unused EXCEPT !.at = call[c].at, !.status = "answered"]
<1>1. Changes(c, row)
  BY DEF Answer
<1>2. row \in CallState /\ row.status = "answered" /\ row.conn = FALSE /\ row.stored = 0
  BY DEF ServerInv, TypeOK, CallState, Unused, Mounted, UserService
<1>. HIDE DEF row
<1>. QED  BY <1>1, <1>2, OneCall
-----------------------------------------------------------------------------
(***************************************************************************)
(* Steps of one instance, and of the sessions it leaves behind.             *)
(***************************************************************************)
\* A process that ends gives up its calls, and leaves its session behind.
LEMMA EndsKeeps ==
    ASSUME ServerInv, NEW i \in Instances, NEW how \in {"down", "stopped"}, Ends(i, how)
    PROVE  ServerInv'
<1>. USE ServerAssumption DEF ServerInv, Ends, Goes
<1>1. ASSUME NEW c \in Calls
      PROVE  /\ call'[c] \in CallState
             /\ call[c].at # i => call'[c] = call[c]
             /\ call[c].at = i => /\ call'[c].status \in {"cut", "idle"}
                                  /\ call'[c].conn = FALSE /\ call'[c].at = Nobody
                                  /\ call'[c].stored = 0
  BY <1>1 DEF TypeOK, CallState, Unused, Mounted, UserService
<1>2. /\ phase' \in [Instances -> Phases] /\ phase'[i] = how
      /\ \A j \in Instances \ {i} : phase'[j] = phase[j] /\ late'[j] = late[j]
  BY DEF TypeOK, Phases
<1>. DEFINE behind(s) == [s EXCEPT !.left = s.left \/ s.of = i]
<1>3. ASSUME NEW s \in sessions
      PROVE  /\ behind(s) \in Session /\ behind(s).next = s.next /\ behind(s).of = s.of
             /\ ~behind(s).left => ~s.left /\ s.of # i
  <2>1. s \in Session /\ (s.left \/ s.of = i) \in BOOLEAN
    BY DEF TypeOK
  <2>. QED  BY <2>1 DEF Session
<1>4. sessions' = {behind(s) : s \in sessions}
  BY DEF LeftBehind
<1>. HIDE DEF behind
<1>5. TypeOK'
  <2>1. attempt' \in [Instances -> 1..MaxAttempts] /\ late' \in [Instances -> BOOLEAN]
    BY DEF TypeOK
  <2>2. sessions' \subseteq Session /\ schema' \in Nat
    BY <1>3, <1>4 DEF TypeOK
  <2>3. call' \in [Calls -> CallState]
    BY <1>1
  <2>. QED  BY <1>2, <2>1, <2>2, <2>3 DEF TypeOK
<1>6. AppliedOnce' /\ OneSession'
  <2>1. ASSUME NEW s \in sessions
        PROVE  /\ behind(s).next = schema + 1
               /\ ~behind(s).left => phase'[behind(s).of] = "applying"
    <3>1. s \in Session /\ s.next = schema + 1 /\ (~s.left => phase[s.of] = "applying")
      BY DEF TypeOK, AppliedOnce, OneSession
    <3>. QED  BY <1>2, <1>3, <3>1 DEF Session
  <2>2. \A s, t \in sessions' : s = t
    BY <1>4 DEF OneSession
  <2>. QED  BY <1>4, <2>1, <2>2 DEF AppliedOnce, OneSession
<1>7. ServesOnTarget'
  BY <1>2 DEF ServesOnTarget
<1>8. WritesOnce' /\ RefusedStoredNothing' /\ LentForUse' /\ StoredSoFar'
  <2>1. ASSUME NEW c \in Calls
        PROVE  /\ call'[c].stored <= 1
               /\ call'[c].status = "open" => call[c] = call'[c]
               /\ call'[c].status = "refused" => call[c] = call'[c]
               /\ call'[c].conn => call[c] = call'[c]
    <3>1. CASE call[c].at # i
      BY <1>1, <3>1 DEF WritesOnce
    <3>2. CASE call[c].at = i
      <4>1. /\ call'[c].status \in {"cut", "idle"} /\ call'[c].conn = FALSE
            /\ call'[c].stored = 0
        BY <1>1, <3>2
      <4>. HIDE DEF Ends, ServerInv
      <4>. QED  BY <4>1
    <3>. QED  BY <3>1, <3>2
  <2>2. WritesOnce'
    BY <2>1 DEF WritesOnce, Open
  <2>3. RefusedStoredNothing' /\ LentForUse'
    BY <2>1 DEF RefusedStoredNothing, LentForUse, Open
  <2>4. StoredSoFar'
    BY <2>1 DEF StoredSoFar, Open
  <2>. QED  BY <2>2, <2>3, <2>4
<1>9. OpenIsServed'
  <2>. SUFFICES ASSUME NEW c \in Calls, call'[c].status = "open"
                PROVE  /\ call'[c].at \in Instances
                       /\ phase'[call'[c].at] \in {"serving", "draining", "closing"}
    BY DEF OpenIsServed, Open
  <2>1. call[c].at # i /\ call'[c] = call[c]
    BY <1>1
  <2>. QED  BY <2>1, <1>2 DEF OpenIsServed, Open
<1>10. ClosesDrained'
  <2>. SUFFICES ASSUME NEW j \in Instances, phase'[j] = "closing", ~late'[j],
                       NEW c \in Calls \ Http2, call'[c].at = j, call'[c].status = "open"
                PROVE  FALSE
    BY DEF ClosesDrained, Tracked, OpenAt, Open
  <2>1. call[c].at # i /\ call'[c] = call[c]
    BY <1>1
  <2>2. phase[j] = "closing" /\ ~late[j]
    BY <2>1, <1>2
  <2>. QED  BY <2>1, <2>2 DEF ClosesDrained, Tracked, OpenAt, Open
<1>. QED  BY <1>5, <1>6, <1>7, <1>8, <1>9, <1>10

\* Every phase but the ends and the closing of the pool: no call is touched.
LEMMA PhaseKeeps ==
    ASSUME ServerInv, NEW i \in Instances, NEW p \in Phases, Goes(i, p),
           attempt' \in [Instances -> 1..MaxAttempts],
           UNCHANGED <<late, schema, call>>,
           sessions' \subseteq Session, AppliedOnce', \A s, t \in sessions' : s = t,
           p # "closing",
           \A s \in sessions' :
              ~s.left => IF s.of = i THEN p = "applying" ELSE s \in sessions,
           p \in {"opening", "serving", "draining"} => schema >= Target[i],
           phase[i] \in {"serving", "draining", "closing"} => p \in {"serving", "draining"}
    PROVE  ServerInv'
<1>. USE DEF ServerInv, Goes
<1>1. /\ phase' \in [Instances -> Phases] /\ phase'[i] = p
      /\ \A j \in Instances \ {i} : phase'[j] = phase[j]
  BY DEF TypeOK
<1>2. TypeOK'
  BY <1>1 DEF TypeOK
<1>3. OneSession'
  BY <1>1 DEF TypeOK, OneSession, Session
<1>4. ServesOnTarget'
  BY <1>1 DEF ServesOnTarget
<1>5. WritesOnce' /\ RefusedStoredNothing' /\ LentForUse' /\ StoredSoFar'
  BY DEF WritesOnce, RefusedStoredNothing, LentForUse, StoredSoFar, Open
<1>6. OpenIsServed'
  BY <1>1 DEF OpenIsServed, Open
<1>7. ClosesDrained'
  BY <1>1 DEF ClosesDrained, Tracked, OpenAt, Open
<1>. QED  BY <1>2, <1>3, <1>4, <1>5, <1>6, <1>7

\* The phases of an instance up to the signal keep the calls as they are.
LEMMA StartingKeeps ==
    ASSUME ServerInv, NEW i \in Instances,
           \/ Start(i) \/ TakeLock(i) \/ MigrateDone(i) \/ OpenPool(i) \/ Signal(i)
    PROVE  ServerInv'
<1>. USE ServerAssumption DEF Phases
<1>1. attempt \in [Instances -> 1..MaxAttempts] /\ sessions \subseteq Session /\ schema \in Nat
  BY DEF ServerInv, TypeOK
<1>2. [attempt EXCEPT ![i] = 1] \in [Instances -> 1..MaxAttempts]
  BY <1>1
<1>3. /\ \A s \in sessions : s.next = schema + 1
      /\ \A s, t \in sessions : s = t
      /\ \A s \in sessions : ~s.left => phase[s.of] = "applying"
  BY DEF ServerInv, AppliedOnce, OneSession
<1>4. phase[i] \in {"opening", "serving", "draining", "closing"} => schema >= Target[i]
  BY DEF ServerInv, ServesOnTarget
<1>5. ASSUME sessions' = sessions, schema' = schema, phase[i] # "applying"
      PROVE  /\ AppliedOnce' /\ \A s, t \in sessions' : s = t
             /\ \A s \in sessions' : ~s.left => s.of # i /\ s \in sessions
  BY <1>3, <1>5 DEF AppliedOnce
<1>6. CASE Start(i)
  BY <1>1, <1>5, <1>6, PhaseKeeps DEF Start
<1>7. CASE TakeLock(i)
  <2>1. sessions' = {[ of |-> i, left |-> FALSE, next |-> schema + 1 ]} /\ schema' = schema
    BY <1>7 DEF TakeLock, LockFree
  <2>2. sessions' \subseteq Session /\ AppliedOnce'
    BY <1>1, <2>1 DEF Session, AppliedOnce
  <2>3. /\ \A s \in sessions' : s.of = i
        /\ \A s, t \in sessions' : s = t
    BY <2>1
  <2>. QED  BY <1>1, <1>7, <2>2, <2>3, PhaseKeeps DEF TakeLock
<1>8. CASE MigrateDone(i)
  <2>1. PICK s \in Own(i) : s.next > Target[i] /\ sessions' = sessions \ {s}
    BY <1>8 DEF MigrateDone
  <2>2. s \in sessions /\ schema' = schema
    BY <1>8 DEF Own, MigrateDone
  <2>3. sessions' = {} /\ s.next = schema + 1
    BY <1>3, <2>1, <2>2
  <2>4. schema >= Target[i]
    BY <1>1, <2>1, <2>3
  <2>5. AppliedOnce'
    BY <2>3 DEF AppliedOnce
  <2>. QED  BY <1>1, <1>2, <1>8, <2>3, <2>4, <2>5, PhaseKeeps DEF MigrateDone
<1>9. CASE OpenPool(i)
  BY <1>1, <1>4, <1>5, <1>9, PhaseKeeps DEF OpenPool
<1>10. CASE Signal(i)
  BY <1>1, <1>4, <1>5, <1>10, PhaseKeeps DEF Signal
<1>. QED  BY <1>6, <1>7, <1>8, <1>9, <1>10

\* Another attempt, and another migration, change neither a phase nor a call.
LEMMA RetryKeeps ==
    ASSUME ServerInv, NEW i \in Instances, LockBusy(i) PROVE ServerInv'
<1>1. CASE IsLastAttempt(i)
  BY <1>1, EndsKeeps DEF LockBusy, OutOfAttempts
<1>2. CASE ~IsLastAttempt(i)
  <2>1. /\ attempt' = [attempt EXCEPT ![i] = attempt[i] + 1]
        /\ UNCHANGED <<phase, late, sessions, schema, call>>
    BY <1>2 DEF LockBusy, NextAttempt
  <2>2. attempt[i] \in 1..MaxAttempts /\ attempt[i] # MaxAttempts
    BY <1>2 DEF ServerInv, TypeOK, IsLastAttempt
  <2>3. attempt' \in [Instances -> 1..MaxAttempts]
    BY <2>1, <2>2, ServerAssumption DEF ServerInv, TypeOK
  <2>. QED
    BY <2>1, <2>3 DEF ServerInv, TypeOK, AppliedOnce, OneSession, ServesOnTarget, WritesOnce,
       RefusedStoredNothing, OpenIsServed, LentForUse, StoredSoFar, ClosesDrained, Tracked,
       OpenAt, Open
<1>. QED  BY <1>1, <1>2

\* Sessions and schema alone change: nothing is known of instances that would not stay.
LEMMA SessionsKeep ==
    ASSUME ServerInv, UNCHANGED <<phase, attempt, late, call>>,
           sessions' \subseteq Session, AppliedOnce', schema' \in Nat, schema' >= schema,
           \A s, t \in sessions' : s = t,
           \A s \in sessions' : \E t \in sessions : s.of = t.of /\ s.left = t.left
    PROVE  ServerInv'
<1>. USE DEF ServerInv
<1>1. TypeOK' /\ OneSession'
  BY DEF TypeOK, OneSession
<1>2. ServesOnTarget'
  BY ServerAssumption DEF TypeOK, ServesOnTarget
<1>3. WritesOnce' /\ RefusedStoredNothing' /\ OpenIsServed' /\ LentForUse' /\ StoredSoFar'
  BY DEF WritesOnce, RefusedStoredNothing, OpenIsServed, LentForUse, StoredSoFar, Open
<1>4. ClosesDrained'
  BY DEF ClosesDrained, Tracked, OpenAt, Open
<1>. QED  BY <1>1, <1>2, <1>3, <1>4

\* The one session applies the migration the database lacks, whoever waits for it.
LEMMA ApplyKeeps ==
    ASSUME ServerInv, NEW s \in sessions, ApplyOne(s) PROVE ServerInv'
<1>. DEFINE t == [s EXCEPT !.next = s.next + 1]
<1>1. /\ sessions = {s} /\ s \in Session /\ s.next = schema + 1 /\ schema \in Nat
  BY DEF ServerInv, TypeOK, OneSession, AppliedOnce
<1>2. sessions' = {t} /\ schema' = s.next /\ UNCHANGED <<phase, attempt, late, call>>
  BY <1>1 DEF ApplyOne
<1>3. t \in Session /\ t.of = s.of /\ t.left = s.left /\ t.next = s.next + 1
  BY <1>1 DEF Session
<1>. HIDE DEF t
<1>4. AppliedOnce'
  BY <1>2, <1>3 DEF AppliedOnce
<1>. QED  BY <1>1, <1>2, <1>3, <1>4, SessionsKeep

\* A session that ends takes nothing back.
LEMMA SessionEndsKeeps ==
    ASSUME ServerInv, NEW s \in sessions, SessionEnds(s) PROVE ServerInv'
<1>1. /\ sessions' = sessions \ {s} /\ schema' = schema
      /\ UNCHANGED <<phase, attempt, late, call>>
  BY DEF SessionEnds
<1>2. sessions \subseteq Session /\ schema \in Nat /\ AppliedOnce'
  BY <1>1 DEF ServerInv, TypeOK, AppliedOnce
<1>. QED  BY <1>1, <1>2, SessionsKeep DEF ServerInv, OneSession

\* When the time is up, late records whether a call over HTTP/1 is still open.
LEMMA DrainEndsKeeps ==
    ASSUME ServerInv, NEW i \in Instances, DrainEnds(i) PROVE ServerInv'
<1>. USE DEF ServerInv, DrainEnds, Goes
<1>1. /\ phase' \in [Instances -> Phases] /\ phase'[i] = "closing" /\ phase[i] = "draining"
      /\ late' \in [Instances -> BOOLEAN] /\ (late'[i] <=> Tracked(i) # {})
      /\ \A j \in Instances \ {i} : phase'[j] = phase[j] /\ late'[j] = late[j]
  BY DEF TypeOK, Phases
<1>2. TypeOK'
  BY <1>1 DEF TypeOK
<1>3. AppliedOnce' /\ OneSession' /\ ServesOnTarget'
  BY <1>1 DEF TypeOK, Session, AppliedOnce, OneSession, ServesOnTarget
<1>4. WritesOnce' /\ RefusedStoredNothing' /\ LentForUse' /\ StoredSoFar'
  BY DEF WritesOnce, RefusedStoredNothing, LentForUse, StoredSoFar, Open
<1>5. OpenIsServed'
  BY <1>1 DEF OpenIsServed, Open
<1>6. ClosesDrained'
  BY <1>1 DEF ClosesDrained, Tracked, OpenAt, Open
<1>. QED  BY <1>2, <1>3, <1>4, <1>5, <1>6

\* The invariant holds after every step.
LEMMA NextInv == ServerInv /\ [Next]_vars => ServerInv'
<1>. SUFFICES ASSUME ServerInv, [Next]_vars PROVE ServerInv'
  OBVIOUS
<1>1. ASSUME NEW i \in Instances,
             \/ Start(i) \/ Attempt(i) \/ Migrate(i) \/ OpenPool(i)
             \/ Signal(i) \/ DrainEnds(i) \/ ClosePool(i) \/ Fails(i) \/ Killed(i)
      PROVE  ServerInv'
  <2>1. CASE ClosePool(i) \/ Fails(i) \/ Killed(i)
    BY <2>1, EndsKeeps DEF ClosePool, Fails, Killed
  <2>2. CASE ~(ClosePool(i) \/ Fails(i) \/ Killed(i))
    BY <1>1, <2>2, StartingKeeps, RetryKeeps, ApplyKeeps, DrainEndsKeeps DEF Attempt, Migrate,
       Own
  <2>. QED  BY <2>1, <2>2
<1>2. ASSUME NEW c \in Calls,
             \/ \E i \in Instances, p \in Procedures : Send(c, i, p)
             \/ TakeConn(c) \/ PoolClosed(c) \/ UseDone(c) \/ UseFails(c) \/ Answer(c)
      PROVE  ServerInv'
  BY <1>2, SendKeeps, TakeConnKeeps, PoolClosedKeeps, UseDoneKeeps, UseFailsKeeps, AnswerKeeps
<1>3. ASSUME NEW s \in sessions, SessionEnds(s) \/ (s.left /\ ApplyOne(s)) PROVE ServerInv'
  BY <1>3, SessionEndsKeeps, ApplyKeeps
<1>4. CASE UNCHANGED vars
  BY <1>4 DEF vars, ServerInv, TypeOK, AppliedOnce, OneSession, ServesOnTarget, WritesOnce,
     RefusedStoredNothing, OpenIsServed, LentForUse, StoredSoFar, ClosesDrained, Tracked,
     OpenAt, Open
<1>. QED  BY <1>1, <1>2, <1>3, <1>4 DEF Next

\* The invariant of the instances and their calls; the theorems below are its parts.
THEOREM ServerInvariant == Spec => []ServerInv
BY InitInv, NextInv, PTL DEF Spec

\* Every reachable state of Server is well-typed: never a sixth attempt.
THEOREM ServerTypeCorrect == Spec => []TypeOK
<1>1. ServerInv => TypeOK
  BY DEF ServerInv
<1>. QED  BY <1>1, ServerInvariant, PTL

\* Each migration is applied once and in its turn (MigrateApply), also by a session
\* that has outlived the instance it was opened for.
THEOREM MigrationsOnce == Spec => []AppliedOnce
<1>1. ServerInv => AppliedOnce
  BY DEF ServerInv
<1>. QED  BY <1>1, ServerInvariant, PTL

\* No instance takes calls before the migrations of its release are in the database.
THEOREM TargetReached == Spec => []ServesOnTarget
<1>1. ServerInv => ServesOnTarget
  BY DEF ServerInv
<1>. QED  BY <1>1, ServerInvariant, PTL

\* A call answered has written once, and no call more often, although an error may hide
\* a write (BeginFunc returning an error after its COMMIT).
THEOREM CallsWriteOnce == Spec => []WritesOnce
<1>1. ServerInv => WritesOnce
  BY DEF ServerInv
<1>. QED  BY <1>1, ServerInvariant, PTL

\* Who meets the closing pool has stored nothing, but for UpdateAccount.
THEOREM RefusedUntouched == Spec => []RefusedStoredNothing
<1>1. ServerInv => RefusedStoredNothing
  BY DEF ServerInv
<1>. QED  BY <1>1, ServerInvariant, PTL

\* In time, it has answered every call over HTTP/1 before it is gone.
THEOREM AnsweredInTime == Spec => StopAnswers
<1>1. ServerInv /\ [Next]_vars =>
        [\A c \in Calls \ Http2, i \in Instances :
           call[c].at = i /\ Open(c) /\ phase'[i] = "stopped" => late[i]]_vars
  <2>. SUFFICES ASSUME ServerInv, [Next]_vars, NEW c \in Calls \ Http2, NEW i \in Instances,
                       call[c].at = i, Open(c), phase'[i] = "stopped"
                PROVE  late[i]
    OBVIOUS
  <2>1. phase[i] \in {"serving", "draining", "closing"} /\ Tracked(i) # {}
    BY DEF ServerInv, OpenIsServed, Tracked, OpenAt
  <2>2. phase' # phase /\ phase'[i] # phase[i] /\ phase \in [Instances -> Phases]
    BY <2>1 DEF ServerInv, TypeOK
  <2>3. phase[i] = "closing"
    BY <2>2 DEF Next, vars, Start, Attempt, Migrate, TakeLock, LockBusy, OutOfAttempts,
       ApplyOne, MigrateDone, OpenPool, Signal, DrainEnds, ClosePool, Fails, Killed, Ends,
       Goes, Send, TakeConn, PoolClosed, UseDone, UseFails, Answer, Changes,
       SessionEnds
  <2>. QED  BY <2>1, <2>3 DEF ServerInv, TypeOK, ClosesDrained
<1>. QED  BY <1>1, ServerInvariant, PTL DEF Spec, StopAnswers
=============================================================================
