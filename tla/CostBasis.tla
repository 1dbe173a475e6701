----------------------------- MODULE CostBasis ------------------------------
(***************************************************************************)
(* What LotPricing promises, without locks, loops or partial failures: a    *)
(* request opens, looks at the lots of its account, and later settles in    *)
(* one atomic step, pricing its amount first in, first out from what those  *)
(* lots hold at that very moment.  A request may give up before it settles, *)
(* leaving no trace; a transfer disappears together with its lot and fees.  *)
(*                                                                         *)
(* The amounts drawn are a closed formula here, not a loop.                 *)
(***************************************************************************)
EXTENDS Requests, FiniteSets

CONSTANTS Req, Cmds

VARIABLES
    transfers, lots, rem, expenses, base,   \* the tables, as in LotPricing
    arg, created, clock,
    status,     \* "idle", "open", "looked", "ok" or "failed"
    known       \* the lots a request has seen

vars == <<transfers, lots, rem, expenses, base, arg, created, clock, status, known>>

Init ==
    /\ transfers = {} /\ lots = {} /\ expenses = {}
    /\ rem = [l \in Req |-> 0]
    /\ base = [r \in Req |-> Null]
    /\ arg \in [Req -> UNION {Cmds[r] : r \in Req}]
    /\ \A r \in Req : arg[r] \in Cmds[r]
    /\ created = [r \in Req |-> 0] /\ clock = 1
    /\ status = [r \in Req |-> "idle"]
    /\ known = [r \in Req |-> {}]

Own(r) == IF MakesLot(arg[r]) THEN {r} ELSE {}

\* What lot l contributes when amount is taken from the lots S, oldest first.
Share(amount, S, l) ==
    LET older == {m \in S : Older(arg[m], created[m], arg[l], created[l])}
        before == SumFunctionOnSet(rem, older)
        wanted == IF amount > before THEN amount - before ELSE 0
    IN  IF l \notin S THEN 0 ELSE IF wanted <= rem[l] THEN wanted ELSE rem[l]

Open(r) ==
    /\ status[r] = "idle"
    /\ status' = [status EXCEPT ![r] = "open"]
    /\ created' = [created EXCEPT ![r] = clock]
    /\ clock' = clock + 1
    /\ rem' = [rem EXCEPT ![r] = IF MakesLot(arg[r]) THEN arg[r].toAmount ELSE 0]
    /\ UNCHANGED <<transfers, lots, expenses, base, arg, known>>

Look(r) ==
    /\ status[r] = "open"
    /\ NeedsLots(arg[r])
    /\ status' = [status EXCEPT ![r] = "looked"]
    /\ known' = [known EXCEPT ![r] =
          {l \in lots \cup Own(r) : arg[l].account = arg[r].account /\ rem[l] > 0}]
    /\ UNCHANGED <<transfers, lots, rem, expenses, base, arg, created, clock>>

\* NULL when nothing is left in any lot the request looked at; what the lots
\* cover, at their rates, otherwise.
Settle(r) ==
    LET amount == EffectiveAmount(arg[r])
        stocked == {l \in known[r] \cap (lots \cup Own(r)) : rem[l] > 0}
        share == [l \in Req |-> IF NeedsLots(arg[r]) THEN Share(amount, stocked, l) ELSE 0]
    IN  /\ status[r] = IF NeedsLots(arg[r]) THEN "looked" ELSE "open"
        /\ status' = [status EXCEPT ![r] = "ok"]
        /\ base' = [base EXCEPT ![r] =
              IF ~HasSpend(arg[r]) THEN Null
              ELSE IF ~NeedsLots(arg[r]) THEN amount
              ELSE IF stocked = {} THEN Null
              ELSE SumFunctionOnSet([l \in Req |-> share[l] * arg[l].rate], Req)]
        /\ rem' = [l \in Req |-> rem[l] - share[l]]
        /\ lots' = lots \cup Own(r)
        /\ transfers' = IF arg[r].kind = "transfer" THEN transfers \cup {r} ELSE transfers
        /\ expenses' = expenses
              \cup (IF HasSpend(arg[r]) THEN {<<r, "spend">>} ELSE {})
              \cup (IF arg[r].kind = "transfer" /\ arg[r].sourceFee
                    THEN {<<r, "source">>} ELSE {})
        /\ known' = [known EXCEPT ![r] = {}]
        /\ UNCHANGED <<arg, created, clock>>

GiveUp(r) ==
    /\ status[r] \in {"open", "looked"}
    /\ status' = [status EXCEPT ![r] = "failed"]
    /\ rem' = IF MakesLot(arg[r]) THEN [rem EXCEPT ![r] = 0] ELSE rem
    /\ known' = [known EXCEPT ![r] = {}]
    /\ UNCHANGED <<transfers, lots, expenses, base, arg, created, clock>>

RemoveTransfer(t) ==
    /\ t \in transfers
    /\ transfers' = transfers \ {t}
    /\ lots' = lots \ {t}
    /\ expenses' = expenses \ {<<t, "spend">>, <<t, "source">>}
    /\ UNCHANGED <<rem, base, arg, created, clock, status, known>>

RemoveExpense(x) ==
    /\ x \in expenses
    /\ expenses' = expenses \ {x}
    /\ UNCHANGED <<transfers, lots, rem, base, arg, created, clock, status, known>>

Next ==
    \/ \E r \in Req : Open(r) \/ Look(r) \/ Settle(r) \/ GiveUp(r)
    \/ \E t \in Req : RemoveTransfer(t)
    \/ \E x \in Req \X {"spend", "source"} : RemoveExpense(x)

Spec == Init /\ [][Next]_vars
=============================================================================
