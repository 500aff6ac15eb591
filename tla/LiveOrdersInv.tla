--------------------------- MODULE LiveOrdersInv ---------------------------
(***************************************************************************)
(* The inductive invariant of LiveOrders.  The safety properties of that   *)
(* module are not inductive: they hold because of what the task under the  *)
(* lock has already checked, and because of what a broker answer in a      *)
(* reconciler's hands implies about the broker's present state.            *)
(***************************************************************************)
EXTENDS LiveOrders

\* The order was committed and may still change the account.
Live(i) == ~Idle(i) /\ ~Over(i)

SameManualKey(p, q) == p.source = "manual" /\ q.source = "manual" /\ p.key = q.key

\* Program points at which the task has a record of its own.
OwnPcs == {"preflight", "submitting", "awaiting", "recover", "sawOpen", "sawClosed"}

\* Nothing committed competes with request q for its symbol or its key.
NoRival(q) ==
    \A j \in Intents :
      /\ Live(j) => meta[j].symbol # q.symbol
      /\ ~Idle(j) => ~SameManualKey(meta[j], q)

TaskInv(t) ==
    /\ pc[t] \in LockedPcs => lock = t
    /\ pc[t] = "snapshot" => ~DuplicateKey(req[t])
    /\ pc[t] \in OwnPcs =>
         /\ cur[t] \in Intents /\ meta[cur[t]] = req[t]
         /\ told[cur[t]] = "pending" /\ status[cur[t]] # "none"
         /\ req[t].source = "manual" => req[t].key \in keys
    /\ pc[t] = "preflight" => status[cur[t]] = "CREATED" /\ NoRival(req[t])
    /\ pc[t] = "submitting" => status[cur[t]] = "SUBMITTING" /\ broker[cur[t]] = "none"
    /\ pc[t] \in {"awaiting", "recover"} => broker[cur[t]] # "none"
    /\ pc[t] = "sawOpen" => broker[cur[t]] \in Found
    /\ pc[t] = "sawClosed" => broker[cur[t]] = "closed"

RecordInv(i) ==
    /\ Idle(i) => broker[i] = "none"
    /\ status[i] = "none" => told[i] = "pending"
    /\ status[i] # "none" => meta[i] \in Requests
    /\ status[i] = "CONFIRMED" => broker[i] = "closed"
    /\ status[i] = "REJECTED" => broker[i] \in {"none", "refused", "rejected"}
    /\ ~Idle(i) /\ meta[i].source = "manual" => meta[i].key \in keys
    /\ told[i] = "refused" => broker[i] \in {"none", "refused"}
    /\ told[i] \in {"submitted", "recovered"} => broker[i] \in Found

PairInv(i, j) ==
    i # j => /\ Live(i) /\ Live(j) => meta[i].symbol # meta[j].symbol
             /\ ~Idle(i) /\ ~Idle(j) => ~SameManualKey(meta[i], meta[j])

\* A broker answer may be old, but "closed" and "rejected" are for ever.
ReconcilerInv(r) ==
    /\ rpc[r] = "again" => rcur[r] \in Intents
    /\ rpc[r] \in {"asked", "searched"} =>
         /\ rcur[r] \in Intents /\ seen[r] \in Found
         /\ broker[rcur[r]] \in Found
         /\ seen[r] = "closed" => broker[rcur[r]] = "closed"
         /\ seen[r] = "rejected" => broker[rcur[r]] = "rejected"

\* Only a process that serves requests has tasks and settings calls.
PhaseInv == \A t \in Tasks : pc[t] # "idle" => phase = "serving"

IInv ==
    /\ TypeOK
    /\ PhaseInv
    /\ \A t \in Tasks : TaskInv(t)
    /\ \A i \in Intents : RecordInv(i)
    /\ \A i, j \in Intents : PairInv(i, j)
    /\ \A r \in Reconcilers : ReconcilerInv(r)

-----------------------------------------------------------------------------
(* What the cooldown of automatic buys adds to IInv *)

\* An automatic order of which its caller was told that it was submitted.
Acknowledged(i) == told[i] = "submitted" /\ meta[i].source = "auto"

Wait(i) == IF meta[i].side = "buy" THEN BuyCooldown ELSE SellCooldown

\* The activity of an acknowledged order's side is no older than the order, and
\* whoever is past the cooldown check has nothing to wait for.
CooldownInv ==
    /\ \A i \in Intents : status[i] # "none" => 0 <= created[i] /\ created[i] <= now
    /\ \A i \in Intents :
          Acknowledged(i) => created[i] <= activity[meta[i].symbol][meta[i].side]
    /\ \A t \in Tasks :
          ( /\ pc[t] \in {"preflight", "submitting"}
            /\ req[t].source = "auto" /\ req[t].side = "buy" )
          => \A i \in Intents : (Acknowledged(i) /\ meta[i].symbol = req[t].symbol)
                                 => created[i] + Wait(i) <= now
=============================================================================
