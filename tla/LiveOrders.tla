----------------------------- MODULE LiveOrders -----------------------------
(***************************************************************************)
(* The live order path: LiveOrderService (manual requests and the auto     *)
(* cycle, serialised by one asyncio lock), the durable LiveOrderJournal,   *)
(* the IdempotencyStore, the AutoTradeActivityService, the runtime gates   *)
(* and the LiveOrderReconciler, which runs WITHOUT the lock at startup,    *)
(* every five minutes and on request.  The brokers are external.           *)
(*                                                                         *)
(* One action is one stretch of code between two awaits: nothing else of   *)
(* the process runs inside it, but the process may die inside it           *)
(* (CrashBetweenWrites, CrashInSave).                                      *)
(***************************************************************************)
EXTENDS Integers

CONSTANTS
    Symbols,       \* instruments
    UpbitSymbols,  \* those traded on Upbit; the others are traded on Toss
    Intents,       \* journal record identities (uuid4)
    Keys,          \* idempotency keys chosen by the clients
    Requests,      \* the orders that may be asked for
    Enabled,       \* the requests whose environment gates are all true
    Clients,       \* concurrent manual order requests
    Cycles,        \* automatic decision cycles: the scheduled one, and the
                   \* calls of POST /decisions/live-cycle
    Boot,          \* the reconciliation of startup maintenance
    Job,           \* the five-minute reconciliation job
    Endpoints,     \* concurrent calls of POST /live-orders/reconcile
    Nobody, NoIntent, NoRequest,
    Attempts,      \* LIVE_ORDER_RECONCILE_ATTEMPTS
    BuyCooldown,   \* RISK_AUTO_SYMBOL_COOLDOWN_MINUTES
    SellCooldown,  \* RISK_SELL_REENTRY_COOLDOWN_MINUTES
    MaxTime,       \* bound on the clock
    MaxCrashes     \* bound on the number of crashes

Tasks == Clients \cup Cycles
Reconcilers == Endpoints \cup {Boot, Job}
RequestType == [source : {"manual", "auto"}, key : Keys,
                symbol : Symbols, side : {"buy", "sell"}]

ASSUME ConstantsOK ==
    /\ UpbitSymbols \subseteq Symbols
    /\ Requests \subseteq RequestType
    /\ Enabled \subseteq Requests
    /\ Cycles \cap Clients = {}
    /\ Boot # Job /\ Boot \notin Endpoints /\ Job \notin Endpoints
    /\ Nobody \notin Tasks
    /\ NoIntent \notin Intents
    /\ NoRequest \notin Requests
    /\ Attempts \in Nat \ {0}
    /\ BuyCooldown \in Nat /\ SellCooldown \in Nat
    /\ MaxTime \in Nat /\ MaxCrashes \in Nat

VARIABLES
    \* runtime settings (data/state/settings.json)
    mode, kill,
    \* order tasks of the process
    lock, pc, req, cur, tries,
    \* durable state: journal records, idempotency keys, activity
    status, meta, hasId, created, keys, activity,
    \* the brokers' own view of each client order id (external)
    broker,
    \* reconcilers of the process
    rpc, todo, rids, rcur, seen,
    \* environment: process phase, crashes so far, clock in cooldown units
    phase, crashes, now,
    \* history: what the caller of the intent was told
    told

settings == <<mode, kill>>
tasks    == <<lock, pc, req, cur, tries>>
durable  == <<status, meta, hasId, created, keys, activity>>
recs     == <<rpc, todo, rids, rcur, seen>>
env      == <<phase, crashes, now>>
vars     == <<settings, tasks, durable, broker, recs, env, told>>

-----------------------------------------------------------------------------
Statuses == {"none", "CREATED", "PREFLIGHTED", "SUBMITTING", "SUBMITTED",
             "CONFIRMED", "REJECTED", "UNKNOWN"}

\* Mutants: unresolved() forgets UNKNOWN, or SUBMITTED.
UnresolvedWithoutUnknown == {"SUBMITTING", "SUBMITTED"}
UnresolvedWithoutSubmitted == {"SUBMITTING", "UNKNOWN"}

\* The journal's unresolved() set and its class attribute `terminal`.
UnresolvedStatuses == {"SUBMITTING", "SUBMITTED", "UNKNOWN"}
Terminal == {"CONFIRMED", "REJECTED"}

\* What a broker knows of a client order id.  "odd" stands for the Toss
\* statuses REPLACED, CANCEL_REJECTED and REPLACE_REJECTED; "rejected" is
\* Toss's REJECTED, reported for an order it had accepted.
BrokerStates == {"none", "inflight", "refused", "open", "odd", "closed", "rejected"}
Found  == {"open", "odd", "closed", "rejected"}
Gone   == {"refused", "closed", "rejected"}

Answers == {"pending", "submitted", "recovered", "unknown", "refused", "error"}

LockedPcs == {"snapshot", "preflight", "submitting", "awaiting", "recover",
              "sawOpen", "sawClosed"}

Kinds == {"any", "buy", "sell"}
Never == -1

Unresolved == {i \in Intents : status[i] \in UnresolvedStatuses}

\* Mutant: a record that was being submitted when its handler died or raised
\* does not block its symbol.
ForgetsSubmitting(sym) ==
    \E i \in Unresolved : status[i] # "SUBMITTING" /\ meta[i].symbol = sym

\* LiveOrderJournal.has_unresolved
HasUnresolved(sym) == \E i \in Unresolved : meta[i].symbol = sym

\* _require_live_manual / _require_live_auto
Gate(q) == mode = "live" /\ ~kill /\ q \in Enabled

\* Mutant: the last unit of a cooldown is over as soon as it begins.
RecentRounded(at, cooldown) == at # Never /\ now - at < cooldown - 1

Recent(at, cooldown) == at # Never /\ now - at < cooldown

\* RiskGuard._buy_cooldown_reason for a live order (live trading records no
\* stop exits): the side's own record hides the general one.
InCooldown(q) ==
    /\ q.source = "auto" /\ q.side = "buy"
    /\ LET a == activity[q.symbol] IN
         \/ Recent(a["sell"], SellCooldown)
         \/ Recent(IF a["buy"] # Never THEN a["buy"] ELSE a["any"], BuyCooldown)

\* AutoTradeActivityService.record, for each of `kinds`
Recorded(sym, kinds, at) ==
    [activity EXCEPT ![sym] = [k \in Kinds |-> IF k \in kinds THEN at ELSE @[k]]]

SettingsOK == mode \in {"paper", "live"} /\ kill \in BOOLEAN

TasksOK ==
    /\ lock \in Tasks \cup {Nobody}
    /\ pc \in [Tasks -> {"idle", "waiting"} \cup LockedPcs]
    /\ req \in [Tasks -> Requests \cup {NoRequest}]
    /\ \A t \in Tasks : pc[t] # "idle" => req[t] \in Requests
    /\ cur \in [Tasks -> Intents \cup {NoIntent}]
    /\ tries \in [Tasks -> 0..Attempts]

DurableOK ==
    /\ status \in [Intents -> Statuses]
    /\ meta \in [Intents -> Requests \cup {NoRequest}]
    /\ hasId \in [Intents -> BOOLEAN]
    /\ created \in [Intents -> Int]
    /\ keys \subseteq Keys
    /\ activity \in [Symbols -> [Kinds -> Int]]

RecsOK ==
    /\ rpc \in [Reconcilers -> {"idle", "next", "again", "asked", "searched"}]
    /\ todo \in [Reconcilers -> SUBSET Intents]
    /\ rids \in [Reconcilers -> SUBSET Intents]
    /\ rcur \in [Reconcilers -> Intents \cup {NoIntent}]
    /\ seen \in [Reconcilers -> Found \cup {"nothing"}]

EnvOK ==
    /\ phase \in {"down", "recovering", "serving"}
    /\ crashes \in Nat /\ now \in Nat

TypeOK ==
    /\ SettingsOK /\ TasksOK /\ DurableOK /\ RecsOK /\ EnvOK
    /\ broker \in [Intents -> BrokerStates]
    /\ told \in [Intents -> Answers]

Init ==
    /\ mode \in {"paper", "live"} /\ kill \in BOOLEAN
    /\ lock = Nobody
    /\ pc = [t \in Tasks |-> "idle"]
    /\ req = [t \in Tasks |-> NoRequest]
    /\ cur = [t \in Tasks |-> NoIntent]
    /\ tries = [t \in Tasks |-> 0]
    /\ status = [i \in Intents |-> "none"]
    /\ meta = [i \in Intents |-> NoRequest]
    /\ hasId = [i \in Intents |-> FALSE]
    /\ created = [i \in Intents |-> 0]
    /\ keys = {}
    /\ activity = [s \in Symbols |-> [k \in Kinds |-> Never]]
    /\ broker = [i \in Intents |-> "none"]
    /\ rpc = [r \in Reconcilers |-> "idle"]
    /\ todo = [r \in Reconcilers |-> {}]
    /\ rids = [r \in Reconcilers |-> {}]
    /\ rcur = [r \in Reconcilers |-> NoIntent]
    /\ seen = [r \in Reconcilers |-> "nothing"]
    /\ phase = "down" /\ crashes = 0 /\ now = 0
    /\ told = [i \in Intents |-> "pending"]

-----------------------------------------------------------------------------
(* Runtime settings *)

\* RuntimeSettingsService.set_mode: entering live re-engages the kill switch.
SetMode(m) ==
    /\ phase = "serving"
    /\ m # mode
    /\ mode' = m
    /\ kill' = (kill \/ m = "live")
    /\ UNCHANGED <<tasks, durable, broker, recs, env, told>>

SetKill(b) ==
    /\ phase = "serving"
    /\ b # kill
    /\ kill' = b
    /\ UNCHANGED <<mode, tasks, durable, broker, recs, env, told>>

\* RuntimeSettingsService.get on an unreadable file fails closed.
SettingsUnreadable ==
    /\ mode' = "paper" /\ kill' = TRUE
    /\ UNCHANGED <<tasks, durable, broker, recs, env, told>>

-----------------------------------------------------------------------------
(* Order tasks: manual_stock_order, manual_crypto_order, auto_order *)

Goto(t, label) == pc' = [pc EXCEPT ![t] = label]

\* The handler returns or raises: `async with self._order_lock` is left.
Finish(t) ==
    /\ lock' = Nobody
    /\ pc' = [pc EXCEPT ![t] = "idle"]
    /\ req' = [req EXCEPT ![t] = NoRequest]
    /\ cur' = [cur EXCEPT ![t] = NoIntent]
    /\ tries' = [tries EXCEPT ![t] = 0]

FinishWith(t, answer) ==
    /\ Finish(t)
    /\ told' = [told EXCEPT ![cur[t]] = answer]

Write(i, s) == status' = [status EXCEPT ![i] = s]

\* The gates are checked before the lock is awaited.
Arrive(t, q) ==
    /\ phase = "serving"
    /\ pc[t] = "idle"
    /\ q.source = "auto" <=> t \in Cycles
    /\ Gate(q)
    /\ Goto(t, "waiting")
    /\ req' = [req EXCEPT ![t] = q]
    /\ UNCHANGED <<settings, lock, cur, tries, durable, broker, recs, env, told>>

DuplicateKey(q) == q.source = "manual" /\ q.key \in keys

\* Lock acquired, ensure_new passed; the broker snapshot is being awaited.
Enter(t) ==
    /\ pc[t] = "waiting" /\ lock = Nobody
    /\ ~DuplicateKey(req[t])
    /\ lock' = t
    /\ Goto(t, "snapshot")
    /\ UNCHANGED <<settings, req, cur, tries, durable, broker, recs, env, told>>

\* Lock acquired, but ensure_new raises 409 and the lock is released.
RefuseDuplicate(t) ==
    /\ pc[t] = "waiting" /\ lock = Nobody
    /\ DuplicateKey(req[t])
    /\ Finish(t)
    /\ UNCHANGED <<settings, durable, broker, recs, env, told>>

\* Mutant: the early return forgets the lock.
SnapshotFailsLocked(t) ==
    /\ pc[t] = "snapshot"
    /\ pc' = [pc EXCEPT ![t] = "idle"]
    /\ UNCHANGED <<lock, req, cur, tries, settings, durable, broker, recs, env, told>>

\* No snapshot (409), or a zero quantity (422): nothing is written.
SnapshotFails(t) ==
    /\ pc[t] = "snapshot"
    /\ Finish(t)
    /\ UNCHANGED <<settings, durable, broker, recs, env, told>>

SymbolBlocked(t) ==
    /\ pc[t] = "snapshot"
    /\ HasUnresolved(req[t].symbol)
    /\ Finish(t)
    /\ UNCHANGED <<settings, durable, broker, recs, env, told>>

\* journal.create and idempotency.remember (an auto key is a fresh uuid).
CreateRecord(t, i, s) ==
    /\ status[i] = "none"
    /\ Write(i, s)
    /\ meta' = [meta EXCEPT ![i] = req[t]]
    /\ created' = [created EXCEPT ![i] = now]
    /\ UNCHANGED <<hasId, activity>>

\* Mutant: the key is not reserved before the order is sent.
RememberNothing(q) == keys' = keys

RememberKey(q) == keys' = IF q.source = "manual" THEN keys \cup {q.key} ELSE keys

\* Risk Guard blocks: the record is created, the key spent, then REJECTED.
RiskBlocks(t, i) ==
    /\ pc[t] = "snapshot"
    /\ ~HasUnresolved(req[t].symbol)
    /\ CreateRecord(t, i, "REJECTED")
    /\ RememberKey(req[t])
    /\ Finish(t)
    /\ told' = [told EXCEPT ![i] = "refused"]
    /\ UNCHANGED <<settings, broker, recs, env>>

\* Risk Guard allows or reduces: the broker preflight is being awaited.
RiskAllows(t, i) ==
    /\ pc[t] = "snapshot"
    /\ ~HasUnresolved(req[t].symbol)
    /\ ~InCooldown(req[t])
    /\ CreateRecord(t, i, "CREATED")
    /\ RememberKey(req[t])
    /\ cur' = [cur EXCEPT ![t] = i]
    /\ Goto(t, "preflight")
    /\ UNCHANGED <<settings, lock, req, tries, broker, recs, env, told>>

\* preflight.allowed is false.
PreflightRefused(t) ==
    /\ pc[t] = "preflight"
    /\ Write(cur[t], "REJECTED")
    /\ FinishWith(t, "refused")
    /\ UNCHANGED <<settings, meta, hasId, created, keys, activity, broker, recs, env>>

\* The adapter raises something it does not translate: the record stays CREATED.
PreflightRaises(t) ==
    /\ pc[t] = "preflight"
    /\ FinishWith(t, "error")
    /\ UNCHANGED <<settings, durable, broker, recs, env>>

\* PREFLIGHTED, but the gates were closed while preflight was awaited.
GatesClosed(t) ==
    /\ pc[t] = "preflight"
    /\ ~Gate(req[t])
    /\ Write(cur[t], "REJECTED")
    /\ FinishWith(t, "refused")
    /\ UNCHANGED <<settings, meta, hasId, created, keys, activity, broker, recs, env>>

\* Mutant: no second look at the gates after the preflight.
BeginUngated(t) ==
    /\ pc[t] = "preflight"
    /\ Write(cur[t], "SUBMITTING")
    /\ Goto(t, "submitting")
    /\ UNCHANGED <<settings, lock, req, cur, tries, meta, hasId, created, keys,
                   activity, broker, recs, env, told>>

\* PREFLIGHTED, gates still open, SUBMITTING: the record is durable before
\* the adapter is called.
BeginSubmit(t) ==
    /\ pc[t] = "preflight"
    /\ Gate(req[t])
    /\ Write(cur[t], "SUBMITTING")
    /\ Goto(t, "submitting")
    /\ UNCHANGED <<settings, lock, req, cur, tries, meta, hasId, created, keys,
                   activity, broker, recs, env, told>>

\* The POST leaves the process.  It is not repeated, but for a Toss 401, which
\* means that the first was not accepted.
Send(t) ==
    /\ pc[t] = "submitting"
    /\ broker' = [broker EXCEPT ![cur[t]] = "inflight"]
    /\ Goto(t, "awaiting")
    /\ UNCHANGED <<settings, lock, req, cur, tries, durable, recs, env, told>>

\* The adapter gives up before the POST (adapter disabled, account lookup or
\* request building failed): an unambiguous error.
NotSent(t) ==
    /\ pc[t] = "submitting"
    /\ Write(cur[t], "REJECTED")
    /\ FinishWith(t, "refused")
    /\ UNCHANGED <<settings, meta, hasId, created, keys, activity, broker, recs, env>>

\* A success response with an order id.
Accepted(t) ==
    LET i == cur[t] IN
    /\ pc[t] = "awaiting"
    /\ broker[i] \in Found
    /\ Write(i, "SUBMITTED")
    /\ hasId' = [hasId EXCEPT ![i] = TRUE]
    /\ activity' = IF req[t].source = "auto"
                   THEN Recorded(req[t].symbol, {"any", req[t].side}, now)
                   ELSE activity
    /\ FinishWith(t, "submitted")
    /\ UNCHANGED <<settings, meta, created, keys, broker, recs, env>>

\* A success response without an order id.
AcceptedWithoutId(t) ==
    /\ pc[t] = "awaiting"
    /\ broker[cur[t]] \in Found
    /\ Write(cur[t], "UNKNOWN")
    /\ FinishWith(t, "unknown")
    /\ UNCHANGED <<settings, meta, hasId, created, keys, activity, broker, recs, env>>

\* A 4xx: the broker says the order was not accepted.
Refused(t) ==
    /\ pc[t] = "awaiting"
    /\ broker[cur[t]] = "refused"
    /\ Write(cur[t], "REJECTED")
    /\ FinishWith(t, "refused")
    /\ UNCHANGED <<settings, meta, hasId, created, keys, activity, broker, recs, env>>

\* Timeout, connection error, 5xx or unreadable answer on Toss.
AmbiguousToss(t) ==
    /\ pc[t] = "awaiting"
    /\ req[t].symbol \notin UpbitSymbols
    /\ Write(cur[t], "UNKNOWN")
    /\ FinishWith(t, "unknown")
    /\ UNCHANGED <<settings, meta, hasId, created, keys, activity, broker, recs, env>>

\* Mutant: a timeout is taken for a refusal.
AmbiguousAsRejected(t) ==
    /\ pc[t] = "awaiting"
    /\ req[t].symbol \in UpbitSymbols
    /\ Write(cur[t], "REJECTED")
    /\ Goto(t, "recover")
    /\ UNCHANGED <<settings, lock, req, cur, tries, meta, hasId, created, keys,
                   activity, broker, recs, env, told>>

\* The same on Upbit, where the order is looked up at once, lock held.
AmbiguousUpbit(t) ==
    /\ pc[t] = "awaiting"
    /\ req[t].symbol \in UpbitSymbols
    /\ Write(cur[t], "UNKNOWN")
    /\ Goto(t, "recover")
    /\ UNCHANGED <<settings, lock, req, cur, tries, meta, hasId, created, keys,
                   activity, broker, recs, env, told>>

\* An exception the handler does not translate (a protocol error, a body of
\* an unexpected shape): the record stays SUBMITTING.
SubmitRaises(t) ==
    /\ pc[t] \in {"submitting", "awaiting"}
    /\ FinishWith(t, "error")
    /\ UNCHANGED <<settings, durable, broker, recs, env>>

-----------------------------------------------------------------------------
(* _try_reconcile_upbit: lookups by identifier, at most Attempts of them *)

\* The lookup fails, or the broker does not know the identifier (yet).
RecoverMisses(t) ==
    /\ pc[t] = "recover" /\ tries[t] < Attempts
    /\ tries' = [tries EXCEPT ![t] = @ + 1]
    /\ UNCHANGED <<settings, lock, pc, req, cur, durable, broker, recs, env, told>>

\* The broker has evaluated the lookup; its answer is under way.
RecoverLooksUp(t) ==
    /\ pc[t] = "recover" /\ tries[t] < Attempts
    /\ broker[cur[t]] \in Found
    /\ Goto(t, IF broker[cur[t]] = "closed" THEN "sawClosed" ELSE "sawOpen")
    /\ UNCHANGED <<settings, lock, req, cur, tries, durable, broker, recs, env, told>>

\* Mutant: an order that was not found is reported as refused.
RecoverRefuses(t) ==
    /\ pc[t] = "recover" /\ tries[t] = Attempts
    /\ FinishWith(t, "refused")
    /\ UNCHANGED <<settings, durable, broker, recs, env>>

\* All attempts used: the caller learns that the outcome is unknown.
RecoverGivesUp(t) ==
    /\ pc[t] = "recover" /\ tries[t] = Attempts
    /\ FinishWith(t, "unknown")
    /\ UNCHANGED <<settings, durable, broker, recs, env>>

\* Found and still open: SUBMITTED; only the general activity is recorded.
RecoverSubmitted(t) ==
    LET i == cur[t] IN
    /\ pc[t] = "sawOpen"
    /\ Write(i, "SUBMITTED")
    /\ hasId' = [hasId EXCEPT ![i] = TRUE]
    /\ activity' = IF req[t].source = "auto"
                   THEN Recorded(req[t].symbol, {"any"}, now) ELSE activity
    /\ FinishWith(t, "recovered")
    /\ UNCHANGED <<settings, meta, created, keys, broker, recs, env>>

\* Found and already done: CONFIRMED, yet the handler falls through to the
\* "outcome unknown" answer and records no activity.
RecoverConfirmed(t) ==
    LET i == cur[t] IN
    /\ pc[t] = "sawClosed"
    /\ Write(i, "CONFIRMED")
    /\ hasId' = [hasId EXCEPT ![i] = TRUE]
    /\ FinishWith(t, "unknown")
    /\ UNCHANGED <<settings, meta, created, keys, activity, broker, recs, env>>

-----------------------------------------------------------------------------
(* LiveOrderReconciler: no lock, stale record objects, blind updates *)

\* reconcile() over the unresolved records; `rids` are the records whose
\* object in the list carries a broker order id.
StartBatch(r, batch) ==
    /\ rpc[r] = "idle"
    /\ rpc' = [rpc EXCEPT ![r] = "next"]
    /\ todo' = [todo EXCEPT ![r] = batch]
    /\ rids' = [rids EXCEPT ![r] = {i \in batch : hasId[i]}]
    /\ UNCHANGED <<rcur, seen>>

\* The five-minute job and POST /live-orders/reconcile without an id.
ReconcileAll(r) ==
    /\ phase = "serving" /\ r # Boot
    /\ Unresolved # {}
    /\ StartBatch(r, Unresolved)
    /\ UNCHANGED <<settings, tasks, durable, broker, env, told>>

\* POST /live-orders/reconcile?intent_id=...: any existing record.
ReconcileOne(r, i) ==
    /\ phase = "serving" /\ r \in Endpoints
    /\ status[i] # "none"
    /\ StartBatch(r, {i})
    /\ UNCHANGED <<settings, tasks, durable, broker, env, told>>

\* The record object being worked on, or any next one of the batch.
Candidates(r) == IF rpc[r] = "again" THEN {rcur[r]}
                 ELSE IF rpc[r] = "next" THEN todo[r] ELSE {}

Upbit(i) == meta[i].symbol \in UpbitSymbols

\* get_order: by order id, or by identifier on Upbit.  Toss first has to
\* search its order lists for an unknown order id.  The broker evaluates the
\* request now, the answer is used in a later step.
AskBroker(r, i) ==
    /\ i \in Candidates(r)
    /\ broker[i] \in Found
    /\ rcur' = [rcur EXCEPT ![r] = i]
    /\ seen' = [seen EXCEPT ![r] = broker[i]]
    /\ rpc' = [rpc EXCEPT ![r] = IF Upbit(i) \/ i \in rids[r]
                                 THEN "asked" ELSE "searched"]
    /\ UNCHANGED <<todo, rids, settings, tasks, durable, broker, env, told>>

\* The loop moves to the next record, or reconcile() returns.
DoneWith(r, i) ==
    LET rest == todo[r] \ {i} IN
    /\ todo' = [todo EXCEPT ![r] = rest]
    /\ rids' = [rids EXCEPT ![r] = @ \cap rest]
    /\ rpc' = [rpc EXCEPT ![r] = IF rest = {} THEN "idle" ELSE "next"]
    /\ rcur' = [rcur EXCEPT ![r] = NoIntent]
    /\ seen' = [seen EXCEPT ![r] = "nothing"]

\* Lookup error, unknown order, list page missed: the record is left alone.
LookupFails(r, i) ==
    /\ i \in Candidates(r) \/ (rpc[r] \in {"asked", "searched"} /\ rcur[r] = i)
    /\ DoneWith(r, i)
    /\ UNCHANGED <<settings, tasks, durable, broker, env, told>>

\* An exception that _one does not catch abandons the whole batch.
BatchRaises(r) ==
    /\ rpc[r] # "idle"
    /\ rpc' = [rpc EXCEPT ![r] = "idle"]
    /\ todo' = [todo EXCEPT ![r] = {}]
    /\ rids' = [rids EXCEPT ![r] = {}]
    /\ rcur' = [rcur EXCEPT ![r] = NoIntent]
    /\ seen' = [seen EXCEPT ![r] = "nothing"]
    /\ UNCHANGED <<settings, tasks, durable, broker, env, told>>

\* The Toss order lists contain the clientOrderId: SUBMITTED with its id, then
\* the order itself is asked for.
SearchFound(r) ==
    LET i == rcur[r] IN
    /\ rpc[r] = "searched"
    /\ Write(i, "SUBMITTED")
    /\ hasId' = [hasId EXCEPT ![i] = TRUE]
    /\ rids' = [rids EXCEPT ![r] = @ \cup {i}]
    /\ rpc' = [rpc EXCEPT ![r] = "again"]
    /\ seen' = [seen EXCEPT ![r] = "nothing"]
    /\ UNCHANGED <<todo, rcur, meta, created, keys, activity, settings, tasks,
                   broker, env, told>>

\* The journal status for a broker status (_one for Upbit,
\* _toss_journal_status for Toss).
JournalStatus(i, s) ==
    CASE s = "closed"                      -> "CONFIRMED"
      [] s = "rejected" /\ ~Upbit(i)       -> "REJECTED"
      [] s = "odd" /\ ~Upbit(i)            -> "UNKNOWN"
      [] OTHER                             -> "SUBMITTED"

\* _save: a blind update, whatever the record has become meanwhile.
Save(r) ==
    LET i == rcur[r]
        s == JournalStatus(i, seen[r]) IN
    /\ rpc[r] = "asked"
    /\ Write(i, s)
    /\ hasId' = [hasId EXCEPT ![i] = TRUE]
    /\ activity' = IF meta[i].source = "auto" /\ s \in {"SUBMITTED", "CONFIRMED"}
                   THEN Recorded(meta[i].symbol, {"any"}, created[i])
                   ELSE activity
    /\ DoneWith(r, i)
    /\ UNCHANGED <<meta, created, keys, settings, tasks, broker, env, told>>

-----------------------------------------------------------------------------
(* Startup and crashes *)

\* lifespan: StartupMaintenanceService.run, nothing to recover.
BootClean ==
    /\ phase = "down" /\ Unresolved = {}
    /\ phase' = "serving"
    /\ UNCHANGED <<crashes, now, settings, tasks, durable, broker, recs, told>>

\* ... or a first reconciliation, before anything else runs.
BootRecovers ==
    /\ phase = "down" /\ Unresolved # {}
    /\ StartBatch(Boot, Unresolved)
    /\ phase' = "recovering"
    /\ UNCHANGED <<crashes, now, settings, tasks, durable, broker, told>>

\* It ended (or raised, which is swallowed): the API and the scheduler start.
BootDone ==
    /\ phase = "recovering" /\ rpc[Boot] = "idle"
    /\ phase' = "serving"
    /\ UNCHANGED <<crashes, now, settings, tasks, durable, broker, recs, told>>

\* The process dies: everything but the files and the brokers is lost.
Die ==
    /\ crashes < MaxCrashes
    /\ crashes' = crashes + 1
    /\ phase' = "down"
    /\ lock' = Nobody
    /\ pc' = [t \in Tasks |-> "idle"]
    /\ req' = [t \in Tasks |-> NoRequest]
    /\ cur' = [t \in Tasks |-> NoIntent]
    /\ tries' = [t \in Tasks |-> 0]
    /\ rpc' = [r \in Reconcilers |-> "idle"]
    /\ todo' = [r \in Reconcilers |-> {}]
    /\ rids' = [r \in Reconcilers |-> {}]
    /\ rcur' = [r \in Reconcilers |-> NoIntent]
    /\ seen' = [r \in Reconcilers |-> "nothing"]
    /\ UNCHANGED <<now, settings, broker, told>>

Crash ==
    /\ Die
    /\ UNCHANGED durable

\* It dies between two of the file writes of one stretch.
CrashBetweenWrites(t, i) ==
    \* after journal.create, before or after idempotency.remember
    \/ /\ pc[t] = "snapshot" /\ ~HasUnresolved(req[t].symbol)
       /\ Die
       /\ CreateRecord(t, i, "CREATED")
       /\ (keys' = keys \/ RememberKey(req[t]))
    \* after PREFLIGHTED or SUBMITTING was written
    \/ /\ pc[t] = "preflight" /\ i = cur[t]
       /\ Die
       /\ \E s \in {"PREFLIGHTED", "SUBMITTING"} :
            (s = "SUBMITTING" => Gate(req[t])) /\ Write(i, s)
       /\ UNCHANGED <<meta, hasId, created, keys, activity>>
    \* after SUBMITTED was written, before the activity
    \/ /\ pc[t] \in {"awaiting", "sawOpen"} /\ i = cur[t] /\ broker[i] \in Found
       /\ Die
       /\ Write(i, "SUBMITTED")
       /\ hasId' = [hasId EXCEPT ![i] = TRUE]
       /\ UNCHANGED <<meta, created, keys, activity>>

\* ... and in LiveOrderReconciler._save, before the activity is recorded.
CrashInSave(r) ==
    LET i == rcur[r] IN
    /\ rpc[r] = "asked"
    /\ Die
    /\ Write(i, JournalStatus(i, seen[r]))
    /\ hasId' = [hasId EXCEPT ![i] = TRUE]
    /\ UNCHANGED <<meta, created, keys, activity>>

-----------------------------------------------------------------------------
(* The brokers (external) and time *)

BrokerStep(i, from, to) ==
    /\ broker[i] \in from
    /\ broker' = [broker EXCEPT ![i] = to]
    /\ UNCHANGED <<settings, tasks, durable, recs, env, told>>

BrokerAccepts(i) == BrokerStep(i, {"inflight"}, "open")
BrokerRefuses(i) == BrokerStep(i, {"inflight"}, "refused")
BrokerCloses(i)  == BrokerStep(i, {"open", "odd"}, "closed")
BrokerRejects(i) == BrokerStep(i, {"open"}, "rejected") /\ ~Upbit(i)
BrokerAmends(i)  == BrokerStep(i, {"open"}, "odd") /\ ~Upbit(i)

Tick ==
    /\ now < MaxTime
    /\ now' = now + 1
    /\ UNCHANGED <<phase, crashes, settings, tasks, durable, broker, recs, told>>

-----------------------------------------------------------------------------
SettingsStep ==
    \/ \E m \in {"paper", "live"} : SetMode(m)
    \/ \E b \in BOOLEAN : SetKill(b)
    \/ SettingsUnreadable

\* The next step of a task whose handler is running.
TaskStep(t) ==
    \/ Enter(t) \/ RefuseDuplicate(t) \/ SnapshotFails(t) \/ SymbolBlocked(t)
    \/ \E i \in Intents : RiskBlocks(t, i) \/ RiskAllows(t, i)
    \/ PreflightRefused(t) \/ PreflightRaises(t) \/ GatesClosed(t)
    \/ BeginSubmit(t) \/ Send(t) \/ NotSent(t)
    \/ Accepted(t) \/ AcceptedWithoutId(t) \/ Refused(t)
    \/ AmbiguousToss(t) \/ AmbiguousUpbit(t) \/ SubmitRaises(t)
    \/ RecoverMisses(t) \/ RecoverLooksUp(t) \/ RecoverGivesUp(t)
    \/ RecoverSubmitted(t) \/ RecoverConfirmed(t)

ReconcilerStep(r) ==
    \/ ReconcileAll(r)
    \/ \E i \in Intents : ReconcileOne(r, i) \/ AskBroker(r, i) \/ LookupFails(r, i)
    \/ BatchRaises(r) \/ SearchFound(r) \/ Save(r)

BrokerActs(i) ==
    \/ BrokerAccepts(i) \/ BrokerRefuses(i) \/ BrokerCloses(i)
    \/ BrokerRejects(i) \/ BrokerAmends(i)

ProcessStep ==
    \/ BootClean \/ BootRecovers \/ BootDone \/ Crash
    \/ \E t \in Tasks, i \in Intents : CrashBetweenWrites(t, i)
    \/ \E r \in Reconcilers : CrashInSave(r)

Next ==
    \/ SettingsStep
    \/ \E t \in Tasks : TaskStep(t) \/ \E q \in Requests : Arrive(t, q)
    \/ \E r \in Reconcilers : ReconcilerStep(r)
    \/ \E i \in Intents : BrokerActs(i)
    \/ ProcessStep
    \/ Tick

Spec == Init /\ [][Next]_vars

\* Every handler that was started goes on (each await has a timeout); the
\* event loop serves a waiting task when the lock is free; the scheduler runs
\* the five-minute job, and a lookup that is repeated for ever is answered
\* sooner or later.  Callers, settings and brokers are not fair.
FairTask(t) ==
    /\ WF_vars(TaskStep(t) /\ pc[t] # "waiting")
    /\ SF_vars(Enter(t) \/ RefuseDuplicate(t))

FairJob ==
    /\ WF_vars(BootClean \/ BootRecovers \/ BootDone)
    /\ WF_vars(ReconcileAll(Job))
    /\ \A r \in {Boot, Job}, i \in Intents :
         /\ WF_vars(AskBroker(r, i) \/ LookupFails(r, i))
         /\ SF_vars(AskBroker(r, i))
         /\ SF_vars(rcur[r] = i /\ (SearchFound(r) \/ Save(r)))

LiveSpec == Spec /\ FairJob /\ \A t \in Tasks : FairTask(t)

-----------------------------------------------------------------------------
(* Properties *)

\* The order may still change the account.
OnMarket(i) == broker[i] \in {"inflight", "open", "odd"}

\* An order that may still change the account is unresolved in the journal,
\* so it blocks its symbol; CONFIRMED and REJECTED are written only about
\* orders that are over (_execute, _try_reconcile_upbit, _one/_save).
JournalIsHonest ==
    \A i \in Intents :
      /\ OnMarket(i) => status[i] \in UnresolvedStatuses
      /\ status[i] = "CONFIRMED" => broker[i] = "closed"
      /\ status[i] = "REJECTED" => broker[i] \in {"none", "refused", "rejected"}

\* Two intents for one symbol are never on the market together, whatever
\* crashes, ambiguous answers and concurrent reconciliations happen
\* (has_unresolved under the order lock, README "Live order safety layer").
OneOrderPerSymbol ==
    \A i, j \in Intents :
      (i # j /\ OnMarket(i) /\ OnMarket(j)) => meta[i].symbol # meta[j].symbol

\* An idempotency key leads to at most one order at a broker, also across a
\* crash and a retry with the same key (ensure_new / remember).
OneOrderPerKey ==
    \A i, j \in Intents :
      (i # j /\ broker[i] # "none" /\ broker[j] # "none"
         /\ meta[i].source = "manual" /\ meta[j].source = "manual")
      => meta[i].key # meta[j].key

\* A caller is told "rejected" only of an order that never reached the market,
\* and "submitted" only of one the broker has (the replies of _execute).
HonestAnswers ==
    \A i \in Intents :
      /\ told[i] = "refused" => broker[i] \in {"none", "refused"}
      /\ told[i] \in {"submitted", "recovered"} => broker[i] \in Found

\* An order goes to SUBMITTING only while mode is live and the kill switch is
\* off, and only such a record is sent, once (the second gate check of
\* _execute; the adapters never repeat a POST).
GatedAndSentOnce ==
    [][\A i \in Intents :
         /\ (status'[i] = "SUBMITTING" /\ status[i] # "SUBMITTING")
              => mode = "live" /\ ~kill /\ phase = "serving"
         /\ (broker'[i] = "inflight" /\ broker[i] # "inflight")
              => broker[i] = "none" /\ status[i] \in UnresolvedStatuses]_vars

\* After an automatic order whose acknowledgement was processed, no automatic
\* BUY of that symbol is sent before the cooldown of that order's side is over,
\* crashes and restarts included (Accepted -> auto_activity ->
\* _buy_cooldown_reason).
CooldownAfterAcknowledgement ==
    [][\A i, j \in Intents :
         LET wait == IF meta[i].side = "buy" THEN BuyCooldown ELSE SellCooldown IN
         ( /\ broker'[j] = "inflight" /\ broker[j] = "none"
           /\ i # j /\ told[i] = "submitted"
           /\ meta[i].source = "auto" /\ meta[j].source = "auto"
           /\ meta[j].side = "buy" /\ meta[i].symbol = meta[j].symbol )
         => now - created[i] >= wait]_vars

\* Once the broker is done with an order, the journal ends up, and stays, in a
\* terminal status, so the symbol is tradable again; stale writes of other
\* reconciliations are repaired (the five-minute job).
SettledForGood ==
    \A i \in Intents : (broker[i] \in {"closed", "rejected"})
                         ~> [](status[i] \in Terminal)

\* The order lock never stays with a task, and a waiting request is served.
LockIsReleased ==
    \A t \in Tasks : pc[t] \in {"waiting"} \cup LockedPcs ~> pc[t] = "idle"

-----------------------------------------------------------------------------
(* The abstract specification, and how this one implements it *)

Idle(i) == status[i] \in {"none", "CREATED", "PREFLIGHTED"}
Over(i) == broker[i] \in Gone \/ (status[i] = "REJECTED" /\ broker[i] = "none")

Promise == INSTANCE OrderPromise WITH
    armed <- (mode = "live" /\ ~kill),
    order <- [i \in Intents |-> IF Idle(i) THEN "idle"
                                ELSE IF Over(i) THEN "over" ELSE "live"],
    about <- [i \in Intents |-> IF Idle(i) THEN NoRequest ELSE meta[i]]

PromiseSpec == Promise!Spec
=============================================================================
