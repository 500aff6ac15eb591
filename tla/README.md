# Verification of meme_v1

meme_v1 is a personal trading assistant: a FastAPI backend that watches Korean
stocks (Toss) and crypto currencies (Upbit), asks an LLM at intervals of 30 to
120 minutes what to buy and sell, passes the answer through deterministic sizing
and risk rules, and trades on two local paper accounts or, behind several
switches, on the real accounts. A Flutter application shows the accounts and
sends manual orders. The backend is one process with one asyncio event loop
(plus executor threads for synchronous jobs); all of its state is in files.

This directory models the parts of the backend that decide whether money moves,
checks them with TLC on small instances and proves the most important results
with TLAPS for every value of the constants.

## 1. Inventory

Paths are relative to `src/backend/app`. "Correct" names what makes the component
right; the modules of section 3 say which of that is stated and checked.

| Component | State | Operations and interactions | Correct when |
|---|---|---|---|
| Live order execution (`services/live_order_service.py`, `live_order_journal.py`) | one durable record per intent (`state/live_orders/*.json`), the idempotency file, an in-memory order lock | manual requests and the automatic cycle run gate → key → snapshot → record → Risk Guard → preflight → gate → SUBMITTING → POST → answer, with an await at every broker call; an ambiguous Upbit answer is looked up at once | no order is repeated, none is forgotten, no two orders of a symbol are open, callers are told the truth |
| Reconciliation (`services/live_order_reconciler.py`, `startup_maintenance.py`) | the status of unresolved records | batches at start-up, every five minutes and from an endpoint, *without* the order lock | records become terminal when the broker is done, and only then |
| Automatic live cycle (`services/live_auto_cycle.py`, `decision_cycle.py`, `decision_store.py`, `cycle_metrics.py`) | decision file and telemetry per day | per market account → selection → snapshot; then LLM → sizing → order path, one decision at a time; the record at the end | what is held is decided, the record is true, the same gates as a manual order, every run ends |
| Universe (`services/*_universe.py`, `*_universe_selector.py`) | the stored universe per market | holdings first, then the ranking, up to a limit; the user may set it | holdings are never ranked out; nothing unfit is added |
| Activity (`services/auto_trade_activity.py`) | last any/buy/sell/stop time per symbol and mode | written by fills, read by Risk Guard | cooldowns hold |
| Idempotency store (`services/idempotency.py`) | `idempotency.json` | check on arrival, remember before sending, nightly pruning on a thread | a key is spent once |
| Runtime settings (`services/runtime_settings.py`) | mode, kill switch | switched by the user at any moment; unreadable settings mean paper mode and kill switch | fail closed |
| Decision scheduler (`services/scheduler.py`, `scheduler_state.py`) | the one-shot APScheduler job, the plan and the last report on disk | every cycle schedules its successor; toggle, restart, misfire | the chain never breaks, cycles keep their distance, reports are true |
| Risk Guard (`services/risk_guard.py`) | none | pure rules: ALLOW / REDUCE / BLOCK per intent | limits hold after the fill, exits are never locked in |
| Position Sizer (`services/position_sizer.py`) | none | score → target weight → order | never sells more than is held |
| Paper broker (`services/paper_broker.py`, `paper_order_journal.py`) | an account and a journal file per market | prices, fills, day roll, reset | account and journal agree; limits hold |
| Paper cycle (`services/paper_auto_cycle.py`, `combined_paper_runner.py`) | – | snapshot → LLM (up to 75 s) → orders; several may overlap | nothing decided on old facts breaks a limit |
| Stop monitor (`services/paper_risk_monitor.py`) | – | every five minutes: quotes, stop exits | exits happen beside cycles without breaking cooldowns |
| Manual trading (`services/trading.py`) | – | paper manual orders, refresh of positions, hand-over to the live path | same rules as automatic orders |
| Broker adapters (`brokers/*`) | OAuth token, pacing | signed HTTP, translation of errors into refused / ambiguous | an ambiguous outcome is never called refused; a POST is never repeated |
| Live snapshots (`services/live_risk_snapshot.py`, `live_portfolio_snapshot.py`, `live_daily_baseline.py`) | day baseline | account values for Risk Guard, with cash reserved for pending BUYs | pending orders are counted |
| LLM runtime, guard and budget (`services/llm_*.py`, `openai_usage_sync.py`) | pause / backoff, tokens spent, the usage OpenAI reports | asked before, told after every call of a cycle, of the news and of a review, several of which may be in flight | budget holds but for calls in flight, a pause lasts, reports stay in order |
| LLM client (`services/openai_decision.py`) | – | prompt, remote call, validation; then scores of technical, market, company and news evidence, thresholds moved by regime and exposure, the final action | answers name each symbol once; thin or old evidence does not turn what the signals say |
| Algorithm proposals (`services/algorithm*.py`) | the document of rules, its backup, proposal files | migration at start, a review creates, the user applies or cancels, the prompt takes the end of the document | an approved rule is kept, once, and reaches the prompt |
| Context (`decision_engine.py`, `context_compactor.py`, `rolling_context.py`, `macro_market_context.py`), displays, news files, push, devices, audit, errors, retention, readiness and signals | files | append, list, prune, compute | no influence on orders except as input |
| Mobile application (`src/mobile`) | – | client of the endpoints; repeats a keyed request | – |

What is hard here: every `await` is a point where other requests, the automatic
cycle, a reconciliation or a switch may run; the retention job runs on a real
thread; a POST can time out after the broker accepted the order; a crash can fall
between any two file writes, and there is no transaction over two files; one
process-wide lock guards all live orders; decisions are made on quotes that are
minutes old when they are carried out; and the scheduler's chain is only as
strong as its weakest link. `PROJECT.json` lists each hazard at its line.

## 2. Plan

Done, in this order, the most important behaviour first:

1. `OrderPromise`, `LiveOrders`, `LiveOrdersInv`, `LiveOrdersProofs` – real orders.
2. `IdempotencyKeys`, `IdempotencyKeysProofs` – the file operations that `LiveOrders` takes as atomic.
3. `DecisionScheduler`, `DecisionSchedulerProofs` – the chain of cycles.
4. `PositionSizer`, `RiskGuard` – the pure rules, proved in `RulesProofs`.
5. `LiveLimits`, `LiveLimitsProofs` – the limits on the real accounts, composed with
   `RiskGuard`.
6. `PaperTrading`, `PaperTradingProofs` – composes `RiskGuard` and `PositionSizer`
   with both accounts and everything that trades on them.
7. `Proposals`, `LlmCalls`, `LlmCallsProofs` – who may call the LLM, and the rules
   it is given.
8. `DecisionScores`, `RulesProofs` – what becomes of its answer, on top of
   `RiskGuard`.
9. `LiveCycle`, `LiveCycleProofs` – the run that connects all of these.

Left: the listing limits of the order journal.

## 3. Modules

### OrderPromise

What the live path promises, without processes, files or brokers' answers: an
intent becomes *live* when it is committed, and *over* when it can no longer
change the account. A step may commit an intent only while trading is armed (mode
live, kill switch off), only when no live intent has its symbol, and never for a
manual key that was used before; nothing that is over comes back.

### LiveOrders

State: the settings; per task (a client request or a caller of the automatic
cycle) a program counter `pc`, its request, its intent and its lookup attempts;
the lock; per intent the durable `status`, its metadata, whether a broker order id
is stored and its creation time; the spent keys and the activity times; per
reconciliation (`Boot`, the five-minute `Job`, calls of the endpoint) its todo
list, the ids it holds and the answer it has seen; what the broker knows; the
process phase, the clock, and the answer told to the caller.

Each action is what a handler does between two awaits, with all its file writes:
`Arrive`, `Enter`, `SnapshotFails`, `RiskBlocks`, `RiskAllows`, `PreflightRefused`,
`PreflightRaises`, `GatesClosed`, `BeginSubmit`, `Send`, `Accepted`, `Refused`,
`AmbiguousUpbit`, `AmbiguousToss`, `SubmitRaises`, `NotSent`, `AcceptedWithoutId`,
`Recover*` for `LiveOrderService`; `StartBatch`, `AskBroker`, `SearchFound`,
`LookupFails`, `BatchRaises`, `Save` for the reconciler. A crash may happen between
handlers (`Crash`) and between any two file writes of one (`CrashBetweenWrites`,
`CrashInSave`); a restart first reconciles (`BootRecovers`) and then serves.
The broker accepts or refuses an order at any time after it was sent, also after
the answer was lost, and later closes or rejects it.

`LiveOrdersInv` holds the inductive invariants of the proofs.

### IdempotencyKeys

The same store at the granularity of its file operations: inodes, the fixed
temporary name, open (truncate), write, rename; order handlers on the event loop,
the pruning on an executor thread; migration of undated entries, expiry, crashes
that leave a torn temporary file. It justifies, and limits, the atomic `keys` of
`LiveOrders`: keys are lost only when two rewrites overlap.

### DecisionScheduler

The job in memory, the plan and the report on disk, the switch, the cycle (fired,
running) and the clock. `Fire`, `Misfire` and `Prompt` model APScheduler: a due job
runs before time goes on unless the process stood still (`Pause`), in which case
it is late, and dropped when it is later than `misfire_grace_time`.

### RiskGuard and PositionSizer

Operators over an intent record with the fields of `RiskOrderIntent`: the system
rules, the BUY lockouts, the four capacities and the reduction to whole units
(`Units`; the code floors to one share or 1e-8 coin, here to 1). `BuyIsSafe`,
`BuyIsLargest` and `SellIsAvailable` state what an evaluation must satisfy.

### DecisionScores

What `_apply_quant_guardrails` of the LLM client makes of a reply, as operators over a
record of evidence: the technical score that the signals give, and per group of
evidence (market and sector, company, news) a raw score, a confidence and an age.
Scores are in hundredths where the code has floats, so that rounding to whole points
is a step of its own (`Nearest`, either way at a tie). `Fresh` is the decay by age, any
function from ages to parts: neither 0.5^(age / half life) nor the half lives matter
to what is proved. `StockScore` is the mean of what is usable, renormalised by weight,
confidence and freshness; `CryptoScore` blends news into the technical score.
`BuyThreshold` and `SellThreshold` move with the regime and with the gap between target
and present exposure (`Nudge`); `Action` compares; `Ordered` are the limits of the sizer.
`MCRiskGuard` evaluates one intent or one piece of evidence per behaviour.

### LiveCycle

One run of `LiveAutoCycleService`, step by step between awaits, with `Of(m)` the
instruments of a market: `Start` (the gates), per market `ReadAccount`, `Select` and
`Snapshot`, or `PassMarket` (not enabled, or an exception, caught per market); `Ask`
or `Unavailable`; per decision `Pass` (no order), `Order` (with the answer of
`LiveOrderService` and the status the record will show) or `Abort` (an exception that is
not an `HTTPException` ends the run); `Record` or `RecordFails`. A run reads nothing that
an earlier run wrote, so one run is all there is to a behaviour; what it reads of
accounts and settings is any value at every step. `FillRequired` is the selection
without its order: which candidates rank first is open. `Choose` is the user's
universe, which the next `Select` replaces. `exact` says whether the LLM repeated a
symbol letter by letter: coverage compares capitals, the cycle does not.

### Proposals and LlmCalls

`Proposals` is the document of the algorithm with its sections of old and of newly
applied rules, the backup of the migration and the directory of each proposal. Each
endpoint runs without interruption, and `DieIn*` are the ends of the process between
or in its file writes, none of which goes through a temporary file except `apply`.

`LlmCalls` adds who asks: decisions, the news and reviews, each `idle`, `called`, or after
its answer waiting for the reported usage (`queued`, `syncing`, under the lock of
`OpenAIUsageSyncService`). A call asks `Status` and the budget before it begins
(`CallIfAdmitted`), and its answer charges (`Answered`), pauses or backs off
(`CallFails`, `Unusable`) or resumes (`Useful`). `peak`, `width` and `witnesses` are history: the
largest budget of the day, the most calls at once, and who was calling when the LLM
was paused.

### LiveLimits

What `LiveOrders` leaves out: the amounts. One order at a time holds the lock and
collects its snapshot in the steps of `LiveRiskSnapshotService`: Upbit balances, or
Toss holdings and then buying power; quotes, with the reservation for BUYs that are
unresolved at that moment; both accounts once more for the number of positions; and
with the last answer the journal, the baseline, the verdict of `RiskGuard` and the
record. Meanwhile the brokers accept, refuse, fill (also in part) and cancel earlier
orders, records are reconciled, portfolios are read and the day changes. A
reconciliation is one step here and happens only when the broker is done; that this
is what it amounts to is `JournalIsHonest` of `LiveOrders`. Whether the buying power
of Toss has open BUYs deducted is left open. The history variables `late`, `missed`
and `torn` record the two races of section 6; `unsound` says that some BUY was judged
in one.

### PaperTrading

Both paper accounts with their journals, the activity times, the settings, and the
tasks: any number of `Cycles`, the `Monitor` and the `Refresh`. A handler runs
without interruption from one await to the next; a parameter `written` says after
how many file writes the process dies, if it does. `busy` marks a handler that
goes through several symbols; nobody else moves meanwhile. A quote carries the age
the broker reported and the time it was received; `MaxWait` bounds one await (the
adapters and the LLM client have timeouts).

The history variables `bought`, `latest` and `torn` record what happened
outside the files, so that properties compare the files with facts rather than
with themselves.

## 4. Runs

Ten passing runs and two that show a disagreement between the code and a
statement in the repository. `MC*` modules give the requests and the symmetry sets.

| Run | Question | Bounds |
|---|---|---|
| `upbit` | Are the order-path guarantees, the cooldown of BUYs and the promise kept when a keyed manual SELL (which may be repeated) and an automatic BUY compete for one Upbit symbol, with ambiguous answers, background reconciliation, switches and a crash anywhere? | 2 intents, 1 lookup attempt, 2 instants, a cooldown of 1, 1 crash |
| `progress` | Do records settle for good and does the lock come free, with the job and the endpoint reconciling a Toss symbol at once? | 1 intent, 2 callers, 2 reconciliations |
| `keys_files` | Are keys lost only by overlapping rewrites? | 2 keys, 3 inodes, 2 orders, 1 pruning, 1 crash |
| `chain` | Is a next cycle always planned, on disk too, and are cycles spaced? | 10 instants, interval 2–4, grace 1, pauses up to 2, 2 restarts |
| `rules` | Are all verdicts of Risk Guard safe, and as large as they can be? Does the scoring of the LLM's evidence keep the direction of coins, keep stocks between what the evidence says, and not swing with regime and exposure? | small cash, values, prices and quantities, all combinations of the other rules; 7 technical scores on both sides of each threshold, 3 raw scores, 3 regimes, 3 confidences, 2 ages and none |
| `llm` | Do the token budget, a pause, the order of reports and the approved rules survive calls, reviews and edits that overlap, midnight, the end of the month and crashes in a write? | 5 tasks, 2 proposals and an older rule, 3 instants, days of 1, months of 2 days, 2 crashes; within `Scope`: calls (two at once, or one and a crash) or edits with overlapping reviews |
| `cycle` | Is what is held decided and the record true, whatever fails in between, and does every run end? | 2 coins and 2 stocks, one of each unfit, limit 1, so that holdings alone exceed it |
| `limits` | Are cash reserve, position cap, number of positions and daily count of the real accounts kept, although a snapshot takes up to seven requests during which earlier orders fill and are reconciled? | 1 coin, 2 stocks, one of them held, 2 orders of 2 or 7 units, 8 units of cash per broker, 2 days, limits of 2 positions and 1 order a day |
| `paper_accounts` | Do the limit on holdings and the agreement of account and journal survive overlapping cycles, the monitor, refreshes, resets and a crash after any write? | 1 stock, 1 coin, 2 cycles, limit 1 |
| `paper_times` | Do daily count, cooldowns, kill switch and the age of prices survive overlapping cycles over a midnight? | 1 coin, 2 cycles, 3 instants, days of 1, 1 BUY a day, cooldowns of 2 |
| `report`, `limits_race` | expected violations, section 6 | |

Why the bounds suffice: the hazards are about pairs – two requests for one symbol,
a request and a reconciliation, two rewrites of one file, two cycles – and about
one loss or crash between two steps of a pair. Two intents let every pair compete
with the same and with different keys and sides; a single crash can fall in every
gap; and limits of one or two are reached by two actors. The proofs remove the
bounds for every safety property; only liveness rests on them. In `LiveLimits`, two orders are enough for a limit: the first one
fills while the second is judged, and a holding to begin with stands for what earlier
days left.
`CHECK_DEADLOCK FALSE` stands where a run ends because its clock, its orders or its
evaluation are used up.

Every passing property has a mutant in `PROJECT.json`: a plausible bug in the
code, e.g. UNKNOWN no longer blocking its symbol, the key not remembered, the gate
not re-read before SUBMITTING, holdings counted per market, the kill switch read at
the start of a cycle only. TLC finds each property violated by its mutant.

### Fairness

`cycle` assumes weak fairness of the steps of a run: each await in it is a request with
a timeout, or the order path, which `progress` shows to end. The `LiveSpec` of `progress` assumes

- weak fairness of the steps of a task that holds or waits for the lock: each
  await in the path is an HTTP call with a timeout, the event loop serves ready
  tasks, and `asyncio.Lock` is first come, first served;
- weak fairness of the start-up phases and of the reconciliation job:
  APScheduler repeats it every five minutes while the scheduler is on;
- strong fairness of a *successful* lookup of an order: lookups may fail
  again and again, but not for ever, since the broker eventually answers; and of
  the write that follows it, which another batch may delay but not prevent.

No fairness is assumed of the broker's order itself, of clients, of the endpoint or
of crashes.

## 5. Theorems

Assumptions are those on the constants only (`ASSUME` in each module); TLC
evaluates them on every run.

**LiveOrdersProofs.** The safety properties are not inductive: that a record may
go to SUBMITTING follows from what the lock holder checked several awaits before,
and that a reconciliation may write CONFIRMED follows from an answer it got before
its last await. `IInv` therefore adds, per program point, what the task knows:
in `preflight` no live order rivals its symbol or key (`NoRival`), in `awaiting` its
order may be at the broker, in `sawClosed` it is closed; for a reconciliation,
that an answer "closed" or "rejected" is still true because those states are final
at the broker; for a pair of records, that two live ones differ in symbol and that
two committed manual ones differ in key; and for the process, that tasks exist only
while it serves. `Invariant` proves `Spec => []IInv` with one lemma per group of
actions; the crash steps are covered because nothing in the durable part of `IInv`
mentions a task. `TypeCorrect`, `JournalHonest`, `SymbolExclusion`, `KeyExclusion`,
`AnswersHonest` and `Gated` follow from it, and `ImplementsPromise` shows that every
step is a step or a stutter of `OrderPromise` under the mapping at the end of
`LiveOrders`. They hold for any number of symbols, intents, clients, cycles,
reconciliations, crashes and any cooldown.

`CooldownKept` proves `CooldownAfterAcknowledgement`. The check is made before the record
is created, and the order is sent several awaits later; the activity that it reads is
written by the handler of the earlier order, and overwritten by reconciliations. `CooldownInv`
adds three facts to `IInv`: no record is younger than the clock, the activity of
an acknowledged order's own side is no older than the order (a reconciliation records the
general activity only), and whoever is past the check has no acknowledged order left
to wait for. The lock keeps the last one true: while a task is past the check, nobody else
can be told "submitted".

**IdempotencyKeysProofs.** `LostOnlyByOverlap` says nothing of how the file is written.
`KeysInv` does, as long as no two rewrites have overlapped: at most one actor is about to
replace the file (`AloneInv`); the file is whole and retains exactly the keys that were
spent within the retention period, no more and no less (`FileInv`); so does the dictionary
that will replace it, with the key of the request once `remember` adds it, and after the
write so does the temporary file (`RewriterInv`); and the key of the order being handled is
not spent before its own rewrite is renamed (`HandlerInv`).
Which operation an actor is in, and that a pruning thread never ends an order
(`ControlInv`), holds with overlaps as well. `KeysLostOnlyByOverlap` holds for any number of
pruning threads, files, orders and crashes, and so does `KeysFileIsExact`: short of an
overlap the file is the exact set of retained keys at every instant, which is what
`LiveOrders` takes the store to be.

**DecisionSchedulerProofs.** `Base` proves `BaseInv`: the job equals the plan on
disk, both keep the minimum distance from the last start, and while the process is
up and the switch on, the scheduler runs. `DurablePlan`, `Spacing` and
`Chain` follow, for pauses of any length: `ChainAlive` says that only a process that
stood still beyond the grace time can lose its next cycle, and that a restart or the
switch mends it, and TLC finds behaviours where it does.

**RulesProofs**, of orders. `SafeBuys`, `LargestBuys` and `AvailableSells`
hold for every policy, account and order. Each capacity is reduced to a statement about one unit
more or less; the largest quantity within all capacities is the minimum of the
floors, and a quantity within the minimum is within each.

**LiveLimitsProofs.** `DailyLimit` proves `DailyOrdersAreLimited`. The property is not
inductive: an order that Risk Guard let pass is counted only from the next write of
its record, and may be taken out of the count and put back when an answer overtakes
a reconciliation. `DailyInv` adds that there was room for it when it was judged
(`RoomForMine`); a status change then adds to no count, or concerns the last record
only.

`OpenPositionsLimit` proves `OpenPositionsAreLimited`, provided the account starts within
the limit. A snapshot is old when its order is sent, so `OpenInv` carries what stays true
of it: a symbol that is held was seen by the snapshot, or was bought since by an order
that is still pending or that the snapshot missed (the recorded race); the room Risk
Guard found lasts until the BUY is sent; and a BUY of a held symbol needs none.

`ReserveStays` and `PositionsStayCapped` prove `ReserveKept` and `PositionsCapped`, provided
that the account starts within them: it may hold anything when the program first sees
it, and Risk Guard only refuses BUYs, it does not sell down to a limit. Here the amounts matter. What BUYs cost and
what holdings are worth are sums over sets of orders and symbols, which the lemmas on
`Total` take apart: a sum over a union, a sum with one item changed, a sum of smaller items.
They rest on `Smallest`, an induction over finite sets by the well-foundedness of strict
inclusion, and on two facts that unfold the sums of the model (`CostIsTotal`,
`WorthIsTotal`). With them, `AccountInv` says what a snapshot still means when
it is complete. While it is read (`HoldingsRead`, `CashRead`, `PositionRead`) it may lack only
what BUYs that filled since have moved from cash into holdings, and these are still pending
in the journal (`late`); once they are subtracted (`CashFree`, `ValueCovers`), the free cash is
no more than the account has beyond all BUYs on their way, and the value of the position
no less. Later steps do no harm: a filled BUY changes neither free cash nor exposure, a
SELL, a cancellation or a refusal improves both, and the equity of an account does not
change, prices being constant. So `ReserveInv` and `ShareInv` carry the verdict to the POST: the reserve
and the share also last for a BUY that was allowed, until it is sent. With `torn` or
`missed`, the two races of section 6, `unsound` ends the claim.

**RulesProofs**, of scores. `CoinDirection` bounds how far news may move a coin and how far
regime and exposure may move a threshold, and finds the two ranges apart.
`StockBetween` shows that a weighted mean lies between its parts, that the scaling of
weights cancels, and that rounding costs half a point. `NoSwings` needs a shift of at
most 12 points, `OrdersFollow` four inequalities between the shift and the limits of the
sizer: both are assumptions on settings, which the defaults meet. The theorems about
the specification (`CoinsAlwaysKeepDirection` and so on) follow by an invariant that says
where a decision comes from.

**LlmCallsProofs.** `TypeInvariant` holds the arithmetic of days and months. `BudgetHolds`
proves that what a day costs exceeds its largest budget by no more than `MaxUsage` for
each call that was in flight at once: `BudgetOvershoot` counts calls to come as if they were
charged, so that a call that begins adds to both sides and one that is charged moves
from one term to another. `PauseHolds` adds that during a pause every call in flight
was so when it began. `ReportsHold` adds that the time a task asked is read under the
lock. `ReviewsPause` counts filed proposals and reviews together; `ApprovedIsKept`,
`AppliedOnce` and `LatestIsAsked` follow from what the document can look like before,
during and after the migration (`DocumentInv`).

**LiveCycleProofs.** The properties speak of the end of a run; `CycleInv` says what has to be
true on the way: a selection holds what is held (`WellSelected`, from `RequiredIsChosen`),
what is held and open is offered, each offered instrument has its decision either
to go or done, and what is done agrees with what became of the order (`HalfDone`).

**PaperTradingProofs.** An order of a cycle, a stop exit and a manual order are brought to one
form (`Fills`: what Risk Guard makes sure of, the account, the journal), every other step
leaves holdings alone or resets them (`StepKinds`). `AccountInv` adds to the limits that the
counter of an account is true as soon as the account has seen the day (`CountIsTrue`), which
is what a midnight within a cycle puts at risk. `WaitInv` keeps, per task, how long its
present await lasts and how old its snapshot was when that began: `RecentFills` adds the
two. `Cooldowns` assumes `MaxCrashes = 0`, as its run does: a crash between an order and its
record loses the cooldown. Equity, a sum over an account, is nowhere unfolded: it decides only how much
is bought.

Only model-checked: the three liveness properties, `SettledForGood`, `LockIsReleased` and
`RunsEnd` (liveness and ENABLED are outside the prover), and that the two
expected violations are reachable. Types are proved invariant rather than checked by the runs.
The induction theorems of the library take an operator as a parameter, which the
provers cannot instantiate; where a proof needs induction it uses the
well-foundedness of a relation on sets instead, as `Smallest` does.

## 6. Disagreements found

Each of these is a run that violates a statement of the repository.

- `report` (`scheduler.py:271`): after a cycle fails, the user is told that it made
  no new orders. Every live cycle with an item fails *after* its orders, because the
  report reads a field that live items do not have.
- `limits_race` (`toss_account.py:91`): the position limit of Risk Guard is called an
  absolute one, but a SELL that fills between the two requests of a Toss status is
  counted twice in the equity, and the next BUY is larger than the limit allows.

Other differences, seen while modelling, that no run states:

- A comment says that every path must schedule the next cycle "or automation would
  silently stop" (`scheduler.py:335`). A pause longer than 300 s across the run date
  does exactly that: the one-shot job is dropped as misfired (`scheduler.py:193`).
  `ChainAlive` holds but for such pauses; without the exception TLC finds one.
- The nightly pruning, on an executor thread, can overwrite a key remembered meanwhile
  (`idempotency.py:38`); the same key is then accepted again, against
  ARCHITECTURE.md:551. `LostOnlyByOverlap` holds but for this overlap.
- A BUY that fills after the balances of a live snapshot were read, and that a
  reconciliation confirms before the journal is read, is neither held nor pending for
  the next BUY (`live_risk_snapshot.py:163`). `ReserveKept`, `PositionsCapped` and
  `OpenPositionsAreLimited` hold but for this race and the one of `limits_race`, and
  each of them fails without the exception.
- The first equity of the day is read from Toss without the amounts that open BUYs may
  have deducted from the buying power, so that the loss limit of that day counts
  from too low a value (`live_daily_baseline.py:42`). The totals of Upbit include them.
- Manual paper orders are to be blocked when the stored price is old
  (ARCHITECTURE.md:927), but a fill stamps the price it was made with as observed at
  that moment (`paper_broker.py:379`), so that the next manual order passes with the same old price.
- An automatic live BUY whose answer was lost and that a background reconciliation
  resolves starts no cooldown; `CooldownAfterAcknowledgement` is about orders whose
  answer was processed.
- A late answer of a POST writes SUBMITTED over a terminal status that a
  reconciliation had written (`live_order_service.py:478`), although the journal
  calls such states terminal. A later run repairs it; this is `SettledForGood`.
- Switching the scheduler off removes the jobs for reconciliation, stops and
  retention with it (`scheduler.py:91`); ARCHITECTURE.md:654 speaks of a job every
  five minutes.
- Paper trading: a crash between the account and the activity file loses a cooldown
  (`paper_auto_cycle.py:271`, `paper_risk_monitor.py:134`), and one between the fill
  and the idempotency key lets a retry fill again (`trading.py:349`). `CooldownsKept`
  is therefore checked without crashes.
- A paper cycle does not read the mode again after the LLM call. It is stopped by
  the kill switch, which entering live mode engages, until that is released.
- A pause is meant to last until the user resumes (ARCHITECTURE.md:784-787), but a call
  that was in flight when it began ends it by its success, and by a passing failure
  turns it into a backoff (`llm_runtime.py:44-60`); `PauseLasts` has this exception. A
  `RateLimitError` for an exhausted quota backs off as well, instead of pausing.
- A failed request for the usage falls back to the local count (`llm_budget.py:105-115`), and a
  call that timed out is billed but not counted.
- What an older algorithm had applied is kept as history "not used as rule"
  (`algorithm.py:268`), but the prompt takes the end of the document from that heading on
  (`algorithm.py:296-321`). A crash in the first write leaves an empty document without
  the heading, and rules approved later never reach the prompt.
- A crash between adding a rule and moving its proposal leaves the proposal pending
  (`algorithm.py:398-402`): it can be applied twice, or cancelled while in force.
- The research note has the LLM never reverse the quantitative direction
  (docs/quant_strategy_research.md:77-82). That holds for coins, `CoinsKeepDirection`; the score
  of a stock may go from BUY to SELL with enough evidence, and a HOLD may become a BUY.
- BUYs with a score of 58 or 59 (rising market, large gap) and SELLs of 41 to 43 (falling
  market, large excess) are decided and recorded but never ordered, because the sizer has
  limits of its own (`position_sizer.py:52-60`, 130); `OrdersFollow` proves these to be the
  only ones.
- The live cycle decides on an automatic ranking and replaces what the user chose
  (`live_auto_cycle.py:84-88`, 127-131), while ARCHITECTURE.md:1287-1301 has it decide on the
  configured universe and the holdings; `merge_decision_universe` is imported and not used
  there, and `refresh_if_auto` has no caller. With more holdings than the limit some are not
  decided; `HoldingsAreDecided` has this condition.
- A held stock that is no longer ACTIVE makes every snapshot of stocks incomplete
  (`toss_market_data.py:269`, `live_auto_cycle.py:137`): no stock is decided while it is held.
- The record shows an order whose outcome is unknown as a BLOCK, and a reduced order with
  the quantity before the reduction (`decision_store.py:387`). Orders of a run that
  ends by an exception are in the journal only.
- ARCHITECTURE.md:464 says that Risk Guard does not change sizes; :864 introduces
  REDUCE, which the code follows.

## 7. Abstractions and limits

- A rename or write that returned is durable: no power loss without fsync, and no
  failing disk (`ENOSPC`) in the live path.
- `LiveOrders` takes key checks as atomic and keys as permanent; `OneOrderPerKey` is
  subject to the overlap of rewrites in section 6 and to the expiry of old keys.
- At most as many intents exist as the listing limits (200 and 500) show.
- Fees and slippage are zero in `PaperTrading`; the passing runs have one price, so
  that the daily-loss lockout is exercised by `rules` only. Whether a stop is breached
  is a choice. `paper_accounts` runs at one instant and without manual orders,
  `paper_times` on one account. The cooldown of SELLs on the live path is exercised by
  `rules` only; `upbit` has an automatic BUY.
- In `RiskGuard` amounts are integers and notional is quantity times price, as all
  callers build it.
- In `LiveLimits` prices do not move, orders are asked for as manual ones (cooldowns
  are in `LiveOrders`), and only this backend trades on the accounts. The second Toss
  status of a snapshot is two steps, the account list it asks for first is none.
- In `LlmCalls` tokens are coarse units, one estimate stands for all, and a call costs at most
  `MaxUsage`; the clock counts the periods of the news. Prompts, costs and the text of
  proposals are left out; a rule is in the prompt or not, by its place from the end.
- In `DecisionScores` floats are integers in hundredths with rounding either way at a tie.
- `LiveCycle` takes the scores of the ranking, what the sizer and Risk Guard say of a
  decision, and holdings and settings at any moment as arbitrary; suspended stocks and
  coins under warning stay so during a run. The cash of the two snapshots and what is
  shown beside symbol and status are left out.
- In `PaperTrading`, LLM answers are arbitrary admissible decisions; quotes are arbitrary prices with a
  reported age.

Not modelled: prompt building, rolling context and macro data; signals, backtests,
allocation and the scores of the universe selectors (numeric code over price series whose
results are inputs here); news files, push, devices, audit and error logs, dashboards and
readiness (append-only or read-only), authentication, the Flutter application, and
deployment.
`PROJECT.json` gives the reason for each component.

## 8. Running

    tlc -workers 2 -config LiveOrders_upbit.cfg MCLiveOrders
    tlapm LiveOrdersProofs.tla

The longest runs (`progress`, `llm`) take two to three minutes with two workers, the longest
proof (`LiveLimitsProofs`) as long.
