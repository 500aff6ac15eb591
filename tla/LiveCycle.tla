------------------------------ MODULE LiveCycle ------------------------------
(***************************************************************************)
(* LiveAutoCycleService.run: from the accounts and the instruments that    *)
(* are worth a decision, over the answer of the LLM, to orders and the     *)
(* record of decisions.  Everything awaits: between two steps holdings,    *)
(* settings and the choices of the user may change, so that what a run     *)
(* reads of them is any value; another run (the endpoint and the scheduler *)
(* start them independently) shares no state that a run reads back.        *)
(*                                                                         *)
(* LiveOrderService.auto_order is the module LiveOrders; here it accepts,  *)
(* refuses, does not know, or raises something unforeseen.                 *)
(***************************************************************************)
EXTENDS Integers, FiniteSets

CONSTANTS
    Coins, Stocks,
    Unfit,      \* coins under warning or caution, suspended stocks
    Enabled,    \* markets whose broker is enabled for live orders
    Limit       \* decision_crypto_universe_limit, decision_stock_universe_limit

Markets == {"crypto", "stock"}
Instruments == Coins \cup Stocks
Of(m) == IF m = "crypto" THEN Coins ELSE Stocks

ASSUME CycleOK ==
    /\ IsFiniteSet(Coins) /\ IsFiniteSet(Stocks) /\ Coins \cap Stocks = {}
    /\ Unfit \subseteq Instruments /\ Enabled \subseteq Markets
    /\ Limit \in 1..30

VARIABLES
    universe,   \* toss_universe.json, upbit_universe.json
    log, metrics,           \* the last cycle in the decision file and in telemetry
    at, market,             \* where the run is
    positions, complete,    \* accounts read; markets with a complete snapshot
    selected, open,         \* instruments of the market; those that trade now
    offered, left,          \* what the LLM decides on; its decisions to go
    items, orders           \* what came of decisions; what the brokers got

files == <<universe, log, metrics>>
views == <<positions, complete, selected, open, offered>>
results == <<left, items, orders>>
vars == <<files, at, market, views, results>>

Decisions == [symbol : Instruments, action : {"BUY", "SELL", "HOLD"}, exact : BOOLEAN]
Items == [symbol : Instruments, status : {"NO_ORDER", "BLOCK", "SUBMITTED"}]
NoOrders == [s \in Instruments |-> "none"]
NoPositions == [m \in Markets |-> {}]
NoEntry == [items |-> {}, positions |-> NoPositions, complete |-> {}, open |-> {}]
Places == {"idle", "account", "select", "snapshot", "ask", "orders",
           "blocked", "failed", "completed"}

TypeOK ==
    /\ universe \in [Markets -> [mode : {"manual", "auto"}, symbols : SUBSET Instruments]]
    /\ log \in [items : SUBSET Items, positions : [Markets -> SUBSET Instruments],
                complete : SUBSET Markets, open : SUBSET Instruments]
    /\ metrics \in [decisions : Nat, orders : Nat, blocked : Nat]
    /\ at \in Places /\ market \in Markets
    /\ positions \in [Markets -> SUBSET Instruments] /\ complete \subseteq Markets
    /\ selected \subseteq Instruments /\ open \subseteq Instruments
    /\ offered \subseteq Instruments
    /\ left \subseteq Decisions /\ items \subseteq Items
    /\ orders \in [Instruments -> {"none", "accepted", "unknown"}]

Init ==
    /\ universe = [m \in Markets |-> [mode |-> "manual", symbols |-> {}]]
    /\ log = NoEntry /\ metrics = [decisions |-> 0, orders |-> 0, blocked |-> 0]
    /\ at = "idle" /\ market = "crypto"
    /\ positions = NoPositions /\ complete = {}
    /\ selected = {} /\ open = {} /\ offered = {}
    /\ left = {} /\ items = {} /\ orders = NoOrders

-----------------------------------------------------------------------------
(* What to decide on. *)

Running == at \notin {"idle", "blocked", "failed", "completed"}

\* run: _gate_reasons, of which mode, kill switch and trading are the user's.
Start ==
    /\ at = "idle"
    /\ at' \in (IF Enabled = {} THEN {"blocked"} ELSE {"account", "blocked"})
    /\ market' = "crypto"
    /\ positions' = NoPositions /\ complete' = {}
    /\ selected' = {} /\ open' = {} /\ offered' = {}
    /\ left' = {} /\ items' = {} /\ orders' = NoOrders
    /\ UNCHANGED <<files>>

\* What follows a market: Upbit first, then Toss, then the LLM if there is
\* anything to decide (o, what is offered by then).
Proceed(o) ==
    IF market = "crypto" THEN at' = "account" /\ market' = "stock"
    ELSE at' = (IF o = {} THEN "blocked" ELSE "ask") /\ UNCHANGED market

\* LivePortfolioSnapshotService.upbit and .toss.
ReadAccount ==
    /\ at = "account" /\ market \in Enabled
    /\ at' = "select"
    /\ \E held \in SUBSET Of(market) : positions' = [positions EXCEPT ![market] = held]
    /\ UNCHANGED <<files, market, complete, selected, open, offered, results>>

\* A market that is not enabled is passed over; any exception of the account, the
\* selector or the market data gives up the market for this run.
PassMarket ==
    /\ at \in {"account", "select", "snapshot"}
    /\ Proceed(offered)
    /\ UNCHANGED <<files, views, results>>

\* What the selectors may rank: coins without a warning; ordinary stocks that
\* are not suspended or, when none of them can be rated, the whole pool.
Rankings(m) ==
    IF m = "crypto" THEN SUBSET (Coins \ Unfit)
    ELSE (SUBSET (Stocks \ Unfit) \ {{}}) \cup {Stocks}

Smaller(m, n) == IF m < n THEN m ELSE n

\* The ways to take n members of a set: the order of a list is not modelled.
Taking(n, S) == {T \in SUBSET S : Cardinality(T) = Smaller(n, Cardinality(S))}

\* Mutant: the ranking comes first.
FillRanked(required, ranked) ==
    UNION {{T \cup U : U \in Taking(Limit - Cardinality(T), required \ T)}
             : T \in Taking(Limit, ranked)}

\* _fill_required: required instruments first, as many as the limit allows.
FillRequired(required, ranked) ==
    UNION {{T \cup U : U \in Taking(Limit - Cardinality(T), ranked \ T)}
             : T \in Taking(Limit, required)}

\* The selectors and set_auto: the ranking replaces what the user chose.
Select ==
    /\ at = "select"
    /\ \E ranked \in Rankings(market) :
       \E chosen \in FillRequired(positions[market], ranked) :
          /\ selected' = chosen
          /\ universe' = [universe EXCEPT ![market] = [mode |-> "auto", symbols |-> chosen]]
          /\ IF chosen = {} THEN UNCHANGED offered /\ Proceed(offered)
             ELSE at' = "snapshot" /\ UNCHANGED <<market, offered>>
    /\ UNCHANGED <<log, metrics, positions, complete, open, results>>

\* Mutant: sessions and suspensions do not count.
TradableAlways(m) == {Of(m)}

\* Coins trade always; stocks in sessions, not while suspended.
Tradable(m) == IF m = "crypto" THEN {Coins} ELSE SUBSET (Stocks \ Unfit)

\* snapshots: complete or an exception (PassMarket).
Snapshot ==
    /\ at = "snapshot"
    /\ \E tradable \in Tradable(market) :
          /\ open' = open \cup tradable
          /\ offered' = offered \cup (selected \cap tradable)
          /\ complete' = IF selected \cap tradable = {} THEN complete
                         ELSE complete \cup {market}
    /\ Proceed(offered')
    /\ UNCHANGED <<files, positions, selected, results>>

-----------------------------------------------------------------------------
(* Decisions. *)

\* unique_market_symbols and _validate_decision_coverage, on capital letters:
\* exactly one decision for each instrument offered.
Covers(reply) ==
    /\ {d.symbol : d \in reply} = offered
    /\ \A d \in reply, b \in reply : d.symbol = b.symbol => d = b

\* A reply of the LLM that is valid, with at most one decision per instrument.
Replies ==
    UNION {{{[symbol |-> s, action |-> f[s][1], exact |-> f[s][2]] : s \in S}
              : f \in [S -> {"BUY", "SELL", "HOLD"} \X BOOLEAN]}
             : S \in SUBSET offered}

Ask ==
    /\ at = "ask"
    /\ \E reply \in Replies : Covers(reply) /\ left' = reply
    /\ at' = "orders"
    /\ UNCHANGED <<files, market, views, items, orders>>

\* Mutant: the run begins again, at once.
UnavailableAgain ==
    /\ at = "ask" /\ at' = "account" /\ market' = "crypto"
    /\ UNCHANGED <<files, views, results>>

\* No valid reply: paused, out of budget, timed out or not covering.
Unavailable ==
    /\ at = "ask" /\ at' = "blocked"
    /\ UNCHANGED <<files, market, views, results>>

MarketOf(s) == IF s \in Coins THEN "crypto" ELSE "stock"

\* instrument_map and portfolio_by_market: the symbol is compared as it is.
Known(d) == d.exact /\ d.symbol \in offered /\ MarketOf(d.symbol) \in complete

Done(d, status) ==
    /\ left' = left \ {d}
    /\ items' = items \cup {[symbol |-> d.symbol, status |-> status]}

\* An item without an order: unknown, not sized, or blocked beforehand by Risk
\* Guard.
Pass(d) ==
    /\ at = "orders" /\ d \in left
    /\ \/ ~Known(d) /\ Done(d, "BLOCK")
       \/ Known(d) /\ Done(d, "NO_ORDER")
       \/ Known(d) /\ d.action # "HOLD" /\ Done(d, "BLOCK")
    /\ UNCHANGED <<files, at, market, views, orders>>

\* What PositionSizer may make an order of.
Sized(d) ==
    \/ d.action = "BUY"
    \/ d.action = "SELL" /\ d.symbol \in positions[MarketOf(d.symbol)]

\* Mutant: an order that was sent counts as submitted.
StatusWhenSent(outcome) == IF outcome = "none" THEN "BLOCK" ELSE "SUBMITTED"

\* Every HTTPException is recorded as a block, that of an unknown outcome too.
Status(outcome) == IF outcome = "accepted" THEN "SUBMITTED" ELSE "BLOCK"

\* auto_order asks the gates again.
Order(d) ==
    /\ at = "orders" /\ d \in left /\ Known(d) /\ Sized(d)
    /\ \E outcome \in {"none", "accepted", "unknown"} :
          /\ orders' = [orders EXCEPT ![d.symbol] = outcome]
          /\ Done(d, Status(outcome))
    /\ UNCHANGED <<files, at, market, views>>

\* Anything else than an HTTPException ends the run; earlier orders stay.
Abort(d) ==
    /\ at = "orders" /\ d \in left /\ Known(d) /\ Sized(d)
    /\ at' = "failed"
    /\ \E outcome \in {"none", "accepted", "unknown"} :
          /\ orders' = [orders EXCEPT ![d.symbol] = outcome]
    /\ UNCHANGED <<files, market, views, left, items>>

WithStatus(status) == Cardinality({i \in items : i.status = status})

Entry == [items |-> items, positions |-> positions, complete |-> complete, open |-> open]

Telemetry ==
    [decisions |-> Cardinality(items),
     orders |-> WithStatus("SUBMITTED"), blocked |-> WithStatus("BLOCK")]

\* append_live_execution_cycle, then CycleMetricsStore.append.
Record ==
    /\ at = "orders" /\ left = {}
    /\ at' = "completed" /\ log' = Entry /\ metrics' = Telemetry
    /\ UNCHANGED <<universe, market, views, results>>

\* One of the files cannot be written: this, telemetry or the audit log.
RecordFails ==
    /\ at = "orders" /\ left = {}
    /\ at' = "failed"
    /\ \/ log' \in {log, Entry} /\ UNCHANGED metrics
       \/ log' = Entry /\ metrics' = Telemetry
    /\ UNCHANGED <<universe, market, views, results>>

Step ==
    \/ ReadAccount \/ PassMarket \/ Select \/ Snapshot
    \/ Ask \/ Unavailable
    \/ \E d \in left : Pass(d) \/ Order(d) \/ Abort(d)
    \/ Record \/ RecordFails

-----------------------------------------------------------------------------
(* Everybody else. *)

\* The endpoints of the universes: set_manual.
Choose ==
    /\ \E m \in Markets : \E symbols \in SUBSET Of(m) :
          universe' = [universe EXCEPT ![m] = [mode |-> "manual", symbols |-> symbols]]
    /\ UNCHANGED <<log, metrics, at, market, views, results>>

\* The process ends: the run is lost, orders and files stay.
Crash ==
    /\ Running /\ at' = "failed"
    /\ UNCHANGED <<files, market, views, results>>

Next == Start \/ Step \/ Choose \/ Crash

\* Every call of a run ends, by its timeout at the latest.
Spec == Init /\ [][Next]_vars /\ WF_vars(Step)

-----------------------------------------------------------------------------
\* A recorded cycle has a decision on every instrument that was held when its
\* account was read and traded then, as long as no more are held than the limit
\* (docs/ARCHITECTURE.md:1300).  A market that fails is not complete.
HoldingsAreDecided ==
    \A m \in log.complete :
        Cardinality(log.positions[m]) <= Limit =>
            log.positions[m] \cap log.open \subseteq {i.symbol : i \in log.items}

\* The record of a completed run shows as submitted what the brokers have accepted
\* in it, and nothing else, whatever happened to other orders of the run; telemetry
\* counts the same orders.
LogIsTrue ==
    at = "completed" =>
        LET accepted == {s \in Instruments : orders[s] = "accepted"}
        IN  /\ {i.symbol : i \in {j \in log.items : j.status = "SUBMITTED"}} = accepted
            /\ metrics.orders = Cardinality(accepted)

\* The brokers get no order for a suspended stock, and one for a coin under warning
\* only if it was held when the run began.
OrdersAreFit ==
    \A s \in Unfit :
        orders[s] # "none" => s \in Coins /\ s \in positions["crypto"]

\* No run goes on forever, whatever fails.
RunsEnd == Running ~> ~Running
=============================================================================
