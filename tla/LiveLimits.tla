----------------------------- MODULE LiveLimits -----------------------------
(***************************************************************************)
(* The limits of Risk Guard on the real accounts.  A live order is judged  *)
(* on a snapshot that LiveRiskSnapshotService collects from both brokers   *)
(* and the order journal with an await at every request.  The order lock   *)
(* keeps other orders away meanwhile; the brokers and the reconciliation   *)
(* of records go on.                                                       *)
(*                                                                         *)
(* Here a record is reconciled in one step, when the broker is done with   *)
(* the order: that is what LiveOrders establishes for its interleavings.   *)
(* Gates, idempotency keys and cooldowns are in LiveOrders too.  Prices do *)
(* not move, so that the value of an account changes by no trade.          *)
(***************************************************************************)
EXTENDS RiskGuard, FiniteSets, Sequences, FiniteSetsExt

CONSTANTS
    Coins, Stocks,      \* symbols at Upbit and at Toss
    Quantities,         \* sizes of orders that are asked for
    StartCash, Price,
    Owned, OwnedUnits,  \* what the accounts hold at first
    MaxOrders, MaxDay   \* bounds

ASSUME LimitsOK ==
    /\ IsFiniteSet(Coins) /\ IsFiniteSet(Stocks) /\ Coins \cap Stocks = {}
    /\ Quantities \subseteq Nat \ {0} /\ StartCash \in Nat \ {0} /\ Price \in Nat \ {0}
    /\ Owned \subseteq Coins \cup Stocks /\ OwnedUnits \in Nat \ {0}
    /\ MaxOrders \in Nat /\ MaxDay \in Nat

VARIABLES
    journal,    \* order records, in the order of their creation
    order,      \* what the broker does with each
    cash,       \* cash per broker, what open BUYs lock included
    locked,     \* cash that open BUYs lock
    held,       \* units per symbol
    day,
    baseline,   \* today's entries of live_daily_baselines.json
    pc,         \* the holder of the order lock
    request,    \* its order
    snap,       \* what it has read
    late,       \* BUYs filled since it first read the account
    missed,     \* those of them that are confirmed in the journal already
    torn,       \* a SELL filled between the two halves of a Toss status
    unsound     \* some BUY was judged on a snapshot with such an event

broker  == <<order, cash, locked, held>>
history == <<late, missed, torn, unsound>>
vars == <<journal, broker, day, baseline, pc, request, snap, history>>

Symbols == Coins \cup Stocks
Brokers == {"upbit", "toss"}
SymbolsOf(b) == IF b = "upbit" THEN Coins ELSE Stocks
BrokerOf(s)  == IF s \in Coins THEN "upbit" ELSE "toss"
MarketOf(s)  == IF s \in Coins THEN "crypto" ELSE "stock"

Ids == DOMAIN journal
IsUnresolved(i) == journal[i].status \in {"SUBMITTING", "SUBMITTED", "UNKNOWN"}
Counted(i) == IsUnresolved(i) \/ journal[i].status \in {"PREFLIGHTED", "CONFIRMED"}
Statuses == {"CREATED", "PREFLIGHTED", "SUBMITTING", "SUBMITTED",
             "UNKNOWN", "CONFIRMED", "REJECTED"}
Records == [status : Statuses,
            symbol : Symbols, side : {"BUY", "SELL"}, quantity : Nat, day : Nat]

Cost(I)  == MapThenSumSet(LAMBDA i : journal[i].quantity * Price, I)
Worth(b) == MapThenSumSet(LAMBDA s : held[s] * Price, SymbolsOf(b))
Equity(b) == cash[b] + Worth(b)

NoRequest  == [symbol |-> "none", side |-> "none", quantity |-> 0]
NoSnapshot == [cash |-> 0, equity |-> 0, quantity |-> 0, value |-> 0, seen |-> {}]

Init ==
    /\ journal = <<>> /\ order = <<>>
    /\ cash = [b \in Brokers |-> StartCash] /\ locked = [b \in Brokers |-> 0]
    /\ held = [s \in Symbols |-> IF s \in Owned THEN OwnedUnits ELSE 0]
    /\ day = 0 /\ baseline = [b \in Brokers |-> None]
    /\ pc = "idle" /\ request = NoRequest /\ snap = NoSnapshot
    /\ late = {} /\ missed = {} /\ torn = FALSE /\ unsound = FALSE

-----------------------------------------------------------------------------
(* The snapshot. *)

Working == <<broker, day, request>>     \* what no read changes

\* A manual order or one of the automatic cycle gets the lock.
Ask ==
    /\ pc = "idle" /\ Len(journal) < MaxOrders
    /\ \E s \in Symbols, side \in {"BUY", "SELL"}, n \in Quantities :
        /\ request' = [symbol |-> s, side |-> side, quantity |-> n]
        /\ pc' = IF s \in Coins THEN "balances" ELSE "holdings"
    /\ UNCHANGED <<journal, broker, day, baseline, snap, history>>

\* balances() of Upbit: one request; the totals include locked amounts.
ReadBalances ==
    /\ pc = "balances" /\ pc' = "quotes"
    /\ snap' = [NoSnapshot EXCEPT
                    !.cash = cash["upbit"] - locked["upbit"],
                    !.equity = Equity("upbit"),
                    !.quantity = held[request.symbol]]
    /\ late' = {} /\ missed' = {} /\ torn' = FALSE
    /\ UNCHANGED <<journal, baseline, Working, unsound>>

\* status() of Toss: the holdings ...
ReadHoldings ==
    /\ pc = "holdings" /\ pc' = "power"
    /\ snap' = [NoSnapshot EXCEPT !.equity = Worth("toss"),
                                  !.quantity = held[request.symbol]]
    /\ late' = {} /\ missed' = {} /\ torn' = FALSE
    /\ UNCHANGED <<journal, baseline, Working, unsound>>

\* ... and, one request later, the buying power, in which Toss may have
\* deducted the open BUYs already.
ReadPower ==
    /\ pc = "power" /\ pc' = "quotes"
    /\ \E power \in {cash["toss"], cash["toss"] - locked["toss"]} :
          snap' = [snap EXCEPT !.cash = power, !.equity = @ + power]
    /\ UNCHANGED <<journal, baseline, Working, history>>

PendingBuys == {i \in Ids : IsUnresolved(i) /\ journal[i].side = "BUY"}
PendingAt(b) == {i \in PendingBuys : BrokerOf(journal[i].symbol) = b}
PendingIn(s) == {i \in PendingBuys : journal[i].symbol = s}

\* Mutant: cash is not reserved for pending BUYs.
ReadQuotesUnreserved ==
    /\ pc = "quotes" /\ snap.equity > 0 /\ pc' = "countUpbit"
    /\ snap' = [snap EXCEPT !.value = snap.quantity * Price + Cost(PendingIn(request.symbol))]
    /\ UNCHANGED <<journal, baseline, Working, history>>

\* Quotes arrive; the value of the position and the free cash are corrected
\* by the BUYs that are unresolved now.
ReadQuotes ==
    /\ pc = "quotes" /\ snap.equity > 0 /\ pc' = "countUpbit"
    /\ LET reserved == Cost(PendingAt(BrokerOf(request.symbol))) IN
       snap' = [snap EXCEPT
                    !.cash = IF @ > reserved THEN @ - reserved ELSE 0,
                    !.value = snap.quantity * Price + Cost(PendingIn(request.symbol))]
    /\ UNCHANGED <<journal, baseline, Working, history>>

HeldAt(b) == {s \in SymbolsOf(b) : held[s] > 0}

\* total_open_positions: Upbit once more, then Toss once more in two requests.
CountUpbit ==
    /\ pc = "countUpbit" /\ pc' = "countHoldings"
    /\ snap' = [snap EXCEPT !.seen = HeldAt("upbit")]
    /\ UNCHANGED <<journal, baseline, Working, history>>

CountHoldings ==
    /\ pc = "countHoldings" /\ pc' = "countPower"
    /\ snap' = [snap EXCEPT !.seen = @ \cup HeldAt("toss")]
    /\ UNCHANGED <<journal, baseline, Working, history>>

Snapshots == {"balances", "holdings", "power", "quotes",
              "countUpbit", "countHoldings", "countPower"}
Collecting == pc \in Snapshots \ {"balances", "holdings"}

\* The lock is released.
Leave ==
    /\ pc' = "idle" /\ request' = NoRequest /\ snap' = NoSnapshot
    /\ late' = {} /\ missed' = {} /\ torn' = FALSE

\* An unconfigured broker, a failing request, a missing quote or no equity.
SnapshotFails ==
    /\ pc \in Snapshots
    /\ Leave
    /\ UNCHANGED <<journal, broker, day, baseline, unsound>>

-----------------------------------------------------------------------------
(* The verdict, in the step in which the last answer of Toss arrives. *)

Base == IF baseline[BrokerOf(request.symbol)] = None
        THEN snap.equity ELSE baseline[BrokerOf(request.symbol)]

\* daily_pnl_pct, rounded up
PnlPct == -((100 * (Base - snap.equity)) \div Base)

\* Mutant: what is done with is not counted.
OrdersPending == Cardinality({i \in Ids :
    IsUnresolved(i) /\ journal[i].day = day
    /\ BrokerOf(journal[i].symbol) = BrokerOf(request.symbol)})

\* count_today
OrdersToday == Cardinality({i \in Ids :
    Counted(i) /\ journal[i].day = day
    /\ BrokerOf(journal[i].symbol) = BrokerOf(request.symbol)})

\* Mutant: only what is held counts.
OpenPositionsHeld == Cardinality(snap.seen)

OpenPositions == Cardinality(snap.seen \cup {journal[i].symbol : i \in PendingBuys})

\* The RiskOrderIntent of _execute.  Cooldowns are left to LiveOrders.
Intent(open) ==
    [source |-> "manual", market |-> MarketOf(request.symbol),
     action |-> request.side,
     notional |-> request.quantity * Price, quantity |-> request.quantity,
     price |-> Price, equity |-> snap.equity, cash |-> snap.cash,
     positionValue |-> snap.value, positionQuantity |-> snap.quantity,
     openPositions |-> OpenPositions, pnlPct |-> PnlPct, buys |-> OrdersToday,
     dataAge |-> 0, marketOpen |-> open, duplicate |-> FALSE,
     sinceAny |-> None, sinceBuy |-> None, sinceSell |-> None, sinceStop |-> None,
     targetPct |-> None]

HasUnresolved == \E i \in Ids : IsUnresolved(i) /\ journal[i].symbol = request.symbol

\* get_or_create writes the first equity of the day.
Collected ==
    /\ pc = "countPower"
    /\ baseline' = [baseline EXCEPT ![BrokerOf(request.symbol)] = Base]
    /\ UNCHANGED <<cash, locked, held, day>>

\* A dashboard or the start of an automatic cycle values the account, without
\* the lock, and may be the first to do so on a day.  It is one step here: no
\* other state follows from what it reads.
ReadPortfolio(b) ==
    /\ baseline[b] = None
    /\ \E deducted \in IF b = "upbit" THEN {0} ELSE {0, locked[b]} :
          /\ Equity(b) - deducted > 0
          /\ baseline' = [baseline EXCEPT ![b] = Equity(b) - deducted]
    /\ UNCHANGED <<journal, Working, pc, snap, history>>

SymbolIsBusy ==
    /\ Collected /\ HasUnresolved
    /\ Leave
    /\ UNCHANGED <<journal, order, unsound>>

Create(status, n) ==
    /\ journal' = Append(journal,
           [status |-> status, symbol |-> request.symbol, side |-> request.side,
            quantity |-> n, day |-> day])
    /\ order' = Append(order, "none")

RiskBlocks ==
    /\ Collected /\ ~HasUnresolved
    /\ \E open \in BOOLEAN : ~Passes(Intent(open), FALSE)
    /\ Create("REJECTED", request.quantity)
    /\ Leave
    /\ UNCHANGED unsound

\* A reduced order is recorded and sent in its reduced size, which is never
\* larger than what was asked for: theorem SafeBuys of RulesProofs.
RiskAllows ==
    /\ Collected /\ ~HasUnresolved
    /\ Passes(Intent(TRUE), FALSE)
    /\ \E n \in 1..request.quantity :
          n = Evaluate(Intent(TRUE), FALSE).quantity /\ Create("CREATED", n)
    /\ pc' = "preflight"
    /\ unsound' = (unsound \/ (request.side = "BUY" /\ (missed # {} \/ torn)))
    /\ UNCHANGED <<request, snap, late, missed, torn>>

-----------------------------------------------------------------------------
(* The order is sent and answered. *)

Mine == Len(journal)
SetStatus(i, status) == journal' = [journal EXCEPT ![i].status = status]

\* The preflight, or the gates after it, refuse.
PreflightRefused ==
    /\ pc = "preflight"
    /\ SetStatus(Mine, "REJECTED")
    /\ Leave
    /\ UNCHANGED <<broker, day, baseline, unsound>>

\* Toss is asked again for the buying power or the sellable quantity.
TossCovers(r) ==
    IF r.side = "BUY" THEN r.quantity * Price <= cash["toss"]
    ELSE r.quantity <= held[r.symbol]

PreflightPasses ==
    /\ pc = "preflight" /\ pc' = "answer"
    /\ request.symbol \in Stocks => TossCovers(journal[Mine])
    /\ SetStatus(Mine, "SUBMITTING")
    /\ order' = [order EXCEPT ![Mine] = "coming"]
    /\ UNCHANGED <<cash, locked, held, day, baseline, request, snap, history>>

Answered(status) ==
    /\ SetStatus(Mine, status)
    /\ Leave
    /\ UNCHANGED <<broker, day, baseline, unsound>>

Accepted  == pc = "answer" /\ order[Mine] \in {"open", "closed"} /\ Answered("SUBMITTED")
Refused   == pc = "answer" /\ order[Mine] = "refused" /\ Answered("REJECTED")
Ambiguous == pc = "answer" /\ Answered("UNKNOWN")

\* The process dies, also between two file writes after the preflight.
Crash ==
    /\ pc # "idle"
    /\ journal' \in IF pc = "preflight"
                    THEN {journal, [journal EXCEPT ![Mine].status = "PREFLIGHTED"],
                                   [journal EXCEPT ![Mine].status = "SUBMITTING"]}
                    ELSE {journal}
    /\ Leave
    /\ UNCHANGED <<broker, day, baseline, unsound>>

-----------------------------------------------------------------------------
(* Brokers, reconciliation and the calendar. *)

Task == <<pc, request, snap>>

Affordable(i) ==
    LET r == journal[i] b == BrokerOf(r.symbol) IN
    IF r.side = "BUY" THEN cash[b] - locked[b] >= r.quantity * Price
    ELSE held[r.symbol] >= r.quantity

\* A market order reaches the broker, which locks the cash for a BUY.
BrokerAccepts(i) ==
    LET r == journal[i] IN
    /\ order[i] = "coming" /\ Affordable(i)
    /\ order' = [order EXCEPT ![i] = "open"]
    /\ locked' = IF r.side = "BUY"
                 THEN [locked EXCEPT ![BrokerOf(r.symbol)] = @ + r.quantity * Price]
                 ELSE locked
    /\ UNCHANGED <<journal, cash, held, day, baseline, Task, history>>

\* It is refused, or lost on its way.
BrokerRefuses(i) ==
    /\ order[i] = "coming"
    /\ order' = [order EXCEPT ![i] = "refused"]
    /\ UNCHANGED <<journal, cash, locked, held, day, baseline, Task, history>>

\* It is closed with n units filled.
BrokerCloses(i, n) ==
    LET r == journal[i]
        b == BrokerOf(r.symbol)
        buys == r.side = "BUY"
    IN
    /\ order[i] = "open" /\ order' = [order EXCEPT ![i] = "closed"]
    /\ held' = [held EXCEPT ![r.symbol] = IF buys THEN @ + n ELSE @ - n]
    /\ cash' = [cash EXCEPT ![b] = IF buys THEN @ - n * Price ELSE @ + n * Price]
    /\ locked' = [locked EXCEPT ![b] = IF buys THEN @ - r.quantity * Price ELSE @]
    /\ late' = IF buys /\ n > 0 /\ Collecting THEN late \cup {i} ELSE late
    /\ torn' = (torn \/ (~buys /\ n > 0 /\ b = "toss" /\ pc = "power"))
    /\ UNCHANGED <<journal, day, baseline, Task, missed, unsound>>

\* Mutant: an order that was accepted is taken for done.
ReconciledEarly(i) ==
    IF order[i] \in {"open", "closed"} THEN "CONFIRMED"
    ELSE IF order[i] = "refused" /\ journal[i].symbol \in Stocks THEN "REJECTED"
    ELSE journal[i].status

\* The status a reconciliation writes.  Upbit does not know refused orders.
Reconciled(i) ==
    IF order[i] = "closed" THEN "CONFIRMED"
    ELSE IF order[i] = "open" THEN "SUBMITTED"
    ELSE IF order[i] = "refused" /\ journal[i].symbol \in Stocks THEN "REJECTED"
    ELSE journal[i].status

Reconcile(i) ==
    /\ IsUnresolved(i) /\ Reconciled(i) # journal[i].status
    /\ SetStatus(i, Reconciled(i))
    /\ missed' = IF Collecting THEN missed \cup ({i} \cap late) ELSE missed
    /\ UNCHANGED <<broker, day, baseline, Task, late, torn, unsound>>

NextDay ==
    /\ day < MaxDay /\ day' = day + 1
    /\ baseline' = [b \in Brokers |-> None]
    /\ UNCHANGED <<journal, broker, Task, history>>

Next ==
    \/ Ask \/ ReadBalances \/ ReadHoldings \/ ReadPower \/ ReadQuotes
    \/ CountUpbit \/ CountHoldings \/ SnapshotFails
    \/ \E b \in Brokers : ReadPortfolio(b)
    \/ SymbolIsBusy \/ RiskBlocks \/ RiskAllows
    \/ PreflightRefused \/ PreflightPasses
    \/ Accepted \/ Refused \/ Ambiguous \/ Crash
    \/ \E i \in Ids :
        \/ BrokerAccepts(i) \/ BrokerRefuses(i)
        \/ \E n \in 0..journal[i].quantity : BrokerCloses(i, n)
        \/ Reconcile(i)
    \/ NextDay

Spec == Init /\ [][Next]_vars

-----------------------------------------------------------------------------
TypeOK ==
    /\ journal \in Seq(Records) /\ Len(journal) <= MaxOrders
    /\ order \in [Ids -> {"none", "coming", "open", "closed", "refused"}]
    /\ cash \in [Brokers -> Nat] /\ locked \in [Brokers -> Nat]
    /\ held \in [Symbols -> Nat]
    /\ day \in 0..MaxDay /\ baseline \in [Brokers -> Nat \cup {None}]
    /\ pc \in Snapshots \cup {"idle", "preflight", "answer"}
    /\ snap \in [cash : Nat, equity : Nat, quantity : Nat, value : Nat,
                 seen : SUBSET Symbols]
    /\ late \subseteq Ids /\ missed \subseteq late
    /\ torn \in BOOLEAN /\ unsound \in BOOLEAN

\* BUYs that the broker has or may still receive.
LiveBuys == {i \in Ids : journal[i].side = "BUY" /\ order[i] \in {"coming", "open"}}

\* README.md 142 and ARCHITECTURE.md 482: BUYs leave the cash reserve of an
\* account alone.  Several BUYs may be on their way at once, on quotes and
\* balances that are older than the latest of them.  The exception is the race
\* that "missed" records: a BUY filled after the balances were read, confirmed
\* before the journal was read.
ReserveKept ==
    unsound \/ \A b \in Brokers :
        100 * (cash[b] - Cost({i \in LiveBuys : BrokerOf(journal[i].symbol) = b}))
            >= MinCashReservePct * Equity(b)

\* No position, with what is on its way, exceeds its share of the account, but
\* for the same race and for a SELL that fills between the two halves of a Toss
\* status, which counts its proceeds and the shares it sold.
PositionsCapped ==
    unsound \/ \A s \in Symbols :
        100 * (held[s] * Price + Cost({i \in LiveBuys : journal[i].symbol = s}))
            <= MaxPositionPct * Equity(BrokerOf(s))

\* README.md 146: a symbol has at most its share of the account, "an absolute
\* upper limit" of Risk Guard.
SharesNeverExceed ==
    \A s \in Symbols :
        100 * held[s] * Price <= MaxPositionPct * Equity(BrokerOf(s))

\* Both accounts together hold no more symbols than allowed, orders on their
\* way included, but for the same race.
OpenPositionsAreLimited ==
    unsound \/ Cardinality({s \in Symbols : held[s] > 0}
                           \cup {journal[i].symbol : i \in LiveBuys}) <= MaxOpenPositions

\* The orders of the day and the broker of i, up to i.
CountedUpTo(i) ==
    {j \in 1..i : Counted(j) /\ journal[j].day = journal[i].day
     /\ BrokerOf(journal[j].symbol) = BrokerOf(journal[i].symbol)}

\* A BUY is sent only while fewer orders than the limit were sent that day to
\* its broker: crashes, unknown outcomes and reconciliations lose no order from
\* the count.
DailyOrdersAreLimited ==
    \A i \in Ids : journal[i].side = "BUY" /\ Counted(i) =>
        Cardinality(CountedUpTo(i)) <= MaxDailyOrders

=============================================================================
