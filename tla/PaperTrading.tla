---------------------------- MODULE PaperTrading ----------------------------
(***************************************************************************)
(* Paper trading: the two local accounts of PaperBroker with their         *)
(* execution journal, and what trades on them in one event loop: automatic *)
(* cycles (the scheduled one and three endpoints), the risk monitor, price *)
(* refreshes, manual orders and resets.  Orders are sized by PositionSizer *)
(* (or asked for) and evaluated by RiskGuard.                              *)
(*                                                                         *)
(* A handler runs from one await to the next without interruption, writing *)
(* several files one after the other; the process may die in between, and  *)
(* `written` says how many files it had written.  While a cycle or the     *)
(* monitor goes through its symbols it is `busy` and nobody else proceeds. *)
(*                                                                         *)
(* Fees and slippage are zero, their default.  A closed stock market, HOLD *)
(* and a target exposure only lead to fewer orders.  Cost basis and peak   *)
(* price are left out: when the monitor finds a stop breached is a choice. *)
(***************************************************************************)
EXTENDS RiskGuard, PositionSizer, FiniteSets, FiniteSetsExt

CONSTANTS
    Stocks, Coins,         \* symbols of the two accounts
    InitialCash, Prices,
    Ages,                  \* ages of the quotes that the brokers return
    TargetPcts, SellPcts,  \* score tiers of the sizer
    ManualQuantities, Keys,
    Cycles,                \* automatic cycles that may run at once
    Monitor,               \* the five-minute risk monitor
    Refresh,               \* POST .../positions/refresh
    Nobody,
    DayLength, MaxWait,    \* the clock: a day, the longest await
    MaxTime, MaxCrashes

ASSUME PaperOK ==
    /\ IsFiniteSet(Stocks) /\ IsFiniteSet(Coins) /\ Stocks \cap Coins = {}
    /\ InitialCash \in Nat \ {0} /\ Prices \subseteq Nat \ {0} /\ Ages \subseteq Nat
    /\ TargetPcts \subseteq Nat /\ SellPcts \subseteq 0..100
    /\ ManualQuantities \subseteq Nat
    /\ Monitor \notin Cycles /\ Refresh \notin Cycles /\ Refresh # Monitor
    /\ Nobody \notin Cycles \cup {Monitor, Refresh}
    /\ DayLength \in Nat \ {0} /\ MaxWait \in Nat
    /\ MaxTime \in Nat /\ MaxCrashes \in Nat

Markets   == {"stock", "crypto"}
Symbols   == Stocks \cup Coins
Market(s) == IF s \in Stocks THEN "stock" ELSE "crypto"
Of(m)     == IF m = "stock" THEN Stocks ELSE Coins
Tasks     == Cycles \cup {Monitor, Refresh}

VARIABLES
    mode, kill,              \* settings.json
    cash, start, date, buys, \* paper_{market}_portfolio.json: cash,
                             \* day_start_equity, date, daily_buy_order_count
    qty, last, stamp,        \* ... positions: quantity, last_price(_at)
    journaled,               \* paper_orders: net quantity of each symbol
    activity,                \* auto_trade_activity.json
    spent,                   \* idempotency.json
    pc, asked, quotes, since, \* tasks, what they ask the brokers for, the
                             \* snapshots they hold, since when they wait
    busy, todo,              \* who goes through which symbols now
    now, crashes,
    bought,   \* history: today's BUYs since the account was reset
    latest,   \* history: last automatic BUY and last stop exit of a symbol
    torn      \* history: symbols whose account and journal were separated

settings == <<mode, kill>>
account  == <<cash, start, date, buys, qty, last, stamp>>
logs     == <<journaled, activity, spent>>
tasks    == <<pc, asked, quotes, since>>
loop     == <<busy, todo>>
history  == <<bought, latest, torn>>
vars     == <<settings, account, logs, tasks, loop, now, crashes, history>>

Quotes(symbols) == [symbols -> [price : Prices, age : Ages, at : {now}]]
Held(m)         == {s \in Of(m) : qty[s] > 0}

TypeOK ==
    /\ mode \in {"paper", "live"} /\ kill \in BOOLEAN
    /\ \A m \in Markets : cash[m] \in Nat /\ start[m] \in Nat /\ buys[m] \in Nat
                          /\ date[m] \in 0..(now \div DayLength)
    /\ \A s \in Symbols :
        /\ qty[s] \in Nat /\ journaled[s] \in Int
        /\ last[s] \in Prices \cup {0} /\ (qty[s] > 0 <=> last[s] > 0)
        /\ stamp[s] \in Int /\ stamp[s] <= now
        /\ \A e \in {"any", "buy", "sell", "stop"} : activity[s][e] \in Int
    /\ spent \subseteq Keys
    /\ \A t \in Tasks : pc[t] \in {"idle", "quoted", "deciding"} \cup Markets
                        /\ asked[t] \subseteq Symbols
    /\ busy \in Cycles \cup {Monitor, Nobody} /\ todo \subseteq Symbols

Init ==
    /\ mode \in {"paper", "live"} /\ kill \in BOOLEAN
    /\ cash = [m \in Markets |-> InitialCash]
    /\ start = [m \in Markets |-> InitialCash]
    /\ date = [m \in Markets |-> 0]
    /\ buys = [m \in Markets |-> 0]
    /\ qty = [s \in Symbols |-> 0]
    /\ last = [s \in Symbols |-> 0]
    /\ stamp = [s \in Symbols |-> 0]
    /\ journaled = [s \in Symbols |-> 0]
    /\ activity = [s \in Symbols |-> [any |-> None, buy |-> None, sell |-> None, stop |-> None]]
    /\ spent = {}
    /\ pc = [t \in Tasks |-> "idle"]
    /\ asked = [t \in Tasks |-> {}]
    /\ quotes = [t \in Tasks |-> <<>>]
    /\ since = [t \in Tasks |-> 0]
    /\ busy = Nobody /\ todo = {}
    /\ now = 0 /\ crashes = 0
    /\ bought = [m \in Markets |-> 0]
    /\ latest = [s \in Symbols |-> [buy |-> None, stop |-> None]]
    /\ torn = {}

-----------------------------------------------------------------------------
(* PaperBroker *)

Today     == now \div DayLength
Value(s)  == qty[s] * last[s]
Equity(m) == cash[m] + MapThenSumSet(Value, Of(m))

\* Mutant: every access starts a new day.
CountAfresh(m) == 0

\* _roll_day_if_needed, which every access to an account begins with.
StartNow(m) == IF date[m] = Today THEN start[m] ELSE Equity(m)
BuysNow(m)  == IF date[m] = Today THEN buys[m] ELSE 0

Roll(count) ==
    /\ date' = [m \in Markets |-> Today]
    /\ start' = [m \in Markets |-> StartNow(m)]
    /\ buys' = count

Rolled == Roll([m \in Markets |-> BuysNow(m)])

\* The time that update_prices gives to a quote.
Observed(age) == now - age

\* update_prices
UpdatePrices(q) ==
    LET news == {s \in DOMAIN q : qty[s] > 0} IN
    /\ last' = [s \in Symbols |-> IF s \in news THEN q[s].price ELSE last[s]]
    /\ stamp' = [s \in Symbols |-> IF s \in news THEN Observed(q[s].age) ELSE stamp[s]]
    /\ Rolled
    /\ UNCHANGED <<cash, qty>>

\* execute(): the account file.  Nothing of nothing is refused.
Execute(s, side, n, price) ==
    LET m    == Market(s)
        held == IF side = "BUY" THEN qty[s] + n ELSE qty[s] - n
        keep(f, x) == [f EXCEPT ![s] = IF held = 0 THEN 0 ELSE x]
    IN  /\ n \in Nat \ {0}
        /\ IF side = "BUY" THEN n * price <= cash[m] ELSE n <= qty[s]
        /\ cash' = [cash EXCEPT ![m] = IF side = "BUY" THEN @ - n * price ELSE @ + n * price]
        /\ qty' = [qty EXCEPT ![s] = held]
        /\ last' = keep(last, price)
        /\ stamp' = keep(stamp, now)
        /\ LET one == IF side = "BUY" THEN 1 ELSE 0 IN
           /\ Roll([x \in Markets |-> BuysNow(x) + IF x = m THEN one ELSE 0])
           /\ bought' = [bought EXCEPT ![m] = @ + one]

\* Mutant: the journal is written for BUYs only.
JournalBuys(s, side, n, written) ==
    /\ journaled' = IF written >= 2 /\ side = "BUY"
                    THEN [journaled EXCEPT ![s] = @ + n]
                    ELSE journaled
    /\ torn' = IF written >= 2 THEN torn ELSE torn \cup {s}

\* execute(): the journal, the second file.
Journal(s, side, n, written) ==
    /\ journaled' = IF written >= 2
                    THEN [journaled EXCEPT ![s] = IF side = "BUY" THEN @ + n ELSE @ - n]
                    ELSE journaled
    /\ torn' = IF written >= 2 THEN torn ELSE torn \cup {s}

\* Mutant: a stop exit is recorded as a sale only.
RecordSales(s, events, written) ==
    activity' = [activity EXCEPT ![s] =
        [e \in DOMAIN @ |-> IF \E i \in DOMAIN events :
                                 i + 2 <= written /\ events[i] = e /\ e # "stop"
                            THEN now ELSE @[e]]]

\* AutoTradeActivityService.record, the third and the fourth file.
Record(s, events, written) ==
    activity' = [activity EXCEPT ![s] =
        [e \in DOMAIN @ |-> IF \E i \in DOMAIN events : i + 2 <= written /\ events[i] = e
                            THEN now ELSE @[e]]]

\* The process dies: what tasks hold in memory is gone.
Dies ==
    /\ crashes < MaxCrashes
    /\ crashes' = crashes + 1
    /\ pc' = [t \in Tasks |-> "idle"]
    /\ asked' = [t \in Tasks |-> {}]
    /\ quotes' = [t \in Tasks |-> <<>>]
    /\ since' = [t \in Tasks |-> 0]
    /\ busy' = Nobody /\ todo' = {}

-----------------------------------------------------------------------------
(* The intents that reach Risk Guard *)

\* Mutant: one of the two accounts is counted.
OpenCoins == Cardinality(Held("crypto"))

\* _total_open_positions
OpenPositions == Cardinality(Held("stock") \cup Held("crypto"))

\* The daily result in percent, rounded up.
PnlPct(m) == -((100 * (StartNow(m) - Equity(m))) \div StartNow(m))

Since(time) == IF time = None THEN None ELSE now - time

\* An order for n units of s, with the account as it is now.
Intent(source, s, side, n, price, age, a) ==
    LET m == Market(s) IN
    [source |-> source, market |-> m, action |-> side,
     notional |-> n * price, quantity |-> n, price |-> price,
     equity |-> Equity(m), cash |-> cash[m],
     positionValue |-> Value(s), positionQuantity |-> qty[s],
     openPositions |-> OpenPositions, pnlPct |-> PnlPct(m), buys |-> BuysNow(m),
     dataAge |-> age, marketOpen |-> TRUE, duplicate |-> FALSE,
     sinceAny |-> Since(a.any), sinceBuy |-> Since(a.buy),
     sinceSell |-> Since(a.sell), sinceStop |-> Since(a.stop), targetPct |-> None]

NoActivity == [any |-> None, buy |-> None, sell |-> None, stop |-> None]

-----------------------------------------------------------------------------
(* Automatic cycles *)

\* A runner has the snapshots of some symbols.
Snapshot(t) ==
    /\ busy = Nobody /\ pc[t] = "idle"
    /\ \E S \in SUBSET Symbols \ {{}} : \E q \in Quotes(S) :
        quotes' = [quotes EXCEPT ![t] = q]
    /\ pc' = [pc EXCEPT ![t] = "quoted"]
    /\ since' = [since EXCEPT ![t] = now]
    /\ UNCHANGED <<settings, account, logs, asked, loop, now, crashes, history>>

\* run(), once all brokers have answered, up to the call of the LLM.
Run(t) ==
    /\ busy = Nobody /\ pc[t] = "quoted"
    /\ mode = "paper" /\ ~kill
    /\ UpdatePrices(quotes[t])
    /\ pc' = [pc EXCEPT ![t] = "deciding"]
    /\ since' = [since EXCEPT ![t] = now]
    /\ UNCHANGED <<settings, logs, asked, quotes, loop, now, crashes, history>>

Ends(t) ==
    /\ pc' = [pc EXCEPT ![t] = "idle"]
    /\ quotes' = [quotes EXCEPT ![t] = <<>>]
    /\ asked' = [asked EXCEPT ![t] = {}]
    /\ since' = [since EXCEPT ![t] = 0]

\* run() in the wrong mode or under the kill switch.
Blocked(t) ==
    /\ busy = Nobody /\ pc[t] = "quoted"
    /\ mode # "paper" \/ kill
    /\ IF mode = "paper" THEN Rolled ELSE UNCHANGED <<date, start, buys>>
    /\ Ends(t)
    /\ UNCHANGED <<settings, cash, qty, last, stamp, logs, loop, now, crashes, history>>

\* The LLM has answered; the cycle goes through the decisions.
Resume(t) ==
    /\ busy = Nobody /\ pc[t] = "deciding"
    /\ busy' = t /\ todo' = DOMAIN quotes[t]
    /\ Rolled
    /\ UNCHANGED <<settings, cash, qty, last, stamp, logs, tasks, now, crashes, history>>

\* Mutant: the switch is the one that run() read.
KillAtStart == FALSE

\* The kill switch that evaluate() reads.
KillNow == kill

\* A decision that leads to an order, sized and evaluated on the account as
\* it is now, with the snapshot from before the LLM was asked.
Trade(t, s, side, pct, written) ==
    LET q == quotes[t][s]
        n == IF side = "BUY" THEN BuyQuantity(Market(s), Equity(Market(s)), Value(s), q.price, pct)
             ELSE SellQuantity(Market(s), qty[s], pct)
        intent == Intent("auto", s, side, n, q.price, q.age, activity[s])
        answer == Evaluate(intent, KillNow)
    IN  /\ busy = t /\ s \in todo
        /\ n > 0 /\ Passes(intent, KillNow)
        /\ Execute(s, side, answer.quantity, q.price)
        /\ Journal(s, side, answer.quantity, written)
        /\ Record(s, <<"any", IF side = "BUY" THEN "buy" ELSE "sell">>, written)
        /\ IF side = "BUY" THEN latest' = [latest EXCEPT ![s].buy = now] ELSE UNCHANGED latest
        /\ IF written < 4 THEN Dies
           ELSE /\ todo' = todo \ {s}
                /\ UNCHANGED <<tasks, busy, crashes>>
        /\ UNCHANGED <<settings, spent, now>>

\* No decision is left that leads to an order.
Finish(t) ==
    /\ busy = t
    /\ busy' = Nobody /\ todo' = {}
    /\ Ends(t)
    /\ UNCHANGED <<settings, account, logs, now, crashes, history>>

CycleStep(t) ==
    \/ Snapshot(t) \/ Run(t) \/ Blocked(t) \/ Resume(t) \/ Finish(t)
    \/ \E s \in Symbols, written \in 1..4 :
        \/ \E pct \in TargetPcts : Trade(t, s, "BUY", pct, written)
        \/ \E pct \in SellPcts : Trade(t, s, "SELL", pct, written)

-----------------------------------------------------------------------------
(* The risk monitor and price refreshes *)

\* A task asks for the prices of the symbols that are held now.
Ask(t, m) ==
    /\ Held(m) # {}
    /\ pc' = [pc EXCEPT ![t] = m]
    /\ asked' = [asked EXCEPT ![t] = Held(m)]
    /\ since' = [since EXCEPT ![t] = now]
    /\ quotes' = [quotes EXCEPT ![t] = <<>>]

\* PaperRiskMonitor.run: coins first, then stocks.
MonitorStarts ==
    /\ busy = Nobody /\ pc[Monitor] = "idle"
    /\ mode = "paper" /\ ~kill
    /\ Ask(Monitor, "crypto") \/ (Held("crypto") = {} /\ Ask(Monitor, "stock"))
    /\ Rolled
    /\ UNCHANGED <<settings, cash, qty, last, stamp, logs, loop, now, crashes, history>>

\* Some or none of the prices arrive.  They may be older than their age says
\* by the time that the features took, which are fetched after the quotes.
MonitorQuoted ==
    /\ busy = Nobody /\ pc[Monitor] \in Markets
    /\ \E S \in SUBSET asked[Monitor], lag \in 0..(now - since[Monitor]) :
       \E q \in Quotes(S) :
        LET late == [s \in S |-> [q[s] EXCEPT !.at = @ - lag]] IN
        /\ UpdatePrices(late)
        /\ quotes' = [quotes EXCEPT ![Monitor] = late]
        /\ busy' = Monitor
        /\ todo' = {s \in S : qty[s] > 0}
    /\ UNCHANGED <<settings, logs, pc, asked, since, now, crashes, history>>

\* A stop is breached: the whole holding is sold.
StopExit(s, written) ==
    LET q == quotes[Monitor][s]
        intent == Intent("auto", s, "SELL", qty[s], q.price, q.age, NoActivity)
    IN  /\ busy = Monitor /\ s \in todo
        /\ Evaluate(intent, kill).status = "ALLOW"
        /\ Execute(s, "SELL", qty[s], q.price)
        /\ Journal(s, "SELL", qty[s], written)
        /\ Record(s, <<"sell", "stop">>, written)
        /\ latest' = [latest EXCEPT ![s].stop = now]
        /\ IF written < 4 THEN Dies
           ELSE /\ todo' = todo \ {s}
                /\ UNCHANGED <<tasks, busy, crashes>>
        /\ UNCHANGED <<settings, spent, now>>

\* The next market, or the end of the run.
MonitorNext ==
    /\ busy = Monitor
    /\ busy' = Nobody /\ todo' = {}
    /\ IF pc[Monitor] = "crypto" /\ Held("stock") # {} THEN Ask(Monitor, "stock") ELSE Ends(Monitor)
    /\ UNCHANGED <<settings, account, logs, now, crashes, history>>

\* TradingService.refresh_positions
RefreshStarts(m) ==
    /\ busy = Nobody /\ pc[Refresh] = "idle"
    /\ mode = "paper"
    /\ Ask(Refresh, m)
    /\ Rolled
    /\ UNCHANGED <<settings, cash, qty, last, stamp, logs, loop, now, crashes, history>>

\* All prices arrive; one that is missing fails the request.
RefreshQuoted ==
    /\ busy = Nobody /\ pc[Refresh] \in Markets
    /\ \E q \in Quotes(asked[Refresh]) : UpdatePrices(q)
    /\ Ends(Refresh)
    /\ UNCHANGED <<settings, logs, loop, now, crashes, history>>

RefreshFails ==
    /\ busy = Nobody /\ pc[Refresh] \in Markets
    /\ Ends(Refresh)
    /\ UNCHANGED <<settings, account, logs, loop, now, crashes, history>>

-----------------------------------------------------------------------------
(* The user *)

SetMode(m) ==
    /\ busy = Nobody /\ m # mode
    /\ mode' = m
    /\ kill' = (m = "live" \/ kill)
    /\ UNCHANGED <<account, logs, tasks, loop, now, crashes, history>>

SetKillSwitch(on) ==
    /\ busy = Nobody /\ on # kill
    /\ kill' = on
    /\ UNCHANGED <<mode, account, logs, tasks, loop, now, crashes, history>>

\* A page that shows the accounts.
Look ==
    /\ busy = Nobody
    /\ \E m \in Markets : date[m] # Today
    /\ Rolled
    /\ UNCHANGED <<settings, cash, qty, last, stamp, logs, tasks, loop, now, crashes, history>>

\* _paper_manual_order, at the last price of a holding; the key is remembered
\* in the third file.
ManualOrder(s, side, n, k, written) ==
    LET age    == now - stamp[s]
        intent == Intent("manual", s, side, n, last[s], age, NoActivity)
        answer == Evaluate(intent, kill)
    IN  /\ busy = Nobody /\ mode = "paper"
        /\ k \notin spent
        /\ qty[s] > 0
        /\ Passes(intent, kill)
        /\ Execute(s, side, answer.quantity, last[s])
        /\ Journal(s, side, answer.quantity, written)
        /\ spent' = IF written >= 3 THEN spent \cup {k} ELSE spent
        /\ IF written < 3 THEN Dies ELSE UNCHANGED <<tasks, loop, crashes>>
        /\ UNCHANGED <<settings, activity, now, latest>>

\* POST /paper/reset of one market or both: account, then journal, of the
\* stocks, then of the coins.
Reset(ms, written) ==
    LET all       == 2 * Cardinality(ms)
        accounts  == {m \in ms : m = "stock" \/ Cardinality(ms) = 1 \/ written >= 3}
        journals  == {m \in accounts : written = all \/ (m = "stock" /\ written >= 2)}
        renewed   == UNION {Of(m) : m \in accounts}
        forgotten == UNION {Of(m) : m \in journals}
        zero(f)   == [s \in Symbols |-> IF s \in renewed THEN 0 ELSE f[s]]
        reset(f, x) == [m \in Markets |-> IF m \in accounts THEN x ELSE f[m]]
    IN  /\ busy = Nobody
        /\ written <= all
        /\ cash' = reset(cash, InitialCash) /\ start' = reset(start, InitialCash)
        /\ date' = reset(date, Today) /\ buys' = reset(buys, 0) /\ bought' = reset(bought, 0)
        /\ qty' = zero(qty) /\ last' = zero(last) /\ stamp' = zero(stamp)
        /\ journaled' = [s \in Symbols |-> IF s \in forgotten THEN 0 ELSE journaled[s]]
        /\ torn' = (torn \ forgotten) \cup (renewed \ forgotten)
        /\ IF written < all THEN Dies ELSE UNCHANGED <<tasks, loop, crashes>>
        /\ UNCHANGED <<settings, activity, spent, now, latest>>

-----------------------------------------------------------------------------
(* The environment *)

\* Time passes while no handler runs, and every await has a timeout.
Tick ==
    /\ busy = Nobody /\ now < MaxTime
    /\ \A t \in Tasks : pc[t] # "idle" => now - since[t] < MaxWait
    /\ now' = now + 1
    /\ bought' = IF now' \div DayLength = Today THEN bought ELSE [m \in Markets |-> 0]
    /\ UNCHANGED <<settings, account, logs, tasks, loop, crashes, latest, torn>>

Crash ==
    /\ \E t \in Tasks : pc[t] # "idle"
    /\ Dies
    /\ UNCHANGED <<settings, account, logs, now, history>>

Next ==
    \/ \E t \in Cycles : CycleStep(t)
    \/ MonitorStarts \/ MonitorQuoted \/ MonitorNext
    \/ \E s \in Symbols, written \in 1..4 : StopExit(s, written)
    \/ \E m \in Markets : RefreshStarts(m)
    \/ RefreshQuoted \/ RefreshFails
    \/ \E m \in {"paper", "live"} : SetMode(m)
    \/ \E on \in BOOLEAN : SetKillSwitch(on)
    \/ Look
    \/ \E s \in Symbols, side \in {"BUY", "SELL"}, n \in ManualQuantities, k \in Keys,
          written \in 1..3 : ManualOrder(s, side, n, k, written)
    \/ \E ms \in {{"stock"}, {"crypto"}, Markets}, written \in 1..4 : Reset(ms, written)
    \/ Tick \/ Crash

Spec == Init /\ [][Next]_vars

-----------------------------------------------------------------------------
\* The limit on holdings counts both accounts, whoever buys (cycles that
\* overlap included) and whatever was sold, reset or lost in between.
HoldingsAreLimited == Cardinality({s \in Symbols : qty[s] > 0}) <= MaxOpenPositions

\* No account makes more BUYs a day than the limit, counted from its last
\* reset, over crashes and changes of day in the middle of a cycle.
DailyBuysAreLimited == \A m \in Markets : bought[m] <= MaxDailyOrders

\* Under the kill switch nothing trades: no cycle that was asking the LLM when
\* it was engaged, no stop exit and no manual order (ARCHITECTURE.md 544).  Only
\* a reset changes holdings then.
KillSwitchHolds ==
    [][kill /\ qty' # qty =>
        \E ms \in {{"stock"}, {"crypto"}, Markets}, written \in 1..4 : Reset(ms, written)]_vars

\* The journal explains every holding, except where a crash or a reset came
\* between the two files.
JournalMatches == \A s \in Symbols \ torn : journaled[s] = qty[s]

CooledDown(l) ==
    /\ l.buy = None \/ now - l.buy >= BuyCooldown
    /\ l.stop = None \/ now - l.stop >= StopCooldown

\* No cycle buys a symbol again within the cooldowns after an automatic BUY, of
\* whichever cycle, or after a stop exit, which may happen while the cycle asks
\* the LLM (ARCHITECTURE.md 1250-1257).
CooldownsKept ==
    [][(busy \in Cycles) => \A s \in Symbols : qty'[s] > qty[s] => CooledDown(latest[s])]_vars

\* Automatic orders fill at prices no older than the limit plus the two awaits
\* between a quote and the decision: the brokers' answers and the LLM's.
AutoFillsAreRecent ==
    [][busy # Nobody =>
        \A s \in Symbols : qty'[s] # qty[s] =>
            now - (quotes[busy][s].at - quotes[busy][s].age) <= MaxDataAge + 2 * MaxWait]_vars
=============================================================================
