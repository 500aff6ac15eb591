------------------------- MODULE PaperTradingProofs -------------------------
(***************************************************************************)
(* Paper trading for all symbols, prices, policies, cycles and crashes: the *)
(* accounts and their limits, the kill switch, cooldowns, the age of fills. *)
(*                                                                         *)
(* What equity is (a sum over an account) plays no part: it decides how    *)
(* much is bought, and the limits proved here hold whatever that is.       *)
(***************************************************************************)
EXTENDS PaperTrading, FiniteSetTheorems, TLAPS

USE PolicyOK, PaperOK

Sides == {"BUY", "SELL"}

AccountTypes ==
    /\ qty \in [Symbols -> Nat] /\ journaled \in [Symbols -> Int]
    /\ date \in [Markets -> Nat] /\ buys \in [Markets -> Nat] /\ bought \in [Markets -> Nat]
    /\ now \in Nat

\* An account knows how many BUYs were made today, if it has seen this day.
CountIsTrue ==
    \A m \in Markets : date[m] <= Today /\ bought[m] = BuysNow(m)

AccountInv ==
    /\ AccountTypes /\ CountIsTrue
    /\ DailyBuysAreLimited /\ HoldingsAreLimited /\ JournalMatches

\* One order that is carried out, by whomever: what Risk Guard makes sure of.
Fills(s, side, n) ==
    /\ ~kill
    /\ side = "BUY" => /\ BuysNow(Market(s)) < MaxDailyOrders
                       /\ qty[s] > 0 \/ OpenPositions < MaxOpenPositions
    /\ \E price, written : Execute(s, side, n, price) /\ Journal(s, side, n, written)
    /\ now' = now

-----------------------------------------------------------------------------
(* Risk Guard *)

\* An order that passes found no rule for all orders against it.
LEMMA PassingOrder ==
  ASSUME NEW q, NEW k, q.action \in Sides, Passes(q, k)
  PROVE  ~SystemUnsafe(q, k)
  BY DEF Sides, Passes, Evaluate, Result

\* A BUY that passes Risk Guard met no lockout.
LEMMA PassingBuy ==
  ASSUME NEW q, NEW k, q.action = "BUY", Passes(q, k)
  PROVE  ~LockedOut(q)
  BY DEF Passes, Evaluate, Result

\* What it means for an order that it passed Risk Guard.
LEMMA PassingIntent ==
  ASSUME NEW source, NEW s, NEW side \in Sides, NEW n, NEW price, NEW age, NEW a,
         Passes(Intent(source, s, side, n, price, age, a), kill)
  PROVE  /\ ~kill /\ ~(age > MaxDataAge)
         /\ side = "BUY" => /\ ~(BuysNow(Market(s)) >= MaxDailyOrders)
                            /\ ~(qty[s] <= 0 /\ OpenPositions >= MaxOpenPositions)
                            /\ ~CoolingDown(Intent(source, s, side, n, price, age, a))
<1> DEFINE q == Intent(source, s, side, n, price, age, a)
<1>1. /\ q.action = side /\ q.dataAge = age /\ q.buys = BuysNow(Market(s))
      /\ q.positionQuantity = qty[s] /\ q.openPositions = OpenPositions
  BY DEF Intent
<1>2. Passes(q, kill)
  OBVIOUS
<1> HIDE DEF q
<1>3. ~SystemUnsafe(q, kill)
  BY <1>1, <1>2, PassingOrder
<1>4. side = "BUY" => ~LockedOut(q)
  BY <1>1, <1>2, PassingBuy
<1>5. ~kill /\ ~(age > MaxDataAge)
  BY <1>1, <1>3 DEF SystemUnsafe
<1>6. side = "BUY" => /\ ~(BuysNow(Market(s)) >= MaxDailyOrders)
                      /\ ~(qty[s] <= 0 /\ OpenPositions >= MaxOpenPositions)
                      /\ ~CoolingDown(q)
  BY <1>1, <1>4 DEF LockedOut
<1> QED
  BY <1>5, <1>6 DEF q

-----------------------------------------------------------------------------
(* Counting *)

\* The symbols that are held can be counted.
LEMMA HeldIsFinite ==
  /\ IsFiniteSet(Held("stock") \cup Held("crypto"))
  /\ OpenPositions \in Nat
<1>1. IsFiniteSet(Stocks \cup Coins)
  BY FS_Union
<1>2. Held("stock") \cup Held("crypto") \subseteq Stocks \cup Coins
  BY DEF Held, Of
<1> QED
  BY <1>1, <1>2, FS_Subset, FS_CardinalityType DEF OpenPositions

\* The two markets hold what is held.
LEMMA HeldIsHeld == {s \in Symbols : qty[s] > 0} = Held("stock") \cup Held("crypto")
  BY DEF Held, Of, Symbols

\* The BUYs of the day are a number.
LEMMA CountIsNat ==
  ASSUME AccountTypes, NEW m \in Markets
  PROVE  BuysNow(m) \in Nat
  BY DEF AccountTypes, BuysNow

\* An order that reaches the account is one that Risk Guard has passed.
LEMMA FillsLimits ==
  ASSUME AccountTypes, NEW source, NEW s \in Symbols, NEW side \in Sides, NEW n0, NEW n,
         NEW price, NEW age, NEW a,
         Passes(Intent(source, s, side, n0, price, age, a), kill),
         NEW p, NEW written, Execute(s, side, n, p), Journal(s, side, n, written),
         now' = now
  PROVE  Fills(s, side, n)
<1>1. Market(s) \in Markets
  BY DEF Market, Markets
<1>2. BuysNow(Market(s)) \in Nat
  BY <1>1, CountIsNat
<1>3. qty[s] \in Nat /\ OpenPositions \in Nat
  BY HeldIsFinite DEF AccountTypes
<1>4. /\ ~kill
      /\ side = "BUY" => /\ ~(BuysNow(Market(s)) >= MaxDailyOrders)
                         /\ ~(qty[s] <= 0 /\ OpenPositions >= MaxOpenPositions)
  BY PassingIntent
<1>5. side = "BUY" => /\ BuysNow(Market(s)) < MaxDailyOrders
                      /\ qty[s] > 0 \/ OpenPositions < MaxOpenPositions
  BY <1>2, <1>3, <1>4
<1> QED
  BY <1>4, <1>5 DEF Fills

-----------------------------------------------------------------------------
(* What happens to an account *)

\* The day never goes back.
LEMMA LaterDay ==
  ASSUME NEW t \in Nat
  PROVE  /\ t \div DayLength \in Nat /\ (t + 1) \div DayLength \in Nat
         /\ t \div DayLength <= (t + 1) \div DayLength
<1>1. /\ t \div DayLength \in Nat /\ (t + 1) \div DayLength \in Nat
  OBVIOUS
<1>2. PICK x \in Nat, y \in Nat : x = t \div DayLength /\ y = (t + 1) \div DayLength
  BY <1>1
<1>3. DayLength * x <= t /\ t + 1 < DayLength * (y + 1)
  BY <1>2
<1>4. ~(y + 1 <= x)
  <2>1. y + 1 <= x => DayLength * (y + 1) <= DayLength * x
    OBVIOUS
  <2>2. DayLength * (y + 1) \in Nat /\ DayLength * x \in Nat
    OBVIOUS
  <2> QED
    BY <1>3, <2>1, <2>2
<1> QED
  BY <1>1, <1>2, <1>4

\* An access alone begins the day, if need be, and changes nothing else.
LEMMA AccessKeeps ==
  ASSUME AccountInv, UNCHANGED <<qty, journaled, torn, bought, now>>,
         Rolled \/ UNCHANGED <<date, buys>>
  PROVE  AccountInv'
<1> USE DEF AccountInv, AccountTypes
<1>1. Today' = Today /\ Today \in Nat
  BY LaterDay DEF Today
<1>2. CASE Rolled
  <2>1. /\ date' = [m \in Markets |-> Today] /\ buys' = [m \in Markets |-> BuysNow(m)]
    BY <1>2 DEF Rolled, Roll
  <2>2. AccountTypes' /\ CountIsTrue'
    BY <1>1, <2>1, CountIsNat DEF CountIsTrue, BuysNow
  <2> QED
    BY <2>2 DEF DailyBuysAreLimited, HoldingsAreLimited, JournalMatches
<1>3. CASE UNCHANGED <<date, buys>>
  BY <1>1, <1>3 DEF CountIsTrue, BuysNow, DailyBuysAreLimited, HoldingsAreLimited,
     JournalMatches
<1> QED
  BY <1>2, <1>3

\* The account file after an order.
LEMMA Executed ==
  ASSUME AccountInv, NEW s \in Symbols, NEW side \in Sides, NEW n, NEW price,
         Execute(s, side, n, price), now' = now
  PROVE  /\ n \in Nat \ {0} /\ qty' \in [Symbols -> Nat]
         /\ qty'[s] = IF side = "BUY" THEN qty[s] + n ELSE qty[s] - n
         /\ \A r \in Symbols \ {s} : qty'[r] = qty[r]
         /\ \A m \in Markets :
              bought'[m] = bought[m] + IF side = "BUY" /\ m = Market(s) THEN 1 ELSE 0
         /\ date' \in [Markets -> Nat] /\ buys' \in [Markets -> Nat]
         /\ bought' \in [Markets -> Nat]
         /\ CountIsTrue'
<1> USE DEF AccountInv, AccountTypes
<1> DEFINE one == IF side = "BUY" THEN 1 ELSE 0
           held == IF side = "BUY" THEN qty[s] + n ELSE qty[s] - n
<1>1. /\ n \in Nat \ {0}
      /\ side # "BUY" => n <= qty[s]
      /\ qty' = [qty EXCEPT ![s] = held]
      /\ bought' = [bought EXCEPT ![Market(s)] = @ + one]
      /\ date' = [x \in Markets |-> Today]
      /\ buys' = [x \in Markets |-> BuysNow(x) + IF x = Market(s) THEN one ELSE 0]
  BY DEF Execute, Roll
<1>2. held \in Nat
  BY <1>1 DEF Sides
<1>3. Market(s) \in Markets
  BY DEF Market, Markets
<1>4. one \in Nat
  OBVIOUS
<1>5. Today' = Today /\ Today \in Nat
  BY LaterDay DEF Today
<1>6. \A m \in Markets : BuysNow(m) \in Nat /\ bought[m] = BuysNow(m)
  BY CountIsNat DEF CountIsTrue
<1>7. \A m \in Markets :
         bought'[m] = bought[m] + IF side = "BUY" /\ m = Market(s) THEN 1 ELSE 0
  BY <1>1, <1>3
<1>8. buys' \in [Markets -> Nat] /\ bought' \in [Markets -> Nat]
  BY <1>1, <1>3, <1>4, <1>6
<1>9. CountIsTrue'
  <2> SUFFICES ASSUME NEW m \in Markets
               PROVE  date'[m] = Today' /\ bought'[m] = buys'[m]
    BY <1>1, <1>5 DEF CountIsTrue, BuysNow
  <2> QED
    BY <1>1, <1>3, <1>5, <1>6
<1> QED
  BY <1>1, <1>2, <1>5, <1>7, <1>8, <1>9

\* No order takes an account over its limits, or off its journal.
LEMMA FillKeeps ==
  ASSUME AccountInv, NEW s \in Symbols, NEW side \in Sides, NEW n, Fills(s, side, n)
  PROVE  AccountInv'
<1>1. PICK price, written : Execute(s, side, n, price) /\ Journal(s, side, n, written)
  BY DEF Fills
<1>2. now' = now
  BY DEF Fills
<1>3. /\ n \in Nat \ {0} /\ qty' \in [Symbols -> Nat]
      /\ qty'[s] = IF side = "BUY" THEN qty[s] + n ELSE qty[s] - n
      /\ \A r \in Symbols \ {s} : qty'[r] = qty[r]
      /\ \A m \in Markets :
           bought'[m] = bought[m] + IF side = "BUY" /\ m = Market(s) THEN 1 ELSE 0
      /\ date' \in [Markets -> Nat] /\ buys' \in [Markets -> Nat]
      /\ bought' \in [Markets -> Nat]
      /\ CountIsTrue'
  BY <1>1, <1>2, Executed
<1>4. journaled' \in [Symbols -> Int] /\ JournalMatches'
  <2>1. CASE written >= 2
    <3>1. /\ journaled' = [journaled EXCEPT ![s] = IF side = "BUY" THEN @ + n ELSE @ - n]
          /\ torn' = torn
      BY <1>1, <2>1 DEF Journal
    <3> QED
      BY <1>3, <3>1 DEF AccountInv, AccountTypes, JournalMatches
  <2>2. CASE ~(written >= 2)
    <3>1. journaled' = journaled /\ torn' = torn \cup {s}
      BY <1>1, <2>2 DEF Journal
    <3> QED
      BY <1>3, <3>1 DEF AccountInv, AccountTypes, JournalMatches
  <2> QED
    BY <2>1, <2>2
<1>5. DailyBuysAreLimited'
  <2> SUFFICES ASSUME NEW m \in Markets PROVE bought'[m] <= MaxDailyOrders
    BY DEF DailyBuysAreLimited
  <2>1. bought[m] \in Nat /\ bought[m] <= MaxDailyOrders /\ bought[m] = BuysNow(m)
    BY DEF AccountInv, AccountTypes, DailyBuysAreLimited, CountIsTrue
  <2>2. side = "BUY" => BuysNow(Market(s)) < MaxDailyOrders
    BY DEF Fills
  <2> QED
    BY <1>3, <2>1, <2>2
<1>6. HoldingsAreLimited'
  <2> DEFINE H == {r \in Symbols : qty[r] > 0}
             J == {r \in Symbols : qty'[r] > 0}
  <2>1. /\ IsFiniteSet(H) /\ Cardinality(H) = OpenPositions /\ OpenPositions \in Nat
        /\ Cardinality(H) <= MaxOpenPositions
    BY HeldIsFinite, HeldIsHeld DEF OpenPositions, AccountInv, HoldingsAreLimited
  <2>2. CASE J \subseteq H
    <3>1. Cardinality(J) \in Nat /\ Cardinality(J) <= Cardinality(H)
      BY <2>1, <2>2, FS_Subset, FS_CardinalityType
    <3> QED
      BY <2>1, <3>1 DEF HoldingsAreLimited
  <2>3. CASE ~(J \subseteq H)
    <3>1. /\ J \subseteq H \cup {s} /\ s \notin H
          /\ side = "BUY" /\ ~(qty[s] > 0)
      BY <1>3, <2>3 DEF AccountInv, AccountTypes, Sides
    <3>2. OpenPositions < MaxOpenPositions
      BY <3>1 DEF Fills
    <3>3. IsFiniteSet(H \cup {s}) /\ Cardinality(H \cup {s}) = Cardinality(H) + 1
      BY <2>1, <3>1, FS_AddElement
    <3>4. Cardinality(J) \in Nat /\ Cardinality(J) <= Cardinality(H) + 1
      BY <3>1, <3>3, FS_Subset, FS_CardinalityType
    <3> QED
      BY <2>1, <3>2, <3>4 DEF HoldingsAreLimited
  <2> QED
    BY <2>2, <2>3
<1> QED
  BY <1>2, <1>3, <1>4, <1>5, <1>6 DEF AccountInv, AccountTypes

\* A reset, complete or cut off by a crash after any of its files.
LEMMA ResetKeeps ==
  ASSUME AccountInv, NEW ms, NEW written, Reset(ms, written)
  PROVE  AccountInv'
<1> USE DEF AccountInv, AccountTypes
<1> DEFINE all       == 2 * Cardinality(ms)
           accounts  == {m \in ms : m = "stock" \/ Cardinality(ms) = 1 \/ written >= 3}
           journals  == {m \in accounts : written = all \/ (m = "stock" /\ written >= 2)}
           renewed   == UNION {Of(m) : m \in accounts}
           forgotten == UNION {Of(m) : m \in journals}
<1>1. /\ date' = [m \in Markets |-> IF m \in accounts THEN Today ELSE date[m]]
      /\ buys' = [m \in Markets |-> IF m \in accounts THEN 0 ELSE buys[m]]
      /\ bought' = [m \in Markets |-> IF m \in accounts THEN 0 ELSE bought[m]]
      /\ qty' = [s \in Symbols |-> IF s \in renewed THEN 0 ELSE qty[s]]
      /\ journaled' = [s \in Symbols |-> IF s \in forgotten THEN 0 ELSE journaled[s]]
      /\ torn' = (torn \ forgotten) \cup (renewed \ forgotten)
      /\ now' = now
  BY DEF Reset
<1>2. forgotten \subseteq renewed
  OBVIOUS
<1> HIDE DEF all, accounts, journals, renewed, forgotten
<1>3. Today' = Today /\ Today \in Nat
  BY <1>1, LaterDay DEF Today
<1>4. AccountTypes' /\ CountIsTrue'
  BY <1>1, <1>3 DEF CountIsTrue, BuysNow
<1>5. DailyBuysAreLimited'
  BY <1>1 DEF DailyBuysAreLimited
<1>6. HoldingsAreLimited'
  <2> DEFINE H == {r \in Symbols : qty[r] > 0}
             J == {r \in Symbols : qty'[r] > 0}
  <2>1. IsFiniteSet(H) /\ Cardinality(H) \in Nat /\ Cardinality(H) <= MaxOpenPositions
    BY HeldIsFinite, HeldIsHeld DEF OpenPositions, HoldingsAreLimited
  <2>2. J \subseteq H
    BY <1>1
  <2>3. Cardinality(J) \in Nat /\ Cardinality(J) <= Cardinality(H)
    BY <2>1, <2>2, FS_Subset, FS_CardinalityType
  <2> QED
    BY <2>1, <2>3 DEF HoldingsAreLimited
<1>7. JournalMatches'
  BY <1>1, <1>2 DEF JournalMatches
<1> QED
  BY <1>4, <1>5, <1>6, <1>7

\* A new day starts without BUYs, and no account has seen it yet.
LEMMA TickKeeps ==
  ASSUME AccountInv, Tick
  PROVE  AccountInv'
<1> USE DEF AccountInv, AccountTypes
<1>1. /\ now' = now + 1 /\ UNCHANGED <<qty, journaled, torn, date, buys>>
      /\ bought' = IF Today' = Today THEN bought ELSE [m \in Markets |-> 0]
  BY DEF Tick, account, logs, Today
<1>2. Today \in Nat /\ Today' \in Nat /\ Today <= Today'
  BY <1>1, LaterDay DEF Today
<1>3. AccountTypes'
  BY <1>1
<1>4. CountIsTrue'
  <2>1. CASE Today' = Today
    BY <1>1, <2>1 DEF CountIsTrue, BuysNow
  <2>2. CASE Today' # Today
    <3>1. \A m \in Markets : date[m] \in Nat /\ date[m] <= Today
      BY DEF CountIsTrue
    <3>2. \A m \in Markets : date'[m] <= Today' /\ date'[m] # Today' /\ bought'[m] = 0
      BY <1>1, <1>2, <2>2, <3>1
    <3> QED
      BY <3>2 DEF CountIsTrue, BuysNow
  <2> QED
    BY <2>1, <2>2
<1>5. DailyBuysAreLimited'
  BY <1>1 DEF DailyBuysAreLimited
<1> QED
  BY <1>1, <1>3, <1>4, <1>5 DEF HoldingsAreLimited, JournalMatches

-----------------------------------------------------------------------------
(* Who trades *)

\* An order of a cycle.
LEMMA TradeFills ==
  ASSUME AccountTypes, NEW t \in Cycles, NEW s \in Symbols, NEW side \in Sides, NEW pct,
         NEW written, Trade(t, s, side, pct, written)
  PROVE  \E n : Fills(s, side, n)
<1> DEFINE q == quotes[t][s]
           n == IF side = "BUY"
                THEN BuyQuantity(Market(s), Equity(Market(s)), Value(s), q.price, pct)
                ELSE SellQuantity(Market(s), qty[s], pct)
           answer == Evaluate(Intent("auto", s, side, n, q.price, q.age, activity[s]), KillNow)
<1>1. /\ Passes(Intent("auto", s, side, n, q.price, q.age, activity[s]), kill)
      /\ Execute(s, side, answer.quantity, q.price)
      /\ Journal(s, side, answer.quantity, written)
      /\ now' = now
  BY DEF Trade, KillNow
<1> HIDE DEF q, n, answer
<1> QED
  BY <1>1, FillsLimits

\* A stop exit has the common form of a fill, ...
LEMMA StopExitFills ==
  ASSUME AccountTypes, NEW s \in Symbols, NEW written, StopExit(s, written)
  PROVE  \E n : Fills(s, "SELL", n)
<1> DEFINE q == quotes[Monitor][s]
           intent == Intent("auto", s, "SELL", qty[s], q.price, q.age, NoActivity)
<1>1. /\ Evaluate(intent, kill).status = "ALLOW"
      /\ Execute(s, "SELL", qty[s], q.price) /\ Journal(s, "SELL", qty[s], written)
      /\ now' = now
  BY DEF StopExit
<1>2. Passes(intent, kill) /\ "SELL" \in Sides
  BY <1>1 DEF Passes, Sides
<1> HIDE DEF q
<1> QED
  BY <1>1, <1>2, FillsLimits

\* ... and so has a manual order.
LEMMA ManualOrderFills ==
  ASSUME AccountTypes, NEW s \in Symbols, NEW side \in Sides, NEW n, NEW k, NEW written,
         ManualOrder(s, side, n, k, written)
  PROVE  \E m : Fills(s, side, m)
<1> DEFINE intent == Intent("manual", s, side, n, last[s], now - stamp[s], NoActivity)
           answer == Evaluate(intent, kill)
<1>1. /\ Passes(intent, kill)
      /\ Execute(s, side, answer.quantity, last[s])
      /\ Journal(s, side, answer.quantity, written)
      /\ now' = now
  BY DEF ManualOrder
<1> HIDE DEF answer
<1> QED
  BY <1>1, FillsLimits

\* All that a step can do to the accounts.
LEMMA StepKinds ==
  ASSUME AccountTypes, [Next]_vars
  PROVE  \/ \E s \in Symbols, side \in Sides : \E n : Fills(s, side, n)
         \/ \E ms \in {{"stock"}, {"crypto"}, Markets}, written \in 1..4 : Reset(ms, written)
         \/ Tick
         \/ /\ UNCHANGED <<qty, journaled, torn, bought, now>>
            /\ Rolled \/ UNCHANGED <<date, buys>>
<1> DEFINE Access == /\ UNCHANGED <<qty, journaled, torn, bought, now>>
                     /\ Rolled \/ UNCHANGED <<date, buys>>
<1>1. ASSUME NEW t \in Cycles, CycleStep(t)
      PROVE  Access \/ \E s \in Symbols, side \in Sides : \E n : Fills(s, side, n)
  <2>1. CASE Snapshot(t) \/ Run(t) \/ Blocked(t) \/ Resume(t) \/ Finish(t)
    BY <2>1 DEF Snapshot, Run, Blocked, Resume, Finish, Ends, UpdatePrices, account, logs,
       history
  <2>2. ASSUME NEW s \in Symbols, NEW written \in 1..4,
               \/ \E pct \in TargetPcts : Trade(t, s, "BUY", pct, written)
               \/ \E pct \in SellPcts : Trade(t, s, "SELL", pct, written)
        PROVE  \E side \in Sides : \E n : Fills(s, side, n)
    <3>1. "BUY" \in Sides /\ "SELL" \in Sides
      BY DEF Sides
    <3>2. PICK side \in Sides : \E pct : Trade(t, s, side, pct, written)
      BY <2>2, <3>1
    <3> QED
      BY <3>2, TradeFills
  <2> QED
    BY <1>1, <2>1, <2>2 DEF CycleStep
<1>2. CASE MonitorStarts \/ MonitorQuoted \/ MonitorNext \/ RefreshQuoted \/ RefreshFails
  BY <1>2 DEF MonitorStarts, MonitorQuoted, MonitorNext, RefreshQuoted, RefreshFails,
     UpdatePrices, Ends, Ask, account, logs, history
<1>3. ASSUME NEW s \in Symbols, NEW written \in 1..4, StopExit(s, written)
      PROVE  \E n : Fills(s, "SELL", n)
  BY <1>3, StopExitFills
<1>4. CASE \/ \E m \in Markets : RefreshStarts(m)
           \/ \E m \in {"paper", "live"} : SetMode(m)
           \/ \E on \in BOOLEAN : SetKillSwitch(on)
           \/ Look \/ Crash
  BY <1>4 DEF RefreshStarts, SetMode, SetKillSwitch, Look, Crash, account, logs, history
<1>5. ASSUME NEW s \in Symbols, NEW side \in Sides, NEW n \in ManualQuantities, NEW k \in Keys,
             NEW written \in 1..3, ManualOrder(s, side, n, k, written)
      PROVE  \E m : Fills(s, side, m)
  BY <1>5, ManualOrderFills
<1>6. CASE UNCHANGED vars
  BY <1>6 DEF vars, account, logs, history
<1>7. "SELL" \in Sides
  BY DEF Sides
<1> HIDE DEF Access
<1>8. \/ Access \/ Tick
      \/ \E s \in Symbols, side \in Sides : \E n : Fills(s, side, n)
      \/ \E ms \in {{"stock"}, {"crypto"}, Markets}, written \in 1..4 : Reset(ms, written)
  BY <1>1, <1>2, <1>3, <1>4, <1>5, <1>6, <1>7 DEF Next, Sides, Access
<1> QED
  BY <1>8 DEF Access

\* Every step keeps the invariant of the accounts, ...
LEMMA AccountStep ==
  ASSUME AccountInv, [Next]_vars
  PROVE  AccountInv'
<1>1. AccountTypes
  BY DEF AccountInv
<1> QED
  BY <1>1, StepKinds, FillKeeps, ResetKeeps, TickKeeps, AccessKeeps

\* ... which holds at first ...
LEMMA AccountStart ==
  ASSUME Init
  PROVE  AccountInv
<1> USE DEF Init
<1>1. Today = 0
  BY DEF Today
<1>2. AccountTypes /\ CountIsTrue
  BY <1>1 DEF AccountTypes, CountIsTrue, BuysNow
<1>3. DailyBuysAreLimited /\ JournalMatches
  BY DEF DailyBuysAreLimited, JournalMatches
<1>4. HoldingsAreLimited
  <2>1. {s \in Symbols : qty[s] > 0} = {}
    OBVIOUS
  <2>2. Cardinality({s \in Symbols : qty[s] > 0}) = 0
    BY <2>1, FS_EmptySet
  <2>3. 0 <= MaxOpenPositions
    OBVIOUS
  <2> QED
    BY <2>2, <2>3 DEF HoldingsAreLimited
<1> QED
  BY <1>2, <1>3, <1>4 DEF AccountInv

\* ... and therefore always.
LEMMA AccountAlways == Spec => []AccountInv
  BY AccountStart, AccountStep, PTL DEF Spec

\* No account makes more BUYs a day than the limit, whatever cycles overlap,
\* crash or go on past midnight.
THEOREM DailyBuys == Spec => []DailyBuysAreLimited
<1>1. AccountInv => DailyBuysAreLimited
  BY DEF AccountInv
<1> QED
  BY <1>1, AccountAlways, PTL

\* Both accounts together hold no more symbols than the limit.
THEOREM Holdings == Spec => []HoldingsAreLimited
<1>1. AccountInv => HoldingsAreLimited
  BY DEF AccountInv
<1> QED
  BY <1>1, AccountAlways, PTL

\* The journal explains the account wherever no crash came between the two.
THEOREM Journals == Spec => []JournalMatches
<1>1. AccountInv => JournalMatches
  BY DEF AccountInv
<1> QED
  BY <1>1, AccountAlways, PTL

\* Nothing trades under the kill switch: no cycle that was asking the LLM when it
\* was engaged, no stop exit and no manual order.
THEOREM KillSwitch == Spec => KillSwitchHolds
<1>1. ASSUME AccountInv, [Next]_vars
      PROVE  [kill /\ qty' # qty =>
                \E ms \in {{"stock"}, {"crypto"}, Markets}, written \in 1..4 :
                   Reset(ms, written)]_vars
  <2>1. AccountTypes
    BY <1>1 DEF AccountInv
  <2>2. Tick => qty' = qty
    BY DEF Tick, account
  <2>3. ASSUME NEW s, NEW side, NEW n, Fills(s, side, n) PROVE ~kill
    BY <2>3 DEF Fills
  <2> QED
    BY <1>1, <2>1, <2>2, <2>3, StepKinds
<1> QED
  BY <1>1, AccountAlways, PTL DEF Spec, KillSwitchHolds

-----------------------------------------------------------------------------
(* Waiting *)

\* The snapshot that a task holds was taken at a time or later.
TakenSince(t, time) ==
    \A s \in DOMAIN quotes[t] :
        quotes[t][s].at \in Int /\ quotes[t][s].age \in Nat /\ time <= quotes[t][s].at

TaskTypes ==
    /\ now \in Nat /\ since \in [Tasks -> Nat]
    /\ pc \in [Tasks -> {"idle", "quoted", "deciding"} \cup Markets]
    /\ quotes = [t \in Tasks |-> quotes[t]]
    /\ busy \in Cycles \cup {Monitor, Nobody}

\* AutoFillsAreRecent is about the two awaits that led to a fill: how long the
\* present one has lasted, and how old the snapshot was when it began.
WaitInv ==
    /\ TaskTypes
    /\ \A t \in Tasks : pc[t] # "idle" => now - since[t] <= MaxWait
    /\ \A t \in Cycles : /\ pc[t] = "quoted" => TakenSince(t, since[t])
                         /\ pc[t] = "deciding" => TakenSince(t, since[t] - MaxWait)
    /\ busy \in Cycles => pc[busy] = "deciding" /\ todo \subseteq DOMAIN quotes[busy]
    /\ busy = Monitor => /\ pc[Monitor] \in Markets /\ TakenSince(Monitor, since[Monitor])
                         /\ todo \subseteq DOMAIN quotes[Monitor]

\* The tasks are different from each other, from nobody and from their places.
LEMMA TasksApart ==
  /\ Cycles \subseteq Tasks /\ Monitor \in Tasks /\ Refresh \in Tasks
  /\ Nobody \notin Tasks
  /\ \A t \in Cycles : t # Monitor /\ t # Refresh /\ t # Nobody
  /\ Monitor # Refresh /\ Monitor # Nobody
  /\ \A m \in Markets : m \notin {"idle", "quoted", "deciding"}
  BY DEF Tasks, Markets

\* A process that dies waits for nothing.
LEMMA DeathKeeps ==
  ASSUME WaitInv, Dies, now' = now
  PROVE  WaitInv'
<1>1. /\ pc' = [t \in Tasks |-> "idle"] /\ since' = [t \in Tasks |-> 0]
      /\ quotes' = [t \in Tasks |-> <<>>] /\ busy' = Nobody
  BY DEF Dies
<1>2. TaskTypes'
  BY <1>1 DEF WaitInv, TaskTypes
<1> QED
  BY <1>1, <1>2, TasksApart DEF WaitInv

\* A handler that leaves the tasks alone, or goes on to the next symbol.
LEMMA RestKeeps ==
  ASSUME WaitInv, UNCHANGED <<pc, quotes, since, busy, now>>, todo' \subseteq todo
  PROVE  WaitInv'
  BY DEF WaitInv, TaskTypes, TakenSince

\* A task that ends, or asks the brokers, holds no snapshot that counts.
LEMMA TurnKeeps ==
  ASSUME WaitInv, NEW t \in Tasks, UNCHANGED now, busy \in {t, Nobody},
         \/ Ends(t)
         \/ t \in {Monitor, Refresh} /\ \E m \in Markets : Ask(t, m),
         busy' = Nobody
  PROVE  WaitInv'
<1> USE DEF WaitInv
<1>1. PICK p, w, q :
         /\ p \in {"idle"} \cup Markets /\ w \in {0, now}
         /\ pc' = [pc EXCEPT ![t] = p] /\ since' = [since EXCEPT ![t] = w]
         /\ quotes' = [quotes EXCEPT ![t] = q]
         /\ p # "idle" => w = now /\ t \in {Monitor, Refresh}
  BY DEF Ends, Ask
<1>2. TaskTypes'
  BY <1>1 DEF TaskTypes
<1>3. \A u \in Tasks \ {t} : pc'[u] = pc[u] /\ since'[u] = since[u] /\ quotes'[u] = quotes[u]
  BY <1>1 DEF TaskTypes
<1>4. pc'[t] = p /\ since'[t] = w /\ now - now <= MaxWait
  BY <1>1 DEF TaskTypes
<1>5. \A u \in Tasks : pc'[u] # "idle" => now' - since'[u] <= MaxWait
  BY <1>1, <1>3, <1>4 DEF TaskTypes
<1>6. \A u \in Cycles : /\ pc'[u] = "quoted" => TakenSince(u, since[u])'
                        /\ pc'[u] = "deciding" => TakenSince(u, since[u] - MaxWait)'
  <2> SUFFICES ASSUME NEW u \in Cycles, pc'[u] \in {"quoted", "deciding"}
               PROVE  /\ pc'[u] = pc[u] /\ since'[u] = since[u] /\ quotes'[u] = quotes[u]
    BY DEF TakenSince
  <2>1. u # t
    BY <1>1, <1>4, TasksApart
  <2> QED
    BY <1>3, <2>1, TasksApart
<1> QED
  BY <1>2, <1>5, <1>6, TasksApart

\* A step of a cycle begins its next await with a snapshot of known age.
LEMMA CycleWaits ==
  ASSUME WaitInv, NEW t \in Cycles, Snapshot(t) \/ Run(t) \/ Resume(t)
  PROVE  WaitInv'
<1> USE DEF WaitInv, TaskTypes
<1>1. t \in Tasks /\ now' = now
  BY TasksApart DEF Snapshot, Run, Resume
<1>2. CASE Snapshot(t)
  <2>0. PICK S \in SUBSET Symbols \ {{}} : \E q \in Quotes(S) :
                    quotes' = [quotes EXCEPT ![t] = q]
    BY <1>2 DEF Snapshot
  <2>1. PICK q \in Quotes(S) :
           /\ quotes' = [quotes EXCEPT ![t] = q] /\ pc' = [pc EXCEPT ![t] = "quoted"]
           /\ since' = [since EXCEPT ![t] = now] /\ busy' = Nobody
    BY <1>2, <2>0 DEF Snapshot, loop
  <2>2. \A s \in DOMAIN q : q[s].at = now /\ q[s].age \in Nat
    BY DEF Quotes
  <2>3. TaskTypes'
    BY <1>1, <2>1
  <2>4. \A u \in Tasks \ {t} : pc'[u] = pc[u] /\ since'[u] = since[u] /\ quotes'[u] = quotes[u]
    BY <2>1
  <2>5. pc'[t] = "quoted" /\ since'[t] = now /\ quotes'[t] = q
    BY <1>1, <2>1
  <2>6. TakenSince(t, since[t])'
    BY <2>2, <2>5 DEF TakenSince
  <2>7. \A u \in Tasks : pc'[u] # "idle" => now' - since'[u] <= MaxWait
    BY <1>1, <2>4, <2>5
  <2>8. \A u \in Cycles \ {t} : /\ pc'[u] = "quoted" => TakenSince(u, since[u])'
                                /\ pc'[u] = "deciding" => TakenSince(u, since[u] - MaxWait)'
    BY <2>4, TasksApart DEF TakenSince
  <2> QED
    BY <2>1, <2>3, <2>5, <2>6, <2>7, <2>8, TasksApart
<1>3. CASE Run(t)
  <2>1. /\ pc[t] = "quoted" /\ quotes' = quotes /\ pc' = [pc EXCEPT ![t] = "deciding"]
        /\ since' = [since EXCEPT ![t] = now] /\ busy' = Nobody
    BY <1>3 DEF Run, loop
  <2>2. TaskTypes'
    BY <1>1, <2>1
  <2>3. \A u \in Tasks \ {t} : pc'[u] = pc[u] /\ since'[u] = since[u]
    BY <2>1
  <2>4. pc'[t] = "deciding" /\ since'[t] = now
    BY <1>1, <2>1
  <2>5. TakenSince(t, since[t] - MaxWait)'
    <3>0. TakenSince(t, since[t])
      BY <2>1
    <3>1. now - since[t] <= MaxWait
      BY <1>1, <2>1
    <3>2. since[t] \in Nat /\ now - MaxWait <= since[t]
      BY <1>1, <3>1
    <3> QED
      BY <2>1, <2>4, <3>0, <3>2 DEF TakenSince
  <2>6. \A u \in Tasks : pc'[u] # "idle" => now' - since'[u] <= MaxWait
    BY <1>1, <2>3, <2>4
  <2>7. \A u \in Cycles \ {t} : /\ pc'[u] = "quoted" => TakenSince(u, since[u])'
                                /\ pc'[u] = "deciding" => TakenSince(u, since[u] - MaxWait)'
    BY <2>1, <2>3, TasksApart DEF TakenSince
  <2> QED
    BY <2>1, <2>2, <2>4, <2>5, <2>6, <2>7, TasksApart
<1>4. CASE Resume(t)
  <2>1. /\ pc[t] = "deciding" /\ UNCHANGED <<pc, quotes, since>>
        /\ busy' = t /\ todo' = DOMAIN quotes[t]
    BY <1>4 DEF Resume, tasks
  <2> QED
    BY <1>1, <2>1, TasksApart DEF TakenSince
<1> QED
  BY <1>2, <1>3, <1>4

\* So does the answer to the monitor.
LEMMA MonitorWaits ==
  ASSUME WaitInv, MonitorQuoted
  PROVE  WaitInv'
<1> USE DEF WaitInv, TaskTypes
<1>1. PICK S \in SUBSET asked[Monitor], lag \in 0..(now - since[Monitor]) :
         \E q \in Quotes(S) :
            LET late == [s \in S |-> [q[s] EXCEPT !.at = @ - lag]] IN
            /\ quotes' = [quotes EXCEPT ![Monitor] = late]
            /\ todo' = {s \in S : qty[s] > 0}
  BY DEF MonitorQuoted
<1>2. PICK q \in Quotes(S) :
         LET late == [s \in S |-> [q[s] EXCEPT !.at = @ - lag]] IN
         /\ quotes' = [quotes EXCEPT ![Monitor] = late]
         /\ todo' = {s \in S : qty[s] > 0}
  BY <1>1
<1>3. /\ pc[Monitor] \in Markets /\ UNCHANGED <<pc, since, now>>
      /\ busy' = Monitor
  BY DEF MonitorQuoted
<1>4. /\ quotes'[Monitor] = [s \in S |-> [q[s] EXCEPT !.at = @ - lag]]
      /\ \A u \in Tasks \ {Monitor} : quotes'[u] = quotes[u]
      /\ quotes' = [u \in Tasks |-> quotes'[u]]
  BY <1>2, TasksApart
<1>5. \A s \in S : /\ q[s] \in [price : Prices, age : Ages, at : {now}]
                   /\ q[s].age \in Nat /\ q[s].at = now
  BY DEF Quotes
<1>6. \A s \in S : quotes'[Monitor][s].age = q[s].age /\ quotes'[Monitor][s].at = now - lag
  BY <1>4, <1>5
<1>7. since[Monitor] \in Nat /\ lag \in Int /\ since[Monitor] <= now - lag
  BY TasksApart
<1>8. TakenSince(Monitor, since[Monitor])'
  BY <1>3, <1>4, <1>5, <1>6, <1>7 DEF TakenSince
<1>9. todo' \subseteq DOMAIN quotes'[Monitor]
  BY <1>2, <1>4
<1>10. \A u \in Cycles : /\ pc'[u] = "quoted" => TakenSince(u, since[u])'
                         /\ pc'[u] = "deciding" => TakenSince(u, since[u] - MaxWait)'
  BY <1>3, <1>4, TasksApart DEF TakenSince
<1>11. TaskTypes'
  BY <1>3, <1>4
<1> QED
  BY <1>3, <1>8, <1>9, <1>10, <1>11, TasksApart

\* A handler either dies or goes on with the next symbol.
LEMMA OrderWaits ==
  ASSUME WaitInv, now' = now,
         \/ Dies
         \/ UNCHANGED <<tasks, busy>> /\ todo' \subseteq todo
  PROVE  WaitInv'
  BY DeathKeeps, RestKeeps DEF tasks

\* Every step keeps how long each await lasts, ...
LEMMA WaitStep ==
  ASSUME WaitInv, [Next]_vars
  PROVE  WaitInv'
<1>1. ASSUME NEW t \in Cycles, CycleStep(t) PROVE WaitInv'
  <2>1. CASE Snapshot(t) \/ Run(t) \/ Resume(t)
    BY <2>1, CycleWaits
  <2>2. CASE Blocked(t) \/ Finish(t)
    <3>1. t \in Tasks /\ now' = now /\ busy \in {t, Nobody} /\ Ends(t) /\ busy' = Nobody
      BY <2>2, TasksApart DEF Blocked, Finish, loop
    <3> QED
      BY <3>1, TurnKeeps
  <2>3. ASSUME NEW s \in Symbols, NEW side, NEW pct, NEW written, Trade(t, s, side, pct, written)
        PROVE  WaitInv'
    <3>1. /\ now' = now
          /\ \/ Dies
             \/ UNCHANGED <<tasks, busy>> /\ todo' \subseteq todo
      BY <2>3 DEF Trade
    <3> QED
      BY <3>1, OrderWaits
  <2> QED
    BY <1>1, <2>1, <2>2, <2>3 DEF CycleStep
<1>2. CASE MonitorStarts \/ MonitorNext
  <2>1. /\ Monitor \in Tasks /\ now' = now /\ busy \in {Monitor, Nobody} /\ busy' = Nobody
        /\ Ends(Monitor) \/ \E m \in Markets : Ask(Monitor, m)
    BY <1>2, TasksApart DEF MonitorStarts, MonitorNext, loop, Markets
  <2> QED
    BY <2>1, TurnKeeps
<1>3. CASE MonitorQuoted
  BY <1>3, MonitorWaits
<1>4. ASSUME NEW s \in Symbols, NEW written, StopExit(s, written) PROVE WaitInv'
  <2>1. /\ now' = now
        /\ \/ Dies
           \/ UNCHANGED <<tasks, busy>> /\ todo' \subseteq todo
    BY <1>4 DEF StopExit
  <2> QED
    BY <2>1, OrderWaits
<1>5. CASE (\E m \in Markets : RefreshStarts(m)) \/ RefreshQuoted \/ RefreshFails
  <2>1. /\ Refresh \in Tasks /\ now' = now /\ busy \in {Refresh, Nobody} /\ busy' = Nobody
        /\ Ends(Refresh) \/ \E m \in Markets : Ask(Refresh, m)
    BY <1>5, TasksApart DEF RefreshStarts, RefreshQuoted, RefreshFails, loop
  <2> QED
    BY <2>1, TurnKeeps
<1>6. CASE \/ \E m \in {"paper", "live"} : SetMode(m)
           \/ \E on \in BOOLEAN : SetKillSwitch(on)
           \/ Look \/ Crash
  <2>1. /\ now' = now
        /\ \/ Dies
           \/ UNCHANGED <<tasks, busy>> /\ todo' \subseteq todo
    BY <1>6 DEF SetMode, SetKillSwitch, Look, Crash, loop
  <2> QED
    BY <2>1, OrderWaits
<1>7. ASSUME NEW s, NEW side, NEW n, NEW k, NEW written, ManualOrder(s, side, n, k, written)
      PROVE  WaitInv'
  <2>1. /\ now' = now
        /\ \/ Dies
           \/ UNCHANGED <<tasks, busy>> /\ todo' \subseteq todo
    BY <1>7 DEF ManualOrder, loop
  <2> QED
    BY <2>1, OrderWaits
<1>8. ASSUME NEW ms, NEW written, Reset(ms, written) PROVE WaitInv'
  <2>1. /\ now' = now
        /\ \/ Dies
           \/ UNCHANGED <<tasks, busy>> /\ todo' \subseteq todo
    BY <1>8 DEF Reset, loop
  <2> QED
    BY <2>1, OrderWaits
<1>9. CASE Tick
  <2>1. /\ now' = now + 1 /\ busy = Nobody
        /\ UNCHANGED <<pc, since, quotes, busy, todo>>
        /\ \A t \in Tasks : pc[t] # "idle" => now - since[t] < MaxWait
    BY <1>9 DEF Tick, tasks, loop
  <2>2. TaskTypes'
    BY <2>1 DEF WaitInv, TaskTypes
  <2>3. \A t \in Tasks : pc'[t] # "idle" => now' - since'[t] <= MaxWait
    BY <2>1 DEF WaitInv, TaskTypes
  <2>4. \A t \in Cycles : /\ pc'[t] = "quoted" => TakenSince(t, since[t])'
                          /\ pc'[t] = "deciding" => TakenSince(t, since[t] - MaxWait)'
    BY <2>1 DEF WaitInv, TakenSince
  <2> QED
    BY <2>1, <2>2, <2>3, <2>4, TasksApart DEF WaitInv
<1>10. CASE UNCHANGED vars
  BY <1>10, OrderWaits DEF vars, tasks, loop
<1> QED
  BY <1>1, <1>2, <1>3, <1>4, <1>5, <1>6, <1>7, <1>8, <1>9, <1>10 DEF Next

\* ... which is true when nobody waits.
LEMMA WaitStart ==
  ASSUME Init
  PROVE  WaitInv
  BY TasksApart DEF Init, WaitInv, TaskTypes

\* While a handler runs, orders come from it alone.
LEMMA HandlerTrades ==
  ASSUME AccountInv, [Next]_vars, busy # Nobody, NEW s \in Symbols, qty'[s] # qty[s]
  PROVE  \/ /\ busy \in Cycles
            /\ \E side \in Sides, written \in 1..4 : \E pct : Trade(busy, s, side, pct, written)
         \/ /\ busy = Monitor
            /\ \E written \in 1..4 : StopExit(s, written)
<1>1. ASSUME NEW r \in Symbols, NEW side \in Sides, NEW n, NEW price, Execute(r, side, n, price),
             now' = now
      PROVE  r = s
  BY <1>1, Executed
<1>2. ASSUME NEW t \in Cycles, CycleStep(t)
      PROVE  /\ busy = t
             /\ \E side \in Sides, written \in 1..4 : \E pct : Trade(t, s, side, pct, written)
  <2>1. ~(Snapshot(t) \/ Run(t) \/ Blocked(t) \/ Resume(t) \/ Finish(t))
    BY DEF Snapshot, Run, Blocked, Resume, Finish, UpdatePrices, account
  <2>2. ASSUME NEW r \in Symbols, NEW side \in Sides, NEW pct, NEW written \in 1..4,
               Trade(t, r, side, pct, written)
        PROVE  busy = t /\ r = s
    BY <1>1, <2>2 DEF Trade
  <2>3. "BUY" \in Sides /\ "SELL" \in Sides
    BY DEF Sides
  <2>4. PICK r \in Symbols, written \in 1..4 :
           \/ \E pct \in TargetPcts : Trade(t, r, "BUY", pct, written)
           \/ \E pct \in SellPcts : Trade(t, r, "SELL", pct, written)
    BY <1>2, <2>1 DEF CycleStep
  <2>5. PICK side \in Sides : \E pct : Trade(t, r, side, pct, written)
    BY <2>3, <2>4
  <2> QED
    BY <2>2, <2>5
<1>3. ASSUME NEW r \in Symbols, NEW written \in 1..4, StopExit(r, written)
      PROVE  busy = Monitor /\ r = s
  <2>1. "SELL" \in Sides
    BY DEF Sides
  <2> QED
    BY <1>1, <1>3, <2>1 DEF StopExit
<1>4. /\ ~(MonitorNext \/ MonitorStarts \/ MonitorQuoted \/ RefreshQuoted \/ RefreshFails)
      /\ ~(\E m \in Markets : RefreshStarts(m)) /\ ~(\E m \in {"paper", "live"} : SetMode(m))
      /\ ~(\E on \in BOOLEAN : SetKillSwitch(on)) /\ ~Look /\ ~Tick /\ ~Crash
  BY DEF MonitorNext, MonitorStarts, MonitorQuoted, RefreshQuoted, RefreshFails,
     RefreshStarts, SetMode, SetKillSwitch, Look, Tick, Crash, account
<1>5. /\ \A r, side, n, k, written : ~ManualOrder(r, side, n, k, written)
      /\ \A ms, written : ~Reset(ms, written)
  BY DEF ManualOrder, Reset
<1>6. ~UNCHANGED vars
  BY DEF vars, account
<1> QED
  BY <1>2, <1>3, <1>4, <1>5, <1>6 DEF Next

\* No automatic order fills at a price older than the limit and two awaits: that of
\* the brokers and that of the LLM.
THEOREM RecentFills == Spec => AutoFillsAreRecent
<1>1. ASSUME AccountInv, WaitInv, [Next]_vars, busy # Nobody,
             NEW s \in Symbols, qty'[s] # qty[s]
      PROVE  now - (quotes[busy][s].at - quotes[busy][s].age) <= MaxDataAge + 2 * MaxWait
  <2> DEFINE q == quotes[busy][s]
  <2>1. CASE busy \in Cycles
    <3>1. PICK side \in Sides, written \in 1..4 : \E pct : Trade(busy, s, side, pct, written)
      BY <1>1, <2>1, HandlerTrades, TasksApart
    <3>0. PICK pct : Trade(busy, s, side, pct, written)
      BY <3>1
    <3>2. s \in todo /\ ~(q.age > MaxDataAge)
      <4> DEFINE n == IF side = "BUY"
                      THEN BuyQuantity(Market(s), Equity(Market(s)), Value(s), q.price, pct)
                      ELSE SellQuantity(Market(s), qty[s], pct)
      <4>1. s \in todo /\ Passes(Intent("auto", s, side, n, q.price, q.age, activity[s]), kill)
        BY <3>0 DEF Trade, KillNow
      <4> HIDE DEF q, n
      <4> QED
        BY <4>1, PassingIntent
    <3>3. q.at \in Int /\ q.age \in Nat /\ since[busy] - MaxWait <= q.at
      BY <1>1, <2>1, <3>2 DEF WaitInv, TakenSince
    <3>4. since[busy] \in Nat /\ now \in Nat /\ now - since[busy] <= MaxWait
      BY <1>1, <2>1, TasksApart DEF WaitInv, TaskTypes
    <3> QED
      BY <3>2, <3>3, <3>4
  <2>2. CASE busy = Monitor
    <3>1. PICK written \in 1..4 : StopExit(s, written)
      BY <1>1, <2>2, HandlerTrades, TasksApart
    <3>2. s \in todo /\ ~(q.age > MaxDataAge)
      <4> DEFINE intent == Intent("auto", s, "SELL", qty[s], q.price, q.age, NoActivity)
      <4>1. s \in todo /\ Evaluate(intent, kill).status = "ALLOW"
        BY <2>2, <3>1 DEF StopExit
      <4>2. Passes(intent, kill) /\ "SELL" \in Sides
        BY <4>1 DEF Passes, Sides
      <4> HIDE DEF q
      <4> QED
        BY <4>1, <4>2, PassingIntent
    <3>3. q.at \in Int /\ q.age \in Nat /\ since[Monitor] <= q.at
      BY <1>1, <2>2, <3>2 DEF WaitInv, TakenSince
    <3>4. since[Monitor] \in Nat /\ now \in Nat /\ now - since[Monitor] <= MaxWait
      BY <1>1, <2>2, TasksApart DEF WaitInv, TaskTypes
    <3> QED
      BY <3>2, <3>3, <3>4
  <2> QED
    BY <1>1, <2>1, <2>2 DEF WaitInv, TaskTypes
<1>2. Init => AccountInv /\ WaitInv
  BY AccountStart, WaitStart
<1>3. AccountInv /\ WaitInv /\ [Next]_vars => AccountInv' /\ WaitInv'
  BY AccountStep, WaitStep
<1>4. AccountInv /\ WaitInv /\ [Next]_vars =>
        [busy # Nobody =>
           \A s \in Symbols : qty'[s] # qty[s] =>
             now - (quotes[busy][s].at - quotes[busy][s].age) <= MaxDataAge + 2 * MaxWait]_vars
  BY <1>1
<1> QED
  BY <1>2, <1>3, <1>4, PTL DEF Spec, AutoFillsAreRecent

-----------------------------------------------------------------------------
(* Cooldowns *)

Events == {"any", "buy", "sell", "stop"}

\* What AutoTradeActivityService has recorded is what happened, as long as the
\* process does not die between an order and its record.
ActivityInv ==
    /\ crashes \in Nat /\ now \in Nat
    /\ activity \in [Symbols -> [Events -> Int]]
    /\ latest \in [Symbols -> [buy : Int, stop : Int]]
    /\ \A s \in Symbols : /\ latest[s].buy = activity[s]["buy"] /\ latest[s].buy <= now
                          /\ latest[s].stop = activity[s]["stop"] /\ latest[s].stop <= now

\* Without crashes no process dies.
LEMMA NobodyDies ==
  ASSUME MaxCrashes = 0, ActivityInv
  PROVE  ~Dies
  BY DEF Dies, ActivityInv

\* The two files of an order that has been recorded.
LEMMA Recorded ==
  ASSUME ActivityInv, NEW s \in Symbols, NEW e \in Events, NEW d \in Events,
         Record(s, <<e, d>>, 4)
  PROVE  /\ activity' \in [Symbols -> [Events -> Int]]
         /\ \A r \in Symbols \ {s} : activity'[r] = activity[r]
         /\ \A x \in Events : activity'[s][x] = IF x \in {e, d} THEN now ELSE activity[s][x]
<1> DEFINE new == [x \in Events |-> IF \E i \in 1..2 : <<e, d>>[i] = x THEN now ELSE activity[s][x]]
<1>1. DOMAIN activity[s] = Events /\ DOMAIN <<e, d>> = 1..2
  BY DEF ActivityInv
<1>2. \A i \in 1..2 : i + 2 <= 4
  OBVIOUS
<1>3. activity' = [activity EXCEPT ![s] = new]
  BY <1>1, <1>2 DEF Record
<1>4. \A x : (\E i \in 1..2 : <<e, d>>[i] = x) <=> x \in {e, d}
  OBVIOUS
<1>5. new \in [Events -> Int] /\ \A x \in Events : new[x] = IF x \in {e, d} THEN now ELSE activity[s][x]
  BY <1>4 DEF ActivityInv
<1> HIDE DEF new
<1> QED
  BY <1>3, <1>5 DEF ActivityInv

\* A step that records nothing.
LEMMA SilenceKeeps ==
  ASSUME ActivityInv, UNCHANGED <<activity, latest, crashes>>, now' \in {now, now + 1}
  PROVE  ActivityInv'
  BY DEF ActivityInv

\* An order of a cycle is recorded with its time before anybody else moves.
LEMMA TradeRecorded ==
  ASSUME ActivityInv, MaxCrashes = 0, NEW t \in Cycles, NEW s \in Symbols, NEW side \in Sides,
         NEW pct, NEW written \in 1..4, Trade(t, s, side, pct, written)
  PROVE  ActivityInv'
<1> DEFINE e == IF side = "BUY" THEN "buy" ELSE "sell"
<1>1. /\ written < 4 => Dies
      /\ ~(written < 4) => UNCHANGED crashes
      /\ Record(s, <<"any", e>>, written) /\ now' = now
      /\ latest' = IF side = "BUY" THEN [latest EXCEPT ![s].buy = now] ELSE latest
  BY DEF Trade
<1>2. written = 4 /\ UNCHANGED crashes
  BY <1>1, NobodyDies
<1>3. "any" \in Events /\ e \in Events
  BY DEF Events
<1> HIDE DEF e
<1>4. /\ activity' \in [Symbols -> [Events -> Int]]
      /\ \A r \in Symbols \ {s} : activity'[r] = activity[r]
      /\ \A x \in Events : activity'[s][x] = IF x \in {"any", e} THEN now ELSE activity[s][x]
  BY <1>1, <1>2, <1>3, Recorded
<1>5. "buy" \in Events /\ "stop" \in Events
  BY DEF Events
<1>6. /\ activity'[s]["stop"] = activity[s]["stop"]
      /\ activity'[s]["buy"] = IF side = "BUY" THEN now ELSE activity[s]["buy"]
  BY <1>4, <1>5 DEF e, Sides
<1>7. /\ latest' \in [Symbols -> [buy : Int, stop : Int]]
      /\ \A r \in Symbols \ {s} : latest'[r] = latest[r]
      /\ latest'[s].stop = latest[s].stop
      /\ latest'[s].buy = IF side = "BUY" THEN now ELSE latest[s].buy
  BY <1>1 DEF ActivityInv
<1> QED
  BY <1>1, <1>2, <1>4, <1>6, <1>7 DEF ActivityInv

\* So is a stop exit.
LEMMA StopExitRecorded ==
  ASSUME ActivityInv, MaxCrashes = 0, NEW s \in Symbols, NEW written \in 1..4,
         StopExit(s, written)
  PROVE  ActivityInv'
<1>1. /\ written < 4 => Dies
      /\ ~(written < 4) => UNCHANGED crashes
      /\ Record(s, <<"sell", "stop">>, written) /\ now' = now
      /\ latest' = [latest EXCEPT ![s].stop = now]
  BY DEF StopExit
<1>2. written = 4 /\ UNCHANGED crashes
  BY <1>1, NobodyDies
<1>3. "sell" \in Events /\ "stop" \in Events /\ "buy" \in Events
  BY DEF Events
<1>4. /\ activity' \in [Symbols -> [Events -> Int]]
      /\ \A r \in Symbols \ {s} : activity'[r] = activity[r]
      /\ \A x \in Events : activity'[s][x] = IF x \in {"sell", "stop"} THEN now ELSE activity[s][x]
  BY <1>1, <1>2, <1>3, Recorded
<1>5. activity'[s]["stop"] = now /\ activity'[s]["buy"] = activity[s]["buy"]
  BY <1>3, <1>4
<1>6. /\ latest' \in [Symbols -> [buy : Int, stop : Int]]
      /\ \A r \in Symbols \ {s} : latest'[r] = latest[r]
      /\ latest'[s].stop = now /\ latest'[s].buy = latest[s].buy
  BY <1>1 DEF ActivityInv
<1> QED
  BY <1>1, <1>2, <1>4, <1>5, <1>6 DEF ActivityInv

\* Without crashes every step keeps the activity true, ...
LEMMA ActivityStep ==
  ASSUME ActivityInv, MaxCrashes = 0, [Next]_vars
  PROVE  ActivityInv'
<1> DEFINE Silent == UNCHANGED <<activity, latest, crashes>> /\ now' \in {now, now + 1}
<1>1. ASSUME NEW t \in Cycles, CycleStep(t) PROVE ActivityInv'
  <2>1. CASE Snapshot(t) \/ Run(t) \/ Blocked(t) \/ Resume(t) \/ Finish(t)
    <3>1. Silent
      BY <2>1 DEF Snapshot, Run, Blocked, Resume, Finish, logs, history
    <3> QED
      BY <3>1, SilenceKeeps
  <2>2. ASSUME NEW s \in Symbols, NEW side \in Sides, NEW pct, NEW written \in 1..4,
               Trade(t, s, side, pct, written)
        PROVE  ActivityInv'
    BY <2>2, TradeRecorded
  <2>3. "BUY" \in Sides /\ "SELL" \in Sides
    BY DEF Sides
  <2> QED
    BY <1>1, <2>1, <2>2, <2>3 DEF CycleStep
<1>2. ASSUME NEW s \in Symbols, NEW written \in 1..4, StopExit(s, written) PROVE ActivityInv'
  BY <1>2, StopExitRecorded
<1>3. CASE \/ MonitorStarts \/ MonitorQuoted \/ MonitorNext \/ RefreshQuoted \/ RefreshFails
           \/ \E m \in Markets : RefreshStarts(m)
           \/ \E m \in {"paper", "live"} : SetMode(m)
           \/ \E on \in BOOLEAN : SetKillSwitch(on)
           \/ Look \/ Tick
  <2>1. Silent
    BY <1>3 DEF MonitorStarts, MonitorQuoted, MonitorNext, RefreshQuoted, RefreshFails,
       RefreshStarts, SetMode, SetKillSwitch, Look, Tick, logs, history
  <2> QED
    BY <2>1, SilenceKeeps
<1>4. ASSUME NEW s, NEW side, NEW n, NEW k, NEW written, ManualOrder(s, side, n, k, written)
      PROVE  ActivityInv'
  <2>1. Dies \/ Silent
    BY <1>4 DEF ManualOrder
  <2> QED
    BY <2>1, NobodyDies, SilenceKeeps
<1>5. ASSUME NEW ms, NEW written, Reset(ms, written) PROVE ActivityInv'
  <2>1. Dies \/ Silent
    BY <1>5 DEF Reset
  <2> QED
    BY <2>1, NobodyDies, SilenceKeeps
<1>6. ~Crash
  BY NobodyDies DEF Crash
<1>7. CASE UNCHANGED vars
  <2>1. Silent
    BY <1>7 DEF vars, logs, history
  <2> QED
    BY <2>1, SilenceKeeps
<1> QED
  BY <1>1, <1>2, <1>3, <1>4, <1>5, <1>6, <1>7 DEF Next

\* ... which it is at first.
LEMMA ActivityStart ==
  ASSUME Init
  PROVE  ActivityInv
  BY DEF Init, ActivityInv, Events, None

\* As long as the process does not die: no cycle buys a symbol again within the
\* cooldowns after the last automatic BUY of any cycle, or after a stop exit.
THEOREM Cooldowns ==
  ASSUME MaxCrashes = 0
  PROVE  Spec => CooldownsKept
<1>1. ASSUME AccountInv, ActivityInv, [Next]_vars, busy \in Cycles,
             NEW s \in Symbols, qty'[s] > qty[s]
      PROVE  CooledDown(latest[s])
  <2>1. PICK side \in Sides, written \in 1..4 : \E pct : Trade(busy, s, side, pct, written)
    <3>1. qty[s] \in Nat /\ busy # Nobody
      BY <1>1, TasksApart DEF AccountInv, AccountTypes
    <3>2. qty'[s] # qty[s]
      BY <1>1, <3>1
    <3> QED
      BY <1>1, <3>1, <3>2, HandlerTrades, TasksApart
  <2>2. PICK pct : Trade(busy, s, side, pct, written)
    BY <2>1
  <2> DEFINE q == quotes[busy][s]
             n == IF side = "BUY"
                  THEN BuyQuantity(Market(s), Equity(Market(s)), Value(s), q.price, pct)
                  ELSE SellQuantity(Market(s), qty[s], pct)
             intent == Intent("auto", s, side, n, q.price, q.age, activity[s])
             answer == Evaluate(intent, KillNow)
  <2>3. /\ Passes(intent, kill) /\ Execute(s, side, answer.quantity, q.price) /\ now' = now
    BY <2>2 DEF Trade, KillNow
  <2> HIDE DEF q, n, answer
  <2>4. side = "BUY"
    BY <1>1, <2>3, Executed DEF AccountInv, AccountTypes
  <2>5. ~CoolingDown(intent)
    BY <2>3, <2>4, PassingIntent
  <2>6. /\ intent.source = "auto"
        /\ intent.sinceBuy = Since(activity[s].buy) /\ intent.sinceStop = Since(activity[s].stop)
    BY DEF Intent
  <2>7. /\ latest[s].buy \in Int /\ latest[s].buy = activity[s].buy /\ latest[s].buy <= now
        /\ latest[s].stop \in Int /\ latest[s].stop = activity[s].stop /\ latest[s].stop <= now
        /\ now \in Nat
    BY <1>1 DEF ActivityInv
  <2> HIDE DEF intent
  <2>8. /\ ~Active(intent.sinceStop, StopCooldown)
        /\ intent.sinceBuy # None => ~Active(intent.sinceBuy, BuyCooldown)
    BY <2>5, <2>6 DEF CoolingDown
  <2>9. latest[s].stop = None \/ now - latest[s].stop >= StopCooldown
    BY <2>6, <2>7, <2>8 DEF Active, Since, None
  <2>10. latest[s].buy = None \/ now - latest[s].buy >= BuyCooldown
    BY <2>6, <2>7, <2>8 DEF Active, Since, None
  <2> QED
    BY <2>9, <2>10 DEF CooledDown
<1>2. Init => AccountInv /\ ActivityInv
  BY AccountStart, ActivityStart
<1>3. AccountInv /\ ActivityInv /\ [Next]_vars => AccountInv' /\ ActivityInv'
  BY AccountStep, ActivityStep
<1>4. AccountInv /\ ActivityInv /\ [Next]_vars =>
        [(busy \in Cycles) => \A s \in Symbols : qty'[s] > qty[s] => CooledDown(latest[s])]_vars
  BY <1>1
<1> QED
  BY <1>2, <1>3, <1>4, PTL DEF Spec, CooldownsKept
=============================================================================
