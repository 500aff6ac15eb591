----------------------------- MODULE RiskGuard -----------------------------
(***************************************************************************)
(* RiskGuard.evaluate, the deterministic rules that every order of the     *)
(* program passes.  An intent is a record; its quantity counts tradable    *)
(* units and its price is per unit.  Percentages of an account are         *)
(* compared exactly, by counting money in hundredths.                      *)
(***************************************************************************)
EXTENDS Integers

CONSTANTS
    MaxPositionPct, MaxDailyLossPct, MaxDailyOrders, MaxDataAge,
    MinCashReservePct, MaxPortfolioExposurePct, MaxOpenPositions,
    BuyCooldown, SellCooldown, StopCooldown, BuyKillSwitch

ASSUME PolicyOK ==
    /\ MaxPositionPct \in Nat /\ MaxDailyLossPct \in Nat
    /\ MaxDailyOrders \in Nat /\ MaxDataAge \in Nat
    /\ MinCashReservePct \in Nat /\ MaxPortfolioExposurePct \in Nat
    /\ MaxOpenPositions \in Nat
    /\ BuyCooldown \in Nat /\ SellCooldown \in Nat /\ StopCooldown \in Nat
    /\ BuyKillSwitch \in BOOLEAN

None == -1
Elapsed == Nat \cup {None}

\* RiskOrderIntent.  pnlPct is the daily result in percent, rounded up: a
\* comparison with a whole limit is not changed by that.
Intents ==
    [source : {"auto", "manual"}, market : {"stock", "crypto"},
     action : {"BUY", "SELL", "HOLD"},
     notional : Nat, quantity : Nat, price : Nat,
     equity : Nat \ {0}, cash : Nat, positionValue : Nat, positionQuantity : Nat,
     openPositions : Nat, pnlPct : Int, buys : Nat, dataAge : Nat,
     marketOpen : BOOLEAN, duplicate : BOOLEAN,
     sinceAny : Elapsed, sinceBuy : Elapsed, sinceSell : Elapsed, sinceStop : Elapsed,
     targetPct : Elapsed]

-----------------------------------------------------------------------------
\* Mutant: the age of the prices is not checked.
UnsafeAtAnyAge(q, kill) ==
    \/ kill \/ q.duplicate
    \/ q.market = "stock" /\ ~q.marketOpen
    \/ q.price <= 0 \/ q.notional <= 0 \/ q.quantity <= 0

\* Rules for BUY and SELL alike.
SystemUnsafe(q, kill) ==
    \/ kill \/ q.duplicate
    \/ q.dataAge > MaxDataAge
    \/ q.market = "stock" /\ ~q.marketOpen
    \/ q.price <= 0 \/ q.notional <= 0 \/ q.quantity <= 0

Active(elapsed, cooldown) == elapsed # None /\ elapsed < cooldown

\* _buy_cooldown_reason
CoolingDown(q) ==
    /\ q.source = "auto"
    /\ \/ Active(q.sinceStop, StopCooldown)
       \/ Active(q.sinceSell, SellCooldown)
       \/ Active(IF q.sinceBuy # None THEN q.sinceBuy ELSE q.sinceAny, BuyCooldown)

\* Rules for BUY only, whatever its size.
LockedOut(q) ==
    \/ BuyKillSwitch
    \/ q.pnlPct <= -MaxDailyLossPct
    \/ q.buys >= MaxDailyOrders
    \/ q.positionQuantity <= 0 /\ q.openPositions >= MaxOpenPositions
    \/ CoolingDown(q)

Smaller(a, b) == IF a <= b THEN a ELSE b

ExposurePct(q) ==
    IF q.source = "auto" /\ q.targetPct # None
    THEN Smaller(MaxPortfolioExposurePct, q.targetPct)
    ELSE MaxPortfolioExposurePct

Invested(q) == IF q.equity > q.cash THEN q.equity - q.cash ELSE 0

\* Mutant: the target exposure is not taken into account.
CapacityForOrder(q) ==
    Smaller(100 * q.notional,
    Smaller(q.equity * MaxPositionPct - 100 * q.positionValue,
            100 * q.cash - q.equity * MinCashReservePct))

\* safe_notional, in hundredths.
Capacity(q) ==
    Smaller(100 * q.notional,
    Smaller(q.equity * MaxPositionPct - 100 * q.positionValue,
    Smaller(100 * q.cash - q.equity * MinCashReservePct,
            q.equity * ExposurePct(q) - 100 * Invested(q))))

\* Mutant: a quantity that uses the capacity up does not fit.
UnitsBelow(hundredths, price) == (hundredths - 1) \div (100 * price)

\* _quantity_for_notional
Units(hundredths, price) == hundredths \div (100 * price)

Result(status, quantity) == [status |-> status, quantity |-> quantity]

\* Mutant: the lockouts come before the rule for SELL.
EvaluateLocksSells(q, kill) ==
    IF q.action = "HOLD" THEN Result("NO_ORDER", q.quantity)
    ELSE IF SystemUnsafe(q, kill) \/ LockedOut(q) THEN Result("BLOCK", q.quantity)
    ELSE IF q.action = "SELL"
         THEN Result(IF q.quantity > q.positionQuantity THEN "BLOCK" ELSE "ALLOW", q.quantity)
    ELSE IF Capacity(q) <= 0 THEN Result("BLOCK", q.quantity)
    ELSE LET n == Units(Capacity(q), q.price) IN
         IF n <= 0 THEN Result("BLOCK", q.quantity)
         ELSE IF n * q.price < q.notional THEN Result("REDUCE", n)
         ELSE Result("ALLOW", q.quantity)

\* evaluate()
Evaluate(q, kill) ==
    IF q.action = "HOLD" THEN Result("NO_ORDER", q.quantity)
    ELSE IF SystemUnsafe(q, kill) THEN Result("BLOCK", q.quantity)
    ELSE IF q.action = "SELL"
         THEN Result(IF q.quantity > q.positionQuantity THEN "BLOCK" ELSE "ALLOW", q.quantity)
    ELSE IF LockedOut(q) \/ Capacity(q) <= 0 THEN Result("BLOCK", q.quantity)
    ELSE LET n == Units(Capacity(q), q.price) IN
         IF n <= 0 THEN Result("BLOCK", q.quantity)
         ELSE IF n * q.price < q.notional THEN Result("REDUCE", n)
         ELSE Result("ALLOW", q.quantity)

Passes(q, kill) == Evaluate(q, kill).status \in {"ALLOW", "REDUCE"}

-----------------------------------------------------------------------------
\* An order for n units keeps all limits, at the price of the intent.
WithinLimits(q, n) ==
    LET cost == 100 * (n * q.price) IN
    /\ 100 * q.positionValue + cost <= q.equity * MaxPositionPct
    /\ 100 * q.cash - cost >= q.equity * MinCashReservePct
    /\ 100 * Invested(q) + cost <= q.equity * ExposurePct(q)

\* A BUY that passes, whole or reduced, stays within every limit and is never
\* larger than the order that was asked for (ARCHITECTURE.md 864).
BuyIsSafe(q, kill) ==
    q.action = "BUY" /\ Passes(q, kill) =>
        LET n == Evaluate(q, kill).quantity IN
        /\ WithinLimits(q, n)
        /\ n \in 1..q.quantity

\* Risk Guard gives away no capacity: what it grants is the largest quantity
\* up to the one asked for that keeps the limits, and it blocks a BUY only when
\* it must.
BuyIsLargest(q, kill) ==
    q.action = "BUY" /\ ~SystemUnsafe(q, kill) /\ ~LockedOut(q) =>
        LET fits == {n \in 1..q.quantity : WithinLimits(q, n)} IN
        IF fits = {} THEN ~Passes(q, kill)
        ELSE Passes(q, kill) /\ \A n \in fits : n <= Evaluate(q, kill).quantity

\* Exits stay available: no lockout, limit or cooldown stops an order that
\* reduces a holding (ARCHITECTURE.md 1275).
SellIsAvailable(q, kill) ==
    q.action = "SELL" /\ ~SystemUnsafe(q, kill) /\ q.quantity <= q.positionQuantity =>
        Evaluate(q, kill) = Result("ALLOW", q.quantity)
=============================================================================
