---------------------------- MODULE RulesProofs ----------------------------
(***************************************************************************)
(* What holds of every decision and every order of the rules run: for all  *)
(* evidence, accounts and intents, every decay of evidence and all settings *)
(* that the theorems name.                                                 *)
(***************************************************************************)
EXTENDS MCRiskGuard, TLAPS

-----------------------------------------------------------------------------
(* What Risk Guard guarantees of an order, for every policy and intent. *)

USE PolicyOK

\* An intent as the services build it: the notional is that of the quantity.
Consistent(o) == o.notional = o.quantity * o.price

\* Multiples of a positive price are ordered like their factors.
LEMMA Cancel ==
  ASSUME NEW m \in Int, NEW n \in Int, NEW p \in Nat \ {0}
  PROVE  /\ m * p < n * p => m < n
         /\ m <= n => m * p <= n * p
  BY SMT

\* _quantity_for_notional never costs more than the capacity, and one unit more
\* would.
LEMMA UnitsFit ==
  ASSUME NEW h \in Int, NEW p \in Nat \ {0}
  PROVE  /\ Units(h, p) \in Int
         /\ 100 * (Units(h, p) * p) <= h
         /\ h < 100 * ((Units(h, p) + 1) * p)
<1>1. 100 * p \in Nat \ {0}
  OBVIOUS
<1>2. PICK u \in Int : u = h \div (100 * p)
  BY <1>1
<1>3. (100 * p) * u <= h /\ h < (100 * p) * (u + 1)
  BY <1>1, <1>2
<1>4. (100 * p) * u = 100 * (u * p) /\ (100 * p) * (u + 1) = 100 * ((u + 1) * p)
  OBVIOUS
<1> QED
  BY <1>2, <1>3, <1>4 DEF Units

\* An order that costs no more than the capacity stays within the limits.
LEMMA CapacityFits ==
  ASSUME NEW o \in Intents, NEW n \in Nat, 100 * (n * o.price) <= Capacity(o)
  PROVE  WithinLimits(o, n)
<1>1. /\ o.price \in Nat /\ o.equity \in Nat /\ o.cash \in Nat
      /\ o.positionValue \in Nat /\ o.notional \in Nat /\ o.targetPct \in Int
  BY DEF Intents, Elapsed, None
<1>2. ExposurePct(o) \in Int /\ Invested(o) \in Int
  BY <1>1 DEF ExposurePct, Invested, Smaller
<1> DEFINE a == 100 * o.notional
           b == o.equity * MaxPositionPct - 100 * o.positionValue
           c == 100 * o.cash - o.equity * MinCashReservePct
           d == o.equity * ExposurePct(o) - 100 * Invested(o)
<1>3. a \in Int /\ b \in Int /\ c \in Int /\ d \in Int
  BY <1>1, <1>2
<1>4. Capacity(o) \in Int /\ Capacity(o) <= b /\ Capacity(o) <= c /\ Capacity(o) <= d
  <2>1. Capacity(o) = Smaller(a, Smaller(b, Smaller(c, d)))
    BY DEF Capacity
  <2> HIDE DEF a, b, c, d
  <2> QED
    BY <2>1, <1>3 DEF Smaller
<1>5. n * o.price \in Int
  BY <1>1
<1> QED
  BY <1>1, <1>2, <1>3, <1>4, <1>5 DEF WithinLimits

\* Conversely, an order within the limits and within what was asked for costs
\* no more than the capacity.
LEMMA FitsCapacity ==
  ASSUME NEW o \in Intents, NEW n \in Nat, WithinLimits(o, n), n * o.price <= o.notional
  PROVE  100 * (n * o.price) <= Capacity(o)
<1>1. /\ o.price \in Nat /\ o.equity \in Nat /\ o.cash \in Nat
      /\ o.positionValue \in Nat /\ o.notional \in Nat /\ o.targetPct \in Int
  BY DEF Intents, Elapsed, None
<1>2. ExposurePct(o) \in Int /\ Invested(o) \in Int
  BY <1>1 DEF ExposurePct, Invested, Smaller
<1> DEFINE a == 100 * o.notional
           b == o.equity * MaxPositionPct - 100 * o.positionValue
           c == 100 * o.cash - o.equity * MinCashReservePct
           d == o.equity * ExposurePct(o) - 100 * Invested(o)
           cost == 100 * (n * o.price)
<1>3. a \in Int /\ b \in Int /\ c \in Int /\ d \in Int /\ cost \in Int
  BY <1>1, <1>2
<1>4. cost <= a /\ cost <= b /\ cost <= c /\ cost <= d
  BY <1>1, <1>2, <1>3 DEF WithinLimits
<1>5. Capacity(o) = Smaller(a, Smaller(b, Smaller(c, d)))
  BY DEF Capacity
<1> HIDE DEF a, b, c, d, cost
<1>6. cost <= Capacity(o)
  BY <1>3, <1>4, <1>5 DEF Smaller
<1> QED
  BY <1>6 DEF cost

\* What a BUY that reaches the sizing rules gets: the units that fit.
LEMMA Granted ==
  ASSUME NEW o \in Intents, NEW on \in BOOLEAN, Consistent(o),
         o.action = "BUY", ~SystemUnsafe(o, on), ~LockedOut(o)
  PROVE  LET n == Units(Capacity(o), o.price) IN
         /\ n \in Int /\ n <= o.quantity
         /\ 100 * (n * o.price) <= Capacity(o)
         /\ Capacity(o) < 100 * ((n + 1) * o.price)
         /\ Passes(o, on) <=> n >= 1
         /\ n >= 1 => Evaluate(o, on).quantity = n
<1> DEFINE n == Units(Capacity(o), o.price)
<1>1. o.price \in Nat \ {0} /\ o.quantity \in Nat \ {0} /\ o.notional \in Nat
  BY DEF SystemUnsafe, Intents
<1>2. Capacity(o) \in Int /\ Capacity(o) <= 100 * o.notional
  <2>1. /\ o.equity \in Nat /\ o.cash \in Nat /\ o.positionValue \in Nat
        /\ ExposurePct(o) \in Int /\ Invested(o) \in Int
    BY DEF Intents, Elapsed, None, ExposurePct, Invested, Smaller
  <2> DEFINE a == 100 * o.notional
             b == o.equity * MaxPositionPct - 100 * o.positionValue
             c == 100 * o.cash - o.equity * MinCashReservePct
             d == o.equity * ExposurePct(o) - 100 * Invested(o)
  <2>2. a \in Int /\ b \in Int /\ c \in Int /\ d \in Int
    BY <1>1, <2>1
  <2>3. Capacity(o) = Smaller(a, Smaller(b, Smaller(c, d)))
    BY DEF Capacity
  <2> HIDE DEF b, c, d
  <2>4. Capacity(o) \in Int /\ Capacity(o) <= a
    BY <2>2, <2>3 DEF Smaller
  <2> QED
    BY <2>4
<1>3. /\ n \in Int
      /\ 100 * (n * o.price) <= Capacity(o)
      /\ Capacity(o) < 100 * ((n + 1) * o.price)
  BY <1>1, <1>2, UnitsFit
<1> HIDE DEF n
<1>4. n * o.price <= o.notional
  <2>1. n * o.price \in Int
    BY <1>1, <1>3
  <2> QED
    BY <1>1, <1>2, <1>3, <2>1
<1>5. n <= o.quantity
  <2>1. ~(o.quantity * o.price < n * o.price)
    <3>1. n * o.price \in Int /\ o.quantity * o.price \in Int
      BY <1>1, <1>3
    <3> QED
      BY <1>4, <3>1 DEF Consistent
  <2>2. CASE o.quantity < n
    <3>1. o.quantity + 1 <= n
      BY <1>1, <1>3, <2>2
    <3>2. (o.quantity + 1) * o.price <= n * o.price
      BY <1>1, <1>3, <3>1, Cancel
    <3>3. (o.quantity + 1) * o.price = o.quantity * o.price + o.price
      BY <1>1
    <3>4. n * o.price \in Int /\ o.quantity * o.price \in Int
      BY <1>1, <1>3
    <3> QED
      BY <1>1, <2>1, <3>2, <3>3, <3>4
  <2> QED
    BY <1>1, <1>3, <2>2
<1>6. n >= 1 => Capacity(o) > 0
  <2>1. SUFFICES ASSUME n >= 1 PROVE Capacity(o) > 0
    OBVIOUS
  <2>2. 1 * o.price <= n * o.price
    BY <1>1, <1>3, <2>1, Cancel
  <2>3. n * o.price \in Int
    BY <1>1, <1>3
  <2> QED
    BY <1>1, <1>2, <1>3, <2>2, <2>3
<1>7. n * o.price >= o.notional => n = o.quantity
  <2>1. SUFFICES ASSUME n * o.price >= o.notional, n < o.quantity PROVE FALSE
    BY <1>1, <1>3, <1>5
  <2>2. n * o.price \in Int /\ o.quantity * o.price \in Int
    BY <1>1, <1>3
  <2>3. (n + 1) * o.price <= o.quantity * o.price
    BY <1>1, <1>3, <2>1, Cancel
  <2>4. (n + 1) * o.price = n * o.price + o.price
    BY <1>1, <1>3
  <2> QED
    BY <1>1, <2>1, <2>2, <2>3, <2>4 DEF Consistent
<1>8. Evaluate(o, on) =
        IF Capacity(o) <= 0 \/ n <= 0 THEN Result("BLOCK", o.quantity)
        ELSE IF n * o.price < o.notional THEN Result("REDUCE", n)
        ELSE Result("ALLOW", o.quantity)
  BY DEF Evaluate, n
<1>9. Passes(o, on) <=> n >= 1
  BY <1>2, <1>3, <1>6, <1>8 DEF Passes, Result
<1>10. n >= 1 => Evaluate(o, on).quantity = n
  <2>1. n * o.price \in Int
    BY <1>1, <1>3
  <2> QED
    BY <1>1, <1>2, <1>3, <1>6, <1>7, <1>8, <2>1 DEF Result
<1> QED
  BY <1>3, <1>5, <1>9, <1>10 DEF n

\* A BUY that Risk Guard lets pass, whole or reduced, stays within the position
\* limit, the cash reserve and the exposure limit, and is never enlarged.
THEOREM SafeBuys ==
  ASSUME NEW o \in Intents, NEW on \in BOOLEAN, Consistent(o)
  PROVE  BuyIsSafe(o, on)
<1> SUFFICES ASSUME o.action = "BUY", Passes(o, on)
             PROVE  /\ WithinLimits(o, Evaluate(o, on).quantity)
                    /\ Evaluate(o, on).quantity \in 1..o.quantity
  BY DEF BuyIsSafe
<1>1. ~SystemUnsafe(o, on) /\ ~LockedOut(o)
  BY DEF Passes, Evaluate, Result
<1>2. PICK n \in Int : n = Units(Capacity(o), o.price)
  BY <1>1, Granted
<1>3. /\ n >= 1 /\ n <= o.quantity
      /\ 100 * (n * o.price) <= Capacity(o)
      /\ Evaluate(o, on).quantity = n
  BY <1>1, <1>2, Granted
<1>4. n \in Nat /\ n \in 1..o.quantity
  BY <1>3 DEF Intents
<1> QED
  BY <1>3, <1>4, CapacityFits

\* Risk Guard grants the largest quantity that keeps the limits, and blocks a
\* BUY for its size only when not even one unit does.
THEOREM LargestBuys ==
  ASSUME NEW o \in Intents, NEW on \in BOOLEAN, Consistent(o)
  PROVE  BuyIsLargest(o, on)
<1> SUFFICES ASSUME o.action = "BUY", ~SystemUnsafe(o, on), ~LockedOut(o)
             PROVE  LET fits == {m \in 1..o.quantity : WithinLimits(o, m)} IN
                    IF fits = {} THEN ~Passes(o, on)
                    ELSE Passes(o, on) /\ \A m \in fits : m <= Evaluate(o, on).quantity
  BY DEF BuyIsLargest
<1>1. PICK n \in Int : n = Units(Capacity(o), o.price)
  BY Granted
<1>2. /\ n <= o.quantity
      /\ Capacity(o) < 100 * ((n + 1) * o.price)
      /\ Passes(o, on) <=> n >= 1
      /\ n >= 1 => Evaluate(o, on).quantity = n
      /\ 100 * (n * o.price) <= Capacity(o)
  BY <1>1, Granted
<1>3. o.price \in Nat \ {0} /\ o.quantity \in Nat
  BY DEF SystemUnsafe, Intents
<1>4. \A m \in 1..o.quantity : WithinLimits(o, m) => m <= n
  <2> SUFFICES ASSUME NEW m \in 1..o.quantity, WithinLimits(o, m) PROVE m <= n
    OBVIOUS
  <2>1. m \in Nat /\ m <= o.quantity
    BY <1>3
  <2>2. m * o.price <= o.notional
    BY <1>3, <2>1, Cancel DEF Consistent
  <2>3. 100 * (m * o.price) <= Capacity(o)
    BY <2>1, <2>2, FitsCapacity
  <2>4. m * o.price < (n + 1) * o.price
    <3>1. m * o.price \in Int /\ (n + 1) * o.price \in Int
      BY <1>3, <2>1
    <3>2. Capacity(o) \in Int
      BY DEF Capacity, Smaller, ExposurePct, Invested, Intents, Elapsed, None
    <3> QED
      BY <1>2, <2>3, <3>1, <3>2
  <2>5. m < n + 1
    BY <1>3, <2>1, <2>4, Cancel
  <2> QED
    BY <2>1, <2>5
<1>5. n >= 1 => n \in 1..o.quantity /\ WithinLimits(o, n)
  <2> SUFFICES ASSUME n >= 1 PROVE n \in 1..o.quantity /\ WithinLimits(o, n)
    OBVIOUS
  <2>1. n \in Nat /\ n \in 1..o.quantity
    BY <1>2, <1>3
  <2> QED
    BY <1>2, <2>1, CapacityFits
<1>6. CASE n >= 1
  BY <1>2, <1>4, <1>5, <1>6
<1>7. CASE ~(n >= 1)
  BY <1>2, <1>3, <1>4, <1>7
<1> QED
  BY <1>6, <1>7

\* An order that reduces a holding passes whatever the lockouts, limits and
\* cooldowns.
THEOREM AvailableSells ==
  ASSUME NEW o \in Intents, NEW on \in BOOLEAN
  PROVE  SellIsAvailable(o, on)
<1> SUFFICES ASSUME o.action = "SELL", ~SystemUnsafe(o, on),
                    o.quantity <= o.positionQuantity
             PROVE  Evaluate(o, on) = Result("ALLOW", o.quantity)
  BY DEF SellIsAvailable
<1>1. ~(o.quantity > o.positionQuantity)
  BY DEF Intents
<1> QED
  BY <1>1 DEF Evaluate

HIDE PolicyOK
USE ScoresOK

-----------------------------------------------------------------------------
(* Rounding. *)

\* A clamped number is within its bounds, and unchanged if it was.
LEMMA Clamped ==
  ASSUME NEW n \in Int, NEW low \in Int, NEW high \in Int, low <= high
  PROVE  /\ Clamp(n, low, high) \in Int
         /\ Clamp(n, low, high) \in low..high
         /\ n <= high => n <= Clamp(n, low, high)
         /\ n >= low  => n >= Clamp(n, low, high)
         /\ n \in low..high => Clamp(n, low, high) = n
  BY DEF Clamp

\* Rounding moves a quotient by at most half of the unit.
LEMMA NearestIsNear ==
  ASSUME NEW n \in Int, NEW d \in Nat \ {0}, NEW k \in Nearest(n, d)
  PROVE  k \in Int /\ 2 * (k * d) - d <= 2 * n /\ 2 * n <= 2 * (k * d) + d
<1>1. n \div d \in Int
  OBVIOUS
<1> QED
  BY <1>1 DEF Nearest

\* Evidence of unknown age, or without confidence, has no strength.
LEMMA StrengthIsPart ==
  ASSUME NEW g \in Groups
  PROVE  /\ Strength(g) \in Nat
         /\ g.confidence = 0 \/ g.age = Unknown => Strength(g) = 0
<1>1. g.confidence \in Nat /\ g.age \in Ages \cup {Unknown}
  BY DEF Groups, Scores
<1>2. CASE g.age = Unknown \/ g.confidence = 0
  BY <1>2 DEF Strength
<1>3. CASE ~(g.age = Unknown \/ g.confidence = 0)
  <2>1. Fresh[g.age] \in Nat /\ Strength(g) = g.confidence * Fresh[g.age]
    BY <1>1, <1>3 DEF Strength
  <2> QED
    BY <1>1, <1>3, <2>1
<1> QED
  BY <1>2, <1>3

\* Evidence pulled to 50 still has a score.
LEMMA AdjustedIsScore ==
  ASSUME NEW g \in Groups
  PROVE  Adjusted(g) \subseteq Scores
<1>1. Strength(g) \in Nat /\ g.raw \in Int /\ Full \in Nat \ {0}
  BY StrengthIsPart DEF Groups, Full
<1> DEFINE n == 5000 * Full + (g.raw - 5000) * Strength(g)
<1>2. n \in Int
  <2>1. \A a \in Int, b \in Nat : a * b \in Int
    OBVIOUS
  <2> QED
    BY <1>1, <2>1
<1>3. 100 * Full \in Nat \ {0}
  BY <1>1
<1> HIDE DEF n
<1>4. \A k \in Nearest(n, 100 * Full) : Clamp(k, 0, 100) \in 0..100
  <2> SUFFICES ASSUME NEW k \in Nearest(n, 100 * Full) PROVE Clamp(k, 0, 100) \in 0..100
    OBVIOUS
  <2>1. k \in Int
    BY <1>2, <1>3, NearestIsNear
  <2> QED
    BY <2>1 DEF Clamp
<1> QED
  BY <1>4 DEF Adjusted, Scores, n

-----------------------------------------------------------------------------
(* Thresholds. *)

Regimes3 == {"BULL", "NEUTRAL", "BEAR"}
Nudges == {-2, 0, 3}

\* Where the thresholds of BUY and SELL can lie.
LEMMA Thresholds ==
  ASSUME NEW regime, NEW nudge \in Nudges
  PROVE  /\ Lean(regime) \in Int /\ Lean(regime) >= -Shift /\ Lean(regime) <= Shift
         /\ BuyThreshold(regime, nudge) \in 50..80
         /\ SellThreshold(regime, nudge) \in 20..50
         /\ 65 + Lean(regime) + nudge <= 80 => 65 + Lean(regime) + nudge <= BuyThreshold(regime, nudge)
         /\ 35 + Lean(regime) + nudge >= 20 => 35 + Lean(regime) + nudge >= SellThreshold(regime, nudge)
<1>1. Lean(regime) \in Int /\ Lean(regime) >= -Shift /\ Lean(regime) <= Shift
  BY DEF Lean
<1>2. 65 + Lean(regime) + nudge \in Int /\ 35 + Lean(regime) + nudge \in Int
  BY <1>1 DEF Nudges
<1> DEFINE b == 65 + Lean(regime) + nudge
           c == 35 + Lean(regime) + nudge
<1>3. /\ BuyThreshold(regime, nudge) = Clamp(b, 50, 80)
      /\ SellThreshold(regime, nudge) = Clamp(c, 20, 50)
  BY DEF BuyThreshold, SellThreshold
<1> HIDE DEF b, c
<1>4. /\ Clamp(b, 50, 80) \in 50..80 /\ (b <= 80 => b <= Clamp(b, 50, 80))
      /\ Clamp(c, 20, 50) \in 20..50 /\ (c >= 20 => c >= Clamp(c, 20, 50))
  <2>1. b \in Int /\ c \in Int
    BY <1>2 DEF b, c
  <2> QED
    BY <2>1 DEF Clamp
<1> QED
  BY <1>1, <1>3, <1>4 DEF b, c

\* The exposure moves a threshold by -2, 0 or 3, and only with a gap of 10 %.
LEMMA NudgeIsSmall ==
  ASSUME NEW target, NEW a
  PROVE  /\ Nudge(target, a) \in Nudges
         /\ Nudge(target, a) = -2 => a.equity > 0 /\ Gap(target, a) >= 10 * a.equity
         /\ Nudge(target, a) = 3  => a.equity > 0 /\ Gap(target, a) <= -10 * a.equity
  BY DEF Nudge, Nudges

\* The parts of a decision.
LEMMA Parted ==
  ASSUME NEW e \in Evidence, NEW a \in Accounts, NEW d \in Decided(e, a)
  PROVE  /\ d.score \in FinalScore(e) /\ d.regime \in Regimes3
         /\ d.target = Target(d.regime)
         /\ \E nudge \in Nudges :
               /\ nudge = Nudge(d.target, a)
               /\ d.action = Action(d.score, d.regime, nudge)
<1>1. PICK r \in FinalScore(e) \X RegimeScore(e) :
        d = [score |-> r[1], regime |-> Regime(r[2]), target |-> Target(Regime(r[2])),
             action |-> Action(r[1], Regime(r[2]), Nudge(Target(Regime(r[2])), a))]
  BY DEF Decided
<1>2. Regime(r[2]) \in Regimes3
  BY DEF Regime, Regimes3
<1> QED
  BY <1>1, <1>2, NudgeIsSmall

-----------------------------------------------------------------------------
(* Coins. *)

\* No news, regime, exposure or setting makes a SELL of a coin with a technical
\* BUY, or a BUY of one with a technical SELL.
THEOREM CoinDirection ==
  ASSUME NEW e \in Evidence, NEW a \in Accounts, NEW d \in Decided(e, a)
  PROVE  DirectionKept(e, d)
<1> SUFFICES ASSUME e.kind = "crypto"
             PROVE  /\ e.technical >= 65 => d.action # "SELL"
                    /\ e.technical <= 35 => d.action # "BUY"
  BY DEF DirectionKept
<1>1. PICK nudge \in Nudges : d.action = Action(d.score, d.regime, nudge)
  BY Parted
<1>2. d.score \in {Clamp(s, 0, 100) : s \in CryptoScore(e)}
  BY Parted DEF FinalScore
<1>3. PICK n \in Adjusted(e.news) : \E s \in Nearest(80 * e.technical + 20 * n, 100) :
        d.score = Clamp(s, 0, 100)
  BY <1>2 DEF CryptoScore
<1>4. PICK s \in Nearest(80 * e.technical + 20 * n, 100) : d.score = Clamp(s, 0, 100)
  BY <1>3
<1>5. n \in 0..100 /\ e.technical \in 0..100
  BY AdjustedIsScore DEF Evidence, Scores
<1>6. s \in Int /\ 200 * s - 100 <= 160 * e.technical + 40 * n
      /\ 160 * e.technical + 40 * n <= 200 * s + 100
  <2> DEFINE m == 80 * e.technical + 20 * n
  <2>1. m \in Int /\ s \in Nearest(m, 100)
    BY <1>5
  <2>2. 2 * m = 160 * e.technical + 40 * n
    BY <1>5
  <2> HIDE DEF m
  <2>3. s \in Int /\ 2 * (s * 100) - 100 <= 2 * m /\ 2 * m <= 2 * (s * 100) + 100
    BY <2>1, NearestIsNear
  <2>4. 2 * (s * 100) = 200 * s
    BY <2>3
  <2> QED
    BY <2>1, <2>2, <2>3, <2>4
<1>7. /\ e.technical >= 65 => d.score \in Int /\ d.score >= 52
      /\ e.technical <= 35 => d.score \in Int /\ d.score <= 48
  BY <1>4, <1>5, <1>6 DEF Clamp
<1>8. BuyThreshold(d.regime, nudge) \in 50..80 /\ SellThreshold(d.regime, nudge) \in 20..50
  BY Thresholds
<1> QED
  BY <1>1, <1>7, <1>8 DEF Action

-----------------------------------------------------------------------------
(* Regimes and exposures. *)

\* Settings that lean by no more than 12 points.
THEOREM NoSwings ==
  ASSUME Shift <= 12, NEW e \in Evidence, NEW a \in Accounts, NEW d \in Decided(e, a),
         d.score \in Int
  PROVE  SwingsNeedScores(d)
<1>1. PICK nudge \in Nudges : d.action = Action(d.score, d.regime, nudge)
  BY Parted
<1>2. ASSUME NEW r, NEW u \in Nudges, NEW t, NEW v \in Nudges
      PROVE  BuyThreshold(r, u) > SellThreshold(t, v)
  <2>1. /\ BuyThreshold(r, u) \in 50..80 /\ SellThreshold(t, v) \in 20..50
        /\ Lean(r) \in -12..12 /\ Lean(t) \in -12..12
        /\ 65 + Lean(r) + u <= BuyThreshold(r, u)
        /\ 35 + Lean(t) + v >= SellThreshold(t, v)
    BY Thresholds DEF Nudges
  <2> QED
    BY <2>1 DEF Nudges
<1>3. ASSUME NEW r \in Regimes3, NEW u \in Nudges
      PROVE  /\ d.action = "BUY"  => Action(d.score, r, u) # "SELL"
             /\ d.action = "SELL" => Action(d.score, r, u) # "BUY"
  <2>1. /\ BuyThreshold(r, u) > SellThreshold(d.regime, nudge)
        /\ BuyThreshold(d.regime, nudge) > SellThreshold(r, u)
        /\ BuyThreshold(r, u) \in Int /\ SellThreshold(r, u) \in Int
        /\ BuyThreshold(d.regime, nudge) \in Int /\ SellThreshold(d.regime, nudge) \in Int
    BY <1>2, Thresholds
  <2> QED
    BY <1>1, <2>1 DEF Action
<1> QED
  BY <1>3 DEF SwingsNeedScores, Regimes3, Nudges

\* The settings of the Position Sizer are no further apart than the thresholds.
THEOREM OrdersFollow ==
  ASSUME Shift + BuyMinScore <= 65, BuyMinScore <= 63,
         SellMaxScore >= 38, SellMaxScore >= 35 + Shift,
         NEW e \in Evidence, NEW a \in Accounts, NEW d \in Decided(e, a), d.score \in Int
  PROVE  DecisionsAreOrdered(d, a)
<1>1. PICK nudge \in Nudges :
        nudge = Nudge(d.target, a) /\ d.action = Action(d.score, d.regime, nudge)
  BY Parted
<1>2. d.regime \in Regimes3
  BY Parted
<1> DEFINE b == BuyThreshold(d.regime, nudge)
           c == SellThreshold(d.regime, nudge)
           l == Lean(d.regime)
<1>3. /\ b \in Int /\ c \in Int /\ l \in Int
      /\ b >= 65 + l + nudge \/ b >= 80
      /\ c <= 35 + l + nudge \/ c <= 20
  <2>1. /\ l \in Int /\ b \in 50..80 /\ c \in 20..50
        /\ 65 + l + nudge <= 80 => 65 + l + nudge <= b
        /\ 35 + l + nudge >= 20 => 35 + l + nudge >= c
    BY Thresholds
  <2>2. b = Clamp(65 + l + nudge, 50, 80) /\ c = Clamp(35 + l + nudge, 20, 50)
    BY DEF BuyThreshold, SellThreshold
  <2> HIDE DEF b, c, l
  <2> QED
    BY <2>1, <2>2 DEF Clamp, Nudges
<1>4. l = IF d.regime = "BULL" THEN -Shift ELSE IF d.regime = "BEAR" THEN Shift ELSE 0
  BY <1>2 DEF Lean, Regimes3
<1>5. /\ d.action = "BUY"  => d.score >= b
      /\ d.action = "SELL" => d.score <= c
  BY <1>1 DEF Action
<1> HIDE DEF b, c, l
<1>6. d.action = "BUY" /\ ~Ordered(d) => d.regime = "BULL" /\ nudge = -2
  <2> SUFFICES ASSUME d.action = "BUY", ~Ordered(d) PROVE d.regime = "BULL" /\ nudge = -2
    OBVIOUS
  <2>1. d.score < BuyMinScore /\ d.score >= b
    BY <1>5 DEF Ordered
  <2> QED
    BY <1>2, <1>3, <1>4, <2>1 DEF Regimes3, Nudges
<1>7. d.action = "SELL" /\ ~Ordered(d) => d.regime = "BEAR" /\ nudge = 3
  <2> SUFFICES ASSUME d.action = "SELL", ~Ordered(d) PROVE d.regime = "BEAR" /\ nudge = 3
    OBVIOUS
  <2>1. d.score > SellMaxScore /\ d.score <= c
    BY <1>5 DEF Ordered
  <2> QED
    BY <1>2, <1>3, <1>4, <2>1 DEF Regimes3, Nudges
<1> QED
  BY <1>1, <1>6, <1>7, NudgeIsSmall DEF DecisionsAreOrdered

-----------------------------------------------------------------------------
(* Stocks. *)

\* A weight keeps the order of what it weighs.
LEMMA Heavier ==
  ASSUME NEW w \in Nat, NEW x \in Int, NEW y \in Int, x <= y
  PROVE  w * x <= w * y /\ w * x \in Int /\ w * y \in Int /\ (w > 0 /\ x < y => w * x < w * y)
<1>1. PICK k \in Nat : y = x + k
  <2>1. y - x \in Nat /\ y = x + (y - x)
    OBVIOUS
  <2> QED
    BY <2>1
<1>2. w * y = w * x + w * k /\ w * k \in Nat /\ w * x \in Int
  BY <1>1
<1>3. w > 0 /\ k > 0 => w * k > 0
  OBVIOUS
<1> QED
  BY <1>1, <1>2, <1>3

\* A weighted sum of numbers, those with a weight all above y, is above y times
\* the weights.
LEMMA MeanAbove ==
  ASSUME NEW u \in Nat \ {0}, NEW v \in Nat, NEW w \in Nat, NEW x \in Nat,
         NEW a \in Int, NEW b \in Int, NEW c \in Int, NEW d \in Int, NEW y \in Int,
         a > y, v > 0 => b > y, w > 0 => c > y, x > 0 => d > y
  PROVE  u * a + v * b + w * c + x * d > (u + v + w + x) * y
<1>1. u * a > u * y /\ u * a \in Int /\ u * y \in Int
  BY Heavier
<1>2. ASSUME NEW m \in Nat, NEW n \in Int, m > 0 => n > y
      PROVE  m * n >= m * y /\ m * n \in Int /\ m * y \in Int
  <2>1. CASE m = 0
    BY <2>1
  <2>2. CASE m > 0
    BY <1>2, <2>2, Heavier
  <2> QED
    BY <2>1, <2>2
<1>3. v * b >= v * y /\ v * b \in Int /\ v * y \in Int
  BY <1>2
<1>4. w * c >= w * y /\ w * c \in Int /\ w * y \in Int
  BY <1>2
<1>5. x * d >= x * y /\ x * d \in Int /\ x * y \in Int
  BY <1>2
<1>6. (u + v + w + x) * y = u * y + v * y + w * y + x * y
  OBVIOUS
<1> QED
  BY <1>1, <1>3, <1>4, <1>5, <1>6

\* A sum of weighted numbers below y is below the sum of the weights times y.
LEMMA MeanBelow ==
  ASSUME NEW u \in Nat \ {0}, NEW v \in Nat, NEW w \in Nat, NEW x \in Nat,
         NEW a \in Int, NEW b \in Int, NEW c \in Int, NEW d \in Int, NEW y \in Int,
         a < y, v > 0 => b < y, w > 0 => c < y, x > 0 => d < y
  PROVE  u * a + v * b + w * c + x * d < (u + v + w + x) * y
<1>1. u * a < u * y /\ u * a \in Int /\ u * y \in Int
  BY Heavier
<1>2. ASSUME NEW m \in Nat, NEW n \in Int, m > 0 => n < y
      PROVE  m * n <= m * y /\ m * n \in Int /\ m * y \in Int
  <2>1. CASE m = 0
    BY <2>1
  <2>2. CASE m > 0
    BY <1>2, <2>2, Heavier
  <2> QED
    BY <2>1, <2>2
<1>3. v * b <= v * y /\ v * b \in Int /\ v * y \in Int
  BY <1>2
<1>4. w * c <= w * y /\ w * c \in Int /\ w * y \in Int
  BY <1>2
<1>5. x * d <= x * y /\ x * d \in Int /\ x * y \in Int
  BY <1>2
<1>6. (u + v + w + x) * y = u * y + v * y + w * y + x * y
  OBVIOUS
<1> QED
  BY <1>1, <1>3, <1>4, <1>5, <1>6

HIDE ScoresOK

\* The weights of a stock and what they weigh.
WeightOf(e) ==
    40 * Full + 20 * Strength(e.market) + 30 * Strength(e.company) + 10 * Strength(e.news)
WeighedOf(e) ==
    40 * Full * (100 * e.technical)
      + 20 * Strength(e.market)  * e.market.raw
      + 30 * Strength(e.company) * e.company.raw
      + 10 * Strength(e.news)    * e.news.raw

Hundredths == 0..10000
Usable(g) == g.confidence > 0 /\ g.age # Unknown
Parts4(e) ==
    {100 * e.technical} \cup {g.raw : g \in {h \in {e.market, e.company, e.news} : Usable(h)}}

\* A group is a part of the mean with a weight of its own, none if unusable.
LEMMA GroupIsPart ==
  ASSUME NEW g \in Groups, NEW m \in Nat
  PROVE  \E v \in Nat, a \in Hundredths :
            v = m * Strength(g) /\ a = g.raw /\ (v > 0 => Usable(g))
<1>1. Strength(g) \in Nat /\ (g.confidence = 0 \/ g.age = Unknown => Strength(g) = 0)
  BY StrengthIsPart
<1>2. g.raw \in Hundredths /\ g.confidence \in Nat
  BY DEF Groups, Scores, Hundredths
<1>3. m * Strength(g) \in Nat /\ (Strength(g) = 0 => m * Strength(g) = 0)
  BY <1>1
<1>4. m * Strength(g) > 0 => Usable(g)
  BY <1>1, <1>2, <1>3 DEF Usable
<1> QED
  BY <1>2, <1>3, <1>4, Zenon

\* A stock as four numbers with four weights.
LEMMA StockIsSum ==
  ASSUME NEW e \in Evidence
  PROVE  \E u \in Nat \ {0}, v \in Nat, w \in Nat, x \in Nat,
            t \in Hundredths, a \in Hundredths, b \in Hundredths, c \in Hundredths :
            /\ WeightOf(e) = u + v + w + x
            /\ WeighedOf(e) = u * t + v * a + w * b + x * c
            /\ t = 100 * e.technical /\ t \in Parts4(e)
            /\ v > 0 => a \in Parts4(e)
            /\ w > 0 => b \in Parts4(e)
            /\ x > 0 => c \in Parts4(e)
<1>1. e.market \in Groups /\ e.company \in Groups /\ e.news \in Groups /\ e.technical \in 0..100
  BY DEF Evidence, Scores
<1>2. 40 * Full \in Nat \ {0}
  BY ScoresOK DEF Full
<1>3. 100 * e.technical \in Hundredths
  <2>1. \A n \in 0..100 : 100 * n \in Hundredths
    BY DEF Hundredths
  <2> QED
    BY <1>1, <2>1, Zenon
<1>4. 20 \in Nat /\ 30 \in Nat /\ 10 \in Nat
  OBVIOUS
<1>5. PICK v \in Nat, a \in Hundredths :
        v = 20 * Strength(e.market) /\ a = e.market.raw /\ (v > 0 => Usable(e.market))
  BY <1>1, <1>4, GroupIsPart, Zenon
<1>6. PICK w \in Nat, b \in Hundredths :
        w = 30 * Strength(e.company) /\ b = e.company.raw /\ (w > 0 => Usable(e.company))
  BY <1>1, <1>4, GroupIsPart, Zenon
<1>7. PICK x \in Nat, c \in Hundredths :
        x = 10 * Strength(e.news) /\ c = e.news.raw /\ (x > 0 => Usable(e.news))
  BY <1>1, <1>4, GroupIsPart, Zenon
<1>8. WeightOf(e) = 40 * Full + v + w + x
  BY <1>5, <1>6, <1>7, Zenon DEF WeightOf
<1>9. WeighedOf(e) = 40 * Full * (100 * e.technical) + v * a + w * b + x * c
  BY <1>5, <1>6, <1>7, Zenon DEF WeighedOf
<1>10. ASSUME NEW g \in {e.market, e.company, e.news}, Usable(g)
       PROVE  g.raw \in Parts4(e)
  BY <1>10 DEF Parts4
<1>11. /\ 100 * e.technical \in Parts4(e)
       /\ v > 0 => a \in Parts4(e)
       /\ w > 0 => b \in Parts4(e)
       /\ x > 0 => c \in Parts4(e)
  <2>1. 100 * e.technical \in Parts4(e)
    BY DEF Parts4
  <2> QED
    BY <1>5, <1>6, <1>7, <1>10, <2>1, Zenon
<1> QED
  BY <1>2, <1>3, <1>8, <1>9, <1>11, Zenon

\* The score of a stock is the mean, to half a point.
LEMMA StockScoreIsMean ==
  ASSUME NEW w \in Nat \ {0}, NEW n \in Int, NEW k \in Nearest(n, 100 * w)
  PROVE  /\ k \in Int
         /\ w * (100 * k - 50) <= n
         /\ n <= w * (100 * k + 50)
<1>4. k \in Int /\ 2 * (k * (100 * w)) - 100 * w <= 2 * n /\ 2 * n <= 2 * (k * (100 * w)) + 100 * w
  <2>1. 100 * w \in Nat \ {0}
    OBVIOUS
  <2> QED
    BY <2>1, NearestIsNear
<1> DEFINE m == w * k
<1>5. k * (100 * w) = 100 * m /\ m \in Int
  BY <1>4
<1>6. /\ w * (100 * k - 50) = 100 * m - 50 * w
      /\ w * (100 * k + 50) = 100 * m + 50 * w
  BY <1>4
<1> HIDE DEF m
<1> QED
  BY <1>4, <1>5, <1>6

\* A stock is scored between its technical score and the evidence that has a
\* confidence and an age, whatever the decay.
THEOREM StockBetween ==
  ASSUME NEW e \in Evidence, NEW a \in Accounts, NEW d \in Decided(e, a)
  PROVE  BetweenEvidence(e, d)
<1> SUFFICES ASSUME e.kind = "stock"
             PROVE  /\ \E p \in Parts4(e) : p <= 100 * d.score + 50
                    /\ \E p \in Parts4(e) : p >= 100 * d.score - 50
  BY DEF BetweenEvidence, Parts4, Usable
<1>1. d.score \in {Clamp(s, 0, 100) : s \in StockScore(e)}
  BY Parted DEF FinalScore
<1>2. PICK k \in StockScore(e) : d.score = Clamp(k, 0, 100)
  BY <1>1
<1>3. k \in Nearest(WeighedOf(e), 100 * WeightOf(e))
  BY DEF StockScore, WeightOf, WeighedOf
<1>4. PICK u \in Nat \ {0}, v \in Nat, w \in Nat, x \in Nat,
           t \in Hundredths, r \in Hundredths, b \in Hundredths, c \in Hundredths :
            /\ WeightOf(e) = u + v + w + x
            /\ WeighedOf(e) = u * t + v * r + w * b + x * c
            /\ t = 100 * e.technical /\ t \in Parts4(e)
            /\ v > 0 => r \in Parts4(e)
            /\ w > 0 => b \in Parts4(e)
            /\ x > 0 => c \in Parts4(e)
  BY StockIsSum
<1> DEFINE weight == u + v + w + x
           sum == u * t + v * r + w * b + x * c
<1>10. t \in Int /\ r \in Int /\ b \in Int /\ c \in Int /\ t <= 10000 /\ t >= 0
  BY DEF Hundredths
<1>5. weight \in Nat \ {0} /\ sum \in Int
  <2>1. u * t \in Int /\ v * r \in Int /\ w * b \in Int /\ x * c \in Int
    BY <1>10
  <2> QED
    BY <2>1
<1>6. k \in Int /\ weight * (100 * k - 50) <= sum /\ sum <= weight * (100 * k + 50)
  <2>1. k \in Nearest(sum, 100 * weight)
    BY <1>3, <1>4, Zenon
  <2> HIDE DEF weight, sum
  <2> QED
    BY <1>5, <2>1, StockScoreIsMean
<1>7. d.score \in 0..100 /\ (k <= 100 => k <= d.score) /\ (k >= 0 => k >= d.score)
      /\ (k > 100 => d.score = 100) /\ (k < 0 => d.score = 0)
  BY <1>2, <1>6 DEF Clamp
<1>8. \E p \in Parts4(e) : p <= 100 * d.score + 50
  <2>1. CASE k > 100
    <3>1. t <= 100 * d.score + 50
      BY <1>7, <1>10, <2>1
    <3> QED
      BY <1>4, <3>1
  <2>2. CASE k <= 100
    <3> SUFFICES ASSUME \A p \in Parts4(e) : ~(p <= 100 * d.score + 50)
                 PROVE  FALSE
      OBVIOUS
    <3> DEFINE y == 100 * k + 50
    <3>1. y \in Int /\ y <= 100 * d.score + 50
      BY <1>6, <1>7, <2>2
    <3>2. t > y /\ (v > 0 => r > y) /\ (w > 0 => b > y) /\ (x > 0 => c > y)
      <4>1. ASSUME NEW p \in Int, p \in Parts4(e) PROVE p > y
        <5>1. ~(p <= 100 * d.score + 50)
          BY <4>1
        <5> HIDE DEF y
        <5> QED
          BY <1>7, <3>1, <5>1
      <4> HIDE DEF y
      <4> QED
        BY <1>4, <1>10, <4>1
    <3>3. sum <= weight * y
      BY <1>6
    <3> HIDE DEF y
    <3>4. sum > weight * y
      BY <1>10, <3>1, <3>2, MeanAbove
    <3> DEFINE m == weight * y
    <3>5. m \in Int
      BY <1>5, <3>1
    <3>6. sum <= m /\ sum > m
      BY <3>3, <3>4
    <3> HIDE DEF m, sum
    <3> QED
      BY <1>5, <3>5, <3>6
  <2> QED
    BY <1>6, <2>1, <2>2
<1>9. \E p \in Parts4(e) : p >= 100 * d.score - 50
  <2>1. CASE k < 0
    <3>1. t >= 100 * d.score - 50
      BY <1>7, <1>10, <2>1
    <3> QED
      BY <1>4, <3>1
  <2>2. CASE k >= 0
    <3> SUFFICES ASSUME \A p \in Parts4(e) : ~(p >= 100 * d.score - 50)
                 PROVE  FALSE
      OBVIOUS
    <3> DEFINE y == 100 * k - 50
    <3>1. y \in Int /\ y >= 100 * d.score - 50
      BY <1>6, <1>7, <2>2
    <3>2. t < y /\ (v > 0 => r < y) /\ (w > 0 => b < y) /\ (x > 0 => c < y)
      <4>1. ASSUME NEW p \in Int, p \in Parts4(e) PROVE p < y
        <5>1. ~(p >= 100 * d.score - 50)
          BY <4>1
        <5> HIDE DEF y
        <5> QED
          BY <1>7, <3>1, <5>1
      <4> HIDE DEF y
      <4> QED
        BY <1>4, <1>10, <4>1
    <3>3. sum >= weight * y
      BY <1>6
    <3> HIDE DEF y
    <3>4. sum < weight * y
      BY <1>10, <3>1, <3>2, MeanBelow
    <3> DEFINE m == weight * y
    <3>5. m \in Int
      BY <1>5, <3>1
    <3>6. sum >= m /\ sum < m
      BY <3>3, <3>4
    <3> HIDE DEF m, sum
    <3> QED
      BY <1>5, <3>5, <3>6
  <2> QED
    BY <1>6, <2>1, <2>2
<1> QED
  BY <1>8, <1>9

\* Whatever is decided, its score is a number.
LEMMA ScoreIsNumber ==
  ASSUME NEW e \in Evidence, NEW a \in Accounts, NEW d \in Decided(e, a)
  PROVE  d.score \in Int
<1>1. d.score \in {Clamp(s, 0, 100) : s \in IF e.kind = "stock" THEN StockScore(e)
                                            ELSE CryptoScore(e)}
  BY Parted DEF FinalScore
<1>2. StockScore(e) \subseteq Int
  <2> SUFFICES ASSUME NEW k \in StockScore(e) PROVE k \in Int
    OBVIOUS
  <2>1. k \in Nearest(WeighedOf(e), 100 * WeightOf(e))
    BY DEF StockScore, WeightOf, WeighedOf
  <2>2. PICK u \in Nat \ {0}, v \in Nat, w \in Nat, x \in Nat,
             t \in Hundredths, r \in Hundredths, b \in Hundredths, c \in Hundredths :
              /\ WeightOf(e) = u + v + w + x
              /\ WeighedOf(e) = u * t + v * r + w * b + x * c
    BY StockIsSum
  <2> DEFINE weight == u + v + w + x
             sum == u * t + v * r + w * b + x * c
  <2>3. weight \in Nat \ {0} /\ sum \in Int
    <3>1. u * t \in Int /\ v * r \in Int /\ w * b \in Int /\ x * c \in Int
      BY DEF Hundredths
    <3> QED
      BY <3>1
  <2>4. k \in Nearest(sum, 100 * weight)
    BY <2>1, <2>2, Zenon
  <2> HIDE DEF weight, sum
  <2> QED
    BY <2>3, <2>4, StockScoreIsMean
<1>3. CryptoScore(e) \subseteq Int
  <2> SUFFICES ASSUME NEW n \in Adjusted(e.news), NEW k \in Nearest(80 * e.technical + 20 * n, 100)
               PROVE  k \in Int
    BY DEF CryptoScore
  <2>1. n \in 0..100 /\ e.technical \in 0..100
    BY AdjustedIsScore DEF Evidence, Scores
  <2> DEFINE m == 80 * e.technical + 20 * n
  <2>2. m \in Int /\ k \in Nearest(m, 100)
    BY <2>1
  <2> HIDE DEF m
  <2> QED
    BY <2>2, NearestIsNear
<1>4. PICK s \in Int : d.score = Clamp(s, 0, 100)
  BY <1>1, <1>2, <1>3
<1> QED
  BY <1>4 DEF Clamp

-----------------------------------------------------------------------------
(* The rules run, for all of its bounds. *)

RulesInv ==
    /\ q \in Intents /\ Consistent(q) /\ kill \in BOOLEAN
    /\ given \in Evidence /\ account \in Accounts
    /\ stage = "decided" => decision \in Decided(given, account)
    /\ stage # "decided" => decision = NoDecision

\* The intents of the run are such as the services build.
LEMMA SizedAreIntents ==
  ASSUME Sized
  PROVE  q \in Intents /\ Consistent(q)
<1>1. PICK c \in Cash, v \in Values, o \in Others, p \in Prices, n \in Quantities,
           a \in {"BUY", "SELL"}, m \in {"stock", "crypto"}, t \in Targets :
        /\ c + v + o > 0
        /\ q = [source |-> "auto", market |-> m, action |-> a,
                notional |-> n * p, quantity |-> n, price |-> p,
                equity |-> c + v + o, cash |-> c,
                positionValue |-> v, positionQuantity |-> v \div p,
                openPositions |-> 1, pnlPct |-> 0, buys |-> 0, dataAge |-> 0,
                marketOpen |-> TRUE, duplicate |-> FALSE,
                sinceAny |-> None, sinceBuy |-> None, sinceSell |-> None,
                sinceStop |-> None, targetPct |-> t]
  BY DEF Sized
<1>2. c \in Nat /\ v \in Nat /\ o \in Nat /\ p \in Nat \ {0} /\ n \in Nat
  BY BoundsOK
<1>3. n * p \in Nat /\ v \div p \in Nat /\ c + v + o \in Nat \ {0}
  BY <1>1, <1>2
<1>4. t \in Elapsed /\ None \in Elapsed
  BY DEF Targets, Elapsed, None
<1> QED
  BY <1>1, <1>2, <1>3, <1>4 DEF Intents, Consistent

\* Those that try the other rules are as well.
LEMMA RuledAreIntents ==
  ASSUME Ruled
  PROVE  q \in Intents /\ Consistent(q)
<1>1. PICK s \in {"auto", "manual"}, m \in {"stock", "crypto"}, a \in {"BUY", "SELL"},
           held \in {0, 2}, open \in {MaxOpenPositions - 1, MaxOpenPositions},
           pnl \in {-MaxDailyLossPct, 0}, b \in {MaxDailyOrders - 1, MaxDailyOrders},
           age \in {MaxDataAge, MaxDataAge + 1}, isOpen \in BOOLEAN, dup \in BOOLEAN,
           any \in Elapses, buy \in Elapses, sell \in Elapses, stop \in Elapses :
        q = [source |-> s, market |-> m, action |-> a,
             notional |-> 1, quantity |-> 1, price |-> 1,
             equity |-> 10, cash |-> 8, positionValue |-> held,
             positionQuantity |-> held, openPositions |-> open, pnlPct |-> pnl,
             buys |-> b, dataAge |-> age, marketOpen |-> isOpen, duplicate |-> dup,
             sinceAny |-> any, sinceBuy |-> buy, sinceSell |-> sell,
             sinceStop |-> stop, targetPct |-> None]
  BY DEF Ruled
<1>2. open \in Nat /\ pnl \in Int /\ b \in Nat /\ age \in Nat /\ held \in Nat
  BY BoundsOK, PolicyOK
<1>3. any \in Elapsed /\ buy \in Elapsed /\ sell \in Elapsed /\ stop \in Elapsed /\ None \in Elapsed
  BY DEF Elapses, Elapsed, None
<1>4. 1 \in Nat /\ 10 \in Nat \ {0} /\ 8 \in Nat /\ 1 = 1 * 1
  OBVIOUS
<1> QED
  BY <1>1, <1>2, <1>3, <1>4 DEF Intents, Consistent

\* The evidence of the run is evidence.
LEMMA JudgedIsEvidence ==
  ASSUME Judged
  PROVE  given \in Evidence /\ account \in Accounts
<1>1. PICK kind \in {"stock", "crypto"}, t \in Technicals, r \in Regimes, m \in Raws, c \in Raws,
           n \in Raws, f \in Confidences, g \in Confidences, h \in Confidences,
           x \in Ages \cup {Unknown}, y \in Ages \cup {Unknown} :
        /\ given = [kind |-> kind, technical |-> t, regime |-> r,
                    market  |-> [raw |-> Market(m, r, m), confidence |-> f, age |-> x],
                    company |-> [raw |-> Company(c, c, c, c), confidence |-> g, age |-> y],
                    news    |-> [raw |-> 100 * n, confidence |-> h, age |-> x]]
        /\ account \in {[equity |-> 0, cash |-> 0], [equity |-> 100, cash |-> 100],
                        [equity |-> 100, cash |-> 30], [equity |-> 100, cash |-> -10]}
  BY DEF Judged
<1>2. t \in Scores /\ r \in Scores /\ m \in Scores /\ c \in Scores /\ n \in Scores
      /\ f \in Scores /\ g \in Scores /\ h \in Scores
  BY BoundsOK
<1>3. /\ Market(m, r, m) \in Hundredths /\ Company(c, c, c, c) \in Hundredths
      /\ 100 * n \in Hundredths
  BY <1>2 DEF Market, Company, Scores, Hundredths
<1>4. ASSUME NEW u \in Hundredths, NEW v \in Scores, NEW w \in Ages \cup {Unknown}
      PROVE  [raw |-> u, confidence |-> v, age |-> w] \in Groups
  BY DEF Groups, Hundredths
<1>5. given \in Evidence
  <2> DEFINE a == [raw |-> Market(m, r, m), confidence |-> f, age |-> x]
             b == [raw |-> Company(c, c, c, c), confidence |-> g, age |-> y]
             d == [raw |-> 100 * n, confidence |-> h, age |-> x]
  <2>1. a \in Groups /\ b \in Groups /\ d \in Groups
    BY <1>2, <1>3, <1>4, Zenon
  <2>2. given = [kind |-> kind, technical |-> t, regime |-> r,
                 market |-> a, company |-> b, news |-> d]
    BY <1>1
  <2> HIDE DEF a, b, d
  <2> QED
    BY <1>2, <2>1, <2>2 DEF Evidence
<1>6. account \in Accounts
  BY <1>1 DEF Accounts
<1> QED
  BY <1>5, <1>6

\* At first nothing is evaluated, ...
LEMMA RulesStart == Init => RulesInv
<1> SUFFICES ASSUME Init PROVE RulesInv
  OBVIOUS
<1>1. decision = NoDecision /\ stage # "decided"
  BY DEF Init
<1>2. CASE stage = "intent"
  <2>1. /\ kill \in BOOLEAN /\ (Sized \/ Ruled)
        /\ given = NoEvidence /\ account = [equity |-> 0, cash |-> 0]
    BY <1>2 DEF Init
  <2>2. q \in Intents /\ Consistent(q) /\ kill \in BOOLEAN
    BY <2>1, <1>2, SizedAreIntents, RuledAreIntents DEF Init
  <2>3. given \in Evidence /\ account \in Accounts
    BY <2>1, <1>2 DEF Init, NoEvidence, NoGroup, Evidence, Groups, Scores, Accounts
  <2> QED
    BY <1>1, <2>2, <2>3 DEF RulesInv
<1>3. CASE stage = "evidence"
  <2>1. Judged /\ q = NoOrder /\ kill = FALSE
    BY <1>3 DEF Init
  <2>2. q \in Intents /\ Consistent(q)
    BY <2>1 DEF NoOrder, Intents, Consistent, Elapsed, None
  <2> QED
    BY <1>1, <2>1, <2>2, JudgedIsEvidence DEF RulesInv
<1> QED
  BY <1>2, <1>3 DEF Init

\* ... a step evaluates what the run may evaluate, ...
LEMMA RulesStep == RulesInv /\ [Next]_<<stage, intent, evidence>> => RulesInv'
<1> SUFFICES ASSUME RulesInv, [Next]_<<stage, intent, evidence>> PROVE RulesInv'
  OBVIOUS
<1>1. CASE Evaluated
  BY <1>1 DEF RulesInv, Evaluated, evidence
<1>2. CASE Decides
  BY <1>2 DEF RulesInv, Decides, intent
<1>3. CASE UNCHANGED <<stage, intent, evidence>>
  BY <1>3 DEF RulesInv, intent, evidence
<1> QED
  BY <1>1, <1>2, <1>3 DEF Next

\* ... and so every answer has an admissible intent or evidence behind it.
LEMMA RulesHold == Spec => []RulesInv
  BY RulesStart, RulesStep, PTL DEF Spec

\* Whatever Risk Guard passes stays within the limits of the account.
THEOREM BuysAlwaysSafe == Spec => []BuysAreSafe
<1>1. RulesInv => BuysAreSafe
  BY SafeBuys DEF RulesInv, BuysAreSafe
<1> QED
  BY <1>1, RulesHold, PTL

\* Risk Guard never takes from a BUY more than the limits demand.
THEOREM BuysAlwaysLargest == Spec => []BuysAreLargest
<1>1. RulesInv => BuysAreLargest
  BY LargestBuys DEF RulesInv, BuysAreLargest
<1> QED
  BY <1>1, RulesHold, PTL

\* No limit on buying stops a SELL of what is held.
THEOREM SellsAlwaysAvailable == Spec => []SellsAreAvailable
<1>1. RulesInv => SellsAreAvailable
  BY AvailableSells DEF RulesInv, SellsAreAvailable
<1> QED
  BY <1>1, RulesHold, PTL

\* The technical direction of a coin survives all evidence.
THEOREM CoinsAlwaysKeepDirection == Spec => []CoinsKeepDirection
<1>1. RulesInv => CoinsKeepDirection
  <2>1. CASE decision = NoDecision
    BY <2>1 DEF CoinsKeepDirection, DirectionKept, NoDecision
  <2>2. ASSUME RulesInv, decision \in Decided(given, account)
        PROVE  CoinsKeepDirection
    BY <2>2, CoinDirection DEF RulesInv, CoinsKeepDirection
  <2> QED
    BY <2>1, <2>2 DEF RulesInv
<1> QED
  BY <1>1, RulesHold, PTL

\* The score of a stock stays between its technical score and usable evidence.
THEOREM StocksAlwaysFollowEvidence == Spec => []StocksFollowEvidence
<1>1. RulesInv => StocksFollowEvidence
  BY StockBetween DEF RulesInv, StocksFollowEvidence
<1> QED
  BY <1>1, RulesHold, PTL

\* With a shift of at most 12 points, regime and exposure alone never turn a BUY
\* into a SELL or back.
THEOREM ViewsNeverSwing == ASSUME Shift <= 12 PROVE Spec => []ViewsDoNotSwing
<1>1. RulesInv => ViewsDoNotSwing
  <2>1. CASE decision = NoDecision
    BY <2>1 DEF ViewsDoNotSwing, SwingsNeedScores, NoDecision
  <2>2. ASSUME RulesInv, decision \in Decided(given, account)
        PROVE  ViewsDoNotSwing
    BY <2>2, NoSwings, ScoreIsNumber DEF RulesInv, ViewsDoNotSwing
  <2> QED
    BY <2>1, <2>2 DEF RulesInv
<1> QED
  BY <1>1, RulesHold, PTL

\* With the limits of the sizer this close to the thresholds, only the far ends of
\* regime and exposure decide what is not ordered.
THEOREM ThresholdsAlwaysAgree ==
  ASSUME Shift + BuyMinScore <= 65, BuyMinScore <= 63,
         SellMaxScore >= 38, SellMaxScore >= 35 + Shift
  PROVE  Spec => []ThresholdsAgree
<1>1. RulesInv => ThresholdsAgree
  <2>1. CASE decision = NoDecision
    BY <2>1 DEF ThresholdsAgree, DecisionsAreOrdered, NoDecision
  <2>2. ASSUME RulesInv, decision \in Decided(given, account)
        PROVE  ThresholdsAgree
    BY <2>2, OrdersFollow, ScoreIsNumber DEF RulesInv, ThresholdsAgree
  <2> QED
    BY <2>1, <2>2 DEF RulesInv
<1> QED
  BY <1>1, RulesHold, PTL
=============================================================================
