--------------------------- MODULE DecisionScores ---------------------------
(***************************************************************************)
(* LLMDecisionClient._apply_quant_guardrails: from the evidence that the   *)
(* LLM returns for an instrument to its score, and from the score, the     *)
(* regime of the market and the exposure of the account to an action.      *)
(*                                                                         *)
(* The decay of evidence is a function of its age, in parts of 1, so that  *)
(* a strength is a number of parts of Full.  The program rounds binary     *)
(* fractions: what it makes of a half is left open.                        *)
(***************************************************************************)
EXTENDS Integers, PositionSizer

CONSTANTS
    Ages,           \* ages of evidence, over its half-life
    Parts, Fresh,   \* 0.5 ^ age, in parts
    Shift,          \* position_regime_threshold_shift
    BullMin, BearMax,
    BullTarget, NeutralTarget, BearTarget,
    BuyMinScore, SellMaxScore   \* of the Position Sizer

Unknown == -1

ASSUME ScoresOK ==
    /\ Parts \in Nat \ {0} /\ Fresh \in [Ages -> 0..Parts] /\ Unknown \notin Ages
    /\ Shift \in Nat /\ BullMin \in Nat /\ BearMax \in Nat
    /\ BullTarget \in 0..100 /\ NeutralTarget \in 0..100 /\ BearTarget \in 0..100
    /\ BuyMinScore \in Nat /\ SellMaxScore \in Nat

Scores == 0..100
Full == 100 * Parts

\* A group of evidence: what it says, in hundredths, and how much it counts.
Groups == [raw : 0..10000, confidence : Scores, age : Ages \cup {Unknown}]

\* One instrument.  The regime is judged with the confidence of the market.
Evidence == [kind : {"stock", "crypto"}, technical : Scores, regime : Scores,
             market : Groups, company : Groups, news : Groups]

\* equity and cash in the snapshot of the account; 0 if it has none.
Accounts == [equity : Nat, cash : Int]

Clamp(n, low, high) == IF n < low THEN low ELSE IF n > high THEN high ELSE n

\* round(n / d)
Nearest(n, d) ==
    {k \in {n \div d, (n \div d) + 1} : 2 * (k * d) - d <= 2 * n /\ 2 * n <= 2 * (k * d) + d}

-----------------------------------------------------------------------------
\* The components of a stock: sector, regime and macro; earnings, quality,
\* valuation and balance.
Market(sector, regime, macro) == 50 * sector + 25 * regime + 25 * macro
Company(earnings, quality, valuation, balance) ==
    35 * earnings + 30 * quality + 20 * valuation + 15 * balance

\* _evidence_strength
Strength(g) ==
    IF g.age = Unknown \/ g.confidence = 0 THEN 0 ELSE g.confidence * Fresh[g.age]

\* _evidence_adjusted_score: weak evidence is pulled to 50.
Adjusted(g) ==
    {Clamp(k, 0, 100) : k \in Nearest(5000 * Full + (g.raw - 5000) * Strength(g), 100 * Full)}

\* Mutant: the weights of missing evidence stay, at 50.
StockScoreDragged(e) ==
    Nearest(40 * Full * (100 * e.technical)
              + 20 * (5000 * Full + Strength(e.market)  * (e.market.raw - 5000))
              + 30 * (5000 * Full + Strength(e.company) * (e.company.raw - 5000))
              + 10 * (5000 * Full + Strength(e.news)    * (e.news.raw - 5000)),
            100 * (100 * Full))

\* Evidence counts as much as it is strong; what is left has all the weight.
StockScore(e) ==
    Nearest(40 * Full * (100 * e.technical)
              + 20 * Strength(e.market)  * e.market.raw
              + 30 * Strength(e.company) * e.company.raw
              + 10 * Strength(e.news)    * e.news.raw,
            100 * (40 * Full + 20 * Strength(e.market) + 30 * Strength(e.company)
                             + 10 * Strength(e.news)))

\* Mutant: coins are weighted like stocks without a market and a company.
CryptoScoreEven(e) == UNION {Nearest(40 * e.technical + 60 * n, 100) : n \in Adjusted(e.news)}

CryptoScore(e) == UNION {Nearest(80 * e.technical + 20 * n, 100) : n \in Adjusted(e.news)}

FinalScore(e) ==
    {Clamp(s, 0, 100) : s \in IF e.kind = "stock" THEN StockScore(e) ELSE CryptoScore(e)}

-----------------------------------------------------------------------------
(* _regime_exposure_policy *)

\* The score of the regime: LLM evidence like any other.
RegimeScore(e) == Adjusted([e.market EXCEPT !.raw = 100 * e.regime])

Regime(score) ==
    IF score >= BullMin THEN "BULL" ELSE IF score <= BearMax THEN "BEAR" ELSE "NEUTRAL"

Target(regime) ==
    CASE regime = "BULL" -> BullTarget [] regime = "BEAR" -> BearTarget [] OTHER -> NeutralTarget

Lean(regime) == CASE regime = "BULL" -> -Shift [] regime = "BEAR" -> Shift [] OTHER -> 0

\* target - exposure, in percent of the equity, times the equity.
Gap(target, a) ==
    target * a.equity - 100 * (a.equity - Clamp(a.cash, 0, a.equity))

Nudge(target, a) ==
    CASE a.equity = 0 -> 0
      [] a.equity > 0 /\ Gap(target, a) >= 10 * a.equity -> -2
      [] a.equity > 0 /\ Gap(target, a) <= -10 * a.equity -> 3
      [] OTHER -> 0

\* Mutant: from the number for SELL.
BuyThresholdOfSell(regime, nudge) == Clamp(35 + Lean(regime) + nudge, 20, 50)

BuyThreshold(regime, nudge) == Clamp(65 + Lean(regime) + nudge, 50, 80)

SellThreshold(regime, nudge) == Clamp(35 + Lean(regime) + nudge, 20, 50)

Action(score, regime, nudge) ==
    IF score >= BuyThreshold(regime, nudge) THEN "BUY"
    ELSE IF score <= SellThreshold(regime, nudge) THEN "SELL"
    ELSE "HOLD"

\* What the decision of the LLM is overwritten with.
Decided(e, a) ==
    {LET regime == Regime(r[2])
     IN [score |-> r[1], regime |-> regime, target |-> Target(regime),
         action |-> Action(r[1], regime, Nudge(Target(regime), a))]
       : r \in FinalScore(e) \X RegimeScore(e)}

\* The Position Sizer has limits of its own.
Ordered(d) ==
    \/ d.action = "BUY"  /\ d.score >= BuyMinScore
    \/ d.action = "SELL" /\ d.score <= SellMaxScore

-----------------------------------------------------------------------------
(* Properties of a decision d on evidence e for an account a. *)

\* For coins the LLM cannot reverse the technical direction, whatever it says of
\* news and regime (test_quant_buy_cannot_be_reversed_to_sell).
DirectionKept(e, d) ==
    e.kind = "crypto" =>
        /\ e.technical >= 65 => d.action # "SELL"
        /\ e.technical <= 35 => d.action # "BUY"

\* A stock is scored between its technical score and what usable evidence says:
\* missing or weak evidence never drags it elsewhere (openai_decision.py:541).
BetweenEvidence(e, d) ==
    LET parts == {100 * e.technical} \cup
                 {g.raw : g \in {h \in {e.market, e.company, e.news} :
                                     h.confidence > 0 /\ h.age # Unknown}}
    IN e.kind = "stock" =>
          /\ \E p \in parts : p <= 100 * d.score + 50
          /\ \E p \in parts : p >= 100 * d.score - 50

\* Regime and exposure alone never turn a BUY into a SELL or back: positions
\* opened under one view of the market are not sold under another while the
\* score stays.
SwingsNeedScores(d) ==
    \A regime \in {"BULL", "NEUTRAL", "BEAR"}, nudge \in {-2, 0, 3} :
        /\ d.action = "BUY"  => Action(d.score, regime, nudge) # "SELL"
        /\ d.action = "SELL" => Action(d.score, regime, nudge) # "BUY"

\* Thresholds and the sizer agree, except at the far ends: a BUY below the
\* sizer's minimum needs a rising market with a large gap to the target, a SELL
\* above its maximum a falling one with a large excess.
DecisionsAreOrdered(d, a) ==
    /\ d.action = "BUY" /\ ~Ordered(d) =>
          d.regime = "BULL" /\ a.equity > 0 /\ Gap(d.target, a) >= 10 * a.equity
    /\ d.action = "SELL" /\ ~Ordered(d) =>
          d.regime = "BEAR" /\ a.equity > 0 /\ Gap(d.target, a) <= -10 * a.equity
=============================================================================
