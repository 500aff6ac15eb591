---------------------------- MODULE MCRiskGuard ----------------------------
(* Risk Guard over bounded intents and the scoring over bounded evidence: one  *)
(* evaluation of each.                                                         *)
EXTENDS RiskGuard, DecisionScores

CONSTANTS
    Cash, Values, Others, Prices, Quantities,   \* values of the intents
    Technicals, Raws, Regimes, Confidences      \* values of the evidence

ASSUME BoundsOK ==
    /\ Cash \subseteq Nat /\ Values \subseteq Nat /\ Others \subseteq Nat
    /\ Prices \subseteq Nat \ {0} /\ Quantities \subseteq Nat
    /\ Technicals \subseteq Scores /\ Raws \subseteq Scores /\ Regimes \subseteq Scores
    /\ Confidences \subseteq Scores
    /\ MaxOpenPositions > 0 /\ MaxDailyOrders > 0

Targets == {None, 0, 40}
Elapses == {None, 0, 1}

Halves == [age \in Ages |-> IF age = 0 THEN 2 ELSE 1]   \* of Parts = 2

VARIABLES
    stage,              \* what is evaluated, or has been
    q, kill, answer,    \* an intent, the kill switch and what Risk Guard answers
    given, account, decision   \* evidence, an account and the decision

evidence == <<given, account, decision>>
intent == <<q, kill, answer>>

NoOrder == [source |-> "auto", market |-> "crypto", action |-> "HOLD",
            notional |-> 0, quantity |-> 0, price |-> 1, equity |-> 1, cash |-> 1,
            positionValue |-> 0, positionQuantity |-> 0, openPositions |-> 0, pnlPct |-> 0,
            buys |-> 0, dataAge |-> 0, marketOpen |-> TRUE, duplicate |-> FALSE,
            sinceAny |-> None, sinceBuy |-> None, sinceSell |-> None, sinceStop |-> None,
            targetPct |-> None]
NoGroup == [raw |-> 5000, confidence |-> 0, age |-> Unknown]
NoEvidence == [kind |-> "crypto", technical |-> 50, regime |-> 50,
               market |-> NoGroup, company |-> NoGroup, news |-> NoGroup]
NoDecision == [score |-> 50, regime |-> "NEUTRAL", target |-> NeutralTarget, action |-> "HOLD"]

\* A BUY or SELL on a sound account, with an intent as the services build it:
\* notional = quantity * price.
Sized ==
    \E c \in Cash, v \in Values, o \in Others, p \in Prices, n \in Quantities,
       a \in {"BUY", "SELL"}, m \in {"stock", "crypto"}, t \in Targets :
        /\ c + v + o > 0
        /\ q = [source |-> "auto", market |-> m, action |-> a,
                notional |-> n * p, quantity |-> n, price |-> p,
                equity |-> c + v + o, cash |-> c,
                positionValue |-> v, positionQuantity |-> v \div p,
                openPositions |-> 1, pnlPct |-> 0, buys |-> 0, dataAge |-> 0,
                marketOpen |-> TRUE, duplicate |-> FALSE,
                sinceAny |-> None, sinceBuy |-> None, sinceSell |-> None,
                sinceStop |-> None, targetPct |-> t]

\* One small order, with every combination of the other rules.
Ruled ==
    \E s \in {"auto", "manual"}, m \in {"stock", "crypto"}, a \in {"BUY", "SELL"},
       held \in {0, 2}, open \in {MaxOpenPositions - 1, MaxOpenPositions},
       pnl \in {-MaxDailyLossPct, 0}, b \in {MaxDailyOrders - 1, MaxDailyOrders},
       age \in {MaxDataAge, MaxDataAge + 1}, isOpen \in BOOLEAN, dup \in BOOLEAN,
       any \in Elapses, buy \in Elapses, sell \in Elapses, stop \in Elapses :
        q = [source |-> s, market |-> m, action |-> a,
             notional |-> 1, quantity |-> 1, price |-> 1,
             equity |-> 10, cash |-> 8, positionValue |-> held,
             positionQuantity |-> held, openPositions |-> open, pnlPct |-> pnl,
             buys |-> b, dataAge |-> age, marketOpen |-> isOpen, duplicate |-> dup,
             sinceAny |-> any, sinceBuy |-> buy, sinceSell |-> sell,
             sinceStop |-> stop, targetPct |-> None]

\* The snapshot of the account may be missing.
Judged ==
    \E kind \in {"stock", "crypto"}, t \in Technicals, r \in Regimes, m \in Raws, c \in Raws,
       n \in Raws, f, g \in Confidences, h \in Confidences,
       x \in Ages \cup {Unknown}, y \in Ages \cup {Unknown} :
        /\ given = [kind |-> kind, technical |-> t, regime |-> r,
                    market  |-> [raw |-> Market(m, r, m), confidence |-> f, age |-> x],
                    company |-> [raw |-> Company(c, c, c, c), confidence |-> g, age |-> y],
                    news    |-> [raw |-> 100 * n, confidence |-> h, age |-> x]]
        /\ account \in {[equity |-> 0, cash |-> 0], [equity |-> 100, cash |-> 100],
                        [equity |-> 100, cash |-> 30], [equity |-> 100, cash |-> -10]}

Init ==
    /\ answer = Result("NO_ORDER", 0) /\ decision = NoDecision
    /\ \/ /\ stage = "intent" /\ kill \in BOOLEAN
          /\ Sized \/ (~kill /\ Ruled)
          /\ given = NoEvidence /\ account = [equity |-> 0, cash |-> 0]
       \/ /\ stage = "evidence" /\ Judged
          /\ q = NoOrder /\ kill = FALSE

Evaluated ==
    /\ stage = "intent" /\ stage' = "evaluated"
    /\ answer' = Evaluate(q, kill)
    /\ UNCHANGED <<q, kill, evidence>>

Decides ==
    /\ stage = "evidence" /\ stage' = "decided"
    /\ decision' \in Decided(given, account)
    /\ UNCHANGED <<given, account, intent>>

Next == Evaluated \/ Decides

Spec == Init /\ [][Next]_<<stage, intent, evidence>>

\* BuyIsSafe for every intent.
BuysAreSafe == BuyIsSafe(q, kill)

\* BuyIsLargest for every intent.
BuysAreLargest == BuyIsLargest(q, kill)

\* SellIsAvailable for every intent.
SellsAreAvailable == SellIsAvailable(q, kill)

\* DirectionKept for all evidence.
CoinsKeepDirection == DirectionKept(given, decision)

\* BetweenEvidence for all evidence.
StocksFollowEvidence == stage = "decided" => BetweenEvidence(given, decision)

\* SwingsNeedScores for every decision.
ViewsDoNotSwing == SwingsNeedScores(decision)

\* DecisionsAreOrdered for every decision and account.
ThresholdsAgree == DecisionsAreOrdered(decision, account)
=============================================================================
