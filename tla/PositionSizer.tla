---------------------------- MODULE PositionSizer ----------------------------
(***************************************************************************)
(* PositionSizer: from a decision and the account to an order quantity.    *)
(* Quantities count tradable units (a share, 10^-8 coin), prices are per   *)
(* unit, and 0 stands for NO_ORDER.                                        *)
(***************************************************************************)
EXTENDS Integers

\* size() of a BUY, for a target share of the equity: score tier times risk
\* scale, 0 below the minimum score.  A stock order has at least one share.
BuyQuantity(market, equity, value, price, targetPct) ==
    LET gap == (equity * targetPct) \div 100 - value
        n   == gap \div price
    IN  IF gap <= 0 THEN 0
        ELSE IF market = "stock" /\ n = 0 THEN 1 ELSE n

\* size() of a SELL, for a share of the holding: 0 above the maximum score.
SellQuantity(market, held, sellPct) ==
    LET n == (held * sellPct) \div 100
    IN  IF held = 0 \/ sellPct = 0 THEN 0
        ELSE IF market = "stock" /\ n = 0 THEN 1 ELSE n
=============================================================================
