---------------------------- MODULE MCLiveOrders ----------------------------
(* Small instances of LiveOrders for TLC. *)
EXTENDS LiveOrdersInv, TLC

CONSTANTS k1, btc, samsung

Manual(s, side) == [source |-> "manual", key |-> k1, symbol |-> s, side |-> side]
Auto(s, side)   == [source |-> "auto", key |-> k1, symbol |-> s, side |-> side]

\* The user (who may repeat the request with its key) and the automatic cycle
\* compete for one symbol.
UpbitRequests == {Manual(btc, "sell"), Auto(btc, "buy")}

\* Two callers of the automatic cycle, for progress.
TossRequests == {Auto(samsung, "buy")}

Symmetry == Permutations(Intents)
=============================================================================
