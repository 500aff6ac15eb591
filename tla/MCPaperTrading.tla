--------------------------- MODULE MCPaperTrading ---------------------------
(* Small instances of PaperTrading for TLC: cycles are interchangeable. *)
EXTENDS PaperTrading, TLC

Symmetry == Permutations(Cycles)
=============================================================================
