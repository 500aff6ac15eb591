------------------------- MODULE MCIdempotencyKeys -------------------------
(* A small instance of IdempotencyKeys for TLC. *)
EXTENDS IdempotencyKeys, TLC

Symmetry == Permutations(Keys) \cup Permutations(Inodes)
=============================================================================
