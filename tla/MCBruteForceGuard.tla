------------------------- MODULE MCBruteForceGuard -------------------------
(* An instance of BruteForceGuard for TLC. *)
EXTENDS BruteForceGuard, TLC

CONSTANTS a, b

Interchangeable == Permutations(Sources)
=============================================================================
