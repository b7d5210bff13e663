--------------------------- MODULE MCRegistration ---------------------------
(* Instances of Registration for TLC. *)
EXTENDS Registration, TLC

CONSTANTS h1, h2, i1, i2

Symmetry == Permutations(Hosts) \cup Permutations(Ids)
=============================================================================
