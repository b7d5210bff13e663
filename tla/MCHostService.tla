--------------------------- MODULE MCHostService ---------------------------
(* Instances of HostService for TLC. *)
EXTENDS HostService

CONSTANTS v1, v2, lan, zero

(* Every viewer dials from the same machine of the local network. *)
OneMachine == [v \in Viewers |-> lan]

(* Attempts from one machine are interchangeable. *)
Interchangeable == Permutations(Viewers)
=============================================================================
