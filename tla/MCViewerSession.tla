-------------------------- MODULE MCViewerSession --------------------------
(* Instances of ViewerSession for TLC. *)
EXTENDS ViewerSession

CONSTANTS lan, net, h1, h2

(* At first one host is behind both targets.                               *)
SameHost == [t \in Targets |-> h1]
=============================================================================
