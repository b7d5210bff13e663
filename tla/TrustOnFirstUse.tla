--------------------------- MODULE TrustOnFirstUse ---------------------------
(***************************************************************************)
(* What the viewer promises about the identity of hosts (docs/protocol.md, *)
(* "Pinning de identidade do alvo"): the identity of the first connection  *)
(* to a target is kept, and a later one to another identity is refused.    *)
(* An attempt goes by what was kept when it asked: two first connections   *)
(* at the same time may both be let in, and the later one is kept.         *)
(* Addresses, look-ups, certificates and sessions are not said here;       *)
(* ViewerSession implements it.                                            *)
(***************************************************************************)
CONSTANTS
    Targets,    \* the keys a host is remembered under
    Ids,        \* the identities of hosts
    Attempts,   \* the attempts to connect
    NoId, NoTarget

VARIABLES
    pins,       \* pins[t]: the identity kept for t
    stage,      \* stage[a]: "out", "asking", "in" or "over"
    asks,       \* asks[a]: the target a asks for
    basis       \* basis[a]: what was kept for it when it asked

vars == <<pins, stage, asks, basis>>

Init ==
    /\ pins = [t \in Targets |-> NoId]
    /\ stage = [a \in Attempts |-> "out"]
    /\ asks = [a \in Attempts |-> NoTarget]
    /\ basis = [a \in Attempts |-> NoId]

Ask(a, t) ==
    /\ stage[a] = "out"
    /\ stage' = [stage EXCEPT ![a] = "asking"]
    /\ asks' = [asks EXCEPT ![a] = t]
    /\ basis' = [basis EXCEPT ![a] = pins[t]]
    /\ UNCHANGED pins

(* Whoever is let in is who was kept before, and is kept from now on.      *)
Admit(a, id) ==
    /\ stage[a] = "asking" /\ basis[a] \in {NoId, id}
    /\ stage' = [stage EXCEPT ![a] = "in"]
    /\ pins' = [pins EXCEPT ![asks[a]] = id]
    /\ UNCHANGED <<asks, basis>>

(* The attempt is refused or fails, or the connect is over; a session it   *)
(* has brought about goes on.                                              *)
Over(a) ==
    /\ stage[a] # "over"
    /\ stage' = [stage EXCEPT ![a] = "over"]
    /\ asks' = [asks EXCEPT ![a] = NoTarget]
    /\ basis' = [basis EXCEPT ![a] = NoId]
    /\ UNCHANGED pins

Next ==
    \E a \in Attempts :
        \/ \E t \in Targets : Ask(a, t)
        \/ \E id \in Ids : Admit(a, id)
        \/ Over(a)

Spec == Init /\ [][Next]_vars
=============================================================================
