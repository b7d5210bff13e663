---------------------------- MODULE HostContract ----------------------------
(***************************************************************************)
(* What a host promises, whatever the handshake, the approval and the      *)
(* channels look like: one viewer at a time, let in with the code of the   *)
(* moment, which nobody used before, and no new code while it is in.       *)
(***************************************************************************)
EXTENDS Naturals

CONSTANTS Viewers, None

VARIABLES
    issued,     \* the number of codes issued so far; `issued` is the newest
    active,     \* the viewer that is in
    admitted    \* admitted[v]: the code v was let in with, 0 if it never was

contractVars == <<issued, active, admitted>>

Init ==
    /\ issued = 0
    /\ active = None
    /\ admitted = [v \in Viewers |-> 0]

Issue ==
    /\ active = None
    /\ issued' = issued + 1
    /\ UNCHANGED <<active, admitted>>

Admit(v) ==
    /\ active = None
    /\ issued > 0
    /\ admitted[v] = 0
    /\ \A w \in Viewers : admitted[w] # issued
    /\ active' = v
    /\ admitted' = [admitted EXCEPT ![v] = issued]
    /\ UNCHANGED issued

Dismiss ==
    /\ active # None
    /\ active' = None
    /\ UNCHANGED <<issued, admitted>>

Next == Issue \/ Dismiss \/ \E v \in Viewers : Admit(v)

Spec == Init /\ [][Next]_contractVars
=============================================================================
