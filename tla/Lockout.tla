------------------------------- MODULE Lockout -------------------------------
(***************************************************************************)
(* What the host expects of its brute-force guard, without the clock: each *)
(* source has a number of strikes since its last block, and Threshold      *)
(* strikes block it.  A block lapses some time later, and idle sources are *)
(* forgotten some time later; when, is the business of BruteForceGuard,    *)
(* which implements this specification with deadlines.                     *)
(***************************************************************************)
EXTENDS Naturals

CONSTANTS
    Sources,    \* the addresses attempts come from
    Threshold   \* FAILURES_BEFORE_BLOCK, positive

VARIABLES
    strikes,    \* strikes[s]: failures of s not yet turned into a block
    blocked     \* the sources whose attempts are refused unread

lockoutVars == <<strikes, blocked>>

Init ==
    /\ strikes = [s \in Sources |-> 0]
    /\ blocked = {}

(* Mutant: the block is armed and the strikes are not reset. *)
StrikeKeepsCount(s) ==
    /\ strikes' = [strikes EXCEPT ![s] = @ + 1]
    /\ blocked' = IF strikes'[s] >= Threshold THEN blocked \cup {s} ELSE blocked

(* A failed attempt.  Nobody verifies an attempt of a blocked source, so a *)
(* blocked source collects no strikes.                                     *)
Strike(s) ==
    /\ s \notin blocked
    /\ \/ /\ strikes[s] + 1 < Threshold
          /\ strikes' = [strikes EXCEPT ![s] = @ + 1]
          /\ UNCHANGED blocked
       \/ /\ strikes[s] + 1 >= Threshold
          /\ strikes' = [strikes EXCEPT ![s] = 0]
          /\ blocked' = blocked \cup {s}

(* A successful attempt wipes the slate. *)
Clear(s) ==
    /\ strikes' = [strikes EXCEPT ![s] = 0]
    /\ blocked' = blocked \ {s}

(* Time passes: some blocks run out. *)
Lapse(S) ==
    /\ blocked' = blocked \ S
    /\ UNCHANGED strikes

(* Time passes: some sources that are not blocked are forgotten. *)
Forget(S) ==
    /\ S \cap blocked = {}
    /\ strikes' = [s \in Sources |-> IF s \in S THEN 0 ELSE strikes[s]]
    /\ UNCHANGED blocked

Next ==
    \/ \E s \in Sources : Strike(s) \/ Clear(s)
    \/ \E S \in SUBSET Sources : Lapse(S) \/ Forget(S)

Spec == Init /\ [][Next]_lockoutVars

TypeOK ==
    /\ strikes \in [Sources -> 0 .. Threshold - 1]
    /\ blocked \subseteq Sources
=============================================================================
