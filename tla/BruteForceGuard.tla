--------------------------- MODULE BruteForceGuard ---------------------------
(***************************************************************************)
(* The brute-force limiter of crates/security: per source a count of       *)
(* failures, and blocks that double up to a cap; used the way `authenticate` *)
(* uses it: one attempt at a time is checked, and then fails, succeeds or  *)
(* is abandoned, any time later.  Instants are natural numbers; in the     *)
(* instances one unit is BASE_BLOCK, 15 seconds.                           *)
(***************************************************************************)
EXTENDS Integers

CONSTANTS
    Sources,     \* the addresses attempts come from
    Threshold,   \* FAILURES_BEFORE_BLOCK
    BaseBlock,   \* BASE_BLOCK
    MaxBlock,    \* MAX_BLOCK
    HistoryTTL,  \* HISTORY_TTL
    Nobody,      \* no attempt
    MaxTime      \* bound: the last instant

ASSUME GuardAssumption ==
    /\ Threshold \in Nat \ {0}
    /\ BaseBlock \in Nat \ {0}
    /\ MaxBlock \in Nat
    /\ BaseBlock <= MaxBlock
    /\ MaxBlock <= 64 * BaseBlock
    /\ HistoryTTL \in Nat
    /\ MaxBlock < HistoryTTL
    /\ Nobody \notin Sources
    /\ MaxTime \in Nat

VARIABLES
    now,         \* Instant::now()
    records,     \* the HashMap, with Absent for the addresses it lacks
    attempt,     \* the source whose attempt passed the check, or Nobody
    since,       \* history: the first failure of the record
    mandated,    \* history: the total length of the blocks of the record
    latest       \* history: the length of its latest block, 0 before any

history == <<since, mandated, latest>>
vars == <<now, records, attempt, history>>

-----------------------------------------------------------------------------
(* `until` is blocked_until, 0 for None: no block ends at instant 0. *)
Record ==
    [failures : 0 .. Threshold - 1, blocks : Nat, until : Nat, lastSeen : Nat]

Absent == [failures |-> 0, blocks |-> 0, until |-> 0, lastSeen |-> -1]

NewRecord == [failures |-> 0, blocks |-> 0, until |-> 0, lastSeen |-> now]

Lesser(m, n) == IF m <= n THEN m ELSE n

(* 1 << shift, for the shifts the code allows. *)
Doublings == <<1, 2, 4, 8, 16, 32, 64>>

(* Mutant: the cap is missing. *)
BlockLengthUncapped(blocks) == BaseBlock * Doublings[Lesser(blocks, 6) + 1]

(* Mutant: the second block is as long as the first. *)
BlockLengthLate(blocks) ==
    Lesser(BaseBlock * Doublings[IF blocks = 0 THEN 1 ELSE Lesser(blocks, 6)],
           MaxBlock)

(* BASE_BLOCK << min(blocks, 6), saturated at MAX_BLOCK. *)
BlockLength(blocks) ==
    Lesser(BaseBlock * Doublings[Lesser(blocks, 6) + 1], MaxBlock)

Known(s) == records[s] # Absent
Blocked(s) == records[s].until > now

(* What `expire` drops: records idle for HISTORY_TTL and not blocked. *)
Stale(s) == Known(s) /\ ~(now - records[s].lastSeen < HistoryTTL) /\ ~Blocked(s)

(* The history of the sources that leave the map ends. *)
Discard(S) ==
    /\ records' = [s \in Sources |-> IF s \in S THEN Absent ELSE records[s]]
    /\ since' = [s \in Sources |-> IF s \in S THEN 0 ELSE since[s]]
    /\ mandated' = [s \in Sources |-> IF s \in S THEN 0 ELSE mandated[s]]
    /\ latest' = [s \in Sources |-> IF s \in S THEN 0 ELSE latest[s]]

Init ==
    /\ now = 0
    /\ records = [s \in Sources |-> Absent]
    /\ attempt = Nobody
    /\ since = [s \in Sources |-> 0]
    /\ mandated = [s \in Sources |-> 0]
    /\ latest = [s \in Sources |-> 0]

(* Mutant: the check answers Allow whatever the record says. *)
CheckAlways(s) ==
    /\ attempt = Nobody
    /\ Discard({t \in Sources : Stale(t)})
    /\ attempt' = s
    /\ UNCHANGED now

(* check: first expire, then Allow or Blocked.  The host asks for one      *)
(* connection at a time.                                                   *)
Check(s) ==
    /\ attempt = Nobody
    /\ Discard({t \in Sources : Stale(t)})
    /\ attempt' = IF Blocked(s) THEN Nobody ELSE s
    /\ UNCHANGED now

(* Mutant: the count survives the block it armed. *)
RecordFailureKeepsCount(s) ==
    /\ attempt = s
    /\ LET old == IF Known(s) THEN records[s] ELSE NewRecord IN
       records' = [records EXCEPT ![s] =
           [old EXCEPT !.failures = @ + 1, !.lastSeen = now,
                       !.until = IF old.failures + 1 >= Threshold
                                 THEN now + BlockLength(old.blocks) ELSE @]]
    /\ attempt' = Nobody
    /\ UNCHANGED <<now, history>>

(* record_failure for the attempt under way: the failure that reaches the  *)
(* threshold arms a block and starts a new count.                          *)
RecordFailure(s) ==
    /\ attempt = s
    /\ LET old == IF Known(s) THEN records[s] ELSE NewRecord
           length == BlockLength(old.blocks)
           first == IF Known(s) THEN since[s] ELSE now
       IN  IF old.failures + 1 >= Threshold
           THEN /\ records' = [records EXCEPT ![s] =
                       [failures |-> 0, blocks |-> old.blocks + 1,
                        until |-> now + length, lastSeen |-> now]]
                /\ since' = [since EXCEPT ![s] = first]
                /\ mandated' = [mandated EXCEPT ![s] = @ + length]
                /\ latest' = [latest EXCEPT ![s] = length]
           ELSE /\ records' = [records EXCEPT ![s] =
                       [failures |-> old.failures + 1, blocks |-> old.blocks,
                        until |-> old.until, lastSeen |-> now]]
                /\ since' = [since EXCEPT ![s] = first]
                /\ UNCHANGED <<mandated, latest>>
    /\ attempt' = Nobody
    /\ UNCHANGED now

(* record_success. *)
RecordSuccess(s) ==
    /\ attempt = s
    /\ Discard({s})
    /\ attempt' = Nobody
    /\ UNCHANGED now

(* The user declined: the guard is told nothing. *)
Abandon(s) ==
    /\ attempt = s
    /\ attempt' = Nobody
    /\ UNCHANGED <<now, records, history>>

Tick ==
    /\ now < MaxTime
    /\ now' = now + 1
    /\ UNCHANGED <<records, attempt, history>>

Next ==
    \/ \E s \in Sources :
           Check(s) \/ RecordFailure(s) \/ RecordSuccess(s) \/ Abandon(s)
    \/ Tick

Spec == Init /\ [][Next]_vars

-----------------------------------------------------------------------------
(* Type invariant. *)
TypeOK ==
    /\ now \in Nat
    /\ records \in [Sources -> Record \cup {Absent}]
    /\ attempt \in Sources \cup {Nobody}
    /\ since \in [Sources -> Nat]
    /\ mandated \in [Sources -> Nat]
    /\ latest \in [Sources -> Nat]

(* An attempt that is let through has waited out every block its source    *)
(* was given since its first failure: n blocks cost at least the sum of    *)
(* their lengths, so guessing slows down the way the backoff says.         *)
BlocksAreWaitedOut ==
    attempt # Nobody => now - since[attempt] >= mandated[attempt]

(* Forgetting never shortens a block: a block ends before the history that *)
(* carries the escalation is old enough to be dropped, and no source is    *)
(* told to wait longer than the cap.                                       *)
BlockEndsBeforeHistory ==
    \A s \in Sources : Blocked(s) =>
        /\ records[s].until - now <= MaxBlock
        /\ now - records[s].lastSeen < HistoryTTL

(* Backoff: as long as a source is remembered, each block it is given is   *)
(* twice as long as the one before, up to the cap.                         *)
BackoffDoubles ==
    [][\A s \in Sources :
          mandated'[s] > mandated[s] /\ latest[s] > 0 =>
              records'[s].until - now = Lesser(2 * latest[s], MaxBlock)]_vars

(* The guard implements the lockout the host service relies on. *)
Contract == INSTANCE Lockout WITH
    strikes <- [s \in Sources |-> records[s].failures],
    blocked <- {s \in Sources : Blocked(s)}

ImplementsLockout == Contract!Spec
=============================================================================
