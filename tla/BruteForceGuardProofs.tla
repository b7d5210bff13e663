------------------------ MODULE BruteForceGuardProofs ------------------------
(***************************************************************************)
(* Proofs about BruteForceGuard, for every set of sources, every threshold *)
(* and all durations that satisfy GuardAssumption.                         *)
(***************************************************************************)
EXTENDS BruteForceGuard, TLAPS

(* What the history variables say of a record, and of a forgotten source.  *)
HistoryOf(s) ==
    /\ ~Known(s) => since[s] = 0 /\ mandated[s] = 0 /\ latest[s] = 0
    /\ Known(s) =>
        /\ since[s] <= records[s].lastSeen
        /\ records[s].lastSeen <= now
        /\ records[s].until <= records[s].lastSeen + MaxBlock
        /\ records[s].blocks = 0 =>
               records[s].until = 0 /\ mandated[s] = 0 /\ latest[s] = 0
        /\ records[s].blocks > 0 =>
               /\ latest[s] = BlockLength(records[s].blocks - 1)
               /\ mandated[s] <= records[s].until - since[s]

(* The inductive invariant. *)
GuardInv ==
    /\ TypeOK
    /\ attempt # Nobody => ~Blocked(attempt)
    /\ \A s \in Sources : HistoryOf(s)

-----------------------------------------------------------------------------
(* A block has a length between 1 and the cap. *)
LEMMA BlockLengthRange ==
    ASSUME NEW n \in Nat
    PROVE  BlockLength(n) \in 1 .. MaxBlock
<1>1. Lesser(n, 6) + 1 \in 1 .. 7
  BY DEF Lesser
<1>2. Doublings[Lesser(n, 6) + 1] \in {1, 2, 4, 8, 16, 32, 64}
  BY <1>1 DEF Doublings
<1>3. BaseBlock * Doublings[Lesser(n, 6) + 1] \in Nat \ {0}
  BY <1>2, GuardAssumption
<1>. QED
  BY <1>3, GuardAssumption DEF BlockLength, Lesser

(* One block after the other is twice as long, up to the cap: beyond the   *)
(* sixth doubling the cap is reached.                                      *)
LEMMA BlockLengthDoubles ==
    ASSUME NEW n \in Nat
    PROVE  BlockLength(n + 1) = Lesser(2 * BlockLength(n), MaxBlock)
<1>. USE GuardAssumption DEF Lesser, BlockLength, Doublings
<1>1. CASE n = 0
  BY <1>1
<1>2. CASE n = 1
  BY <1>2
<1>3. CASE n = 2
  BY <1>3
<1>4. CASE n = 3
  BY <1>4
<1>5. CASE n = 4
  BY <1>5
<1>6. CASE n = 5
  BY <1>6
<1>7. CASE n >= 6
  BY <1>7
<1>. QED
  BY <1>1, <1>2, <1>3, <1>4, <1>5, <1>6, <1>7

-----------------------------------------------------------------------------
LEMMA InitGuardInv == Init => GuardInv
BY GuardAssumption
   DEF Init, GuardInv, TypeOK, HistoryOf, Known, Blocked, Absent, Record

(* Forgetting a set of sources keeps what is said of all of them. *)
LEMMA DiscardKeeps ==
    ASSUME GuardInv, NEW S \in SUBSET Sources, Discard(S), now' = now
    PROVE  /\ TypeOK /\ records' \in [Sources -> Record \cup {Absent}]
           /\ since' \in [Sources -> Nat]
           /\ mandated' \in [Sources -> Nat]
           /\ latest' \in [Sources -> Nat]
           /\ \A s \in Sources : HistoryOf(s)'
           /\ \A s \in Sources : Blocked(s)' => Blocked(s)
<1>1. TypeOK /\ \A s \in Sources : HistoryOf(s)
  BY DEF GuardInv
<1>2. /\ records' \in [Sources -> Record \cup {Absent}]
      /\ since' \in [Sources -> Nat]
      /\ mandated' \in [Sources -> Nat]
      /\ latest' \in [Sources -> Nat]
  BY <1>1 DEF Discard, TypeOK
<1>3. ASSUME NEW s \in Sources
      PROVE  HistoryOf(s)' /\ (Blocked(s)' => Blocked(s))
  <2>1. CASE s \in S
    <3>1. records'[s] = Absent /\ since'[s] = 0 /\ mandated'[s] = 0 /\ latest'[s] = 0
      BY <2>1 DEF Discard
    <3>. QED
      BY <3>1, <1>1 DEF HistoryOf, Known, Blocked, Absent, TypeOK
  <2>2. CASE s \notin S
    <3>1. /\ records'[s] = records[s] /\ since'[s] = since[s]
          /\ mandated'[s] = mandated[s] /\ latest'[s] = latest[s]
      BY <2>2 DEF Discard
    <3>2. HistoryOf(s)
      BY <1>1
    <3>. QED
      BY <3>1, <3>2 DEF HistoryOf, Known, Blocked
  <2>. QED
    BY <2>1, <2>2
<1>. QED
  BY <1>1, <1>2, <1>3

(* A failed attempt: the block it arms starts after the last one ended,    *)
(* since a blocked source has no attempt.                                  *)
LEMMA RecordFailureKeeps ==
    ASSUME GuardInv, NEW s \in Sources, RecordFailure(s)
    PROVE  GuardInv'
<1>. DEFINE old == IF Known(s) THEN records[s] ELSE NewRecord
            length == BlockLength(old.blocks)
            first == IF Known(s) THEN since[s] ELSE now
<1>1. /\ TypeOK /\ HistoryOf(s) /\ ~Blocked(s) /\ now' = now /\ attempt' = Nobody
      /\ attempt = s
  BY GuardAssumption DEF GuardInv, RecordFailure
<1>2. /\ old \in Record /\ old.failures \in 0 .. Threshold - 1
      /\ old.blocks \in Nat /\ old.until \in Nat /\ old.lastSeen \in Nat
      /\ old.until <= now /\ old.lastSeen <= now /\ first \in Nat /\ first <= now
  BY <1>1, GuardAssumption
     DEF TypeOK, HistoryOf, Known, NewRecord, Record, Blocked, Absent
<1>3. /\ old.until <= old.lastSeen + MaxBlock
      /\ first <= old.lastSeen
      /\ old.blocks = 0 => old.until = 0 /\ mandated[s] = 0 /\ latest[s] = 0
      /\ old.blocks > 0 => /\ latest[s] = BlockLength(old.blocks - 1)
                           /\ mandated[s] <= old.until - first
  BY <1>1, GuardAssumption DEF TypeOK, HistoryOf, Known, NewRecord
<1>4. length \in 1 .. MaxBlock
  BY <1>2, BlockLengthRange
<1>5. CASE old.failures + 1 >= Threshold
  <2>1. /\ records' = [records EXCEPT ![s] =
               [failures |-> 0, blocks |-> old.blocks + 1,
                until |-> now + length, lastSeen |-> now]]
        /\ since' = [since EXCEPT ![s] = first]
        /\ mandated' = [mandated EXCEPT ![s] = @ + length]
        /\ latest' = [latest EXCEPT ![s] = length]
    BY <1>5 DEF RecordFailure
  <2>2. TypeOK'
    BY <2>1, <1>1, <1>2, <1>4, GuardAssumption DEF TypeOK, Record
  <2>3. HistoryOf(s)'
    <3>1. /\ records'[s] = [failures |-> 0, blocks |-> old.blocks + 1,
                            until |-> now + length, lastSeen |-> now]
          /\ since'[s] = first /\ mandated'[s] = mandated[s] + length
          /\ latest'[s] = length
      BY <2>1, <1>1 DEF TypeOK
    <3>2. mandated[s] <= now - first
      BY <1>1, <1>2, <1>3 DEF TypeOK
    <3>3. (old.blocks + 1) - 1 = old.blocks
      BY <1>2
    <3>4. Known(s)'
      BY <3>1, <1>1, <1>2 DEF Known, Absent, TypeOK
    <3>5. latest'[s] = BlockLength(records'[s].blocks - 1)
      BY <3>1, <3>3
    <3>6. /\ records'[s].lastSeen = now /\ records'[s].until = now + length
          /\ records'[s].blocks = old.blocks + 1
      BY <3>1
    <3>7. /\ now' = now /\ now \in Nat /\ mandated[s] \in Nat /\ first \in Nat
          /\ length \in Nat /\ length <= MaxBlock /\ MaxBlock \in Nat
          /\ old.blocks \in Nat /\ first <= now
      BY <1>1, <1>2, <1>4, GuardAssumption DEF TypeOK
    <3>. HIDE DEF length, first, old
    <3>8. /\ since'[s] <= records'[s].lastSeen
          /\ records'[s].lastSeen <= now'
          /\ records'[s].until <= records'[s].lastSeen + MaxBlock
          /\ records'[s].blocks # 0
          /\ mandated'[s] <= records'[s].until - since'[s]
      BY <3>1, <3>2, <3>6, <3>7
    <3>. QED
      BY <3>4, <3>5, <3>8 DEF HistoryOf
  <2>4. ASSUME NEW t \in Sources, t # s PROVE HistoryOf(t)'
    <3>1. HistoryOf(t)
      BY DEF GuardInv
    <3>. QED
      BY <3>1, <2>1, <2>4, <1>1 DEF HistoryOf, Known, TypeOK
  <2>. QED
    BY <2>2, <2>3, <2>4, <1>1 DEF GuardInv
<1>6. CASE ~(old.failures + 1 >= Threshold)
  <2>1. /\ records' = [records EXCEPT ![s] =
               [failures |-> old.failures + 1, blocks |-> old.blocks,
                until |-> old.until, lastSeen |-> now]]
        /\ since' = [since EXCEPT ![s] = first]
        /\ UNCHANGED <<mandated, latest>>
    BY <1>6 DEF RecordFailure
  <2>2. TypeOK'
    BY <2>1, <1>1, <1>2, <1>6, GuardAssumption DEF TypeOK, Record
  <2>3. HistoryOf(s)'
    <3>1. /\ records'[s] = [failures |-> old.failures + 1, blocks |-> old.blocks,
                            until |-> old.until, lastSeen |-> now]
          /\ since'[s] = first
      BY <2>1, <1>1 DEF TypeOK
    <3>2. /\ records'[s].blocks = old.blocks /\ records'[s].until = old.until
          /\ records'[s].lastSeen = now
      BY <3>1
    <3>3. Known(s)'
      BY <3>2, <1>1 DEF Known, Absent, TypeOK
    <3>. HIDE DEF length, first, old
    <3>. QED
      BY <3>1, <3>2, <3>3, <2>1, <1>1, <1>2, <1>3, GuardAssumption
         DEF HistoryOf, TypeOK
  <2>4. ASSUME NEW t \in Sources, t # s PROVE HistoryOf(t)'
    <3>1. HistoryOf(t)
      BY DEF GuardInv
    <3>. QED
      BY <3>1, <2>1, <2>4, <1>1 DEF HistoryOf, Known, TypeOK
  <2>. QED
    BY <2>2, <2>3, <2>4, <1>1 DEF GuardInv
<1>. QED
  BY <1>5, <1>6

(* Every step keeps the invariant. *)
LEMMA NextKeepsGuardInv == GuardInv /\ [Next]_vars => GuardInv'
<1>. SUFFICES ASSUME GuardInv, [Next]_vars PROVE GuardInv'
  OBVIOUS
<1>0. TypeOK /\ \A s \in Sources : HistoryOf(s)
  BY DEF GuardInv
<1>1. ASSUME NEW s \in Sources, Check(s) PROVE GuardInv'
  <2>1. /\ Discard({t \in Sources : Stale(t)}) /\ now' = now
        /\ attempt' = IF Blocked(s) THEN Nobody ELSE s
    BY <1>1 DEF Check
  <2>2. {t \in Sources : Stale(t)} \in SUBSET Sources
    OBVIOUS
  <2>. QED
    BY <2>1, <2>2, <1>0, DiscardKeeps DEF GuardInv, TypeOK
<1>2. ASSUME NEW s \in Sources, RecordFailure(s) PROVE GuardInv'
  BY <1>2, RecordFailureKeeps
<1>3. ASSUME NEW s \in Sources, RecordSuccess(s) PROVE GuardInv'
  <2>1. Discard({s}) /\ now' = now /\ attempt' = Nobody
    BY <1>3 DEF RecordSuccess
  <2>2. {s} \in SUBSET Sources
    OBVIOUS
  <2>. QED
    BY <2>1, <2>2, <1>0, DiscardKeeps DEF GuardInv, TypeOK
<1>4. ASSUME NEW s \in Sources, Abandon(s) PROVE GuardInv'
  BY <1>4, <1>0 DEF Abandon, GuardInv, TypeOK, HistoryOf, Known, history
<1>5. CASE Tick
  <2>1. now' = now + 1 /\ UNCHANGED <<records, attempt, history>>
    BY <1>5 DEF Tick
  <2>2. TypeOK'
    BY <2>1, <1>0 DEF TypeOK, history
  <2>3. attempt' # Nobody => ~Blocked(attempt)'
    BY <2>1, <1>0, GuardAssumption DEF GuardInv, Blocked, TypeOK, Record, Absent
  <2>4. ASSUME NEW s \in Sources PROVE HistoryOf(s)'
    <3>1. HistoryOf(s)
      BY <1>0
    <3>. QED
      BY <3>1, <2>1, <1>0 DEF HistoryOf, Known, TypeOK, Record, history
  <2>. QED
    BY <2>2, <2>3, <2>4 DEF GuardInv
<1>6. CASE UNCHANGED vars
  BY <1>6, <1>0 DEF vars, history, GuardInv, TypeOK, HistoryOf, Known, Blocked
<1>. QED
  BY <1>1, <1>2, <1>3, <1>4, <1>5, <1>6 DEF Next

(* The invariant holds in every reachable state. *)
THEOREM GuardInvariant == Spec => []GuardInv
BY InitGuardInv, NextKeepsGuardInv, PTL DEF Spec

(* The values of the guard have their types; in particular the count of    *)
(* failures stays below the threshold: it is reset when it arms a block.   *)
THEOREM GuardTypes == Spec => []TypeOK
<1>1. GuardInv => TypeOK
  BY DEF GuardInv
<1>. QED
  BY <1>1, GuardInvariant, PTL

(* An attempt let through has waited out all the blocks of its source. *)
THEOREM EveryBlockIsWaitedOut == Spec => []BlocksAreWaitedOut
<1>1. GuardInv => BlocksAreWaitedOut
  BY GuardAssumption
     DEF GuardInv, BlocksAreWaitedOut, TypeOK, HistoryOf, Known, Blocked, Absent,
         Record
<1>. QED
  BY <1>1, GuardInvariant, PTL

(* No block is longer than the cap, or outlives the history it is part of. *)
THEOREM HistoryOutlivesBlocks == Spec => []BlockEndsBeforeHistory
<1>1. GuardInv => BlockEndsBeforeHistory
  BY GuardAssumption
     DEF GuardInv, BlockEndsBeforeHistory, TypeOK, HistoryOf, Known, Blocked,
         Absent, Record
<1>. QED
  BY <1>1, GuardInvariant, PTL

-----------------------------------------------------------------------------
(* The step that lengthens a history: only a failure that arms a block     *)
(* does, and the block is twice the one before.                            *)
LEMMA BackoffStep ==
    ASSUME GuardInv, [Next]_vars, NEW s \in Sources,
           mandated'[s] > mandated[s], latest[s] > 0
    PROVE  records'[s].until - now = Lesser(2 * latest[s], MaxBlock)
<1>1. TypeOK /\ HistoryOf(s)
  BY DEF GuardInv
<1>2. ~ \E S \in SUBSET Sources : Discard(S)
  BY <1>1 DEF Discard, TypeOK
<1>3. mandated' # mandated
  BY <1>1 DEF TypeOK
<1>4. PICK t \in Sources : RecordFailure(t)
  <2>1. ~UNCHANGED vars /\ ~Tick /\ ~(\E t \in Sources : Abandon(t))
    BY <1>3 DEF vars, history, Tick, Abandon
  <2>2. \A t \in Sources : ~Check(t) /\ ~RecordSuccess(t)
    BY <1>2 DEF Check, RecordSuccess
  <2>. QED
    BY <2>1, <2>2 DEF Next
<1>5. t = s
  BY <1>1, <1>4 DEF RecordFailure, TypeOK
<1>6. Known(s) /\ records[s].blocks \in Nat \ {0}
  BY <1>1 DEF HistoryOf, TypeOK, Record, Known
<1>7. latest[s] = BlockLength(records[s].blocks - 1)
  BY <1>1, <1>6 DEF HistoryOf
<1>8. records'[s].until = now + BlockLength(records[s].blocks)
  <2>1. /\ mandated' # mandated
        /\ RecordFailure(s)
    BY <1>3, <1>4, <1>5
  <2>. QED
    BY <2>1, <1>1, <1>6 DEF RecordFailure, TypeOK
<1>9. BlockLength(records[s].blocks)
        = Lesser(2 * BlockLength(records[s].blocks - 1), MaxBlock)
  <2>1. /\ records[s].blocks - 1 \in Nat
        /\ (records[s].blocks - 1) + 1 = records[s].blocks
    BY <1>6
  <2>. QED
    BY <2>1, BlockLengthDoubles
<1>10. BlockLength(records[s].blocks) \in Nat /\ now \in Nat
  BY <1>1, <1>6, BlockLengthRange DEF TypeOK
<1>. QED
  BY <1>7, <1>8, <1>9, <1>10

(* Each block of a remembered source is twice as long as the one before,   *)
(* up to the cap.                                                          *)
THEOREM BlocksDouble == Spec => BackoffDoubles
<1>1. GuardInv /\ [Next]_vars =>
        [\A s \in Sources :
            mandated'[s] > mandated[s] /\ latest[s] > 0 =>
                records'[s].until - now = Lesser(2 * latest[s], MaxBlock)]_vars
  BY BackoffStep
<1>. QED
  BY <1>1, GuardInvariant, PTL DEF Spec, BackoffDoubles

-----------------------------------------------------------------------------
(* Each step of the guard is a step of the lockout, or changes nothing it  *)
(* speaks of.                                                              *)
LEMMA StepIsLockoutStep ==
    GuardInv /\ [Next]_vars => [Contract!Next]_(Contract!lockoutVars)
<1>. SUFFICES ASSUME GuardInv, [Next]_vars
              PROVE  [Contract!Next]_(Contract!lockoutVars)
  OBVIOUS
<1>. DEFINE Strikes == [s \in Sources |-> records[s].failures]
            Blocks == {s \in Sources : Blocked(s)}
<1>0. TypeOK /\ TypeOK'
  BY NextKeepsGuardInv DEF GuardInv
<1>1. ASSUME NEW s \in Sources, Check(s) PROVE Contract!Next
  <2>. DEFINE S == {t \in Sources : Stale(t)}
  <2>1. Discard(S) /\ now' = now
    BY <1>1 DEF Check
  <2>2. S \cap Blocks = {}
    BY DEF Stale
  <2>3. Strikes' = [t \in Sources |-> IF t \in S THEN 0 ELSE Strikes[t]]
    BY <2>1 DEF Discard, Absent
  <2>4. Blocks' = Blocks
    BY <2>1, <2>2, <1>0 DEF Discard, Absent, Blocked, TypeOK
  <2>5. S \in SUBSET Sources
    OBVIOUS
  <2>. HIDE DEF S
  <2>. QED
    BY <2>2, <2>3, <2>4, <2>5 DEF Contract!Forget, Contract!Next
<1>2. ASSUME NEW s \in Sources, RecordFailure(s) PROVE Contract!Next
  <2>. DEFINE old == IF Known(s) THEN records[s] ELSE NewRecord
  <2>1. s \notin Blocks /\ now' = now
    BY <1>2, GuardAssumption DEF GuardInv, RecordFailure
  <2>2. old.failures = Strikes[s] /\ old.failures \in Nat /\ old.blocks \in Nat
    BY <1>0, GuardAssumption DEF Known, NewRecord, Absent, TypeOK, Record
  <2>3. CASE old.failures + 1 >= Threshold
    <3>1. records' = [records EXCEPT ![s] =
              [failures |-> 0, blocks |-> old.blocks + 1,
               until |-> now + BlockLength(old.blocks), lastSeen |-> now]]
      BY <1>2, <2>3 DEF RecordFailure
    <3>2. Strikes' = [Strikes EXCEPT ![s] = 0]
      BY <3>1, <1>0 DEF TypeOK
    <3>3. now + BlockLength(old.blocks) > now
      BY <2>2, <1>0, BlockLengthRange, GuardAssumption DEF TypeOK
    <3>4. Blocked(s)'
      BY <3>1, <3>3, <2>1, <1>0 DEF Blocked, TypeOK
    <3>5. \A t \in Sources \ {s} : Blocked(t)' = Blocked(t)
      BY <3>1, <2>1, <1>0 DEF Blocked, TypeOK
    <3>6. Blocks' = Blocks \cup {s}
      BY <3>4, <3>5
    <3>. QED
      BY <2>1, <2>2, <2>3, <3>2, <3>6 DEF Contract!Strike, Contract!Next
  <2>4. CASE ~(old.failures + 1 >= Threshold)
    <3>1. records' = [records EXCEPT ![s] =
              [failures |-> old.failures + 1, blocks |-> old.blocks,
               until |-> old.until, lastSeen |-> now]]
      BY <1>2, <2>4 DEF RecordFailure
    <3>2. Strikes' = [Strikes EXCEPT ![s] = @ + 1]
      BY <3>1, <2>2, <1>0 DEF TypeOK
    <3>3. old.until = records[s].until
      BY DEF Known, NewRecord, Absent
    <3>4. \A t \in Sources : Blocked(t)' = Blocked(t)
      BY <3>1, <3>3, <2>1, <1>0 DEF Blocked, TypeOK
    <3>5. Blocks' = Blocks
      BY <3>4
    <3>6. Strikes[s] + 1 < Threshold
      BY <2>2, <2>4, GuardAssumption
    <3>. QED
      BY <2>1, <3>2, <3>5, <3>6 DEF Contract!Strike, Contract!Next
  <2>. QED
    BY <2>3, <2>4
<1>3. ASSUME NEW s \in Sources, RecordSuccess(s) PROVE Contract!Next
  <2>1. Discard({s}) /\ now' = now
    BY <1>3 DEF RecordSuccess
  <2>2. Strikes' = [Strikes EXCEPT ![s] = 0]
    BY <2>1 DEF Discard, Absent
  <2>3. Blocks' = Blocks \ {s}
    BY <2>1, <1>0 DEF Discard, Absent, Blocked, TypeOK
  <2>. QED
    BY <2>2, <2>3 DEF Contract!Clear, Contract!Next
<1>4. ASSUME NEW s \in Sources, Abandon(s) PROVE UNCHANGED <<Strikes, Blocks>>
  BY <1>4 DEF Abandon, Blocked
<1>5. CASE Tick
  <2>1. now' = now + 1 /\ records' = records /\ now \in Nat
    BY <1>5, <1>0 DEF Tick, TypeOK
  <2>2. Strikes' = Strikes
    BY <2>1
  <2>3. \A s \in Sources : Blocked(s)' => Blocked(s)
    BY <2>1, <1>0 DEF Blocked, TypeOK, Record, Absent
  <2>4. Blocks' = Blocks \ (Blocks \ Blocks')
    BY <2>3
  <2>5. Blocks \ Blocks' \in SUBSET Sources
    OBVIOUS
  <2>6. Contract!Lapse(Blocks \ Blocks')
    BY <2>2, <2>4 DEF Contract!Lapse
  <2>. QED
    BY <2>5, <2>6 DEF Contract!Next
<1>6. CASE UNCHANGED vars
  <2>1. UNCHANGED <<Strikes, Blocks>>
    BY <1>6 DEF vars, Blocked
  <2>. QED
    BY <2>1 DEF Contract!lockoutVars
<1>. QED
  BY <1>1, <1>2, <1>3, <1>4, <1>5, <1>6 DEF Next, Contract!lockoutVars

(* The guard with its deadlines implements the lockout without a clock     *)
(* that the host service is built on: what is shown of the host with the   *)
(* lockout holds with the guard.                                           *)
THEOREM GuardImplementsLockout == Spec => ImplementsLockout
<1>1. Init => Contract!Init
  BY GuardAssumption DEF Init, Contract!Init, Absent, Blocked
<1>. QED
  BY <1>1, StepIsLockoutStep, GuardInvariant, PTL
     DEF Spec, ImplementsLockout, Contract!Spec
=============================================================================
