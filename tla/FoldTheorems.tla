---- MODULE FoldTheorems ----
(***************************************************************************)
(* FoldLeft on sequences of any length: what it is on the empty sequence,  *)
(* what an element put at the end adds, and what one taken off the front   *)
(* leaves.  The induction is over sets of numbers.                         *)
(***************************************************************************)
EXTENDS SequencesExt, SequenceTheorems, WellFoundedInduction, TLAPS

CONSTANT Op(_, _)

(* The least element of a set of numbers.                                  *)
LEMMA LeastNat ==
    ASSUME NEW T \in SUBSET Nat, T # {}
    PROVE  \E x \in T : \A y \in T : x =< y
<1>. DEFINE R == OpToRel(<, Nat)
<1>1. IsWellFoundedOn(R, Nat)
  BY NatLessThanWellFounded
<1>2. \A x, y \in Nat : <<y, x>> \in R <=> y < x
  BY DEF OpToRel
<1>. HIDE DEF R
<1>3. PICK x \in T : \A y \in T : ~ (<<y, x>> \in R)
  BY <1>1, WFMin
<1>4. ASSUME NEW y \in T PROVE x =< y
  <2>1. x \in Nat /\ y \in Nat /\ ~ (y < x)
    BY <1>2, <1>3
  <2>. QED
    BY <2>1
<1>. QED
  BY <1>4

(* Induction, for a set in the place of a predicate.                       *)
LEMMA SetInduction ==
    ASSUME NEW T, 0 \in T, \A n \in Nat : n \in T => n + 1 \in T
    PROVE  Nat \subseteq T
<1>. SUFFICES ASSUME Nat \ T # {} PROVE FALSE
  OBVIOUS
<1>1. PICK n \in Nat \ T : \A m \in Nat \ T : n =< m
  BY LeastNat
<1>2. n # 0 /\ n - 1 \in Nat /\ n - 1 + 1 = n
  OBVIOUS
<1>3. n - 1 \in T
  BY <1>1, <1>2
<1>. QED
  BY <1>2, <1>3

(* The function by which FoldLeft is defined: its value on the first n      *)
(* places is the fold of the first n elements.                             *)
Iter(p, s) ==
    CHOOSE iter :
        iter = [d \in SUBSET DOMAIN s |->
                   IF d = {} THEN p ELSE Op(iter[d \ {Max(d)}], s[Max(d)])]

(* FoldLeft asks for the value of that function on all of the sequence.    *)
LEMMA FoldIsIter ==
    ASSUME NEW p, NEW s
    PROVE  FoldLeft(Op, p, s) = Iter(p, s)[DOMAIN s]
BY DEF FoldLeft, MapThenFoldSet, Iter

(* The last place of a prefix.                                             *)
LEMMA MaxOfTop ==
    ASSUME NEW n \in Nat, NEW d \in SUBSET (1 .. n), n \in d
    PROVE  Max(d) = n
<1>1. n \in d /\ \A i \in d : n >= i
  OBVIOUS
<1>2. \A m \in d : (\A i \in d : m >= i) => m = n
  OBVIOUS
<1>. QED
  BY <1>1, <1>2 DEF Max

(* The recursion of FoldLeft is well founded.                              *)
LEMMA IterDefined ==
    ASSUME NEW p, NEW s, NEW k \in Nat, DOMAIN s = 1 .. k
    PROVE  \E f : /\ f = Iter(p, s)
                  /\ \A d \in SUBSET (1 .. k) :
                         f[d] = IF d = {} THEN p ELSE Op(f[d \ {Max(d)}], s[Max(d)])
<1>. DEFINE Solves(g, n) ==
              g = [d \in SUBSET (1 .. n) |->
                     IF d = {} THEN p ELSE Op(g[d \ {Max(d)}], s[Max(d)])]
            T == {n \in Nat : \E g : Solves(g, n)}
<1>1. 0 \in T
  <2>. DEFINE g == [d \in SUBSET (1 .. 0) |-> p]
  <2>1. \A d \in SUBSET (1 .. 0) : d = {}
    OBVIOUS
  <2>2. Solves(g, 0)
    BY <2>1
  <2>. QED
    BY <2>2
<1>2. ASSUME NEW n \in Nat, n \in T PROVE n + 1 \in T
  <2>1. PICK g : Solves(g, n)
    BY <1>2
  <2>. DEFINE h == [d \in SUBSET (1 .. n + 1) |->
                       IF n + 1 \in d THEN Op(g[d \ {n + 1}], s[n + 1]) ELSE g[d]]
  <2>2. ASSUME NEW d \in SUBSET (1 .. n + 1)
        PROVE  h[d] = IF d = {} THEN p ELSE Op(h[d \ {Max(d)}], s[Max(d)])
    <3>1. CASE n + 1 \in d
      <4>1. Max(d) = n + 1 /\ d \ {n + 1} \in SUBSET (1 .. n + 1) /\ d # {}
        BY <3>1, MaxOfTop
      <4>2. h[d \ {n + 1}] = g[d \ {n + 1}]
        BY <4>1
      <4>. QED
        BY <3>1, <4>1, <4>2
    <3>2. CASE n + 1 \notin d
      <4>1. d \in SUBSET (1 .. n)
        BY <3>2
      <4>2. h[d] = g[d] /\ g[d] = IF d = {} THEN p ELSE Op(g[d \ {Max(d)}], s[Max(d)])
        BY <2>1, <3>2, <4>1
      <4>3. h[d \ {Max(d)}] = g[d \ {Max(d)}]
        BY <3>2, <4>1
      <4>. QED
        BY <4>2, <4>3
    <3>. QED
      BY <3>1, <3>2
  <2>3. Solves(h, n + 1)
    BY <2>2
  <2>. HIDE DEF h, Solves
  <2>. QED
    BY <2>3
<1>. HIDE DEF Solves
<1>3. k \in T
  <2>. HIDE DEF T
  <2>. QED
    BY <1>1, <1>2, SetInduction
<1>4. PICK g : Solves(g, k)
  BY <1>3
<1>5. Iter(p, s) = [d \in SUBSET (1 .. k) |->
                       IF d = {} THEN p
                       ELSE Op(Iter(p, s)[d \ {Max(d)}], s[Max(d)])]
  BY <1>4 DEF Iter, Solves
<1>6. PICK f : f = Iter(p, s)
  OBVIOUS
<1>7. f = [d \in SUBSET (1 .. k) |->
              IF d = {} THEN p ELSE Op(f[d \ {Max(d)}], s[Max(d)])]
  BY <1>5, <1>6
<1>. QED
  BY <1>6, <1>7

(* The values of FoldLeft on the prefixes of s.                            *)
LEMMA IterSteps ==
    ASSUME NEW p, NEW s, NEW k \in Nat, DOMAIN s = 1 .. k
    PROVE  /\ Iter(p, s)[1 .. 0] = p
           /\ \A i \in 1 .. k : Iter(p, s)[1 .. i] = Op(Iter(p, s)[1 .. (i - 1)], s[i])
<1>1. PICK f : /\ f = Iter(p, s)
               /\ \A d \in SUBSET (1 .. k) :
                      f[d] = IF d = {} THEN p ELSE Op(f[d \ {Max(d)}], s[Max(d)])
  BY IterDefined
<1>2. f[1 .. 0] = p
  <2>1. 1 .. 0 = {} /\ {} \in SUBSET (1 .. k)
    OBVIOUS
  <2>. QED
    BY <1>1, <2>1
<1>3. ASSUME NEW i \in 1 .. k PROVE f[1 .. i] = Op(f[1 .. (i - 1)], s[i])
  <2>1. /\ 1 .. i \in SUBSET (1 .. k) /\ 1 .. i # {}
        /\ i \in 1 .. i /\ 1 .. i \in SUBSET (1 .. i) /\ i \in Nat
        /\ (1 .. i) \ {i} = 1 .. (i - 1)
    OBVIOUS
  <2>2. Max(1 .. i) = i
    BY <2>1, MaxOfTop
  <2>. QED
    BY <1>1, <2>1, <2>2
<1>. QED
  BY <1>1, <1>2, <1>3

(* Nothing told: the panel of the host shows what it showed.               *)
LEMMA FoldLeftEmpty ==
    ASSUME NEW p
    PROVE  FoldLeft(Op, p, <<>>) = p
<1>1. DOMAIN <<>> = 1 .. 0 /\ 0 \in Nat
  OBVIOUS
<1>2. Iter(p, <<>>)[1 .. 0] = p
  BY <1>1, IterSteps
<1>. QED
  BY <1>1, <1>2, FoldIsIter

(* An event told last is shown last: the panel that has read the events of *)
(* the host up to here goes on with the next one.                          *)
LEMMA FoldLeftAppend ==
    ASSUME NEW p, NEW S, NEW s \in Seq(S), NEW e \in S
    PROVE  FoldLeft(Op, p, Append(s, e)) = Op(FoldLeft(Op, p, s), e)
<1>. DEFINE t == Append(s, e)
            k == Len(s)
            f == Iter(p, s)
            g == Iter(p, t)
            T == {n \in Nat : n =< k => g[1 .. n] = f[1 .. n]}
<1>1. /\ k \in Nat /\ DOMAIN s = 1 .. k /\ DOMAIN t = 1 .. k + 1
      /\ \A i \in 1 .. k : t[i] = s[i]
      /\ t[k + 1] = e
  BY AppendProperties, LenProperties
<1>. HIDE DEF t, k
<1>2. /\ f[1 .. 0] = p
      /\ \A i \in 1 .. k : f[1 .. i] = Op(f[1 .. (i - 1)], s[i])
  BY <1>1, IterSteps
<1>3. /\ g[1 .. 0] = p
      /\ \A i \in 1 .. k + 1 : g[1 .. i] = Op(g[1 .. (i - 1)], t[i])
  BY <1>1, IterSteps
<1>4. FoldLeft(Op, p, s) = f[1 .. k] /\ FoldLeft(Op, p, t) = g[1 .. k + 1]
  BY <1>1, FoldIsIter
<1>. HIDE DEF f, g
<1>5. 0 \in T
  BY <1>2, <1>3
<1>6. ASSUME NEW n \in Nat, n \in T PROVE n + 1 \in T
  <2>. SUFFICES ASSUME n + 1 =< k PROVE g[1 .. n + 1] = f[1 .. n + 1]
    OBVIOUS
  <2>1. n + 1 \in 1 .. k /\ n + 1 \in 1 .. k + 1 /\ n + 1 - 1 = n
    BY <1>1
  <2>. QED
    BY <1>1, <1>2, <1>3, <1>6, <2>1
<1>7. k \in T
  <2>. HIDE DEF T
  <2>. QED
    BY <1>1, <1>5, <1>6, SetInduction
<1>8. k + 1 \in 1 .. k + 1 /\ k + 1 - 1 = k
  BY <1>1
<1>. QED
  BY <1>1, <1>3, <1>4, <1>7, <1>8 DEF t

(* Events are read from the front: what the panel shows after the first of *)
(* them and then the others is what it shows after all of them.            *)
LEMMA FoldLeftTail ==
    ASSUME NEW p, NEW S, NEW s \in Seq(S), s # <<>>
    PROVE  FoldLeft(Op, p, s) = FoldLeft(Op, Op(p, Head(s)), Tail(s))
<1>. DEFINE t == Tail(s)
            q == Op(p, Head(s))
            k == Len(t)
            f == Iter(p, s)
            g == Iter(q, t)
            T == {n \in Nat : n =< k => f[1 .. n + 1] = g[1 .. n]}
<1>1. /\ k \in Nat /\ DOMAIN s = 1 .. k + 1 /\ DOMAIN t = 1 .. k
      /\ \A i \in 1 .. k : t[i] = s[i + 1]
      /\ Head(s) = s[1]
  BY HeadTailProperties, LenProperties
<1>. HIDE DEF t, k
<1>2. /\ f[1 .. 0] = p
      /\ \A i \in 1 .. k + 1 : f[1 .. i] = Op(f[1 .. (i - 1)], s[i])
  BY <1>1, IterSteps
<1>3. /\ g[1 .. 0] = q
      /\ \A i \in 1 .. k : g[1 .. i] = Op(g[1 .. (i - 1)], t[i])
  BY <1>1, IterSteps
<1>4. FoldLeft(Op, p, s) = f[1 .. k + 1] /\ FoldLeft(Op, q, t) = g[1 .. k]
  BY <1>1, FoldIsIter
<1>. HIDE DEF f, g
<1>5. 0 \in T
  <2>1. 1 \in 1 .. k + 1 /\ 1 - 1 = 0 /\ 0 + 1 = 1
    BY <1>1
  <2>. QED
    BY <1>1, <1>2, <1>3, <2>1
<1>6. ASSUME NEW n \in Nat, n \in T PROVE n + 1 \in T
  <2>. SUFFICES ASSUME n + 1 =< k PROVE f[1 .. n + 1 + 1] = g[1 .. n + 1]
    OBVIOUS
  <2>1. /\ n + 1 \in 1 .. k /\ n + 1 + 1 \in 1 .. k + 1
        /\ n + 1 - 1 = n /\ n + 1 + 1 - 1 = n + 1 /\ n =< k
    BY <1>1
  <2>2. f[1 .. n + 1] = g[1 .. n]
    BY <1>6, <2>1
  <2>3. f[1 .. n + 1 + 1] = Op(f[1 .. n + 1], s[n + 1 + 1])
    BY <1>2, <2>1
  <2>4. g[1 .. n + 1] = Op(g[1 .. n], t[n + 1])
    BY <1>3, <2>1
  <2>. QED
    BY <1>1, <2>1, <2>2, <2>3, <2>4
<1>7. k \in T
  <2>. HIDE DEF T
  <2>. QED
    BY <1>1, <1>5, <1>6, SetInduction
<1>8. f[1 .. k + 1] = g[1 .. k]
  <2>1. k =< k
    BY <1>1
  <2>. QED
    BY <1>7, <2>1
<1>. HIDE DEF q
<1>9. FoldLeft(Op, p, s) = FoldLeft(Op, q, t)
  BY <1>4, <1>8
<1>. QED
  BY <1>9 DEF t, q
====
