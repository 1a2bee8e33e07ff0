----------------------------- MODULE FoldFacts ------------------------------
(***************************************************************************)
(* Induction for the loops of the models.  A Go loop over a slice (the     *)
(* pending-byte sum of capture.Recorder, urlpack's Merge, the scans of the *)
(* capture verifier) is modelled with the library's FoldLeft, which is a   *)
(* recursive function over sets of indexes; this module gives what is      *)
(* needed to reason about one.                                             *)
(*                                                                         *)
(* The induction theorems of the library take a predicate as a parameter,  *)
(* which the provers cannot instantiate.  Here induction is stated for a   *)
(* set of numbers or of sequences instead, and it is proved from the       *)
(* pigeonhole theorem: if some number were outside such a set, the numbers *)
(* below it that are outside would be mapped one to one into a set with    *)
(* fewer elements.                                                         *)
(***************************************************************************)
EXTENDS Integers, FiniteSets, SequencesExt, TLAPS, FiniteSetTheorems

-----------------------------------------------------------------------------
(* Induction.                                                              *)

\* A set of numbers that holds 0 and each successor of its members holds every number:
\* the induction behind every loop of the models.
LEMMA SetInduction ==
    ASSUME NEW T, 0 \in T, \A n \in Nat : n \in T => n + 1 \in T
    PROVE  \A n \in Nat : n \in T
<1> SUFFICES ASSUME NEW k \in Nat, k \notin T PROVE FALSE
  OBVIOUS
<1> DEFINE D == {m \in 0..k : m \notin T}
<1> DEFINE f == [m \in D |-> m - 1]
<1>1. IsFiniteSet(D)
  <2>1. IsFiniteSet(0..k)
    BY FS_Interval
  <2> QED
    BY <2>1, FS_Subset
<1>2. k \in D
  OBVIOUS
<1>3. IsFiniteSet(D \ {k}) /\ Cardinality(D \ {k}) = Cardinality(D) - 1
  BY <1>1, <1>2, FS_RemoveElement
<1>4. Cardinality(D) \in Nat
  BY <1>1, FS_CardinalityType
<1>5. ASSUME NEW m \in D PROVE m - 1 \in D \ {k}
  <2>1. m # 0 /\ m \in 0..k
    OBVIOUS
  <2>2. m - 1 \in Nat /\ (m - 1) + 1 = m
    BY <2>1
  <2>3. m - 1 \notin T
    BY <2>2
  <2> QED
    BY <2>1, <2>3
<1>6. f \in [D -> D \ {k}]
  BY <1>5
<1>7. \E x, y \in D : x # y /\ f[x] = f[y]
  <2> HIDE DEF f, D
  <2> Cardinality(D \ {k}) < Cardinality(D)
    BY <1>3, <1>4
  <2> QED
    BY <1>1, <1>3, <1>6, FS_PigeonHole
<1>8. QED
  BY <1>7

\* A nonempty set of indexes has a largest one, which the library's Max chooses.
LEMMA MaxOfBounded ==
    ASSUME NEW n \in Nat, NEW s \in SUBSET (1..n), s # {}
    PROVE  Max(s) \in s /\ \A y \in s : y <= Max(s)
<1> DEFINE T == {k \in Nat : \A t \in SUBSET (1..k) : t # {} => \E x \in t : \A y \in t : x >= y}
<1>1. 0 \in T
  <2>1. 1..0 = {}
    OBVIOUS
  <2>2. \A t \in SUBSET (1..0) : t = {}
    BY <2>1
  <2> QED
    BY <2>2
<1>2. ASSUME NEW k \in Nat, k \in T PROVE k + 1 \in T
  <2> SUFFICES ASSUME NEW t \in SUBSET (1..(k + 1)), t # {}
               PROVE  \E x \in t : \A y \in t : x >= y
    OBVIOUS
  <2>1. CASE k + 1 \in t
    BY <2>1
  <2>2. CASE k + 1 \notin t
    <3>1. t \in SUBSET (1..k)
      BY <2>2
    <3> QED
      BY <3>1, <1>2
  <2> QED
    BY <2>1, <2>2
<1>3. n \in T
  <2> HIDE DEF T
  <2> QED
    BY <1>1, <1>2, SetInduction
<1>4. \E x \in s : \A y \in s : x >= y
  BY <1>3
<1>5. Max(s) \in s /\ \A y \in s : Max(s) >= y
  BY <1>4 DEF Max
<1> QED
  BY <1>5

\* It has a smallest one too: the first index at which a search of a slice succeeds.
LEMMA LeastOfBounded ==
    ASSUME NEW n \in Nat, NEW s \in SUBSET (1..n), s # {}
    PROVE  \E x \in s : \A y \in s : x <= y
<1> DEFINE t == {(n + 1) - x : x \in s}
<1>1. t \in SUBSET (1..n) /\ t # {}
  <2>1. \A x \in s : (n + 1) - x \in 1..n
    OBVIOUS
  <2> QED
    BY <2>1
<1>2. Max(t) \in t /\ \A y \in t : y <= Max(t)
  <2> HIDE DEF t
  <2> QED
    BY <1>1, MaxOfBounded
<1>3. PICK x \in s : Max(t) = (n + 1) - x
  BY <1>2
<1>4. \A y \in s : x <= y
  <2> TAKE y \in s
  <2>1. (n + 1) - y <= (n + 1) - x
    BY <1>2, <1>3
  <2> QED
    BY <2>1
<1> QED
  BY <1>4

-----------------------------------------------------------------------------
(* Folds.                                                                  *)

\* The solutions of the recursion that the fold of a sequence of length n stands for.
Iters(n, Acc, base, step) ==
    {g \in [SUBSET (1..n) -> Acc] :
        \A s \in SUBSET (1..n) :
            g[s] = IF s = {} THEN base ELSE step[<<g[s \ {Max(s)}], Max(s)>>]}

\* A fold's recursion has a solution.  TLA+ defines a recursive function by CHOOSE, so
\* nothing is known of one before a function that satisfies its equation is exhibited.
LEMMA IterExists ==
    ASSUME NEW n \in Nat, NEW Acc, NEW base \in Acc, NEW step \in [Acc \X (1..n) -> Acc]
    PROVE  Iters(n, Acc, base, step) # {}
<1> DEFINE T == {k \in Nat : k <= n => Iters(k, Acc, base, step) # {}}
<1>1. 0 \in T
  <2> DEFINE g == [s \in SUBSET (1..0) |-> base]
  <2>1. 1..0 = {}
    OBVIOUS
  <2>2. g \in Iters(0, Acc, base, step)
    BY <2>1 DEF Iters
  <2> QED
    BY <2>2
<1>2. ASSUME NEW k \in Nat, k \in T PROVE k + 1 \in T
  <2>0. k + 1 \in Nat
    OBVIOUS
  <2> SUFFICES ASSUME k + 1 <= n PROVE Iters(k + 1, Acc, base, step) # {}
    BY <2>0
  <2>1. PICK h \in Iters(k, Acc, base, step) : TRUE
    BY <1>2
  <2>h. /\ h \in [SUBSET (1..k) -> Acc]
        /\ \A s \in SUBSET (1..k) :
             h[s] = IF s = {} THEN base ELSE step[<<h[s \ {Max(s)}], Max(s)>>]
    BY <2>1 DEF Iters
  <2> DEFINE g == [s \in SUBSET (1..(k + 1)) |->
                     IF k + 1 \in s THEN step[<<h[s \ {k + 1}], k + 1>>] ELSE h[s]]
  <2>2. ASSUME NEW s \in SUBSET (1..(k + 1)), k + 1 \in s
        PROVE  s \ {k + 1} \in SUBSET (1..k) /\ Max(s) = k + 1
    <3>1. s \ {k + 1} \in SUBSET (1..k)
      OBVIOUS
    <3>2. Max(s) \in s /\ \A y \in s : y <= Max(s)
      BY <2>0, <2>2, MaxOfBounded
    <3>3. Max(s) \in 1..(k + 1) /\ k + 1 <= Max(s)
      BY <3>2, <2>2
    <3>4. Max(s) = k + 1
      BY <3>3
    <3> QED
      BY <3>1, <3>4
  <2>3. ASSUME NEW s \in SUBSET (1..(k + 1)), k + 1 \notin s
        PROVE  s \in SUBSET (1..k)
    BY <2>3
  <2>4. ASSUME NEW s \in SUBSET (1..(k + 1)) PROVE g[s] \in Acc
    <3>1. CASE k + 1 \in s
      <4>1. h[s \ {k + 1}] \in Acc
        BY <2>h, <2>2, <3>1
      <4>2. k + 1 \in 1..n
        OBVIOUS
      <4>3. step[<<h[s \ {k + 1}], k + 1>>] \in Acc
        BY <4>1, <4>2
      <4> QED
        BY <4>3, <3>1
    <3>2. CASE k + 1 \notin s
      BY <2>h, <2>3, <3>2
    <3> QED
      BY <3>1, <3>2
  <2>5. g \in [SUBSET (1..(k + 1)) -> Acc]
    BY <2>4
  <2>6. ASSUME NEW s \in SUBSET (1..(k + 1))
        PROVE  g[s] = IF s = {} THEN base ELSE step[<<g[s \ {Max(s)}], Max(s)>>]
    <3>1. CASE k + 1 \in s
      <4>1. s \ {k + 1} \in SUBSET (1..(k + 1)) /\ k + 1 \notin s \ {k + 1}
        OBVIOUS
      <4>2. g[s \ {k + 1}] = h[s \ {k + 1}]
        BY <4>1
      <4> QED
        BY <4>2, <3>1, <2>2
    <3>2. CASE k + 1 \notin s /\ s # {}
      <4>1. s \in SUBSET (1..k)
        BY <3>2, <2>3
      <4>2. g[s] = step[<<h[s \ {Max(s)}], Max(s)>>]
        BY <4>1, <3>2, <2>h
      <4>3. s \ {Max(s)} \in SUBSET (1..(k + 1)) /\ k + 1 \notin s \ {Max(s)}
        BY <3>2
      <4>4. g[s \ {Max(s)}] = h[s \ {Max(s)}]
        BY <4>3
      <4> QED
        BY <4>2, <4>4, <3>2
    <3>3. CASE s = {}
      <4>1. {} \in SUBSET (1..k)
        OBVIOUS
      <4>2. h[{}] = base
        BY <4>1, <2>h
      <4> QED
        BY <4>2, <3>3
    <3> QED
      BY <3>1, <3>2, <3>3
  <2> HIDE DEF g
  <2>7. g \in Iters(k + 1, Acc, base, step)
    BY <2>5, <2>6 DEF Iters
  <2> QED
    BY <2>7
<1>3. n \in T
  <2> HIDE DEF T
  <2> QED
    BY <1>1, <1>2, SetInduction
<1> QED
  BY <1>3

\* Induction up to the end of a slice, for the invariant of a loop over it.
LEMMA BoundedInduction ==
    ASSUME NEW n \in Nat, NEW T, 0 \in T, \A i \in 1..n : i - 1 \in T => i \in T
    PROVE  \A i \in 0..n : i \in T
<1> DEFINE U == {i \in Nat : i <= n => i \in T}
<1>1. 0 \in U
  OBVIOUS
<1>2. ASSUME NEW i \in Nat, i \in U PROVE i + 1 \in U
  <2>1. i + 1 \in Nat
    OBVIOUS
  <2>2. ASSUME i + 1 <= n PROVE i + 1 \in T
    <3>1. i \in T /\ i + 1 \in 1..n /\ (i + 1) - 1 = i
      BY <1>2, <2>2
    <3> QED
      BY <3>1
  <2> QED
    BY <2>1, <2>2
<1>3. \A i \in Nat : i \in U
  <2> HIDE DEF U
  <2> QED
    BY <1>1, <1>2, SetInduction
<1> QED
  BY <1>3

\* h is that iteration, as far as its values have the type of the accumulator.
IsIter(h, n, Acc, base, step) ==
    /\ n \in Nat /\ base \in Acc /\ step \in [Acc \X (1..n) -> Acc]
    /\ h[{}] = base
    /\ \A s \in SUBSET (1..n) :
         s # {} /\ h[s \ {Max(s)}] \in Acc => h[s] = step[<<h[s \ {Max(s)}], Max(s)>>]

\* The accumulator after 0, 1, ..., n elements.
Stages(n, Acc, base, step) ==
    {p \in [0..n -> Acc] : p[0] = base /\ \A i \in 1..n : p[i] = step[<<p[i - 1], i>>]}

\* A fold is what its loop computes: there is the sequence of the accumulator's values,
\* each obtained from the one before by the loop's body, and the last is the fold's value.
LEMMA IterPrefixes ==
    ASSUME NEW h, NEW n, NEW Acc, NEW base, NEW step, IsIter(h, n, Acc, base, step)
    PROVE  \E p \in Stages(n, Acc, base, step) : p[n] = h[1..n]
<1>0. n \in Nat /\ base \in Acc /\ step \in [Acc \X (1..n) -> Acc]
  BY DEF IsIter
<1> DEFINE p == [i \in 0..n |-> h[1..i]]
<1> DEFINE T == {i \in 0..n : h[1..i] \in Acc}
<1>1. 1..0 = {} /\ 0 \in 0..n
  BY <1>0
<1>2. ASSUME NEW i \in 1..n, h[1..(i - 1)] \in Acc
      PROVE  h[1..i] = step[<<h[1..(i - 1)], i>>] /\ h[1..i] \in Acc
  <2>1. (1..i) \in SUBSET (1..n) /\ i \in 1..i /\ i \in Nat
    BY <1>0
  <2>2. Max(1..i) \in 1..i /\ \A y \in 1..i : y <= Max(1..i)
    BY <2>1, MaxOfBounded
  <2>3. Max(1..i) = i
    BY <2>1, <2>2
  <2>4. (1..i) \ {i} = 1..(i - 1)
    BY <1>0
  <2>5. h[1..i] = step[<<h[1..(i - 1)], i>>]
    BY <1>0, <1>2, <2>1, <2>3, <2>4 DEF IsIter
  <2> QED
    BY <1>0, <1>2, <2>5
<1>3. \A i \in 0..n : i \in T
  <2>1. 0 \in T
    BY <1>0, <1>1 DEF IsIter
  <2>2. ASSUME NEW i \in 1..n, i - 1 \in T PROVE i \in T
    <3>1. h[1..(i - 1)] \in Acc /\ i \in 0..n
      BY <1>0, <2>2
    <3> QED
      BY <3>1, <1>2
  <2> HIDE DEF T
  <2> QED
    BY <1>0, <2>1, <2>2, BoundedInduction
<1>4. p \in [0..n -> Acc]
  BY <1>3
<1>5. p[0] = base /\ p[n] = h[1..n]
  BY <1>0, <1>1 DEF IsIter
<1>6. \A i \in 1..n : p[i] = step[<<p[i - 1], i>>]
  <2> SUFFICES ASSUME NEW i \in 1..n PROVE p[i] = step[<<p[i - 1], i>>]
    OBVIOUS
  <2>1. i - 1 \in 0..n /\ i \in 0..n
    BY <1>0
  <2>2. h[1..(i - 1)] \in Acc
    BY <1>3, <2>1
  <2> QED
    BY <2>1, <2>2, <1>2
<1> HIDE DEF p
<1> QED
  BY <1>4, <1>5, <1>6 DEF Stages

\* A set of sequences that holds the empty one and every extension of its members by one
\* element holds all: for what is appended to a log, one record at a time.
LEMMA SequenceInduction ==
    ASSUME NEW S, NEW T, << >> \in T,
           \A s \in Seq(S), x \in S : s \in T => Append(s, x) \in T
    PROVE  \A s \in Seq(S) : s \in T
<1> DEFINE U == {n \in Nat : \A s \in Seq(S) : Len(s) = n => s \in T}
<1>1. 0 \in U
  OBVIOUS
<1>2. ASSUME NEW n \in Nat, n \in U PROVE n + 1 \in U
  <2>1. ASSUME NEW s \in Seq(S), Len(s) = n + 1 PROVE s \in T
    <3> DEFINE r == SubSeq(s, 1, n)
    <3>1. r \in Seq(S) /\ Len(r) = n /\ s[n + 1] \in S
      BY <2>1
    <3>2. s = Append(r, s[n + 1])
      BY <2>1
    <3>3. r \in T
      BY <3>1, <1>2
    <3> HIDE DEF r
    <3> QED
      BY <3>1, <3>2, <3>3
  <2>2. n + 1 \in Nat
    OBVIOUS
  <2> QED
    BY <2>1, <2>2
<1>3. \A n \in Nat : n \in U
  <2> HIDE DEF U
  <2> QED
    BY <1>1, <1>2, SetInduction
<1> QED
  BY <1>3
=============================================================================
