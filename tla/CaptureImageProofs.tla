------------------------ MODULE CaptureImageProofs ------------------------
(***************************************************************************)
(* The theorem of CaptureImage: the verifier agrees with the definition of *)
(* a sound capture for any number of lines, any digests, any blob sizes    *)
(* and any width of the counter.                                           *)
(*                                                                         *)
(* The scan is followed line by line (ScanAt): it has no issue after i     *)
(* lines exactly if the first i lines are sound by themselves and the      *)
(* bytes of the blobs they name fit the counter, and then it has seen each *)
(* of those blobs once.                                                    *)
(***************************************************************************)
EXTENDS CaptureImage, FoldFacts

-----------------------------------------------------------------------------
(* Sums over a set.  The library adds up a finite set by choosing one      *)
(* element after the other; whichever is taken away first, the rest has    *)
(* the same sum.                                                           *)

\* The element that the library's sum takes from a set, and the functions that are such a sum.
AnyOf(s) == CHOOSE x \in s : TRUE

Sums(S, f) ==
    {g \in [SUBSET S -> Nat] :
        \A s \in SUBSET S : g[s] = IF s = {} THEN 0 ELSE f[AnyOf(s)] + g[s \ {AnyOf(s)}]}

LEMMA AnyRemoved ==
    ASSUME NEW S, IsFiniteSet(S), NEW s \in SUBSET S, NEW c \in s
    PROVE  /\ s \ {c} \in SUBSET S /\ Cardinality(s) \in Nat /\ Cardinality(s \ {c}) \in Nat
           /\ Cardinality(s \ {c}) = Cardinality(s) - 1 /\ Cardinality(s) # 0
<1>1. IsFiniteSet(s)
  BY FS_Subset
<1>2. Cardinality(s) \in Nat
  BY <1>1, FS_CardinalityType
<1>3. Cardinality(s \ {c}) = Cardinality(s) - 1 /\ IsFiniteSet(s \ {c})
  BY <1>1, FS_RemoveElement
<1>4. Cardinality(s \ {c}) \in Nat
  BY <1>3, FS_CardinalityType
<1> QED
  BY <1>2, <1>3, <1>4

LEMMA AnyIn == ASSUME NEW s, s # {} PROVE AnyOf(s) \in s
  BY DEF AnyOf

\* The recursion has a solution: one more element is right each time it is applied.
LEMMA SumExists ==
    ASSUME NEW S, IsFiniteSet(S), NEW f \in [S -> Nat]
    PROVE  Sums(S, f) # {}
<1> DEFINE Next1(g, s) == IF s = {} THEN 0 ELSE f[AnyOf(s)] + g[s \ {AnyOf(s)}]
<1> DEFINE T == {k \in Nat : \E g \in [SUBSET S -> Nat] :
                    \A s \in SUBSET S : Cardinality(s) <= k => g[s] = Next1(g, s)}
<1>1. 0 \in T
  <2> DEFINE g == [s \in SUBSET S |-> 0]
  <2>1. g \in [SUBSET S -> Nat]
    OBVIOUS
  <2>2. ASSUME NEW s \in SUBSET S, Cardinality(s) <= 0 PROVE s = {}
    <3>1. IsFiniteSet(s)
      BY FS_Subset
    <3>2. Cardinality(s) \in Nat
      BY <3>1, FS_CardinalityType
    <3>3. Cardinality(s) = 0
      BY <2>2, <3>2
    <3> QED
      BY <3>1, <3>3, FS_EmptySet
  <2>3. \A s \in SUBSET S : Cardinality(s) <= 0 => g[s] = Next1(g, s)
    BY <2>2
  <2> QED
    BY <2>1, <2>3
<1>2. ASSUME NEW k \in Nat, k \in T PROVE k + 1 \in T
  <2>1. PICK g \in [SUBSET S -> Nat] :
           \A s \in SUBSET S : Cardinality(s) <= k => g[s] = Next1(g, s)
    BY <1>2
  <2> DEFINE h == [s \in SUBSET S |-> Next1(g, s)]
  <2>2. ASSUME NEW s \in SUBSET S, s # {}
        PROVE  AnyOf(s) \in s /\ s \ {AnyOf(s)} \in SUBSET S /\ f[AnyOf(s)] \in Nat
    BY <2>2, AnyIn
  <2>3. h \in [SUBSET S -> Nat]
    <3>1. ASSUME NEW s \in SUBSET S PROVE Next1(g, s) \in Nat
      <4>1. CASE s = {}
        BY <4>1
      <4>2. CASE s # {}
        BY <2>1, <2>2, <4>2
      <4> QED
        BY <4>1, <4>2
    <3> QED
      BY <3>1
  <2>4. ASSUME NEW s \in SUBSET S, Cardinality(s) <= k + 1 PROVE h[s] = Next1(h, s)
    <3>1. CASE s = {}
      BY <3>1
    <3>2. CASE s # {}
      <4>1. AnyOf(s) \in s
        BY <3>2, AnyIn
      <4> DEFINE r == s \ {AnyOf(s)}
      <4>2. r \in SUBSET S /\ Cardinality(r) <= k
        <5>1. Cardinality(r) = Cardinality(s) - 1 /\ Cardinality(s) \in Nat
          BY <4>1, AnyRemoved
        <5> QED
          BY <2>4, <5>1
      <4>3. g[r] = h[r]
        BY <2>1, <4>2
      <4>4. h[s] = f[AnyOf(s)] + g[r]
        BY <3>2
      <4> HIDE DEF h
      <4> QED
        BY <3>2, <4>3, <4>4
    <3> QED
      BY <3>1, <3>2
  <2>5. k + 1 \in Nat
    OBVIOUS
  <2> HIDE DEF h, Next1
  <2> QED
    BY <2>3, <2>4, <2>5
<1>3. Cardinality(S) \in Nat
  BY FS_CardinalityType
<1>4. Cardinality(S) \in T
  <2> HIDE DEF T
  <2> QED
    BY <1>1, <1>2, <1>3, SetInduction
<1>5. PICK g \in [SUBSET S -> Nat] :
         \A s \in SUBSET S : Cardinality(s) <= Cardinality(S) => g[s] = Next1(g, s)
  BY <1>4
<1>6. \A s \in SUBSET S : Cardinality(s) <= Cardinality(S)
  BY FS_Subset
<1> QED
  BY <1>5, <1>6 DEF Sums

\* The order does not matter.
LEMMA SumRemove ==
    ASSUME NEW S, IsFiniteSet(S), NEW f, f \in [S -> Nat], NEW g, g \in Sums(S, f),
           NEW q, q \in SUBSET S, NEW e, e \in q
    PROVE  g[q] = f[e] + g[q \ {e}]
<1> DEFINE T == {k \in Nat : \A s \in SUBSET S : Cardinality(s) = k =>
                                \A c \in s : g[s] = f[c] + g[s \ {c}]}
<1>0. /\ g \in [SUBSET S -> Nat]
      /\ \A s \in SUBSET S : s # {} => g[s] = f[AnyOf(s)] + g[s \ {AnyOf(s)}]
  BY DEF Sums
<1>1. 0 \in T
  <2>1. ASSUME NEW s \in SUBSET S, Cardinality(s) = 0 PROVE s = {}
    <3>1. IsFiniteSet(s)
      BY FS_Subset
    <3> QED
      BY <2>1, <3>1, FS_EmptySet
  <2> QED
    BY <2>1
<1>2. ASSUME NEW k \in Nat, k \in T PROVE k + 1 \in T
  <2> SUFFICES ASSUME NEW s \in SUBSET S, Cardinality(s) = k + 1, NEW c \in s
               PROVE  g[s] = f[c] + g[s \ {c}]
    OBVIOUS
  <2> DEFINE d == AnyOf(s)
  <2>1. d \in s
    BY AnyIn
  <2> HIDE DEF d
  <2>2. g[s] = f[d] + g[s \ {d}]
    BY <1>0 DEF d
  <2>3. CASE c = d
    BY <2>2, <2>3
  <2>4. CASE c # d
    <3> DEFINE u == s \ {d}
    <3> DEFINE v == s \ {c}
    <3> DEFINE w == s \ {c, d}
    <3>1. /\ u \in SUBSET S /\ v \in SUBSET S /\ w \in SUBSET S /\ c \in u /\ d \in v
          /\ u \ {c} = w /\ v \ {d} = w
      BY <2>1, <2>4
    <3>2. Cardinality(u) = k /\ Cardinality(v) = k
      <4>1. Cardinality(s \ {d}) = Cardinality(s) - 1 /\ Cardinality(s \ {c}) = Cardinality(s) - 1
        BY <2>1, AnyRemoved
      <4> QED
        BY <4>1
    <3>3. g[u] = f[c] + g[w] /\ g[v] = f[d] + g[w]
      BY <1>2, <3>1, <3>2
    <3>4. f[c] \in Nat /\ f[d] \in Nat /\ g[w] \in Nat /\ g[u] \in Nat /\ g[v] \in Nat
      BY <1>0, <2>1, <3>1
    <3>5. g[s] = f[d] + g[u]
      BY <2>2
    <3> HIDE DEF u, v, w
    <3>6. g[s] = f[c] + g[v]
      BY <3>3, <3>4, <3>5
    <3> QED
      BY <3>6 DEF v
  <2> QED
    BY <2>3, <2>4
<1>3. \A k \in Nat : k \in T
  <2> HIDE DEF T
  <2> QED
    BY <1>1, <1>2, SetInduction
<1>4. \A s \in SUBSET S : Cardinality(s) \in Nat
  BY FS_Subset, FS_CardinalityType
<1> QED
  BY <1>3, <1>4

\* The recursion has one solution only.
LEMMA SumUnique ==
    ASSUME NEW S, IsFiniteSet(S), NEW f \in [S -> Nat], NEW g \in Sums(S, f), NEW h,
           \A s \in SUBSET S : h[s] = IF s = {} THEN 0 ELSE f[AnyOf(s)] + h[s \ {AnyOf(s)}]
    PROVE  h[S] = g[S]
<1>0. \A s \in SUBSET S : /\ g[s] = IF s = {} THEN 0 ELSE f[AnyOf(s)] + g[s \ {AnyOf(s)}]
                          /\ h[s] = IF s = {} THEN 0 ELSE f[AnyOf(s)] + h[s \ {AnyOf(s)}]
  BY DEF Sums
<1> DEFINE Same(k) == \A s \in SUBSET S : Cardinality(s) <= k => h[s] = g[s]
<1>1. Same(0)
  <2>1. ASSUME NEW s \in SUBSET S, Cardinality(s) <= 0 PROVE s = {}
    <3>1. IsFiniteSet(s)
      BY FS_Subset
    <3>2. Cardinality(s) \in Nat
      BY <3>1, FS_CardinalityType
    <3>3. Cardinality(s) = 0
      BY <2>1, <3>2
    <3> QED
      BY <3>1, <3>3, FS_EmptySet
  <2> QED
    BY <1>0, <2>1
<1>2. ASSUME NEW k \in Nat, Same(k) PROVE Same(k + 1)
  <2> SUFFICES ASSUME NEW s \in SUBSET S, Cardinality(s) <= k + 1 PROVE h[s] = g[s]
    OBVIOUS
  <2>1. CASE s = {}
    BY <1>0, <2>1
  <2>2. CASE s # {}
    <3>1. AnyOf(s) \in s
      BY <2>2, AnyIn
    <3>2. s \ {AnyOf(s)} \in SUBSET S /\ Cardinality(s \ {AnyOf(s)}) <= k
      <4>1. Cardinality(s \ {AnyOf(s)}) = Cardinality(s) - 1 /\ Cardinality(s) \in Nat
        BY <3>1, AnyRemoved
      <4> QED
        BY <4>1
    <3>3. h[s \ {AnyOf(s)}] = g[s \ {AnyOf(s)}]
      BY <1>2, <3>2
    <3> QED
      BY <1>0, <2>2, <3>3
  <2> QED
    BY <2>1, <2>2
<1> HIDE DEF Same
<1> DEFINE T == {k \in Nat : Same(k)}
<1>3. 0 \in T /\ \A k \in Nat : k \in T => k + 1 \in T
  BY <1>1, <1>2
<1>4. Cardinality(S) \in Nat /\ S \in SUBSET S
  BY FS_CardinalityType
<1>5. Cardinality(S) \in T
  <2> HIDE DEF T
  <2> QED
    BY <1>3, <1>4, SetInduction
<1>6. Same(Cardinality(S))
  BY <1>5
<1> QED
  BY <1>4, <1>6 DEF Same

-----------------------------------------------------------------------------
(* The scan.  What one line adds to it, and its stages.                    *)

\* What a scan can hold.
IssueNames == {"schema", "captureID", "sequence", "sizeConflict", "overflow", "blob"}
Scans == [previous : Nat, events : Nat, seen : Seq(Refs), bytes : Nat, issues : SUBSET IssueNames]

LEMMA RefFields ==
    ASSUME NEW ref \in Refs
    PROVE  /\ ref.digest \in Digests /\ ref.size \in Sizes /\ ref.canonical \in BOOLEAN
           /\ ref.size \in Nat /\ ref.size < WordValues
<1>1. ref.digest \in Digests /\ ref.size \in Sizes /\ ref.canonical \in BOOLEAN
  BY DEF Refs
<1>2. ref.size \in 0..(WordValues - 1) /\ WordValues \in Nat
  BY <1>1, ImageAssumption, WordAssumption
<1> QED
  BY <1>1, <1>2

LEMMA LineFields ==
    ASSUME NEW line \in Lines
    PROVE  /\ line.seq \in Nat /\ line.schema \in BOOLEAN /\ line.capture \in BOOLEAN
           /\ line.ref \in Refs \cup {NoRef}
<1>1. line.seq \in 1..MaxLines /\ MaxLines \in Nat
  BY ImageAssumption DEF Lines
<1>2. line.schema \in BOOLEAN /\ line.capture \in BOOLEAN /\ line.ref \in Refs \cup {NoRef}
  BY DEF Lines
<1> QED
  BY <1>1, <1>2

\* A visit keeps the scan well typed.
LEMMA BlobVisitType ==
    ASSUME NEW s \in Scans, NEW ref \in Refs \cup {NoRef}
    PROVE  BlobVisit(s, files, ref) \in Scans
<1>0. s.seen \in Seq(Refs) /\ s.bytes \in Nat /\ s.issues \in SUBSET IssueNames
  BY DEF Scans
<1>1. CASE ref = NoRef
  BY <1>1 DEF BlobVisit
<1>2. ASSUME NEW xs \in SUBSET IssueNames PROVE [s EXCEPT !.issues = xs] \in Scans
  BY <1>2 DEF Scans
<1>3. CASE ref # NoRef /\ ~validateBlobRef(ref)
  <2>1. BlobVisit(s, files, ref) = [s EXCEPT !.issues = s.issues \cup {"blob"}]
    BY <1>3 DEF BlobVisit
  <2>2. s.issues \cup {"blob"} \in SUBSET IssueNames
    BY <1>0 DEF IssueNames
  <2> QED
    BY <1>2, <2>1, <2>2
<1>4. CASE ref # NoRef /\ validateBlobRef(ref)
  <2>0. ref \in Refs /\ ref.size \in Nat
    BY <1>4, RefFields
  <2>2. CASE SeenBefore(s, ref)
    <3>1. \/ BlobVisit(s, files, ref) = s
          \/ BlobVisit(s, files, ref) = [s EXCEPT !.issues = s.issues \cup {"sizeConflict"}]
      BY <1>4, <2>2 DEF BlobVisit
    <3>2. s.issues \cup {"sizeConflict"} \in SUBSET IssueNames
      BY <1>0 DEF IssueNames
    <3> QED
      BY <1>2, <3>1, <3>2
  <2>3. CASE ~SeenBefore(s, ref)
    <3> DEFINE bytes == IF Overflows(s.bytes, ref.size) THEN s.bytes ELSE s.bytes + ref.size
    <3> DEFINE issues == s.issues \cup (IF Overflows(s.bytes, ref.size) THEN {"overflow"} ELSE {})
                                 \cup (IF verifyBlob(files, ref) THEN {} ELSE {"blob"})
    <3>1. BlobVisit(s, files, ref) =
            [s EXCEPT !.seen = Append(@, ref), !.bytes = bytes, !.issues = issues]
      BY <1>4, <2>3 DEF BlobVisit
    <3>2. bytes \in Nat
      BY <1>0, <2>0
    <3>3. issues \in SUBSET IssueNames
      BY <1>0 DEF IssueNames
    <3>4. Append(s.seen, ref) \in Seq(Refs)
      BY <1>0, <2>0
    <3> HIDE DEF bytes, issues
    <3> QED
      BY <3>1, <3>2, <3>3, <3>4 DEF Scans
  <2> QED
    BY <2>2, <2>3
<1> QED
  BY <1>1, <1>3, <1>4

LEMMA VisitType ==
    ASSUME NEW s \in Scans, NEW line \in Lines
    PROVE  VisitEvent(s, files, line) \in Scans
<1> DEFINE issues == s.issues \cup (IF line.schema THEN {} ELSE {"schema"})
                              \cup (IF line.capture THEN {} ELSE {"captureID"})
                              \cup (IF line.seq = s.previous + 1 THEN {} ELSE {"sequence"})
<1> DEFINE t == [s EXCEPT !.events = @ + 1, !.previous = line.seq, !.issues = issues]
<1>1. s.issues \in SUBSET IssueNames /\ line.seq \in Nat /\ s.events + 1 \in Nat
  BY LineFields DEF Scans
<1>2. issues \in SUBSET IssueNames
  BY <1>1 DEF IssueNames
<1>3. VisitEvent(s, files, line) = BlobVisit(t, files, line.ref)
  BY DEF VisitEvent
<1> HIDE DEF issues
<1>4. t \in Scans
  BY <1>1, <1>2 DEF Scans
<1>5. line.ref \in Refs \cup {NoRef}
  BY LineFields
<1> HIDE DEF t
<1> QED
  BY <1>3, <1>4, <1>5, BlobVisitType

\* ScanEvents as a loop: the scan after each line.
LEMMA ScanStages ==
    ASSUME NEW L \in Seq(Lines)
    PROVE  \E p \in [0..Len(L) -> Scans] :
              /\ p[0] = ScanStart /\ p[Len(L)] = ScanEvents(L, files)
              /\ \A i \in 1..Len(L) : p[i] = VisitEvent(p[i - 1], files, L[i])
<1> DEFINE n == Len(L)
<1> DEFINE Acc == Scans
<1> DEFINE base == ScanStart
<1> DEFINE step == [q \in Acc \X (1..n) |-> VisitEvent(q[1], files, L[q[2]])]
<1> DEFINE h == CHOOSE h : h = [s \in SUBSET (DOMAIN L) |->
                  IF s = {} THEN ScanStart ELSE VisitEvent(h[s \ {Max(s)}], files, L[Max(s)])]
<1>1. n \in Nat /\ DOMAIN L = 1..n /\ base \in Acc
  <2>1. ScanStart \in Scans
    <3>1. << >> \in Seq(Refs)
      OBVIOUS
    <3> QED
      BY <3>1 DEF ScanStart, Scans
  <2> QED
    BY <2>1
<1>2. \A a \in Acc, i \in 1..n : VisitEvent(a, files, L[i]) \in Acc
  <2> SUFFICES ASSUME NEW a \in Scans, NEW i \in 1..Len(L) PROVE VisitEvent(a, files, L[i]) \in Scans
    OBVIOUS
  <2>1. L[i] \in Lines
    OBVIOUS
  <2> QED
    BY <2>1, VisitType
<1> HIDE DEF n, Acc, base
<1>3. step \in [Acc \X (1..n) -> Acc]
  BY <1>1, <1>2
<1>4. \A a \in Acc, i \in 1..n : step[<<a, i>>] = VisitEvent(a, files, L[i])
  BY <1>1
<1>5. ScanEvents(L, files) = h[DOMAIN L]
  BY DEF ScanEvents, FoldLeft, MapThenFoldSet
<1> HIDE DEF step
<1>6. h = [s \in SUBSET (DOMAIN L) |->
             IF s = {} THEN base ELSE VisitEvent(h[s \ {Max(s)}], files, L[Max(s)])]
  <2>1. PICK g \in Iters(n, Acc, base, step) : TRUE
    BY <1>1, <1>3, IterExists
  <2>2. /\ g \in [SUBSET (1..n) -> Acc]
        /\ \A s \in SUBSET (1..n) :
             g[s] = IF s = {} THEN base ELSE step[<<g[s \ {Max(s)}], Max(s)>>]
    BY <2>1 DEF Iters
  <2>3. ASSUME NEW s \in SUBSET (1..n), s # {}
        PROVE  g[s] = VisitEvent(g[s \ {Max(s)}], files, L[Max(s)])
    <3>1. Max(s) \in 1..n
      BY <1>1, <2>3, MaxOfBounded
    <3>2. g[s \ {Max(s)}] \in Acc
      BY <2>2
    <3> QED
      BY <1>4, <2>2, <2>3, <3>1, <3>2
  <2>4. g = [s \in SUBSET (DOMAIN L) |->
               IF s = {} THEN base ELSE VisitEvent(g[s \ {Max(s)}], files, L[Max(s)])]
    BY <1>1, <2>2, <2>3
  <2> QED
    BY <2>4 DEF base
<1> HIDE DEF h
<1>7. h[{}] = base
  <2>1. {} \in SUBSET (DOMAIN L)
    OBVIOUS
  <2> QED
    BY <1>6, <2>1
<1>8. ASSUME NEW s \in SUBSET (1..n), s # {}, h[s \ {Max(s)}] \in Acc
      PROVE  h[s] = step[<<h[s \ {Max(s)}], Max(s)>>]
  <2>1. Max(s) \in 1..n
    BY <1>1, <1>8, MaxOfBounded
  <2>2. h[s] = VisitEvent(h[s \ {Max(s)}], files, L[Max(s)])
    BY <1>1, <1>6, <1>8
  <2> QED
    BY <1>4, <1>8, <2>1, <2>2
<1>9. IsIter(h, n, Acc, base, step)
  BY <1>1, <1>3, <1>7, <1>8 DEF IsIter
<1>10. PICK p \in Stages(n, Acc, base, step) : p[n] = h[1..n]
  BY <1>9, IterPrefixes
<1>11. p \in [0..n -> Acc] /\ p[0] = base
  BY <1>10 DEF Stages
<1>12. ASSUME NEW i \in 1..n PROVE p[i] = VisitEvent(p[i - 1], files, L[i])
  <2>1. i - 1 \in 0..n
    BY <1>1
  <2> QED
    BY <1>4, <1>10, <1>11, <2>1 DEF Stages
<1> QED
  BY <1>1, <1>5, <1>10, <1>11, <1>12 DEF n, Acc, base

\* The unsigned addition that nextBlobBytes < blobBytes looks at.
LEMMA OverflowExact ==
    ASSUME NEW a \in Nat, NEW b \in Nat, a < WordValues, b < WordValues
    PROVE  Overflows(a, b) <=> a + b >= WordValues
<1>0. WordValues \in Nat /\ WordValues > 0
  BY WordAssumption
<1>1. CASE a + b < WordValues
  <2>1. (a + b) % WordValues = a + b
    BY <1>0, <1>1
  <2> QED
    BY <1>0, <1>1, <2>1 DEF Overflows
<1>2. CASE a + b >= WordValues
  <2>1. (a + b) % WordValues = a + b - WordValues
    BY <1>0, <1>2
  <2> QED
    BY <1>0, <1>2, <2>1 DEF Overflows
<1> QED
  BY <1>0, <1>1, <1>2

\* What is right about one line after the scan s.
Conflicts(s, ref) ==
    \E i \in DOMAIN s.seen : s.seen[i].digest = ref.digest /\ s.seen[i].size # ref.size

\* The reference is absent, or canonical and, when it is new, stored as it says.
RefFits(s, ref) ==
    \/ ref = NoRef
    \/ /\ validateBlobRef(ref)
       /\ SeenBefore(s, ref) => ~Conflicts(s, ref)
       /\ ~SeenBefore(s, ref) => ~Overflows(s.bytes, ref.size) /\ verifyBlob(files, ref)

\* The visit reports nothing exactly if the line and its reference fit.
LEMMA BlobVisitExact ==
    ASSUME NEW s \in Scans, NEW ref \in Refs \cup {NoRef}
    PROVE  LET r == BlobVisit(s, files, ref)
               new == ref # NoRef /\ ~SeenBefore(s, ref)
           IN  /\ r.events = s.events /\ r.previous = s.previous
               /\ r.issues = {} <=> s.issues = {} /\ RefFits(s, ref)
               /\ r.issues = {} => /\ r.seen = IF new THEN Append(s.seen, ref) ELSE s.seen
                                   /\ r.bytes = IF new THEN s.bytes + ref.size ELSE s.bytes
<1> DEFINE r == BlobVisit(s, files, ref)
<1>0. DOMAIN s = {"previous", "events", "seen", "bytes", "issues"} /\ s.issues \in SUBSET IssueNames
  BY DEF Scans
<1>1. CASE ref = NoRef
  BY <1>1 DEF BlobVisit, RefFits
<1>2. CASE ref # NoRef /\ ~validateBlobRef(ref)
  <2>1. r = [s EXCEPT !.issues = s.issues \cup {"blob"}]
    BY <1>2 DEF BlobVisit
  <2>2. r.events = s.events /\ r.previous = s.previous /\ r.issues = s.issues \cup {"blob"}
    BY <1>0, <2>1
  <2>3. ~RefFits(s, ref) /\ r.issues # {}
    BY <1>2, <2>2 DEF RefFits
  <2> QED
    BY <2>2, <2>3
<1>3. CASE ref # NoRef /\ validateBlobRef(ref) /\ SeenBefore(s, ref)
  <2>1. CASE Conflicts(s, ref)
    <3>1. r = [s EXCEPT !.issues = s.issues \cup {"sizeConflict"}]
      BY <1>3, <2>1 DEF BlobVisit, Conflicts
    <3>2. r.events = s.events /\ r.previous = s.previous /\ r.issues = s.issues \cup {"sizeConflict"}
      BY <1>0, <3>1
    <3>3. ~RefFits(s, ref) /\ r.issues # {}
      BY <1>3, <2>1, <3>2 DEF RefFits
    <3> QED
      BY <3>2, <3>3
  <2>2. CASE ~Conflicts(s, ref)
    <3>1. r = s
      BY <1>3, <2>2 DEF BlobVisit, Conflicts
    <3>2. RefFits(s, ref)
      BY <1>3, <2>2 DEF RefFits
    <3> QED
      BY <1>3, <3>1, <3>2
  <2> QED
    BY <2>1, <2>2
<1>4. CASE ref # NoRef /\ validateBlobRef(ref) /\ ~SeenBefore(s, ref)
  <2> DEFINE bytes == IF Overflows(s.bytes, ref.size) THEN s.bytes ELSE s.bytes + ref.size
  <2> DEFINE issues == s.issues \cup (IF Overflows(s.bytes, ref.size) THEN {"overflow"} ELSE {})
                               \cup (IF verifyBlob(files, ref) THEN {} ELSE {"blob"})
  <2>1. r = [s EXCEPT !.seen = Append(s.seen, ref), !.bytes = bytes, !.issues = issues]
    BY <1>4 DEF BlobVisit
  <2>2. issues = {} <=> s.issues = {} /\ ~Overflows(s.bytes, ref.size) /\ verifyBlob(files, ref)
    OBVIOUS
  <2>3. ~Overflows(s.bytes, ref.size) => bytes = s.bytes + ref.size
    OBVIOUS
  <2>4. RefFits(s, ref) <=> ~Overflows(s.bytes, ref.size) /\ verifyBlob(files, ref)
    BY <1>4 DEF RefFits
  <2> HIDE DEF bytes, issues
  <2>5. /\ r.events = s.events /\ r.previous = s.previous /\ r.issues = issues
        /\ r.seen = Append(s.seen, ref) /\ r.bytes = bytes
    BY <1>0, <2>1
  <2> HIDE DEF r
  <2> QED
    BY <1>4, <2>2, <2>3, <2>4, <2>5 DEF r
<1> QED
  BY <1>1, <1>2, <1>3, <1>4

LEMMA VisitExact ==
    ASSUME NEW s \in Scans, NEW line \in Lines
    PROVE  LET r == VisitEvent(s, files, line)
               new == line.ref # NoRef /\ ~SeenBefore(s, line.ref)
           IN  /\ r.events = s.events + 1 /\ r.previous = line.seq
               /\ r.issues = {} <=> /\ s.issues = {} /\ line.schema /\ line.capture
                                    /\ line.seq = s.previous + 1 /\ RefFits(s, line.ref)
               /\ r.issues = {} =>
                    /\ r.seen = IF new THEN Append(s.seen, line.ref) ELSE s.seen
                    /\ r.bytes = IF new THEN s.bytes + line.ref.size ELSE s.bytes
<1> DEFINE issues == s.issues \cup (IF line.schema THEN {} ELSE {"schema"})
                              \cup (IF line.capture THEN {} ELSE {"captureID"})
                              \cup (IF line.seq = s.previous + 1 THEN {} ELSE {"sequence"})
<1> DEFINE t == [s EXCEPT !.events = @ + 1, !.previous = line.seq, !.issues = issues]
<1>1. s.issues \in SUBSET IssueNames /\ line.seq \in Nat /\ s.events + 1 \in Nat
  BY LineFields DEF Scans
<1>2. issues \in SUBSET IssueNames
  BY <1>1 DEF IssueNames
<1>3. VisitEvent(s, files, line) = BlobVisit(t, files, line.ref)
  BY DEF VisitEvent
<1>4. issues = {} <=> s.issues = {} /\ line.schema /\ line.capture /\ line.seq = s.previous + 1
  OBVIOUS
<1> HIDE DEF issues
<1>5. /\ t \in Scans /\ t.events = s.events + 1 /\ t.previous = line.seq /\ t.issues = issues
      /\ t.seen = s.seen /\ t.bytes = s.bytes
  BY <1>1, <1>2 DEF Scans
<1>6. line.ref \in Refs \cup {NoRef}
  BY LineFields
<1>7. /\ RefFits(t, line.ref) <=> RefFits(s, line.ref)
      /\ SeenBefore(t, line.ref) <=> SeenBefore(s, line.ref)
  BY <1>5 DEF RefFits, SeenBefore, Conflicts
<1> HIDE DEF t
<1> DEFINE r == BlobVisit(t, files, line.ref)
<1>8. /\ r.events = t.events /\ r.previous = t.previous
      /\ r.issues = {} <=> t.issues = {} /\ RefFits(t, line.ref)
      /\ r.issues = {} =>
           /\ r.seen = IF line.ref # NoRef /\ ~SeenBefore(t, line.ref)
                          THEN Append(t.seen, line.ref) ELSE t.seen
           /\ r.bytes = IF line.ref # NoRef /\ ~SeenBefore(t, line.ref)
                          THEN t.bytes + line.ref.size ELSE t.bytes
  BY <1>5, <1>6, BlobVisitExact
<1> HIDE DEF r
<1> QED
  BY <1>3, <1>4, <1>5, <1>7, <1>8 DEF r

-----------------------------------------------------------------------------
(* The directory without a scan: the digests that the first lines name,    *)
(* those that are stored, and what has to be right about a line by itself. *)

\* The digests that the first i lines name, and those of them that are stored.
NamesTo(i) == {lines[j].ref.digest : j \in {k \in 1..i : lines[k].ref # NoRef}}

StoredTo(i) == NamesTo(i) \cap DOMAIN files

\* What is right about line i, and about the first i lines.
Fits(i) ==
    /\ lines[i].seq = i /\ lines[i].schema /\ lines[i].capture
    /\ lines[i].ref # NoRef => validateBlobRef(lines[i].ref) /\ verifyBlob(files, lines[i].ref)

AllFit(i) == \A j \in 1..i : Fits(j)

\* The type of a directory.
ImageType ==
    /\ lines \in Seq(Lines) /\ torn \in BOOLEAN
    /\ files \in [DOMAIN files -> [size : Sizes, digest : Digests \cup {"other"}]]
    /\ drift \in {"none", "unreadable"} \cup HeaderFields \cup Counters

FileSizes == [d \in StoredTo(Len(lines)) |-> files[d].size]

\* One more line names at most one more digest.
LEMMA NamesGrow ==
    ASSUME NEW i \in Nat, i # 0
    PROVE  /\ lines[i].ref = NoRef => NamesTo(i) = NamesTo(i - 1)
           /\ lines[i].ref # NoRef => NamesTo(i) = NamesTo(i - 1) \cup {lines[i].ref.digest}
<1>1. 1..i = (1..(i - 1)) \cup {i}
  OBVIOUS
<1>2. CASE lines[i].ref = NoRef
  <2>1. {k \in 1..i : lines[k].ref # NoRef} = {k \in 1..(i - 1) : lines[k].ref # NoRef}
    BY <1>1, <1>2
  <2> QED
    BY <1>2, <2>1 DEF NamesTo
<1>3. CASE lines[i].ref # NoRef
  <2>1. {k \in 1..i : lines[k].ref # NoRef} = {k \in 1..(i - 1) : lines[k].ref # NoRef} \cup {i}
    BY <1>1, <1>3
  <2> QED
    BY <1>3, <2>1 DEF NamesTo
<1> QED
  BY <1>2, <1>3

LEMMA NoNames == NamesTo(0) = {}
<1>1. 1..0 = {}
  OBVIOUS
<1> QED
  BY <1>1 DEF NamesTo

LEMMA NamesFinite ==
    ASSUME ImageType
    PROVE  \A i \in 0..Len(lines) : IsFiniteSet(NamesTo(i))
<1> DEFINE T == {i \in Nat : IsFiniteSet(NamesTo(i))}
<1>0. Len(lines) \in Nat
  BY DEF ImageType
<1>1. 0 \in T
  BY NoNames, FS_EmptySet
<1>2. ASSUME NEW i \in Nat, i \in T PROVE i + 1 \in T
  <2>1. i + 1 \in Nat /\ i + 1 # 0 /\ (i + 1) - 1 = i
    OBVIOUS
  <2>2. IsFiniteSet(NamesTo(i))
    BY <1>2
  <2>3. \/ NamesTo(i + 1) = NamesTo(i)
        \/ NamesTo(i + 1) = NamesTo(i) \cup {lines[i + 1].ref.digest}
    BY <2>1, NamesGrow
  <2>4. IsFiniteSet(NamesTo(i) \cup {lines[i + 1].ref.digest})
    BY <2>2, FS_AddElement
  <2> QED
    BY <2>1, <2>2, <2>3, <2>4
<1>3. \A i \in Nat : i \in T
  <2> HIDE DEF T
  <2> QED
    BY <1>1, <1>2, SetInduction
<1> QED
  BY <1>0, <1>3

LEMMA NamesWithin ==
    ASSUME ImageType, NEW i \in 0..Len(lines)
    PROVE  StoredTo(i) \subseteq StoredTo(Len(lines))
<1>1. Len(lines) \in Nat
  BY DEF ImageType
<1>2. 1..i \subseteq 1..Len(lines)
  BY <1>1
<1> QED
  BY <1>2 DEF NamesTo, StoredTo

LEMMA NamedIs ==
    ASSUME ImageType
    PROVE  Named = NamesTo(Len(lines)) /\ Named \cap DOMAIN files = StoredTo(Len(lines))
<1>1. DOMAIN lines = 1..Len(lines)
  BY DEF ImageType
<1> QED
  BY <1>1 DEF Named, Referenced, NamesTo, StoredTo

LEMMA FileFields ==
    ASSUME ImageType
    PROVE  \A d \in DOMAIN files : files[d].size \in Nat /\ files[d].size < WordValues
<1>1. \A d \in DOMAIN files : files[d].size \in Sizes
  BY DEF ImageType
<1>2. Sizes \subseteq 0..(WordValues - 1) /\ WordValues \in Nat
  BY ImageAssumption, WordAssumption
<1> TAKE d \in DOMAIN files
<1>3. files[d].size \in 0..(WordValues - 1)
  BY <1>1, <1>2
<1> QED
  BY <1>2, <1>3

\* The property's byte total is such a sum, over the stored blobs.
LEMMA TrueBytesIs ==
    ASSUME ImageType
    PROVE  /\ FileSizes \in [StoredTo(Len(lines)) -> Nat] /\ IsFiniteSet(StoredTo(Len(lines)))
           /\ \E g \in Sums(StoredTo(Len(lines)), FileSizes) : TrueBytes = g[StoredTo(Len(lines))]
<1> DEFINE U == StoredTo(Len(lines))
<1> DEFINE f == FileSizes
<1>1. f \in [U -> Nat] /\ \A d \in U : f[d] = files[d].size
  BY FileFields DEF FileSizes, StoredTo
<1>2. IsFiniteSet(U)
  <2>1. Len(lines) \in Nat
    BY DEF ImageType
  <2>2. IsFiniteSet(NamesTo(Len(lines)))
    BY <2>1, NamesFinite
  <2> QED
    BY <2>2, FS_Intersection DEF StoredTo
<1> HIDE DEF U, f
<1>3. PICK g \in Sums(U, f) : TRUE
  BY <1>1, <1>2, SumExists
<1> DEFINE h == CHOOSE h : h = [s \in SUBSET U |->
                  IF s = {} THEN 0 ELSE files[CHOOSE x \in s : TRUE].size
                                         + h[s \ {CHOOSE x \in s : TRUE}]]
<1>4. TrueBytes = h[U]
  <2>1. Named \cap DOMAIN files = U
    BY NamedIs DEF U
  <2> QED
    BY <2>1 DEF TrueBytes, MapThenSumSet, MapThenFoldSet
<1>5. h = [s \in SUBSET U |-> IF s = {} THEN 0 ELSE files[CHOOSE x \in s : TRUE].size
                                                     + h[s \ {CHOOSE x \in s : TRUE}]]
  <2>1. g = [s \in SUBSET U |-> IF s = {} THEN 0 ELSE files[CHOOSE x \in s : TRUE].size
                                                     + g[s \ {CHOOSE x \in s : TRUE}]]
    <3>1. ASSUME NEW s \in SUBSET U, s # {} PROVE g[s] = files[AnyOf(s)].size + g[s \ {AnyOf(s)}]
      <4>1. AnyOf(s) \in U
        BY <3>1, AnyIn
      <4> QED
        BY <1>1, <1>3, <3>1, <4>1 DEF Sums
    <3>2. g \in [SUBSET U -> Nat] /\ g[{}] = 0
      BY <1>3 DEF Sums
    <3> QED
      BY <3>1, <3>2 DEF AnyOf
  <2> QED
    BY <2>1
<1> HIDE DEF h
<1>6. \A s \in SUBSET U : h[s] = IF s = {} THEN 0 ELSE f[AnyOf(s)] + h[s \ {AnyOf(s)}]
  <2> SUFFICES ASSUME NEW s \in SUBSET U
               PROVE  h[s] = IF s = {} THEN 0 ELSE f[AnyOf(s)] + h[s \ {AnyOf(s)}]
    OBVIOUS
  <2>1. h[s] = IF s = {} THEN 0 ELSE files[AnyOf(s)].size + h[s \ {AnyOf(s)}]
    BY <1>5 DEF AnyOf
  <2>2. s # {} => f[AnyOf(s)] = files[AnyOf(s)].size
    BY <1>1, AnyIn
  <2> QED
    BY <2>1, <2>2
<1>7. h[U] = g[U]
  BY <1>1, <1>2, <1>3, <1>6, SumUnique
<1> QED
  BY <1>1, <1>2, <1>3, <1>4, <1>7 DEF U, f

-----------------------------------------------------------------------------
(* The scan against the directory, line by line.                           *)

\* g adds up the lengths of stored blobs.
SumOfFiles(g) == g \in Sums(StoredTo(Len(lines)), FileSizes)

\* What one more line does to the names and to the total.
LEMMA StoredStep ==
    ASSUME ImageType, NEW g, SumOfFiles(g), NEW i \in 1..Len(lines)
    PROVE  LET ref == lines[i].ref
               new == ref # NoRef /\ ref.digest \notin NamesTo(i - 1)
           IN  /\ g[StoredTo(i)] \in Nat /\ g[StoredTo(i - 1)] \in Nat
               /\ g[StoredTo(i - 1)] <= g[StoredTo(i)]
               /\ ~new => NamesTo(i) = NamesTo(i - 1) /\ g[StoredTo(i)] = g[StoredTo(i - 1)]
               /\ new => /\ NamesTo(i) = NamesTo(i - 1) \cup {ref.digest}
                         /\ Cardinality(NamesTo(i)) = Cardinality(NamesTo(i - 1)) + 1
               /\ new /\ ref.digest \in DOMAIN files =>
                    g[StoredTo(i)] = g[StoredTo(i - 1)] + files[ref.digest].size
<1> DEFINE ref == lines[i].ref
<1> DEFINE d == ref.digest
<1> DEFINE new == ref # NoRef /\ d \notin NamesTo(i - 1)
<1> DEFINE U == StoredTo(Len(lines))
<1> DEFINE a == StoredTo(i - 1)
<1> DEFINE b == StoredTo(i)
<1>0. Len(lines) \in Nat /\ i \in Nat /\ i # 0 /\ i \in 0..Len(lines) /\ i - 1 \in 0..Len(lines)
  <2>1. Len(lines) \in Nat
    BY DEF ImageType
  <2> QED
    BY <2>1
<1>1. a \in SUBSET U /\ b \in SUBSET U
  BY <1>0, NamesWithin
<1>2. FileSizes \in [U -> Nat] /\ IsFiniteSet(U)
  BY TrueBytesIs
<1>3. g \in [SUBSET U -> Nat] /\ \A s \in SUBSET U : \A c \in s : g[s] = FileSizes[c] + g[s \ {c}]
  <2>1. g \in Sums(U, FileSizes)
    BY DEF SumOfFiles
  <2> DEFINE f == FileSizes
  <2>2. \A s \in SUBSET U : \A c \in s : g[s] = f[c] + g[s \ {c}]
    <3>1. f \in [U -> Nat] /\ IsFiniteSet(U) /\ g \in Sums(U, f)
      BY <1>2, <2>1
    <3> HIDE DEF U, f
    <3> SUFFICES ASSUME NEW s \in SUBSET U, NEW c \in s PROVE g[s] = f[c] + g[s \ {c}]
      OBVIOUS
    <3> QED
      BY <3>1, SumRemove
  <2> HIDE DEF U
  <2> QED
    BY <2>1, <2>2 DEF Sums
<1>4. g[a] \in Nat /\ g[b] \in Nat
  BY <1>1, <1>3
<1>5. CASE ~new
  <2>1. NamesTo(i) = NamesTo(i - 1)
    <3>1. CASE ref = NoRef
      BY <1>0, <3>1, NamesGrow
    <3>2. CASE ref # NoRef /\ d \in NamesTo(i - 1)
      <4>1. NamesTo(i) = NamesTo(i - 1) \cup {d}
        BY <1>0, <3>2, NamesGrow
      <4> QED
        BY <3>2, <4>1
    <3> QED
      BY <1>5, <3>1, <3>2
  <2>2. b = a
    BY <2>1 DEF StoredTo
  <2> HIDE DEF a, b, new
  <2> QED
    BY <1>4, <1>5, <2>1, <2>2 DEF a, b, new
<1>6. CASE new
  <2>1. NamesTo(i) = NamesTo(i - 1) \cup {d}
    BY <1>0, <1>6, NamesGrow
  <2>2. IsFiniteSet(NamesTo(i - 1))
    BY <1>0, NamesFinite
  <2>3. Cardinality(NamesTo(i)) = Cardinality(NamesTo(i - 1)) + 1
    BY <1>6, <2>1, <2>2, FS_AddElement
  <2>4. CASE d \in DOMAIN files
    <3>1. d \in b /\ b \ {d} = a
      BY <1>6, <2>1, <2>4 DEF StoredTo
    <3>2. FileSizes[d] = files[d].size /\ FileSizes[d] \in Nat
      BY <1>1, <1>2, <3>1 DEF FileSizes
    <3>3. g[b] = FileSizes[d] + g[a]
      BY <1>1, <1>3, <3>1
    <3>4. g[b] = g[a] + files[d].size /\ g[a] <= g[b]
      <4> HIDE DEF a, b, d
      <4> QED
        BY <1>4, <3>2, <3>3
    <3> HIDE DEF a, b, new, d
    <3> QED
      BY <1>4, <1>6, <2>1, <2>3, <3>4 DEF a, b, new, d
  <2>5. CASE d \notin DOMAIN files
    <3>1. a = b
      BY <2>1, <2>5 DEF StoredTo
    <3> HIDE DEF a, b, new, d
    <3> QED
      BY <1>4, <1>6, <2>1, <2>3, <2>5, <3>1 DEF a, b, new, d
  <2> QED
    BY <2>4, <2>5
<1> QED
  BY <1>5, <1>6

\* What a scan without an issue has seen after i lines, and when it is without one.
ScanFacts(s, i, g) ==
    /\ s.previous = i /\ s.bytes = g[StoredTo(i)] /\ Len(s.seen) = Cardinality(NamesTo(i))
    /\ \A d : d \in NamesTo(i) <=> \E k \in DOMAIN s.seen : s.seen[k].digest = d
    /\ \A k \in DOMAIN s.seen : verifyBlob(files, s.seen[k])

ScanAt(s, i, g) ==
    /\ s \in Scans /\ s.events = i
    /\ s.issues = {} <=> AllFit(i) /\ g[StoredTo(i)] < WordValues
    /\ s.issues = {} => ScanFacts(s, i, g)

\* A reference fits the scan exactly if it fits the directory and the total still fits a word.
LEMMA RefExact ==
    ASSUME ImageType, NEW g, SumOfFiles(g), NEW i \in 1..Len(lines), NEW s \in Scans,
           ScanFacts(s, i - 1, g), g[StoredTo(i - 1)] < WordValues,
           lines[i].ref \in Refs \cup {NoRef}
    PROVE  /\ RefFits(s, lines[i].ref) <=>
                (lines[i].ref # NoRef =>
                     validateBlobRef(lines[i].ref) /\ verifyBlob(files, lines[i].ref))
                /\ g[StoredTo(i)] < WordValues
           /\ lines[i].ref # NoRef =>
                (SeenBefore(s, lines[i].ref) <=> lines[i].ref.digest \in NamesTo(i - 1))
<1> DEFINE ref == lines[i].ref
<1> DEFINE a == g[StoredTo(i - 1)]
<1> DEFINE b == g[StoredTo(i)]
<1>0. WordValues \in Nat /\ a \in Nat /\ b \in Nat
  BY StoredStep, WordAssumption
<1>1. SeenBefore(s, ref) <=> ref.digest \in NamesTo(i - 1)
  BY DEF SeenBefore, ScanFacts
<1>2. CASE ref = NoRef
  <2>1. b = a
    BY <1>2, StoredStep
  <2> QED
    BY <1>2, <2>1 DEF RefFits
<1>3. CASE ref # NoRef /\ SeenBefore(s, ref)
  <2>1. b = a
    BY <1>1, <1>3, StoredStep
  <2>2. PICK k \in DOMAIN s.seen : s.seen[k].digest = ref.digest
    BY <1>3 DEF SeenBefore
  <2>3. \A m \in DOMAIN s.seen : verifyBlob(files, s.seen[m])
    BY DEF ScanFacts
  <2>4. ~Conflicts(s, ref) <=> verifyBlob(files, ref)
    BY <2>2, <2>3 DEF Conflicts, verifyBlob
  <2> QED
    BY <1>1, <1>3, <2>1, <2>4 DEF RefFits
<1>4. CASE ref # NoRef /\ ~SeenBefore(s, ref)
  <2>0. ref.size \in Nat /\ ref.size < WordValues
    BY <1>4, RefFields
  <2>1. s.bytes = a
    BY DEF ScanFacts
  <2>2. ASSUME verifyBlob(files, ref) PROVE b = a + ref.size
    <3>1. ref.digest \in DOMAIN files /\ files[ref.digest].size = ref.size
      BY <2>2 DEF verifyBlob
    <3> QED
      BY <1>1, <1>4, <3>1, StoredStep
  <2>3. Overflows(s.bytes, ref.size) <=> a + ref.size >= WordValues
    <3>1. Overflows(a, ref.size) <=> a + ref.size >= WordValues
      <4> HIDE DEF a, ref
      <4>1. a < WordValues
        BY DEF a
      <4> QED
        BY <1>0, <2>0, <4>1, OverflowExact
    <3> QED
      BY <2>1, <3>1
  <2>4. ASSUME verifyBlob(files, ref)
        PROVE  ~Overflows(s.bytes, ref.size) <=> b < WordValues
    <3>1. b = a + ref.size
      BY <2>2, <2>4
    <3> HIDE DEF a, b, ref
    <3> QED
      BY <1>0, <2>0, <2>3, <3>1
  <2>5. RefFits(s, ref) <=> validateBlobRef(ref) /\ ~Overflows(s.bytes, ref.size) /\ verifyBlob(files, ref)
    BY <1>4 DEF RefFits
  <2> HIDE DEF a, b, ref
  <2> QED
    BY <1>1, <1>4, <2>4, <2>5 DEF a, b, ref
<1> QED
  BY <1>2, <1>3, <1>4

LEMMA ScanAtStep ==
    ASSUME ImageType, NEW g, SumOfFiles(g), NEW i \in 1..Len(lines), NEW s, ScanAt(s, i - 1, g)
    PROVE  ScanAt(VisitEvent(s, files, lines[i]), i, g)
<1> DEFINE line == lines[i]
<1> DEFINE ref == lines[i].ref
<1> DEFINE r == VisitEvent(s, files, line)
<1> DEFINE new == ref # NoRef /\ ~SeenBefore(s, ref)
<1>0. s \in Scans /\ line \in Lines /\ i \in Nat /\ i # 0 /\ s.events = i - 1
  BY DEF ScanAt, ImageType
<1>1. ref \in Refs \cup {NoRef}
  BY <1>0, LineFields
<1>2. r \in Scans
  BY <1>0, VisitType
<1>3. /\ r.events = s.events + 1 /\ r.previous = line.seq
      /\ r.issues = {} <=> /\ s.issues = {} /\ line.schema /\ line.capture
                           /\ line.seq = s.previous + 1 /\ RefFits(s, ref)
      /\ r.issues = {} => /\ r.seen = IF new THEN Append(s.seen, ref) ELSE s.seen
                          /\ r.bytes = IF new THEN s.bytes + ref.size ELSE s.bytes
  BY <1>0, VisitExact
<1> HIDE DEF r
<1>4. r.events = i
  BY <1>0, <1>3
<1>5. AllFit(i) <=> AllFit(i - 1) /\ Fits(i)
  <2>1. 1..i = (1..(i - 1)) \cup {i}
    BY <1>0
  <2> QED
    BY <2>1 DEF AllFit
<1>6. /\ g[StoredTo(i)] \in Nat /\ g[StoredTo(i - 1)] \in Nat /\ WordValues \in Nat
      /\ g[StoredTo(i - 1)] <= g[StoredTo(i)]
  BY StoredStep, WordAssumption
<1>7. CASE s.issues # {}
  <2>1. r.issues # {}
    BY <1>3, <1>7
  <2>2. ~(AllFit(i - 1) /\ g[StoredTo(i - 1)] < WordValues)
    BY <1>7 DEF ScanAt
  <2>3. ~(AllFit(i) /\ g[StoredTo(i)] < WordValues)
    BY <1>5, <1>6, <2>2
  <2> QED
    BY <1>2, <1>4, <2>1, <2>3 DEF ScanAt, r
<1>8. CASE s.issues = {}
  <2>1. AllFit(i - 1) /\ g[StoredTo(i - 1)] < WordValues /\ ScanFacts(s, i - 1, g)
    BY <1>8 DEF ScanAt
  <2>2. s.previous + 1 = i
    BY <1>0, <2>1 DEF ScanFacts
  <2>3. /\ RefFits(s, ref) <=> (ref # NoRef => validateBlobRef(ref) /\ verifyBlob(files, ref))
                               /\ g[StoredTo(i)] < WordValues
        /\ ref # NoRef => (SeenBefore(s, ref) <=> ref.digest \in NamesTo(i - 1))
    BY <1>0, <1>1, <2>1, RefExact
  <2>4. r.issues = {} <=> AllFit(i) /\ g[StoredTo(i)] < WordValues
    BY <1>3, <1>5, <1>8, <2>1, <2>2, <2>3 DEF Fits
  <2>5. ASSUME r.issues = {} PROVE ScanFacts(r, i, g)
    <3>1. r.previous = i
      BY <1>3, <2>2, <2>5
    <3>2. Fits(i)
      BY <1>5, <2>4, <2>5
    <3>3. CASE ~new
      <4>1. r.seen = s.seen /\ r.bytes = s.bytes
        BY <1>3, <2>5, <3>3
      <4>2. NamesTo(i) = NamesTo(i - 1) /\ g[StoredTo(i)] = g[StoredTo(i - 1)]
        BY <2>3, <3>3, StoredStep
      <4> QED
        BY <2>1, <3>1, <4>1, <4>2 DEF ScanFacts
    <3>4. CASE new
      <4>1. r.seen = Append(s.seen, ref) /\ r.bytes = s.bytes + ref.size
        BY <1>3, <2>5, <3>4
      <4>2. verifyBlob(files, ref)
        BY <3>2, <3>4 DEF Fits
      <4>3. ref.digest \in DOMAIN files /\ files[ref.digest].size = ref.size
        BY <4>2 DEF verifyBlob
      <4>4. /\ NamesTo(i) = NamesTo(i - 1) \cup {ref.digest}
            /\ Cardinality(NamesTo(i)) = Cardinality(NamesTo(i - 1)) + 1
            /\ g[StoredTo(i)] = g[StoredTo(i - 1)] + ref.size
        BY <2>3, <3>4, <4>3, StoredStep
      <4>5. s.seen \in Seq(Refs) /\ ref \in Refs
        BY <1>0, <1>1, <3>4 DEF Scans
      <4> DEFINE n == Len(s.seen)
      <4>6. /\ n \in Nat /\ DOMAIN s.seen = 1..n /\ DOMAIN r.seen = 1..(n + 1) /\ Len(r.seen) = n + 1
            /\ r.seen[n + 1] = ref /\ \A k \in 1..n : r.seen[k] = s.seen[k]
        BY <4>1, <4>5
      <4>7. Len(r.seen) = Cardinality(NamesTo(i)) /\ r.bytes = g[StoredTo(i)]
        BY <2>1, <4>1, <4>4, <4>6 DEF ScanFacts
      <4> HIDE DEF n
      <4>8. 1..(n + 1) = (1..n) \cup {n + 1}
        BY <4>6
      <4>9. /\ \A d : d \in NamesTo(i - 1) <=> \E k \in 1..n : s.seen[k].digest = d
            /\ \A k \in 1..n : verifyBlob(files, s.seen[k])
        BY <2>1, <4>6 DEF ScanFacts
      <4>10. \A d : d \in NamesTo(i) <=> \E k \in DOMAIN r.seen : r.seen[k].digest = d
        BY <4>4, <4>6, <4>8, <4>9
      <4>11. \A k \in DOMAIN r.seen : verifyBlob(files, r.seen[k])
        BY <4>2, <4>6, <4>8, <4>9
      <4> QED
        BY <3>1, <4>7, <4>10, <4>11 DEF ScanFacts
    <3> QED
      BY <3>3, <3>4
  <2> QED
    BY <1>2, <1>4, <2>4, <2>5 DEF ScanAt, r
<1> QED
  BY <1>7, <1>8

LEMMA ScanResult ==
    ASSUME ImageType, NEW g, SumOfFiles(g)
    PROVE  ScanAt(ScanEvents(lines, files), Len(lines), g)
<1>0. lines \in Seq(Lines) /\ Len(lines) \in Nat
  BY DEF ImageType
<1>1. PICK p \in [0..Len(lines) -> Scans] :
         /\ p[0] = ScanStart /\ p[Len(lines)] = ScanEvents(lines, files)
         /\ \A i \in 1..Len(lines) : p[i] = VisitEvent(p[i - 1], files, lines[i])
  BY <1>0, ScanStages
<1> DEFINE T == {i \in 0..Len(lines) : ScanAt(p[i], i, g)}
<1>2. 0 \in T
  <2>1. 0 \in 0..Len(lines) /\ p[0] \in Scans /\ p[0] = ScanStart
    BY <1>0, <1>1
  <2>2. StoredTo(0) = {} /\ NamesTo(0) = {} /\ Cardinality({}) = 0
    BY NoNames, FS_EmptySet DEF StoredTo
  <2>3. g[StoredTo(0)] = 0
    <3>1. {} \in SUBSET StoredTo(Len(lines))
      OBVIOUS
    <3> QED
      BY <2>2, <3>1 DEF SumOfFiles, Sums
  <2>4. AllFit(0) /\ 0 < WordValues
    <3>1. 1..0 = {}
      OBVIOUS
    <3> QED
      BY <3>1, WordAssumption DEF AllFit
  <2>5. /\ p[0].events = 0 /\ p[0].issues = {} /\ p[0].previous = 0 /\ p[0].bytes = 0
        /\ p[0].seen = << >>
    BY <2>1 DEF ScanStart
  <2>6. ScanFacts(p[0], 0, g)
    <3>1. Len(<< >>) = 0 /\ DOMAIN << >> = {}
      OBVIOUS
    <3> QED
      BY <2>2, <2>3, <2>5, <3>1 DEF ScanFacts
  <2> QED
    BY <2>1, <2>3, <2>4, <2>5, <2>6 DEF ScanAt
<1>3. ASSUME NEW i \in 1..Len(lines), i - 1 \in T PROVE i \in T
  <2>1. ScanAt(p[i - 1], i - 1, g) /\ i \in 0..Len(lines)
    BY <1>0, <1>3
  <2>2. ScanAt(VisitEvent(p[i - 1], files, lines[i]), i, g)
    BY <2>1, ScanAtStep
  <2> QED
    BY <1>1, <2>1, <2>2
<1>4. Len(lines) \in T
  <2> HIDE DEF T
  <2> QED
    <3>1. \A i \in 1..Len(lines) : i - 1 \in T => i \in T
      BY <1>3
    <3> DEFINE n == Len(lines)
    <3>2. n \in Nat /\ \A i \in 1..n : i - 1 \in T => i \in T
      BY <1>0, <3>1
    <3> HIDE DEF n
    <3>3. \A i \in 0..n : i \in T
      BY <1>2, <3>2, BoundedInduction
    <3> QED
      BY <3>2, <3>3 DEF n
<1> QED
  BY <1>1, <1>4

\* For any directory at all.
LEMMA VerifierExact == ASSUME ImageType PROVE PassesExactly
<1> DEFINE n == Len(lines)
<1> DEFINE S == ScanEvents(lines, files)
<1>0. n \in Nat /\ DOMAIN lines = 1..n /\ torn \in BOOLEAN
  BY DEF ImageType
<1>1. PICK g : SumOfFiles(g) /\ TrueBytes = g[StoredTo(n)]
  BY TrueBytesIs DEF SumOfFiles
<1>2. ScanAt(S, n, g)
  BY <1>1, ScanResult
<1>3. Named = NamesTo(n)
  BY NamedIs
<1> HIDE DEF S
<1>4. /\ S.events = n
      /\ S.issues = {} <=> AllFit(n) /\ TrueBytes < WordValues
      /\ S.issues = {} => S.bytes = TrueBytes /\ Len(S.seen) = Cardinality(Named)
  BY <1>1, <1>2, <1>3 DEF ScanAt, ScanFacts
<1>5. AllFit(n) <=>
        /\ \A i \in DOMAIN lines : lines[i].seq = i /\ lines[i].schema /\ lines[i].capture
        /\ \A ref \in Referenced :
             /\ ref.canonical
             /\ ref.digest \in DOMAIN files
             /\ files[ref.digest] = [size |-> ref.size, digest |-> ref.digest]
  <2>1. ASSUME NEW ref
        PROVE  verifyBlob(files, ref) <=>
                 /\ ref.digest \in DOMAIN files
                 /\ files[ref.digest] = [size |-> ref.size, digest |-> ref.digest]
    <3>1. ref.digest \in DOMAIN files =>
            files[ref.digest] \in [size : Sizes, digest : Digests \cup {"other"}]
      BY DEF ImageType
    <3> QED
      BY <3>1 DEF verifyBlob
  <2>2. \A ref : ref \in Referenced <=> ref # NoRef /\ \E i \in 1..n : lines[i].ref = ref
    BY <1>0 DEF Referenced
  <2> HIDE DEF n
  <2>3. AllFit(n) <=> /\ \A i \in 1..n : lines[i].seq = i /\ lines[i].schema /\ lines[i].capture
                      /\ \A i \in 1..n : lines[i].ref # NoRef =>
                           lines[i].ref.canonical /\ verifyBlob(files, lines[i].ref)
    BY DEF AllFit, Fits, validateBlobRef
  <2>4. (\A i \in 1..n : lines[i].ref # NoRef =>
            lines[i].ref.canonical /\ verifyBlob(files, lines[i].ref))
         <=> \A ref \in Referenced : ref.canonical /\ verifyBlob(files, ref)
    BY <2>2
  <2> QED
    BY <1>0, <2>1, <2>3, <2>4
<1>6. TrueBytes \in Nat /\ Cardinality(Named) \in Nat
  <2>1. g[StoredTo(n)] \in Nat
    BY <1>1 DEF SumOfFiles, Sums
  <2>2. IsFiniteSet(NamesTo(n))
    BY <1>0, NamesFinite
  <2> QED
    BY <1>1, <1>3, <2>1, <2>2, FS_CardinalityType
<1>7. /\ Manifest.readable <=> drift # "unreadable"
      /\ Manifest.header = {drift} \cap HeaderFields
      /\ Manifest.events = n + (IF drift = "events" THEN 1 ELSE 0)
      /\ Manifest.blobs = Cardinality(Named) + (IF drift = "blobs" THEN 1 ELSE 0)
      /\ Manifest.blobBytes = TrueBytes + (IF drift = "blobBytes" THEN 1 ELSE 0)
  BY DEF Manifest
<1>8. ASSUME S.issues = {}
      PROVE  Manifest.readable /\ ManifestIssues(Manifest, S) = {} <=> drift = "none"
  <2>1. /\ S.events = n /\ S.bytes = TrueBytes /\ Len(S.seen) = Cardinality(Named)
    BY <1>4, <1>8
  <2>2. drift \in {"none", "unreadable"} \cup HeaderFields \cup Counters
    BY DEF ImageType
  <2>3. ManifestIssues(Manifest, S) = {} <=>
          Manifest.header = {} /\ Manifest.events = n /\ Manifest.blobs = Cardinality(Named) /\ Manifest.blobBytes = TrueBytes
    BY <2>1 DEF ManifestIssues
  <2> HIDE DEF n
  <2> QED
    <3>1. Manifest.header = {} <=> drift \notin HeaderFields
      BY <1>7
    <3>2. /\ Manifest.events = n <=> drift # "events"
          /\ Manifest.blobs = Cardinality(Named) <=> drift # "blobs"
          /\ Manifest.blobBytes = TrueBytes <=> drift # "blobBytes"
      BY <1>0, <1>6, <1>7
    <3> QED
      BY <1>7, <2>2, <2>3, <3>1, <3>2 DEF HeaderFields, Counters
<1>9. Verified <=> Manifest.readable /\ ~torn /\ S.issues = {} /\ ManifestIssues(Manifest, S) = {}
  <2>1. CASE torn \/ ~Manifest.readable
    BY <2>1 DEF Verified, VerifyWithProgress
  <2>2. CASE ~torn /\ Manifest.readable
    <3>1. VerifyWithProgress(lines, torn, files, Manifest) =
            [error |-> FALSE, issues |-> S.issues \cup ManifestIssues(Manifest, S)]
      BY <2>2 DEF VerifyWithProgress, S
    <3> DEFINE found == S.issues \cup ManifestIssues(Manifest, S)
    <3>2. found = {} <=> S.issues = {} /\ ManifestIssues(Manifest, S) = {}
      OBVIOUS
    <3> HIDE DEF found
    <3>3. Verified <=> [error |-> FALSE, issues |-> found] = [error |-> FALSE, issues |-> {}]
      BY <3>1 DEF Verified, found
    <3>4. [error |-> FALSE, issues |-> found] = [error |-> FALSE, issues |-> {}] <=> found = {}
      OBVIOUS
    <3> QED
      BY <2>2, <3>2, <3>3, <3>4
  <2> QED
    BY <2>1, <2>2
<1>10. WellFormed <=> ~torn /\ drift = "none" /\ AllFit(n) /\ TrueBytes < WordValues
  <2> HIDE DEF n
  <2> QED
    BY <1>5 DEF WellFormed
<1> HIDE DEF n
<1> QED
  BY <1>4, <1>8, <1>9, <1>10 DEF PassesExactly

LEMMA InitImage == Init => ImageType
<1> SUFFICES ASSUME Init PROVE ImageType
  OBVIOUS
<1>1. PICK present \in SUBSET Digests :
         files \in {f \in [present -> UNION {Contents(d) : d \in Digests}] :
                       \A d \in present : f[d] \in Contents(d)}
  BY DEF Init
<1>2. DOMAIN files = present /\ files = [d \in present |-> files[d]]
      /\ \A d \in present : files[d] \in Contents(d)
  BY <1>1
<1>3. \A d \in Digests : Contents(d) \subseteq [size : Sizes, digest : Digests \cup {"other"}]
  BY DEF Contents
<1>4. files \in [DOMAIN files -> [size : Sizes, digest : Digests \cup {"other"}]]
  BY <1>2, <1>3
<1>5. lines = << >> /\ torn = FALSE /\ drift = "none"
  BY DEF Init
<1>6. << >> \in Seq(Lines)
  OBVIOUS
<1> QED
  BY <1>4, <1>5, <1>6 DEF ImageType

LEMMA ImageStep == ASSUME ImageType, [Next]_vars PROVE ImageType'
<1>1. CASE WriteLine
  <2>1. PICK line \in Lines : lines' = Append(lines, line)
    BY <1>1 DEF WriteLine
  <2>2. lines' \in Seq(Lines)
    BY <2>1 DEF ImageType
  <2> QED
    BY <1>1, <2>2 DEF WriteLine, ImageType
<1>2. CASE Tear
  BY <1>2 DEF Tear, ImageType
<1>3. CASE Drift
  BY <1>3 DEF Drift, ImageType, HeaderFields, Counters
<1>4. CASE UNCHANGED vars
  BY <1>4 DEF vars, ImageType
<1> QED
  BY <1>1, <1>2, <1>3, <1>4 DEF Next

\* VerifyWithProgress passes exactly the sound captures, for directories of any length, any
\* digests and sizes and any width of the byte counter: no damage hides another, a blob that
\* several events share is counted once, the comparison after the unsigned addition finds
\* every overflow, and an empty blob is never one.
THEOREM PassesAlwaysExactly == Spec => []PassesExactly
<1>1. ImageType /\ [Next]_vars => ImageType'
  BY ImageStep
<1>2. ImageType => PassesExactly
  BY VerifierExact
<1> QED
  BY <1>1, <1>2, InitImage, PTL DEF Spec
=============================================================================
