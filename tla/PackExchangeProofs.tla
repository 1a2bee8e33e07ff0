------------------------- MODULE PackExchangeProofs -------------------------
(***************************************************************************)
(* The theorems of PackExchange, for any keys, any offers, any number of   *)
(* download workers and any choice of the encrypted packs.                 *)
(*                                                                         *)
(* DerivedInv is inductive and gives DerivedExact: the archive that is     *)
(* being decrypted is the only one without an outcome, and the caller's    *)
(* place in the loop says which one it is.  ExchangeInv adds what Merge    *)
(* returns.  The loops of the code are folds, and FoldFacts gives the      *)
(* stages of a fold, so that what a loop computes is shown one element at  *)
(* a time: Merge keeps the count of every key (KeyAt) and the order of the *)
(* offer (Picks).                                                          *)
(***************************************************************************)
EXTENDS PackExchange, FoldFacts, TLAPS, FiniteSetTheorems

USE DEF cacheVars, readerVars, connVars, mainVars

-----------------------------------------------------------------------------
(* The loops of the cache and of the recorder as folds: the stages of      *)
(* each, one for each element, and the types of what they carry along.     *)

\* An entry of an offer.
Entries == [key : Keys, url : BOOLEAN]

\* Offer: the jobs that an offer starts, after each of its entries.
LEMMA NewJobsStages ==
    ASSUME NEW offer \in Seq(Entries)
    PROVE  \E p \in [0..Len(offer) -> Seq(Keys)] :
              /\ p[0] = << >> /\ p[Len(offer)] = NewJobs(offer)
              /\ \A i \in 1..Len(offer) : p[i] = NewJob(p[i - 1], offer[i])
<1> DEFINE n == Len(offer)
<1> DEFINE Acc == Seq(Keys)
<1> DEFINE base == << >>
<1> DEFINE step == [q \in Acc \X (1..n) |-> NewJob(q[1], offer[q[2]])]
<1> DEFINE h == CHOOSE h : h = [s \in SUBSET (DOMAIN offer) |->
                  IF s = {} THEN << >> ELSE NewJob(h[s \ {Max(s)}], offer[Max(s)])]
<1>1. n \in Nat /\ DOMAIN offer = 1..n /\ base \in Acc
  OBVIOUS
<1>2. \A a \in Acc, i \in 1..n : NewJob(a, offer[i]) \in Acc
  <2> SUFFICES ASSUME NEW a \in Acc, NEW i \in 1..n PROVE NewJob(a, offer[i]) \in Acc
    OBVIOUS
  <2>1. offer[i] \in Entries
    BY <1>1
  <2>2. offer[i].key \in Keys
    BY <2>1 DEF Entries
  <2> QED
    BY <2>2 DEF NewJob
<1> HIDE DEF n, Acc, base
<1>3. step \in [Acc \X (1..n) -> Acc]
  BY <1>1, <1>2
<1>4. \A a \in Acc, i \in 1..n : step[<<a, i>>] = NewJob(a, offer[i])
  BY <1>1
<1>5. NewJobs(offer) = h[DOMAIN offer]
  BY DEF NewJobs, FoldLeft, MapThenFoldSet
<1> HIDE DEF step
<1>6. h = [s \in SUBSET (DOMAIN offer) |->
             IF s = {} THEN base ELSE NewJob(h[s \ {Max(s)}], offer[Max(s)])]
  <2>1. PICK g \in Iters(n, Acc, base, step) : TRUE
    BY <1>1, <1>3, IterExists
  <2>2. /\ g \in [SUBSET (1..n) -> Acc]
        /\ \A s \in SUBSET (1..n) :
             g[s] = IF s = {} THEN base ELSE step[<<g[s \ {Max(s)}], Max(s)>>]
    BY <2>1 DEF Iters
  <2>3. ASSUME NEW s \in SUBSET (1..n), s # {}
        PROVE  g[s] = NewJob(g[s \ {Max(s)}], offer[Max(s)])
    <3>1. Max(s) \in 1..n
      BY <1>1, <2>3, MaxOfBounded
    <3>2. g[s \ {Max(s)}] \in Acc
      BY <2>2
    <3> QED
      BY <1>4, <2>2, <2>3, <3>1, <3>2
  <2>4. g = [s \in SUBSET (DOMAIN offer) |->
               IF s = {} THEN base ELSE NewJob(g[s \ {Max(s)}], offer[Max(s)])]
    BY <1>1, <2>2, <2>3
  <2> QED
    BY <2>4 DEF base
<1> HIDE DEF h
<1>7. h[{}] = base
  <2>1. {} \in SUBSET (DOMAIN offer)
    OBVIOUS
  <2> QED
    BY <1>6, <2>1
<1>8. ASSUME NEW s \in SUBSET (1..n), s # {}, h[s \ {Max(s)}] \in Acc
      PROVE  h[s] = step[<<h[s \ {Max(s)}], Max(s)>>]
  <2>1. Max(s) \in 1..n
    BY <1>1, <1>8, MaxOfBounded
  <2>2. h[s] = NewJob(h[s \ {Max(s)}], offer[Max(s)])
    BY <1>1, <1>6, <1>8
  <2> QED
    BY <1>4, <1>8, <2>1, <2>2
<1>9. IsIter(h, n, Acc, base, step)
  BY <1>1, <1>3, <1>7, <1>8 DEF IsIter
<1>10. PICK p \in Stages(n, Acc, base, step) : p[n] = h[1..n]
  BY <1>9, IterPrefixes
<1>11. p \in [0..n -> Acc] /\ p[0] = base
  BY <1>10 DEF Stages
<1>12. ASSUME NEW i \in 1..n PROVE p[i] = NewJob(p[i - 1], offer[i])
  <2>1. i - 1 \in 0..n
    BY <1>1
  <2> QED
    BY <1>4, <1>10, <1>11, <2>1 DEF Stages
<1> QED
  BY <1>1, <1>5, <1>10, <1>11, <1>12 DEF n, Acc, base

\* CommitDownloads: the order of the packs, after each finished job.
LEMMA AppendGotStages ==
    ASSUME jobs \in Seq(Keys), packOrder \in Seq(Keys)
    PROVE  \E p \in [0..Len(jobs) -> Seq(Keys)] :
              /\ p[0] = packOrder /\ p[Len(jobs)] = FoldLeft(AppendGot, packOrder, jobs)
              /\ \A i \in 1..Len(jobs) : p[i] = AppendGot(p[i - 1], jobs[i])
<1> DEFINE n == Len(jobs)
<1> DEFINE Acc == Seq(Keys)
<1> DEFINE base == packOrder
<1> DEFINE step == [q \in Acc \X (1..n) |-> AppendGot(q[1], jobs[q[2]])]
<1> DEFINE h == CHOOSE h : h = [s \in SUBSET (DOMAIN jobs) |->
                  IF s = {} THEN packOrder ELSE AppendGot(h[s \ {Max(s)}], jobs[Max(s)])]
<1>1. n \in Nat /\ DOMAIN jobs = 1..n /\ base \in Acc
  OBVIOUS
<1>2. \A a \in Acc, i \in 1..n : AppendGot(a, jobs[i]) \in Acc
  BY DEF AppendGot
<1> HIDE DEF n, Acc, base
<1>3. step \in [Acc \X (1..n) -> Acc]
  BY <1>1, <1>2
<1>4. \A a \in Acc, i \in 1..n : step[<<a, i>>] = AppendGot(a, jobs[i])
  BY <1>1
<1>5. FoldLeft(AppendGot, packOrder, jobs) = h[DOMAIN jobs]
  BY DEF FoldLeft, MapThenFoldSet
<1> HIDE DEF step
<1>6. h = [s \in SUBSET (DOMAIN jobs) |->
             IF s = {} THEN base ELSE AppendGot(h[s \ {Max(s)}], jobs[Max(s)])]
  <2>1. PICK g \in Iters(n, Acc, base, step) : TRUE
    BY <1>1, <1>3, IterExists
  <2>2. /\ g \in [SUBSET (1..n) -> Acc]
        /\ \A s \in SUBSET (1..n) :
             g[s] = IF s = {} THEN base ELSE step[<<g[s \ {Max(s)}], Max(s)>>]
    BY <2>1 DEF Iters
  <2>3. ASSUME NEW s \in SUBSET (1..n), s # {}
        PROVE  g[s] = AppendGot(g[s \ {Max(s)}], jobs[Max(s)])
    <3>1. Max(s) \in 1..n
      BY <1>1, <2>3, MaxOfBounded
    <3>2. g[s \ {Max(s)}] \in Acc
      BY <2>2
    <3> QED
      BY <1>4, <2>2, <2>3, <3>1, <3>2
  <2>4. g = [s \in SUBSET (DOMAIN jobs) |->
               IF s = {} THEN base ELSE AppendGot(g[s \ {Max(s)}], jobs[Max(s)])]
    BY <1>1, <2>2, <2>3
  <2> QED
    BY <2>4 DEF base
<1> HIDE DEF h
<1>7. h[{}] = base
  <2>1. {} \in SUBSET (DOMAIN jobs)
    OBVIOUS
  <2> QED
    BY <1>6, <2>1
<1>8. ASSUME NEW s \in SUBSET (1..n), s # {}, h[s \ {Max(s)}] \in Acc
      PROVE  h[s] = step[<<h[s \ {Max(s)}], Max(s)>>]
  <2>1. Max(s) \in 1..n
    BY <1>1, <1>8, MaxOfBounded
  <2>2. h[s] = AppendGot(h[s \ {Max(s)}], jobs[Max(s)])
    BY <1>1, <1>6, <1>8
  <2> QED
    BY <1>4, <1>8, <2>1, <2>2
<1>9. IsIter(h, n, Acc, base, step)
  BY <1>1, <1>3, <1>7, <1>8 DEF IsIter
<1>10. PICK p \in Stages(n, Acc, base, step) : p[n] = h[1..n]
  BY <1>9, IterPrefixes
<1>11. p \in [0..n -> Acc] /\ p[0] = base
  BY <1>10 DEF Stages
<1>12. ASSUME NEW i \in 1..n PROVE p[i] = AppendGot(p[i - 1], jobs[i])
  <2>1. i - 1 \in 0..n
    BY <1>1
  <2> QED
    BY <1>4, <1>10, <1>11, <2>1 DEF Stages
<1> QED
  BY <1>1, <1>5, <1>10, <1>11, <1>12 DEF n, Acc, base

HandleAcc == [hits : Seq(Packs), asked : SUBSET Keys]

LEMMA HandleType ==
    ASSUME NEW acc \in HandleAcc, NEW e \in Entries
    PROVE  Handle(acc, e) \in HandleAcc
<1>1. e.key \in Keys /\ acc.hits \in Seq(Packs) /\ acc.asked \in SUBSET Keys
  BY DEF Entries, HandleAcc
<1>2. Cached(e.key) \in Packs
  BY <1>1 DEF Cached, Packs
<1>3. Append(acc.hits, Cached(e.key)) \in Seq(Packs)
  BY <1>1, <1>2
<1> HIDE DEF Packs
<1> QED
  BY <1>1, <1>3 DEF Handle, HandleAcc

\* The library's handling of the pack list, after each of its entries.
LEMMA HandledStages ==
    ASSUME info \in Seq(Entries)
    PROVE  \E p \in [0..Len(info) -> HandleAcc] :
              /\ p[0] = [hits |-> << >>, asked |-> {}] /\ p[Len(info)] = Handled
              /\ \A i \in 1..Len(info) : p[i] = Handle(p[i - 1], info[i])
<1> DEFINE n == Len(info)
<1> DEFINE Acc == HandleAcc
<1> DEFINE base == [hits |-> << >>, asked |-> {}]
<1> DEFINE step == [q \in Acc \X (1..n) |-> Handle(q[1], info[q[2]])]
<1> DEFINE h == CHOOSE h : h = [s \in SUBSET (DOMAIN info) |->
                  IF s = {} THEN [hits |-> << >>, asked |-> {}]
                  ELSE Handle(h[s \ {Max(s)}], info[Max(s)])]
<1>1. n \in Nat /\ DOMAIN info = 1..n /\ base \in Acc
  BY DEF HandleAcc
<1>2. \A a \in Acc, i \in 1..n : Handle(a, info[i]) \in Acc
  BY HandleType
<1> HIDE DEF n, Acc, base
<1>3. step \in [Acc \X (1..n) -> Acc]
  BY <1>1, <1>2
<1>4. \A a \in Acc, i \in 1..n : step[<<a, i>>] = Handle(a, info[i])
  BY <1>1
<1>5. Handled = h[DOMAIN info]
  BY DEF Handled, FoldLeft, MapThenFoldSet
<1> HIDE DEF step
<1>6. h = [s \in SUBSET (DOMAIN info) |->
             IF s = {} THEN base ELSE Handle(h[s \ {Max(s)}], info[Max(s)])]
  <2>1. PICK g \in Iters(n, Acc, base, step) : TRUE
    BY <1>1, <1>3, IterExists
  <2>2. /\ g \in [SUBSET (1..n) -> Acc]
        /\ \A s \in SUBSET (1..n) :
             g[s] = IF s = {} THEN base ELSE step[<<g[s \ {Max(s)}], Max(s)>>]
    BY <2>1 DEF Iters
  <2>3. ASSUME NEW s \in SUBSET (1..n), s # {}
        PROVE  g[s] = Handle(g[s \ {Max(s)}], info[Max(s)])
    <3>1. Max(s) \in 1..n
      BY <1>1, <2>3, MaxOfBounded
    <3>2. g[s \ {Max(s)}] \in Acc
      BY <2>2
    <3> QED
      BY <1>4, <2>2, <2>3, <3>1, <3>2
  <2>4. g = [s \in SUBSET (DOMAIN info) |->
               IF s = {} THEN base ELSE Handle(g[s \ {Max(s)}], info[Max(s)])]
    BY <1>1, <2>2, <2>3
  <2> QED
    BY <2>4 DEF base
<1> HIDE DEF h
<1>7. h[{}] = base
  <2>1. {} \in SUBSET (DOMAIN info)
    OBVIOUS
  <2> QED
    BY <1>6, <2>1
<1>8. ASSUME NEW s \in SUBSET (1..n), s # {}, h[s \ {Max(s)}] \in Acc
      PROVE  h[s] = step[<<h[s \ {Max(s)}], Max(s)>>]
  <2>1. Max(s) \in 1..n
    BY <1>1, <1>8, MaxOfBounded
  <2>2. h[s] = Handle(h[s \ {Max(s)}], info[Max(s)])
    BY <1>1, <1>6, <1>8
  <2> QED
    BY <1>4, <1>8, <2>1, <2>2
<1>9. IsIter(h, n, Acc, base, step)
  BY <1>1, <1>3, <1>7, <1>8 DEF IsIter
<1>10. PICK p \in Stages(n, Acc, base, step) : p[n] = h[1..n]
  BY <1>9, IterPrefixes
<1>11. p \in [0..n -> Acc] /\ p[0] = base
  BY <1>10 DEF Stages
<1>12. ASSUME NEW i \in 1..n PROVE p[i] = Handle(p[i - 1], info[i])
  <2>1. i - 1 \in 0..n
    BY <1>1
  <2> QED
    BY <1>4, <1>10, <1>11, <2>1 DEF Stages
<1> QED
  BY <1>1, <1>5, <1>10, <1>11, <1>12 DEF n, Acc, base

\* The first entry of a key that Merge has not used yet.
LEMMA LeastUnused ==
    ASSUME NEW acc, existing \in Seq(Packs), NEW key, Unused(acc, key) # {}
    PROVE  \E i \in Unused(acc, key) : FirstUnused(acc, key) = {i}
<1>1. Unused(acc, key) \in SUBSET (1..Len(existing)) /\ Len(existing) \in Nat
  BY DEF Unused
<1>2. PICK i \in Unused(acc, key) : \A j \in Unused(acc, key) : i <= j
  BY <1>1, LeastOfBounded
<1>3. FirstUnused(acc, key) = {i}
  BY <1>1, <1>2 DEF FirstUnused
<1> QED
  BY <1>2, <1>3

MergeAcc == [out : Seq(Packs), used : SUBSET Nat, taken : SUBSET Keys]

LEMMA MergeTypes ==
    ASSUME NEW acc \in MergeAcc, existing \in Seq(Packs)
    PROVE  /\ \A key \in Keys : MergeOffered(acc, key) \in MergeAcc /\ MergeCached(acc, key) \in MergeAcc
           /\ \A i \in DOMAIN existing : MergeExisting(acc, i) \in MergeAcc
<1>1. acc.out \in Seq(Packs) /\ acc.used \in SUBSET Nat /\ acc.taken \in SUBSET Keys
      /\ acc = [out |-> acc.out, used |-> acc.used, taken |-> acc.taken]
  BY DEF MergeAcc
<1>2. ASSUME NEW key \in Keys PROVE Append(acc.out, Cached(key)) \in Seq(Packs)
  <2>1. Cached(key) \in Packs
    BY DEF Cached, Packs
  <2> QED
    BY <1>1, <2>1
<1>3. ASSUME NEW i \in DOMAIN existing
      PROVE Append(acc.out, existing[i]) \in Seq(Packs) /\ i \in Nat
  <2>1. existing[i] \in Packs /\ i \in Nat
    OBVIOUS
  <2> QED
    BY <1>1, <2>1
<1> HIDE DEF Packs
<1>4. ASSUME NEW key \in Keys PROVE MergeCached(acc, key) \in MergeAcc
  BY <1>1, <1>2 DEF MergeCached, MergeAcc
<1>5. ASSUME NEW i \in DOMAIN existing PROVE MergeExisting(acc, i) \in MergeAcc
  BY <1>1, <1>3 DEF MergeExisting, MergeAcc
<1>6. ASSUME NEW key \in Keys PROVE MergeOffered(acc, key) \in MergeAcc
  <2>1. FirstUnused(acc, key) \in SUBSET Nat /\ FirstUnused(acc, key) \in SUBSET DOMAIN existing
    BY <1>3 DEF FirstUnused, Unused
  <2>2. CASE packs[key] # "none" /\ key \notin acc.taken
    <3>1. MergeOffered(acc, key) = [out   |-> Append(acc.out, Cached(key)),
                                    used  |-> acc.used \cup FirstUnused(acc, key),
                                    taken |-> acc.taken \cup {key}]
      BY <2>2 DEF MergeOffered
    <3> QED
      BY <1>1, <1>2, <2>1, <3>1 DEF MergeAcc
  <2>3. CASE ~(packs[key] # "none" /\ key \notin acc.taken) /\ Unused(acc, key) # {}
    <3> DEFINE i == CHOOSE i \in FirstUnused(acc, key) : TRUE
    <3>1. i \in DOMAIN existing
      <4>1. FirstUnused(acc, key) # {}
        BY <2>3, LeastUnused
      <4> QED
        BY <2>1, <4>1
    <3>2. MergeOffered(acc, key) = [out   |-> Append(acc.out, existing[i]),
                                    used  |-> acc.used \cup FirstUnused(acc, key),
                                    taken |-> acc.taken]
      BY <1>1, <2>3 DEF MergeOffered
    <3> HIDE DEF i
    <3> QED
      BY <1>1, <1>3, <2>1, <3>1, <3>2 DEF MergeAcc
  <2>4. CASE ~(packs[key] # "none" /\ key \notin acc.taken) /\ Unused(acc, key) = {}
    BY <2>4 DEF MergeOffered
  <2> QED
    BY <2>2, <2>3, <2>4
<1> QED
  BY <1>4, <1>5, <1>6

\* Merge: its three loops, over the offer, over the existing packs and over the cache.
LEMMA OfferedStages ==
    ASSUME existing \in Seq(Packs), offerOrder \in Seq(Keys)
    PROVE  \E p \in [0..Len(offerOrder) -> MergeAcc] :
              /\ p[0] = [out |-> << >>, used |-> {}, taken |-> {}] /\ p[Len(offerOrder)] = Offered
              /\ \A i \in 1..Len(offerOrder) : p[i] = MergeOffered(p[i - 1], offerOrder[i])
<1> DEFINE n == Len(offerOrder)
<1> DEFINE Acc == MergeAcc
<1> DEFINE base == [out |-> << >>, used |-> {}, taken |-> {}]
<1> DEFINE step == [q \in Acc \X (1..n) |-> MergeOffered(q[1], offerOrder[q[2]])]
<1> DEFINE h == CHOOSE h : h = [s \in SUBSET (DOMAIN offerOrder) |->
                  IF s = {} THEN [out |-> << >>, used |-> {}, taken |-> {}]
                  ELSE MergeOffered(h[s \ {Max(s)}], offerOrder[Max(s)])]
<1>1. n \in Nat /\ DOMAIN offerOrder = 1..n /\ base \in Acc
  BY DEF MergeAcc
<1>2. \A a \in Acc, i \in 1..n : MergeOffered(a, offerOrder[i]) \in Acc
  BY MergeTypes
<1> HIDE DEF n, Acc, base
<1>3. step \in [Acc \X (1..n) -> Acc]
  BY <1>1, <1>2
<1>4. \A a \in Acc, i \in 1..n : step[<<a, i>>] = MergeOffered(a, offerOrder[i])
  BY <1>1
<1>5. Offered = h[DOMAIN offerOrder]
  BY DEF Offered, FoldLeft, MapThenFoldSet
<1> HIDE DEF step
<1>6. h = [s \in SUBSET (DOMAIN offerOrder) |->
             IF s = {} THEN base ELSE MergeOffered(h[s \ {Max(s)}], offerOrder[Max(s)])]
  <2>1. PICK g \in Iters(n, Acc, base, step) : TRUE
    BY <1>1, <1>3, IterExists
  <2>2. /\ g \in [SUBSET (1..n) -> Acc]
        /\ \A s \in SUBSET (1..n) :
             g[s] = IF s = {} THEN base ELSE step[<<g[s \ {Max(s)}], Max(s)>>]
    BY <2>1 DEF Iters
  <2>3. ASSUME NEW s \in SUBSET (1..n), s # {}
        PROVE  g[s] = MergeOffered(g[s \ {Max(s)}], offerOrder[Max(s)])
    <3>1. Max(s) \in 1..n
      BY <1>1, <2>3, MaxOfBounded
    <3>2. g[s \ {Max(s)}] \in Acc
      BY <2>2
    <3> QED
      BY <1>4, <2>2, <2>3, <3>1, <3>2
  <2>4. g = [s \in SUBSET (DOMAIN offerOrder) |->
               IF s = {} THEN base ELSE MergeOffered(g[s \ {Max(s)}], offerOrder[Max(s)])]
    BY <1>1, <2>2, <2>3
  <2> QED
    BY <2>4 DEF base
<1> HIDE DEF h
<1>7. h[{}] = base
  <2>1. {} \in SUBSET (DOMAIN offerOrder)
    OBVIOUS
  <2> QED
    BY <1>6, <2>1
<1>8. ASSUME NEW s \in SUBSET (1..n), s # {}, h[s \ {Max(s)}] \in Acc
      PROVE  h[s] = step[<<h[s \ {Max(s)}], Max(s)>>]
  <2>1. Max(s) \in 1..n
    BY <1>1, <1>8, MaxOfBounded
  <2>2. h[s] = MergeOffered(h[s \ {Max(s)}], offerOrder[Max(s)])
    BY <1>1, <1>6, <1>8
  <2> QED
    BY <1>4, <1>8, <2>1, <2>2
<1>9. IsIter(h, n, Acc, base, step)
  BY <1>1, <1>3, <1>7, <1>8 DEF IsIter
<1>10. PICK p \in Stages(n, Acc, base, step) : p[n] = h[1..n]
  BY <1>9, IterPrefixes
<1>11. p \in [0..n -> Acc] /\ p[0] = base
  BY <1>10 DEF Stages
<1>12. ASSUME NEW i \in 1..n PROVE p[i] = MergeOffered(p[i - 1], offerOrder[i])
  <2>1. i - 1 \in 0..n
    BY <1>1
  <2> QED
    BY <1>4, <1>10, <1>11, <2>1 DEF Stages
<1> QED
  BY <1>1, <1>5, <1>10, <1>11, <1>12 DEF n, Acc, base

Indexes == [i \in DOMAIN existing |-> i]

LEMMA OfferedType ==
    ASSUME existing \in Seq(Packs), offerOrder \in Seq(Keys) PROVE Offered \in MergeAcc
<1>1. Len(offerOrder) \in 0..Len(offerOrder)
  OBVIOUS
<1> QED
  BY <1>1, OfferedStages

LEMMA RestStages ==
    ASSUME existing \in Seq(Packs), offerOrder \in Seq(Keys)
    PROVE  \E p \in [0..Len(existing) -> MergeAcc] :
              /\ p[0] = Offered /\ p[Len(existing)] = Rest
              /\ \A i \in 1..Len(existing) : p[i] = MergeExisting(p[i - 1], Indexes[i])
<1> DEFINE n == Len(existing)
<1> DEFINE Acc == MergeAcc
<1> DEFINE base == Offered
<1> DEFINE step == [q \in Acc \X (1..n) |-> MergeExisting(q[1], Indexes[q[2]])]
<1> DEFINE h == CHOOSE h : h = [s \in SUBSET (DOMAIN Indexes) |->
                  IF s = {} THEN Offered ELSE MergeExisting(h[s \ {Max(s)}], Indexes[Max(s)])]
<1>1. n \in Nat /\ DOMAIN Indexes = 1..n /\ base \in Acc
  BY OfferedType DEF Indexes
<1>2. \A a \in Acc, i \in 1..n : MergeExisting(a, Indexes[i]) \in Acc
  BY MergeTypes DEF Indexes
<1> HIDE DEF n, Acc, base
<1>3. step \in [Acc \X (1..n) -> Acc]
  BY <1>1, <1>2
<1>4. \A a \in Acc, i \in 1..n : step[<<a, i>>] = MergeExisting(a, Indexes[i])
  BY <1>1
<1>5. Rest = h[DOMAIN Indexes]
  BY DEF Rest, Indexes, FoldLeft, MapThenFoldSet
<1> HIDE DEF step
<1>6. h = [s \in SUBSET (DOMAIN Indexes) |->
             IF s = {} THEN base ELSE MergeExisting(h[s \ {Max(s)}], Indexes[Max(s)])]
  <2>1. PICK g \in Iters(n, Acc, base, step) : TRUE
    BY <1>1, <1>3, IterExists
  <2>2. /\ g \in [SUBSET (1..n) -> Acc]
        /\ \A s \in SUBSET (1..n) :
             g[s] = IF s = {} THEN base ELSE step[<<g[s \ {Max(s)}], Max(s)>>]
    BY <2>1 DEF Iters
  <2>3. ASSUME NEW s \in SUBSET (1..n), s # {}
        PROVE  g[s] = MergeExisting(g[s \ {Max(s)}], Indexes[Max(s)])
    <3>1. Max(s) \in 1..n
      BY <1>1, <2>3, MaxOfBounded
    <3>2. g[s \ {Max(s)}] \in Acc
      BY <2>2
    <3> QED
      BY <1>4, <2>2, <2>3, <3>1, <3>2
  <2>4. g = [s \in SUBSET (DOMAIN Indexes) |->
               IF s = {} THEN base ELSE MergeExisting(g[s \ {Max(s)}], Indexes[Max(s)])]
    BY <1>1, <2>2, <2>3
  <2> QED
    BY <2>4 DEF base
<1> HIDE DEF h
<1>7. h[{}] = base
  <2>1. {} \in SUBSET (DOMAIN Indexes)
    OBVIOUS
  <2> QED
    BY <1>6, <2>1
<1>8. ASSUME NEW s \in SUBSET (1..n), s # {}, h[s \ {Max(s)}] \in Acc
      PROVE  h[s] = step[<<h[s \ {Max(s)}], Max(s)>>]
  <2>1. Max(s) \in 1..n
    BY <1>1, <1>8, MaxOfBounded
  <2>2. h[s] = MergeExisting(h[s \ {Max(s)}], Indexes[Max(s)])
    BY <1>1, <1>6, <1>8
  <2> QED
    BY <1>4, <1>8, <2>1, <2>2
<1>9. IsIter(h, n, Acc, base, step)
  BY <1>1, <1>3, <1>7, <1>8 DEF IsIter
<1>10. PICK p \in Stages(n, Acc, base, step) : p[n] = h[1..n]
  BY <1>9, IterPrefixes
<1>11. p \in [0..n -> Acc] /\ p[0] = base
  BY <1>10 DEF Stages
<1>12. ASSUME NEW i \in 1..n PROVE p[i] = MergeExisting(p[i - 1], Indexes[i])
  <2>1. i - 1 \in 0..n
    BY <1>1
  <2> QED
    BY <1>4, <1>10, <1>11, <2>1 DEF Stages
<1> QED
  BY <1>1, <1>5, <1>10, <1>11, <1>12 DEF n, Acc, base

LEMMA RestType ==
    ASSUME existing \in Seq(Packs), offerOrder \in Seq(Keys) PROVE Rest \in MergeAcc
<1>1. Len(existing) \in 0..Len(existing)
  OBVIOUS
<1> QED
  BY <1>1, RestStages

AllMerged == FoldLeft(MergeCached, Rest, packOrder)

LEMMA MergedStages ==
    ASSUME existing \in Seq(Packs), offerOrder \in Seq(Keys), packOrder \in Seq(Keys)
    PROVE  \E p \in [0..Len(packOrder) -> MergeAcc] :
              /\ p[0] = Rest /\ p[Len(packOrder)] = AllMerged
              /\ \A i \in 1..Len(packOrder) : p[i] = MergeCached(p[i - 1], packOrder[i])
<1> DEFINE n == Len(packOrder)
<1> DEFINE Acc == MergeAcc
<1> DEFINE base == Rest
<1> DEFINE step == [q \in Acc \X (1..n) |-> MergeCached(q[1], packOrder[q[2]])]
<1> DEFINE h == CHOOSE h : h = [s \in SUBSET (DOMAIN packOrder) |->
                  IF s = {} THEN Rest ELSE MergeCached(h[s \ {Max(s)}], packOrder[Max(s)])]
<1>1. n \in Nat /\ DOMAIN packOrder = 1..n /\ base \in Acc
  BY RestType
<1>2. \A a \in Acc, i \in 1..n : MergeCached(a, packOrder[i]) \in Acc
  BY MergeTypes
<1> HIDE DEF n, Acc, base
<1>3. step \in [Acc \X (1..n) -> Acc]
  BY <1>1, <1>2
<1>4. \A a \in Acc, i \in 1..n : step[<<a, i>>] = MergeCached(a, packOrder[i])
  BY <1>1
<1>5. AllMerged = h[DOMAIN packOrder]
  BY DEF AllMerged, FoldLeft, MapThenFoldSet
<1> HIDE DEF step
<1>6. h = [s \in SUBSET (DOMAIN packOrder) |->
             IF s = {} THEN base ELSE MergeCached(h[s \ {Max(s)}], packOrder[Max(s)])]
  <2>1. PICK g \in Iters(n, Acc, base, step) : TRUE
    BY <1>1, <1>3, IterExists
  <2>2. /\ g \in [SUBSET (1..n) -> Acc]
        /\ \A s \in SUBSET (1..n) :
             g[s] = IF s = {} THEN base ELSE step[<<g[s \ {Max(s)}], Max(s)>>]
    BY <2>1 DEF Iters
  <2>3. ASSUME NEW s \in SUBSET (1..n), s # {}
        PROVE  g[s] = MergeCached(g[s \ {Max(s)}], packOrder[Max(s)])
    <3>1. Max(s) \in 1..n
      BY <1>1, <2>3, MaxOfBounded
    <3>2. g[s \ {Max(s)}] \in Acc
      BY <2>2
    <3> QED
      BY <1>4, <2>2, <2>3, <3>1, <3>2
  <2>4. g = [s \in SUBSET (DOMAIN packOrder) |->
               IF s = {} THEN base ELSE MergeCached(g[s \ {Max(s)}], packOrder[Max(s)])]
    BY <1>1, <2>2, <2>3
  <2> QED
    BY <2>4 DEF base
<1> HIDE DEF h
<1>7. h[{}] = base
  <2>1. {} \in SUBSET (DOMAIN packOrder)
    OBVIOUS
  <2> QED
    BY <1>6, <2>1
<1>8. ASSUME NEW s \in SUBSET (1..n), s # {}, h[s \ {Max(s)}] \in Acc
      PROVE  h[s] = step[<<h[s \ {Max(s)}], Max(s)>>]
  <2>1. Max(s) \in 1..n
    BY <1>1, <1>8, MaxOfBounded
  <2>2. h[s] = MergeCached(h[s \ {Max(s)}], packOrder[Max(s)])
    BY <1>1, <1>6, <1>8
  <2> QED
    BY <1>4, <1>8, <2>1, <2>2
<1>9. IsIter(h, n, Acc, base, step)
  BY <1>1, <1>3, <1>7, <1>8 DEF IsIter
<1>10. PICK p \in Stages(n, Acc, base, step) : p[n] = h[1..n]
  BY <1>9, IterPrefixes
<1>11. p \in [0..n -> Acc] /\ p[0] = base
  BY <1>10 DEF Stages
<1>12. ASSUME NEW i \in 1..n PROVE p[i] = MergeCached(p[i - 1], packOrder[i])
  <2>1. i - 1 \in 0..n
    BY <1>1
  <2> QED
    BY <1>4, <1>10, <1>11, <2>1 DEF Stages
<1> QED
  BY <1>1, <1>5, <1>10, <1>11, <1>12 DEF n, Acc, base

-----------------------------------------------------------------------------
(* What is derived from an archive.  Derived says that every archive to    *)
(* decrypt has its outcome except the one that is being worked on; it is   *)
(* inductive together with the place in the loop (PlaceInv).               *)

\* The caller is inside recordDecryptedResourcePack; the events that end it.
Deriving == mpc \in {"derive", "manifest", "limitation"}
IsOutcome(e) == e.kind \in {"decrypted_archive", "decrypt_error"}

\* An event with a parent names an archive before it that was to be decrypted.
FitsParent(L, lim, dec, e, m) ==
    /\ e.parent \in 1..m
    /\ L[e.parent].kind = "archive" /\ L[e.parent].key = e.key
    /\ e.key \in Encrypted /\ dec
    /\ e.kind = "decrypt_error" => e.key \in lim
    /\ e.kind = "decrypted_archive" =>
         \E j \in 1..m : L[j].kind = "contents_manifest" /\ L[j].parent = e.parent

Sound(L, lim, dec) ==
    \A i \in DOMAIN L : L[i].parent # 0 => FitsParent(L, lim, dec, L[i], i - 1)

\* One outcome for an archive at most.
Once(L) ==
    \A i, j \in DOMAIN L :
        IsOutcome(L[i]) /\ IsOutcome(L[j]) /\ L[i].parent = L[j].parent => i = j

\* Every archive to decrypt has its outcome, except the one at "open".
Derived(L, dec, open) ==
    \A n \in DOMAIN L :
        L[n].kind = "archive" /\ L[n].key \in Encrypted /\ dec /\ n # open
            => \E i \in DOMAIN L : IsOutcome(L[i]) /\ L[i].parent = n

Open == IF Deriving THEN parent ELSE 0

\* Where RecordResourcePacks stands: the archive it derives from has no outcome yet.
PlaceInv ==
    /\ Deriving =>
         /\ next \in DOMAIN merged /\ parent \in DOMAIN log
         /\ log[parent].kind = "archive" /\ log[parent].key = merged[next].key
         /\ merged[next].key \in Encrypted /\ mode.decrypt
         /\ \A i \in DOMAIN log : IsOutcome(log[i]) => log[i].parent # parent
    /\ mpc = "manifest" =>
         \E j \in DOMAIN log : log[j].kind = "contents_manifest" /\ log[j].parent = parent
    /\ mpc = "limitation" => merged[next].key \in limited

\* upstream.connected is recorded after every pack.
ConnectedInv ==
    \A i \in DOMAIN log : log[i].kind = "connected" => mpc \in {"complete", "close", "returned"}

\* The inductive invariant of DerivedExact.
DerivedInv ==
    /\ TypeOK
    /\ PlaceInv
    /\ Sound(log, limited, mode.decrypt)
    /\ Once(log)
    /\ mpc # "failed" => Derived(log, mode.decrypt, Open)
    /\ ConnectedInv

\* What recording an event keeps: an event is typed, appended, and its parent sound.
LEMMA EventType ==
    \A kind \in {"dial_start", "dial_error", "packet.raw", "archive", "contents_manifest",
                 "decrypted_archive", "decrypt_error", "connected", "fetch_complete",
                 "session.close"}, key \in Keys \cup {Other}, of \in Nat :
        /\ Event(kind, key, of) \in Events /\ Event(kind, key, of).kind = kind
        /\ Event(kind, key, of).key = key /\ Event(kind, key, of).parent = of
BY DEF Event, Events

LEMMA Appended ==
    ASSUME NEW L \in Seq(Events), NEW e \in Events
    PROVE  /\ Append(L, e) \in Seq(Events) /\ Len(Append(L, e)) = Len(L) + 1
           /\ Len(L) \in Nat /\ DOMAIN L = 1..Len(L)
           /\ DOMAIN Append(L, e) = 1..(Len(L) + 1)
           /\ \A i \in 1..Len(L) : Append(L, e)[i] = L[i]
           /\ Append(L, e)[Len(L) + 1] = e
OBVIOUS

LEMMA SoundAppend ==
    ASSUME NEW L \in Seq(Events), NEW e \in Events, NEW lim, NEW lim2, NEW dec,
           lim \subseteq lim2, Sound(L, lim, dec),
           e.parent # 0 => FitsParent(L, lim2, dec, e, Len(L))
    PROVE  Sound(Append(L, e), lim2, dec)
<1> DEFINE M == Append(L, e)
<1>1. /\ Len(L) \in Nat /\ DOMAIN L = 1..Len(L) /\ DOMAIN M = 1..(Len(L) + 1)
      /\ \A i \in 1..Len(L) : M[i] = L[i]
      /\ M[Len(L) + 1] = e
  BY Appended
<1> HIDE DEF M
<1> SUFFICES ASSUME NEW i \in DOMAIN M, M[i].parent # 0
             PROVE  FitsParent(M, lim2, dec, M[i], i - 1)
  BY DEF Sound, M
<1>2. CASE i \in 1..Len(L)
  <2>1. FitsParent(L, lim, dec, L[i], i - 1) /\ M[i] = L[i]
    BY <1>1, <1>2 DEF Sound
  <2>2. \A j \in 1..(i - 1) : M[j] = L[j]
    BY <1>1, <1>2
  <2> QED
    BY <2>1, <2>2 DEF FitsParent
<1>3. CASE i = Len(L) + 1
  <2>1. FitsParent(L, lim2, dec, e, Len(L)) /\ M[i] = e /\ i - 1 = Len(L)
    BY <1>1, <1>3
  <2> QED
    BY <1>1, <2>1 DEF FitsParent
<1> QED
  BY <1>1, <1>2, <1>3

LEMMA OnceAppend ==
    ASSUME NEW L \in Seq(Events), NEW e \in Events, Once(L),
           IsOutcome(e) => \A i \in DOMAIN L : IsOutcome(L[i]) => L[i].parent # e.parent
    PROVE  Once(Append(L, e))
<1> DEFINE M == Append(L, e)
<1>1. /\ Len(L) \in Nat /\ DOMAIN L = 1..Len(L) /\ DOMAIN M = 1..(Len(L) + 1)
      /\ \A i \in 1..Len(L) : M[i] = L[i]
      /\ M[Len(L) + 1] = e
  BY Appended
<1> HIDE DEF M
<1> SUFFICES ASSUME NEW i \in DOMAIN M, NEW j \in DOMAIN M, IsOutcome(M[i]), IsOutcome(M[j]),
                    M[i].parent = M[j].parent
             PROVE  i = j
  BY DEF Once, M
<1>2. CASE i \in 1..Len(L) /\ j \in 1..Len(L)
  BY <1>1, <1>2 DEF Once
<1>3. CASE i = Len(L) + 1 /\ j \in 1..Len(L)
  BY <1>1, <1>3
<1>4. CASE j = Len(L) + 1 /\ i \in 1..Len(L)
  BY <1>1, <1>4
<1> QED
  BY <1>1, <1>2, <1>3, <1>4

LEMMA DerivedAppend ==
    ASSUME NEW L \in Seq(Events), NEW e \in Events, NEW dec, NEW open, NEW after,
           Derived(L, dec, open),
           open = after \/ open = 0 \/ (IsOutcome(e) /\ e.parent = open),
           e.kind = "archive" /\ e.key \in Encrypted /\ dec => after = Len(L) + 1
    PROVE  Derived(Append(L, e), dec, after)
<1> DEFINE M == Append(L, e)
<1>1. /\ Len(L) \in Nat /\ DOMAIN L = 1..Len(L) /\ DOMAIN M = 1..(Len(L) + 1)
      /\ \A i \in 1..Len(L) : M[i] = L[i]
      /\ M[Len(L) + 1] = e
  BY Appended
<1> HIDE DEF M
<1> SUFFICES ASSUME NEW n \in DOMAIN M,
                    M[n].kind = "archive", M[n].key \in Encrypted, dec, n # after
             PROVE  \E i \in DOMAIN M : IsOutcome(M[i]) /\ M[i].parent = n
  BY DEF Derived, M
<1>2. n \in 1..Len(L) /\ M[n] = L[n]
  BY <1>1
<1>3. CASE n = open
  <2>1. IsOutcome(M[Len(L) + 1]) /\ M[Len(L) + 1].parent = n /\ Len(L) + 1 \in DOMAIN M
    BY <1>1, <1>2, <1>3
  <2> QED
    BY <2>1
<1>4. CASE n # open
  <2>1. PICK i \in DOMAIN L : IsOutcome(L[i]) /\ L[i].parent = n
    BY <1>1, <1>2, <1>4 DEF Derived
  <2> QED
    BY <1>1, <2>1
<1> QED
  BY <1>3, <1>4

LEMMA InfoType == ASSUME TypeOK PROVE info \in Seq(Entries)
<1>1. << >> \in Seq(Entries)
  OBVIOUS
<1> QED
  BY <1>1, PackAssumption DEF TypeOK, Entries

LEMMA LogTypes ==
    ASSUME TypeOK, NEW e \in Events
    PROVE  Append(log, e) \in Seq(Events) /\ 0..Len(log) \subseteq 0..Len(Append(log, e))
BY DEF TypeOK

LEMMA PlainType ==
    \A kind \in {"dial_start", "dial_error", "packet.raw", "connected", "fetch_complete",
                 "session.close"} :
        Plain(kind) \in Events /\ Plain(kind).kind = kind /\ Plain(kind).parent = 0
BY EventType DEF Plain

\* The type invariant, one lemma for each goroutine.
LEMMA TypeInit == Init => TypeOK
<1> SUFFICES ASSUME Init PROVE TypeOK
  OBVIOUS
<1>1. << >> \in Seq(Keys) /\ << >> \in Seq({"todo", "got", "failed"}) /\ << >> \in Seq(Packs)
  OBVIOUS
<1>2. log \in Seq(Events) /\ Len(log) = 1
  BY PlainType DEF Init
<1>3. packs \in [Keys -> {"none", "http", "chunk"}]
      /\ chunks \in [Keys -> {"none", "asked", "arrived", "settled", "broken"}]
  BY DEF Init
<1>4. infos \in 0..MaxInfos /\ parent \in 0..Len(log) /\ next \in Nat \ {0}
  BY <1>2, PackAssumption DEF Init
<1> QED
  BY <1>1, <1>2, <1>3, <1>4 DEF Init, TypeOK

LEMMA TypeReader == ASSUME TypeOK, Reader PROVE TypeOK'
<1> USE PackAssumption
<1>1. ASSUME NEW offer \in Offers, Observe(offer) PROVE TypeOK'
  <2>1. offer \in Seq(Entries)
    BY DEF Entries
  <2>2. KeysOf(offer) \in Seq(Keys)
    <3>1. \A i \in DOMAIN offer : offer[i].key \in Keys
      <4>1. \A i \in DOMAIN offer : offer[i] \in Entries
        BY <2>1
      <4> QED
        BY <4>1 DEF Entries
    <3> QED
      BY <2>1, <3>1 DEF KeysOf
  <2>3. NewJobs(offer) \in Seq(Keys)
    <3>1. Len(offer) \in 0..Len(offer)
      BY <2>1
    <3> QED
      BY <2>1, <3>1, NewJobsStages
  <2>4. observed' \subseteq Keys
    <3>1. \A e \in Range(offer) : e.key \in Keys
      <4>1. \A e \in Range(offer) : e \in Entries
        BY <2>1 DEF Range
      <4> QED
        BY <4>1 DEF Entries
    <3> QED
      BY <1>1, <3>1 DEF Observe, TypeOK
  <2>5. jobs' \in Seq(Keys) /\ results' \in Seq({"todo", "got", "failed"})
    BY <1>1, <2>3 DEF Observe
  <2>6. log' \in Seq(Events) /\ parent' \in 0..Len(log')
    BY <1>1, LogTypes, PlainType DEF Observe, TypeOK
  <2>7. infos' \in 0..MaxInfos
    BY <1>1 DEF Observe, TypeOK
  <2> QED
    BY <1>1, <2>2, <2>4, <2>5, <2>6, <2>7 DEF Observe, TypeOK
<1>2. CASE ObserveMalformed
  <2>1. log' \in Seq(Events) /\ parent' \in 0..Len(log')
    BY <1>2, LogTypes, PlainType DEF ObserveMalformed, TypeOK
  <2>2. infos' \in 0..MaxInfos
    BY <1>2 DEF ObserveMalformed, TypeOK
  <2> QED
    BY <1>2, <2>1, <2>2 DEF ObserveMalformed, TypeOK
<1>3. CASE CommitDownloads
  <2>1. packOrder' \in Seq(Keys)
    <3>1. jobs \in Seq(Keys) /\ packOrder \in Seq(Keys) /\ Len(jobs) \in 0..Len(jobs)
      BY DEF TypeOK
    <3> QED
      BY <1>3, <3>1, AppendGotStages DEF CommitDownloads
  <2>2. errors' \subseteq Keys
    BY <1>3 DEF CommitDownloads, TypeOK, Range
  <2>3. packs' \in [Keys -> {"none", "http", "chunk"}]
    BY <1>3 DEF CommitDownloads, TypeOK
  <2> QED
    BY <1>3, <2>1, <2>2, <2>3 DEF CommitDownloads, TypeOK
<1>4. CASE HandleInfo
  <2>1. Handled \in HandleAcc
    <3>1. info \in Seq(Entries) /\ Len(info) \in 0..Len(info)
      BY InfoType
    <3> QED
      BY <3>1, HandledStages
  <2>2. existing' \in Seq(Packs)
    BY <1>4, <2>1 DEF HandleInfo, HandleAcc
  <2> QED
    BY <1>4, <2>2 DEF HandleInfo, TypeOK
<1>5. CASE IgnoreInfo \/ HandleStack
  BY <1>5 DEF IgnoreInfo, HandleStack, TypeOK
<1> QED
  BY <1>1, <1>2, <1>3, <1>4, <1>5 DEF Reader

LEMMA TypeTransport == ASSUME TypeOK, Transport PROVE TypeOK'
BY DEF Transport, OpenConnection, ConnectionEnds, TypeOK, cacheVars, readerVars, connVars,
   mainVars

\* The connection opens or ends, and nothing else changes.
LEMMA TransportKeeps ==
    ASSUME Transport
    PROVE  UNCHANGED <<mode, cacheVars, readerVars, connVars, mainVars, log>>
BY DEF Transport, OpenConnection, ConnectionEnds

LEMMA TypeWorkers == ASSUME TypeOK, Download \/ Chunk PROVE TypeOK'
<1>1. ASSUME NEW i \in DOMAIN results, download(i) \/ downloadFails(i) PROVE TypeOK'
  <2>1. results' \in Seq({"todo", "got", "failed"})
    <3> DEFINE R == {"todo", "got", "failed"}
    <3>1. "got" \in R /\ "failed" \in R /\ results \in Seq(R)
      BY DEF TypeOK
    <3>2. PICK r \in R : results' = [results EXCEPT ![i] = r]
      BY <1>1, <3>1 DEF download, downloadFails
    <3> HIDE DEF R
    <3>3. results' \in Seq(R)
      BY <3>1, <3>2
    <3> QED
      BY <3>3 DEF R
  <2> QED
    BY <1>1, <2>1 DEF download, downloadFails, TypeOK
<1>2. ASSUME NEW k \in Keys, ChunkArrives(k) PROVE TypeOK'
  <2>1. existing' \in Seq(Packs)
    <3>1. [key |-> k, http |-> FALSE] \in Packs /\ [key |-> Other, http |-> FALSE] \in Packs
          /\ existing \in Seq(Packs)
      BY DEF Packs, TypeOK
    <3> QED
      BY <1>2, <3>1 DEF ChunkArrives
  <2>2. chunks' \in [Keys -> {"none", "asked", "arrived", "settled", "broken"}]
    BY <1>2 DEF ChunkArrives, TypeOK
  <2> QED
    BY <1>2, <2>1, <2>2 DEF ChunkArrives, TypeOK
<1>3. ASSUME NEW k \in Keys, Store(k) \/ StoreRefused(k) PROVE TypeOK'
  <2>1. packOrder' \in Seq(Keys) /\ errors' \subseteq Keys
    <3>1. packOrder \in Seq(Keys) /\ Append(packOrder, k) \in Seq(Keys) /\ errors \subseteq Keys
      BY DEF TypeOK
    <3> QED
      BY <1>3, <3>1 DEF Store, StoreRefused
  <2>2. packs' \in [Keys -> {"none", "http", "chunk"}]
    BY <1>3 DEF Store, StoreRefused, TypeOK
  <2>3. chunks' \in [Keys -> {"none", "asked", "arrived", "settled", "broken"}]
    BY <1>3 DEF Store, StoreRefused, TypeOK
  <2> QED
    BY <1>3, <2>1, <2>2, <2>3 DEF Store, StoreRefused, TypeOK
<1> QED
  BY <1>1, <1>2, <1>3 DEF Download, Chunk

\* The pack that is worked on.
LEMMA PackType ==
    ASSUME TypeOK, next \in DOMAIN merged PROVE Pack.key \in Keys \cup {Other}
<1>1. merged[next] \in Packs
  BY DEF TypeOK
<1> QED
  BY <1>1 DEF Pack, Packs

LEMMA TypeMain == ASSUME TypeOK, PlaceInv, Main PROVE TypeOK'
<1>0. next <= Len(merged) => next \in DOMAIN merged
  BY DEF TypeOK
<1>1. CASE DialReturns \/ PrepareFails \/ ConnectedFails \/ DeriveFails
  BY <1>1 DEF DialReturns, PrepareFails, ConnectedFails, DeriveFails,
     closeAfterUpstreamError, TypeOK
<1>2. CASE DialFails
  <2>1. log' \in Seq(Events) /\ parent' \in 0..Len(log')
    BY <1>2, LogTypes, PlainType DEF DialFails, TypeOK
  <2> QED
    BY <1>2, <2>1 DEF DialFails, TypeOK
<1>3. CASE Merge
  <2>1. AllMerged \in MergeAcc
    <3>1. existing \in Seq(Packs) /\ offerOrder \in Seq(Keys) /\ packOrder \in Seq(Keys)
          /\ Len(packOrder) \in 0..Len(packOrder)
      BY DEF TypeOK
    <3> QED
      BY <3>1, MergedStages
  <2>2. merged' \in Seq(Packs)
    BY <1>3, <2>1 DEF Merge, MergedPacks, AllMerged, MergeAcc
  <2> QED
    BY <1>3, <2>2 DEF Merge, TypeOK
<1>4. CASE RecordArchive
  <2>1. Event("archive", Pack.key, 0) \in Events
    BY <1>0, <1>4, PackType, EventType DEF RecordArchive
  <2>2. log' \in Seq(Events) /\ parent' \in 0..Len(log')
    BY <1>4, <2>1 DEF RecordArchive, TypeOK
  <2>3. next' \in Nat \ {0} /\ mpc' \in {"derive", "archive"}
    BY <1>4 DEF RecordArchive, NextPack, TypeOK
  <2> QED
    BY <1>4, <2>2, <2>3 DEF RecordArchive, TypeOK
<1>5. CASE RecordArchiveFails
  <2>1. Event("archive", Pack.key, 0) \in Events
    BY <1>0, <1>5, PackType, EventType DEF RecordArchiveFails
  <2>2. log' \in Seq(Events) /\ parent' \in 0..Len(log')
    BY <1>5, <2>1, LogTypes DEF RecordArchiveFails, closeAfterUpstreamError, TypeOK
  <2> QED
    BY <1>5, <2>2 DEF RecordArchiveFails, closeAfterUpstreamError, TypeOK
<1>6. CASE RecordManifests \/ RecordDecrypted \/ RecordDecryptFailure
  <2>1. next \in DOMAIN merged
    BY <1>6 DEF PlaceInv, Deriving, RecordManifests, RecordDecrypted, RecordDecryptFailure
  <2>2. PICK e \in Events : log' = Append(log, e)
    <3>1. parent \in Nat
      BY DEF TypeOK
    <3>2. \A kind \in {"contents_manifest", "decrypted_archive", "decrypt_error"} :
             Event(kind, Pack.key, parent) \in Events
      BY <2>1, <3>1, PackType, EventType
    <3> QED
      BY <1>6, <3>2 DEF RecordManifests, RecordDecrypted, RecordDecryptFailure
  <2>3. log' \in Seq(Events) /\ parent' \in 0..Len(log')
    BY <1>6, <2>2, LogTypes DEF RecordManifests, RecordDecrypted, RecordDecryptFailure,
       TypeOK
  <2>4. next' \in Nat \ {0} /\ mpc' \in {"manifest", "archive"}
    BY <1>6 DEF RecordManifests, RecordDecrypted, RecordDecryptFailure, NextPack, TypeOK
  <2> QED
    BY <1>6, <2>3, <2>4 DEF RecordManifests, RecordDecrypted, RecordDecryptFailure, TypeOK
<1>7. CASE AddLimitation
  <2>1. Pack.key \in Keys
    BY <1>7, PackAssumption DEF AddLimitation, PlaceInv, Deriving, Pack
  <2> QED
    BY <1>7, <2>1 DEF AddLimitation, TypeOK
<1>8. CASE AllRecorded
  <2>1. delivery' \in Seq(Packs)
    BY <1>8 DEF AllRecorded, TypeOK
  <2> QED
    BY <1>8, <2>1 DEF AllRecorded, TypeOK
<1>9. CASE Prepare
  <2>1. Clones \in Seq(Packs)
    <3>1. merged \in Seq(Packs) /\ \A i \in DOMAIN merged : merged[i] \in Packs
      BY DEF TypeOK
    <3>2. \A i \in DOMAIN merged : [merged[i] EXCEPT !.http = FALSE] \in Packs
      BY <3>1 DEF Packs
    <3> QED
      BY <3>1, <3>2 DEF Clones
  <2> QED
    BY <1>9, <2>1 DEF Prepare, TypeOK
<1>10. CASE Connected \/ FetchComplete \/ CloseExchange
  <2>1. log' \in Seq(Events) /\ parent' \in 0..Len(log')
    BY <1>10, LogTypes, PlainType DEF Connected, FetchComplete, CloseExchange, TypeOK
  <2> QED
    BY <1>10, <2>1 DEF Connected, FetchComplete, CloseExchange, TypeOK
<1> QED
  BY <1>1, <1>2, <1>3, <1>4, <1>5, <1>6, <1>7, <1>8, <1>9, <1>10 DEF Main

\* What the other goroutines do to the log is of no consequence.
LEMMA DerivedStill ==
    ASSUME DerivedInv, TypeOK', UNCHANGED <<mode, mpc, merged, next, parent, limited>>,
           log' = log \/ log' = Append(log, Plain("packet.raw"))
    PROVE  DerivedInv'
<1>1. CASE log' = log
  <2>1. Deriving' = Deriving /\ Open' = Open
    BY DEF Deriving, Open
  <2>2. PlaceInv' /\ ConnectedInv'
    BY <1>1, <2>1 DEF DerivedInv, PlaceInv, ConnectedInv
  <2> QED
    BY <1>1, <2>1, <2>2 DEF DerivedInv
<1>2. CASE log' = Append(log, Plain("packet.raw"))
  <2> DEFINE e == Plain("packet.raw")
  <2>1. e \in Events /\ e.kind = "packet.raw" /\ e.parent = 0 /\ log' = Append(log, e)
    BY <1>2, PlainType
  <2> HIDE DEF e
  <2>2. log \in Seq(Events)
    BY DEF DerivedInv, TypeOK
  <2>3. /\ Len(log) \in Nat /\ DOMAIN log = 1..Len(log) /\ DOMAIN log' = 1..(Len(log) + 1)
        /\ \A i \in 1..Len(log) : log'[i] = log[i]
        /\ log'[Len(log) + 1] = e
    BY <2>1, <2>2, Appended
  <2>k. \A i \in DOMAIN log' : i \in DOMAIN log \/ i = Len(log) + 1
    BY <2>3
  <2>4. Deriving' = Deriving /\ Open' = Open
    BY DEF Deriving, Open
  <2>5. PlaceInv'
    <3>0. ~IsOutcome(e)
      BY <2>1 DEF IsOutcome
    <3>1. \A i \in DOMAIN log' : IsOutcome(log'[i]) => i \in DOMAIN log /\ log'[i] = log[i]
      BY <2>k, <2>3, <3>0
    <3>2. \A i \in DOMAIN log : i \in DOMAIN log' /\ log'[i] = log[i]
      BY <2>3
    <3> QED
      BY <2>4, <3>1, <3>2 DEF DerivedInv, PlaceInv, IsOutcome
  <2>6. ConnectedInv'
    <3>1. \A i \in DOMAIN log : log'[i] = log[i]
      BY <2>3
    <3>2. \A i \in DOMAIN log : log[i].kind = "connected" => mpc' \in {"complete", "close", "returned"}
      BY DEF DerivedInv, ConnectedInv
    <3>3. e.kind = "connected" => mpc' \in {"complete", "close", "returned"}
      BY <2>1
    <3> QED
      BY <2>3, <2>k, <3>1, <3>2, <3>3 DEF ConnectedInv
  <2>7. Sound(log', limited, mode.decrypt)
    BY <2>1, <2>2, SoundAppend DEF DerivedInv
  <2>8. Once(log')
    BY <2>1, <2>2, OnceAppend DEF DerivedInv, IsOutcome
  <2>9. mpc # "failed" => Derived(log', mode.decrypt, Open)
    BY <2>1, <2>2, DerivedAppend DEF DerivedInv
  <2> QED
    BY <2>4, <2>5, <2>6, <2>7, <2>8, <2>9 DEF DerivedInv
<1> QED
  BY <1>1, <1>2

\* Main's steps outside RecordResourcePacks, and its error returns.
LEMMA DerivedPlain ==
    ASSUME DerivedInv, TypeOK', mode' = mode, limited' = limited, mpc' # "failed" => ~Deriving /\ mpc # "failed",
           ~Deriving', mpc # mpc',
           mpc' \in {"complete", "close", "returned"} \/ mpc \notin {"complete", "close", "returned"},
           \/ log' = log
           \/ \E e \in Events : /\ log' = Append(log, e) /\ e.parent = 0 /\ ~IsOutcome(e)
                                /\ e.kind = "archive" => mpc' = "failed"
                                /\ e.kind = "connected" => mpc' \in {"complete", "close", "returned"}
    PROVE  DerivedInv'
<1>0. PlaceInv' /\ Open' = 0
  BY DEF PlaceInv, Open, Deriving
<1>1. CASE log' = log
  <2>1. ConnectedInv'
    BY <1>1 DEF DerivedInv, ConnectedInv
  <2>2. mpc' # "failed" => Derived(log, mode.decrypt, 0)
    BY DEF DerivedInv, Open
  <2> QED
    BY <1>0, <1>1, <2>1, <2>2 DEF DerivedInv
<1>2. CASE log' # log
  <2>1. PICK e \in Events : /\ log' = Append(log, e) /\ e.parent = 0 /\ ~IsOutcome(e)
                            /\ e.kind = "archive" => mpc' = "failed"
                            /\ e.kind = "connected" => mpc' \in {"complete", "close", "returned"}
    BY <1>2
  <2>2. log \in Seq(Events)
    BY DEF DerivedInv, TypeOK
  <2>3. /\ Len(log) \in Nat /\ DOMAIN log = 1..Len(log) /\ DOMAIN log' = 1..(Len(log) + 1)
        /\ \A i \in 1..Len(log) : log'[i] = log[i]
        /\ log'[Len(log) + 1] = e
    BY <2>1, <2>2, Appended
  <2>k. \A i \in DOMAIN log' : i \in DOMAIN log \/ i = Len(log) + 1
    BY <2>3
  <2>4. ConnectedInv'
    <3>1. \A i \in DOMAIN log : log'[i] = log[i]
      BY <2>3
    <3>2. \A i \in DOMAIN log : log[i].kind = "connected" => mpc' \in {"complete", "close", "returned"}
      BY DEF DerivedInv, ConnectedInv
    <3>3. e.kind = "connected" => mpc' \in {"complete", "close", "returned"}
      BY <2>1
    <3> QED
      BY <2>3, <2>k, <3>1, <3>2, <3>3 DEF ConnectedInv
  <2>5. Sound(log', limited, mode.decrypt)
    BY <2>1, <2>2, SoundAppend DEF DerivedInv
  <2>6. Once(log')
    BY <2>1, <2>2, OnceAppend DEF DerivedInv
  <2>7. ASSUME mpc' # "failed" PROVE Derived(log', mode.decrypt, 0)
    <3>1. Derived(log, mode.decrypt, 0) /\ e.kind # "archive"
      BY <2>1, <2>7 DEF DerivedInv, Open
    <3> QED
      BY <2>1, <2>2, <3>1, DerivedAppend
  <2> QED
    BY <1>0, <2>4, <2>5, <2>6, <2>7 DEF DerivedInv
<1> QED
  BY <1>1, <1>2

\* RecordResourcePacks and recordDecryptedResourcePack, step by step.
LEMMA DerivedMain == ASSUME DerivedInv, TypeOK', Main PROVE DerivedInv'
<1>0. TypeOK /\ PlaceInv /\ log \in Seq(Events)
  BY DEF DerivedInv, TypeOK
<1>t. next <= Len(merged) => next \in DOMAIN merged
  <2>1. merged \in Seq(Packs) /\ next \in Nat \ {0}
    BY <1>0 DEF TypeOK
  <2> QED
    BY <2>1
<1>1. CASE DialReturns \/ DialFails \/ Merge \/ AllRecorded \/ Prepare \/ PrepareFails
           \/ Connected \/ ConnectedFails \/ FetchComplete \/ CloseExchange \/ DeriveFails
  <2>1. /\ mode' = mode /\ limited' = limited /\ (mpc' # "failed" => ~Deriving /\ mpc # "failed")
        /\ ~Deriving' /\ mpc # mpc'
        /\ mpc' \in {"complete", "close", "returned"} \/ mpc \notin {"complete", "close", "returned"}
    BY <1>1 DEF DialReturns, DialFails, Merge, AllRecorded, Prepare, PrepareFails,
       Connected,
                ConnectedFails, FetchComplete, CloseExchange, DeriveFails,
                closeAfterUpstreamError, Deriving
  <2>2. \/ log' = log
        \/ \E kind \in {"dial_error", "fetch_complete", "session.close"} : log' = Append(log, Plain(kind))
        \/ log' = Append(log, Plain("connected")) /\ mpc' \in {"complete", "close", "returned"}
    BY <1>1 DEF DialReturns, DialFails, Merge, AllRecorded, Prepare, PrepareFails,
       Connected,
                ConnectedFails, FetchComplete, CloseExchange, DeriveFails
  <2>3. \/ log' = log
        \/ \E e \in Events : /\ log' = Append(log, e) /\ e.parent = 0 /\ ~IsOutcome(e)
                             /\ e.kind = "archive" => mpc' = "failed"
                             /\ e.kind = "connected" => mpc' \in {"complete", "close", "returned"}
    BY <2>2, PlainType DEF IsOutcome
  <2> QED
    BY <2>1, <2>3, DerivedPlain
<1>2. CASE RecordArchiveFails
  <2>1. /\ mode' = mode /\ limited' = limited /\ mpc' = "failed" /\ mpc = "archive" /\ ~Deriving'
    BY <1>2 DEF RecordArchiveFails, closeAfterUpstreamError, Deriving
  <2> DEFINE e == Event("archive", Pack.key, 0)
  <2>2. e \in Events /\ e.kind = "archive" /\ e.parent = 0
    <3>1. Pack.key \in Keys \cup {Other}
      BY <1>0, <1>t, <1>2, PackType DEF RecordArchiveFails
    <3> QED
      BY <3>1, EventType
  <2>3. log' = log \/ log' = Append(log, e)
    BY <1>2 DEF RecordArchiveFails
  <2> HIDE DEF e
  <2> QED
    BY <2>1, <2>2, <2>3, DerivedPlain DEF IsOutcome
<1>3. CASE RecordArchive
  <2> DEFINE e == Event("archive", Pack.key, 0)
  <2>1. next \in DOMAIN merged /\ ~Deriving /\ mpc = "archive"
    BY <1>t, <1>3 DEF RecordArchive, Deriving
  <2>2. e \in Events /\ e.kind = "archive" /\ e.key = Pack.key /\ e.parent = 0 /\ ~IsOutcome(e)
    <3>1. Pack.key \in Keys \cup {Other}
      BY <1>0, <2>1, PackType
    <3>2. e \in Events /\ e.kind = "archive" /\ e.key = Pack.key /\ e.parent = 0
      BY <3>1, EventType
    <3> HIDE DEF e
    <3> QED
      BY <3>2 DEF IsOutcome
  <2>3. log' = Append(log, e) /\ UNCHANGED <<mode, merged, limited>>
    BY <1>3 DEF RecordArchive
  <2> HIDE DEF e
  <2>4. /\ Len(log) \in Nat /\ DOMAIN log = 1..Len(log) /\ DOMAIN log' = 1..(Len(log) + 1)
        /\ \A i \in 1..Len(log) : log'[i] = log[i]
        /\ log'[Len(log) + 1] = e /\ Len(log') = Len(log) + 1
    BY <1>0, <2>2, <2>3, Appended
  <2>5. parent' = Len(log) + 1
    BY <1>3, <2>4 DEF RecordArchive
  <2>6. Sound(log', limited, mode.decrypt) /\ Once(log')
    BY <1>0, <2>2, <2>3, SoundAppend, OnceAppend DEF DerivedInv
  <2>7. ConnectedInv'
    <3>1. \A i \in DOMAIN log : log[i].kind # "connected"
      BY <2>1 DEF DerivedInv, ConnectedInv
    <3> QED
      BY <2>2, <2>4, <3>1 DEF ConnectedInv
  <2>8. CASE Pack.key \in Encrypted /\ mode.decrypt
    <3>1. mpc' = "derive" /\ next' = next
      BY <1>3, <2>8 DEF RecordArchive
    <3>2. Deriving' /\ Open' = Len(log) + 1
      BY <2>5, <3>1 DEF Deriving, Open
    <3>3. Derived(log', mode.decrypt, Len(log) + 1)
      <4>1. Derived(log, mode.decrypt, 0)
        BY <2>1 DEF DerivedInv, Open
      <4> QED
        BY <1>0, <2>2, <2>3, <4>1, DerivedAppend
    <3>4. \A i \in DOMAIN log' : IsOutcome(log'[i]) => log'[i].parent # parent'
      <4> SUFFICES ASSUME NEW i \in DOMAIN log', IsOutcome(log'[i])
                   PROVE log'[i].parent # Len(log) + 1
        BY <2>5
      <4>1. i \in DOMAIN log /\ log'[i] = log[i]
        BY <2>2, <2>4
      <4>2. log[i].parent # 0 => log[i].parent \in 1..(i - 1)
        BY <4>1 DEF DerivedInv, Sound, FitsParent
      <4> QED
        BY <2>4, <4>1, <4>2
    <3>5. PlaceInv'
      BY <2>1, <2>2, <2>3, <2>4, <2>5, <2>8, <3>1, <3>4 DEF PlaceInv, Pack
    <3> QED
      BY <2>3, <2>6, <2>7, <3>2, <3>3, <3>5 DEF DerivedInv
  <2>9. CASE ~(Pack.key \in Encrypted /\ mode.decrypt)
    <3>1. mpc' = "archive"
      BY <1>3, <2>9 DEF RecordArchive, NextPack
    <3>2. ~Deriving' /\ Open' = 0 /\ PlaceInv'
      BY <3>1 DEF Deriving, Open, PlaceInv
    <3>3. Derived(log', mode.decrypt, 0)
      <4>1. Derived(log, mode.decrypt, 0)
        BY <2>1 DEF DerivedInv, Open
      <4> QED
        BY <1>0, <2>2, <2>3, <2>9, <4>1, DerivedAppend
    <3> QED
      BY <2>3, <2>6, <2>7, <3>2, <3>3 DEF DerivedInv
  <2> QED
    BY <2>8, <2>9
<1>4. CASE RecordManifests \/ RecordDecrypted \/ RecordDecryptFailure
  <2>1. Deriving /\ mpc # "failed" /\ UNCHANGED <<mode, merged, limited, parent>>
    BY <1>4 DEF RecordManifests, RecordDecrypted, RecordDecryptFailure, Deriving
  <2>2. /\ next \in DOMAIN merged /\ parent \in DOMAIN log
        /\ log[parent].kind = "archive" /\ log[parent].key = Pack.key
        /\ Pack.key \in Encrypted /\ mode.decrypt
        /\ \A i \in DOMAIN log : IsOutcome(log[i]) => log[i].parent # parent
    BY <1>0, <2>1 DEF PlaceInv, Pack
  <2>3. PICK kind \in {"contents_manifest", "decrypted_archive", "decrypt_error"} :
          /\ log' = Append(log, Event(kind, Pack.key, parent))
          /\ kind = "contents_manifest" => mpc' = "manifest" /\ next' = next
          /\ kind # "contents_manifest" => mpc' = "archive"
          /\ kind = "decrypted_archive" => mpc = "manifest"
          /\ kind = "decrypt_error" => mpc = "limitation"
    BY <1>4 DEF RecordManifests, RecordDecrypted, RecordDecryptFailure, NextPack
  <2> DEFINE e == Event(kind, Pack.key, parent)
  <2>4. e \in Events /\ e.kind = kind /\ e.key = Pack.key /\ e.parent = parent
    <3>1. parent \in Nat
      BY <1>0 DEF TypeOK
    <3> QED
      BY <1>0, <2>2, <3>1, PackType, EventType
  <2>5. log' = Append(log, e)
    BY <2>3
  <2> HIDE DEF e
  <2>6. /\ Len(log) \in Nat /\ DOMAIN log = 1..Len(log) /\ DOMAIN log' = 1..(Len(log) + 1)
        /\ \A i \in 1..Len(log) : log'[i] = log[i]
        /\ log'[Len(log) + 1] = e
    BY <1>0, <2>4, <2>5, Appended
  <2>7. Sound(log', limited, mode.decrypt)
    <3>1. kind = "decrypt_error" => Pack.key \in limited
      BY <1>0, <2>3 DEF PlaceInv, Pack
    <3>2. kind = "decrypted_archive" =>
            \E j \in 1..Len(log) : log[j].kind = "contents_manifest" /\ log[j].parent = parent
      BY <1>0, <2>3, <2>6 DEF PlaceInv
    <3>3. FitsParent(log, limited, mode.decrypt, e, Len(log))
      BY <2>2, <2>4, <2>6, <3>1, <3>2 DEF FitsParent
    <3> QED
      BY <1>0, <2>4, <2>5, <3>3, SoundAppend DEF DerivedInv
  <2>8. Once(log')
    BY <1>0, <2>2, <2>4, <2>5, OnceAppend DEF DerivedInv
  <2>9. ConnectedInv'
    <3>1. \A i \in DOMAIN log : log[i].kind # "connected"
      BY <2>1 DEF DerivedInv, ConnectedInv, Deriving
    <3> QED
      BY <2>4, <2>6, <3>1 DEF ConnectedInv
  <2>10. Derived(log, mode.decrypt, parent)
    BY <2>1 DEF DerivedInv, Open
  <2>11. CASE kind = "contents_manifest"
    <3>1. mpc' = "manifest" /\ next' = next /\ Deriving' /\ Open' = parent
      BY <2>1, <2>3, <2>11 DEF Deriving, Open
    <3>2. Derived(log', mode.decrypt, parent)
      BY <1>0, <2>4, <2>5, <2>10, <2>11, DerivedAppend
    <3>3. PlaceInv'
      <4>1. \A i \in DOMAIN log' : IsOutcome(log'[i]) => log'[i].parent # parent'
        BY <2>1, <2>2, <2>4, <2>6, <2>11 DEF IsOutcome
      <4>2. parent' \in DOMAIN log' /\ log'[parent'] = log[parent] /\ Len(log) + 1 \in DOMAIN log'
        BY <2>1, <2>2, <2>6
      <4>3. \E j \in DOMAIN log' : log'[j].kind = "contents_manifest" /\ log'[j].parent = parent'
        BY <2>1, <2>4, <2>6, <2>11, <4>2
      <4> QED
        BY <2>1, <2>2, <3>1, <4>1, <4>2, <4>3 DEF PlaceInv, Pack
    <3> QED
      BY <2>1, <2>7, <2>8, <2>9, <3>1, <3>2, <3>3 DEF DerivedInv
  <2>12. CASE kind # "contents_manifest"
    <3>1. mpc' = "archive" /\ ~Deriving' /\ Open' = 0 /\ PlaceInv'
      BY <2>3, <2>12 DEF Deriving, Open, PlaceInv
    <3>2. IsOutcome(e) /\ e.kind # "archive"
      BY <2>4, <2>12 DEF IsOutcome
    <3>3. Derived(log', mode.decrypt, 0)
      BY <1>0, <2>4, <2>5, <2>10, <3>2, DerivedAppend
    <3> QED
      BY <2>1, <2>7, <2>8, <2>9, <3>1, <3>3 DEF DerivedInv
  <2> QED
    BY <2>11, <2>12
<1>5. CASE AddLimitation
  <2>1. /\ mpc = "derive" /\ mpc' = "limitation" /\ limited' = limited \cup {Pack.key}
        /\ UNCHANGED <<mode, merged, next, parent, log>>
    BY <1>5 DEF AddLimitation
  <2>2. Deriving /\ Deriving' /\ Open' = Open
    BY <2>1 DEF Deriving, Open
  <2>3. PlaceInv'
    BY <1>0, <2>1, <2>2 DEF PlaceInv, Pack
  <2>4. ConnectedInv'
    BY <2>1 DEF DerivedInv, ConnectedInv
  <2>5. Sound(log, limited', mode.decrypt)
    BY <2>1 DEF DerivedInv, Sound, FitsParent
  <2> QED
    BY <2>1, <2>2, <2>3, <2>4, <2>5 DEF DerivedInv
<1> QED
  BY <1>1, <1>2, <1>3, <1>4, <1>5 DEF Main

LEMMA DerivedStep == ASSUME DerivedInv, [Next]_vars PROVE DerivedInv'
<1>0. TypeOK /\ PlaceInv
  BY DEF DerivedInv
<1>1. CASE Reader
  <2>1. UNCHANGED <<mode, mpc, merged, next, parent, limited>>
        /\ (log' = log \/ log' = Append(log, Plain("packet.raw")))
    BY <1>1 DEF Reader, Observe, ObserveMalformed, CommitDownloads, HandleInfo, IgnoreInfo,
       HandleStack
  <2> QED
    BY <1>0, <1>1, <2>1, TypeReader, DerivedStill
<1>2. CASE Download \/ Chunk
  <2>1. UNCHANGED <<mode, mpc, merged, next, parent, limited, log>>
    BY <1>2 DEF Download, Chunk, download, downloadFails, ChunkArrives, Store, StoreRefused
  <2> QED
    BY <1>0, <1>2, <2>1, TypeWorkers, DerivedStill
<1>3. CASE Main
  BY <1>0, <1>3, TypeMain, DerivedMain
<1>4. CASE UNCHANGED vars
  <2>1. TypeOK'
    BY <1>0, <1>4 DEF vars, TypeOK
  <2> QED
    BY <1>4, <2>1, DerivedStill DEF vars
<1>5. CASE Transport
  BY <1>0, <1>5, TypeTransport, TransportKeeps, DerivedStill DEF mainVars
<1> QED
  BY <1>1, <1>2, <1>3, <1>4, <1>5 DEF Next

LEMMA DerivedInit == Init => DerivedInv
<1> SUFFICES ASSUME Init PROVE DerivedInv
  OBVIOUS
<1>1. Len(log) = 1 /\ DOMAIN log = {1} /\ log[1].kind = "dial_start" /\ log[1].parent = 0
  BY PlainType DEF Init
<1>2. mpc = "dial"
  BY DEF Init
<1> QED
  BY <1>1, <1>2, TypeInit
     DEF DerivedInv, PlaceInv, Sound, Once, Derived, ConnectedInv, IsOutcome, Deriving

\* What the invariant says once the upstream is connected.
LEMMA DerivedMeansExact == ASSUME DerivedInv PROVE DerivedExact
<1>0. log \in Seq(Events) /\ DOMAIN log = 1..Len(log) /\ Len(log) \in Nat
  BY DEF DerivedInv, TypeOK
<1>1. ASSUME NEW i \in DOMAIN log, log[i].parent # 0
      PROVE  LET of == log[log[i].parent] IN
          /\ log[i].parent < i /\ of.kind = "archive" /\ of.key = log[i].key
          /\ of.key \in Encrypted /\ mode.decrypt
          /\ log[i].kind = "decrypt_error" => of.key \in limited
          /\ log[i].kind = "decrypted_archive" =>
                \E j \in 1..(i - 1) : /\ log[j].kind = "contents_manifest"
                                      /\ log[j].parent = log[i].parent
  <2>1. FitsParent(log, limited, mode.decrypt, log[i], i - 1)
    BY <1>1 DEF DerivedInv, Sound
  <2>2. log[i].parent < i
    BY <1>0, <2>1 DEF FitsParent
  <2> QED
    BY <2>1, <2>2 DEF FitsParent
<1>2. ASSUME NEW n \in DOMAIN log PROVE Cardinality(Outcomes(n)) <= 1
  <2>1. \A i, j \in Outcomes(n) : i = j
    BY DEF DerivedInv, Once, Outcomes, IsOutcome
  <2>2. CASE Outcomes(n) = {}
    BY <2>2, FS_EmptySet
  <2>3. CASE Outcomes(n) # {}
    <3>1. PICK i \in Outcomes(n) : TRUE
      BY <2>3
    <3>2. Outcomes(n) = {i}
      BY <2>1, <3>1
    <3> QED
      BY <3>2, FS_Singleton
  <2> QED
    BY <2>2, <2>3
<1>3. ASSUME NEW n \in DOMAIN log, IsConnected,
             log[n].kind = "archive", log[n].key \in Encrypted, mode.decrypt
      PROVE  Outcomes(n) # {}
  <2>1. mpc \in {"complete", "close", "returned"}
    BY <1>3 DEF IsConnected, Range, DerivedInv, ConnectedInv
  <2>2. Derived(log, mode.decrypt, 0)
    BY <2>1 DEF DerivedInv, Open, Deriving
  <2>3. n # 0
    BY <1>0
  <2>4. \E i \in DOMAIN log : IsOutcome(log[i]) /\ log[i].parent = n
    BY <1>3, <2>2, <2>3 DEF Derived
  <2> QED
    BY <2>4 DEF Outcomes, IsOutcome
<1> QED
  BY <1>1, <1>2, <1>3 DEF DerivedExact

\* The cache, the connection, the capture's events and the caller's place in
\* RecordResourcePacks keep their types, for any offers and any number of workers.
THEOREM PackTypes == Spec => []TypeOK
<1>1. DerivedInv => TypeOK
  BY DEF DerivedInv
<1>2. DerivedInv /\ [Next]_vars => DerivedInv'
  BY DerivedStep
<1> QED
  BY <1>1, <1>2, DerivedInit, PTL DEF Spec

\* recordDecryptedResourcePack: every derived event names the event of its own encrypted
\* archive, after it and after its manifests; an archive never has two outcomes, has one once
\* the upstream is connected with decryption on, and a failed one is a limitation of the
\* capture, whatever packets the reader records in between.
THEOREM DerivedAlwaysExact == Spec => []DerivedExact
<1>1. DerivedInv /\ [Next]_vars => DerivedInv'
  BY DerivedStep
<1>2. DerivedInv => DerivedExact
  BY DerivedMeansExact
<1> QED
  BY <1>1, <1>2, DerivedInit, PTL DEF Spec

-----------------------------------------------------------------------------
(* Counting.  How often a sequence has a key, and at which places an order *)
(* has it.                                                                 *)

\* The entries of a key, its places in an order, and those among the first m.
Keyed(seq, k) == {i \in DOMAIN seq : seq[i].key = k}
Places(order, k) == {i \in DOMAIN order : order[i] = k}
Before(order, k, m) == {i \in 1..m : order[i] = k}

\* How often a sequence has a key, and how the count grows.
LEMMA CountType ==
    ASSUME NEW s \in Seq(Packs), NEW k
    PROVE  /\ IsFiniteSet(Keyed(s, k)) /\ Count(s, k) = Cardinality(Keyed(s, k))
           /\ Count(s, k) \in Nat
           /\ Count(s, k) = 0 <=> Keyed(s, k) = {}
<1>1. Keyed(s, k) \in SUBSET (1..Len(s)) /\ Len(s) \in Nat
  BY DEF Keyed
<1>2. IsFiniteSet(1..Len(s))
  BY <1>1, FS_Interval
<1>3. IsFiniteSet(Keyed(s, k))
  BY <1>1, <1>2, FS_Subset
<1>4. Count(s, k) = Cardinality(Keyed(s, k))
  BY DEF Count, Keyed
<1> QED
  BY <1>3, <1>4, FS_CardinalityType, FS_EmptySet

LEMMA CountAppend ==
    ASSUME NEW s \in Seq(Packs), NEW p \in Packs, NEW k
    PROVE  Count(Append(s, p), k) = Count(s, k) + (IF p.key = k THEN 1 ELSE 0)
<1> DEFINE n == Len(s)
<1> DEFINE t == Append(s, p)
<1>1. /\ n \in Nat /\ DOMAIN s = 1..n /\ DOMAIN t = 1..(n + 1) /\ t \in Seq(Packs)
      /\ t[n + 1] = p /\ \A i \in 1..n : t[i] = s[i]
  OBVIOUS
<1> HIDE DEF t, n
<1>2. CASE p.key = k
  <2>1. Keyed(t, k) = Keyed(s, k) \cup {n + 1} /\ n + 1 \notin Keyed(s, k)
    BY <1>1, <1>2 DEF Keyed
  <2>2. Cardinality(Keyed(s, k) \cup {n + 1}) = Cardinality(Keyed(s, k)) + 1
    BY <2>1, CountType, FS_AddElement
  <2>3. Count(t, k) = Count(s, k) + 1
    BY <1>1, <2>1, <2>2, CountType
  <2> QED
    BY <1>2, <2>3 DEF t
<1>3. CASE p.key # k
  <2>1. Keyed(t, k) = Keyed(s, k)
    BY <1>1, <1>3 DEF Keyed
  <2>2. Count(t, k) = Count(s, k) /\ Count(s, k) \in Nat
    BY <1>1, <2>1, CountType
  <2> QED
    BY <1>3, <2>2 DEF t
<1> QED
  BY <1>2, <1>3

LEMMA CountEmpty == ASSUME NEW k PROVE Count(<< >>, k) = 0
<1>1. << >> \in Seq(Packs)
  OBVIOUS
<1>2. Keyed(<< >>, k) = {}
  BY DEF Keyed
<1> QED
  BY <1>1, <1>2, CountType

LEMMA BeforeStep ==
    ASSUME NEW order \in Seq(Keys), NEW m \in 1..Len(order), NEW k
    PROVE  /\ IsFiniteSet(Before(order, k, m - 1))
           /\ Cardinality(Before(order, k, m - 1)) \in Nat
           /\ Cardinality(Before(order, k, m)) =
                Cardinality(Before(order, k, m - 1)) + (IF order[m] = k THEN 1 ELSE 0)
<1>1. m \in Nat /\ m - 1 \in Nat
  OBVIOUS
<1>2. IsFiniteSet(Before(order, k, m - 1))
  <2>1. Before(order, k, m - 1) \in SUBSET (1..(m - 1)) /\ IsFiniteSet(1..(m - 1))
    BY <1>1, FS_Interval DEF Before
  <2> QED
    BY <2>1, FS_Subset
<1>3. Cardinality(Before(order, k, m - 1)) \in Nat
  BY <1>2, FS_CardinalityType
<1>4. CASE order[m] = k
  <2>1. Before(order, k, m) = Before(order, k, m - 1) \cup {m} /\ m \notin Before(order, k, m - 1)
    BY <1>1, <1>4 DEF Before
  <2>2. Cardinality(Before(order, k, m - 1) \cup {m}) = Cardinality(Before(order, k, m - 1)) + 1
    BY <1>2, <2>1, FS_AddElement
  <2> QED
    BY <1>2, <1>3, <1>4, <2>1, <2>2
<1>5. CASE order[m] # k
  <2>1. Before(order, k, m) = Before(order, k, m - 1)
    BY <1>1, <1>5 DEF Before
  <2> QED
    BY <1>2, <1>3, <1>5, <2>1
<1> QED
  BY <1>4, <1>5

LEMMA BeforeEnds ==
    ASSUME NEW order \in Seq(Keys), NEW k
    PROVE  /\ Cardinality(Before(order, k, 0)) = 0 /\ Before(order, k, 0) = {}
           /\ Before(order, k, Len(order)) = Places(order, k)
<1>1. Before(order, k, 0) = {}
  BY DEF Before
<1>2. Before(order, k, Len(order)) = Places(order, k)
  BY DEF Before, Places
<1> QED
  BY <1>1, <1>2, FS_EmptySet

-----------------------------------------------------------------------------
(* Merge.  Each loop is followed stage by stage: how often every key is in *)
(* the list so far, and how the list follows the order of the offer.       *)

\* The existing packs of a key that the loop over the offer has used.
UsedOf(acc, k) == {u \in acc.used : existing[u].key = k}

\* The entries of out are a subsequence of the first m of the offer.
Picks(out, m) ==
    \E f \in [1..Len(out) -> 1..m] :
        /\ \A i, j \in 1..Len(out) : i < j => f[i] < f[j]
        /\ \A i \in 1..Len(out) : out[i].key = offerOrder[f[i]]

\* What the loop over the offer has done for one key after m entries of it.
KeyAt(acc, m, k) ==
    /\ k \in Keys =>
         /\ k \in acc.taken <=> packs[k] # "none" /\ Before(offerOrder, k, m) # {}
         /\ \/ Keyed(existing, k) \subseteq acc.used
            \/ Cardinality(UsedOf(acc, k)) = Cardinality(Before(offerOrder, k, m))
         /\ packs[k] # "none" /\ k \notin acc.taken => UsedOf(acc, k) = {}
    /\ Count(acc.out, k) = IF k \in acc.taken /\ Keyed(existing, k) = {}
                              THEN 1 ELSE Cardinality(UsedOf(acc, k))

OfferedAt(acc, m) ==
    /\ acc \in MergeAcc
    /\ acc.used \subseteq DOMAIN existing
    /\ \A k \in Keys \cup {Other} : KeyAt(acc, m, k)
    /\ Picks(acc.out, m)

\* One more entry of the offer, with and without a pack for it.
LEMMA PicksAppend ==
    ASSUME NEW out \in Seq(Packs), NEW p \in Packs, NEW m \in Nat, m # 0, Picks(out, m - 1),
           p.key = offerOrder[m]
    PROVE  Picks(Append(out, p), m)
<1> DEFINE n == Len(out)
<1> DEFINE t == Append(out, p)
<1>1. /\ n \in Nat /\ Len(t) = n + 1 /\ t[n + 1] = p /\ \A i \in 1..n : t[i] = out[i]
  OBVIOUS
<1>2. PICK f \in [1..n -> 1..(m - 1)] :
        /\ \A i, j \in 1..n : i < j => f[i] < f[j]
        /\ \A i \in 1..n : out[i].key = offerOrder[f[i]]
  BY DEF Picks
<1> HIDE DEF t, n
<1> DEFINE g == [i \in 1..(n + 1) |-> IF i = n + 1 THEN m ELSE f[i]]
<1>3. \A i \in 1..n : g[i] = f[i] /\ f[i] \in 1..(m - 1) /\ i \in 1..(n + 1)
  BY <1>1
<1>4. g[n + 1] = m /\ \A i \in 1..(n + 1) : i \in 1..n \/ i = n + 1
  BY <1>1
<1>5. g \in [1..(n + 1) -> 1..m]
  <2>1. \A i \in 1..(n + 1) : g[i] \in 1..m
    BY <1>3, <1>4
  <2> QED
    BY <2>1
<1> HIDE DEF g
<1>6. ASSUME NEW i \in 1..(n + 1), NEW j \in 1..(n + 1), i < j PROVE g[i] < g[j]
  <2>1. i \in 1..n
    BY <1>1, <1>6
  <2>2. CASE j \in 1..n
    BY <1>2, <1>3, <1>6, <2>1, <2>2
  <2>3. CASE j = n + 1
    BY <1>3, <1>4, <2>1, <2>3
  <2> QED
    BY <1>4, <2>2, <2>3
<1>7. ASSUME NEW i \in 1..(n + 1) PROVE t[i].key = offerOrder[g[i]]
  BY <1>1, <1>2, <1>3, <1>4
<1> QED
  BY <1>1, <1>5, <1>6, <1>7 DEF Picks, t

LEMMA PicksKept ==
    ASSUME NEW out \in Seq(Packs), NEW m \in Nat, m # 0, Picks(out, m - 1)
    PROVE  Picks(out, m)
<1>1. PICK f \in [1..Len(out) -> 1..(m - 1)] :
        /\ \A i, j \in 1..Len(out) : i < j => f[i] < f[j]
        /\ \A i \in 1..Len(out) : out[i].key = offerOrder[f[i]]
  BY DEF Picks
<1>2. f \in [1..Len(out) -> 1..m]
  BY <1>1
<1> QED
  BY <1>1, <1>2 DEF Picks

LEMMA OfferedAtStep ==
    ASSUME existing \in Seq(Packs), offerOrder \in Seq(Keys), packs \in [Keys -> {"none", "http", "chunk"}],
           NEW m \in 1..Len(offerOrder), NEW acc, OfferedAt(acc, m - 1)
    PROVE  OfferedAt(MergeOffered(acc, offerOrder[m]), m)
<1> DEFINE key == offerOrder[m]
<1> DEFINE new == MergeOffered(acc, key)
<1> SUFFICES OfferedAt(new, m)
  OBVIOUS
<1>1. key \in Keys /\ m \in Nat /\ m # 0 /\ Len(offerOrder) \in Nat
  OBVIOUS
<1>2. acc \in MergeAcc /\ acc.out \in Seq(Packs) /\ acc.used \in SUBSET Nat /\ acc.taken \in SUBSET Keys
      /\ acc = [out |-> acc.out, used |-> acc.used, taken |-> acc.taken]
  BY DEF OfferedAt, MergeAcc
<1>3. new \in MergeAcc
  BY <1>1, <1>2, MergeTypes
<1>4. \A k : IsFiniteSet(Keyed(existing, k)) /\ (Count(existing, k) = 0 <=> Keyed(existing, k) = {})
  BY CountType
<1>5. \A k : UsedOf(acc, k) \subseteq Keyed(existing, k) /\ IsFiniteSet(UsedOf(acc, k))
             /\ Cardinality(UsedOf(acc, k)) \in Nat
  <2> TAKE k
  <2>1. UsedOf(acc, k) \subseteq Keyed(existing, k)
    BY DEF OfferedAt, UsedOf, Keyed
  <2>2. IsFiniteSet(UsedOf(acc, k))
    BY <1>4, <2>1, FS_Subset
  <2> QED
    BY <2>1, <2>2, FS_CardinalityType
<1>6. Unused(acc, key) = Keyed(existing, key) \ UsedOf(acc, key)
  BY DEF Unused, Keyed, UsedOf
<1>7. \A k : Cardinality(Before(offerOrder, k, m)) =
               Cardinality(Before(offerOrder, k, m - 1)) + (IF key = k THEN 1 ELSE 0)
  BY BeforeStep
<1>8. \A k : Before(offerOrder, k, m) # {} <=> Before(offerOrder, k, m - 1) # {} \/ key = k
  <2>1. \A i \in 1..m : i \in 1..(m - 1) \/ i = m
    BY <1>1
  <2>2. m \in 1..m /\ 1..(m - 1) \subseteq 1..m
    BY <1>1
  <2> QED
    BY <2>1, <2>2 DEF Before
<1>k. KeyAt(acc, m - 1, key)
  BY <1>1 DEF OfferedAt
<1> HIDE DEF key
\* A key other than this one keeps what it had.
<1>9. ASSUME NEW k \in Keys \cup {Other}, k # key, UsedOf(new, k) = UsedOf(acc, k),
             k \in new.taken <=> k \in acc.taken, Count(new.out, k) = Count(acc.out, k),
             acc.used \subseteq new.used
      PROVE  KeyAt(new, m, k)
  <2>0. KeyAt(acc, m - 1, k)
    BY <1>9 DEF OfferedAt
  <2>1. Cardinality(Before(offerOrder, k, m)) = Cardinality(Before(offerOrder, k, m - 1))
    <3>1. Cardinality(Before(offerOrder, k, m - 1)) \in Nat
      BY BeforeStep
    <3> QED
      BY <1>7, <1>9, <3>1
  <2>2. k \in Keys => (k \in acc.taken <=> packs[k] # "none" /\ Before(offerOrder, k, m - 1) # {})
    BY <2>0 DEF KeyAt
  <2>3. k \in Keys => \/ Keyed(existing, k) \subseteq acc.used
                      \/ Cardinality(UsedOf(acc, k)) = Cardinality(Before(offerOrder, k, m - 1))
    BY <2>0 DEF KeyAt
  <2>4. k \in Keys => (packs[k] # "none" /\ k \notin acc.taken => UsedOf(acc, k) = {})
    BY <2>0 DEF KeyAt
  <2>5. Count(acc.out, k) = IF k \in acc.taken /\ Keyed(existing, k) = {}
                                 THEN 1 ELSE Cardinality(UsedOf(acc, k))
    BY <2>0 DEF KeyAt
  <2> HIDE DEF new
  <2>6. k \in Keys => (k \in new.taken <=> packs[k] # "none" /\ Before(offerOrder, k, m) # {})
    BY <1>8, <1>9, <2>2
  <2>7. k \in Keys => \/ Keyed(existing, k) \subseteq new.used
                      \/ Cardinality(UsedOf(new, k)) = Cardinality(Before(offerOrder, k, m))
    BY <1>9, <2>1, <2>3
  <2> QED
    BY <1>9, <2>4, <2>5, <2>6, <2>7 DEF KeyAt
\* The entry that is used up, if there is one.
<1>10. ASSUME Unused(acc, key) # {}, NEW taken, NEW out,
              new = [out |-> out, used |-> acc.used \cup FirstUnused(acc, key), taken |-> taken]
       PROVE  /\ new.used \subseteq DOMAIN existing
              /\ \A k : k # key => UsedOf(new, k) = UsedOf(acc, k)
              /\ Cardinality(UsedOf(new, key)) = Cardinality(UsedOf(acc, key)) + 1
  <2>1. PICK u \in Unused(acc, key) : FirstUnused(acc, key) = {u}
    BY <1>10, LeastUnused
  <2>2. u \in DOMAIN existing /\ existing[u].key = key /\ u \notin acc.used
    BY <2>1 DEF Unused
  <2>3. new.used = acc.used \cup {u}
    BY <1>10, <2>1
  <2> HIDE DEF new
  <2>4. new.used \subseteq DOMAIN existing
    BY <2>2, <2>3 DEF OfferedAt
  <2>5. \A k : k # key => UsedOf(new, k) = UsedOf(acc, k)
    BY <2>2, <2>3 DEF UsedOf
  <2>6. UsedOf(new, key) = UsedOf(acc, key) \cup {u} /\ u \notin UsedOf(acc, key)
    BY <2>2, <2>3 DEF UsedOf
  <2>7. Cardinality(UsedOf(acc, key) \cup {u}) = Cardinality(UsedOf(acc, key)) + 1
    BY <1>5, <2>6, FS_AddElement
  <2> QED
    BY <2>4, <2>5, <2>6, <2>7
<1>11. CASE packs[key] # "none" /\ key \notin acc.taken
  <2>1. new = [out   |-> Append(acc.out, Cached(key)),
               used  |-> acc.used \cup FirstUnused(acc, key),
               taken |-> acc.taken \cup {key}]
    BY <1>11 DEF MergeOffered
  <2>2. Cached(key) \in Packs /\ Cached(key).key = key
    BY <1>1 DEF Cached, Packs
  <2>3. UsedOf(acc, key) = {} /\ Unused(acc, key) = Keyed(existing, key)
    BY <1>1, <1>6, <1>11, <1>k DEF KeyAt
  <2>4. \A k : Count(new.out, k) = Count(acc.out, k) + (IF key = k THEN 1 ELSE 0)
    BY <1>2, <2>1, <2>2, CountAppend
  <2>5. Picks(new.out, m)
    BY <1>1, <1>2, <2>1, <2>2, PicksAppend DEF OfferedAt, key
  <2>6. key \notin acc.taken /\ Cardinality({}) = 0 /\ Cardinality(UsedOf(acc, key)) = 0
    BY <1>11, <2>3, FS_EmptySet
  <2>7. Count(acc.out, key) = 0 /\ Before(offerOrder, key, m - 1) = {}
    BY <1>1, <1>11, <1>k, <2>6 DEF KeyAt
  <2>8. \A k : k # key => (k \in new.taken <=> k \in acc.taken)
    BY <2>1
  <2>9. key \in new.taken /\ acc.used \subseteq new.used
    BY <2>1
  <2>10. CASE Unused(acc, key) # {}
    <3>1. /\ new.used \subseteq DOMAIN existing
          /\ \A k : k # key => UsedOf(new, k) = UsedOf(acc, k)
          /\ Cardinality(UsedOf(new, key)) = 1
      <4>1. 0 + 1 = 1
        OBVIOUS
      <4> QED
        BY <1>10, <2>1, <2>6, <2>10, <4>1
    <3>2. Keyed(existing, key) # {}
      BY <2>3, <2>10
    <3>3. Cardinality(Before(offerOrder, key, m)) = 1 /\ Before(offerOrder, key, m) # {}
      <4>1. Cardinality(Before(offerOrder, key, m - 1)) = 0
        BY <2>7, FS_EmptySet
      <4> QED
        BY <1>7, <1>8, <4>1
    <3>4. Count(new.out, key) = 1
      BY <2>4, <2>7
    <3>5. \A k \in Keys \cup {Other} : k # key => Count(new.out, k) = Count(acc.out, k)
      <4>1. \A k : Count(acc.out, k) \in Nat
        BY <1>2, CountType
      <4> QED
        BY <2>4, <4>1
    <3> HIDE DEF new
    <3>6. KeyAt(new, m, key)
      BY <1>11, <2>9, <3>1, <3>2, <3>3, <3>4 DEF KeyAt
    <3>7. \A k \in Keys \cup {Other} : k # key => KeyAt(new, m, k)
      BY <1>9, <2>8, <2>9, <3>1, <3>5
    <3> QED
      BY <1>3, <2>5, <3>1, <3>6, <3>7 DEF OfferedAt
  <2>11. CASE Unused(acc, key) = {}
    <3>1. FirstUnused(acc, key) = {} /\ Keyed(existing, key) = {}
      BY <2>3, <2>11 DEF FirstUnused
    <3>2. new.used = acc.used /\ \A k : UsedOf(new, k) = UsedOf(acc, k)
      BY <2>1, <3>1 DEF UsedOf
    <3>3. Before(offerOrder, key, m) # {}
      BY <1>8
    <3>4. Count(new.out, key) = 1
      BY <2>4, <2>7
    <3>5. \A k \in Keys \cup {Other} : k # key => Count(new.out, k) = Count(acc.out, k)
      <4>1. \A k : Count(acc.out, k) \in Nat
        BY <1>2, CountType
      <4> QED
        BY <2>4, <4>1
    <3>6. new.used \subseteq DOMAIN existing
      BY <3>2 DEF OfferedAt
    <3> HIDE DEF new
    <3>7. KeyAt(new, m, key)
      BY <1>11, <2>9, <3>1, <3>3, <3>4 DEF KeyAt
    <3>8. \A k \in Keys \cup {Other} : k # key => KeyAt(new, m, k)
      BY <1>9, <2>8, <2>9, <3>2, <3>5
    <3> QED
      BY <1>3, <2>5, <3>6, <3>7, <3>8 DEF OfferedAt
  <2> QED
    BY <2>10, <2>11
<1>12. CASE ~(packs[key] # "none" /\ key \notin acc.taken) /\ Unused(acc, key) # {}
  <2> DEFINE u == CHOOSE i \in FirstUnused(acc, key) : TRUE
  <2>1. new = [out   |-> Append(acc.out, existing[u]),
               used  |-> acc.used \cup FirstUnused(acc, key),
               taken |-> acc.taken]
    BY <1>2, <1>12 DEF MergeOffered
  <2>2. existing[u] \in Packs /\ existing[u].key = key
    <3>1. PICK v \in Unused(acc, key) : FirstUnused(acc, key) = {v}
      BY <1>12, LeastUnused
    <3>2. u = v
      BY <3>1
    <3>3. v \in DOMAIN existing /\ existing[v].key = key
      BY <3>1 DEF Unused
    <3> HIDE DEF u
    <3> QED
      BY <3>2, <3>3
  <2> HIDE DEF u
  <2>3. \A k : Count(new.out, k) = Count(acc.out, k) + (IF key = k THEN 1 ELSE 0)
    BY <1>2, <2>1, <2>2, CountAppend
  <2>4. Picks(new.out, m)
    BY <1>1, <1>2, <2>1, <2>2, PicksAppend DEF OfferedAt, key
  <2>5. new.taken = acc.taken /\ acc.used \subseteq new.used
    BY <2>1
  <2>6. /\ new.used \subseteq DOMAIN existing
        /\ \A k : k # key => UsedOf(new, k) = UsedOf(acc, k)
        /\ Cardinality(UsedOf(new, key)) = Cardinality(UsedOf(acc, key)) + 1
    BY <1>10, <1>12, <2>1
  <2>7. Keyed(existing, key) # {} /\ ~(Keyed(existing, key) \subseteq acc.used)
    BY <1>12 DEF Keyed, Unused
  <2>8. Count(new.out, key) = Cardinality(UsedOf(new, key))
    <3>1. Count(acc.out, key) = Cardinality(UsedOf(acc, key))
      BY <1>1, <1>k, <2>7 DEF KeyAt
    <3> QED
      BY <2>3, <2>6, <3>1
  <2>9. Cardinality(UsedOf(new, key)) = Cardinality(Before(offerOrder, key, m))
    <3>1. Cardinality(UsedOf(acc, key)) = Cardinality(Before(offerOrder, key, m - 1))
      BY <1>1, <1>k, <2>7 DEF KeyAt
    <3> QED
      BY <1>7, <2>6, <3>1
  <2>10. key \in new.taken <=> packs[key] # "none" /\ Before(offerOrder, key, m) # {}
    BY <1>1, <1>8, <1>12, <1>k, <2>5 DEF KeyAt
  <2>11. \A k \in Keys \cup {Other} : k # key => Count(new.out, k) = Count(acc.out, k)
    <3>1. \A k : Count(acc.out, k) \in Nat
      BY <1>2, CountType
    <3> QED
      BY <2>3, <3>1
  <2> HIDE DEF new
  <2>12. KeyAt(new, m, key)
    BY <1>12, <2>5, <2>7, <2>8, <2>9, <2>10 DEF KeyAt
  <2>13. \A k \in Keys \cup {Other} : k # key => KeyAt(new, m, k)
    BY <1>9, <2>5, <2>6, <2>11
  <2> QED
    BY <1>3, <2>4, <2>6, <2>12, <2>13 DEF OfferedAt
<1>13. CASE ~(packs[key] # "none" /\ key \notin acc.taken) /\ Unused(acc, key) = {}
  <2>1. new = acc
    BY <1>13 DEF MergeOffered
  <2>2. Keyed(existing, key) \subseteq acc.used
    BY <1>13 DEF Keyed, Unused
  <2>3. Picks(new.out, m)
    BY <1>1, <1>2, <2>1, PicksKept DEF OfferedAt
  <2>4. key \in new.taken <=> packs[key] # "none" /\ Before(offerOrder, key, m) # {}
    BY <1>1, <1>8, <1>13, <1>k, <2>1 DEF KeyAt
  <2> HIDE DEF new
  <2>5. /\ packs[key] # "none" /\ key \notin new.taken => UsedOf(new, key) = {}
        /\ Count(new.out, key) = IF key \in new.taken /\ Keyed(existing, key) = {}
                                 THEN 1 ELSE Cardinality(UsedOf(new, key))
        /\ new.used \subseteq DOMAIN existing
    BY <1>1, <1>k, <2>1 DEF OfferedAt, KeyAt
  <2>6. KeyAt(new, m, key)
    BY <2>1, <2>2, <2>4, <2>5 DEF KeyAt
  <2>7. \A k \in Keys \cup {Other} : k # key => KeyAt(new, m, k)
    BY <1>9, <2>1
  <2> QED
    BY <1>3, <2>3, <2>5, <2>6, <2>7 DEF OfferedAt
<1> QED
  BY <1>11, <1>12, <1>13

-----------------------------------------------------------------------------
(* What the exchange keeps true of the cache.                              *)

\* Nothing is held or asked for before the offer is handled, and what is held is in the order.
CacheInv ==
    /\ ~handled => /\ existing = << >> /\ \A k \in Keys : chunks[k] = "none"
                   /\ offerOrder = IF rpc = "idle" THEN << >> ELSE KeysOf(info)
    /\ offerOrder = << >> => /\ existing = << >> /\ jobs = << >> /\ packOrder = << >>
                             /\ \A k \in Keys : chunks[k] = "none"
    /\ \A k \in Keys : packs[k] # "none" => k \in Range(packOrder)
    /\ conn = "ready" \/ mpc \notin {"dial", "failed"} =>
         handled /\ \A k \in Keys : chunks[k] # "asked"

\* The list has no more of a key than the offer.
RoomInv ==
    \A k \in Keys :
        Count(existing, k) + (IF chunks[k] = "asked" THEN 1 ELSE 0)
            <= Cardinality(Places(offerOrder, k))

\* What Merge needs of the two lists it joins.
MergeReady ==
    /\ existing \in Seq(Packs) /\ offerOrder \in Seq(Keys) /\ packOrder \in Seq(Keys)
    /\ packs \in [Keys -> {"none", "http", "chunk"}]
    /\ \A k \in Keys : Count(existing, k) <= Cardinality(Places(offerOrder, k))
    /\ \A k \in Keys : packs[k] # "none" => k \in Range(packOrder)

\* The first loop: as many of each key as there are, in the order of the offer.
LEMMA OfferedResult ==
    ASSUME MergeReady
    PROVE  /\ OfferedAt(Offered, Len(offerOrder))
           /\ \A k \in Keys : Keyed(existing, k) \subseteq Offered.used
           /\ UsedOf(Offered, Other) = {}
           /\ \A k \in Keys : k \in Offered.taken <=> packs[k] # "none" /\ k \in Range(offerOrder)
           /\ \A k \in Keys : Count(Offered.out, k) = IF k \in Offered.taken /\ Keyed(existing, k) = {}
                                                         THEN 1 ELSE Count(existing, k)
           /\ Count(Offered.out, Other) = 0
<1> DEFINE n == Len(offerOrder)
<1>0. /\ existing \in Seq(Packs) /\ offerOrder \in Seq(Keys)
      /\ packs \in [Keys -> {"none", "http", "chunk"}]
      /\ n \in Nat
  BY DEF MergeReady
<1>1. PICK p \in [0..n -> MergeAcc] :
         /\ p[0] = [out |-> << >>, used |-> {}, taken |-> {}] /\ p[n] = Offered
         /\ \A i \in 1..n : p[i] = MergeOffered(p[i - 1], offerOrder[i])
  BY <1>0, OfferedStages
<1> DEFINE T == {i \in 0..n : OfferedAt(p[i], i)}
<1>2. 0 \in T
  <2> DEFINE b == p[0]
  <2>1. b \in MergeAcc /\ b.out = << >> /\ b.used = {} /\ b.taken = {}
    <3>1. 0 \in 0..n
      BY <1>0
    <3>2. b \in MergeAcc
      BY <1>1, <3>1
    <3> QED
      BY <1>1, <3>2
  <2> HIDE DEF b
  <2>2. \A k : UsedOf(b, k) = {} /\ Cardinality(UsedOf(b, k)) = 0
    <3>1. \A k : UsedOf(b, k) = {}
      BY <2>1 DEF UsedOf
    <3> QED
      BY <3>1, FS_EmptySet
  <2>3. \A k \in Keys \cup {Other} : KeyAt(b, 0, k)
    BY <1>0, <2>1, <2>2, BeforeEnds, CountEmpty DEF KeyAt
  <2>4. Picks(b.out, 0)
    <3>1. 1..Len(<< >>) = {} /\ << >> \in [1..Len(<< >>) -> 1..0]
      OBVIOUS
    <3> QED
      BY <2>1, <3>1 DEF Picks
  <2>5. OfferedAt(b, 0)
    BY <2>1, <2>3, <2>4 DEF OfferedAt
  <2> QED
    BY <1>0, <2>5 DEF b
<1>3. ASSUME NEW i \in 1..n, i - 1 \in T PROVE i \in T
  <2>1. OfferedAt(p[i - 1], i - 1) /\ i \in 0..n
    BY <1>0, <1>3
  <2>2. OfferedAt(MergeOffered(p[i - 1], offerOrder[i]), i)
    BY <1>0, <2>1, OfferedAtStep
  <2> QED
    BY <1>1, <2>1, <2>2
<1>4. n \in T
  <2>1. n \in 0..n
    BY <1>0
  <2> HIDE DEF T, n
  <2> QED
    BY <1>0, <1>2, <1>3, <2>1, BoundedInduction
<1>5. OfferedAt(Offered, n)
  BY <1>1, <1>4
<1>6. \A k : Before(offerOrder, k, n) = Places(offerOrder, k)
  BY <1>0, BeforeEnds
<1>7. ASSUME NEW k \in Keys PROVE Keyed(existing, k) \subseteq Offered.used
  <2>1. KeyAt(Offered, n, k)
    BY <1>5 DEF OfferedAt
  <2>2. CASE Cardinality(UsedOf(Offered, k)) = Cardinality(Before(offerOrder, k, n))
    <3>1. UsedOf(Offered, k) \subseteq Keyed(existing, k)
      BY <1>5 DEF OfferedAt, UsedOf, Keyed
    <3>2. IsFiniteSet(Keyed(existing, k)) /\ Count(existing, k) = Cardinality(Keyed(existing, k))
          /\ Count(existing, k) \in Nat
      BY <1>0, CountType
    <3>3. Count(existing, k) <= Cardinality(UsedOf(Offered, k))
      BY <1>6, <2>2 DEF MergeReady
    <3>4. Cardinality(UsedOf(Offered, k)) <= Cardinality(Keyed(existing, k))
          /\ (Cardinality(Keyed(existing, k)) = Cardinality(UsedOf(Offered, k))
                => Keyed(existing, k) = UsedOf(Offered, k))
      BY <3>1, <3>2, FS_Subset
    <3>5. Cardinality(UsedOf(Offered, k)) \in Nat
      BY <3>1, <3>2, FS_Subset, FS_CardinalityType
    <3>6. Keyed(existing, k) = UsedOf(Offered, k)
      BY <3>2, <3>3, <3>4, <3>5
    <3> QED
      BY <3>6 DEF UsedOf
  <2> QED
    BY <2>1, <2>2 DEF KeyAt
<1>8. Offered.out \in Seq(Packs)
  BY <1>5 DEF OfferedAt, MergeAcc
<1>9. Count(Offered.out, Other) = 0
  <2>1. PICK f \in [1..Len(Offered.out) -> 1..n] :
          \A i \in 1..Len(Offered.out) : Offered.out[i].key = offerOrder[f[i]]
    BY <1>5 DEF OfferedAt, Picks
  <2>2. \A i \in 1..Len(Offered.out) : Offered.out[i].key \in Keys
    <3> TAKE i \in 1..Len(Offered.out)
    <3>1. f[i] \in 1..n
      BY <2>1
    <3>2. offerOrder[f[i]] \in Keys
      BY <1>0, <3>1
    <3> QED
      BY <2>1, <3>2
  <2>3. Keyed(Offered.out, Other) = {}
    BY <1>8, <2>2, PackAssumption DEF Keyed
  <2> QED
    BY <1>8, <2>3, CountType
<1>10. \A k \in Keys : k \in Offered.taken <=> packs[k] # "none" /\ k \in Range(offerOrder)
  <2> SUFFICES ASSUME NEW k \in Keys
               PROVE  k \in Offered.taken <=> packs[k] # "none" /\ k \in Range(offerOrder)
    OBVIOUS
  <2>1. k \in Offered.taken <=> packs[k] # "none" /\ Places(offerOrder, k) # {}
    BY <1>5, <1>6 DEF OfferedAt, KeyAt
  <2> QED
    BY <2>1 DEF Places, Range
<1>11. UsedOf(Offered, Other) = {}
  <2>1. UsedOf(Offered, Other) \subseteq Keyed(existing, Other)
    BY <1>5 DEF OfferedAt, UsedOf, Keyed
  <2>2. IsFiniteSet(UsedOf(Offered, Other))
    BY <1>0, <2>1, CountType, FS_Subset
  <2>3. Cardinality(UsedOf(Offered, Other)) = 0
    <3>1. Other \notin Offered.taken /\ KeyAt(Offered, n, Other)
      BY <1>5, PackAssumption DEF OfferedAt, MergeAcc
    <3> QED
      BY <1>9, <3>1 DEF KeyAt
  <2> QED
    BY <2>2, <2>3, FS_EmptySet
<1>12. ASSUME NEW k \in Keys
       PROVE  Count(Offered.out, k) = IF k \in Offered.taken /\ Keyed(existing, k) = {}
                                         THEN 1 ELSE Count(existing, k)
  <2>1. KeyAt(Offered, n, k)
    BY <1>5 DEF OfferedAt
  <2>2. UsedOf(Offered, k) = Keyed(existing, k)
    BY <1>5, <1>7 DEF OfferedAt, UsedOf, Keyed
  <2>3. Count(existing, k) = Cardinality(Keyed(existing, k))
    BY <1>0, CountType
  <2> QED
    BY <2>1, <2>2, <2>3 DEF KeyAt
<1> QED
  BY <1>5, <1>7, <1>9, <1>10, <1>11, <1>12

\* What the later loops append is not in the offer.
Follows(out) ==
    /\ Len(Offered.out) <= Len(out)
    /\ \A i \in 1..Len(Offered.out) : out[i] = Offered.out[i]
    /\ \A i \in (Len(Offered.out) + 1)..Len(out) : out[i].key \notin Range(offerOrder)

LEMMA FollowsAppend ==
    ASSUME NEW out \in Seq(Packs), NEW p \in Packs, Offered.out \in Seq(Packs), Follows(out),
           p.key \notin Range(offerOrder)
    PROVE  Follows(Append(out, p))
<1> DEFINE n == Len(out)
<1> DEFINE t == Append(out, p)
<1> DEFINE m == Len(Offered.out)
<1>1. /\ n \in Nat /\ Len(t) = n + 1 /\ t[n + 1] = p /\ \A i \in 1..n : t[i] = out[i]
      /\ m \in Nat /\ m <= n
  BY DEF Follows
<1>2. \A i \in 1..m : out[i] = Offered.out[i]
  BY DEF Follows
<1>3. \A i \in (m + 1)..n : out[i].key \notin Range(offerOrder)
  BY DEF Follows
<1> HIDE DEF n, t, m
<1>4. \A i \in 1..m : t[i] = Offered.out[i]
  BY <1>1, <1>2
<1>5. ASSUME NEW i \in (m + 1)..(n + 1) PROVE t[i].key \notin Range(offerOrder)
  <2>1. (i \in (m + 1)..n /\ i \in 1..n) \/ i = n + 1
    BY <1>1
  <2> QED
    BY <1>1, <1>3, <2>1
<1>6. m <= n + 1
  BY <1>1
<1> QED
  BY <1>1, <1>4, <1>5, <1>6 DEF Follows, t, m

\* The second loop: the existing packs that were not offered.
RestAt(acc, j) ==
    /\ acc \in MergeAcc
    /\ acc.used = Offered.used /\ acc.taken = Offered.taken
    /\ Follows(acc.out)
    /\ \A k \in Keys : Count(acc.out, k) = Count(Offered.out, k)
    /\ Count(acc.out, Other) = Cardinality({i \in 1..j : existing[i].key = Other})

LEMMA RestAtStep ==
    ASSUME MergeReady, NEW j \in 1..Len(existing), NEW acc, RestAt(acc, j - 1)
    PROVE  RestAt(MergeExisting(acc, j), j)
<1> DEFINE new == MergeExisting(acc, j)
<1> DEFINE O(m) == {i \in 1..m : existing[i].key = Other}
<1>0. /\ existing \in Seq(Packs) /\ offerOrder \in Seq(Keys) /\ j \in Nat /\ j # 0
      /\ j \in DOMAIN existing
      /\ existing[j] \in Packs
  BY DEF MergeReady
<1>1. acc \in MergeAcc /\ acc.out \in Seq(Packs)
      /\ acc = [out |-> acc.out, used |-> acc.used, taken |-> acc.taken]
  BY DEF RestAt, MergeAcc
<1>2. new \in MergeAcc /\ Offered.out \in Seq(Packs)
  BY <1>0, <1>1, MergeTypes, OfferedType DEF MergeAcc
<1>3. IsFiniteSet(O(j - 1)) /\ Cardinality(O(j - 1)) \in Nat
  <2>1. O(j - 1) \in SUBSET (1..(j - 1)) /\ IsFiniteSet(1..(j - 1))
    BY <1>0, FS_Interval
  <2>2. IsFiniteSet(O(j - 1))
    BY <2>1, FS_Subset
  <2> QED
    BY <2>2, FS_CardinalityType
<1>4. CASE existing[j].key \in Keys
  <2>1. j \in acc.used
    BY <1>0, <1>4, OfferedResult DEF RestAt, Keyed
  <2>2. new = acc
    BY <2>1 DEF MergeExisting
  <2>3. O(j) = O(j - 1)
    BY <1>0, <1>4, PackAssumption
  <2> HIDE DEF new
  <2> QED
    BY <1>2, <2>2, <2>3 DEF RestAt, new
<1>5. CASE existing[j].key = Other
  <2>1. j \notin acc.used
    BY <1>0, <1>5, OfferedResult DEF RestAt, UsedOf
  <2>2. new = [out |-> Append(acc.out, existing[j]), used |-> acc.used, taken |-> acc.taken]
    BY <1>1, <2>1 DEF MergeExisting
  <2>3. O(j) = O(j - 1) \cup {j} /\ j \notin O(j - 1)
    BY <1>0, <1>5
  <2>4. Cardinality(O(j - 1) \cup {j}) = Cardinality(O(j - 1)) + 1
    <3> HIDE DEF O
    <3> QED
      BY <1>3, <2>3, FS_AddElement
  <2>5. \A k : Count(new.out, k) = Count(acc.out, k) + (IF existing[j].key = k THEN 1 ELSE 0)
    BY <1>0, <1>1, <2>2, CountAppend
  <2>6. \A k : Count(acc.out, k) \in Nat
    BY <1>1, CountType
  <2>7. Follows(new.out)
    <3>1. existing[j].key \notin Range(offerOrder)
      BY <1>0, <1>5, PackAssumption DEF Range
    <3> QED
      BY <1>0, <1>1, <1>2, <2>2, <3>1, FollowsAppend DEF RestAt
  <2>8. new.used = acc.used /\ new.taken = acc.taken
    BY <2>2
  <2>9. \A k \in Keys : Count(new.out, k) = Count(acc.out, k)
    BY <1>5, <2>5, <2>6, PackAssumption
  <2>10. Count(new.out, Other) = Cardinality(O(j))
    <3>1. Count(acc.out, Other) = Cardinality(O(j - 1))
      BY DEF RestAt
    <3> HIDE DEF O
    <3> QED
      BY <1>5, <2>3, <2>4, <2>5, <2>6, <3>1
  <2>11. RestAt(new, j)
    <3> HIDE DEF new
    <3> QED
      BY <1>2, <2>7, <2>8, <2>9, <2>10 DEF RestAt
  <2> QED
    BY <2>11
<1>6. existing[j].key \in Keys \/ existing[j].key = Other
  BY <1>0 DEF Packs
<1> QED
  BY <1>4, <1>5, <1>6

LEMMA RestResult ==
    ASSUME MergeReady
    PROVE  /\ Rest \in MergeAcc /\ Rest.taken = Offered.taken /\ Follows(Rest.out)
           /\ \A k \in Keys : Count(Rest.out, k) = IF k \in Rest.taken /\ Keyed(existing, k) = {}
                                                      THEN 1 ELSE Count(existing, k)
           /\ Count(Rest.out, Other) = Count(existing, Other)
<1> DEFINE n == Len(existing)
<1>0. existing \in Seq(Packs) /\ offerOrder \in Seq(Keys) /\ n \in Nat
  BY DEF MergeReady
<1>1. PICK p \in [0..n -> MergeAcc] :
         /\ p[0] = Offered /\ p[n] = Rest
         /\ \A i \in 1..n : p[i] = MergeExisting(p[i - 1], Indexes[i])
  BY <1>0, RestStages
<1> DEFINE T == {i \in 0..n : RestAt(p[i], i)}
<1>2. 0 \in T
  <2>1. Offered \in MergeAcc /\ Offered.out \in Seq(Packs)
    BY <1>0, OfferedType DEF MergeAcc
  <2>2. Follows(Offered.out)
    BY <2>1 DEF Follows
  <2>3. {i \in 1..0 : existing[i].key = Other} = {}
    OBVIOUS
  <2>4. Cardinality({i \in 1..0 : existing[i].key = Other}) = 0
    BY <2>3, FS_EmptySet
  <2>5. RestAt(Offered, 0)
    BY <2>1, <2>2, <2>4, OfferedResult DEF RestAt
  <2> QED
    BY <1>0, <1>1, <2>5
<1>3. ASSUME NEW i \in 1..n, i - 1 \in T PROVE i \in T
  <2>1. RestAt(p[i - 1], i - 1) /\ i \in 0..n /\ Indexes[i] = i
    BY <1>0, <1>3 DEF Indexes
  <2>2. RestAt(MergeExisting(p[i - 1], i), i)
    BY <1>0, <2>1, RestAtStep
  <2> QED
    BY <1>1, <2>1, <2>2
<1>4. n \in T
  <2>1. n \in 0..n
    BY <1>0
  <2> HIDE DEF T, n
  <2> QED
    BY <1>0, <1>2, <1>3, <2>1, BoundedInduction
<1>5. RestAt(Rest, n)
  BY <1>1, <1>4
<1>6. {i \in 1..n : existing[i].key = Other} = Keyed(existing, Other)
  BY <1>0 DEF Keyed
<1>7. Count(existing, Other) = Cardinality(Keyed(existing, Other))
  BY <1>0, CountType
<1> QED
  BY <1>5, <1>6, <1>7, OfferedResult DEF RestAt

\* The third loop: the cached packs that no entry of the offer took.
CachedAt(acc, j) ==
    /\ acc \in MergeAcc
    /\ Follows(acc.out)
    /\ \A k \in Keys : k \in acc.taken <=>
          packs[k] # "none" /\ (k \in Range(offerOrder) \/ Before(packOrder, k, j) # {})
    /\ \A k \in Keys : Count(acc.out, k) = IF k \in acc.taken /\ Keyed(existing, k) = {}
                                              THEN 1 ELSE Count(existing, k)
    /\ Count(acc.out, Other) = Count(existing, Other)

LEMMA CachedAtStep ==
    ASSUME MergeReady, NEW j \in 1..Len(packOrder), NEW acc, CachedAt(acc, j - 1)
    PROVE  CachedAt(MergeCached(acc, packOrder[j]), j)
<1> DEFINE key == packOrder[j]
<1> DEFINE new == MergeCached(acc, key)
<1> SUFFICES CachedAt(new, j)
  OBVIOUS
<1>0. /\ existing \in Seq(Packs) /\ offerOrder \in Seq(Keys) /\ packOrder \in Seq(Keys)
      /\ j \in Nat /\ j # 0
      /\ key \in Keys /\ packs \in [Keys -> {"none", "http", "chunk"}]
  BY DEF MergeReady
<1>1. acc \in MergeAcc /\ acc.out \in Seq(Packs)
      /\ acc = [out |-> acc.out, used |-> acc.used, taken |-> acc.taken]
  BY DEF CachedAt, MergeAcc
<1>2. new \in MergeAcc /\ Offered.out \in Seq(Packs)
  BY <1>0, <1>1, MergeTypes, OfferedType DEF MergeAcc
<1>3. \A k : Before(packOrder, k, j) # {} <=> Before(packOrder, k, j - 1) # {} \/ key = k
  <2>1. \A i \in 1..j : i \in 1..(j - 1) \/ i = j
    BY <1>0
  <2>2. j \in 1..j /\ 1..(j - 1) \subseteq 1..j
    BY <1>0
  <2> QED
    BY <2>1, <2>2 DEF Before
<1> HIDE DEF key
<1>4. CASE packs[key] # "none" /\ key \notin acc.taken
  <2>1. new = [out |-> Append(acc.out, Cached(key)), used |-> acc.used, taken |-> acc.taken \cup {key}]
    BY <1>1, <1>4 DEF MergeCached
  <2>2. Cached(key) \in Packs /\ Cached(key).key = key
    BY <1>0 DEF Cached, Packs
  <2>3. key \notin Range(offerOrder)
    BY <1>0, <1>4 DEF CachedAt
  <2>4. Follows(new.out)
    BY <1>1, <1>2, <2>1, <2>2, <2>3, FollowsAppend DEF CachedAt
  <2>5. \A k : Count(new.out, k) = Count(acc.out, k) + (IF key = k THEN 1 ELSE 0)
    BY <1>1, <2>1, <2>2, CountAppend
  <2>6. \A k : Count(acc.out, k) \in Nat
    BY <1>1, CountType
  <2>7. Keyed(existing, key) = {} /\ Count(existing, key) = 0
    <3>1. Places(offerOrder, key) = {}
      BY <2>3 DEF Places, Range
    <3>2. Cardinality(Places(offerOrder, key)) = 0
      BY <3>1, FS_EmptySet
    <3>3. Count(existing, key) <= 0
      BY <1>0, <3>2 DEF MergeReady
    <3>4. Count(existing, key) \in Nat /\ (Count(existing, key) = 0 <=> Keyed(existing, key) = {})
      BY <1>0, CountType
    <3> QED
      BY <3>3, <3>4
  <2>8. Count(new.out, key) = 1
    <3>1. Count(acc.out, key) = 0
      BY <1>0, <1>4, <2>7 DEF CachedAt
    <3> QED
      BY <2>5, <3>1
  <2>9. \A k : k # key => Count(new.out, k) = Count(acc.out, k) /\ (k \in new.taken <=> k \in acc.taken)
    <3>1. \A k : k # key => Count(new.out, k) = Count(acc.out, k)
      BY <2>5, <2>6
    <3> QED
      BY <2>1, <3>1
  <2>10. key \in new.taken /\ Other # key
    BY <1>0, <2>1, PackAssumption
  <2> HIDE DEF new
  <2>11. ASSUME NEW k \in Keys
         PROVE  /\ k \in new.taken <=>
                     packs[k] # "none" /\ (k \in Range(offerOrder) \/ Before(packOrder, k, j) # {})
                /\ Count(new.out, k) = IF k \in new.taken /\ Keyed(existing, k) = {}
                                          THEN 1 ELSE Count(existing, k)
    <3>1. CASE k = key
      BY <1>3, <1>4, <2>7, <2>8, <2>10, <3>1
    <3>2. CASE k # key
      BY <1>3, <2>9, <3>2 DEF CachedAt
    <3> QED
      BY <3>1, <3>2
  <2>12. Count(new.out, Other) = Count(existing, Other)
    BY <2>9, <2>10 DEF CachedAt
  <2> QED
    BY <1>2, <2>4, <2>11, <2>12 DEF CachedAt
<1>5. CASE ~(packs[key] # "none" /\ key \notin acc.taken)
  <2>1. new = acc
    BY <1>5 DEF MergeCached
  <2> HIDE DEF new
  <2>2. \A k \in Keys : k \in acc.taken <=>
          packs[k] # "none" /\ (k \in Range(offerOrder) \/ Before(packOrder, k, j) # {})
    BY <1>0, <1>3, <1>5 DEF CachedAt
  <2> QED
    BY <2>1, <2>2 DEF CachedAt
<1> QED
  BY <1>4, <1>5

LEMMA CachedResult == ASSUME MergeReady PROVE CachedAt(AllMerged, Len(packOrder))
<1> DEFINE n == Len(packOrder)
<1>0. existing \in Seq(Packs) /\ offerOrder \in Seq(Keys) /\ packOrder \in Seq(Keys) /\ n \in Nat
  BY DEF MergeReady
<1>1. PICK p \in [0..n -> MergeAcc] :
         /\ p[0] = Rest /\ p[n] = AllMerged
         /\ \A i \in 1..n : p[i] = MergeCached(p[i - 1], packOrder[i])
  BY <1>0, MergedStages
<1> DEFINE T == {i \in 0..n : CachedAt(p[i], i)}
<1>2. 0 \in T
  <2>1. \A k : Before(packOrder, k, 0) = {}
    BY <1>0, BeforeEnds
  <2>2. CachedAt(Rest, 0)
    BY <2>1, RestResult, OfferedResult DEF CachedAt
  <2> QED
    BY <1>0, <1>1, <2>2
<1>3. ASSUME NEW i \in 1..n, i - 1 \in T PROVE i \in T
  <2>1. CachedAt(p[i - 1], i - 1) /\ i \in 0..n
    BY <1>0, <1>3
  <2>2. CachedAt(MergeCached(p[i - 1], packOrder[i]), i)
    BY <1>0, <2>1, CachedAtStep
  <2> QED
    BY <1>1, <2>1, <2>2
<1>4. n \in T
  <2>1. n \in 0..n
    BY <1>0
  <2> HIDE DEF T, n
  <2> QED
    BY <1>0, <1>2, <1>3, <2>1, BoundedInduction
<1> QED
  BY <1>1, <1>4

KeysIn(seq) == [i \in DOMAIN seq |-> seq[i].key]

\* What Merge returns: every pack as often as it was received, in the order of the offer.
LEMMA MergeResult ==
    ASSUME MergeReady
    PROVE  /\ MergedPacks \in Seq(Packs)
           /\ \A k \in Keys \cup {Other} :
                Count(MergedPacks, k) =
                  IF k \in {key \in Keys : packs[key] # "none"} /\ Count(existing, k) = 0
                    THEN 1 ELSE Count(existing, k)
           /\ InOfferOrder(KeysIn(MergedPacks))
<1>0. existing \in Seq(Packs) /\ offerOrder \in Seq(Keys) /\ packOrder \in Seq(Keys)
  BY DEF MergeReady
<1>1. MergedPacks = AllMerged.out
  BY DEF MergedPacks, AllMerged
<1>2. CachedAt(AllMerged, Len(packOrder))
  BY CachedResult
<1>3. MergedPacks \in Seq(Packs) /\ Offered.out \in Seq(Packs)
  BY <1>0, <1>1, <1>2, OfferedType DEF CachedAt, MergeAcc
<1>4. ASSUME NEW k \in Keys \cup {Other}
      PROVE  Count(MergedPacks, k) =
               IF k \in {key \in Keys : packs[key] # "none"} /\ Count(existing, k) = 0
                 THEN 1 ELSE Count(existing, k)
  <2>0. Count(existing, k) = 0 <=> Keyed(existing, k) = {}
    BY <1>0, CountType
  <2>1. CASE k = Other
    BY <1>1, <1>2, <2>1, PackAssumption DEF CachedAt
  <2>2. CASE k \in Keys
    <3>1. Before(packOrder, k, Len(packOrder)) = Places(packOrder, k)
      BY <1>0, BeforeEnds
    <3>2. packs[k] # "none" => Places(packOrder, k) # {}
      BY <2>2 DEF MergeReady, Range, Places
    <3>3. k \in AllMerged.taken <=> packs[k] # "none"
      BY <1>2, <2>2, <3>1, <3>2 DEF CachedAt
    <3>4. Count(AllMerged.out, k) = IF k \in AllMerged.taken /\ Keyed(existing, k) = {}
                                      THEN 1 ELSE Count(existing, k)
      BY <1>2, <2>2 DEF CachedAt
    <3> QED
      BY <1>1, <2>0, <2>2, <3>3, <3>4
  <2> QED
    BY <2>1, <2>2
<1>5. InOfferOrder(KeysIn(MergedPacks))
  <2> DEFINE n == Len(Offered.out)
  <2> DEFINE keys == KeysIn(MergedPacks)
  <2>1. /\ n \in Nat /\ n <= Len(MergedPacks) /\ Len(keys) = Len(MergedPacks)
        /\ Len(MergedPacks) \in Nat
        /\ \A i \in 1..Len(MergedPacks) : keys[i] = MergedPacks[i].key
    BY <1>1, <1>2, <1>3 DEF KeysIn, CachedAt, Follows
  <2>2. \A i \in 1..n : MergedPacks[i] = Offered.out[i]
    BY <1>1, <1>2 DEF CachedAt, Follows
  <2>3. \A i \in (n + 1)..Len(MergedPacks) : MergedPacks[i].key \notin Range(offerOrder)
    BY <1>1, <1>2 DEF CachedAt, Follows
  <2>4. PICK f \in [1..n -> 1..Len(offerOrder)] :
          /\ \A i, j \in 1..n : i < j => f[i] < f[j]
          /\ \A i \in 1..n : Offered.out[i].key = offerOrder[f[i]]
    BY OfferedResult DEF OfferedAt, Picks
  <2> HIDE DEF n, keys
  <2>5. f \in [1..n -> DOMAIN offerOrder]
    BY <1>0
  <2>6. \A i \in 1..n : keys[i] = offerOrder[f[i]]
    BY <2>1, <2>2, <2>4
  <2>7. \A i \in (n + 1)..Len(keys) : keys[i] \notin Range(offerOrder)
    BY <2>1, <2>3
  <2>8. n \in 0..Len(keys)
    BY <2>1
  <2>9. InOfferOrder(keys)
    BY <2>4, <2>5, <2>6, <2>7, <2>8 DEF InOfferOrder
  <2> QED
    BY <2>9 DEF keys
<1> QED
  BY <1>3, <1>4, <1>5

-----------------------------------------------------------------------------
(* The archives among the events.                                          *)

\* Archives, for any sequence of events.
ArchivesOf(L) == FoldLeft(AppendArchive, << >>, L)

LEMMA ArchivesStages ==
    ASSUME NEW L \in Seq(Events)
    PROVE  \E p \in [0..Len(L) -> Seq(Events)] :
              /\ p[0] = << >> /\ p[Len(L)] = ArchivesOf(L)
              /\ \A i \in 1..Len(L) : p[i] = AppendArchive(p[i - 1], L[i])
<1> DEFINE n == Len(L)
<1> DEFINE Acc == Seq(Events)
<1> DEFINE base == << >>
<1> DEFINE step == [q \in Acc \X (1..n) |-> AppendArchive(q[1], L[q[2]])]
<1> DEFINE h == CHOOSE h : h = [s \in SUBSET (DOMAIN L) |->
                  IF s = {} THEN << >> ELSE AppendArchive(h[s \ {Max(s)}], L[Max(s)])]
<1>1. n \in Nat /\ DOMAIN L = 1..n /\ base \in Acc
  OBVIOUS
<1>2. \A a \in Acc, i \in 1..n : AppendArchive(a, L[i]) \in Acc
  BY DEF AppendArchive
<1> HIDE DEF n, Acc, base
<1>3. step \in [Acc \X (1..n) -> Acc]
  BY <1>1, <1>2
<1>4. \A a \in Acc, i \in 1..n : step[<<a, i>>] = AppendArchive(a, L[i])
  BY <1>1
<1>5. ArchivesOf(L) = h[DOMAIN L]
  BY DEF ArchivesOf, FoldLeft, MapThenFoldSet
<1> HIDE DEF step
<1>6. h = [s \in SUBSET (DOMAIN L) |->
             IF s = {} THEN base ELSE AppendArchive(h[s \ {Max(s)}], L[Max(s)])]
  <2>1. PICK g \in Iters(n, Acc, base, step) : TRUE
    BY <1>1, <1>3, IterExists
  <2>2. /\ g \in [SUBSET (1..n) -> Acc]
        /\ \A s \in SUBSET (1..n) :
             g[s] = IF s = {} THEN base ELSE step[<<g[s \ {Max(s)}], Max(s)>>]
    BY <2>1 DEF Iters
  <2>3. ASSUME NEW s \in SUBSET (1..n), s # {}
        PROVE  g[s] = AppendArchive(g[s \ {Max(s)}], L[Max(s)])
    <3>1. Max(s) \in 1..n
      BY <1>1, <2>3, MaxOfBounded
    <3>2. g[s \ {Max(s)}] \in Acc
      BY <2>2
    <3> QED
      BY <1>4, <2>2, <2>3, <3>1, <3>2
  <2>4. g = [s \in SUBSET (DOMAIN L) |->
               IF s = {} THEN base ELSE AppendArchive(g[s \ {Max(s)}], L[Max(s)])]
    BY <1>1, <2>2, <2>3
  <2> QED
    BY <2>4 DEF base
<1> HIDE DEF h
<1>7. h[{}] = base
  <2>1. {} \in SUBSET (DOMAIN L)
    OBVIOUS
  <2> QED
    BY <1>6, <2>1
<1>8. ASSUME NEW s \in SUBSET (1..n), s # {}, h[s \ {Max(s)}] \in Acc
      PROVE  h[s] = step[<<h[s \ {Max(s)}], Max(s)>>]
  <2>1. Max(s) \in 1..n
    BY <1>1, <1>8, MaxOfBounded
  <2>2. h[s] = AppendArchive(h[s \ {Max(s)}], L[Max(s)])
    BY <1>1, <1>6, <1>8
  <2> QED
    BY <1>4, <1>8, <2>1, <2>2
<1>9. IsIter(h, n, Acc, base, step)
  BY <1>1, <1>3, <1>7, <1>8 DEF IsIter
<1>10. PICK p \in Stages(n, Acc, base, step) : p[n] = h[1..n]
  BY <1>9, IterPrefixes
<1>11. p \in [0..n -> Acc] /\ p[0] = base
  BY <1>10 DEF Stages
<1>12. ASSUME NEW i \in 1..n PROVE p[i] = AppendArchive(p[i - 1], L[i])
  <2>1. i - 1 \in 0..n
    BY <1>1
  <2> QED
    BY <1>4, <1>10, <1>11, <2>1 DEF Stages
<1> QED
  BY <1>1, <1>5, <1>10, <1>11, <1>12 DEF n, Acc, base

LEMMA ArchivesType == ASSUME NEW L \in Seq(Events) PROVE ArchivesOf(L) \in Seq(Events)
<1>1. Len(L) \in 0..Len(L)
  OBVIOUS
<1> QED
  BY <1>1, ArchivesStages

LEMMA ArchivesEmpty == ArchivesOf(<< >>) = << >>
<1>1. << >> \in Seq(Events) /\ Len(<< >>) = 0
  OBVIOUS
<1> QED
  BY <1>1, ArchivesStages

LEMMA ArchivesAppend ==
    ASSUME NEW L \in Seq(Events), NEW e \in Events
    PROVE  ArchivesOf(Append(L, e)) = AppendArchive(ArchivesOf(L), e)
<1> DEFINE n == Len(L)
<1> DEFINE M == Append(L, e)
<1>1. /\ n \in Nat /\ M \in Seq(Events) /\ Len(M) = n + 1
      /\ M[n + 1] = e /\ \A i \in 1..n : M[i] = L[i]
  OBVIOUS
<1> HIDE DEF M
<1>2. PICK p \in [0..n -> Seq(Events)] :
         /\ p[0] = << >> /\ p[n] = ArchivesOf(L)
         /\ \A i \in 1..n : p[i] = AppendArchive(p[i - 1], L[i])
  BY ArchivesStages
<1>3. PICK q \in [0..(n + 1) -> Seq(Events)] :
         /\ q[0] = << >> /\ q[n + 1] = ArchivesOf(M)
         /\ \A i \in 1..(n + 1) : q[i] = AppendArchive(q[i - 1], M[i])
  <2>1. \E q \in [0..Len(M) -> Seq(Events)] :
           /\ q[0] = << >> /\ q[Len(M)] = ArchivesOf(M)
           /\ \A i \in 1..Len(M) : q[i] = AppendArchive(q[i - 1], M[i])
    BY <1>1, ArchivesStages
  <2> QED
    BY <1>1, <2>1
<1> DEFINE T == {i \in 0..n : p[i] = q[i]}
<1>4. 0 \in T
  BY <1>1, <1>2, <1>3
<1>5. ASSUME NEW i \in 1..n, i - 1 \in T PROVE i \in T
  <2>1. i \in 1..(n + 1) /\ i \in 0..n /\ M[i] = L[i] /\ p[i - 1] = q[i - 1]
    BY <1>1, <1>5
  <2> QED
    BY <1>2, <1>3, <2>1
<1>6. n \in T
  <2>1. n \in 0..n
    BY <1>1
  <2> HIDE DEF T, n
  <2> QED
    BY <1>1, <1>4, <1>5, <2>1, BoundedInduction
<1>7. n + 1 \in 1..(n + 1) /\ (n + 1) - 1 = n
  BY <1>1
<1>8. q[n + 1] = AppendArchive(q[n], e)
  BY <1>1, <1>3, <1>7
<1> QED
  BY <1>2, <1>3, <1>6, <1>8 DEF M

LEMMA ArchivesKept ==
    ASSUME NEW L \in Seq(Events), NEW e \in Events, e.kind # "archive"
    PROVE  ArchivesOf(Append(L, e)) = ArchivesOf(L)
BY ArchivesAppend DEF AppendArchive

LEMMA ArchivesIs == Archives = ArchivesOf(log) /\ Archives' = ArchivesOf(log')
BY DEF Archives, ArchivesOf, AppendArchive, FoldLeft, MapThenFoldSet

-----------------------------------------------------------------------------
(* The offer and the cache.                                                *)

\* CommitDownloads: what was got is in the order.
LEMMA GotOrdered ==
    ASSUME TypeOK
    PROVE  LET order == FoldLeft(AppendGot, packOrder, jobs) IN
           /\ Range(packOrder) \subseteq Range(order) /\ Got \subseteq Range(order)
           /\ jobs = << >> => order = packOrder
<1> DEFINE n == Len(jobs)
<1> DEFINE order == FoldLeft(AppendGot, packOrder, jobs)
<1>0. jobs \in Seq(Keys) /\ packOrder \in Seq(Keys) /\ n \in Nat /\ n \in 0..n /\ DOMAIN jobs = 1..n
  BY DEF TypeOK
<1>1. PICK p \in [0..n -> Seq(Keys)] :
         /\ p[0] = packOrder /\ p[n] = order
         /\ \A i \in 1..n : p[i] = AppendGot(p[i - 1], jobs[i])
  BY <1>0, AppendGotStages
<1> HIDE DEF order
<1> DEFINE T == {i \in 0..n : /\ Range(packOrder) \subseteq Range(p[i])
                              /\ \A j \in 1..i : jobs[j] \in Got => jobs[j] \in Range(p[i])}
<1>2. 0 \in T
  BY <1>0, <1>1
<1>3. ASSUME NEW i \in 1..n, i - 1 \in T PROVE i \in T
  <2>1. /\ i \in 0..n /\ i - 1 \in 0..n /\ p[i - 1] \in Seq(Keys) /\ jobs[i] \in Keys
        /\ Range(packOrder) \subseteq Range(p[i - 1])
        /\ \A j \in 1..(i - 1) : jobs[j] \in Got => jobs[j] \in Range(p[i - 1])
    BY <1>0, <1>3
  <2> DEFINE s == p[i - 1]
  <2>2. /\ Range(s) \subseteq Range(AppendGot(s, jobs[i]))
        /\ jobs[i] \in Got => jobs[i] \in Range(AppendGot(s, jobs[i]))
    <3>1. s \in Seq(Keys)
      BY <2>1
    <3> HIDE DEF s
    <3>2. Range(s) \subseteq Range(Append(s, jobs[i])) /\ jobs[i] \in Range(Append(s, jobs[i]))
      <4> DEFINE t == Append(s, jobs[i])
      <4>1. /\ DOMAIN s = 1..Len(s) /\ DOMAIN t = 1..(Len(s) + 1) /\ Len(s) \in Nat
            /\ t[Len(s) + 1] = jobs[i] /\ \A j \in 1..Len(s) : t[j] = s[j]
        BY <2>1, <3>1
      <4> HIDE DEF t
      <4>2. Len(s) + 1 \in DOMAIN t /\ DOMAIN s \subseteq DOMAIN t
        BY <4>1
      <4>3. Range(s) \subseteq Range(t) /\ jobs[i] \in Range(t)
        BY <4>1, <4>2 DEF Range
      <4> QED
        BY <4>3 DEF t
    <3> QED
      BY <3>2 DEF AppendGot
  <2>3. p[i] = AppendGot(p[i - 1], jobs[i])
    BY <1>1
  <2>4. \A j \in 1..i : j \in 1..(i - 1) \/ j = i
    BY <1>0
  <2> QED
    BY <2>1, <2>2, <2>3, <2>4
<1>4. n \in T
  <2> HIDE DEF T, n
  <2> QED
    BY <1>0, <1>2, <1>3, BoundedInduction
<1>5. Range(packOrder) \subseteq Range(order) /\ \A j \in 1..n : jobs[j] \in Got => jobs[j] \in Range(order)
  BY <1>1, <1>4
<1>6. Got \subseteq Range(order)
  <2>1. \A k \in Got : \E j \in 1..n : k = jobs[j]
    BY <1>0 DEF Got
  <2> QED
    BY <1>5, <2>1
<1>7. jobs = << >> => order = packOrder
  BY <1>0, <1>1
<1> QED
  BY <1>5, <1>6, <1>7 DEF order

LEMMA NoNewJobs == NewJobs(<< >>) = << >>
<1>1. << >> \in Seq(Entries) /\ Len(<< >>) = 0
  OBVIOUS
<1> QED
  BY <1>1, NewJobsStages

\* HandleInfo: an entry of the list is one hit or one request at most.
RoomAt(acc, m) ==
    /\ acc \in HandleAcc
    /\ \A k \in Keys : Count(acc.hits, k) + (IF k \in acc.asked THEN 1 ELSE 0)
                         <= Cardinality(Before(KeysOf(info), k, m))

LEMMA RoomAtStep ==
    ASSUME TypeOK, NEW m \in 1..Len(info), NEW acc, RoomAt(acc, m - 1)
    PROVE  RoomAt(Handle(acc, info[m]), m)
<1> DEFINE e == info[m]
<1> DEFINE new == Handle(acc, e)
<1> SUFFICES RoomAt(new, m)
  OBVIOUS
<1>0. info \in Seq(Entries)
  BY InfoType
<1>1. e \in Entries /\ e.key \in Keys /\ KeysOf(info)[m] = e.key
  <2>1. e \in Entries
    BY <1>0
  <2> QED
    BY <1>0, <2>1 DEF KeysOf, Entries
<1>2. KeysOf(info) \in Seq(Keys) /\ Len(KeysOf(info)) = Len(info)
  <2>1. \A i \in DOMAIN info : info[i] \in Entries
    BY <1>0
  <2>2. \A i \in DOMAIN info : info[i].key \in Keys
    BY <2>1 DEF Entries
  <2> QED
    BY <1>0, <2>2 DEF KeysOf
<1>3. \A k : /\ Cardinality(Before(KeysOf(info), k, m)) =
                  Cardinality(Before(KeysOf(info), k, m - 1)) + (IF e.key = k THEN 1 ELSE 0)
             /\ Cardinality(Before(KeysOf(info), k, m - 1)) \in Nat
  <2> TAKE k
  <2>1. m \in 1..Len(KeysOf(info))
    BY <1>2
  <2> HIDE DEF e
  <2> QED
    BY <1>1, <1>2, <2>1, BeforeStep
<1> HIDE DEF e
<1>4. acc \in HandleAcc /\ acc.hits \in Seq(Packs) /\ acc.asked \in SUBSET Keys
      /\ acc = [hits |-> acc.hits, asked |-> acc.asked]
  BY DEF RoomAt, HandleAcc
<1>5. new \in HandleAcc
  BY <1>1, <1>4, HandleType
<1>6. \A k : Count(acc.hits, k) \in Nat
  BY <1>4, CountType
<1>7. \A k \in Keys : Count(acc.hits, k) + (IF k \in acc.asked THEN 1 ELSE 0)
                         <= Cardinality(Before(KeysOf(info), k, m - 1))
  BY DEF RoomAt
<1>8. CASE new = acc
  <2> HIDE DEF new
  <2>1. \A k \in Keys : Count(new.hits, k) + (IF k \in new.asked THEN 1 ELSE 0)
                         <= Cardinality(Before(KeysOf(info), k, m))
    BY <1>3, <1>6, <1>7, <1>8
  <2> QED
    BY <1>5, <2>1 DEF RoomAt
<1>9. CASE new = [acc EXCEPT !.hits = Append(@, Cached(e.key))]
  <2>1. new.hits = Append(acc.hits, Cached(e.key)) /\ new.asked = acc.asked
    BY <1>4, <1>9
  <2>2. Cached(e.key) \in Packs /\ Cached(e.key).key = e.key
    BY <1>1 DEF Cached, Packs
  <2> HIDE DEF new
  <2>3. \A k : Count(new.hits, k) = Count(acc.hits, k) + (IF e.key = k THEN 1 ELSE 0)
    BY <1>4, <2>1, <2>2, CountAppend
  <2>4. \A k \in Keys : Count(new.hits, k) + (IF k \in new.asked THEN 1 ELSE 0)
                         <= Cardinality(Before(KeysOf(info), k, m))
    BY <1>3, <1>6, <1>7, <2>1, <2>3
  <2> QED
    BY <1>5, <2>4 DEF RoomAt
<1>10. CASE new = [acc EXCEPT !.asked = @ \cup {e.key}]
  <2>1. new.hits = acc.hits /\ new.asked = acc.asked \cup {e.key}
    BY <1>4, <1>10
  <2> HIDE DEF new
  <2>2. \A k \in Keys : Count(new.hits, k) + (IF k \in new.asked THEN 1 ELSE 0)
                         <= Cardinality(Before(KeysOf(info), k, m))
    BY <1>3, <1>6, <1>7, <2>1
  <2> QED
    BY <1>5, <2>2 DEF RoomAt
<1> QED
  BY <1>8, <1>9, <1>10 DEF Handle

LEMMA HandledRoom ==
    ASSUME TypeOK
    PROVE  /\ Handled \in HandleAcc
           /\ \A k \in Keys : Count(Handled.hits, k) + (IF k \in Handled.asked THEN 1 ELSE 0)
                                <= Cardinality(Places(KeysOf(info), k))
           /\ info = << >> => Handled = [hits |-> << >>, asked |-> {}]
<1> DEFINE n == Len(info)
<1>0. info \in Seq(Entries) /\ n \in Nat /\ n \in 0..n
  BY InfoType
<1>1. PICK p \in [0..n -> HandleAcc] :
         /\ p[0] = [hits |-> << >>, asked |-> {}] /\ p[n] = Handled
         /\ \A i \in 1..n : p[i] = Handle(p[i - 1], info[i])
  BY <1>0, HandledStages
<1>k. KeysOf(info) \in Seq(Keys) /\ Len(KeysOf(info)) = n
  <2>1. \A i \in DOMAIN info : info[i] \in Entries
    BY <1>0
  <2>2. \A i \in DOMAIN info : info[i].key \in Keys
    BY <2>1 DEF Entries
  <2> QED
    BY <1>0, <2>2 DEF KeysOf
<1> DEFINE T == {i \in 0..n : RoomAt(p[i], i)}
<1>2. 0 \in T
  <2>1. 0 \in 0..n
    BY <1>0
  <2>2. p[0] \in HandleAcc /\ p[0].hits = << >> /\ p[0].asked = {}
    <3>1. p[0] \in HandleAcc
      BY <1>1, <2>1
    <3> QED
      BY <1>1, <3>1
  <2>3. RoomAt(p[0], 0)
    BY <1>k, <2>2, CountEmpty, BeforeEnds DEF RoomAt
  <2> QED
    BY <2>1, <2>3
<1>3. ASSUME NEW i \in 1..n, i - 1 \in T PROVE i \in T
  <2>1. RoomAt(p[i - 1], i - 1) /\ i \in 0..n
    BY <1>0, <1>3
  <2>2. RoomAt(Handle(p[i - 1], info[i]), i)
    BY <1>0, <2>1, RoomAtStep
  <2> QED
    BY <1>1, <2>1, <2>2
<1>4. n \in T
  <2> HIDE DEF T, n
  <2> QED
    BY <1>0, <1>2, <1>3, BoundedInduction
<1>5. RoomAt(Handled, n)
  BY <1>1, <1>4
<1>6. \A k : Before(KeysOf(info), k, n) = Places(KeysOf(info), k)
  BY <1>k, BeforeEnds
<1>7. info = << >> => Handled = [hits |-> << >>, asked |-> {}]
  BY <1>1
<1> QED
  BY <1>5, <1>6, <1>7 DEF RoomAt

-----------------------------------------------------------------------------
(* What is merged is recorded.                                             *)

\* The caller is past Merge; the number of archives RecordResourcePacks has recorded.
AfterMerge == mpc \notin {"dial", "merge", "failed"}
Recorded == IF Deriving THEN next ELSE next - 1

\* The merged list is what the two lists hold, and stays so.
MergedInv ==
    AfterMerge =>
        /\ \A k \in Keys \cup {Other} :
              Count(merged, k) = IF k \in held /\ Count(existing, k) = 0
                                    THEN 1 ELSE Count(existing, k)
        /\ InOfferOrder(KeysIn(merged))
        /\ offerOrder = << >> => merged = << >>

\* The archives recorded are the first of the merged list, and the client's list is the same.
RecordedInv ==
    /\ mpc \in {"dial", "merge"} => next = 1
    /\ mpc # "failed" =>
        /\ Len(Archives) = Recorded
        /\ AfterMerge => /\ Recorded <= Len(merged)
                         /\ \A i \in 1..Recorded : Archives[i].key = merged[i].key
    /\ mpc \in {"prepare", "connect", "complete", "close", "returned"} => Recorded = Len(merged)
    /\ mpc = "prepare" => ~mode.packsOnly
    /\ mpc \in {"connect", "complete", "close", "returned"} =>
         /\ Len(delivery) = Len(merged)
         /\ \A i \in 1..Len(merged) :
               delivery[i].key = merged[i].key /\ (delivery[i].http => mode.packsOnly)

\* The inductive invariant of ArchivesExact.
ExchangeInv == DerivedInv /\ CacheInv /\ RoomInv /\ MergedInv /\ RecordedInv

LEMMA OfferTypes ==
    ASSUME NEW offer \in Offers
    PROVE  offer \in Seq(Entries) /\ KeysOf(offer) \in Seq(Keys) /\ (KeysOf(offer) = << >> => offer = << >>)
<1>1. offer \in Seq(Entries)
  BY PackAssumption DEF Entries
<1>2. \A i \in DOMAIN offer : offer[i] \in Entries
  BY <1>1
<1>3. \A i \in DOMAIN offer : offer[i].key \in Keys
  BY <1>2 DEF Entries
<1>4. KeysOf(offer) \in Seq(Keys) /\ Len(KeysOf(offer)) = Len(offer)
  BY <1>1, <1>3 DEF KeysOf
<1> QED
  BY <1>1, <1>4

LEMMA PlacesType ==
    ASSUME NEW order \in Seq(Keys), NEW k PROVE Cardinality(Places(order, k)) \in Nat
<1>1. Places(order, k) \in SUBSET (1..Len(order)) /\ Len(order) \in Nat
  BY DEF Places
<1>2. IsFiniteSet(1..Len(order))
  BY <1>1, FS_Interval
<1>3. IsFiniteSet(Places(order, k))
  BY <1>1, <1>2, FS_Subset
<1> QED
  BY <1>3, FS_CardinalityType

\* Each part is kept by every step.
LEMMA CacheStep == ASSUME ExchangeInv, [Next]_vars PROVE CacheInv'
<1>0. TypeOK /\ CacheInv
  BY DEF ExchangeInv, DerivedInv
<1>1. ASSUME NEW offer \in Offers, Observe(offer) PROVE CacheInv'
  <2>1. /\ rpc = "idle" /\ info' = offer /\ jobs' = NewJobs(offer)
        /\ rpc' = (IF jobs' = << >> THEN "handling" ELSE "fetching")
        /\ offerOrder' = (IF offerOrder = << >> THEN KeysOf(offer) ELSE offerOrder)
        /\ UNCHANGED <<packs, packOrder, conn, handled, existing, chunks, mpc>>
    BY <1>1 DEF Observe, Reading
  <2>2. KeysOf(offer) = << >> => offer = << >>
    BY OfferTypes
  <2>3. offerOrder' = << >> => jobs' = << >> /\ offerOrder = << >>
    BY <2>1, <2>2, NoNewJobs
  <2>4. rpc' # "idle" /\ (~handled => offerOrder' = KeysOf(info'))
    BY <1>0, <2>1 DEF CacheInv, KeysOf
  <2>5. KeysOf(info)' = KeysOf(info')
    BY DEF KeysOf
  <2> QED
    BY <1>0, <2>1, <2>3, <2>4, <2>5 DEF CacheInv
<1>2. CASE ObserveMalformed \/ IgnoreInfo \/ HandleStack
  <2>1. /\ UNCHANGED <<packs, packOrder, offerOrder, jobs, handled, existing, chunks, mpc>>
        /\ (rpc' = rpc /\ info' = info) \/ handled
        /\ conn' = conn \/ (handled /\ \A k \in Keys : chunks[k] # "asked")
    BY <1>2 DEF ObserveMalformed, IgnoreInfo, HandleStack
  <2> QED
    BY <1>0, <2>1 DEF CacheInv, KeysOf
<1>3. CASE CommitDownloads
  <2>1. /\ rpc = "fetching" /\ rpc' = "handling" /\ jobs' = << >>
        /\ packs' = [k \in Keys |-> IF k \in Got THEN "http" ELSE packs[k]]
        /\ packOrder' = FoldLeft(AppendGot, packOrder, jobs)
        /\ UNCHANGED <<offerOrder, info, conn, handled, existing, chunks, mpc>>
    BY <1>3 DEF CommitDownloads
  <2>2. Range(packOrder) \subseteq Range(packOrder') /\ Got \subseteq Range(packOrder')
        /\ (jobs = << >> => packOrder' = packOrder)
    BY <1>0, <2>1, GotOrdered
  <2>3. \A k \in Keys : packs'[k] # "none" => k \in Range(packOrder')
    BY <1>0, <2>1, <2>2 DEF CacheInv
  <2>4. Range(packOrder)' = Range(packOrder')
    BY DEF Range
  <2> QED
    BY <1>0, <2>1, <2>2, <2>3, <2>4 DEF CacheInv, KeysOf
<1>4. CASE HandleInfo
  <2>1. /\ rpc = "handling" /\ ~handled /\ handled' = TRUE
        /\ existing' = Handled.hits
        /\ chunks' = [k \in Keys |-> IF k \in Handled.asked THEN "asked" ELSE "none"]
        /\ UNCHANGED <<packs, packOrder, offerOrder, jobs, conn, mpc>>
    BY <1>4 DEF HandleInfo
  <2>2. offerOrder = << >> => existing' = << >> /\ \A k \in Keys : chunks'[k] = "none"
    <3>1. ASSUME offerOrder = << >> PROVE info = << >>
      <4>1. KeysOf(info) = << >> /\ info \in Seq(Entries)
        BY <1>0, <2>1, <3>1, InfoType DEF CacheInv
      <4>2. Len(KeysOf(info)) = Len(info)
        BY <4>1 DEF KeysOf
      <4> QED
        BY <4>1, <4>2
    <3>2. ASSUME offerOrder = << >> PROVE Handled.hits = << >> /\ Handled.asked = {}
      <4>1. Handled = [hits |-> << >>, asked |-> {}]
        BY <1>0, <3>1, <3>2, HandledRoom
      <4> QED
        BY <4>1
    <3> QED
      BY <2>1, <3>2
  <2>3. conn # "ready" /\ mpc \in {"dial", "failed"}
    BY <1>0, <2>1 DEF CacheInv
  <2> QED
    BY <1>0, <2>1, <2>2, <2>3 DEF CacheInv
<1>5. CASE Download
  <2>1. UNCHANGED <<packs, packOrder, offerOrder, jobs, handled, existing, chunks, mpc, rpc, info, conn>>
    BY <1>5 DEF Download, download, downloadFails
  <2> QED
    BY <1>0, <2>1 DEF CacheInv, KeysOf
<1>6. ASSUME NEW k \in Keys, ChunkArrives(k) PROVE CacheInv'
  <2>1. /\ chunks[k] = "asked"
        /\ UNCHANGED <<packs, packOrder, offerOrder, jobs, handled, mpc, rpc, info, conn>>
        /\ \E v \in {"arrived", "settled", "broken"} : chunks' = [chunks EXCEPT ![k] = v]
    BY <1>6 DEF ChunkArrives
  <2>2. handled /\ offerOrder # << >> /\ conn # "ready" /\ mpc \in {"dial", "failed"}
    BY <1>0, <2>1 DEF CacheInv
  <2> QED
    BY <1>0, <2>1, <2>2 DEF CacheInv
<1>7. ASSUME NEW k \in Keys, Store(k) PROVE CacheInv'
  <2>1. /\ chunks[k] = "arrived"
        /\ UNCHANGED <<offerOrder, jobs, handled, existing, mpc, rpc, info, conn>>
        /\ chunks' = [chunks EXCEPT ![k] = "settled"]
        /\ packs' = [packs EXCEPT ![k] = "chunk"]
        /\ packOrder' = (IF packs[k] = "none" THEN Append(packOrder, k) ELSE packOrder)
    BY <1>7 DEF Store
  <2>2. handled /\ offerOrder # << >>
    BY <1>0, <2>1 DEF CacheInv
  <2>3. Range(packOrder) \subseteq Range(packOrder') /\ k \in Range(packOrder')
    <3>1. CASE packs[k] = "none"
      <4> DEFINE s == packOrder
      <4> DEFINE t == Append(s, k)
      <4>1. s \in Seq(Keys) /\ packOrder' = t
        BY <1>0, <2>1, <3>1 DEF TypeOK
      <4>2. /\ DOMAIN s = 1..Len(s) /\ DOMAIN t = 1..(Len(s) + 1) /\ Len(s) \in Nat
            /\ t[Len(s) + 1] = k /\ \A j \in 1..Len(s) : t[j] = s[j]
        BY <4>1
      <4> HIDE DEF t, s
      <4>3. Len(s) + 1 \in DOMAIN t /\ DOMAIN s \subseteq DOMAIN t
        BY <4>2
      <4>4. Range(s) \subseteq Range(t) /\ k \in Range(t)
        BY <4>2, <4>3 DEF Range
      <4> QED
        BY <4>1, <4>4 DEF s
    <3>2. CASE packs[k] # "none"
      BY <1>0, <2>1, <3>2 DEF CacheInv
    <3> QED
      BY <3>1, <3>2
  <2>4. \A c \in Keys : packs'[c] # "none" => c \in Range(packOrder')
    BY <1>0, <2>1, <2>3 DEF CacheInv, TypeOK
  <2>5. \A c \in Keys : chunks'[c] = "asked" => chunks[c] = "asked"
    BY <1>0, <2>1 DEF TypeOK
  <2>6. Range(packOrder)' = Range(packOrder')
    BY DEF Range
  <2> QED
    BY <1>0, <2>1, <2>2, <2>4, <2>5, <2>6 DEF CacheInv
<1>8. ASSUME NEW k \in Keys, StoreRefused(k) PROVE CacheInv'
  <2>1. /\ chunks[k] = "arrived"
        /\ UNCHANGED <<packs, packOrder, offerOrder, jobs, handled, existing, mpc, rpc, info, conn>>
        /\ chunks' = [chunks EXCEPT ![k] = "settled"]
    BY <1>8 DEF StoreRefused
  <2>2. handled /\ offerOrder # << >>
    BY <1>0, <2>1 DEF CacheInv
  <2>3. \A c \in Keys : chunks'[c] = "asked" => chunks[c] = "asked"
    BY <1>0, <2>1 DEF TypeOK
  <2> QED
    BY <1>0, <2>1, <2>2, <2>3 DEF CacheInv
<1>9. CASE Main \/ UNCHANGED vars
  <2>1. UNCHANGED <<packs, packOrder, offerOrder, jobs, handled, existing, chunks, rpc, info>>
    BY <1>9 DEF Main, vars, DialReturns, DialFails, Merge, RecordArchive,
       RecordArchiveFails, RecordManifests,
       RecordDecrypted, AddLimitation, RecordDecryptFailure, DeriveFails, AllRecorded,
       Prepare,
       PrepareFails, Connected, ConnectedFails, FetchComplete, CloseExchange,
       closeAfterUpstreamError
  <2>2. \/ mpc' = "failed" /\ conn' \in {conn, "closed"}
        \/ mpc' = mpc /\ conn' = conn
        \/ (conn = "ready" \/ mpc \notin {"dial", "failed"})
    BY <1>9 DEF Main, vars, DialReturns, DialFails, Merge, RecordArchive,
       RecordArchiveFails, RecordManifests,
       RecordDecrypted, AddLimitation, RecordDecryptFailure, DeriveFails, AllRecorded,
       Prepare,
       PrepareFails, Connected, ConnectedFails, FetchComplete, CloseExchange,
       closeAfterUpstreamError
  <2> QED
    BY <1>0, <2>1, <2>2 DEF CacheInv, KeysOf
<1>10. CASE Transport
  <2>1. conn' \in {"dialing", "closed"}
    BY <1>10 DEF Transport, OpenConnection, ConnectionEnds
  <2>2. UNCHANGED <<packs, packOrder, offerOrder, jobs, handled, existing, chunks, rpc, info, mpc>>
    BY <1>10, TransportKeeps DEF cacheVars, readerVars, connVars, mainVars
  <2> QED
    BY <1>0, <2>1, <2>2 DEF CacheInv, KeysOf
<1> QED
  BY <1>1, <1>2, <1>3, <1>4, <1>5, <1>6, <1>7, <1>8, <1>9, <1>10 DEF Next, Reader, Chunk

LEMMA RoomStep == ASSUME ExchangeInv, [Next]_vars PROVE RoomInv'
<1>0. TypeOK /\ CacheInv /\ RoomInv
  BY DEF ExchangeInv, DerivedInv
<1>s. ASSUME UNCHANGED <<existing, offerOrder>>, \A k \in Keys : chunks'[k] = "asked" => chunks[k] = "asked"
      PROVE RoomInv'
  <2> SUFFICES ASSUME NEW k \in Keys
               PROVE  Count(existing, k) + (IF chunks'[k] = "asked" THEN 1 ELSE 0)
                        <= Cardinality(Places(offerOrder, k))
    BY <1>s DEF RoomInv, Count, Places
  <2>1. Count(existing, k) \in Nat
    BY <1>0, CountType DEF TypeOK
  <2>2. Cardinality(Places(offerOrder, k)) \in Nat
    BY <1>0, PlacesType DEF TypeOK
  <2>3. Count(existing, k) + (IF chunks[k] = "asked" THEN 1 ELSE 0) <= Cardinality(Places(offerOrder, k))
    BY <1>0 DEF RoomInv
  <2> QED
    BY <1>s, <2>1, <2>2, <2>3
<1>1. ASSUME NEW offer \in Offers, Observe(offer) PROVE RoomInv'
  <2>1. /\ offerOrder' = (IF offerOrder = << >> THEN KeysOf(offer) ELSE offerOrder)
        /\ UNCHANGED <<existing, chunks>>
    BY <1>1 DEF Observe
  <2>2. CASE offerOrder = << >>
    <3>1. existing' = << >> /\ \A k \in Keys : chunks'[k] = "none"
      BY <1>0, <2>1, <2>2 DEF CacheInv
    <3>2. \A k \in Keys : Cardinality(Places(offerOrder', k)) \in Nat
      <4> TAKE k \in Keys
      <4>0. offerOrder' \in Seq(Keys)
        BY <2>1, <2>2, OfferTypes
      <4> QED
        BY <4>0, PlacesType
    <3>3. \A k \in Keys : Count(existing', k) = 0
      BY <3>1, CountEmpty
    <3>4. \A k \in Keys : Count(existing, k)' = Count(existing', k)
                          /\ Cardinality(Places(offerOrder, k))' = Cardinality(Places(offerOrder', k))
      BY DEF Count, Places
    <3> QED
      BY <3>1, <3>2, <3>3, <3>4 DEF RoomInv
  <2>3. CASE offerOrder # << >>
    BY <1>s, <2>1, <2>3
  <2> QED
    BY <2>2, <2>3
<1>2. CASE HandleInfo
  <2>1. /\ rpc = "handling" /\ ~handled
        /\ existing' = Handled.hits
        /\ chunks' = [k \in Keys |-> IF k \in Handled.asked THEN "asked" ELSE "none"]
        /\ offerOrder' = offerOrder
    BY <1>2 DEF HandleInfo
  <2>2. offerOrder = KeysOf(info)
    BY <1>0, <2>1 DEF CacheInv
  <2>3. \A k \in Keys : Count(Handled.hits, k) + (IF k \in Handled.asked THEN 1 ELSE 0)
                          <= Cardinality(Places(offerOrder, k))
    BY <1>0, <2>2, HandledRoom
  <2>4. \A k \in Keys : Count(existing, k)' = Count(Handled.hits, k)
                        /\ Cardinality(Places(offerOrder, k))' = Cardinality(Places(offerOrder, k))
                        /\ (chunks'[k] = "asked" <=> k \in Handled.asked)
    BY <2>1 DEF Count, Places
  <2> QED
    BY <2>3, <2>4 DEF RoomInv
<1>3. ASSUME NEW k \in Keys, ChunkArrives(k) PROVE RoomInv'
  <2>1. chunks[k] = "asked" /\ offerOrder' = offerOrder
    BY <1>3 DEF ChunkArrives
  <2>2. CASE existing' = existing
    <3>1. \A c \in Keys : chunks'[c] = "asked" => chunks[c] = "asked"
      BY <1>0, <1>3 DEF ChunkArrives, TypeOK
    <3> QED
      BY <1>s, <2>1, <2>2, <3>1
  <2>3. ASSUME NEW key \in {k, Other}, existing' = Append(existing, [key |-> key, http |-> FALSE]),
               chunks'[k] # "asked", \A c \in Keys : c # k => chunks'[c] = chunks[c]
        PROVE  RoomInv'
    <3> SUFFICES ASSUME NEW c \in Keys
                 PROVE  Count(existing', c) + (IF chunks'[c] = "asked" THEN 1 ELSE 0)
                          <= Cardinality(Places(offerOrder, c))
      BY <2>1 DEF RoomInv, Count, Places
    <3>1. existing \in Seq(Packs) /\ [key |-> key, http |-> FALSE] \in Packs
      BY <1>0 DEF TypeOK, Packs
    <3>2. Count(existing', c) = Count(existing, c) + (IF key = c THEN 1 ELSE 0)
      BY <2>3, <3>1, CountAppend
    <3>3. Count(existing, c) \in Nat
      BY <3>1, CountType
    <3>4. Count(existing, c) + (IF chunks[c] = "asked" THEN 1 ELSE 0) <= Cardinality(Places(offerOrder, c))
      BY <1>0 DEF RoomInv
    <3>5. Other # c
      BY PackAssumption
    <3>6. CASE c = k
      <4>1. Count(existing, c) + 1 <= Cardinality(Places(offerOrder, c))
        BY <2>1, <3>4, <3>6
      <4>2. Cardinality(Places(offerOrder, c)) \in Nat
        BY <1>0, PlacesType DEF TypeOK
      <4> QED
        BY <2>3, <3>2, <3>3, <3>6, <4>1, <4>2
    <3>7. CASE c # k
      BY <2>3, <3>2, <3>3, <3>4, <3>5, <3>7
    <3> QED
      BY <3>6, <3>7
  <2>4. CASE existing' # existing
    <3>1. PICK key \in {k, Other} : existing' = Append(existing, [key |-> key, http |-> FALSE])
      BY <1>3, <2>4 DEF ChunkArrives
    <3>2. chunks'[k] # "asked" /\ \A c \in Keys : c # k => chunks'[c] = chunks[c]
      BY <1>0, <1>3 DEF ChunkArrives, TypeOK
    <3> QED
      BY <2>3, <3>1, <3>2
  <2> QED
    BY <2>2, <2>4
<1>4. ASSUME NEW k \in Keys, Store(k) \/ StoreRefused(k) PROVE RoomInv'
  <2>1. UNCHANGED <<existing, offerOrder>> /\ chunks' = [chunks EXCEPT ![k] = "settled"]
    BY <1>4 DEF Store, StoreRefused
  <2>2. \A c \in Keys : chunks'[c] = "asked" => chunks[c] = "asked"
    BY <1>0, <2>1 DEF TypeOK
  <2> QED
    BY <1>s, <2>1, <2>2
<1>5. CASE ObserveMalformed \/ CommitDownloads \/ IgnoreInfo \/ HandleStack \/ Download
  <2>1. UNCHANGED <<existing, offerOrder, chunks>>
    BY <1>5 DEF ObserveMalformed, CommitDownloads, IgnoreInfo, HandleStack, Download,
       download, downloadFails
  <2> QED
    BY <1>s, <2>1
<1>6. CASE Main \/ UNCHANGED vars
  <2>1. UNCHANGED <<existing, offerOrder, chunks>>
    BY <1>6 DEF Main, vars, DialReturns, DialFails, Merge, RecordArchive,
       RecordArchiveFails, RecordManifests,
       RecordDecrypted, AddLimitation, RecordDecryptFailure, DeriveFails, AllRecorded,
       Prepare,
       PrepareFails, Connected, ConnectedFails, FetchComplete, CloseExchange,
       closeAfterUpstreamError
  <2> QED
    BY <1>s, <2>1
<1>7. CASE Transport
  BY <1>s, <1>7, TransportKeeps DEF cacheVars, connVars
<1> QED
  BY <1>1, <1>2, <1>3, <1>4, <1>5, <1>6, <1>7 DEF Next, Reader, Chunk

\* InOfferOrder as a relation of two values.
InOrder(keys, order) ==
    \E n \in 0..Len(keys) :
        /\ \E f \in [1..n -> DOMAIN order] :
              /\ \A i, j \in 1..n : i < j => f[i] < f[j]
              /\ \A i \in 1..n : keys[i] = order[f[i]]
        /\ \A i \in (n + 1)..Len(keys) : keys[i] \notin Range(order)

LEMMA InOrderIs ==
    /\ \A keys : InOfferOrder(keys) <=> InOrder(keys, offerOrder)
    /\ InOfferOrder(KeysIn(merged))' <=> InOrder(KeysIn(merged'), offerOrder')
<1>1. \A keys : InOfferOrder(keys) <=> InOrder(keys, offerOrder)
  BY DEF InOfferOrder, InOrder
<1>2. InOfferOrder(KeysIn(merged))' <=> InOrder(KeysIn(merged'), offerOrder')
  BY DEF InOfferOrder, InOrder, KeysIn, Range
<1> QED
  BY <1>1, <1>2

\* What Merge's result is measured by does not change any more.
LEMMA MergedStill ==
    ASSUME ExchangeInv, UNCHANGED <<merged, held>>, AfterMerge' => AfterMerge,
           AfterMerge => existing' = existing,
           offerOrder # << >> => offerOrder' = offerOrder
    PROVE  MergedInv'
<1> SUFFICES ASSUME AfterMerge, AfterMerge' PROVE MergedInv'
  BY DEF MergedInv
<1>0. MergedInv
  BY DEF ExchangeInv
<1>1. \A k \in Keys \cup {Other} :
         Count(merged, k)' = IF k \in held' /\ Count(existing, k)' = 0 THEN 1 ELSE Count(existing, k)'
  BY <1>0 DEF MergedInv, Count
<1>2. CASE offerOrder = << >>
  <2>1. merged' = << >>
    BY <1>0, <1>2 DEF MergedInv
  <2>2. KeysIn(merged)' = << >>
    BY <2>1 DEF KeysIn
  <2>3. InOfferOrder(KeysIn(merged))'
    <3>1. 0 \in 0..Len(<< >>) /\ 1..0 = {} /\ << >> \in [1..0 -> DOMAIN offerOrder']
          /\ (0 + 1)..Len(<< >>) = {}
      OBVIOUS
    <3> QED
      BY <2>2, <3>1 DEF InOfferOrder
  <2> QED
    BY <1>1, <2>1, <2>3 DEF MergedInv
<1>3. CASE offerOrder # << >>
  <2>1. offerOrder' = offerOrder
    BY <1>3
  <2>2. InOfferOrder(KeysIn(merged))'
    BY <1>0, <2>1, InOrderIs DEF MergedInv
  <2> QED
    BY <1>1, <1>3, <2>1, <2>2 DEF MergedInv
<1> QED
  BY <1>2, <1>3

LEMMA MergedStep == ASSUME ExchangeInv, [Next]_vars PROVE MergedInv'
<1>0. TypeOK /\ CacheInv /\ RoomInv
  BY DEF ExchangeInv, DerivedInv
<1>a. AfterMerge => handled /\ \A k \in Keys : chunks[k] # "asked"
  BY <1>0 DEF AfterMerge, CacheInv
<1>1. CASE Reader
  <2>1. /\ UNCHANGED <<merged, held, mpc>>
        /\ handled => existing' = existing
        /\ offerOrder # << >> => offerOrder' = offerOrder
    BY <1>1 DEF Reader, Observe, ObserveMalformed, CommitDownloads, HandleInfo, IgnoreInfo,
       HandleStack
  <2> QED
    BY <1>a, <2>1, MergedStill DEF AfterMerge
<1>2. CASE Download \/ Chunk
  <2>1. /\ UNCHANGED <<merged, held, mpc, offerOrder>>
        /\ (\A k \in Keys : chunks[k] # "asked") => existing' = existing
    BY <1>2 DEF Download, Chunk, download, downloadFails, ChunkArrives, Store, StoreRefused
  <2> QED
    BY <1>a, <2>1, MergedStill DEF AfterMerge
<1>3. CASE Merge
  <2>1. /\ mpc = "merge" /\ merged' = MergedPacks /\ held' = {k \in Keys : packs[k] # "none"}
        /\ UNCHANGED <<existing, offerOrder, packOrder, packs>>
    BY <1>3 DEF Merge
  <2>2. MergeReady
    <3>1. \A k \in Keys : Count(existing, k) <= Cardinality(Places(offerOrder, k))
      <4> TAKE k \in Keys
      <4>1. Count(existing, k) \in Nat /\ Cardinality(Places(offerOrder, k)) \in Nat
        BY <1>0, CountType, PlacesType DEF TypeOK
      <4>2. Count(existing, k) + (IF chunks[k] = "asked" THEN 1 ELSE 0)
              <= Cardinality(Places(offerOrder, k))
        BY <1>0 DEF RoomInv
      <4> QED
        BY <4>1, <4>2
    <3> QED
      BY <1>0, <3>1 DEF MergeReady, TypeOK, CacheInv
  <2>3. \A k \in Keys \cup {Other} :
          Count(merged, k)' = IF k \in held' /\ Count(existing, k)' = 0 THEN 1 ELSE Count(existing, k)'
    <3>1. \A k : Count(merged, k)' = Count(MergedPacks, k) /\ Count(existing, k)' = Count(existing, k)
      BY <2>1 DEF Count
    <3> QED
      BY <2>1, <2>2, <3>1, MergeResult
  <2>4. InOfferOrder(KeysIn(merged))'
    <3>1. InOfferOrder(KeysIn(MergedPacks))
      BY <2>2, MergeResult
    <3> QED
      BY <2>1, <3>1, InOrderIs
  <2>5. offerOrder = << >> => merged' = << >>
    <3> SUFFICES ASSUME offerOrder = << >> PROVE MergedPacks = << >>
      BY <2>1
    <3>1. existing = << >> /\ packOrder = << >>
      BY <1>0 DEF CacheInv
    <3>2. existing \in Seq(Packs) /\ offerOrder \in Seq(Keys) /\ packOrder \in Seq(Keys)
          /\ Len(existing) = 0 /\ Len(offerOrder) = 0 /\ Len(packOrder) = 0
      BY <1>0, <3>1 DEF TypeOK
    <3>3. Offered = [out |-> << >>, used |-> {}, taken |-> {}]
      BY <3>2, OfferedStages
    <3>4. Rest = Offered
      BY <3>2, RestStages
    <3>5. AllMerged = Rest
      BY <3>2, MergedStages
    <3>6. AllMerged.out = << >>
      BY <3>3, <3>4, <3>5
    <3> QED
      BY <3>6 DEF MergedPacks, AllMerged
  <2> QED
    BY <2>1, <2>3, <2>4, <2>5 DEF MergedInv
<1>4. CASE Main /\ ~Merge
  <2>1. /\ UNCHANGED <<existing, offerOrder, merged, held>>
        /\ AfterMerge' => AfterMerge
    BY <1>4 DEF Main, DialReturns, DialFails, RecordArchive, RecordArchiveFails,
       RecordManifests,
       RecordDecrypted, AddLimitation, RecordDecryptFailure, DeriveFails, AllRecorded,
       Prepare,
       PrepareFails, Connected, ConnectedFails, FetchComplete, CloseExchange,
       closeAfterUpstreamError,
       AfterMerge
  <2> QED
    BY <2>1, MergedStill
<1>5. CASE UNCHANGED vars
  BY <1>5, MergedStill DEF vars, AfterMerge
<1>6. CASE Transport
  BY <1>6, TransportKeeps, MergedStill DEF cacheVars, connVars, mainVars, AfterMerge
<1> QED
  BY <1>1, <1>2, <1>3, <1>4, <1>5, <1>6 DEF Next

\* A step that records no archive.
LEMMA RecordedStill ==
    ASSUME ExchangeInv, UNCHANGED <<mode, mpc, merged, next, delivery>>, Archives' = Archives
    PROVE  RecordedInv'
<1>1. RecordedInv
  BY DEF ExchangeInv
<1>2. Deriving' = Deriving /\ AfterMerge' = AfterMerge /\ Recorded' = Recorded
  BY DEF Deriving, AfterMerge, Recorded
<1> HIDE DEF Archives, Recorded
<1> QED
  BY <1>1, <1>2 DEF RecordedInv

LEMMA RecordedStep == ASSUME ExchangeInv, [Next]_vars PROVE RecordedInv'
<1>0. TypeOK /\ PlaceInv /\ RecordedInv
  BY DEF ExchangeInv, DerivedInv
<1>t. /\ log \in Seq(Events) /\ merged \in Seq(Packs) /\ next \in Nat /\ next # 0
      /\ Len(merged) \in Nat
      /\ (next <= Len(merged) => next \in DOMAIN merged)
  <2>1. log \in Seq(Events) /\ merged \in Seq(Packs) /\ next \in Nat /\ next # 0
    BY <1>0 DEF TypeOK
  <2> QED
    BY <2>1
<1>k. \A e \in Events : e.kind # "archive" /\ log' = Append(log, e) => Archives' = Archives
  BY <1>t, ArchivesIs, ArchivesKept
<1>p. \A kind \in {"dial_start", "dial_error", "packet.raw", "connected", "fetch_complete",
                   "session.close"} : log' = Append(log, Plain(kind)) => Archives' = Archives
  BY <1>k, PlainType
<1>u. log' = log => Archives' = Archives
  BY ArchivesIs
<1>1. CASE Reader
  <2>1. UNCHANGED <<mode, mpc, merged, next, delivery>>
        /\ (log' = log \/ log' = Append(log, Plain("packet.raw")))
    BY <1>1 DEF Reader, Observe, ObserveMalformed, CommitDownloads, HandleInfo, IgnoreInfo,
       HandleStack
  <2> QED
    BY <1>p, <1>u, <2>1, RecordedStill
<1>2. CASE Transport \/ Download \/ Chunk \/ UNCHANGED vars
  <2>1. UNCHANGED <<mode, mpc, merged, next, delivery, log>>
    BY <1>2, TransportKeeps DEF mainVars, Download, Chunk, download, downloadFails, ChunkArrives, Store,
       StoreRefused, vars
  <2> QED
    BY <1>u, <2>1, RecordedStill
<1>3. CASE mpc' = "failed"
  BY <1>3 DEF RecordedInv, AfterMerge
<1>4. CASE DialReturns \/ Merge
  <2>1. /\ mpc \in {"dial", "merge"} /\ mpc' \in {"merge", "archive"} /\ UNCHANGED <<next, log>>
    BY <1>4 DEF DialReturns, Merge
  <2>2. next = 1 /\ Len(Archives) = 0 /\ Archives' = Archives /\ Recorded' = 0
    BY <1>0, <1>u, <2>1 DEF RecordedInv, Recorded, Deriving
  <2>3. merged' \in Seq(Packs)
    BY <1>0, <1>4, TypeMain DEF Main, TypeOK
  <2> HIDE DEF Archives, Recorded
  <2> QED
    BY <2>1, <2>2, <2>3 DEF RecordedInv
<1>5. CASE RecordArchive
  <2> DEFINE e == Event("archive", Pack.key, 0)
  <2>1. /\ mpc = "archive" /\ next \in DOMAIN merged /\ log' = Append(log, e)
        /\ UNCHANGED <<mode, merged, delivery>>
        /\ (mpc' = "derive" /\ next' = next) \/ (mpc' = "archive" /\ next' = next + 1)
    BY <1>5, <1>t DEF RecordArchive, NextPack
  <2>2. e \in Events /\ e.kind = "archive" /\ e.key = merged[next].key
    <3>1. Pack.key \in Keys \cup {Other} /\ Pack.key = merged[next].key
      BY <1>0, <2>1, PackType DEF Pack
    <3> QED
      BY <3>1, EventType
  <2> HIDE DEF e
  <2>3. Archives' = Append(Archives, e) /\ Archives \in Seq(Events)
    BY <1>t, <2>1, <2>2, ArchivesIs, ArchivesAppend, ArchivesType DEF AppendArchive
  <2>4. Recorded = next - 1 /\ Recorded' = next /\ AfterMerge /\ mpc' \in {"derive", "archive"}
    BY <1>t, <2>1 DEF Recorded, Deriving, AfterMerge
  <2>5. Len(Archives) = next - 1 /\ \A i \in 1..(next - 1) : Archives[i].key = merged[i].key
    BY <1>0, <2>1, <2>4 DEF RecordedInv
  <2>6. Len(Archives') = next /\ \A i \in 1..next : Archives'[i].key = merged'[i].key
    BY <1>t, <2>1, <2>2, <2>3, <2>5
  <2>7. next <= Len(merged')
    BY <1>t, <2>1
  <2> HIDE DEF Archives, Recorded
  <2> QED
    BY <2>4, <2>6, <2>7 DEF RecordedInv
<1>6. CASE RecordManifests \/ AddLimitation
  <2>1. Deriving /\ mpc' \in {"manifest", "limitation"} /\ UNCHANGED <<mode, merged, next, delivery, parent>>
    BY <1>6 DEF RecordManifests, AddLimitation, Deriving
  <2>2. Archives' = Archives
    <3>1. CASE log' = log
      BY <1>u, <3>1
    <3>2. CASE log' = Append(log, Event("contents_manifest", Pack.key, parent))
      <4>1. Pack.key \in Keys \cup {Other} /\ parent \in Nat
        BY <1>0, <2>1, PackType DEF PlaceInv, TypeOK
      <4> DEFINE e == Event("contents_manifest", Pack.key, parent)
      <4>2. e \in Events /\ e.kind = "contents_manifest" /\ log' = Append(log, e)
        BY <3>2, <4>1, EventType
      <4> HIDE DEF e
      <4> QED
        BY <1>k, <4>2
    <3> QED
      BY <1>6, <3>1, <3>2 DEF RecordManifests, AddLimitation
  <2>3. Recorded' = Recorded /\ AfterMerge /\ mpc # "failed"
    BY <2>1 DEF Recorded, Deriving, AfterMerge
  <2> HIDE DEF Archives, Recorded
  <2> QED
    BY <1>0, <2>1, <2>2, <2>3 DEF RecordedInv
<1>7. CASE RecordDecrypted \/ RecordDecryptFailure
  <2>1. /\ Deriving /\ mpc' = "archive" /\ next' = next + 1
        /\ UNCHANGED <<mode, merged, delivery, parent>>
        /\ \E kind \in {"decrypted_archive", "decrypt_error"} : log' = Append(log, Event(kind, Pack.key, parent))
    BY <1>7 DEF RecordDecrypted, RecordDecryptFailure, Deriving, NextPack
  <2>2. Archives' = Archives
    <3>1. Pack.key \in Keys \cup {Other} /\ parent \in Nat
      BY <1>0, <2>1, PackType DEF PlaceInv, TypeOK
    <3>2. PICK kind \in {"decrypted_archive", "decrypt_error"} :
            log' = Append(log, Event(kind, Pack.key, parent))
      BY <2>1
    <3> DEFINE e == Event(kind, Pack.key, parent)
    <3>3. e \in Events /\ e.kind # "archive" /\ log' = Append(log, e)
      BY <3>1, <3>2, EventType
    <3> HIDE DEF e
    <3> QED
      BY <1>k, <3>3
  <2>3. Recorded' = Recorded /\ AfterMerge /\ mpc # "failed"
    BY <1>t, <2>1 DEF Recorded, Deriving, AfterMerge
  <2> HIDE DEF Archives, Recorded
  <2> QED
    BY <1>0, <2>1, <2>2, <2>3 DEF RecordedInv
<1>8. CASE AllRecorded
  <2>1. /\ mpc = "archive" /\ next > Len(merged) /\ delivery' = merged
        /\ mpc' = (IF mode.packsOnly THEN "connect" ELSE "prepare")
        /\ UNCHANGED <<mode, merged, next, log>>
    BY <1>8 DEF AllRecorded
  <2>2. Recorded = next - 1 /\ Recorded' = next - 1 /\ AfterMerge /\ mpc # "failed"
    BY <2>1 DEF Recorded, Deriving, AfterMerge
  <2>3. Recorded = Len(merged)
    <3>1. Recorded <= Len(merged)
      BY <1>0, <2>2 DEF RecordedInv
    <3> HIDE DEF Recorded
    <3> QED
      BY <1>t, <2>1, <2>2, <3>1
  <2>4. Archives' = Archives /\ Recorded' = Recorded
    BY <1>u, <2>1, <2>2
  <2> HIDE DEF Archives, Recorded
  <2> QED
    BY <1>0, <2>1, <2>2, <2>3, <2>4 DEF RecordedInv
<1>9. CASE Prepare
  <2>1. mpc = "prepare" /\ delivery' = Clones /\ mpc' = "connect" /\ UNCHANGED <<mode, merged, next, log>>
    BY <1>9 DEF Prepare
  <2>2. Recorded' = Recorded /\ AfterMerge /\ Archives' = Archives
    BY <1>u, <2>1 DEF Recorded, Deriving, AfterMerge
  <2>3. Len(delivery') = Len(merged)
        /\ \A i \in 1..Len(merged) : delivery'[i].key = merged[i].key /\ ~delivery'[i].http
    <3>1. \A i \in 1..Len(merged) : merged[i] \in Packs
      BY <1>t
    <3>2. \A i \in 1..Len(merged) : [merged[i] EXCEPT !.http = FALSE].key = merged[i].key
                                    /\ ~[merged[i] EXCEPT !.http = FALSE].http
      BY <3>1 DEF Packs
    <3>3. Len(Clones) = Len(merged)
          /\ \A i \in 1..Len(merged) : Clones[i] = [merged[i] EXCEPT !.http = FALSE]
      <4>1. DOMAIN merged = 1..Len(merged) /\ DOMAIN Clones = 1..Len(merged)
        BY <1>t DEF Clones
      <4>2. Len(Clones) = Len(merged)
        <5>1. Clones \in Seq(Packs)
          BY <1>0, <1>9, TypeMain DEF Main, TypeOK, Prepare
        <5> HIDE DEF Clones
        <5> QED
          BY <1>t, <4>1, <5>1
      <4> QED
        BY <4>1, <4>2 DEF Clones
    <3> QED
      BY <2>1, <3>2, <3>3
  <2> HIDE DEF Archives, Recorded
  <2> QED
    BY <1>0, <2>1, <2>2, <2>3 DEF RecordedInv
<1>10. CASE Connected \/ FetchComplete \/ CloseExchange
  <2>1. /\ mpc \in {"connect", "complete", "close"} /\ mpc' \in {"complete", "close", "returned"}
        /\ UNCHANGED <<mode, merged, next, delivery>>
        /\ log' = log \/ \E kind \in {"connected", "fetch_complete", "session.close"} :
                           log' = Append(log, Plain(kind))
    BY <1>10 DEF Connected, FetchComplete, CloseExchange
  <2>2. Archives' = Archives
    BY <1>p, <1>u, <2>1
  <2>3. Recorded' = Recorded /\ AfterMerge
    BY <2>1 DEF Recorded, Deriving, AfterMerge
  <2> HIDE DEF Archives, Recorded
  <2> QED
    BY <1>0, <2>1, <2>2, <2>3 DEF RecordedInv
<1>11. ASSUME DialFails \/ RecordArchiveFails \/ DeriveFails \/ PrepareFails \/ ConnectedFails
       PROVE  mpc' = "failed"
  BY <1>11 DEF DialFails, RecordArchiveFails, DeriveFails, PrepareFails, ConnectedFails,
     closeAfterUpstreamError
<1> QED
  BY <1>1, <1>2, <1>3, <1>4, <1>5, <1>6, <1>7, <1>8, <1>9, <1>10, <1>11 DEF Next, Main

LEMMA ExchangeInit == Init => ExchangeInv
<1> SUFFICES ASSUME Init PROVE ExchangeInv
  OBVIOUS
<1>1. DerivedInv
  BY DerivedInit
<1>2. CacheInv
  BY DEF Init, CacheInv
<1>3. RoomInv
  <2>1. existing = << >> /\ offerOrder \in Seq(Keys) /\ \A k \in Keys : chunks[k] = "none"
    BY DEF Init
  <2> QED
    BY <2>1, CountEmpty, PlacesType DEF RoomInv
<1>4. MergedInv
  BY DEF Init, MergedInv, AfterMerge
<1>5. RecordedInv
  <2>1. Archives = << >>
    <3>1. << >> \in Seq(Events) /\ log = Append(<< >>, Plain("dial_start"))
      BY DEF Init
    <3> QED
      BY <3>1, PlainType, ArchivesIs, ArchivesKept, ArchivesEmpty
  <2>2. mpc = "dial" /\ next = 1 /\ Recorded = 0 /\ Len(<< >>) = 0
    BY DEF Init, Recorded, Deriving
  <2> HIDE DEF Archives, Recorded
  <2> QED
    BY <2>1, <2>2 DEF RecordedInv, AfterMerge
<1> QED
  BY <1>1, <1>2, <1>3, <1>4, <1>5 DEF ExchangeInv

LEMMA ExchangeMeansExact == ASSUME ExchangeInv PROVE ArchivesExact
<1> SUFFICES ASSUME IsConnected
             PROVE  /\ \A k \in Keys \cup {Other} :
                          Count(Archives, k) = IF k \in held /\ Count(existing, k) = 0
                                                  THEN 1 ELSE Count(existing, k)
                    /\ InOfferOrder(ArchiveKeys)
                    /\ Len(delivery) = Len(Archives)
                    /\ \A i \in DOMAIN delivery :
                          /\ delivery[i].key = ArchiveKeys[i]
                          /\ delivery[i].http => mode.packsOnly
  BY DEF ArchivesExact
<1>1. mpc \in {"complete", "close", "returned"}
  BY DEF IsConnected, Range, ExchangeInv, DerivedInv, ConnectedInv
<1>2. merged \in Seq(Packs) /\ delivery \in Seq(Packs) /\ Archives \in Seq(Events)
  BY ArchivesIs, ArchivesType DEF ExchangeInv, DerivedInv, TypeOK
<1>3. /\ Len(Archives) = Len(merged)
      /\ \A i \in 1..Len(merged) : Archives[i].key = merged[i].key
      /\ Len(delivery) = Len(merged)
      /\ \A i \in 1..Len(merged) :
            delivery[i].key = merged[i].key /\ (delivery[i].http => mode.packsOnly)
  <2>1. RecordedInv /\ AfterMerge /\ Recorded = Len(merged) /\ mpc # "failed"
    BY <1>1 DEF ExchangeInv, RecordedInv, AfterMerge
  <2> HIDE DEF Archives, Recorded
  <2> QED
    BY <1>1, <2>1 DEF RecordedInv
<1>4. MergedInv /\ AfterMerge
  BY <1>1 DEF ExchangeInv, AfterMerge
<1> HIDE DEF Archives
<1>5. \A k : Count(Archives, k) = Count(merged, k)
  <2> TAKE k
  <2>1. {i \in DOMAIN Archives : Archives[i].key = k} = {i \in DOMAIN merged : merged[i].key = k}
    BY <1>2, <1>3
  <2> QED
    BY <2>1 DEF Count
<1>6. ArchiveKeys = KeysIn(merged) /\ \A i \in 1..Len(merged) : ArchiveKeys[i] = merged[i].key
  BY <1>2, <1>3 DEF ArchiveKeys, KeysIn
<1>7. InOfferOrder(ArchiveKeys)
  BY <1>4, <1>6 DEF MergedInv
<1>8. \A i \in DOMAIN delivery : i \in 1..Len(merged)
  BY <1>2, <1>3
<1> QED
  BY <1>3, <1>4, <1>5, <1>6, <1>7, <1>8 DEF MergedInv

\* Merge, RecordResourcePacks and resourcePacksForDownstream: once upstream.connected is
\* recorded, the capture has an archive for every pack exactly as often as it was received, a
\* downloaded one once, in the order of the offer whichever download finished first, and the
\* client is offered the same packs in the same order and none by URL.  For any offers, keys
\* and number of download workers.
THEOREM ArchivesAlwaysExact == Spec => []ArchivesExact
<1>1. ExchangeInv /\ [Next]_vars => ExchangeInv'
  BY DerivedStep, CacheStep, RoomStep, MergedStep, RecordedStep DEF ExchangeInv
<1>2. ExchangeInv => ArchivesExact
  BY ExchangeMeansExact
<1> QED
  BY <1>1, <1>2, ExchangeInit, PTL DEF Spec
=============================================================================
