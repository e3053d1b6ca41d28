------------------------------ MODULE ProxyProofs ------------------------------
(***************************************************************************)
(* Proofs about the reconnect proxy.  The relay never repeats an action,   *)
(* replays a session in an order its backend can use, and passes nothing   *)
(* stale on: for any number of frames, trackers and setup bundles, and any *)
(* sequence of crashes, stalls and reconnections.  And its reader task     *)
(* hands over whole frames: the last part.                                 *)
(*                                                                         *)
(* The first part is about sequences: a replay is made with FlattenSeq and *)
(* a sorted sequence of ids, so what it contains is shown by induction.    *)
(***************************************************************************)
EXTENDS ProxyRelay, FrameReader, SequenceTheorems, FiniteSetTheorems, NaturalsInduction, WellFoundedInduction, TLAPS

\* Induction over the natural numbers, for a set that contains 0 and successors.
LEMMA SetInduction ==
  ASSUME NEW S \in SUBSET Nat, 0 \in S, \A n \in S : n + 1 \in S
  PROVE  S = Nat
<1>1. SUFFICES ASSUME Nat \ S # {} PROVE FALSE
  OBVIOUS
<1>2. PICK m \in Nat \ S : \A y \in Nat \ S : ~(<<y, m>> \in OpToRel(<, Nat))
  BY <1>1, NatLessThanWellFounded, WFMin, Zenon
<1>3. \A y \in Nat \ S : ~(y < m)
  BY <1>2, Zenon DEF OpToRel
<1>4. m - 1 \in Nat /\ m - 1 \in S
  BY <1>3
<1>5. QED
  BY <1>4

\* A set of natural numbers that is not empty has a least element,
LEMMA LeastElement ==
  ASSUME NEW S \in SUBSET Nat, S # {}
  PROVE  \E m \in S : \A y \in S : m <= y
<1>1. PICK m \in S : \A y \in S : ~(<<y, m>> \in OpToRel(<, Nat))
  BY NatLessThanWellFounded, WFMin, Zenon
<1>2. \A y \in S : ~(y < m)
  BY <1>1, Zenon DEF OpToRel
<1>3. QED
  BY <1>2

\* and one of places in a sequence a last one.
LEMMA LastPlace ==
  ASSUME NEW n \in Nat, NEW S \in SUBSET (1..n), S # {}
  PROVE  \E m \in S : \A y \in S : y <= m
<1> DEFINE T == {n - x : x \in S}
<1>1. T \in SUBSET Nat /\ T # {}
  <2>1. \A x \in S : n - x \in Nat
    OBVIOUS
  <2>2. QED
    BY <2>1
<1>2. PICK d \in T : \A y \in T : d <= y
  <2> HIDE DEF T
  <2>1. QED
    BY <1>1, LeastElement
<1>3. PICK m \in S : d = n - m
  BY <1>2
<1>4. \A y \in S : n - m <= n - y
  BY <1>2, <1>3
<1>5. QED
  BY <1>4

\* A finite set of numbers can be put in ascending order.
LEMMA CanBeSorted ==
  ASSUME NEW S \in SUBSET Nat, IsFiniteSet(S)
  PROVE  \E f \in [1..Cardinality(S) -> S] : \A i, j \in 1..Cardinality(S) : i < j => f[i] < f[j]
<1> DEFINE Sorted(T, n) == \E f \in [1..n -> T] : \A i, j \in 1..n : i < j => f[i] < f[j]
           G == {n \in Nat : \A T \in SUBSET Nat : IsFiniteSet(T) /\ Cardinality(T) = n => Sorted(T, n)}
<1>1. 0 \in G
  <2>1. ASSUME NEW T \in SUBSET Nat PROVE Sorted(T, 0)
    <3>1. 1..0 = {}
      OBVIOUS
    <3>2. [i \in 1..0 |-> 0] \in [1..0 -> T]
      BY <3>1
    <3>3. QED
      BY <3>1, <3>2
  <2>2. QED
    BY <2>1
<1>2. ASSUME NEW n \in G PROVE n + 1 \in G
  <2>1. SUFFICES ASSUME NEW T \in SUBSET Nat, IsFiniteSet(T), Cardinality(T) = n + 1
                 PROVE  Sorted(T, n + 1)
    OBVIOUS
  <2>2. n \in Nat /\ T # {}
    BY <2>1, FS_EmptySet
  <2>3. PICK m \in T : \A y \in T : m <= y
    BY <2>2, LeastElement
  <2>4. T \ {m} \in SUBSET Nat /\ IsFiniteSet(T \ {m}) /\ Cardinality(T \ {m}) = n
    BY <2>1, <2>2, FS_RemoveElement
  <2>5. PICK f \in [1..n -> T \ {m}] : \A i, j \in 1..n : i < j => f[i] < f[j]
    BY <2>4
  <2> DEFINE g == [i \in 1..(n + 1) |-> IF i = 1 THEN m ELSE f[i - 1]]
  <2>6. \A i \in 1..(n + 1) : i # 1 => i - 1 \in 1..n
    BY <2>2
  <2>7. g \in [1..(n + 1) -> T]
    BY <2>6
  <2>8. ASSUME NEW i \in 1..(n + 1), NEW j \in 1..(n + 1), i < j PROVE g[i] < g[j]
    <3>1. j # 1 /\ j - 1 \in 1..n /\ g[j] = f[j - 1] /\ f[j - 1] \in T \ {m}
      BY <2>6, <2>8
    <3>2. CASE i = 1
      <4>1. g[i] = m /\ f[j - 1] \in Nat /\ m \in Nat /\ m <= f[j - 1] /\ f[j - 1] # m
        BY <2>3, <3>1, <3>2
      <4>2. QED
        BY <3>1, <4>1
    <3>3. CASE i # 1
      BY <2>5, <2>6, <2>8, <3>1, <3>3
    <3>4. QED
      BY <3>2, <3>3
  <2>9. QED
    BY <2>7, <2>8
<1>3. G = Nat
  <2>1. G \in SUBSET Nat
    OBVIOUS
  <2> HIDE DEF G
  <2>2. QED
    BY <1>1, <1>2, <2>1, SetInduction
<1>4. Cardinality(S) \in G
  BY <1>3, FS_CardinalityType
<1>5. QED
  BY <1>4

\* Flattening adds one part after the other: the recursive definition has a
\* solution, because it has one on every prefix.
LEMMA FlattenSteps ==
  ASSUME NEW s, Len(s) \in Nat, Len(s) > 0
  PROVE  \E f : /\ FlattenSeq(s) = f[Len(s)] /\ f[1] = s[1]
                /\ \A i \in 1..Len(s) : i # 1 => f[i] = f[i - 1] \o s[i]
<1> DEFINE Solution(n) == \E g : g = [i \in 1..n |-> IF i = 1 THEN s[i] ELSE g[i - 1] \o s[i]]
           G == {n \in Nat : Solution(n)}
<1>1. 0 \in G
  <2>1. 1..0 = {}
    OBVIOUS
  <2> DEFINE g == [i \in {} |-> <<>>]
  <2>2. g = [i \in 1..0 |-> IF i = 1 THEN s[i] ELSE g[i - 1] \o s[i]]
    BY <2>1
  <2> HIDE DEF g
  <2>3. QED
    BY <2>2
<1>2. ASSUME NEW n \in G PROVE n + 1 \in G
  <2>1. n \in Nat
    OBVIOUS
  <2>2. PICK g : g = [i \in 1..n |-> IF i = 1 THEN s[i] ELSE g[i - 1] \o s[i]]
    OBVIOUS
  <2> DEFINE h == [i \in 1..(n + 1) |-> IF i = 1 THEN s[i] ELSE g[i - 1] \o s[i]]
  <2>3. \A i \in 1..(n + 1) : i # 1 => i - 1 \in 1..n /\ i - 1 \in 1..(n + 1)
    BY <2>1
  <2>4. ASSUME NEW i \in 1..n PROVE h[i] = g[i]
    <3>1. i \in 1..(n + 1)
      BY <2>1
    <3>2. h[i] = IF i = 1 THEN s[i] ELSE g[i - 1] \o s[i]
      BY <3>1
    <3>3. g[i] = IF i = 1 THEN s[i] ELSE g[i - 1] \o s[i]
      BY <2>2
    <3> HIDE DEF h
    <3>4. QED
      BY <3>2, <3>3
  <2>5. \A i \in 1..(n + 1) : i # 1 => h[i - 1] = g[i - 1]
    BY <2>3, <2>4
  <2>6. h = [i \in 1..(n + 1) |-> IF i = 1 THEN s[i] ELSE h[i - 1] \o s[i]]
    BY <2>5
  <2>7. Solution(n + 1)
    <3> HIDE DEF h
    <3>1. QED
      BY <2>6
  <2> HIDE DEF Solution
  <2>8. n + 1 \in Nat
    BY <2>1
  <2>9. QED
    BY <2>7, <2>8
<1>3. G = Nat
  <2>1. G \in SUBSET Nat
    OBVIOUS
  <2> HIDE DEF G
  <2>2. QED
    BY <1>1, <1>2, <2>1, SetInduction
<1>4. Solution(Len(s))
  <2> HIDE DEF Solution
  <2>1. QED
    BY <1>3
<1> DEFINE f == CHOOSE f : f = [i \in 1..Len(s) |-> IF i = 1 THEN s[i] ELSE f[i - 1] \o s[i]]
<1>5. FlattenSeq(s) = f[Len(s)]
  BY DEF FlattenSeq
<1>6. f = [i \in 1..Len(s) |-> IF i = 1 THEN s[i] ELSE f[i - 1] \o s[i]]
  BY <1>4
<1> HIDE DEF f
<1>7. 1 \in 1..Len(s)
  OBVIOUS
<1>8. f[1] = s[1] /\ \A i \in 1..Len(s) : i # 1 => f[i] = f[i - 1] \o s[i]
  BY <1>6, <1>7
<1>9. QED
  BY <1>5, <1>8

\* A flattened sequence has the elements of its parts, and no others.
LEMMA FlatRange ==
  ASSUME NEW T, NEW s \in Seq(Seq(T))
  PROVE  /\ FlattenSeq(s) \in Seq(T)
         /\ Range(FlattenSeq(s)) = UNION {Range(s[k]) : k \in 1..Len(s)}
<1>1. Len(s) \in Nat /\ \A i \in 1..Len(s) : s[i] \in Seq(T)
  OBVIOUS
<1>2. CASE Len(s) = 0
  <2>1. s = <<>> /\ 1..Len(s) = {}
    BY <1>2
  <2>2. FlattenSeq(s) = <<>>
    BY <1>2, <2>1 DEF FlattenSeq
  <2>3. Range(<<>>) = {}
    BY DEF Range
  <2>4. UNION {Range(s[k]) : k \in 1..Len(s)} = {}
    BY <2>1
  <2>5. FlattenSeq(s) \in Seq(T)
    BY <2>2, EmptySeq
  <2>6. Range(FlattenSeq(s)) = {}
    BY <2>2, <2>3
  <2>7. QED
    BY <2>4, <2>5, <2>6
<1>3. CASE Len(s) > 0
  <2>1. PICK f : /\ FlattenSeq(s) = f[Len(s)] /\ f[1] = s[1]
                 /\ \A i \in 1..Len(s) : i # 1 => f[i] = f[i - 1] \o s[i]
    BY <1>1, <1>3, FlattenSteps
  <2> DEFINE Parts(n) == UNION {Range(s[k]) : k \in 1..n}
             Good(n) == f[n] \in Seq(T) /\ Range(f[n]) = Parts(n)
             G == {n \in Nat : n + 1 <= Len(s) => Good(n + 1)}
  <2>2. 0 \in G
    <3>1. 1..1 = {1} /\ 0 + 1 = 1 /\ 1 \in 1..Len(s)
      BY <1>1, <1>3
    <3>2. Parts(1) = Range(s[1])
      BY <3>1
    <3> HIDE DEF Parts
    <3>3. Good(0 + 1)
      BY <1>1, <2>1, <3>1, <3>2
    <3> HIDE DEF Good
    <3>4. QED
      BY <3>3
  <2>3. ASSUME NEW n \in G PROVE n + 1 \in G
    <3>1. n \in Nat
      OBVIOUS
    <3>2. ASSUME n + 1 + 1 <= Len(s) PROVE Good(n + 1 + 1)
      <4> DEFINE m == n + 1
      <4>1. m \in Nat /\ m + 1 \in 1..Len(s) /\ m + 1 # 1 /\ (m + 1) - 1 = m /\ m <= Len(s)
        BY <1>1, <3>1, <3>2
      <4>2. Good(m)
        BY <4>1
      <4>3. Parts(m + 1) = Parts(m) \cup Range(s[m + 1])
        <5>1. 1..(m + 1) = 1..m \cup {m + 1}
          BY <4>1
        <5>2. QED
          BY <5>1
      <4> HIDE DEF Parts, m
      <4>4. f[m + 1] = f[m] \o s[m + 1] /\ s[m + 1] \in Seq(T)
        BY <1>1, <2>1, <4>1
      <4>5. f[m + 1] \in Seq(T) /\ Range(f[m + 1]) = Range(f[m]) \cup Range(s[m + 1])
        BY <4>2, <4>4, ConcatProperties, RangeConcatenation
      <4>6. Good(m + 1)
        BY <4>2, <4>3, <4>5
      <4>7. QED
        BY <4>6 DEF m
    <3> HIDE DEF Good
    <3>3. QED
      BY <3>1, <3>2
  <2>4. G = Nat
    <3>1. G \in SUBSET Nat
      OBVIOUS
    <3> HIDE DEF G
    <3>2. QED
      BY <2>2, <2>3, <3>1, SetInduction
  <2>5. Good(Len(s))
    <3>1. Len(s) - 1 \in G /\ (Len(s) - 1) + 1 = Len(s)
      <4> HIDE DEF G
      <4>1. QED
        BY <1>1, <1>3, <2>4
    <3> HIDE DEF Good
    <3>2. QED
      BY <1>1, <3>1
  <2>6. QED
    BY <2>1, <2>5
<1>4. QED
  BY <1>1, <1>2, <1>3

\* The ids of the cached trackers, each of them once or more.
LEMMA IdsFacts ==
  ASSUME DOMAIN trackers \subseteq Nat, IsFiniteSet(DOMAIN trackers)
  PROVE  /\ Len(Ids) \in Nat /\ Ids \in Seq(DOMAIN trackers)
         /\ \A i \in 1..Len(Ids) : Ids[i] \in DOMAIN trackers
         /\ \A t \in DOMAIN trackers : \E i \in 1..Len(Ids) : Ids[i] = t
<1> DEFINE D == DOMAIN trackers
           n == Cardinality(D)
<1>1. n \in Nat
  BY FS_CardinalityType
<1>2. PICK f \in [1..n -> D] : \A i, j \in 1..n : i < j => f[i] < f[j]
  BY CanBeSorted
<1>3. \A g \in [1..n -> D] : (\A i, j \in 1..n : i < j => g[i] < g[j]) => g \in SetToSeqs(D)
  <2>1. SUFFICES ASSUME NEW g \in [1..n -> D], \A i, j \in 1..n : i < j => g[i] < g[j],
                        NEW i \in 1..n, NEW j \in 1..n, i # j
                 PROVE  g[i] # g[j]
    BY DEF SetToSeqs
  <2>2. g[i] \in Nat /\ g[j] \in Nat /\ (i < j \/ j < i)
    BY <2>1
  <2>3. QED
    BY <2>1, <2>2
<1>4. f \in SetToSeqs(D) /\ \A i, j \in DOMAIN f : i < j => f[i] < f[j]
  BY <1>2, <1>3
<1>5. Ids \in SetToSeqs(D) /\ \A i, j \in DOMAIN Ids : i < j => Ids[i] < Ids[j]
  BY <1>4 DEF Ids
<1>6. Ids \in [1..n -> D] /\ \A i, j \in 1..n : i # j => Ids[i] # Ids[j]
  BY <1>5 DEF SetToSeqs
<1>7. Ids \in Seq(D) /\ Len(Ids) = n
  BY <1>1, <1>6, IsASeq
<1>8. ASSUME NEW t \in D PROVE \E i \in 1..n : Ids[i] = t
  <2>1. SUFFICES ASSUME \A i \in 1..n : Ids[i] # t PROVE FALSE
    OBVIOUS
  <2>2. Ids \in [1..n -> D \ {t}]
    BY <1>6, <2>1
  <2>3. IsFiniteSet(D \ {t}) /\ Cardinality(D \ {t}) = n - 1
    BY FS_RemoveElement
  <2>4. IsFiniteSet(1..n) /\ Cardinality(1..n) = n
    BY <1>1, FS_Interval
  <2>5. \E i, j \in 1..n : i # j /\ Ids[i] = Ids[j]
    <3>1. Cardinality(D \ {t}) < Cardinality(1..n)
      BY <1>1, <2>3, <2>4
    <3> HIDE DEF n, D
    <3>2. QED
      BY <2>2, <2>3, <2>4, <3>1, FS_PigeonHole
  <2>6. QED
    BY <1>6, <2>5
<1>9. QED
  BY <1>1, <1>6, <1>7, <1>8

\* Of each tracker a part of the replay, by what each part is made of.
LEMMA AnnouncementsFacts ==
  ASSUME TypeOK, CacheIsTrue
  PROVE  /\ PerTracker(Announcement) \in Seq(1..Len(sent))
         /\ \A n : n \in Range(PerTracker(Announcement)) <=> \E t \in DOMAIN trackers : n = trackers[t].added
<1> DEFINE T == 1..Len(sent)
           s == [i \in 1..Len(Ids) |-> <<trackers[Ids[i]].added>>]
<1>1. /\ Len(Ids) \in Nat /\ \A i \in 1..Len(Ids) : Ids[i] \in DOMAIN trackers
      /\ \A t \in DOMAIN trackers : \E i \in 1..Len(Ids) : Ids[i] = t
  BY IdsFacts, BoundsAssumption DEF TypeOK, CacheIsTrue
<1>2. \A i \in 1..Len(Ids) : trackers[Ids[i]].added \in T
  BY <1>1 DEF TypeOK
<1>3. PerTracker(Announcement) = FlattenSeq(s)
  BY DEF PerTracker, Announcement
<1>4. s \in Seq(Seq(T)) /\ Len(s) = Len(Ids)
  <2>1. s \in [1..Len(Ids) -> Seq(T)]
    BY <1>2
  <2> HIDE DEF T, s
  <2>2. QED
    BY <1>1, <2>1, IsASeq
<1>5. \A i \in 1..Len(Ids) : Range(s[i]) = {trackers[Ids[i]].added}
  <2>1. \A x : Range(<<x>>) = {x}
    BY DEF Range
  <2>2. QED
    BY <2>1
<1> HIDE DEF T, s
<1>6. /\ FlattenSeq(s) \in Seq(T)
      /\ Range(FlattenSeq(s)) = UNION {Range(s[k]) : k \in 1..Len(s)}
  BY <1>4, FlatRange
<1>7. ASSUME NEW n
      PROVE  n \in UNION {Range(s[k]) : k \in 1..Len(s)} <=> \E t \in DOMAIN trackers : n = trackers[t].added
  <2>1. n \in UNION {Range(s[k]) : k \in 1..Len(s)} <=> \E k \in 1..Len(Ids) : n = trackers[Ids[k]].added
    <3>1. n \in UNION {Range(s[k]) : k \in 1..Len(s)} <=> \E k \in 1..Len(s) : n \in Range(s[k])
      OBVIOUS
    <3>2. \A k \in 1..Len(Ids) : n \in Range(s[k]) <=> n = trackers[Ids[k]].added
      BY <1>5
    <3>3. QED
      BY <1>4, <3>1, <3>2
  <2>2. QED
    BY <1>1, <2>1
<1>8. QED
  BY <1>3, <1>6, <1>7 DEF T

\* The news of a replay is the status of a tracker, or a pose that is not too old.
LEMMA NewsFacts ==
  ASSUME TypeOK, CacheIsTrue
  PROVE  /\ PerTracker(NewsOf) \in Seq(1..Len(sent))
         /\ \A n \in Range(PerTracker(NewsOf)) : \E t \in DOMAIN trackers :
              n # 0 /\ (n = trackers[t].status \/ (n = trackers[t].pose /\ n > horizon))
<1> DEFINE T == 1..Len(sent)
           s == [i \in 1..Len(Ids) |-> NewsOf(Ids[i])]
<1>1. Len(Ids) \in Nat /\ \A i \in 1..Len(Ids) : Ids[i] \in DOMAIN trackers
  BY IdsFacts, BoundsAssumption DEF TypeOK, CacheIsTrue
<1>2. ASSUME NEW t \in DOMAIN trackers
      PROVE  /\ NewsOf(t) \in Seq(T)
             /\ \A n \in Range(NewsOf(t)) :
                  n # 0 /\ (n = trackers[t].status \/ (n = trackers[t].pose /\ n > horizon))
  <2>1. /\ trackers[t].status \in 0..Len(sent) /\ trackers[t].pose \in 0..Len(sent)
        /\ horizon \in Nat /\ Len(sent) \in Nat
    BY DEF TypeOK
  <2>2. /\ Status(t) \in Seq(T)
        /\ \A n \in Range(Status(t)) : n # 0 /\ n = trackers[t].status
    <3>1. CASE trackers[t].status = 0
      <4>1. Status(t) = <<>> /\ Range(<<>>) = {}
        BY <3>1 DEF Status, Range
      <4>2. QED
        BY <4>1, EmptySeq
    <3>2. CASE trackers[t].status # 0
      <4>1. Status(t) = <<trackers[t].status>> /\ trackers[t].status \in T
        BY <2>1, <3>2 DEF Status
      <4>2. Range(<<trackers[t].status>>) = {trackers[t].status}
        BY DEF Range
      <4>3. QED
        BY <3>2, <4>1, <4>2
    <3>3. QED
      BY <3>1, <3>2
  <2>3. /\ FreshPose(t) \in Seq(T)
        /\ \A n \in Range(FreshPose(t)) : n # 0 /\ n = trackers[t].pose /\ n > horizon
    <3>1. CASE FreshPose(t) = <<>>
      <4>1. Range(<<>>) = {}
        BY DEF Range
      <4>2. QED
        BY <3>1, <4>1, EmptySeq
    <3>2. CASE FreshPose(t) # <<>>
      <4>1. FreshPose(t) = <<trackers[t].pose>> /\ trackers[t].pose > horizon
        BY <3>2 DEF FreshPose
      <4>2. trackers[t].pose \in T /\ trackers[t].pose # 0
        BY <2>1, <4>1
      <4>3. Range(<<trackers[t].pose>>) = {trackers[t].pose}
        BY DEF Range
      <4>4. QED
        BY <4>1, <4>2, <4>3
    <3>3. QED
      BY <3>1, <3>2
  <2> HIDE DEF T
  <2>4. NewsOf(t) \in Seq(T) /\ Range(NewsOf(t)) = Range(Status(t)) \cup Range(FreshPose(t))
    BY <2>2, <2>3, ConcatProperties, RangeConcatenation DEF NewsOf
  <2>5. QED
    BY <2>2, <2>3, <2>4
<1>3. PerTracker(NewsOf) = FlattenSeq(s)
  BY DEF PerTracker
<1>4. s \in Seq(Seq(T)) /\ Len(s) = Len(Ids)
  <2>1. s \in [1..Len(Ids) -> Seq(T)]
    BY <1>1, <1>2
  <2> HIDE DEF T, s
  <2>2. QED
    BY <1>1, <2>1, IsASeq
<1>5. \A i \in 1..Len(Ids) : s[i] = NewsOf(Ids[i])
  OBVIOUS
<1> HIDE DEF T, s
<1>6. /\ FlattenSeq(s) \in Seq(T)
      /\ Range(FlattenSeq(s)) = UNION {Range(s[k]) : k \in 1..Len(s)}
  BY <1>4, FlatRange
<1>7. ASSUME NEW n \in Range(FlattenSeq(s))
      PROVE  \E t \in DOMAIN trackers :
               n # 0 /\ (n = trackers[t].status \/ (n = trackers[t].pose /\ n > horizon))
  <2>1. PICK k \in 1..Len(Ids) : n \in Range(s[k])
    BY <1>4, <1>6, <1>7
  <2>2. QED
    BY <1>1, <1>2, <1>5, <2>1
<1>8. QED
  BY <1>3, <1>6, <1>7 DEF T

\* What a replay is made of, and in which order: no action, of every tracker
\* its present announcement, and news behind all of them.
LEMMA ReplayFacts ==
  ASSUME TypeOK, CacheIsTrue, EntriesAreTrue
  PROVE  /\ Replay \in Seq(1..Len(sent)) /\ (protocol = "SolarXr" => Replay = setup)
         /\ \A i \in 1..Len(Replay) :
              /\ sent[Replay[i]].kind # "action"
              /\ sent[Replay[i]].kind = "added" => Replay[i] = trackers[sent[Replay[i]].id].added
              /\ NewsFollows(Replay[i], i, Replay)
              /\ sent[Replay[i]].kind = "pose" =>
                   /\ Replay[i] > horizon /\ sent[Replay[i]].id \in DOMAIN trackers
                   /\ Replay[i] = trackers[sent[Replay[i]].id].pose /\ Replay[i] # 0
         /\ protocol = "Feeder" => \A t \in DOMAIN trackers :
              \E j \in 1..Len(Replay) : Replay[j] = trackers[t].added
<1> DEFINE T == 1..Len(sent)
<1>1. CASE protocol = "SolarXr"
  <2>1. Replay = setup /\ setup \in Seq(T)
    BY <1>1 DEF Replay, TypeOK
  <2>2. \A i \in 1..Len(Replay) : sent[Replay[i]].kind = "setup"
    BY <2>1 DEF CacheIsTrue
  <2>3. QED
    BY <1>1, <2>1, <2>2 DEF NewsFollows, News
<1>2. CASE protocol # "SolarXr"
  <2> DEFINE V == IF version # 0 THEN <<version>> ELSE <<>>
             A == PerTracker(Announcement)
             W == V \o A
             N == PerTracker(NewsOf)
  <2>1. Replay = W \o N
    BY <1>2 DEF Replay
  <2>2. /\ A \in Seq(T) /\ N \in Seq(T)
        /\ \A n : n \in Range(A) <=> \E t \in DOMAIN trackers : n = trackers[t].added
        /\ \A n \in Range(N) : \E t \in DOMAIN trackers :
             n # 0 /\ (n = trackers[t].status \/ (n = trackers[t].pose /\ n > horizon))
    BY AnnouncementsFacts, NewsFacts
  <2>3. V \in Seq(T) /\ \A n \in Range(V) : n = version /\ n # 0
    <3>1. CASE version = 0
      <4>1. V = <<>> /\ Range(<<>>) = {}
        BY <3>1 DEF Range
      <4>2. QED
        BY <4>1, EmptySeq
    <3>2. CASE version # 0
      <4>1. V = <<version>> /\ version \in T
        BY <3>2 DEF TypeOK
      <4>2. Range(<<version>>) = {version}
        BY DEF Range
      <4>3. QED
        BY <3>2, <4>1, <4>2
    <3>3. QED
      BY <3>1, <3>2
  <2> HIDE DEF V, A, N, T
  <2>4. W \in Seq(T) /\ Range(W) = Range(V) \cup Range(A) /\ Len(W) = Len(V) + Len(A)
    BY <2>2, <2>3, ConcatProperties, RangeConcatenation
  <2>5. \A j \in 1..Len(A) : W[Len(V) + j] = A[j]
    BY <2>2, <2>3, ConcatProperties
  <2>6. \A i \in 1..Len(W) : W[i] \in Range(W)
    BY <2>4, RangeEquality
  <2>7. \A i \in 1..Len(N) : N[i] \in Range(N)
    BY <2>2, RangeEquality
  <2> HIDE DEF W
  <2>8. /\ Replay \in Seq(T) /\ Len(Replay) = Len(W) + Len(N)
        /\ Len(W) \in Nat /\ Len(N) \in Nat /\ Len(V) \in Nat /\ Len(A) \in Nat
        /\ \A i \in 1..Len(W) : Replay[i] = W[i]
        /\ \A i \in 1..Len(Replay) : i > Len(W) => Replay[i] = N[i - Len(W)] /\ i - Len(W) \in 1..Len(N)
    <3>1. /\ Replay \in Seq(T) /\ Len(Replay) = Len(W) + Len(N)
          /\ \A i \in 1..(Len(W) + Len(N)) : Replay[i] = IF i <= Len(W) THEN W[i] ELSE N[i - Len(W)]
      <4>1. W \in Seq(T) /\ N \in Seq(T)
        BY <2>2, <2>4
      <4>2. /\ W \o N \in Seq(T) /\ Len(W \o N) = Len(W) + Len(N)
            /\ \A i \in 1..(Len(W) + Len(N)) :
                 (W \o N)[i] = IF i <= Len(W) THEN W[i] ELSE N[i - Len(W)]
        BY <4>1, ConcatProperties
      <4>3. QED
        BY <2>1, <4>2
    <3>2. Len(W) \in Nat /\ Len(N) \in Nat /\ Len(V) \in Nat /\ Len(A) \in Nat
      BY <2>2, <2>3, <2>4, LenProperties
    <3>3. \A i \in 1..Len(W) : i \in 1..(Len(W) + Len(N)) /\ i <= Len(W)
      BY <3>2
    <3>4. \A i \in 1..(Len(W) + Len(N)) : i > Len(W) => ~(i <= Len(W)) /\ i - Len(W) \in 1..Len(N)
      BY <3>2
    <3>5. QED
      BY <3>1, <3>2, <3>3, <3>4
  <2>9. ASSUME NEW t \in DOMAIN trackers PROVE \E j \in 1..Len(W) : W[j] = trackers[t].added
    <3>1. PICK j \in 1..Len(A) : A[j] = trackers[t].added
      <4>1. trackers[t].added \in Range(A) /\ Range(A) = {A[j] : j \in 1..Len(A)}
        BY <2>2, RangeEquality
      <4>2. QED
        BY <4>1
    <3>2. Len(V) + j \in 1..Len(W) /\ W[Len(V) + j] = A[j]
      BY <2>4, <2>5, <2>8
    <3>3. QED
      BY <3>1, <3>2
  <2>10. ASSUME NEW i \in 1..Len(Replay), i <= Len(W)
         PROVE  \/ sent[Replay[i]].kind = "version"
                \/ sent[Replay[i]].kind = "added" /\ Replay[i] = trackers[sent[Replay[i]].id].added
    <3>1. i \in 1..Len(W) /\ Replay[i] = W[i] /\ W[i] \in Range(V) \cup Range(A)
      BY <2>4, <2>6, <2>8, <2>10
    <3>2. CASE W[i] \in Range(V)
      BY <2>3, <3>1, <3>2 DEF CacheIsTrue
    <3>3. CASE W[i] \in Range(A)
      BY <2>2, <3>1, <3>3 DEF EntriesAreTrue, IsFrame
    <3>4. QED
      BY <3>1, <3>2, <3>3
  <2>11. ASSUME NEW i \in 1..Len(Replay), i > Len(W)
         PROVE  /\ sent[Replay[i]].kind \in News /\ sent[Replay[i]].id \in DOMAIN trackers
                /\ Replay[i] > trackers[sent[Replay[i]].id].added
                /\ sent[Replay[i]].kind = "pose" =>
                     Replay[i] = trackers[sent[Replay[i]].id].pose /\ Replay[i] > horizon /\ Replay[i] # 0
    <3>1. Replay[i] \in Range(N)
      BY <2>7, <2>8, <2>11
    <3>2. PICK t \in DOMAIN trackers :
            Replay[i] # 0 /\ (Replay[i] = trackers[t].status \/ (Replay[i] = trackers[t].pose /\ Replay[i] > horizon))
      BY <2>2, <3>1
    <3>3. CASE Replay[i] = trackers[t].status
      BY <3>2, <3>3 DEF EntriesAreTrue, IsFrame, News
    <3>4. CASE Replay[i] = trackers[t].pose /\ Replay[i] > horizon
      BY <3>2, <3>4 DEF EntriesAreTrue, IsFrame, News
    <3>5. QED
      BY <3>2, <3>3, <3>4
  <2>12. ASSUME NEW i \in 1..Len(Replay) PROVE NewsFollows(Replay[i], i, Replay)
    <3>1. CASE i <= Len(W)
      BY <2>10, <3>1 DEF NewsFollows, News
    <3>2. CASE i > Len(W)
      <4>1. PICK j \in 1..Len(W) : W[j] = trackers[sent[Replay[i]].id].added
        BY <2>9, <2>11, <3>2
      <4>2. j \in 1..(i - 1) /\ Replay[j] = W[j]
        BY <2>8, <3>2, <4>1
      <4>3. QED
        BY <2>11, <3>2, <4>1, <4>2 DEF NewsFollows
    <3>3. QED
      BY <2>8, <3>1, <3>2
  <2>13. \A t \in DOMAIN trackers : \E j \in 1..Len(Replay) : Replay[j] = trackers[t].added
    BY <2>8, <2>9
  <2>14. ASSUME NEW i \in 1..Len(Replay)
         PROVE  /\ sent[Replay[i]].kind # "action"
                /\ sent[Replay[i]].kind = "added" => Replay[i] = trackers[sent[Replay[i]].id].added
                /\ sent[Replay[i]].kind = "pose" =>
                     /\ Replay[i] > horizon /\ sent[Replay[i]].id \in DOMAIN trackers
                     /\ Replay[i] = trackers[sent[Replay[i]].id].pose /\ Replay[i] # 0
    <3>1. CASE i <= Len(W)
      BY <2>10, <3>1
    <3>2. CASE i > Len(W)
      BY <2>11, <3>2 DEF News
    <3>3. QED
      BY <2>8, <3>1, <3>2
  <2>15. QED
    BY <1>2, <2>8, <2>12, <2>13, <2>14 DEF T
<1>3. QED
  BY <1>1, <1>2

-----------------------------------------------------------------------------
\* A news frame follows its identity in a stream q of frames out of S.
OwnIn(S, n) == {m \in 1..n : S[m].kind = "added" /\ S[m].id = S[n].id}
BeforeIn(S, q, i) == {j \in 1..i : S[q[j]].kind = "added" /\ S[q[j]].id = S[q[i]].id}
FollowsIn(S, q, i) ==
  S[q[i]].kind \in {"pose", "on", "off"} =>
    {m \in OwnIn(S, q[i]) : \A k \in OwnIn(S, q[i]) : k <= m} =
      {q[j] : j \in {j \in BeforeIn(S, q, i) : \A k \in BeforeIn(S, q, i) : k <= j}}

\* The property about poses, frame by frame of the stream.
LEMMA FollowsMeans ==
  PoseFollowsItsIdentity <=> (protocol = "Feeder" => \A i \in 1..Len(stream) : FollowsIn(sent, stream, i))
BY DEF PoseFollowsItsIdentity, IdentityOf, FollowsIn, OwnIn, BeforeIn

\* More frames, or a longer stream, change nothing for what is already there.
LEMMA FollowsStays ==
  ASSUME NEW S, NEW R, NEW q, NEW r, NEW i \in Nat, i > 0, FollowsIn(S, q, i),
         \A j \in 1..i : r[j] = q[j] /\ R[q[j]] = S[q[j]],
         \A m \in 1..q[i] : R[m] = S[m]
  PROVE  FollowsIn(R, r, i)
<1>1. i \in 1..i /\ r[i] = q[i] /\ R[q[i]] = S[q[i]]
  OBVIOUS
<1>2. OwnIn(R, r[i]) = OwnIn(S, q[i])
  BY <1>1 DEF OwnIn
<1>3. BeforeIn(R, r, i) = BeforeIn(S, q, i)
  BY <1>1 DEF BeforeIn
<1> DEFINE Ends == {j \in BeforeIn(S, q, i) : \A k \in BeforeIn(S, q, i) : k <= j}
<1>4. \A j \in Ends : r[j] = q[j]
  BY DEF BeforeIn
<1>5. {r[j] : j \in Ends} = {q[j] : j \in Ends}
  BY <1>4
<1>6. QED
  BY <1>1, <1>2, <1>3, <1>5 DEF FollowsIn

\* Frame a is the latest announcement in S, and the last one in the stream.
LEMMA FollowsAnnounced ==
  ASSUME NEW S, NEW q, NEW i \in Nat, i > 0, NEW a \in Nat, q[i] \in Nat,
         a \in OwnIn(S, q[i]), \A m \in OwnIn(S, q[i]) : m <= a,
         NEW j \in BeforeIn(S, q, i), q[j] = a, \A k \in BeforeIn(S, q, i) : k <= j
  PROVE  FollowsIn(S, q, i)
<1>1. {m \in OwnIn(S, q[i]) : \A k \in OwnIn(S, q[i]) : k <= m} = {a}
  <2>1. \A m \in OwnIn(S, q[i]) : m \in Nat
    BY DEF OwnIn
  <2>2. ASSUME NEW m \in OwnIn(S, q[i]), \A k \in OwnIn(S, q[i]) : k <= m PROVE m = a
    BY <2>1, <2>2
  <2>3. QED
    BY <2>2
<1>2. {k \in BeforeIn(S, q, i) : \A l \in BeforeIn(S, q, i) : l <= k} = {j}
  <2>1. \A k \in BeforeIn(S, q, i) : k \in Nat
    BY DEF BeforeIn
  <2>2. ASSUME NEW k \in BeforeIn(S, q, i), \A l \in BeforeIn(S, q, i) : l <= k PROVE k = j
    BY <2>1, <2>2
  <2>3. QED
    BY <2>2
<1>3. QED
  BY <1>1, <1>2 DEF FollowsIn

\* A pose of a tracker nobody announced follows nothing.
LEMMA FollowsNothing ==
  ASSUME NEW S, NEW q, NEW i \in Nat, OwnIn(S, q[i]) = {}, BeforeIn(S, q, i) = {}
  PROVE  FollowsIn(S, q, i)
BY DEF FollowsIn

\* What the frames of the two protocols look like.
LEMMA FrameFacts ==
  \A p \in Protocols : \A f \in Frames(p) :
    /\ f.kind \in {"setup", "action", "version", "added", "on", "off", "pose"}
    /\ f.kind = "setup" => p = "SolarXr"
    /\ f.kind \in {"version", "added", "on", "off", "pose"} => p = "Feeder"
    /\ f.kind \in {"added", "on", "off", "pose"} => f.id \in Trackers
    /\ p = "Feeder" /\ f.kind \in {"version", "action"} => f.id = 0
BY DEF Protocols, Frames

\* The parts of TypeOK that the proofs use most.
LEMMA Typed ==
  ASSUME TypeOK
  PROVE  /\ Len(sent) \in Nat /\ Len(stream) \in Nat /\ Len(pending) \in Nat /\ Len(setup) \in Nat
         /\ MaxSent \in Nat /\ Len(sent) <= MaxSent /\ horizon \in Nat /\ session \in Nat /\ Len(replies) \in Nat
         /\ \A n \in 1..Len(sent) : sent[n] \in Frames(protocol)
         /\ \A i \in 1..Len(stream) : stream[i] \in 1..Len(sent)
         /\ \A i \in 1..Len(pending) : pending[i] \in 1..Len(sent)
         /\ \A i \in 1..Len(setup) : setup[i] \in 1..Len(sent)
<1>1. /\ sent \in Seq(Frames(protocol)) /\ stream \in Seq(1..Len(sent)) /\ pending \in Seq(1..Len(sent))
      /\ setup \in Seq(1..Len(sent)) /\ replies \in Seq(1..session)
      /\ horizon \in 0..Len(sent) /\ session \in Nat /\ Len(sent) <= MaxSent
  BY DEF TypeOK
<1> HIDE DEF TypeOK
<1>2. /\ Len(sent) \in Nat /\ Len(stream) \in Nat /\ Len(pending) \in Nat /\ Len(setup) \in Nat
      /\ Len(replies) \in Nat
  BY <1>1, LenProperties
<1>3. /\ \A n \in 1..Len(sent) : sent[n] \in Frames(protocol)
      /\ \A i \in 1..Len(stream) : stream[i] \in 1..Len(sent)
  BY <1>1, ElementOfSeq
<1>4. /\ \A i \in 1..Len(pending) : pending[i] \in 1..Len(sent)
      /\ \A i \in 1..Len(setup) : setup[i] \in 1..Len(sent)
  BY <1>1, ElementOfSeq
<1>5. MaxSent \in Nat /\ horizon \in Nat
  BY <1>1, <1>2, BoundsAssumption
<1>6. QED
  BY <1>1, <1>2, <1>3, <1>4, <1>5

\* The same of the state after a step.
LEMMA FollowsMeansNext ==
  PoseFollowsItsIdentity' <=>
    (protocol' = "Feeder" => \A i \in 1..Len(stream') : FollowsIn(sent', stream', i))
BY DEF PoseFollowsItsIdentity, IdentityOf, FollowsIn, OwnIn, BeforeIn

-----------------------------------------------------------------------------
\* The steps.  First what most of them leave alone.
LEMMA SameSession ==
  ASSUME IInv, UNCHANGED <<protocol, sent, setup, version, trackers>>
  PROVE  CacheIsTrue' /\ EntriesAreTrue'
BY DEF IInv, CacheIsTrue, EntriesAreTrue, IsFrame

\* The session in the stream is as it was when no frame is sent.
LEMMA SameStream ==
  ASSUME IInv, UNCHANGED <<protocol, sent, stream>>
  PROVE  SetupBeforeActions' /\ PoseFollowsItsIdentity'
<1>1. SetupBeforeActions'
  BY DEF IInv, SetupBeforeActions
<1>2. PoseFollowsItsIdentity'
  BY FollowsMeans, FollowsMeansNext DEF IInv
<1>3. QED
  BY <1>1, <1>2

\* Nothing has been sent, cached or replayed.
LEMMA InitIInv == Init => IInv
<1>1. SUFFICES ASSUME Init PROVE IInv
  OBVIOUS
<1>2. /\ protocol \in Protocols /\ sent = <<>> /\ horizon = 0 /\ setup = <<>> /\ version = 0
      /\ conn = "none" /\ alive = FALSE /\ session = 0 /\ pending = <<>> /\ stream = <<>> /\ done = 0
      /\ replies = <<>> /\ up \in BOOLEAN /\ closed = FALSE
      /\ live = {} /\ runs = [n \in 1..MaxSent |-> 0] /\ heard = 0
      /\ DOMAIN trackers = {}
  BY <1>1 DEF Init
<1>8. IsFiniteSet(DOMAIN trackers) /\ Cardinality(DOMAIN trackers) = 0
  <2>1. IsFiniteSet({}) /\ Cardinality({}) = 0
    BY FS_EmptySet
  <2>2. QED
    BY <1>2, <2>1
<1>3. TypeOK
  <2>1. MaxSent \in Nat /\ MaxSetup \in Nat /\ MaxTrackers \in Nat /\ Len(<<>>) = 0
    BY BoundsAssumption, EmptySeq
  <2>2. /\ protocol \in Protocols /\ sent \in Seq(Frames(protocol)) /\ setup \in Seq(1..Len(sent))
        /\ pending \in Seq(1..Len(sent)) /\ stream \in Seq(1..Len(sent)) /\ replies \in Seq(1..session)
    BY <1>2, EmptySeq
  <2>3. /\ Len(sent) <= MaxSent /\ horizon \in 0..Len(sent) /\ Len(setup) <= MaxSetup
        /\ version \in 0..Len(sent) /\ done \in 0..Len(stream) /\ session \in Nat /\ heard \in 0..session
    BY <1>2, <2>1
  <2>4. /\ DOMAIN trackers \subseteq Trackers /\ Cardinality(DOMAIN trackers) <= MaxTrackers
        /\ \A t \in DOMAIN trackers :
             trackers[t] \in [added : 1..Len(sent), status : 0..Len(sent), pose : 0..Len(sent)]
    BY <1>2, <1>8, <2>1
  <2>5. /\ conn \in {"none", "replaying", "attached"} /\ {alive, up, closed} \subseteq BOOLEAN
        /\ live \subseteq 1..Len(sent) /\ runs \in [1..MaxSent -> Nat]
    BY <1>2
  <2>6. QED
    BY <2>2, <2>3, <2>4, <2>5 DEF TypeOK
<1>4. CacheIsTrue /\ EntriesAreTrue /\ LinkIsFresh /\ ActionsAreLive
  BY <1>2, <1>8 DEF CacheIsTrue, EntriesAreTrue, LinkIsFresh, ActionsAreLive
<1>5. /\ SetupIsComing /\ IdentitiesArrive /\ ReplayIsInOrder
      /\ ActionsRunAtMostOnce /\ SetupBeforeActions
  BY <1>2 DEF SetupIsComing, IdentitiesArrive, ReplayIsInOrder, ActionsRunAtMostOnce, SetupBeforeActions
<1>6. PoseFollowsItsIdentity
  BY <1>2, FollowsMeans
<1>7. QED
  BY <1>3, <1>4, <1>5, <1>6 DEF IInv

\* The backend connection is dropped.
LEMMA DropIInv ==
  ASSUME IInv, Close \/ ReplayFails \/ BackendEnd
  PROVE  IInv'
<1>1. /\ UNCHANGED <<protocol, sent, horizon, setup, version, trackers, session, up, live, runs, heard>>
      /\ conn' = "none" /\ alive' = FALSE /\ pending' = <<>> /\ stream' = <<>> /\ done' = 0
      /\ replies' = <<>> /\ closed' \in {closed, TRUE}
  BY DEF Close, ReplayFails, BackendEnd, Drop, cacheVars
<1>2. TypeOK'
  <2>1. /\ pending' \in Seq(1..Len(sent)) /\ stream' \in Seq(1..Len(sent)) /\ replies' \in Seq(1..session)
        /\ done' \in 0..Len(stream')
    <3>1. Len(<<>>) = 0
      BY EmptySeq
    <3>2. QED
      BY <1>1, <3>1, EmptySeq
  <2>2. {alive', up', closed'} \subseteq BOOLEAN
    BY <1>1 DEF IInv, TypeOK
  <2>3. TypeOK
    BY DEF IInv
  <2>4. QED
    BY <1>1, <2>1, <2>2, <2>3 DEF TypeOK
<1>3. CacheIsTrue' /\ EntriesAreTrue'
  BY <1>1, SameSession
<1>4. LinkIsFresh' /\ ActionsAreLive'
  BY <1>1 DEF IInv, LinkIsFresh, ActionsAreLive
<1>5. /\ SetupIsComing' /\ IdentitiesArrive' /\ ReplayIsInOrder'
      /\ ActionsRunAtMostOnce' /\ SetupBeforeActions'
  BY <1>1 DEF IInv, SetupIsComing, IdentitiesArrive, ReplayIsInOrder, ActionsRunAtMostOnce, SetupBeforeActions
<1>6. PoseFollowsItsIdentity'
  BY <1>1, FollowsMeansNext
<1>7. QED
  BY <1>2, <1>3, <1>4, <1>5, <1>6 DEF IInv

\* Steps that touch neither the session nor what has been written.
LEMMA QuietIInv ==
  ASSUME IInv, BackendFrame \/ Reply \/ Start \/ Age \/ \E listening \in BOOLEAN : HangUp(listening)
  PROVE  IInv'
<1>1. /\ UNCHANGED <<protocol, sent, setup, version, trackers, conn, session, pending, stream, done,
                     live, runs, closed>>
      /\ horizon' \in {horizon} \cup {h \in {horizon + 1} : horizon < Len(sent)}
      /\ alive' \in {alive, FALSE} /\ up' \in {up} \cup BOOLEAN
      /\ \/ replies' = replies /\ heard' = heard
         \/ replies # <<>> /\ replies' = Tail(replies) /\ heard' = Head(replies)
         \/ alive /\ replies' = Append(replies, session) /\ heard' = heard
  BY DEF BackendFrame, Reply, Start, Age, HangUp, cacheVars, linkVars
<1>2. /\ replies \in Seq(1..session) /\ \A i \in 1..Len(replies) : replies[i] = session
      /\ (conn = "none" => replies = <<>> /\ ~alive) /\ (conn # "none" => session > 0)
      /\ session \in Nat /\ heard \in 0..session
  BY DEF IInv, TypeOK, LinkIsFresh
<1>3. /\ replies' \in Seq(1..session) /\ \A i \in 1..Len(replies') : replies'[i] = session
      /\ heard' \in 0..session /\ (conn = "none" => replies' = <<>>)
  <2>1. CASE replies' = replies /\ heard' = heard
    BY <1>2, <2>1
  <2>2. CASE replies # <<>> /\ replies' = Tail(replies) /\ heard' = Head(replies)
    BY <1>2, <2>2
  <2>3. CASE alive /\ replies' = Append(replies, session) /\ heard' = heard
    BY <1>2, <2>3
  <2>4. QED
    BY <1>1, <2>1, <2>2, <2>3
<1>4. TypeOK'
  <2>1. horizon' \in 0..Len(sent)
    <3>1. horizon \in 0..Len(sent) /\ Len(sent) \in Nat
      BY Typed DEF IInv, TypeOK
    <3>2. QED
      BY <1>1, <3>1
  <2>2. {alive', up', closed'} \subseteq BOOLEAN
    BY <1>1 DEF IInv, TypeOK
  <2>3. QED
    BY <1>1, <1>3, <2>1, <2>2 DEF IInv, TypeOK
<1>5. CacheIsTrue' /\ EntriesAreTrue' /\ SetupBeforeActions' /\ PoseFollowsItsIdentity'
  BY <1>1, SameSession, SameStream
<1>6. LinkIsFresh'
  <2>1. LinkIsFresh
    BY DEF IInv
  <2>2. conn = "none" => ~alive'
    BY <1>1, <1>2
  <2>3. QED
    BY <1>1, <1>2, <1>3, <2>1, <2>2 DEF LinkIsFresh
<1>7. ActionsAreLive' /\ ActionsRunAtMostOnce'
  BY <1>1 DEF IInv, ActionsAreLive, ActionsRunAtMostOnce
<1>8. SetupIsComing' /\ IdentitiesArrive'
  BY <1>1 DEF IInv, SetupIsComing, IdentitiesArrive, IsFrame
<1>9. ReplayIsInOrder'
  BY <1>1 DEF IInv, ReplayIsInOrder, NewsFollows
<1>10. QED
  BY <1>4, <1>5, <1>6, <1>7, <1>8, <1>9 DEF IInv

\* The backend handles a frame: an action for the first time.
LEMMA HandleIInv ==
  ASSUME IInv, Handle
  PROVE  IInv'
<1> DEFINE n == stream[done + 1]
<1>1. /\ UNCHANGED <<protocol, sent, horizon, setup, version, trackers, conn, alive, up, session,
                     pending, stream, live, replies, heard, closed>>
      /\ done < Len(stream) /\ done' = done + 1
      /\ runs' = IF sent[n].kind = "action" THEN [runs EXCEPT ![n] = @ + 1] ELSE runs
  BY DEF Handle, cacheVars
<1>2. /\ done \in Nat /\ Len(stream) \in Nat /\ done + 1 \in 1..Len(stream) /\ n \in 1..Len(sent)
      /\ Len(sent) \in Nat /\ Len(sent) <= MaxSent /\ MaxSent \in Nat /\ n \in 1..MaxSent
      /\ runs \in [1..MaxSent -> Nat]
  <2>1. done \in Nat /\ Len(stream) \in Nat /\ Len(sent) \in Nat /\ MaxSent \in Nat /\ Len(sent) <= MaxSent
    BY Typed DEF IInv, TypeOK
  <2>2. done + 1 \in 1..Len(stream)
    BY <1>1, <2>1
  <2>3. n \in 1..Len(sent)
    BY <2>2, Typed DEF IInv
  <2>4. runs \in [1..MaxSent -> Nat]
    BY DEF IInv, TypeOK
  <2>5. n \in 1..MaxSent
    <3> HIDE DEF n
    <3>1. QED
      BY <2>1, <2>3
  <2>6. QED
    BY <2>1, <2>2, <2>3, <2>4, <2>5
<1>3. TypeOK'
  <2>1. runs' \in [1..MaxSent -> Nat] /\ done' \in 0..Len(stream)
    BY <1>1, <1>2
  <2>2. QED
    BY <1>1, <2>1 DEF IInv, TypeOK
<1>4. CacheIsTrue' /\ EntriesAreTrue' /\ SetupBeforeActions' /\ PoseFollowsItsIdentity'
  BY <1>1, SameSession, SameStream
<1>5. sent[n].kind = "action" =>
        runs[n] = 0 /\ n \in live /\ runs' = [runs EXCEPT ![n] = 1]
        /\ \A j \in 1..Len(stream) : stream[j] = n => j = done + 1
  <2>1. SUFFICES ASSUME sent[n].kind = "action"
                 PROVE  runs[n] = 0 /\ n \in live /\ runs' = [runs EXCEPT ![n] = 1]
                        /\ \A j \in 1..Len(stream) : stream[j] = n => j = done + 1
    OBVIOUS
  <2>2. /\ n \in live /\ runs[n] = 0 /\ \A j \in 1..Len(stream) : stream[j] = n => j = done + 1
    <3>1. ActionsAreLive /\ done + 1 > done
      BY <1>2 DEF IInv
    <3>2. QED
      BY <1>2, <2>1, <3>1 DEF ActionsAreLive
  <2> HIDE DEF n
  <2>3. runs' = [runs EXCEPT ![n] = runs[n] + 1]
    BY <1>1, <2>1
  <2>4. runs[n] + 1 = 1
    BY <2>2
  <2>5. QED
    BY <2>2, <2>3, <2>4
<1>6. ActionsAreLive'
  <2>1. \A m \in 1..MaxSent : m > Len(sent) => runs'[m] = 0
    BY <1>1, <1>2, <1>5 DEF IInv, ActionsAreLive
  <2>2. ASSUME NEW i \in 1..Len(stream), sent[stream[i]].kind = "action", i > done + 1
        PROVE  runs'[stream[i]] = 0
    <3>1. stream[i] # n /\ runs[stream[i]] = 0 /\ stream[i] \in 1..MaxSent
      <4>1. i # done + 1 /\ i > done
        BY <1>2, <2>2
      <4>2. stream[i] \in 1..Len(sent)
        BY Typed DEF IInv
      <4>3. runs[stream[i]] = 0
        <5>1. ActionsAreLive
          BY DEF IInv
        <5>2. QED
          BY <2>2, <4>1, <5>1 DEF ActionsAreLive
      <4>4. stream[i] # n
        BY <1>2, <1>5, <2>2, <4>1
      <4>5. QED
        BY <1>2, <4>2, <4>3, <4>4
    <3>2. QED
      BY <1>1, <1>2, <1>5, <3>1
  <2>3. QED
    BY <1>1, <2>1, <2>2 DEF IInv, ActionsAreLive
<1>7. ActionsRunAtMostOnce'
  BY <1>1, <1>2, <1>5 DEF IInv, ActionsRunAtMostOnce
<1>8. LinkIsFresh' /\ SetupIsComing' /\ IdentitiesArrive'
  BY <1>1 DEF IInv, LinkIsFresh, SetupIsComing, IdentitiesArrive, IsFrame
<1>9. ReplayIsInOrder'
  BY <1>1 DEF IInv, ReplayIsInOrder, NewsFollows
<1>10. QED
  BY <1>3, <1>4, <1>6, <1>7, <1>8, <1>9 DEF IInv

\* A new connection, and the replay for it.
LEMMA ConnectIInv ==
  ASSUME IInv, Connect
  PROVE  IInv'
<1>1. /\ UNCHANGED <<protocol, sent, horizon, setup, version, trackers, up, stream, done, live, runs,
                     replies, heard, closed>>
      /\ conn = "none" /\ conn' = "replaying" /\ alive' = TRUE /\ session' = session + 1
      /\ pending' = Replay
  BY DEF Connect, cacheVars
<1>2. stream = <<>> /\ replies = <<>> /\ session \in Nat /\ heard \in 0..session
  BY <1>1 DEF IInv, TypeOK, LinkIsFresh
<1>3. /\ Replay \in Seq(1..Len(sent)) /\ (protocol = "SolarXr" => Replay = setup)
      /\ \A i \in 1..Len(Replay) :
           /\ sent[Replay[i]].kind # "action"
           /\ sent[Replay[i]].kind = "added" => Replay[i] = trackers[sent[Replay[i]].id].added
           /\ NewsFollows(Replay[i], i, Replay)
      /\ protocol = "Feeder" => \A t \in DOMAIN trackers :
           \E j \in 1..Len(Replay) : Replay[j] = trackers[t].added
  BY ReplayFacts DEF IInv
<1> HIDE DEF Replay
<1>4. TypeOK'
  <2>1. replies' \in Seq(1..session') /\ heard' \in 0..session' /\ session' \in Nat
    BY <1>1, <1>2, EmptySeq
  <2>2. {alive', up', closed'} \subseteq BOOLEAN /\ TypeOK
    BY <1>1 DEF IInv, TypeOK
  <2>3. QED
    BY <1>1, <1>3, <2>1, <2>2 DEF TypeOK
<1>5. CacheIsTrue' /\ EntriesAreTrue' /\ SetupBeforeActions' /\ PoseFollowsItsIdentity'
  BY <1>1, SameSession, SameStream
<1>6. LinkIsFresh' /\ IdentitiesArrive' /\ ActionsRunAtMostOnce'
  BY <1>1, <1>2 DEF IInv, LinkIsFresh, IdentitiesArrive, ActionsRunAtMostOnce
<1>7. ActionsAreLive'
  BY <1>1, <1>2, <1>3 DEF IInv, ActionsAreLive
<1>8. SetupIsComing'
  BY <1>1, <1>3 DEF IInv, SetupIsComing, CacheIsTrue
<1>9. ReplayIsInOrder'
  <2>1. PICK r : r = Replay
    OBVIOUS
  <2>2. stream' \o pending' = r
    BY <1>1, <1>2, <1>3, <2>1, ConcatEmptySeq
  <2>3. \A i \in 1..Len(r) : NewsFollows(r[i], i, r)'
    BY <1>1, <1>3, <2>1 DEF NewsFollows
  <2>4. /\ \A i \in 1..Len(r) : sent'[r[i]].kind = "added" => r[i] = trackers'[sent'[r[i]].id].added
        /\ protocol' = "Feeder" => \A t \in DOMAIN trackers' : \E j \in 1..Len(r) : r[j] = trackers'[t].added
    BY <1>1, <1>3, <2>1
  <2> HIDE DEF NewsFollows
  <2>5. QED
    BY <2>2, <2>3, <2>4 DEF ReplayIsInOrder
<1>10. QED
  BY <1>4, <1>5, <1>6, <1>7, <1>8, <1>9 DEF IInv

\* The replay has been written: every identity is there.
LEMMA AttachIInv ==
  ASSUME IInv, Attach
  PROVE  IInv'
<1>1. /\ UNCHANGED <<protocol, sent, horizon, setup, version, trackers, alive, up, session, pending,
                     stream, done, live, runs, replies, heard, closed>>
      /\ conn = "replaying" /\ pending = <<>> /\ conn' = "attached"
  BY DEF Attach, cacheVars
<1>2. TypeOK' /\ LinkIsFresh' /\ ActionsRunAtMostOnce' /\ ReplayIsInOrder'
  BY <1>1 DEF IInv, TypeOK, LinkIsFresh, ActionsRunAtMostOnce, ReplayIsInOrder
<1>3. CacheIsTrue' /\ EntriesAreTrue' /\ SetupBeforeActions' /\ PoseFollowsItsIdentity'
  BY <1>1, SameSession, SameStream
<1>4. ActionsAreLive' /\ SetupIsComing'
  BY <1>1 DEF IInv, ActionsAreLive, SetupIsComing
<1>5. IdentitiesArrive'
  <2>1. SUFFICES ASSUME NEW t \in DOMAIN trackers
                 PROVE  \E j \in 1..Len(stream) :
                          /\ stream[j] = trackers[t].added
                          /\ \A k \in (j + 1)..Len(stream) : ~IsFrame(stream[k], "added", t)
    BY <1>1 DEF IdentitiesArrive, IsFrame
  <2>2. /\ Len(stream) \in Nat /\ trackers[t].added \in 1..Len(sent) /\ IsFrame(trackers[t].added, "added", t)
        /\ stream \in Seq(1..Len(sent)) /\ protocol \in Protocols /\ sent[trackers[t].added] \in Frames(protocol)
    <3>1. trackers[t].added \in 1..Len(sent) /\ stream \in Seq(1..Len(sent)) /\ protocol \in Protocols
      BY DEF IInv, TypeOK
    <3>2. QED
      BY <3>1, Typed DEF IInv, EntriesAreTrue
  <2>3. protocol = "Feeder"
    BY <2>2, FrameFacts DEF IsFrame
  <2>4. stream \o pending = stream
    BY <1>1, <2>2, ConcatEmptySeq
  <2>5. /\ \E j \in 1..Len(stream) : stream[j] = trackers[t].added
        /\ \A i \in 1..Len(stream) : sent[stream[i]].kind = "added" => stream[i] = trackers[sent[stream[i]].id].added
    BY <1>1, <2>3, <2>4 DEF IInv, ReplayIsInOrder
  <2> DEFINE S == {j \in 1..Len(stream) : IsFrame(stream[j], "added", t)}
  <2>6. S # {} /\ S \in SUBSET (1..Len(stream))
    BY <2>2, <2>5
  <2>7. PICK j \in S : \A k \in S : k <= j
    <3> HIDE DEF S
    <3>1. QED
      BY <2>2, <2>6, LastPlace
  <2>8. stream[j] = trackers[t].added
    BY <2>5 DEF IsFrame
  <2>9. \A k \in (j + 1)..Len(stream) : ~IsFrame(stream[k], "added", t)
    <3>1. \A k \in (j + 1)..Len(stream) : k \in 1..Len(stream) /\ ~(k <= j)
      BY <2>2
    <3>2. QED
      BY <2>7, <3>1
  <2>10. QED
    BY <2>8, <2>9
<1>6. QED
  BY <1>2, <1>3, <1>4, <1>5 DEF IInv

\* A frame of the replay is written: what the backend gets in all is the same.
LEMMA ReplayFrameIInv ==
  ASSUME IInv, ReplayFrame
  PROVE  IInv'
<1> DEFINE n == Head(pending)
           i0 == Len(stream) + 1
<1>1. /\ UNCHANGED <<protocol, sent, horizon, setup, version, trackers, conn, alive, up, session,
                     done, live, runs, replies, heard, closed>>
      /\ conn = "replaying" /\ pending # <<>>
      /\ stream' = Append(stream, n) /\ pending' = Tail(pending)
  BY DEF ReplayFrame, cacheVars
<1>2. PICK r : r = stream \o pending
  OBVIOUS
<1>3. /\ stream \in Seq(1..Len(sent)) /\ pending \in Seq(1..Len(sent)) /\ protocol \in Protocols
      /\ done \in 0..Len(stream)
  BY DEF IInv, TypeOK
<1>4. /\ n \in 1..Len(sent) /\ pending' \in Seq(1..Len(sent)) /\ Len(pending) \in Nat /\ Len(pending) > 0
      /\ n = pending[1] /\ Len(pending') = Len(pending) - 1
      /\ \A k \in 1..Len(pending') : pending'[k] = pending[k + 1]
  <2>1. Len(pending) \in Nat /\ Len(pending) > 0 /\ n = pending[1]
    BY <1>1, <1>3, EmptySeq
  <2>2. QED
    BY <1>1, <1>3, <2>1, HeadTailProperties
<1>5. /\ stream' \in Seq(1..Len(sent)) /\ Len(stream') = i0 /\ Len(stream) \in Nat
      /\ stream'[i0] = n /\ \A k \in 1..Len(stream) : stream'[k] = stream[k]
  BY <1>1, <1>3, <1>4, AppendProperties, LenProperties
<1>6. stream' \o pending' = r
  <2>1. stream' = stream \o <<n>> /\ pending = <<n>> \o Tail(pending)
    <3>1. pending = <<n>> \o Tail(pending)
      BY <1>1, <1>3
    <3>2. QED
      BY <1>1, <1>3, <1>4, <3>1, AppendIsConcat
  <2> DEFINE T == 1..Len(sent)
             x == <<n>>
  <2>2. x \in Seq(T) /\ stream \in Seq(T) /\ pending' \in Seq(T)
    BY <1>3, <1>4
  <2>3. (stream \o x) \o pending' = stream \o (x \o pending')
    <3> HIDE DEF T, x
    <3>1. QED
      BY <2>2, ConcatAssociative
  <2>4. QED
    BY <1>1, <1>2, <2>1, <2>3
<1>7. /\ Len(r) \in Nat /\ i0 \in 1..Len(r) /\ r[i0] = n /\ \A k \in 1..Len(stream) : k \in 1..Len(r) /\ r[k] = stream[k]
  <2>1. /\ Len(r) = Len(stream) + Len(pending)
        /\ \A k \in 1..(Len(stream) + Len(pending)) :
             r[k] = IF k <= Len(stream) THEN stream[k] ELSE pending[k - Len(stream)]
    BY <1>2, <1>3, ConcatProperties
  <2>2. i0 - Len(stream) = 1 /\ i0 \in 1..(Len(stream) + Len(pending)) /\ ~(i0 <= Len(stream))
    BY <1>4, <1>5
  <2> HIDE DEF n, i0
  <2>3. r[i0] = n
    BY <1>4, <2>1, <2>2
  <2>4. \A k \in 1..Len(stream) : k \in 1..(Len(stream) + Len(pending)) /\ k <= Len(stream)
    BY <1>4, <1>5
  <2>5. QED
    BY <1>4, <1>5, <2>1, <2>2, <2>3, <2>4
<1>8. /\ \A i \in 1..Len(r) : /\ sent[r[i]].kind = "added" => r[i] = trackers[sent[r[i]].id].added
                              /\ NewsFollows(r[i], i, r)
      /\ protocol = "Feeder" => \A t \in DOMAIN trackers : \E j \in 1..Len(r) : r[j] = trackers[t].added
  <2> HIDE DEF NewsFollows
  <2>1. QED
    BY <1>1, <1>2 DEF IInv, ReplayIsInOrder
<1> HIDE DEF n, i0
<1>9. TypeOK'
  <2>1. done' \in 0..Len(stream')
    BY <1>1, <1>3, <1>5 DEF i0
  <2>2. QED
    BY <1>1, <1>4, <1>5, <2>1 DEF IInv, TypeOK
<1>10. CacheIsTrue' /\ EntriesAreTrue'
  BY <1>1, SameSession
<1>11. LinkIsFresh' /\ IdentitiesArrive' /\ ActionsRunAtMostOnce'
  BY <1>1 DEF IInv, LinkIsFresh, IdentitiesArrive, ActionsRunAtMostOnce
<1>12. /\ \A i \in 1..Len(stream') : sent[stream'[i]].kind # "action"
       /\ \A i \in 1..Len(pending') : sent[pending'[i]].kind # "action"
  <2>1. /\ \A i \in 1..Len(stream) : sent[stream[i]].kind # "action"
        /\ \A i \in 1..Len(pending) : sent[pending[i]].kind # "action"
    BY <1>1 DEF IInv, ActionsAreLive
  <2>2. \A i \in 1..Len(stream') : i \in 1..Len(stream) \/ i = i0
    BY <1>5 DEF i0
  <2>3. 1 \in 1..Len(pending) /\ \A i \in 1..Len(pending') : i + 1 \in 1..Len(pending)
    BY <1>4
  <2>4. QED
    <3> HIDE DEF n, i0
    <3>1. sent[n].kind # "action"
      BY <1>4, <2>1, <2>3
    <3>2. ASSUME NEW i \in 1..Len(stream') PROVE sent[stream'[i]].kind # "action"
      BY <1>5, <2>1, <2>2, <3>1
    <3>3. ASSUME NEW i \in 1..Len(pending') PROVE sent[pending'[i]].kind # "action"
      BY <1>4, <2>1, <2>3
    <3>4. QED
      BY <1>1, <3>2, <3>3
<1>13. ActionsAreLive' /\ SetupBeforeActions'
  BY <1>1, <1>12 DEF IInv, ActionsAreLive, SetupBeforeActions
<1>14. SetupIsComing'
  <2>1. SUFFICES ASSUME protocol = "SolarXr", NEW m \in 1..Len(sent), sent[m].kind = "setup"
                 PROVE  \/ \E j \in 1..Len(stream') : sent[stream'[j]] = sent[m]
                        \/ \E j \in 1..Len(pending') : sent[pending'[j]] = sent[m]
    BY <1>1 DEF SetupIsComing
  <2>2. CASE \E j \in 1..Len(stream) : sent[stream[j]] = sent[m]
    <3>1. \A j \in 1..Len(stream) : j \in 1..Len(stream')
      BY <1>5 DEF i0
    <3>2. QED
      BY <1>5, <2>2, <3>1
  <2>3. CASE \E j \in 1..Len(pending) : sent[pending[j]] = sent[m]
    <3>1. PICK j \in 1..Len(pending) : sent[pending[j]] = sent[m]
      BY <2>3
    <3>2. CASE j = 1
      <4>1. i0 \in 1..Len(stream')
        BY <1>5 DEF i0
      <4>2. QED
        BY <1>4, <1>5, <3>1, <3>2, <4>1
    <3>3. CASE j # 1
      <4>1. j - 1 \in 1..Len(pending') /\ (j - 1) + 1 = j
        BY <1>4, <3>3
      <4>2. pending'[j - 1] = pending[j]
        BY <1>4, <4>1
      <4>3. QED
        BY <3>1, <4>1, <4>2
    <3>4. QED
      BY <3>2, <3>3
  <2>4. QED
    BY <1>1, <2>1, <2>2, <2>3 DEF IInv, SetupIsComing
<1>15. PoseFollowsItsIdentity'
  <2>1. SUFFICES ASSUME protocol = "Feeder", NEW i \in 1..Len(stream') PROVE FollowsIn(sent, stream', i)
    BY <1>1, FollowsMeansNext
  <2>2. CASE i \in 1..Len(stream)
    <3>1. FollowsIn(sent, stream, i)
      BY <2>1, <2>2, FollowsMeans DEF IInv
    <3>2. i \in Nat /\ i > 0 /\ \A j \in 1..i : stream'[j] = stream[j]
      BY <1>5, <2>2
    <3>3. QED
      BY <3>1, <3>2, FollowsStays
  <2>3. CASE i = i0
    <3>1. CASE sent[n].kind \notin News
      BY <1>5, <2>3, <3>1 DEF FollowsIn, News
    <3>2. CASE sent[n].kind \in News
      <4> DEFINE t == sent[n].id
                 a == trackers[t].added
      <4>1. t \in DOMAIN trackers /\ n > a /\ \E j \in 1..(i0 - 1) : r[j] = a
        BY <1>7, <1>8, <3>2 DEF NewsFollows
      <4>2. /\ a \in 1..Len(sent) /\ IsFrame(a, "added", t) /\ Len(sent) \in Nat
            /\ \A m \in 1..Len(sent) : IsFrame(m, "added", t) => m <= a
        <5>1. a \in 1..Len(sent)
          BY <4>1 DEF IInv, TypeOK
        <5>2. QED
          BY <4>1, <5>1, Typed DEF IInv, EntriesAreTrue
      <4> HIDE DEF a, t
      <4>3. a \in OwnIn(sent, stream'[i]) /\ \A m \in OwnIn(sent, stream'[i]) : m <= a
        <5>1. \A m \in 1..n : m \in 1..Len(sent)
          BY <1>4, <4>2
        <5>2. a \in 1..n
          BY <1>4, <4>1, <4>2
        <5>3. QED
          BY <1>5, <2>3, <4>2, <5>1, <5>2 DEF OwnIn, IsFrame, t
      <4> DEFINE S == BeforeIn(sent, stream', i)
      <4>4. S \in SUBSET (1..i0) /\ \A k \in S : stream'[k] = a
        <5>1. \A k \in 1..i0 : k \in 1..Len(r) /\ stream'[k] = r[k]
          <6>1. \A k \in 1..i0 : k \in 1..Len(stream) \/ k = i0
            BY <1>5 DEF i0
          <6>2. QED
            BY <1>5, <1>7, <6>1
        <5>2. QED
          BY <1>5, <1>8, <2>3, <5>1 DEF BeforeIn, a, t
      <4>5. S # {}
        <5>1. PICK j \in 1..(i0 - 1) : r[j] = a
          BY <4>1
        <5>2. j \in 1..Len(stream) /\ j \in 1..i0
          BY <1>5 DEF i0
        <5>3. stream'[j] = a
          BY <1>5, <1>7, <5>1, <5>2
        <5>4. j \in S
          BY <1>5, <2>3, <4>2, <5>2, <5>3 DEF BeforeIn, IsFrame, t
        <5>5. QED
          BY <5>4
      <4>6. i0 \in Nat /\ i0 > 0
        BY <1>5 DEF i0
      <4>7. PICK j \in S : \A k \in S : k <= j
        <5> HIDE DEF S
        <5>1. QED
          BY <4>4, <4>5, <4>6, LastPlace
      <4>8. stream'[j] = a /\ a \in Nat /\ stream'[i] \in Nat
        BY <1>4, <1>5, <2>3, <4>2, <4>4
      <4>9. QED
        BY <2>3, <4>3, <4>6, <4>7, <4>8, FollowsAnnounced
    <3>3. QED
      BY <3>1, <3>2
  <2>4. i \in 1..Len(stream) \/ i = i0
    BY <1>5 DEF i0
  <2>5. QED
    BY <2>2, <2>3, <2>4
<1>16. ReplayIsInOrder'
  <2>1. \A i \in 1..Len(r) : NewsFollows(r[i], i, r)'
    BY <1>1, <1>8 DEF NewsFollows
  <2>2. /\ \A i \in 1..Len(r) : sent'[r[i]].kind = "added" => r[i] = trackers'[sent'[r[i]].id].added
        /\ protocol' = "Feeder" => \A t \in DOMAIN trackers' : \E j \in 1..Len(r) : r[j] = trackers'[t].added
    BY <1>1, <1>8
  <2>3. QED
    BY <1>6, <2>1, <2>2 DEF ReplayIsInOrder
<1>17. QED
  BY <1>9, <1>10, <1>11, <1>13, <1>14, <1>15, <1>16 DEF IInv

\* A frame is taken from the client: first what becomes of the history,
LEMMA FrameTaken ==
  ASSUME IInv, NEW f \in Frames(protocol), ClientFrame(f)
  PROVE  /\ UNCHANGED <<protocol, horizon, up, runs, heard, closed>>
         /\ Len(sent) \in Nat /\ Len(sent') = Len(sent) + 1 /\ Len(sent') <= MaxSent /\ MaxSent \in Nat
         /\ sent' \in Seq(Frames(protocol)) /\ sent'[Len(sent) + 1] = f
         /\ \A m \in 1..Len(sent) : sent'[m] = sent[m]
         /\ \A m \in 1..Len(sent') : m \in 1..Len(sent) \/ m = Len(sent) + 1
         /\ protocol \in Protocols /\ pending = <<>>
<1>1. /\ UNCHANGED <<protocol, horizon, up, runs, heard, closed>>
      /\ sent' = Append(sent, f) /\ Len(sent) + 1 <= MaxSent /\ conn # "replaying"
  BY DEF ClientFrame, Idle
<1>2. sent \in Seq(Frames(protocol)) /\ protocol \in Protocols /\ pending = <<>>
  BY <1>1 DEF IInv, TypeOK, LinkIsFresh
<1>3. Len(sent) \in Nat /\ MaxSent \in Nat
  BY Typed DEF IInv
<1>4. /\ sent' \in Seq(Frames(protocol)) /\ Len(sent') = Len(sent) + 1 /\ sent'[Len(sent) + 1] = f
      /\ \A m \in 1..Len(sent) : sent'[m] = sent[m]
  BY <1>1, <1>2, AppendProperties
<1>5. QED
  BY <1>1, <1>2, <1>3, <1>4

\* then what becomes of the bundles and the version frame,
LEMMA SetupTaken ==
  ASSUME IInv, NEW f \in Frames(protocol), ClientFrame(f)
  PROVE  /\ setup' \in Seq(1..Len(sent')) /\ Len(setup') <= MaxSetup /\ version' \in 0..Len(sent')
         /\ \A k \in 1..Len(setup') : sent'[setup'[k]].kind = "setup"
         /\ \A m \in 1..Len(sent') : sent'[m].kind = "setup" =>
              \E k \in 1..Len(setup') : sent'[setup'[k]] = sent'[m]
         /\ version' # 0 => sent'[version'].kind = "version"
<1> DEFINE n == Len(sent) + 1
           Is(m) == sent'[m].kind = "setup"
<1>1. /\ Len(sent) \in Nat /\ Len(sent') = n /\ sent'[n] = f
      /\ \A m \in 1..Len(sent) : sent'[m] = sent[m]
      /\ \A m \in 1..Len(sent') : m \in 1..Len(sent) \/ m = n
  BY FrameTaken
<1>2. /\ setup \in Seq(1..Len(sent)) /\ Len(setup) <= MaxSetup /\ version \in 0..Len(sent)
      /\ Len(setup) \in Nat /\ MaxSetup \in Nat /\ \A k \in 1..Len(setup) : setup[k] \in 1..Len(sent)
  BY Typed, BoundsAssumption DEF IInv, TypeOK
<1>3. /\ \A k \in 1..Len(setup) : sent[setup[k]].kind = "setup"
      /\ \A m \in 1..Len(sent) : sent[m].kind = "setup" => \E k \in 1..Len(setup) : sent[setup[k]] = sent[m]
      /\ version # 0 => sent[version].kind = "version"
  BY DEF IInv, CacheIsTrue
<1>4. /\ version' = IF f.kind = "version" THEN n ELSE version
      /\ setup' = IF f.kind = "setup" /\ \A i \in 1..Len(setup) : sent[setup[i]] # f
                    THEN Append(setup, n) ELSE setup
      /\ f.kind = "setup" => Len(setup) < MaxSetup \/ \E i \in 1..Len(setup) : sent[setup[i]] = f
  BY <1>2 DEF ClientFrame, Observe, OverLimit
<1>5. setup \in Seq(1..Len(sent'))
  <2>1. 1..Len(sent) \subseteq 1..Len(sent')
    BY <1>1
  <2>2. QED
    BY <1>2, <2>1, SeqMonotonic
<1>6. version' \in 0..Len(sent') /\ (version' # 0 => sent'[version'].kind = "version")
  BY <1>1, <1>2, <1>3, <1>4
<1>7. CASE f.kind = "setup" /\ \A i \in 1..Len(setup) : sent[setup[i]] # f
  <2>1. setup' = Append(setup, n) /\ n \in 1..Len(sent')
    BY <1>1, <1>4, <1>7
  <2>2. /\ setup' \in Seq(1..Len(sent')) /\ Len(setup') = Len(setup) + 1 /\ setup'[Len(setup) + 1] = n
        /\ \A k \in 1..Len(setup) : setup'[k] = setup[k]
    BY <1>5, <2>1, AppendProperties
  <2>3. Len(setup') <= MaxSetup
    BY <1>2, <1>4, <1>7, <2>2
  <2>4. \A k \in 1..Len(setup') : k \in 1..Len(setup) \/ k = Len(setup) + 1
    BY <1>2, <2>2
  <2>5. \A k \in 1..Len(setup) : k \in 1..Len(setup')
    BY <1>2, <2>2
  <2>6. ASSUME NEW k \in 1..Len(setup') PROVE sent'[setup'[k]].kind = "setup"
    <3>1. CASE k \in 1..Len(setup)
      <4>1. setup'[k] = setup[k] /\ setup[k] \in 1..Len(sent) /\ sent[setup[k]].kind = "setup"
        BY <1>2, <1>3, <2>2, <3>1
      <4>2. sent'[setup[k]] = sent[setup[k]]
        BY <1>1, <4>1
      <4>3. QED
        BY <4>1, <4>2
    <3>2. CASE k = Len(setup) + 1
      <4>1. setup'[k] = n
        BY <2>2, <3>2
      <4>2. QED
        BY <1>1, <1>7, <4>1
    <3>3. QED
      BY <2>4, <3>1, <3>2
  <2>7. ASSUME NEW m \in 1..Len(sent'), sent'[m].kind = "setup"
        PROVE  \E k \in 1..Len(setup') : sent'[setup'[k]] = sent'[m]
    <3>1. CASE m \in 1..Len(sent)
      <4>1. PICK k \in 1..Len(setup) : sent[setup[k]] = sent[m]
        BY <1>1, <1>3, <2>7, <3>1
      <4>2. k \in 1..Len(setup') /\ sent'[setup'[k]] = sent[setup[k]]
        BY <1>1, <1>2, <2>2, <2>5
      <4>3. QED
        BY <1>1, <3>1, <4>1, <4>2
    <3>2. CASE m = n
      <4>1. Len(setup) + 1 \in 1..Len(setup')
        BY <1>2, <2>2
      <4>2. QED
        BY <2>2, <3>2, <4>1
    <3>3. QED
      BY <1>1, <3>1, <3>2
  <2>8. QED
    BY <1>6, <2>2, <2>3, <2>6, <2>7
<1>8. CASE ~(f.kind = "setup" /\ \A i \in 1..Len(setup) : sent[setup[i]] # f)
  <2>1. setup' = setup
    BY <1>4, <1>8
  <2>2. \A k \in 1..Len(setup) : sent'[setup[k]] = sent[setup[k]]
    BY <1>1, <1>2
  <2>3. ASSUME NEW m \in 1..Len(sent'), sent'[m].kind = "setup"
        PROVE  \E k \in 1..Len(setup) : sent'[setup[k]] = sent'[m]
    <3>1. CASE m \in 1..Len(sent)
      BY <1>1, <1>3, <2>2, <2>3, <3>1
    <3>2. CASE m = n
      BY <1>1, <1>8, <2>2, <2>3, <3>2
    <3>3. QED
      BY <1>1, <3>1, <3>2
  <2>4. QED
    BY <1>2, <1>3, <1>5, <1>6, <2>1, <2>2, <2>3
<1>9. QED
  BY <1>7, <1>8

\* and of the trackers.  Entry e of tracker t is true of the first n frames in S:
EntryFits(S, n, t, e) ==
  /\ e \in [added : 1..n, status : 0..n, pose : 0..n]
  /\ S[e.added].kind = "added" /\ S[e.added].id = t
  /\ \A m \in 1..n : S[m].kind = "added" /\ S[m].id = t => m <= e.added
  /\ e.status # 0 => e.status > e.added /\ S[e.status].kind \in {"on", "off"} /\ S[e.status].id = t
  /\ e.pose # 0 => /\ e.pose > e.added /\ S[e.pose].kind = "pose" /\ S[e.pose].id = t
                   /\ \A m \in (e.pose + 1)..n : S[m].id = t => S[m].kind = "on"

\* The entries of the cache, each by itself.
LEMMA EntriesFit ==
  ASSUME TypeOK, EntriesAreTrue
  PROVE  \A t \in DOMAIN trackers : EntryFits(sent, Len(sent), t, trackers[t])
BY DEF TypeOK, EntriesAreTrue, IsFrame, EntryFits

\* And of the state after a step.
LEMMA EntriesFitNext ==
  (\A t \in DOMAIN trackers' : EntryFits(sent', Len(sent'), t, trackers'[t])) => EntriesAreTrue'
<1>1. SUFFICES ASSUME \A t \in DOMAIN trackers' : EntryFits(sent', Len(sent'), t, trackers'[t]),
                      NEW t \in DOMAIN trackers', NEW e, e = trackers'[t]
               PROVE  /\ sent'[e.added].kind = "added" /\ sent'[e.added].id = t
                      /\ \A m \in 1..Len(sent') : sent'[m].kind = "added" /\ sent'[m].id = t => m <= e.added
                      /\ e.status # 0 => e.status > e.added /\ \E kind \in {"on", "off"} :
                           sent'[e.status].kind = kind /\ sent'[e.status].id = t
                      /\ e.pose # 0 =>
                           /\ e.pose > e.added /\ sent'[e.pose].kind = "pose" /\ sent'[e.pose].id = t
                           /\ \A m \in (e.pose + 1)..Len(sent') : sent'[m].id = t => sent'[m].kind = "on"
  BY DEF EntriesAreTrue, IsFrame
<1>2. QED
  BY <1>1 DEF EntryFits

\* a frame of another tracker leaves it true,
LEMMA EntryStays ==
  ASSUME NEW S, NEW R, NEW n \in Nat, NEW t, NEW e, EntryFits(S, n, t, e),
         \A m \in 1..n : R[m] = S[m], R[n + 1].id # t
  PROVE  EntryFits(R, n + 1, t, e)
<1>1. /\ e.added \in 1..n /\ (e.status # 0 => e.status \in 1..n) /\ (e.pose # 0 => e.pose \in 1..n)
      /\ e \in [added : 1..(n + 1), status : 0..(n + 1), pose : 0..(n + 1)]
  BY DEF EntryFits
<1>2. \A m \in 1..(n + 1) : m \in 1..n \/ m = n + 1
  OBVIOUS
<1>3. \A m \in 1..(n + 1) : R[m].kind = "added" /\ R[m].id = t => m <= e.added
  BY <1>2 DEF EntryFits
<1>4. ASSUME e.pose # 0, NEW m \in (e.pose + 1)..(n + 1), R[m].id = t PROVE R[m].kind = "on"
  <2>1. m \in 1..(n + 1) /\ m # n + 1
    BY <1>1, <1>4
  <2>2. m \in 1..n /\ m \in (e.pose + 1)..n
    BY <1>1, <1>2, <1>4, <2>1
  <2>3. QED
    BY <1>4, <2>2 DEF EntryFits
<1>5. QED
  BY <1>1, <1>3, <1>4 DEF EntryFits

\* an announcement starts a new one,
LEMMA EntryAnnounced ==
  ASSUME NEW R, NEW n \in Nat, NEW t, R[n + 1].kind = "added", R[n + 1].id = t
  PROVE  EntryFits(R, n + 1, t, [added |-> n + 1, status |-> 0, pose |-> 0])
BY DEF EntryFits

\* and news of the tracker goes into its entry.
LEMMA EntryTold ==
  ASSUME NEW S, NEW R, NEW n \in Nat, NEW t, NEW o, NEW e, EntryFits(S, n, t, o),
         \A m \in 1..n : R[m] = S[m], R[n + 1].id = t, R[n + 1].kind \in {"on", "off", "pose"},
         e \in [added : 1..(n + 1), status : 0..(n + 1), pose : 0..(n + 1)], e.added = o.added,
         e.status = IF R[n + 1].kind \in {"on", "off"} THEN n + 1 ELSE o.status,
         e.pose = IF R[n + 1].kind = "pose" THEN n + 1 ELSE IF R[n + 1].kind = "off" THEN 0 ELSE o.pose
  PROVE  EntryFits(R, n + 1, t, e)
<1>1. /\ o \in [added : 1..n, status : 0..n, pose : 0..n]
      /\ o.added \in 1..n /\ (o.status # 0 => o.status \in 1..n) /\ (o.pose # 0 => o.pose \in 1..n)
  BY DEF EntryFits
<1>2. /\ e \in [added : 1..(n + 1), status : 0..(n + 1), pose : 0..(n + 1)] /\ e.added = o.added
      /\ e.status = IF R[n + 1].kind \in {"on", "off"} THEN n + 1 ELSE o.status
      /\ e.pose = IF R[n + 1].kind = "pose" THEN n + 1 ELSE IF R[n + 1].kind = "off" THEN 0 ELSE o.pose
  OBVIOUS
<1>3. n + 1 > o.added
  BY <1>1
<1>4. \A m \in 1..(n + 1) : m \in 1..n \/ m = n + 1
  OBVIOUS
<1>5. R[e.added].kind = "added" /\ R[e.added].id = t
  BY <1>1, <1>2 DEF EntryFits
<1>6. \A m \in 1..(n + 1) : R[m].kind = "added" /\ R[m].id = t => m <= e.added
  BY <1>2, <1>4 DEF EntryFits
<1>7. ASSUME e.status # 0
      PROVE  e.status > e.added /\ R[e.status].kind \in {"on", "off"} /\ R[e.status].id = t
  <2>1. CASE R[n + 1].kind \in {"on", "off"}
    BY <1>2, <1>3, <2>1
  <2>2. CASE R[n + 1].kind \notin {"on", "off"}
    <3>1. e.status = o.status /\ o.status \in 1..n
      BY <1>1, <1>2, <1>7, <2>2
    <3>2. QED
      BY <1>2, <1>7, <3>1 DEF EntryFits
  <2>3. QED
    BY <2>1, <2>2
<1>8. ASSUME e.pose # 0
      PROVE  /\ e.pose > e.added /\ R[e.pose].kind = "pose" /\ R[e.pose].id = t
             /\ \A m \in (e.pose + 1)..(n + 1) : R[m].id = t => R[m].kind = "on"
  <2>1. CASE R[n + 1].kind = "pose"
    BY <1>2, <1>3, <2>1
  <2>2. CASE R[n + 1].kind = "on"
    <3>1. e.pose = o.pose /\ o.pose # 0 /\ o.pose \in 1..n
      BY <1>1, <1>2, <1>8, <2>2
    <3>2. \A m \in (o.pose + 1)..(n + 1) : m = n + 1 \/ (m \in 1..n /\ m \in (o.pose + 1)..n)
      BY <3>1
    <3>3. \A m \in (o.pose + 1)..n : m \in 1..n /\ (S[m].id = t => S[m].kind = "on")
      BY <3>1 DEF EntryFits
    <3>4. QED
      BY <1>2, <2>2, <3>1, <3>2, <3>3 DEF EntryFits
  <2>3. CASE R[n + 1].kind = "off"
    BY <1>2, <1>8, <2>3
  <2>4. QED
    BY <2>1, <2>2, <2>3
<1>9. QED
  BY <1>2, <1>5, <1>6, <1>7, <1>8 DEF EntryFits

\* Only an announcement gives an id another identity.
LEMMA TrackersTaken ==
  ASSUME IInv, NEW f \in Frames(protocol), ClientFrame(f)
  PROVE  /\ DOMAIN trackers' \subseteq Trackers /\ IsFiniteSet(DOMAIN trackers')
         /\ Cardinality(DOMAIN trackers') <= MaxTrackers
         /\ \A t \in DOMAIN trackers' : EntryFits(sent', Len(sent'), t, trackers'[t])
         /\ DOMAIN trackers \subseteq DOMAIN trackers'
         /\ f.kind = "added" => f.id \in DOMAIN trackers' /\ trackers'[f.id].added = Len(sent) + 1
         /\ \A t \in DOMAIN trackers' : ~(f.kind = "added" /\ f.id = t) =>
              t \in DOMAIN trackers /\ trackers'[t].added = trackers[t].added
<1> DEFINE n == Len(sent)
           D == DOMAIN trackers
<1>1. /\ n \in Nat /\ Len(sent') = n + 1 /\ sent'[n + 1] = f /\ protocol \in Protocols
      /\ \A m \in 1..n : sent'[m] = sent[m]
  BY FrameTaken
<1>2. /\ D \subseteq Trackers /\ Cardinality(D) <= MaxTrackers /\ IsFiniteSet(D) /\ Cardinality(D) \in Nat
      /\ MaxTrackers \in Nat
  <2>1. IsFiniteSet(D)
    BY DEF IInv, CacheIsTrue
  <2>2. QED
    BY <2>1, FS_CardinalityType, BoundsAssumption DEF IInv, TypeOK
<1>3. /\ trackers' = IF Tracked(f)
                       THEN [t \in D \cup {f.id} |-> IF t = f.id THEN EntryAfter(f, n + 1) ELSE trackers[t]]
                       ELSE trackers
      /\ f.kind = "added" /\ f.id \notin D => Cardinality(D) < MaxTrackers
  BY <1>2 DEF ClientFrame, Observe, OverLimit
<1>4. /\ f.kind = "setup" => protocol = "SolarXr"
      /\ f.kind \in {"added", "on", "off", "pose"} => f.id \in Trackers
      /\ protocol = "Feeder" => f.kind \in {"version", "action", "added", "on", "off", "pose"}
      /\ protocol = "Feeder" /\ f.kind \in {"version", "action"} => f.id = 0
  BY <1>1, FrameFacts
<1>5. \A t \in D : EntryFits(sent, n, t, trackers[t])
  BY EntriesFit DEF IInv
<1>6. ASSUME NEW t \in D PROVE protocol = "Feeder" /\ t # 0
  <2>1. trackers[t].added \in 1..n /\ sent[trackers[t].added].kind = "added"
    BY <1>5 DEF EntryFits
  <2>2. sent[trackers[t].added] \in Frames(protocol)
    BY <2>1, Typed DEF IInv
  <2>3. QED
    BY <1>1, <1>2, <2>1, <2>2, FrameFacts, BoundsAssumption
<1>7. f.id \in D => Tracked(f)
  BY <1>4, <1>6 DEF Tracked
<1>8. Tracked(f) => f.id \in Trackers /\ f.kind \in {"added", "on", "off", "pose"} /\ (f.id \in D \/ f.kind = "added")
  BY <1>4 DEF Tracked
<1>9. /\ DOMAIN trackers' = IF Tracked(f) THEN D \cup {f.id} ELSE D
      /\ \A t \in D : t # f.id => trackers'[t] = trackers[t]
      /\ Tracked(f) => trackers'[f.id] = EntryAfter(f, n + 1)
  BY <1>3
<1> HIDE DEF D, n
<1>10. /\ DOMAIN trackers' \subseteq Trackers /\ IsFiniteSet(DOMAIN trackers')
       /\ Cardinality(DOMAIN trackers') <= MaxTrackers
  <2>1. CASE Tracked(f) /\ f.id \notin D
    <3>1. IsFiniteSet(D \cup {f.id}) /\ Cardinality(D \cup {f.id}) = Cardinality(D) + 1
      BY <1>2, <2>1, FS_AddElement
    <3>2. QED
      BY <1>2, <1>3, <1>8, <1>9, <2>1, <3>1
  <2>2. CASE ~(Tracked(f) /\ f.id \notin D)
    <3>1. DOMAIN trackers' = D
      BY <1>9, <2>2
    <3>2. QED
      BY <1>2, <3>1
  <2>3. QED
    BY <2>1, <2>2
<1>11. ASSUME NEW t \in D, t # f.id
       PROVE  EntryFits(sent', n + 1, t, trackers'[t]) /\ trackers'[t].added = trackers[t].added
  <2>1. EntryFits(sent, n, t, trackers[t]) /\ sent'[n + 1].id # t
    BY <1>1, <1>5, <1>11
  <2>2. EntryFits(sent', n + 1, t, trackers[t])
    BY <1>1, <2>1, EntryStays
  <2>3. QED
    BY <1>9, <1>11, <2>2
<1>12. ASSUME Tracked(f), f.kind = "added"
       PROVE  EntryFits(sent', n + 1, f.id, trackers'[f.id]) /\ trackers'[f.id].added = n + 1
  <2>1. trackers'[f.id] = [added |-> n + 1, status |-> 0, pose |-> 0]
    BY <1>9, <1>12 DEF EntryAfter
  <2>2. EntryFits(sent', n + 1, f.id, [added |-> n + 1, status |-> 0, pose |-> 0])
    BY <1>1, <1>12, EntryAnnounced
  <2>3. QED
    BY <2>1, <2>2
<1>13. ASSUME Tracked(f), f.kind # "added"
       PROVE  /\ EntryFits(sent', n + 1, f.id, trackers'[f.id]) /\ f.id \in D
              /\ trackers'[f.id].added = trackers[f.id].added
  <2>1. f.id \in D /\ f.kind \in {"on", "off", "pose"}
    BY <1>8, <1>13
  <2>2. PICK e, o : e = trackers'[f.id] /\ o = trackers[f.id]
    OBVIOUS
  <2>3. EntryFits(sent, n, f.id, o) /\ sent'[n + 1].id = f.id /\ sent'[n + 1].kind = f.kind
    BY <1>1, <1>5, <2>1, <2>2
  <2>4. e = EntryAfter(f, n + 1)
    BY <1>9, <1>13, <2>2
  <2>5. /\ f.kind = "pose" => e = [o EXCEPT !.pose = n + 1]
        /\ f.kind = "on" => e = [o EXCEPT !.status = n + 1]
        /\ f.kind = "off" => e = [o EXCEPT !.status = n + 1, !.pose = 0]
    BY <1>13, <2>2, <2>4 DEF EntryAfter
  <2>6. o \in [added : 1..n, status : 0..n, pose : 0..n]
    BY <2>3 DEF EntryFits
  <2>7. /\ e \in [added : 1..(n + 1), status : 0..(n + 1), pose : 0..(n + 1)] /\ e.added = o.added
        /\ e.status = IF f.kind \in {"on", "off"} THEN n + 1 ELSE o.status
        /\ e.pose = IF f.kind = "pose" THEN n + 1 ELSE IF f.kind = "off" THEN 0 ELSE o.pose
    <3>1. CASE f.kind = "pose"
      BY <1>1, <2>5, <2>6, <3>1
    <3>2. CASE f.kind = "on"
      BY <1>1, <2>5, <2>6, <3>2
    <3>3. CASE f.kind = "off"
      <4>1. PICK d : d = [o EXCEPT !.status = n + 1]
        OBVIOUS
      <4>2. /\ d \in [added : 1..(n + 1), status : 0..(n + 1), pose : 0..(n + 1)]
            /\ d.added = o.added /\ d.status = n + 1
        BY <1>1, <2>6, <4>1
      <4>3. e = [d EXCEPT !.pose = 0]
        BY <2>5, <3>3, <4>1
      <4>4. QED
        BY <3>3, <4>2, <4>3
    <3>4. QED
      BY <2>1, <3>1, <3>2, <3>3
  <2>8. EntryFits(sent', n + 1, f.id, e)
    BY <1>1, <2>1, <2>3, <2>7, EntryTold
  <2>9. QED
    BY <2>1, <2>2, <2>7, <2>8
<1>14. \A t \in DOMAIN trackers' : (t \in D /\ t # f.id) \/ (Tracked(f) /\ t = f.id)
  BY <1>7, <1>9
<1>15. \A t \in DOMAIN trackers' : EntryFits(sent', n + 1, t, trackers'[t])
  BY <1>11, <1>12, <1>13, <1>14
<1>16. \A t \in DOMAIN trackers' : ~(f.kind = "added" /\ f.id = t) =>
         t \in D /\ trackers'[t].added = trackers[t].added
  BY <1>11, <1>13, <1>14
<1>17. D \subseteq DOMAIN trackers' /\ (f.kind = "added" => f.id \in DOMAIN trackers' /\ trackers'[f.id].added = n + 1)
  <2>1. f.kind = "added" => Tracked(f)
    BY DEF Tracked
  <2>2. QED
    BY <1>9, <1>12, <2>1
<1>18. QED
  BY <1>1, <1>10, <1>15, <1>16, <1>17 DEF D, n

\* What holds whether or not the frame reaches a backend.
LEMMA CacheTaken ==
  ASSUME IInv, NEW f \in Frames(protocol), ClientFrame(f)
  PROVE  /\ CacheIsTrue' /\ EntriesAreTrue'
         /\ \A m \in 1..MaxSent : m > Len(sent') => runs'[m] = 0
         /\ live \subseteq live' => ActionsRunAtMostOnce'
         /\ /\ pending' \in Seq(1..Len(sent')) /\ stream' \in Seq(1..Len(sent')) /\ done' \in 0..Len(stream')
            /\ live' \subseteq 1..Len(sent') /\ conn' \in {"none", "replaying", "attached"}
            /\ alive' \in BOOLEAN /\ session' = session /\ replies' \in Seq(1..session)
            => TypeOK'
<1>1. /\ UNCHANGED <<protocol, horizon, up, runs, heard, closed>>
      /\ Len(sent) \in Nat /\ Len(sent') = Len(sent) + 1 /\ Len(sent') <= MaxSent /\ MaxSent \in Nat
      /\ sent' \in Seq(Frames(protocol)) /\ sent'[Len(sent) + 1] = f
      /\ \A m \in 1..Len(sent) : sent'[m] = sent[m]
      /\ \A m \in 1..Len(sent') : m \in 1..Len(sent) \/ m = Len(sent) + 1
      /\ protocol \in Protocols
  BY FrameTaken
<1>2. /\ setup' \in Seq(1..Len(sent')) /\ Len(setup') <= MaxSetup /\ version' \in 0..Len(sent')
      /\ \A k \in 1..Len(setup') : sent'[setup'[k]].kind = "setup"
      /\ \A m \in 1..Len(sent') : sent'[m].kind = "setup" =>
           \E k \in 1..Len(setup') : sent'[setup'[k]] = sent'[m]
      /\ version' # 0 => sent'[version'].kind = "version"
  BY SetupTaken
<1>3. /\ DOMAIN trackers' \subseteq Trackers /\ IsFiniteSet(DOMAIN trackers')
      /\ Cardinality(DOMAIN trackers') <= MaxTrackers
      /\ \A t \in DOMAIN trackers' : EntryFits(sent', Len(sent'), t, trackers'[t])
      /\ DOMAIN trackers \subseteq DOMAIN trackers'
      /\ f.kind = "added" => f.id \in DOMAIN trackers'
  BY TrackersTaken
<1>4. EntriesAreTrue'
  BY <1>3, EntriesFitNext
<1>5. CacheIsTrue'
  <2>1. ASSUME NEW m \in 1..Len(sent'), sent'[m].kind = "added" PROVE sent'[m].id \in DOMAIN trackers'
    <3>1. CASE m \in 1..Len(sent)
      BY <1>1, <1>3, <2>1, <3>1 DEF IInv, CacheIsTrue
    <3>2. CASE m = Len(sent) + 1
      BY <1>1, <1>3, <2>1, <3>2
    <3>3. QED
      BY <1>1, <3>1, <3>2
  <2>2. QED
    BY <1>2, <1>3, <2>1 DEF CacheIsTrue
<1>6. runs \in [1..MaxSent -> Nat] /\ \A m \in 1..MaxSent : m > Len(sent) => runs[m] = 0
  BY DEF IInv, TypeOK, ActionsAreLive
<1>7. \A m \in 1..MaxSent : m > Len(sent') => runs'[m] = 0
  BY <1>1, <1>6
<1>8. ASSUME live \subseteq live' PROVE ActionsRunAtMostOnce'
  <2>1. ASSUME NEW m \in 1..Len(sent'), sent'[m].kind = "action"
        PROVE  runs[m] <= 1 /\ (runs[m] = 1 => m \in live')
    <3>1. CASE m \in 1..Len(sent)
      BY <1>1, <1>8, <2>1, <3>1 DEF IInv, ActionsRunAtMostOnce
    <3>2. CASE m = Len(sent) + 1
      <4>1. runs[m] = 0
        BY <1>1, <1>6, <3>2
      <4>2. QED
        BY <4>1
    <3>3. QED
      BY <1>1, <3>1, <3>2
  <2>2. QED
    BY <1>1, <2>1 DEF ActionsRunAtMostOnce
<1>9. ASSUME /\ pending' \in Seq(1..Len(sent')) /\ stream' \in Seq(1..Len(sent')) /\ done' \in 0..Len(stream')
             /\ live' \subseteq 1..Len(sent') /\ conn' \in {"none", "replaying", "attached"}
             /\ alive' \in BOOLEAN /\ session' = session /\ replies' \in Seq(1..session)
      PROVE  TypeOK'
  <2>1. \A t \in DOMAIN trackers' :
          trackers'[t] \in [added : 1..Len(sent'), status : 0..Len(sent'), pose : 0..Len(sent')]
    BY <1>3 DEF EntryFits
  <2>2. horizon' \in 0..Len(sent') /\ up' \in BOOLEAN /\ closed' \in BOOLEAN /\ heard' \in 0..session' /\ session' \in Nat
    <3>1. horizon \in 0..Len(sent) /\ up \in BOOLEAN /\ closed \in BOOLEAN /\ heard \in 0..session /\ session \in Nat
      BY DEF IInv, TypeOK
    <3>2. QED
      BY <1>1, <1>9, <3>1
  <2>3. /\ protocol' \in Protocols /\ sent' \in Seq(Frames(protocol')) /\ Len(sent') <= MaxSent
        /\ runs' \in [1..MaxSent -> Nat] /\ replies' \in Seq(1..session')
    BY <1>1, <1>6, <1>9
  <2>4. {alive', up', closed'} \subseteq BOOLEAN
    BY <1>9, <2>2
  <2> HIDE DEF Frames, Protocols
  <2>5. QED
    BY <1>2, <1>3, <1>9, <2>1, <2>2, <2>3, <2>4 DEF TypeOK
<1>10. QED
  BY <1>4, <1>5, <1>7, <1>8, <1>9

\* There is no backend, or writing to it fails: the frame is not queued.
LEMMA ClientFrameLost ==
  ASSUME IInv, NEW f \in Frames(protocol), ClientFrame(f),
         conn' = "none", ~alive', alive' \in BOOLEAN, pending' = <<>>, stream' = <<>>, done' = 0,
         replies' = <<>>, session' = session, live' = live
  PROVE  IInv'
<1>1. Len(sent) \in Nat /\ Len(sent') = Len(sent) + 1 /\ protocol' = protocol
  BY FrameTaken
<1>2. /\ CacheIsTrue' /\ EntriesAreTrue' /\ ActionsRunAtMostOnce'
      /\ \A m \in 1..MaxSent : m > Len(sent') => runs'[m] = 0
  BY CacheTaken
<1>3. TypeOK'
  <2>1. /\ pending' \in Seq(1..Len(sent')) /\ stream' \in Seq(1..Len(sent')) /\ replies' \in Seq(1..session)
        /\ done' \in 0..Len(stream')
    <3>1. Len(<<>>) = 0
      BY EmptySeq
    <3>2. QED
      BY <3>1, EmptySeq
  <2>2. live' \subseteq 1..Len(sent')
    <3>1. live \subseteq 1..Len(sent)
      BY DEF IInv, TypeOK
    <3>2. QED
      BY <1>1, <3>1
  <2>3. QED
    BY <2>1, <2>2, CacheTaken
<1>4. LinkIsFresh' /\ ActionsAreLive'
  BY <1>2 DEF LinkIsFresh, ActionsAreLive
<1>5. SetupIsComing' /\ IdentitiesArrive' /\ ReplayIsInOrder' /\ SetupBeforeActions'
  BY DEF SetupIsComing, IdentitiesArrive, ReplayIsInOrder, SetupBeforeActions
<1>6. PoseFollowsItsIdentity'
  BY FollowsMeansNext
<1>7. QED
  BY <1>2, <1>3, <1>4, <1>5, <1>6 DEF IInv

\* The frame is written to the backend.
LEMMA ClientFrameWritten ==
  ASSUME IInv, NEW f \in Frames(protocol), ClientFrame(f),
         conn = "attached", stream' = Append(stream, Len(sent) + 1),
         live' = IF f.kind = "action" THEN live \cup {Len(sent) + 1} ELSE live,
         UNCHANGED <<conn, alive, session, pending, done, replies>>
  PROVE  IInv'
<1> DEFINE n == Len(sent) + 1
           i0 == Len(stream) + 1
<1>1. /\ UNCHANGED <<protocol, horizon, up, runs, heard, closed>>
      /\ Len(sent) \in Nat /\ Len(sent') = n /\ Len(sent') <= MaxSent /\ MaxSent \in Nat
      /\ sent'[n] = f /\ \A m \in 1..Len(sent) : sent'[m] = sent[m]
      /\ \A m \in 1..Len(sent') : m \in 1..Len(sent) \/ m = n
      /\ protocol \in Protocols /\ pending = <<>>
  BY FrameTaken
<1>2. /\ CacheIsTrue' /\ EntriesAreTrue' /\ ActionsRunAtMostOnce'
      /\ \A m \in 1..MaxSent : m > Len(sent') => runs'[m] = 0
  BY CacheTaken
<1>3. /\ stream \in Seq(1..Len(sent)) /\ Len(stream) \in Nat /\ done \in 0..Len(stream)
      /\ \A i \in 1..Len(stream) : stream[i] \in 1..Len(sent)
      /\ replies \in Seq(1..session) /\ live \subseteq 1..Len(sent) /\ alive \in BOOLEAN
  <2>1. /\ stream \in Seq(1..Len(sent)) /\ done \in 0..Len(stream) /\ replies \in Seq(1..session)
        /\ live \subseteq 1..Len(sent) /\ alive \in BOOLEAN
    BY DEF IInv, TypeOK
  <2>2. QED
    BY <2>1, Typed DEF IInv
<1>4. /\ stream' \in Seq(1..n) /\ Len(stream') = i0 /\ stream'[i0] = n
      /\ \A i \in 1..Len(stream) : stream'[i] = stream[i]
  <2>1. stream \in Seq(1..n)
    <3>1. 1..Len(sent) \subseteq 1..n
      BY <1>1
    <3> HIDE DEF n
    <3>2. QED
      BY <1>3, <3>1, SeqMonotonic
  <2>2. n \in 1..n
    BY <1>1
  <2>3. QED
    BY <2>1, <2>2, AppendProperties
<1>5. /\ i0 \in 1..Len(stream') /\ \A i \in 1..Len(stream') : i \in 1..Len(stream) \/ i = i0
      /\ \A i \in 1..Len(stream) : i \in 1..Len(stream') /\ i # i0
      /\ \A i \in 1..Len(stream) : sent'[stream'[i]] = sent[stream[i]] /\ stream'[i] # n
      /\ sent'[stream'[i0]] = f
  <2>1. /\ i0 \in 1..i0 /\ \A i \in 1..i0 : i \in 1..Len(stream) \/ i = i0
        /\ \A i \in 1..Len(stream) : i \in 1..i0 /\ i # i0
    BY <1>3
  <2>2. \A m \in 1..Len(sent) : m # n
    BY <1>1
  <2> HIDE DEF n, i0
  <2>3. ASSUME NEW i \in 1..Len(stream) PROVE sent'[stream'[i]] = sent[stream[i]] /\ stream'[i] # n
    BY <1>1, <1>3, <1>4, <2>2
  <2>4. QED
    BY <1>1, <1>4, <2>1, <2>3
<1>15. /\ Len(stream) \in Nat /\ Len(stream') = Len(stream) + 1 /\ i0 = Len(stream) + 1
       /\ \A k \in 1..i0 : k \in 1..Len(stream) \/ k = i0
  <2>1. Len(stream) \in Nat
    BY <1>3
  <2>2. QED
    BY <1>4, <2>1
<1>16. \A i \in 1..Len(stream) : stream[i] \in 1..Len(sent)
  BY <1>3
<1>6. TypeOK'
  <2>1. pending' \in Seq(1..Len(sent'))
    BY <1>1, EmptySeq
  <2>2. done' \in 0..Len(stream') /\ live' \subseteq 1..Len(sent')
    <3>1. done' \in 0..Len(stream')
      <4>1. done' \in 0..Len(stream)
        BY <1>3
      <4>2. QED
        BY <1>15, <4>1
    <3>2. live' \subseteq 1..Len(sent')
      <4>1. live \subseteq 1..Len(sent)
        BY <1>3
      <4>2. live' \subseteq live \cup {n}
        OBVIOUS
      <4>3. 1..Len(sent) \subseteq 1..Len(sent') /\ n \in 1..Len(sent')
        BY <1>1
      <4>4. QED
        BY <4>1, <4>2, <4>3
    <3>3. QED
      BY <3>1, <3>2
  <2>3. QED
    BY <1>1, <1>3, <1>4, <2>1, <2>2, CacheTaken
<1>7. LinkIsFresh'
  BY DEF IInv, LinkIsFresh
<1> HIDE DEF n, i0
<1>8. ActionsAreLive'
  <2>1. ASSUME NEW i \in 1..Len(stream'), sent'[stream'[i]].kind = "action"
        PROVE  /\ stream'[i] \in live' /\ (i > done' => runs'[stream'[i]] = 0)
               /\ \A j \in 1..Len(stream') : stream'[j] = stream'[i] => j = i
    <3>1. CASE i \in 1..Len(stream)
      <4>1. /\ stream[i] \in live /\ (i > done => runs[stream[i]] = 0)
            /\ \A j \in 1..Len(stream) : stream[j] = stream[i] => j = i
        BY <1>5, <2>1, <3>1 DEF IInv, ActionsAreLive
      <4>2. stream'[i] = stream[i] /\ stream[i] # n /\ live \subseteq live'
        BY <1>4, <1>5, <3>1
      <4>3. ASSUME NEW j \in 1..Len(stream'), stream'[j] = stream'[i] PROVE j = i
        <5>1. j # i0
          BY <1>4, <4>2, <4>3
        <5>2. j \in 1..Len(stream) /\ stream'[j] = stream[j]
          BY <1>4, <1>5, <5>1
        <5>3. QED
          BY <4>1, <4>2, <4>3, <5>2
      <4>4. QED
        BY <1>1, <4>1, <4>2, <4>3
    <3>2. CASE i = i0
      <4>1. runs[n] = 0
        BY <1>1 DEF IInv, ActionsAreLive, n
      <4>2. n \in live'
        BY <1>5, <2>1, <3>2 DEF n
      <4>3. QED
        BY <1>1, <1>4, <1>5, <3>2, <4>1, <4>2
    <3>3. QED
      BY <1>5, <3>1, <3>2
  <2>2. \A i \in 1..Len(pending') : sent'[pending'[i]].kind # "action"
    BY <1>1
  <2>3. QED
    BY <1>2, <2>1, <2>2 DEF ActionsAreLive
<1>9. SetupIsComing'
  <2>1. SUFFICES ASSUME protocol = "SolarXr", NEW m \in 1..Len(sent'), sent'[m].kind = "setup"
                 PROVE  \E j \in 1..Len(stream') : sent'[stream'[j]] = sent'[m]
    BY <1>1 DEF SetupIsComing
  <2>2. CASE m \in 1..Len(sent)
    <3>1. PICK j \in 1..Len(stream) : sent[stream[j]] = sent[m]
      BY <1>1, <2>1, <2>2 DEF IInv, SetupIsComing
    <3>2. QED
      BY <1>1, <1>5, <2>2, <3>1
  <2>3. CASE m = n
    BY <1>1, <1>5, <2>3
  <2>4. QED
    BY <1>1, <2>2, <2>3
<1>10. IdentitiesArrive'
  <2>1. SUFFICES ASSUME NEW t \in DOMAIN trackers'
                 PROVE  \E j \in 1..Len(stream') :
                          /\ stream'[j] = trackers'[t].added
                          /\ \A k \in (j + 1)..Len(stream') :
                               ~(sent'[stream'[k]].kind = "added" /\ sent'[stream'[k]].id = t)
    BY DEF IdentitiesArrive, IsFrame
  <2>2. CASE f.kind = "added" /\ f.id = t
    <3>1. trackers'[t].added = n
      BY <2>2, TrackersTaken DEF n
    <3>2. (i0 + 1)..Len(stream') = {}
      BY <1>3, <1>4 DEF i0
    <3>3. QED
      BY <1>4, <1>5, <3>1, <3>2
  <2>3. CASE ~(f.kind = "added" /\ f.id = t)
    <3>1. t \in DOMAIN trackers /\ trackers'[t].added = trackers[t].added
      BY <2>3, TrackersTaken
    <3>2. PICK j \in 1..Len(stream) : /\ stream[j] = trackers[t].added
                                      /\ \A k \in (j + 1)..Len(stream) : ~IsFrame(stream[k], "added", t)
      BY <3>1 DEF IInv, IdentitiesArrive
    <3>3. ASSUME NEW k \in (j + 1)..Len(stream')
          PROVE  ~(sent'[stream'[k]].kind = "added" /\ sent'[stream'[k]].id = t)
      <4>1. (k \in 1..Len(stream) /\ k \in (j + 1)..Len(stream)) \/ k = i0
        BY <1>15
      <4>2. CASE k = i0
        BY <1>5, <2>3, <4>2
      <4>3. CASE k \in 1..Len(stream) /\ k \in (j + 1)..Len(stream)
        BY <1>5, <3>2, <4>3 DEF IsFrame
      <4>4. QED
        BY <4>1, <4>2, <4>3
    <3>4. QED
      BY <1>4, <1>5, <3>1, <3>2, <3>3
  <2>4. QED
    BY <2>2, <2>3
<1>11. ReplayIsInOrder'
  BY DEF ReplayIsInOrder
<1>12. SetupBeforeActions'
  <2>1. SUFFICES ASSUME protocol = "SolarXr", NEW i \in 1..Len(stream'), NEW m \in 1..Len(sent'),
                        sent'[stream'[i]].kind = "action", sent'[m].kind = "setup", m < stream'[i]
                 PROVE  \E j \in 1..(i - 1) : sent'[stream'[j]] = sent'[m]
    BY <1>1 DEF SetupBeforeActions
  <2>2. m \in 1..Len(sent)
    <3>1. stream'[i] \in 1..n
      BY <1>4
    <3>2. m # n
      BY <1>1, <2>1, <3>1 DEF n
    <3>3. QED
      BY <1>1, <3>2
  <2>3. CASE i \in 1..Len(stream)
    <3>1. PICK j \in 1..(i - 1) : sent[stream[j]] = sent[m]
      <4>1. sent[stream[i]].kind = "action" /\ sent[m].kind = "setup" /\ m < stream[i]
        BY <1>1, <1>4, <1>5, <2>1, <2>2, <2>3
      <4>2. QED
        BY <2>1, <2>2, <2>3, <4>1 DEF IInv, SetupBeforeActions
    <3>2. j \in 1..Len(stream)
      BY <1>3, <2>3
    <3>3. QED
      BY <1>1, <1>5, <2>2, <3>1, <3>2
  <2>4. CASE i = i0
    <3>1. PICK j \in 1..Len(stream) : sent[stream[j]] = sent[m]
      BY <1>1, <2>1, <2>2 DEF IInv, SetupIsComing
    <3>2. j \in 1..(i - 1)
      BY <1>3, <2>4 DEF i0
    <3>3. QED
      BY <1>1, <1>5, <2>2, <3>1, <3>2
  <2>5. QED
    BY <1>5, <2>3, <2>4
<1>13. PoseFollowsItsIdentity'
  <2>1. SUFFICES ASSUME protocol = "Feeder", NEW i \in 1..Len(stream') PROVE FollowsIn(sent', stream', i)
    BY <1>1, FollowsMeansNext
  <2>2. CASE i \in 1..Len(stream)
    <3>1. FollowsIn(sent, stream, i)
      BY <2>1, <2>2, FollowsMeans DEF IInv
    <3>2. i \in Nat /\ i > 0 /\ \A j \in 1..i : j \in 1..Len(stream)
      BY <1>3, <2>2
    <3>3. \A j \in 1..i : stream'[j] = stream[j] /\ sent'[stream[j]] = sent[stream[j]]
      BY <1>1, <1>16, <1>4, <3>2
    <3>4. \A m \in 1..stream[i] : sent'[m] = sent[m]
      <4>1. stream[i] \in 1..Len(sent)
        BY <1>16, <2>2
      <4>2. \A m \in 1..stream[i] : m \in 1..Len(sent)
        BY <1>1, <4>1
      <4>3. QED
        BY <1>1, <4>2
    <3>5. PICK S, R, q, r : S = sent /\ R = sent' /\ q = stream /\ r = stream'
      OBVIOUS
    <3>6. FollowsIn(S, q, i) /\ \A j \in 1..i : r[j] = q[j] /\ R[q[j]] = S[q[j]]
      BY <3>1, <3>3, <3>5
    <3>7. \A m \in 1..q[i] : R[m] = S[m]
      BY <3>4, <3>5
    <3>8. FollowsIn(R, r, i)
      BY <3>2, <3>6, <3>7, FollowsStays
    <3>9. QED
      BY <3>5, <3>8
  <2>3. CASE i = i0
    <3> DEFINE t == f.id
    <3>1. CASE f.kind \notin News
      BY <1>5, <2>3, <3>1 DEF FollowsIn, News
    <3>2. CASE f.kind \in News /\ t \in DOMAIN trackers
      <4> DEFINE a == trackers[t].added
      <4>1. PICK j \in 1..Len(stream) : /\ stream[j] = a
                                        /\ \A k \in (j + 1)..Len(stream) : ~IsFrame(stream[k], "added", t)
        BY <3>2 DEF IInv, IdentitiesArrive
      <4>2. a \in 1..Len(sent) /\ IsFrame(a, "added", t) /\ \A m \in 1..Len(sent) : IsFrame(m, "added", t) => m <= a
        BY <1>3, <3>2, <4>1 DEF IInv, EntriesAreTrue
      <4> HIDE DEF a
      <4>3. f.kind # "added" /\ stream'[i] = n /\ sent'[n] = f
        BY <1>1, <1>4, <2>3, <3>2 DEF News
      <4>4. a \in OwnIn(sent', n) /\ \A m \in OwnIn(sent', n) : m <= a
        <5>1. a \in 1..n /\ \A m \in 1..n : m \in 1..Len(sent) \/ m = n
          <6>1. \A m \in 1..n : m \in 1..Len(sent) \/ m = n
            BY <1>1 DEF n
          <6>2. a \in 1..n
            BY <1>1, <4>2 DEF n
          <6>3. QED
            BY <6>1, <6>2
        <5>2. QED
          BY <1>1, <4>2, <4>3, <5>1 DEF OwnIn, IsFrame
      <4>5. j \in BeforeIn(sent', stream', i) /\ \A k \in BeforeIn(sent', stream', i) : k <= j
        <5>1. j \in 1..i0 /\ \A k \in 1..i0 : k = i0 \/ (k \in 1..Len(stream) /\ (k <= j \/ k \in (j + 1)..Len(stream)))
          <6>1. j \in 1..i0
            BY <1>15
          <6>2. \A k \in 1..Len(stream) : k <= j \/ k \in (j + 1)..Len(stream)
            BY <1>15
          <6>3. QED
            BY <1>15, <6>1, <6>2
        <5>2. j \in BeforeIn(sent', stream', i)
          BY <1>5, <2>3, <4>1, <4>2, <4>3, <5>1 DEF BeforeIn, IsFrame
        <5>3. ASSUME NEW k \in BeforeIn(sent', stream', i) PROVE k <= j
          <6>1. k \in 1..i0 /\ sent'[stream'[k]].kind = "added" /\ sent'[stream'[k]].id = t
            BY <1>5, <2>3 DEF BeforeIn
          <6>2. k # i0
            BY <1>5, <4>3, <6>1
          <6>3. k \in 1..Len(stream) /\ IsFrame(stream[k], "added", t)
            BY <1>5, <1>15, <6>1, <6>2 DEF IsFrame
          <6>4. QED
            BY <4>1, <5>1, <6>1, <6>2, <6>3
        <5>4. QED
          BY <5>2, <5>3
      <4>6. stream'[j] = a /\ i \in Nat /\ i > 0 /\ a \in Nat /\ n \in Nat
        <5>1. j \in 1..Len(stream) /\ i = i0
          BY <2>3, <4>1
        <5>2. stream'[j] = stream[j]
          BY <1>4, <5>1
        <5>3. i \in Nat /\ i > 0 /\ n \in Nat
          BY <1>1, <1>15, <5>1 DEF n
        <5>4. a \in Nat
          BY <1>1, <4>2
        <5>5. QED
          BY <4>1, <5>2, <5>3, <5>4
      <4>7. QED
        BY <4>3, <4>4, <4>5, <4>6, FollowsAnnounced
    <3>3. CASE f.kind \in News /\ t \notin DOMAIN trackers
      <4>1. \A m \in 1..Len(sent) : ~IsFrame(m, "added", t)
        BY <3>3 DEF IInv, CacheIsTrue, IsFrame
      <4>2. f.kind # "added" /\ stream'[i] = n /\ sent'[n] = f
        BY <1>1, <1>4, <2>3, <3>3 DEF News
      <4>3. OwnIn(sent', stream'[i]) = {}
        <5>1. \A m \in 1..n : m \in 1..Len(sent) \/ m = n
          BY <1>1 DEF n
        <5>2. QED
          BY <1>1, <4>1, <4>2, <5>1 DEF OwnIn, IsFrame
      <4>4. BeforeIn(sent', stream', i) = {}
        <5>1. \A k \in 1..i0 : k \in 1..Len(stream) \/ k = i0
          BY <1>15
        <5>2. QED
          BY <1>16, <1>5, <2>3, <4>1, <4>2, <5>1 DEF BeforeIn, IsFrame
      <4>5. i \in Nat
        BY <1>3, <2>3 DEF i0
      <4>6. QED
        BY <4>3, <4>4, <4>5, FollowsNothing
    <3>4. QED
      BY <3>1, <3>2, <3>3
  <2>4. QED
    BY <1>5, <2>2, <2>3
<1>14. QED
  BY <1>2, <1>6, <1>7, <1>8, <1>9, <1>10, <1>11, <1>12, <1>13 DEF IInv

\* A frame of the client, written to the backend, dropped with it, or only cached.
LEMMA ClientFrameIInv ==
  ASSUME IInv, NEW f \in Frames(protocol), ClientFrame(f)
  PROVE  IInv'
<1>1. CASE /\ conn = "attached" /\ alive
           /\ stream' = Append(stream, Len(sent) + 1)
           /\ live' = IF f.kind = "action" THEN live \cup {Len(sent) + 1} ELSE live
           /\ UNCHANGED <<conn, alive, session, pending, done, replies, faults>>
  BY <1>1, ClientFrameWritten
<1>2. CASE Drop /\ UNCHANGED live
  BY <1>2, ClientFrameLost DEF Drop
<1>3. CASE conn = "none" /\ UNCHANGED <<linkVars, live, faults>>
  <2>1. pending = <<>> /\ stream = <<>> /\ replies = <<>> /\ ~alive /\ alive \in BOOLEAN /\ done \in 0..Len(stream)
    BY <1>3 DEF IInv, TypeOK, LinkIsFresh
  <2>2. done = 0
    <3>1. Len(<<>>) = 0
      BY EmptySeq
    <3>2. QED
      BY <2>1, <3>1
  <2>3. UNCHANGED <<conn, alive, session, pending, stream, done, replies, live>>
    BY <1>3 DEF linkVars
  <2>4. QED
    BY <1>3, <2>1, <2>2, <2>3, ClientFrameLost
<1>4. QED
  BY <1>1, <1>2, <1>3 DEF ClientFrame

\* Every step keeps the invariant.
LEMMA NextIInv ==
  ASSUME IInv, [Next]_vars
  PROVE  IInv'
<1>1. CASE \E f \in Frames(protocol) : ClientFrame(f)
  BY <1>1, ClientFrameIInv
<1>2. CASE Close \/ ReplayFails \/ BackendEnd
  BY <1>2, DropIInv
<1>3. CASE BackendFrame \/ Reply \/ Start \/ Age \/ \E listening \in BOOLEAN : HangUp(listening)
  BY <1>3, QuietIInv
<1>4. CASE UNCHANGED vars
  <2>1. /\ UNCHANGED <<protocol, sent, horizon, setup, version, trackers, conn, alive, session, pending>>
        /\ UNCHANGED <<stream, done, replies, up, live, runs, heard, closed>>
    BY <1>4 DEF vars, cacheVars, linkVars
  <2>2. TypeOK'
    BY <2>1 DEF IInv, TypeOK
  <2>3. CacheIsTrue' /\ EntriesAreTrue' /\ SetupBeforeActions' /\ PoseFollowsItsIdentity'
    BY <2>1, SameSession, SameStream
  <2>4. LinkIsFresh' /\ ActionsAreLive' /\ SetupIsComing' /\ IdentitiesArrive' /\ ActionsRunAtMostOnce'
    BY <2>1 DEF IInv, LinkIsFresh, ActionsAreLive, SetupIsComing, IdentitiesArrive, IsFrame, ActionsRunAtMostOnce
  <2>5. ReplayIsInOrder'
    BY <2>1 DEF IInv, ReplayIsInOrder, NewsFollows
  <2>6. QED
    BY <2>2, <2>3, <2>4, <2>5 DEF IInv
<1>5. CASE Connect
  BY <1>5, ConnectIInv
<1>6. CASE ReplayFrame
  BY <1>6, ReplayFrameIInv
<1>7. CASE Attach
  BY <1>7, AttachIInv
<1>8. CASE Handle
  BY <1>8, HandleIInv
<1>9. QED
  BY <1>1, <1>2, <1>3, <1>4, <1>5, <1>6, <1>7, <1>8 DEF Next

-----------------------------------------------------------------------------
\* The relay's cache, its replay and what its backends get are consistent, in
\* every state, whatever the client sends and the backends do.
THEOREM Invariance == Spec => []IInv
BY InitIInv, NextIInv, PTL DEF Spec

\* Nothing that acts is replayed: an action frame is handled at most once over
\* all sessions, and only if it was passed on while a backend was attached.
THEOREM NoActionTwice == Spec => []ActionsRunAtMostOnce
<1>1. IInv => ActionsRunAtMostOnce
  BY DEF IInv
<1>2. QED
  BY <1>1, Invariance, PTL

\* A backend that gets an action has been given, in the same session, every
\* setup bundle the client had sent before it.
THEOREM SessionIsSetUp == Spec => []SetupBeforeActions
<1>1. IInv => SetupBeforeActions
  BY DEF IInv
<1>2. QED
  BY <1>1, Invariance, PTL

\* A pose or a status never reaches a backend under another identity than the
\* one the client meant it for.
THEOREM NoForeignPose == Spec => []PoseFollowsItsIdentity
<1>1. IInv => PoseFollowsItsIdentity
  BY DEF IInv
<1>2. QED
  BY <1>1, Invariance, PTL

\* Every pose of a replay is fresh and still true of its tracker, and the
\* client hears from no backend but the present one.
THEOREM NothingStale == Spec => NothingStaleIsPassedOn
<1> DEFINE Fresh ==
      /\ conn = "none" /\ conn' = "replaying" =>
           \A i \in 1..Len(pending') :
             LET n == pending'[i] IN sent[n].kind = "pose" =>
               /\ n > horizon
               /\ \A m \in (n + 1)..Len(sent) : sent[m].id = sent[n].id => sent[m].kind = "on"
      /\ heard' # heard => heard' = session
<1>1. ASSUME IInv, [Next]_vars PROVE [Fresh]_vars
  <2>1. CASE UNCHANGED vars
    BY <2>1
  <2>2. CASE Next
    <3>1. ASSUME heard' # heard PROVE heard' = session
      <4>1. BackendFrame
        BY <2>2, <3>1 DEF Next, ClientFrame, Close, Connect, ReplayFrame, ReplayFails, Attach, BackendEnd,
                          Handle, Reply, HangUp, Start, Age
      <4>2. replies # <<>> /\ heard' = Head(replies)
        BY <4>1 DEF BackendFrame
      <4>3. replies \in Seq(1..session) /\ \A i \in 1..Len(replies) : replies[i] = session
        BY <1>1 DEF IInv, TypeOK, LinkIsFresh
      <4>4. QED
        BY <4>2, <4>3
    <3>2. ASSUME conn = "none", conn' = "replaying", NEW i \in 1..Len(pending'), sent[pending'[i]].kind = "pose"
          PROVE  /\ pending'[i] > horizon
                 /\ \A m \in (pending'[i] + 1)..Len(sent) : sent[m].id = sent[pending'[i]].id => sent[m].kind = "on"
      <4>1. Connect
        BY <2>2, <3>2 DEF Next, ClientFrame, Drop, linkVars, Close, ReplayFrame, ReplayFails, Attach, BackendFrame,
                          BackendEnd, Handle, Reply, HangUp, Start, Age
      <4>2. PICK n : n = pending'[i]
        OBVIOUS
      <4>3. pending' = Replay
        BY <4>1 DEF Connect
      <4>4. n > horizon /\ sent[n].id \in DOMAIN trackers /\ n = trackers[sent[n].id].pose /\ n # 0
        BY <1>1, <3>2, <4>2, <4>3, ReplayFacts DEF IInv
      <4>5. \A m \in (n + 1)..Len(sent) : sent[m].id = sent[n].id => sent[m].kind = "on"
        BY <1>1, <4>4 DEF IInv, EntriesAreTrue
      <4>6. QED
        BY <4>2, <4>4, <4>5
    <3>3. QED
      BY <3>1, <3>2
  <2>3. QED
    BY <1>1, <2>1, <2>2
<1>2. QED
  BY <1>1, Invariance, PTL DEF Spec, NothingStaleIsPassedOn
-----------------------------------------------------------------------------
(***************************************************************************)
(* That a connection with a reader task implements FrameChannel, for       *)
(* frames of any length, read in pieces of any size, a queue of any        *)
(* capacity, and a client that stops anywhere.                             *)
(***************************************************************************)
Sent == [from : 0..MaxBytes, len : Lens]

\* Room for n frames, each with the longest accepted payload.
LEMMA BytesFacts ==
  /\ MaxBytes \in Nat /\ BytesOf(0) = 0
  /\ \A n \in Nat :
       /\ BytesOf(n) \in Nat /\ BytesOf(n + 1) = BytesOf(n) + HeaderLen + MaxLen
       /\ n <= MaxFrames => BytesOf(n) <= MaxBytes
<1>1. HeaderLen + MaxLen \in Nat /\ MaxFrames \in Nat /\ HeaderLen \in Nat /\ MaxLen \in Nat
  BY FramingAssumption
<1>2. ASSUME NEW a \in Nat, NEW b \in Nat, NEW c \in Nat, a <= b PROVE a * c <= b * c
  BY <1>2
<1>3. ASSUME NEW a \in Nat, NEW c \in Nat PROVE (a + 1) * c = a * c + c /\ a * c \in Nat /\ 0 * c = 0
  OBVIOUS
<1>4. QED
  BY <1>1, <1>2, <1>3 DEF BytesOf, MaxBytes

\* A frame ends behind its header, and its payload is no longer than allowed.
LEMMA EndFacts ==
  \A f \in Sent :
    /\ f.from \in Nat /\ f.len \in Nat /\ f.len \in Lens /\ End(f) \in Nat
    /\ f.from + HeaderLen <= End(f) /\ End(f) <= f.from + HeaderLen + MaxLen /\ f.from < End(f)
    /\ Valid(f) => End(f) = f.from + HeaderLen + f.len
<1>1. SUFFICES ASSUME NEW f \in Sent
      PROVE  /\ f.from \in Nat /\ f.len \in Nat /\ f.len \in Lens /\ End(f) \in Nat
             /\ f.from + HeaderLen <= End(f) /\ End(f) <= f.from + HeaderLen + MaxLen /\ f.from < End(f)
             /\ Valid(f) => End(f) = f.from + HeaderLen + f.len
  OBVIOUS
<1>2. f.from \in Nat /\ f.len \in Nat /\ f.len \in Lens
  <2>1. f.from \in 0..MaxBytes /\ f.len \in Lens
    BY DEF Sent
  <2>2. f.from \in Nat
    BY <2>1
  <2>3. Lens \subseteq Nat
    BY FramingAssumption
  <2>4. QED
    BY <2>1, <2>2, <2>3
<1>3. HeaderLen \in Nat /\ HeaderLen > 0 /\ MaxLen \in Nat
  BY FramingAssumption
<1>4. CASE f.len <= MaxLen
  BY <1>2, <1>3, <1>4 DEF End, Valid, Accepted
<1>5. CASE ~(f.len <= MaxLen)
  BY <1>2, <1>3, <1>5 DEF End, Valid, Accepted
<1>6. QED
  BY <1>2, <1>4, <1>5

\* What the type invariant says of the numbers in play.
LEMMA FramesTyped ==
  ASSUME FramesTypeOK
  PROVE  /\ frames \in Seq(Sent) /\ queue \in Seq(Sent) /\ taken \in Seq(Sent)
         /\ Len(frames) \in Nat /\ Len(queue) \in Nat /\ Len(taken) \in Nat /\ Handed \in Nat
         /\ \A i \in 1..Len(frames) : frames[i] \in Sent
         /\ written \in Nat /\ pos \in Nat /\ start \in Nat /\ size \in Nat
         /\ start <= pos /\ pos <= written /\ written <= MaxBytes
         /\ HeaderLen \in Nat /\ MaxLen \in Nat /\ HeaderLen > 0 /\ Len(frames) <= MaxFrames
<1>1. frames \in Seq(Sent) /\ queue \in Seq(Sent) /\ taken \in Seq(Sent)
  BY DEF FramesTypeOK, Sent
<1>2. MaxBytes \in Nat /\ HeaderLen \in Nat /\ MaxLen \in Nat /\ HeaderLen > 0
  BY FramingAssumption, BytesFacts
<1>3. written \in 0..MaxBytes /\ pos \in 0..written /\ start \in 0..pos /\ size \in 0..(MaxLen + 1)
  BY DEF FramesTypeOK, Unknown
<1>4. written \in Nat /\ pos \in Nat /\ start \in Nat /\ size \in Nat /\ written <= MaxBytes
  BY <1>2, <1>3
<1>5. Len(frames) \in Nat /\ Len(queue) \in Nat /\ Len(taken) \in Nat /\ Handed \in Nat
  BY <1>1 DEF Handed
<1>6. QED
  BY <1>1, <1>2, <1>3, <1>4, <1>5 DEF FramesTypeOK

\* Nothing has been written, queued or read.
LEMMA FramesInitIInv == FramesInit => FramesIInv
<1>1. SUFFICES ASSUME FramesInit PROVE FramesIInv
  OBVIOUS
<1>2. FramesTypeOK
  <2>1. /\ frames = <<>> /\ written = 0 /\ client = "open" /\ queue = <<>> /\ taken = <<>>
        /\ start = 0 /\ pos = 0 /\ size = MaxLen + 1 /\ reader = "reading" /\ ended = "no"
        /\ MaxLen \in Nat /\ MaxFrames \in Nat /\ Capacity \in Nat /\ MaxBytes \in Nat
    BY <1>1, FramingAssumption, BytesFacts DEF FramesInit, Unknown
  <2>2. QED
    BY <2>1 DEF FramesTypeOK, Unknown
<1>3. FramesInARow /\ HandedAreNext /\ ReadIsAligned
  BY <1>1, FramingAssumption DEF FramesInit, FramesInARow, HandedAreNext, ReadIsAligned, Handed, Unknown
<1>4. QED
  BY <1>2, <1>3 DEF FramesIInv

\* Between frames, the client has written all of them and nothing more.
LEMMA BetweenFrames ==
  ASSUME FramesIInv, AllWhole
  PROVE  /\ frames # <<>> => written = End(frames[Len(frames)])
         /\ written <= BytesOf(Len(frames))
<1>1. CASE frames = <<>>
  BY <1>1, BytesFacts DEF FramesIInv, FramesInARow
<1>2. CASE frames # <<>>
  <2>1. Len(frames) \in 1..Len(frames) /\ frames[Len(frames)] \in Sent
    BY <1>2, FramesTyped DEF FramesIInv
  <2>2. written <= End(frames[Len(frames)]) /\ End(frames[Len(frames)]) <= BytesOf(Len(frames))
    BY <1>2, <2>1 DEF FramesIInv, FramesInARow
  <2>3. written >= End(frames[Len(frames)])
    BY <2>1 DEF AllWhole, Whole
  <2>4. QED
    <3>1. End(frames[Len(frames)]) \in Nat /\ BytesOf(Len(frames)) \in Nat /\ written \in Nat
      BY <2>1, EndFacts, FramesTyped, BytesFacts DEF FramesIInv
    <3>2. QED
      BY <2>2, <2>3, <3>1
<1>3. QED
  BY <1>1, <1>2

\* The client begins a frame right behind the last one.
LEMMA BeginIInv ==
  ASSUME FramesIInv, NEW len \in Lens, Begin(len)
  PROVE  FramesIInv' /\ [from |-> written, len |-> len] \in Sent
<1> DEFINE n == Len(frames)
           f == [from |-> written, len |-> len]
<1>1. /\ client = "open" /\ n < MaxFrames /\ AllWhole /\ frames' = Append(frames, f)
      /\ UNCHANGED <<written, client, start, pos, size, reader, queue, taken, ended>>
  BY DEF Begin, readVars
<1>2. f \in Sent
  BY FramesTyped DEF FramesIInv, Sent
<1>3. /\ frames' \in Seq(Sent) /\ Len(frames') = n + 1 /\ n \in Nat /\ frames'[n + 1] = f
      /\ \A i \in 1..n : frames'[i] = frames[i]
  BY <1>1, <1>2, FramesTyped DEF FramesIInv
<1>4. FramesTypeOK'
  <2>1. Len(frames') <= MaxFrames
    BY <1>1, <1>3, FramingAssumption
  <2>2. QED
    BY <1>1, <1>3, <2>1 DEF FramesIInv, FramesTypeOK, Sent
<1>5. FramesInARow'
  <2>1. frames' # <<>> /\ written' <= End(f) /\ frames'[1].from = 0
    <3>1. written <= End(f) /\ frames' # <<>>
      <4>1. f.from + HeaderLen <= End(f) /\ f.from = written /\ End(f) \in Nat
        BY <1>2, EndFacts
      <4>2. written \in Nat /\ HeaderLen \in Nat
        BY FramesTyped DEF FramesIInv
      <4>3. QED
        BY <1>3, <4>1, <4>2
    <3>2. CASE n = 0
      BY <1>1, <1>3, <3>1, <3>2, FramesTyped DEF FramesIInv, FramesInARow
    <3>3. CASE n # 0
      BY <1>1, <1>3, <3>1, <3>3, FramesTyped DEF FramesIInv, FramesInARow
    <3>4. QED
      BY <3>2, <3>3
  <2>2. ASSUME NEW i \in 1..n
        PROVE  /\ End(frames[i]) <= BytesOf(i) /\ End(frames[i]) <= written
               /\ i < n => frames[i + 1].from = End(frames[i])
               /\ i = n => written = End(frames[i])
               /\ \A j \in 1..n : i < j => End(frames[i]) <= frames[j].from
    <3>1. n # 0 /\ frames # <<>>
      BY <1>3
    <3>2. QED
      BY <1>1, <3>1, BetweenFrames DEF FramesIInv, FramesInARow, AllWhole, Whole
  <2>3. End(f) <= BytesOf(n + 1)
    <3>1. written <= BytesOf(n) /\ BytesOf(n) \in Nat /\ BytesOf(n + 1) = BytesOf(n) + HeaderLen + MaxLen
      BY <1>1, <1>3, BetweenFrames, BytesFacts
    <3>2. End(f) <= written + HeaderLen + MaxLen /\ End(f) \in Nat
      BY <1>2, EndFacts
    <3>3. written \in Nat /\ HeaderLen \in Nat /\ MaxLen \in Nat
      BY FramesTyped, FramingAssumption DEF FramesIInv
    <3> HIDE DEF n
    <3>4. QED
      BY <3>1, <3>2, <3>3
  <2>4. ASSUME NEW i \in 1..(n + 1)
        PROVE  /\ End(frames'[i]) <= BytesOf(i)
               /\ i < n + 1 => frames'[i + 1].from = End(frames'[i])
               /\ \A j \in 1..(n + 1) : i < j => End(frames'[i]) <= frames'[j].from
    <3>1. CASE i = n + 1
      BY <1>3, <2>3, <3>1
    <3>2. CASE i \in 1..n
      <4>1. frames'[i] = frames[i] /\ i # n + 1 /\ i \in Nat
        BY <1>3, <3>2
      <4>2. i < n + 1 => frames'[i + 1].from = End(frames[i])
        BY <1>3, <2>2, <3>2
      <4>3. ASSUME NEW j \in 1..(n + 1), i < j PROVE End(frames[i]) <= frames'[j].from
        <5>1. CASE j = n + 1
          BY <1>3, <2>2, <3>2, <5>1
        <5>2. CASE j \in 1..n
          BY <1>3, <2>2, <3>2, <4>3, <5>2
        <5>3. QED
          BY <1>3, <5>1, <5>2
      <4>4. QED
        BY <2>2, <3>2, <4>1, <4>2, <4>3
    <3>3. QED
      BY <1>3, <3>1, <3>2
  <2>5. QED
    BY <1>3, <2>1, <2>4 DEF FramesInARow, End, Valid
<1>6. HandedAreNext' /\ ReadIsAligned'
  <2>1. Handed' = Handed /\ Handed \in Nat /\ Handed <= n /\ Len(taken) \in Nat /\ Len(queue) \in Nat
    BY <1>1, FramesTyped DEF FramesIInv, HandedAreNext, Handed
  <2>2. HandedAreNext'
    BY <1>1, <1>3, <2>1 DEF FramesIInv, HandedAreNext, Handed, Whole, Valid, End
  <2>3. ReadIsAligned'
    BY <1>1, <1>3, <2>1 DEF FramesIInv, ReadIsAligned
  <2>4. QED
    BY <2>2, <2>3
<1>7. QED
  BY <1>2, <1>4, <1>5, <1>6 DEF FramesIInv

\* The client writes, within the frame it has begun last.
LEMMA WriteIInv ==
  ASSUME FramesIInv, Write
  PROVE  FramesIInv'
<1>1. /\ written' = written + 1 /\ ~AllWhole
      /\ UNCHANGED <<frames, client, start, pos, size, reader, queue, taken, ended>>
  BY DEF Write, readVars
<1>2. PICK i \in 1..Len(frames) : written < End(frames[i])
  <2>1. PICK i \in 1..Len(frames) : ~(written >= End(frames[i]))
    BY <1>1 DEF AllWhole, Whole
  <2>2. frames[i] \in Sent /\ End(frames[i]) \in Nat /\ written \in Nat
    BY FramesTyped, EndFacts DEF FramesIInv
  <2>3. QED
    BY <2>1, <2>2
<1>3. /\ i \in Nat /\ i <= Len(frames) /\ frames # <<>> /\ Len(frames) \in 1..Len(frames)
      /\ frames[i] \in Sent /\ frames[Len(frames)] \in Sent
  BY <1>2, FramesTyped DEF FramesIInv
<1>4. End(frames[i]) \in Nat /\ End(frames[i]) <= MaxBytes
  <2>1. End(frames[i]) \in Nat /\ End(frames[i]) <= BytesOf(i)
    BY <1>3, EndFacts DEF FramesIInv, FramesInARow
  <2>2. i <= MaxFrames
    BY <1>3, FramesTyped, FramingAssumption DEF FramesIInv
  <2>3. BytesOf(i) \in Nat /\ BytesOf(i) <= MaxBytes /\ MaxBytes \in Nat
    BY <1>3, <2>2, BytesFacts
  <2>4. QED
    BY <2>1, <2>3
<1>5. End(frames[i]) <= End(frames[Len(frames)]) /\ End(frames[Len(frames)]) \in Nat
  <2>1. CASE i = Len(frames)
    BY <1>4, <2>1
  <2>2. CASE i < Len(frames)
    <3>1. End(frames[i]) <= frames[Len(frames)].from
      BY <1>3, <2>2 DEF FramesIInv, FramesInARow
    <3>2. /\ frames[Len(frames)].from \in Nat /\ End(frames[Len(frames)]) \in Nat
          /\ frames[Len(frames)].from < End(frames[Len(frames)])
      BY <1>3, EndFacts
    <3>3. QED
      BY <1>4, <3>1, <3>2
  <2>3. QED
    BY <1>3, <2>1, <2>2, FramesTyped DEF FramesIInv
<1>6. written \in Nat /\ written + 1 <= End(frames[Len(frames)]) /\ written + 1 \in 0..MaxBytes
  <2>1. written \in Nat /\ MaxBytes \in Nat
    BY FramesTyped, BytesFacts DEF FramesIInv
  <2>2. QED
    BY <1>2, <1>4, <1>5, <2>1
<1>7. FramesTypeOK'
  <2>1. pos \in 0..(written + 1)
    BY FramesTyped DEF FramesIInv
  <2>2. QED
    BY <1>1, <1>6, <2>1 DEF FramesIInv, FramesTypeOK
<1>8. FramesInARow'
  BY <1>1, <1>3, <1>6 DEF FramesIInv, FramesInARow, End, Valid
<1>9. HandedAreNext'
  <2>1. ASSUME NEW k \in 1..Handed PROVE Valid(frames[k]) /\ written + 1 >= End(frames[k])
    <3>1. frames[k] \in Sent /\ Valid(frames[k]) /\ written >= End(frames[k])
      BY FramesTyped DEF FramesIInv, HandedAreNext, Whole
    <3>2. End(frames[k]) \in Nat
      BY <3>1, EndFacts
    <3>3. QED
      BY <1>6, <3>1, <3>2
  <2>2. QED
    BY <1>1, <2>1 DEF FramesIInv, HandedAreNext, Handed, Whole, Valid, End
<1>10. ReadIsAligned'
  BY <1>1 DEF FramesIInv, ReadIsAligned, Handed
<1>11. QED
  BY <1>7, <1>8, <1>9, <1>10 DEF FramesIInv

\* Somebody stops.
LEMMA StopIInv ==
  ASSUME FramesIInv, CloseClient \/ Eof \/ Finish \/ DropReader
  PROVE  FramesIInv'
<1>1. /\ UNCHANGED <<frames, written, start, pos, size, queue, taken>>
      /\ client' \in {"open", "closed"} /\ reader' \in {"reading", "eof", "failed"}
      /\ ended' \in {"no", "drained", "dropped"} /\ (reader' = "reading" => reader = "reading")
  BY DEF FramesIInv, FramesTypeOK, CloseClient, Eof, Finish, DropReader, clientVars, readVars
<1>2. FramesTypeOK'
  BY <1>1 DEF FramesIInv, FramesTypeOK
<1>3. FramesInARow' /\ HandedAreNext' /\ ReadIsAligned'
  BY <1>1 DEF FramesIInv, FramesInARow, HandedAreNext, ReadIsAligned, Handed, Whole, Valid, End
<1>4. QED
  BY <1>2, <1>3 DEF FramesIInv

\* Bytes that are read belong to the frame that is next: it exists, it begins
\* where the read began, and no other does.
LEMMA NextFrame ==
  ASSUME FramesIInv, pos < written
  PROVE  /\ Handed + 1 \in 1..Len(frames) /\ frames[Handed + 1].from = start
         /\ Begun(start) = {Handed + 1}
<1> DEFINE k == Handed
<1>1. /\ k \in Nat /\ k <= Len(frames) /\ Len(frames) \in Nat
      /\ start < written /\ start \in Nat /\ written \in Nat
      /\ start = IF k = 0 THEN 0 ELSE End(frames[k])
      /\ \A i \in 1..Len(frames) : frames[i] \in Sent
  BY FramesTyped DEF FramesIInv, HandedAreNext
<1>2. k # Len(frames)
  <2>1. CASE k = 0
    BY <1>1, <2>1, FramesTyped DEF FramesIInv, FramesInARow
  <2>2. CASE k # 0
    <3>1. SUFFICES ASSUME k = Len(frames) PROVE FALSE
      OBVIOUS
    <3>2. written <= End(frames[k]) /\ start = End(frames[k])
      BY <1>1, <2>2, <3>1 DEF FramesIInv, FramesInARow
    <3>3. QED
      BY <1>1, <3>2
  <2>3. QED
    BY <2>1, <2>2
<1>3. k + 1 \in 1..Len(frames)
  BY <1>1, <1>2
<1>4. frames[k + 1].from = start
  <2>1. CASE k = 0
    BY <1>1, <1>3, <2>1, FramesTyped DEF FramesIInv, FramesInARow
  <2>2. CASE k # 0
    <3>1. k \in 1..Len(frames) /\ k < Len(frames)
      BY <1>1, <1>2, <2>2
    <3>2. QED
      BY <1>1, <2>2, <3>1 DEF FramesIInv, FramesInARow
  <2>3. QED
    BY <2>1, <2>2
<1>5. ASSUME NEW i \in 1..Len(frames), i # k + 1 PROVE frames[i].from # start
  <2>1. /\ frames[i] \in Sent /\ frames[k + 1] \in Sent
        /\ frames[i].from \in Nat /\ End(frames[i]) \in Nat /\ frames[i].from < End(frames[i])
        /\ frames[k + 1].from \in Nat /\ End(frames[k + 1]) \in Nat
        /\ frames[k + 1].from < End(frames[k + 1])
    BY <1>1, <1>3, EndFacts
  <2>2. CASE i < k + 1
    <3>1. End(frames[i]) <= frames[k + 1].from
      BY <1>3, <2>2 DEF FramesIInv, FramesInARow
    <3>2. QED
      BY <1>4, <2>1, <3>1
  <2>3. CASE k + 1 < i
    <3>1. End(frames[k + 1]) <= frames[i].from
      BY <1>3, <2>3 DEF FramesIInv, FramesInARow
    <3>2. QED
      BY <1>4, <2>1, <3>1
  <2>4. QED
    BY <1>1, <1>5, <2>2, <2>3
<1>6. QED
  BY <1>3, <1>4, <1>5 DEF Begun

\* One byte is read.
LEMMA ReadByteIInv ==
  ASSUME FramesIInv, ReadByte
  PROVE  FramesIInv'
<1> DEFINE k == Handed
<1>1. /\ reader = "reading" /\ pos < written /\ pos' = pos + 1
      /\ ~(size # Unknown /\ pos - start = HeaderLen + size)
      /\ pos' - start = HeaderLen =>
           \E len \in Decoded : size' = (IF Accepted(len) THEN len ELSE Unknown)
      /\ pos' - start # HeaderLen => size' = size
      /\ reader' = IF pos' - start = HeaderLen /\ size' = Unknown THEN "failed" ELSE "reading"
      /\ UNCHANGED <<frames, written, client, start, queue, taken, ended>>
  BY DEF ReadByte, Polled, Complete, clientVars
<1>2. /\ k + 1 \in 1..Len(frames) /\ frames[k + 1].from = start /\ Begun(start) = {k + 1}
      /\ frames[k + 1] \in Sent /\ frames[k + 1].len \in Nat /\ k \in Nat
  BY <1>1, NextFrame, FramesTyped, EndFacts DEF FramesIInv
<1>3. Decoded = {frames[k + 1].len}
  BY <1>2 DEF Decoded
<1>4. /\ start \in Nat /\ pos \in Nat /\ start <= pos /\ written \in Nat /\ HeaderLen \in Nat
      /\ size \in Nat /\ MaxLen \in Nat /\ Unknown = MaxLen + 1 /\ size \in 0..Unknown
  BY FramesTyped DEF FramesIInv, FramesTypeOK, Unknown
<1>5. size' \in 0..Unknown /\ ReadIsAligned'
  <2>1. Handed' = Handed /\ Unknown' = Unknown
    BY <1>1 DEF Handed, Unknown
  <2>2. CASE pos' - start = HeaderLen
    <3>1. size' = IF frames[k + 1].len <= MaxLen THEN frames[k + 1].len ELSE Unknown
      BY <1>1, <1>3, <2>2 DEF Accepted
    <3>2. size' \in 0..Unknown
      BY <1>2, <1>4, <3>1
    <3>3. start + HeaderLen = pos + 1 /\ (size' = Unknown => reader' = "failed")
      BY <1>1, <1>4, <2>2
    <3>4. size' # Unknown => size' = frames[k + 1].len /\ pos + 1 <= start + HeaderLen + size'
      BY <1>2, <1>4, <3>1, <3>3
    <3>5. Handed < Len(frames)
      BY <1>2, FramesTyped DEF FramesIInv
    <3>6. QED
      BY <1>1, <1>2, <2>1, <3>2, <3>3, <3>4, <3>5, <1>4 DEF ReadIsAligned
  <2>3. CASE pos' - start # HeaderLen
    <3>1. size' = size /\ reader' = "reading"
      BY <1>1, <2>3
    <3>2. CASE size = Unknown
      BY <1>1, <1>4, <2>1, <2>3, <3>1, <3>2 DEF FramesIInv, ReadIsAligned
    <3>3. CASE size # Unknown
      BY <1>1, <1>4, <2>1, <2>3, <3>1, <3>3 DEF FramesIInv, ReadIsAligned
    <3>4. QED
      BY <3>2, <3>3
  <2>4. QED
    BY <2>2, <2>3
<1>6. FramesTypeOK'
  <2>1. pos' \in 0..written /\ start \in 0..pos'
    BY <1>1, <1>4
  <2>2. QED
    BY <1>1, <1>5, <2>1 DEF FramesIInv, FramesTypeOK, Unknown
<1>7. FramesInARow' /\ HandedAreNext'
  BY <1>1 DEF FramesIInv, FramesInARow, HandedAreNext, Handed, Whole, Valid, End
<1>8. QED
  BY <1>5, <1>6, <1>7 DEF FramesIInv

\* A whole frame is handed over: it is the next one.
LEMMA DeliverIInv ==
  ASSUME FramesIInv, Deliver
  PROVE  FramesIInv'
<1> DEFINE k == Handed
           f == [from |-> start, len |-> size]
<1>1. /\ reader = "reading" /\ size # Unknown /\ pos - start = HeaderLen + size
      /\ Len(queue) < Capacity /\ queue' = Append(queue, f) /\ start' = pos /\ size' = Unknown
      /\ UNCHANGED <<frames, written, client, pos, reader, taken, ended>>
  BY DEF Deliver, Polled, Complete, clientVars
<1>2. /\ start \in Nat /\ pos \in Nat /\ start <= pos /\ written \in Nat /\ HeaderLen \in Nat
      /\ HeaderLen > 0 /\ size \in Nat /\ MaxLen \in Nat /\ Unknown = MaxLen + 1 /\ size \in 0..Unknown
      /\ pos <= written /\ k \in Nat /\ Len(frames) \in Nat /\ Len(queue) \in Nat /\ Len(taken) \in Nat
      /\ queue \in Seq(Sent) /\ \A i \in 1..Len(frames) : frames[i] \in Sent
  BY FramesTyped DEF FramesIInv, FramesTypeOK, Unknown
<1>3. k < Len(frames) /\ size = frames[k + 1].len /\ k + 1 \in 1..Len(frames) /\ frames[k + 1] \in Sent
  BY <1>1, <1>2 DEF FramesIInv, ReadIsAligned
<1>4. frames[k + 1].from = start
  <2>1. CASE k = 0
    BY <1>2, <1>3, <2>1 DEF FramesIInv, FramesInARow, HandedAreNext
  <2>2. CASE k # 0
    <3>1. k \in 1..Len(frames)
      BY <1>2, <1>3, <2>2
    <3>2. QED
      BY <1>3, <2>2, <3>1 DEF FramesIInv, FramesInARow, HandedAreNext
  <2>3. QED
    BY <2>1, <2>2
<1>5. f = frames[k + 1] /\ f \in Sent
  BY <1>3, <1>4 DEF Sent
<1>6. Valid(frames[k + 1]) /\ End(frames[k + 1]) = pos
  <2>1. Valid(frames[k + 1])
    <3>1. size <= MaxLen
      BY <1>1, <1>2
    <3>2. QED
      BY <1>3, <3>1 DEF Valid, Accepted
  <2>2. End(frames[k + 1]) = start + HeaderLen + size
    BY <1>3, <1>4, <2>1 DEF End
  <2>3. QED
    BY <1>1, <1>2, <2>1, <2>2
<1>7. /\ queue' \in Seq(Sent) /\ Len(queue') = Len(queue) + 1 /\ queue'[Len(queue) + 1] = frames[k + 1]
      /\ \A i \in 1..Len(queue) : queue'[i] = queue[i]
      /\ Handed' = k + 1
  <2>1. /\ queue' \in Seq(Sent) /\ Len(queue') = Len(queue) + 1 /\ queue'[Len(queue) + 1] = f
        /\ \A i \in 1..Len(queue) : queue'[i] = queue[i]
    BY <1>1, <1>2, <1>5
  <2>2. QED
    BY <1>1, <1>2, <1>5, <2>1 DEF Handed
<1>8. FramesTypeOK'
  <2>1. Len(queue') <= Capacity
    BY <1>1, <1>2, <1>7, FramingAssumption
  <2>2. size' \in 0..Unknown /\ start' \in 0..pos
    BY <1>1, <1>2
  <2>3. QED
    BY <1>1, <1>7, <2>1, <2>2 DEF FramesIInv, FramesTypeOK, Sent, Unknown
<1>9. HandedAreNext'
  <2>1. ASSUME NEW i \in 1..(k + 1) PROVE Valid(frames[i]) /\ written >= End(frames[i])
    <3>1. CASE i = k + 1
      BY <1>2, <1>6, <3>1
    <3>2. CASE i \in 1..k
      BY <3>2 DEF FramesIInv, HandedAreNext, Whole
    <3>3. QED
      BY <1>2, <3>1, <3>2
  <2>2. ASSUME NEW i \in 1..Len(queue') PROVE queue'[i] = frames[Len(taken) + i]
    <3>1. CASE i = Len(queue) + 1
      <4>1. Len(taken) + i = k + 1
        BY <1>2, <3>1 DEF Handed
      <4>2. QED
        BY <1>7, <3>1, <4>1
    <3>2. CASE i \in 1..Len(queue)
      BY <1>7, <3>2 DEF FramesIInv, HandedAreNext
    <3>3. QED
      BY <1>2, <1>7, <3>1, <3>2
  <2>3. k + 1 # 0 /\ k + 1 <= Len(frames)
    BY <1>2, <1>3
  <2>4. QED
    BY <1>1, <1>6, <1>7, <2>1, <2>2, <2>3 DEF FramesIInv, HandedAreNext, Whole, Valid, End
<1>10. FramesInARow'
  BY <1>1 DEF FramesIInv, FramesInARow, Valid, End
<1>11. ReadIsAligned'
  BY <1>1, <1>2 DEF ReadIsAligned, Unknown
<1>12. QED
  BY <1>8, <1>9, <1>10, <1>11 DEF FramesIInv

\* The user handles the next frame of the client.
LEMMA TakeIInv ==
  ASSUME FramesIInv, Take
  PROVE  /\ FramesIInv'
         /\ Len(taken) + 1 \in 1..Handed /\ taken' = Append(taken, frames[Len(taken) + 1])
<1>1. /\ queue # <<>> /\ taken' = Append(taken, Head(queue)) /\ queue' = Tail(queue)
      /\ UNCHANGED <<frames, written, client, start, pos, size, reader, ended>>
  BY DEF Take, clientVars, readVars
<1>2. /\ queue \in Seq(Sent) /\ taken \in Seq(Sent) /\ Len(queue) \in Nat /\ Len(taken) \in Nat
      /\ Len(queue) # 0 /\ Head(queue) = queue[1] /\ queue[1] \in Sent
  BY <1>1, FramesTyped DEF FramesIInv
<1>3. /\ taken' \in Seq(Sent) /\ Len(taken') = Len(taken) + 1 /\ taken'[Len(taken) + 1] = queue[1]
      /\ \A i \in 1..Len(taken) : taken'[i] = taken[i]
  BY <1>1, <1>2
<1>4. /\ queue' \in Seq(Sent) /\ Len(queue') = Len(queue) - 1
      /\ \A i \in 1..Len(queue') : queue'[i] = queue[i + 1]
  BY <1>1, <1>2
<1>5. Handed' = Handed /\ queue[1] = frames[Len(taken) + 1] /\ Len(taken) + 1 \in 1..Handed
  BY <1>2, <1>3, <1>4 DEF FramesIInv, HandedAreNext, Handed
<1>6. FramesTypeOK'
  <2>1. Len(queue') <= Capacity
    BY <1>2, <1>4, FramingAssumption DEF FramesIInv, FramesTypeOK
  <2>2. QED
    BY <1>1, <1>3, <1>4, <2>1 DEF FramesIInv, FramesTypeOK, Sent
<1>7. HandedAreNext'
  <2>1. ASSUME NEW i \in 1..Len(taken') PROVE taken'[i] = frames[i]
    <3>1. CASE i = Len(taken) + 1
      BY <1>3, <1>5, <3>1
    <3>2. CASE i \in 1..Len(taken)
      BY <1>3, <3>2 DEF FramesIInv, HandedAreNext
    <3>3. QED
      BY <1>2, <1>3, <3>1, <3>2
  <2>2. ASSUME NEW i \in 1..Len(queue') PROVE queue'[i] = frames[Len(taken') + i]
    <3>1. i + 1 \in 1..Len(queue) /\ Len(taken) + (i + 1) = Len(taken') + i
      BY <1>2, <1>3, <1>4
    <3>2. queue[i + 1] = frames[Len(taken) + (i + 1)]
      BY <3>1 DEF FramesIInv, HandedAreNext
    <3>3. QED
      BY <1>4, <3>1, <3>2
  <2>3. QED
    BY <1>1, <1>5, <2>1, <2>2 DEF FramesIInv, HandedAreNext, Whole, Valid, End
<1>8. FramesInARow' /\ ReadIsAligned'
  BY <1>1, <1>5 DEF FramesIInv, FramesInARow, ReadIsAligned, Valid, End
<1>9. QED
  BY <1>1, <1>2, <1>5, <1>6, <1>7, <1>8 DEF FramesIInv

\* Every step preserves the inductive invariant.
LEMMA FramesNextIInv == ASSUME FramesIInv, [FramesNext]_frameVars PROVE FramesIInv'
<1>1. CASE UNCHANGED frameVars
  BY <1>1 DEF frameVars, clientVars, readVars, FramesIInv, FramesTypeOK, FramesInARow, HandedAreNext, ReadIsAligned,
              Handed, Whole, Valid, End
<1>2. QED
  BY <1>1, BeginIInv, WriteIInv, StopIInv, ReadByteIInv, DeliverIInv, TakeIInv DEF FramesNext

\* The inductive invariant holds in every reachable state.
THEOREM FramesInvariance == FramesSpec => []FramesIInv
BY FramesInitIInv, FramesNextIInv, PTL DEF FramesSpec

\* Every frame that is handed over is the client's next one, whole.
THEOREM FramesComeIntact == FramesSpec => []FramesIntact
<1>1. FramesIInv => FramesIntact
  <2>1. SUFFICES ASSUME FramesIInv PROVE FramesIntact
    OBVIOUS
  <2>2. Len(taken) <= Handed /\ Handed <= Len(frames) /\ Len(taken) \in Nat /\ Handed \in Nat /\ Len(frames) \in Nat
    BY <2>1, FramesTyped DEF FramesIInv, HandedAreNext, Handed
  <2>3. QED
    BY <2>1, <2>2 DEF FramesIInv, HandedAreNext, FramesIntact
<1>2. QED
  BY <1>1, FramesInvariance, PTL

\* Each step of the reader is a step of the channel: the client's beginning of a
\* frame is Send, the user's taking of one is Receive, and the rest changes
\* nothing a channel's user can see.
LEMMA StepImplements ==
  ASSUME FramesIInv, [FramesNext]_frameVars
  PROVE  [Channel!Next]_<<frames, taken>>
<1>1. ASSUME NEW len \in Lens, Begin(len) PROVE Channel!Send
  <2>1. /\ frames' = Append(frames, [from |-> written, len |-> len]) /\ taken' = taken
        /\ [from |-> written, len |-> len] \in [from : 0..MaxBytes, len : Lens]
    BY <1>1, BeginIInv DEF Begin, Sent
  <2>2. QED
    BY <2>1 DEF Channel!Send
<1>2. ASSUME Take PROVE Channel!Receive
  <2>1. /\ Len(taken) + 1 \in 1..Handed /\ taken' = Append(taken, frames[Len(taken) + 1])
        /\ frames' = frames
    BY <1>2, TakeIInv DEF Take, clientVars
  <2>2. Len(taken) \in Nat /\ Handed \in Nat /\ Len(frames) \in Nat /\ Handed <= Len(frames)
    BY FramesTyped DEF FramesIInv, HandedAreNext
  <2>3. \A i \in 1..(Len(taken) + 1) : Valid(frames[i])
    BY <2>1, <2>2 DEF FramesIInv, HandedAreNext
  <2>4. QED
    BY <2>1, <2>2, <2>3 DEF Channel!Receive
<1>3. ASSUME UNCHANGED frameVars \/ Write \/ CloseClient \/ ReadByte \/ Deliver \/ Eof \/ Finish \/ DropReader
      PROVE  UNCHANGED <<frames, taken>>
  BY <1>3 DEF frameVars, clientVars, readVars, Write, CloseClient, ReadByte, Deliver, Eof, Finish, DropReader
<1>4. QED
  BY <1>1, <1>2, <1>3 DEF FramesNext, Channel!Next

\* A connection that proxy.rs reads is a FrameChannel: what comes out is what
\* went in, whole, in order and once, and nothing behind an invalid frame.
THEOREM Implements == FramesSpec => IsChannel
<1>1. FramesInit => Channel!Init
  BY DEF FramesInit, Channel!Init
<1>2. FramesIInv /\ [FramesNext]_frameVars => [Channel!Next]_<<frames, taken>>
  BY StepImplements
<1>3. QED
  BY <1>1, <1>2, FramesInvariance, PTL DEF FramesSpec, IsChannel, Channel!Spec
=============================================================================
