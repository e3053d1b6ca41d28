-------------------------- MODULE ServerLocksProofs --------------------------
(***************************************************************************)
(* The discipline that keeps readers-writer locks free of deadlocks, for   *)
(* any number of tasks, locks and programs: every program takes its locks  *)
(* in descending rank and frees them again.  That is the first part.       *)
(*                                                                         *)
(* The second shows that the tasks of the server take their locks in such  *)
(* an order, and so never wait in a circle.  A lock ranks above those that *)
(* are taken while it is held.                                             *)
(***************************************************************************)
EXTENDS ServerLocks, WellFoundedInduction, SequenceTheorems, TLAPS

\* A set of natural numbers that is not empty has a least element.
LEMMA LeastElement ==
  ASSUME NEW S \in SUBSET Nat, S # {}
  PROVE  \E m \in S : \A n \in S : m <= n
<1> DEFINE R == OpToRel(<, Nat)
<1>1. \A m, n \in Nat : m < n => <<m, n>> \in R
  BY DEF OpToRel
<1>2. IsWellFoundedOn(R, Nat)
  BY NatLessThanWellFounded
<1> HIDE DEF R
<1>3. \E m \in S : \A n \in S : ~(<<n, m>> \in R)
  BY <1>2, WFMin
<1>4. \A m, n \in Nat : n < m \/ m <= n
  OBVIOUS
<1> QED
  BY <1>1, <1>3, <1>4

(***************************************************************************)
(* Programs in order stay in order as they are carried out.                *)
(***************************************************************************)
\* What is freed in a part of a program behind its first operation is freed in
\* the same part of the tail.
LEMMA TailFrees ==
  ASSUME NEW p \in Seq(Operation), p # <<>>, NEW l, NEW i \in Nat, i > 0, NEW j \in Nat,
         j < Len(p), FreedBetween(p, l, i + 1, j + 1)
  PROVE  FreedBetween(Tail(p), l, i, j)
<1>1. PICK k \in (i + 1)..(j + 1) : p[k] = [op |-> "free", lock |-> l]
  BY DEF FreedBetween
<1>2. k - 1 \in i..j /\ k - 1 \in 1..(Len(p) - 1)
  OBVIOUS
<1>3. Tail(p)[k - 1] = p[k]
  BY <1>2, HeadTailProperties
<1> QED
  BY <1>1, <1>2, <1>3 DEF FreedBetween

\* A part that begins with an operation other than the one that frees l.
LEMMA FreedLater ==
  ASSUME NEW p \in Seq(Operation), p # <<>>, NEW l, NEW j \in Nat,
         FreedBetween(p, l, 1, j), p[1] # [op |-> "free", lock |-> l]
  PROVE  FreedBetween(p, l, 2, j)
BY DEF FreedBetween

\* A lock is taken: the rest is in order with it among those that are held.
LEMMA OrderAfterAcquire ==
  ASSUME NEW rank, NEW p \in Seq(Operation), NEW H, InOrder(rank, p, H), p # <<>>,
         Acquires(p[1].op)
  PROVE  InOrder(rank, Tail(p), H \cup {p[1].lock})
<1> DEFINE q == Tail(p)
           h == p[1].lock
<1>1. /\ Len(p) \in Nat /\ Len(p) > 0 /\ Len(q) = Len(p) - 1
      /\ \A i \in 1..Len(q) : q[i] = p[i + 1]
  BY HeadTailProperties
<1>2. \A l : p[1] # [op |-> "free", lock |-> l]
  BY DEF Acquires
<1>3. ASSUME NEW l \in H \cup {h}
      PROVE  FreedBetween(q, l, 1, Len(q))
  <2>1. FreedBetween(p, l, 2, Len(p))
    <3>1. CASE l \in H
      <4>1. FreedBetween(p, l, 1, Len(p))
        BY <3>1 DEF InOrder
      <4> QED
        BY <1>1, <1>2, <4>1, FreedLater
    <3>2. CASE l = h
      <4>1. FreedBetween(p, l, 1 + 1, Len(p))
        BY <1>1, <3>2 DEF InOrder
      <4> QED
        BY <4>1
    <3> QED
      BY <3>1, <3>2
  <2> QED
    BY <1>1, <2>1, TailFrees
<1>4. ASSUME NEW i \in 1..Len(q), Acquires(q[i].op)
      PROVE  /\ FreedBetween(q, q[i].lock, i + 1, Len(q))
             /\ \A l \in H \cup {h} :
                  rank[q[i].lock] < rank[l] \/ FreedBetween(q, l, 1, i - 1)
             /\ \A j \in 1..(i - 1) : Acquires(q[j].op) =>
                  rank[q[i].lock] < rank[q[j].lock] \/ FreedBetween(q, q[j].lock, j + 1, i - 1)
  <2>1. /\ i + 1 \in 1..Len(p) /\ q[i] = p[i + 1]
        /\ i \in Nat /\ i > 0 /\ i < Len(p) /\ (i + 1) - 1 = i
    BY <1>1
  <2>2. FreedBetween(q, q[i].lock, i + 1, Len(q))
    <3>1. FreedBetween(p, q[i].lock, (i + 1) + 1, Len(p))
      BY <1>4, <2>1 DEF InOrder
    <3> QED
      BY <1>1, <2>1, <3>1, TailFrees
  <2>3. ASSUME NEW l \in H \cup {h}
        PROVE  rank[q[i].lock] < rank[l] \/ FreedBetween(q, l, 1, i - 1)
    <3>1. rank[q[i].lock] < rank[l] \/ FreedBetween(p, l, 2, i)
      <4>1. CASE l \in H
        <5>1. rank[q[i].lock] < rank[l] \/ FreedBetween(p, l, 1, (i + 1) - 1)
          BY <1>4, <2>1, <4>1 DEF InOrder
        <5> QED
          BY <1>2, <2>1, <5>1, FreedLater
      <4>2. CASE l = h
        <5>1. 1 \in 1..((i + 1) - 1)
          BY <2>1
        <5>2. rank[q[i].lock] < rank[l] \/ FreedBetween(p, l, 1 + 1, (i + 1) - 1)
          BY <1>4, <2>1, <4>2, <5>1 DEF InOrder
        <5> QED
          BY <2>1, <5>2
      <4> QED
        BY <4>1, <4>2
    <3> QED
      BY <1>1, <2>1, <3>1, TailFrees
  <2>4. ASSUME NEW j \in 1..(i - 1), Acquires(q[j].op)
        PROVE  rank[q[i].lock] < rank[q[j].lock] \/ FreedBetween(q, q[j].lock, j + 1, i - 1)
    <3>1. j + 1 \in 1..((i + 1) - 1) /\ q[j] = p[j + 1]
      BY <1>1, <2>1
    <3>2. rank[q[i].lock] < rank[q[j].lock]
            \/ FreedBetween(p, q[j].lock, (j + 1) + 1, (i + 1) - 1)
      BY <1>4, <2>1, <2>4, <3>1 DEF InOrder
    <3>3. /\ j + 1 \in Nat /\ j + 1 > 0
          /\ i - 1 \in Nat /\ i - 1 < Len(p) /\ (i - 1) + 1 = (i + 1) - 1
      BY <1>1, <2>1
    <3> QED
      BY <3>2, <3>3, TailFrees
  <2> QED
    BY <2>2, <2>3, <2>4
<1> QED
  BY <1>3, <1>4 DEF InOrder

\* A lock is freed: the rest is in order with the others.
LEMMA OrderAfterFree ==
  ASSUME NEW rank, NEW p \in Seq(Operation), NEW H, InOrder(rank, p, H), p # <<>>,
         p[1].op = "free"
  PROVE  InOrder(rank, Tail(p), H \ {p[1].lock})
<1> DEFINE q == Tail(p)
           h == p[1].lock
<1>1. /\ Len(p) \in Nat /\ Len(p) > 0 /\ Len(q) = Len(p) - 1
      /\ \A i \in 1..Len(q) : q[i] = p[i + 1]
  BY HeadTailProperties
<1>2. \A l \in H \ {h} : p[1] # [op |-> "free", lock |-> l]
  OBVIOUS
<1>3. ASSUME NEW l \in H \ {h}
      PROVE  FreedBetween(q, l, 1, Len(q))
  <2>1. FreedBetween(p, l, 2, Len(p))
    BY <1>1, <1>2, FreedLater DEF InOrder
  <2> QED
    BY <1>1, <2>1, TailFrees
<1>4. ASSUME NEW i \in 1..Len(q), Acquires(q[i].op)
      PROVE  /\ FreedBetween(q, q[i].lock, i + 1, Len(q))
             /\ \A l \in H \ {h} :
                  rank[q[i].lock] < rank[l] \/ FreedBetween(q, l, 1, i - 1)
             /\ \A j \in 1..(i - 1) : Acquires(q[j].op) =>
                  rank[q[i].lock] < rank[q[j].lock] \/ FreedBetween(q, q[j].lock, j + 1, i - 1)
  <2>1. /\ i + 1 \in 1..Len(p) /\ q[i] = p[i + 1]
        /\ i \in Nat /\ i > 0 /\ i < Len(p) /\ (i + 1) - 1 = i
    BY <1>1
  <2>2. FreedBetween(q, q[i].lock, i + 1, Len(q))
    <3>1. FreedBetween(p, q[i].lock, (i + 1) + 1, Len(p))
      BY <1>4, <2>1 DEF InOrder
    <3> QED
      BY <1>1, <2>1, <3>1, TailFrees
  <2>3. ASSUME NEW l \in H \ {h}
        PROVE  rank[q[i].lock] < rank[l] \/ FreedBetween(q, l, 1, i - 1)
    <3>1. rank[q[i].lock] < rank[l] \/ FreedBetween(p, l, 1, (i + 1) - 1)
      BY <1>4, <2>1 DEF InOrder
    <3>2. rank[q[i].lock] < rank[l] \/ FreedBetween(p, l, 2, i)
      BY <1>2, <2>1, <3>1, FreedLater
    <3> QED
      BY <1>1, <2>1, <3>2, TailFrees
  <2>4. ASSUME NEW j \in 1..(i - 1), Acquires(q[j].op)
        PROVE  rank[q[i].lock] < rank[q[j].lock] \/ FreedBetween(q, q[j].lock, j + 1, i - 1)
    <3>1. j + 1 \in 1..((i + 1) - 1) /\ q[j] = p[j + 1]
      BY <1>1, <2>1
    <3>2. rank[q[i].lock] < rank[q[j].lock]
            \/ FreedBetween(p, q[j].lock, (j + 1) + 1, (i + 1) - 1)
      BY <1>4, <2>1, <2>4, <3>1 DEF InOrder
    <3>3. /\ j + 1 \in Nat /\ j + 1 > 0
          /\ i - 1 \in Nat /\ i - 1 < Len(p) /\ (i - 1) + 1 = (i + 1) - 1
      BY <1>1, <2>1
    <3> QED
      BY <3>2, <3>3, TailFrees
  <2> QED
    BY <2>2, <2>3, <2>4
<1> QED
  BY <1>3, <1>4 DEF InOrder

(***************************************************************************)
(* The invariants.                                                         *)
(***************************************************************************)
IInv(rank) == TypeOK /\ LeftInOrder(rank)

\* The locks of some guards and one more.
LEMMA LocksWithOne ==
  ASSUME NEW G, NEW mode, NEW l
  PROVE  {g.lock : g \in G \cup {[op |-> mode, lock |-> l]}} = {g.lock : g \in G} \cup {l}
<1>1. [op |-> mode, lock |-> l].lock = l
  OBVIOUS
<1> QED
  BY <1>1, Zenon

\* With nothing left to do, programs in order hold nothing.
LEMMA OrderAtEnd ==
  ASSUME NEW rank, NEW H, InOrder(rank, <<>>, H)
  PROVE  H = {}
<1>1. \A l \in H : FreedBetween(<<>>, l, 1, 0)
  BY DEF InOrder
<1> QED
  BY <1>1 DEF FreedBetween

\* The next operation that takes a lock takes one below all its task holds.
LEMMA NextIsBelow ==
  ASSUME NEW rank, IInv(rank), NEW t \in Tasks, ~Idle(t), Acquires(Head(todo[t]).op),
         NEW l \in Locked(t)
  PROVE  rank[Head(todo[t]).lock] < rank[l]
<1>1. /\ 1 \in 1..Len(todo[t]) /\ Head(todo[t]) = todo[t][1]
  BY DEF IInv, TypeOK, Idle
<1>2. rank[todo[t][1].lock] < rank[l] \/ FreedBetween(todo[t], l, 1, 1 - 1)
  BY <1>1 DEF IInv, LeftInOrder, InOrder
<1>3. ~FreedBetween(todo[t], l, 1, 1 - 1)
  BY DEF FreedBetween
<1> QED
  BY <1>1, <1>2, <1>3

LEMMA InitIInv ==
  ASSUME NEW rank
  PROVE  Init => IInv(rank)
<1> SUFFICES ASSUME Init PROVE IInv(rank)
  OBVIOUS
<1>1. TypeOK
  BY DEF Init, TypeOK, Idle
<1>2. \A t \in Tasks : Locked(t) = {} /\ todo[t] = <<>>
  BY DEF Init, Locked
<1>3. InOrder(rank, <<>>, {})
  BY DEF InOrder
<1> QED
  BY <1>1, <1>2, <1>3 DEF IInv, LeftInOrder

\* Every step keeps what is left of the programs in order.
LEMMA NextIInv ==
  ASSUME NEW rank, ProgramsInOrder(rank), IInv(rank), [Next]_vars
  PROVE  IInv(rank)'
<1>1. CASE UNCHANGED vars
  <2>1. \A t \in Tasks : Locked(t)' = Locked(t)
    BY <1>1 DEF vars, Locked
  <2> QED
    BY <1>1, <2>1 DEF vars, IInv, TypeOK, LeftInOrder, Idle
<1>2. ASSUME NEW t \in Tasks, NEW p \in Programs[t], Start(t, p)
      PROVE  IInv(rank)'
  <2>1. p \in Seq(Operation) /\ InOrder(rank, p, {})
    BY DEF ProgramsInOrder
  <2>2. held[t] = {} /\ Locked(t)' = {}
    BY <1>2 DEF IInv, TypeOK, Start, Locked
  <2>3. \A u \in Tasks : todo'[u] = IF u = t THEN p ELSE todo[u]
    BY <1>2 DEF IInv, TypeOK, Start
  <2>4. \A u \in Tasks : u # t => Locked(u)' = Locked(u)
    BY <1>2 DEF Start, Locked
  <2>5. LeftInOrder(rank)'
    BY <2>1, <2>2, <2>3, <2>4 DEF IInv, LeftInOrder
  <2>6. TypeOK'
    BY <1>2, <2>1, <2>2, <2>3 DEF IInv, TypeOK, Start, Idle
  <2> QED
    BY <2>5, <2>6 DEF IInv
<1>3. ASSUME NEW t \in Tasks, NEW l \in Locks,
             Read(t, l) \/ Write(t, l) \/ Free(t, l)
      PROVE  IInv(rank)'
  <2> DEFINE p == todo[t]
  <2>1. /\ p \in Seq(Operation) /\ p # <<>> /\ Head(p) = p[1] /\ Tail(p) \in Seq(Operation)
        /\ InOrder(rank, p, Locked(t)) /\ p[1] \in Operation /\ p[1].lock = l
    BY <1>3 DEF IInv, TypeOK, LeftInOrder, Read, Write, Free, Wants, Idle
  <2> DEFINE mode == IF Read(t, l) THEN "read" ELSE "write"
             now == IF Free(t, l) THEN {g \in held[t] : g.lock # l}
                    ELSE held[t] \cup {[op |-> mode, lock |-> l]}
  <2>2. Step(t, now)
    BY <1>3, <2>1 DEF Read, Write, Free, Wants
  <2>3. now \in SUBSET Guard
    BY DEF IInv, TypeOK, Guard
  <2>4. /\ \A u \in Tasks : todo'[u] = IF u = t THEN Tail(p) ELSE todo[u]
        /\ \A u \in Tasks : held'[u] = IF u = t THEN now ELSE held[u]
        /\ todo' \in [Tasks -> Seq(Operation)] /\ held' \in [Tasks -> SUBSET Guard]
    <3> HIDE DEF now
    <3> QED
      BY <2>2, <2>3, <2>1 DEF IInv, TypeOK, Step
  <2>5. \A u \in Tasks : u # t => held'[u] = held[u] /\ Locked(u)' = Locked(u)
    BY <2>4 DEF IInv, TypeOK, Locked
  <2>6. InOrder(rank, Tail(p), Locked(t)')
    <3>1. CASE Read(t, l) \/ Write(t, l)
      <4>1. ~Free(t, l)
        BY <3>1, <2>1 DEF Read, Write, Free, Wants
      <4>2. Locked(t)' = Locked(t) \cup {l}
        <5>1. held'[t] = held[t] \cup {[op |-> mode, lock |-> l]}
          BY <4>1, <2>4
        <5>2. Locked(t)' = {g.lock : g \in held[t] \cup {[op |-> mode, lock |-> l]}}
          BY <5>1 DEF Locked
        <5> HIDE DEF mode
        <5> QED
          BY <5>2, LocksWithOne DEF Locked
      <4>3. Acquires(p[1].op)
        BY <3>1, <2>1 DEF Read, Write, Wants, Acquires
      <4> QED
        BY <2>1, <4>2, <4>3, OrderAfterAcquire
    <3>2. CASE Free(t, l)
      <4>1. Locked(t)' = Locked(t) \ {l}
        BY <3>2, <2>4 DEF Locked
      <4>2. p[1].op = "free"
        BY <3>2, <2>1 DEF Free, Wants
      <4> QED
        BY <2>1, <4>1, <4>2, OrderAfterFree
    <3> QED
      BY <1>3, <3>1, <3>2
  <2>7. LeftInOrder(rank)'
    BY <2>4, <2>5, <2>6 DEF IInv, LeftInOrder
  <2>8. Tail(p) = <<>> => held'[t] = {}
    <3>1. Tail(p) = <<>> => Locked(t)' = {}
      BY <2>6, OrderAtEnd
    <3> QED
      BY <3>1 DEF Locked
  <2>9. queued' \subseteq {u \in Tasks : ~Idle(u)' /\ Head(todo'[u]).op = "write"}
    BY <1>3, <2>1, <2>4 DEF IInv, TypeOK, Read, Write, Free, Wants, Idle, Dequeue
  <2>10. TypeOK'
    BY <2>4, <2>5, <2>8, <2>9 DEF IInv, TypeOK, Idle
  <2> QED
    BY <2>7, <2>10 DEF IInv
<1>4. ASSUME NEW t \in Tasks, NEW l \in Locks, Queue(t, l)
      PROVE  IInv(rank)'
  <2>1. \A u \in Tasks : Locked(u)' = Locked(u)
    BY <1>4 DEF Queue, Locked
  <2>2. LeftInOrder(rank)'
    BY <1>4, <2>1 DEF IInv, LeftInOrder, Queue
  <2>3. TypeOK'
    BY <1>4 DEF IInv, TypeOK, Queue, Wants, Idle
  <2> QED
    BY <2>2, <2>3 DEF IInv
<1> QED
  BY <1>1, <1>2, <1>3, <1>4 DEF Next

\* Nobody waits in a circle: of the tasks of one, the one that wants the lowest
\* lock could only wait for a task that wants a lower one still.
LEMMA OrderPreventsCircles ==
  ASSUME NEW rank \in [Locks -> Nat], IInv(rank)
  PROVE  NoCircularWait
<1> SUFFICES ASSUME NEW S \in SUBSET Tasks, S # {},
                    \A t \in S : \E u \in S : BlockedBy(t, u)
             PROVE  FALSE
  BY DEF NoCircularWait
<1> DEFINE wanted(t) == Head(todo[t]).lock
           ranks == {rank[wanted(t)] : t \in S}
<1>1. \A t \in S : ~Idle(t) /\ Acquires(Head(todo[t]).op) /\ wanted(t) \in Locks
  <2> SUFFICES ASSUME NEW t \in S
               PROVE  ~Idle(t) /\ Acquires(Head(todo[t]).op) /\ wanted(t) \in Locks
    OBVIOUS
  <2>1. ~Idle(t) /\ Acquires(Head(todo[t]).op)
    BY DEF BlockedBy, Acquires
  <2>2. Head(todo[t]) \in Operation
    BY <2>1 DEF IInv, TypeOK, Idle
  <2> QED
    BY <2>1, <2>2 DEF Operation
<1>2. PICK t \in S : \A u \in S : rank[wanted(t)] <= rank[wanted(u)]
  <2>1. ranks \in SUBSET Nat /\ ranks # {}
    BY <1>1
  <2>2. \E m \in ranks : \A n \in ranks : m <= n
    BY <2>1, LeastElement
  <2> QED
    BY <2>2
<1>3. \A u \in S, l \in Locks : HoldsAny(u, l) => rank[wanted(u)] < rank[l]
  BY <1>1, NextIsBelow DEF HoldsAny, Holds, Locked
<1>4. \A u \in S : ~HoldsAny(u, wanted(t))
  BY <1>1, <1>2, <1>3
<1>5. PICK u \in S : BlockedBy(t, u)
  OBVIOUS
<1>6. Wants(u, "write", wanted(t))
  BY <1>4, <1>5 DEF BlockedBy, HoldsAny, WaitingWriters
<1>7. PICK v \in S : BlockedBy(u, v)
  OBVIOUS
<1>8. HoldsAny(v, wanted(t))
  BY <1>6, <1>7 DEF BlockedBy, Wants
<1> QED
  BY <1>4, <1>8

\* Tasks whose programs take their locks in descending rank are well typed and
\* hold nothing when idle.
THEOREM TypeCorrectness ==
  ASSUME NEW CONSTANT rank \in [Locks -> Nat], ProgramsInOrder(rank)
  PROVE  Spec => []TypeOK
<1>1. Init => IInv(rank)
  BY InitIInv
<1>2. IInv(rank) /\ [Next]_vars => IInv(rank)'
  BY NextIInv
<1>3. IInv(rank) => TypeOK
  BY DEF IInv
<1> QED
  BY <1>1, <1>2, <1>3, PTL DEF Spec

\* They never wait in a circle, whatever their number and schedule.
THEOREM OrderedLocksAreSafe ==
  ASSUME NEW CONSTANT rank \in [Locks -> Nat], ProgramsInOrder(rank)
  PROVE  Spec => []NoCircularWait
<1>1. Init => IInv(rank)
  BY InitIInv
<1>2. IInv(rank) /\ [Next]_vars => IInv(rank)'
  BY NextIInv
<1>3. IInv(rank) => NoCircularWait
  BY OrderPreventsCircles
<1> QED
  BY <1>1, <1>2, <1>3, PTL DEF Spec

-----------------------------------------------------------------------------

ServerRank ==
  [status |-> 4, registry |-> 3, calib |-> 2, lengths |-> 1,
   ports |-> 0, pose |-> 0, autobone |-> 0, target |-> 0, hmd |-> 0]

\* A program in order that takes only locks ranking below b.
InOrderBelow(p, b) ==
  /\ p \in Seq(Operation)
  /\ InOrder(ServerRank, p, {})
  /\ \A i \in 1..Len(p) : Acquires(p[i].op) => ServerRank[p[i].lock] < b

LEMMA RankType == Locks = ServerLockNames => ServerRank \in [Locks -> Nat]
BY DEF ServerLockNames, ServerRank

LEMMA EmptyInOrder == \A b : InOrderBelow(<<>>, b)
BY DEF InOrderBelow, InOrder

\* What is freed in a part of a program is freed there when it is embedded in a
\* longer one.
LEMMA EmbeddedFrees ==
  ASSUME NEW p, NEW q, NEW d \in Nat, NEW n \in Nat,
         \A k \in 1..n : q[d + k] = p[k],
         NEW l, NEW i \in 1..(n + 1), NEW j \in 0..n, FreedBetween(p, l, i, j)
  PROVE  FreedBetween(q, l, d + i, d + j)
<1>1. PICK k \in i..j : p[k] = [op |-> "free", lock |-> l]
  BY DEF FreedBetween
<1>2. d + k \in (d + i)..(d + j) /\ q[d + k] = p[k]
  OBVIOUS
<1> QED
  BY <1>1, <1>2 DEF FreedBetween

\* So it is in a wider part.
LEMMA WiderFrees ==
  ASSUME NEW p, NEW l, NEW i \in Nat, NEW j \in Nat, NEW k \in Nat, j <= k,
         FreedBetween(p, l, i, j)
  PROVE  FreedBetween(p, l, i, k)
BY DEF FreedBetween

\* One program after another.
LEMMA ConcatInOrder ==
  ASSUME NEW b, NEW p, NEW q, InOrderBelow(p, b), InOrderBelow(q, b)
  PROVE  InOrderBelow(p \o q, b)
<1> DEFINE r == p \o q
           m == Len(p)
           n == Len(q)
<1>1. /\ p \in Seq(Operation) /\ q \in Seq(Operation) /\ m \in Nat /\ n \in Nat
      /\ InOrder(ServerRank, p, {}) /\ InOrder(ServerRank, q, {})
  BY DEF InOrderBelow
<1>2. /\ r \in Seq(Operation) /\ Len(r) = m + n
      /\ \A k \in 1..m : r[k] = p[k] /\ r[0 + k] = p[k]
      /\ \A k \in 1..n : r[m + k] = q[k]
  BY <1>1, ConcatProperties
<1> HIDE DEF r
<1>3. \A l : \A i \in 1..(m + 1), j \in 0..m :
        FreedBetween(p, l, i, j) => FreedBetween(r, l, i, j)
  <2>1. \A l : \A i \in 1..(m + 1), j \in 0..m :
          FreedBetween(p, l, i, j) => FreedBetween(r, l, 0 + i, 0 + j)
    BY <1>1, <1>2, EmbeddedFrees
  <2>2. \A i \in 1..(m + 1), j \in 0..m : 0 + i = i /\ 0 + j = j
    BY <1>1
  <2> QED
    BY <2>1, <2>2
<1>4. \A l : \A i \in 1..(n + 1), j \in 0..n :
        FreedBetween(q, l, i, j) => FreedBetween(r, l, m + i, m + j)
  BY <1>1, <1>2, EmbeddedFrees
<1>5. ASSUME NEW i \in 1..m, Acquires(r[i].op)
      PROVE  /\ ServerRank[r[i].lock] < b
             /\ FreedBetween(r, r[i].lock, i + 1, m)
             /\ \A j \in 1..(i - 1) : Acquires(r[j].op) =>
                  ServerRank[r[i].lock] < ServerRank[r[j].lock]
                    \/ FreedBetween(r, r[j].lock, j + 1, i - 1)
  <2>1. r[i] = p[i] /\ ServerRank[r[i].lock] < b
    BY <1>2, <1>5 DEF InOrderBelow
  <2>2. FreedBetween(r, r[i].lock, i + 1, m)
    <3>1. FreedBetween(p, r[i].lock, i + 1, m)
      BY <1>1, <1>5, <2>1 DEF InOrder
    <3> QED
      BY <1>1, <1>3, <3>1
  <2>3. ASSUME NEW j \in 1..(i - 1), Acquires(r[j].op)
        PROVE  ServerRank[r[i].lock] < ServerRank[r[j].lock]
                 \/ FreedBetween(r, r[j].lock, j + 1, i - 1)
    <3>1. r[j] = p[j]
      BY <1>1, <1>2
    <3>2. ServerRank[r[i].lock] < ServerRank[r[j].lock]
            \/ FreedBetween(p, r[j].lock, j + 1, i - 1)
      BY <1>1, <1>5, <2>1, <2>3, <3>1 DEF InOrder
    <3>3. j + 1 \in 1..(m + 1) /\ i - 1 \in 0..m
      BY <1>1
    <3> QED
      BY <1>3, <3>2, <3>3
  <2> QED
    BY <2>1, <2>2, <2>3
<1>6. ASSUME NEW k \in 1..n, Acquires(r[m + k].op)
      PROVE  /\ ServerRank[r[m + k].lock] < b
             /\ FreedBetween(r, r[m + k].lock, m + k + 1, m + n)
             /\ \A j \in 1..(m + k - 1) : Acquires(r[j].op) =>
                  ServerRank[r[m + k].lock] < ServerRank[r[j].lock]
                    \/ FreedBetween(r, r[j].lock, j + 1, m + k - 1)
  <2>1. r[m + k] = q[k] /\ ServerRank[r[m + k].lock] < b
    BY <1>2, <1>6 DEF InOrderBelow
  <2>2. FreedBetween(r, r[m + k].lock, m + k + 1, m + n)
    <3>1. FreedBetween(q, r[m + k].lock, k + 1, n)
      BY <1>1, <1>6, <2>1 DEF InOrder
    <3>2. FreedBetween(r, r[m + k].lock, m + (k + 1), m + n)
      BY <1>1, <1>4, <3>1
    <3>3. m + (k + 1) = m + k + 1
      BY <1>1
    <3> QED
      BY <3>2, <3>3
  <2>3. ASSUME NEW j \in 1..(m + k - 1), Acquires(r[j].op)
        PROVE  ServerRank[r[m + k].lock] < ServerRank[r[j].lock]
                 \/ FreedBetween(r, r[j].lock, j + 1, m + k - 1)
    <3>1. CASE j \in 1..m
      <4>1. FreedBetween(r, r[j].lock, j + 1, m)
        BY <1>5, <2>3, <3>1
      <4>2. m <= m + k - 1 /\ j + 1 \in Nat /\ m + k - 1 \in Nat
        BY <1>1
      <4> QED
        BY <1>1, <4>1, <4>2, WiderFrees
    <3>2. CASE j \notin 1..m
      <4>1. PICK h \in 1..(k - 1) : j = m + h
        <5>1. j - m \in 1..(k - 1) /\ j = m + (j - m)
          BY <1>1, <3>2
        <5> QED
          BY <5>1
      <4>2. r[j] = q[h]
        BY <1>2, <4>1
      <4>3. ServerRank[r[m + k].lock] < ServerRank[r[j].lock]
              \/ FreedBetween(q, r[j].lock, h + 1, k - 1)
        BY <1>1, <1>6, <2>1, <2>3, <4>2 DEF InOrder
      <4>4. /\ h + 1 \in 1..(n + 1) /\ k - 1 \in 0..n
            /\ m + (h + 1) = j + 1 /\ m + (k - 1) = m + k - 1
        BY <1>1, <4>1
      <4>5. FreedBetween(q, r[j].lock, h + 1, k - 1)
              => FreedBetween(r, r[j].lock, m + (h + 1), m + (k - 1))
        BY <1>4, <4>4
      <4> QED
        BY <4>3, <4>4, <4>5
    <3> QED
      BY <3>1, <3>2
  <2> QED
    BY <2>1, <2>2, <2>3
<1>7. ASSUME NEW i \in 1..Len(r), Acquires(r[i].op)
      PROVE  /\ ServerRank[r[i].lock] < b
             /\ FreedBetween(r, r[i].lock, i + 1, Len(r))
             /\ \A j \in 1..(i - 1) : Acquires(r[j].op) =>
                  ServerRank[r[i].lock] < ServerRank[r[j].lock]
                    \/ FreedBetween(r, r[j].lock, j + 1, i - 1)
  <2>1. CASE i \in 1..m
    <3>1. m <= Len(r) /\ Len(r) \in Nat /\ i + 1 \in Nat
      BY <1>1, <1>2
    <3>2. FreedBetween(r, r[i].lock, i + 1, Len(r))
      BY <1>1, <1>5, <1>7, <2>1, <3>1, WiderFrees
    <3> QED
      BY <1>5, <1>7, <2>1, <3>2
  <2>2. CASE i \notin 1..m
    <3>1. i - m \in 1..n /\ i = m + (i - m)
      BY <1>1, <1>2, <2>2
    <3>2. PICK k \in 1..n : i = m + k
      BY <3>1
    <3> QED
      BY <1>2, <1>6, <1>7, <3>2
  <2> QED
    BY <2>1, <2>2
<1> QED
  BY <1>2, <1>7 DEF InOrderBelow, InOrder, r

\* A lock around a program that takes lower ones.
LEMMA WithinInOrder ==
  ASSUME NEW b \in Nat, NEW mode \in {"read", "write"}, NEW l \in Locks,
         Locks = ServerLockNames, ServerRank[l] < b,
         NEW body, InOrderBelow(body, ServerRank[l])
  PROVE  InOrderBelow(Within(mode, l, body), b)
<1> DEFINE n == Len(body)
           r == Within(mode, l, body)
           first == [op |-> mode, lock |-> l]
           last == [op |-> "free", lock |-> l]
<1>1. body \in Seq(Operation) /\ n \in Nat /\ InOrder(ServerRank, body, {})
  BY DEF InOrderBelow
<1>2. first \in Operation /\ last \in Operation /\ ~Acquires(last.op)
      /\ first.lock = l /\ last.lock = l
  BY DEF Operation, Acquires
<1>3. /\ r \in Seq(Operation) /\ Len(r) = n + 2 /\ r[1] = first /\ r[n + 2] = last
      /\ \A k \in 1..n : r[1 + k] = body[k]
  BY <1>1, <1>2 DEF Within
<1> HIDE DEF r, first, last
<1>4. FreedBetween(r, l, 2, n + 2)
  BY <1>1, <1>3 DEF FreedBetween, last
<1>5. \A h : \A i \in 1..(n + 1), j \in 0..n :
        FreedBetween(body, h, i, j) => FreedBetween(r, h, 1 + i, 1 + j)
  BY <1>1, <1>3, EmbeddedFrees
<1>6. ASSUME NEW k \in 1..n, Acquires(body[k].op)
      PROVE  /\ ServerRank[body[k].lock] < ServerRank[l]
             /\ FreedBetween(r, body[k].lock, k + 2, n + 2)
             /\ \A h \in 1..(k - 1) : Acquires(body[h].op) =>
                  ServerRank[body[k].lock] < ServerRank[body[h].lock]
                    \/ FreedBetween(r, body[h].lock, h + 2, k)
  <2>1. ServerRank[body[k].lock] < ServerRank[l]
    BY <1>6 DEF InOrderBelow
  <2>2. FreedBetween(r, body[k].lock, k + 2, n + 2)
    <3>1. FreedBetween(body, body[k].lock, k + 1, n)
      BY <1>1, <1>6 DEF InOrder
    <3>2. FreedBetween(r, body[k].lock, 1 + (k + 1), 1 + n)
      BY <1>1, <1>5, <3>1
    <3>3. 1 + (k + 1) = k + 2 /\ 1 + n <= n + 2 /\ 1 + n \in Nat /\ n + 2 \in Nat /\ k + 2 \in Nat
      BY <1>1
    <3> QED
      BY <3>2, <3>3, WiderFrees
  <2>3. ASSUME NEW h \in 1..(k - 1), Acquires(body[h].op)
        PROVE  ServerRank[body[k].lock] < ServerRank[body[h].lock]
                 \/ FreedBetween(r, body[h].lock, h + 2, k)
    <3>1. ServerRank[body[k].lock] < ServerRank[body[h].lock]
            \/ FreedBetween(body, body[h].lock, h + 1, k - 1)
      BY <1>1, <1>6, <2>3 DEF InOrder
    <3>2. /\ h + 1 \in 1..(n + 1) /\ k - 1 \in 0..n
          /\ 1 + (h + 1) = h + 2 /\ 1 + (k - 1) = k
      BY <1>1
    <3>3. FreedBetween(body, body[h].lock, h + 1, k - 1)
            => FreedBetween(r, body[h].lock, 1 + (h + 1), 1 + (k - 1))
      BY <1>5, <3>2
    <3> QED
      BY <3>1, <3>2, <3>3
  <2> QED
    BY <2>1, <2>2, <2>3
<1>7. ASSUME NEW i \in 1..Len(r), Acquires(r[i].op)
      PROVE  /\ ServerRank[r[i].lock] < b
             /\ FreedBetween(r, r[i].lock, i + 1, Len(r))
             /\ \A j \in 1..(i - 1) : Acquires(r[j].op) =>
                  ServerRank[r[i].lock] < ServerRank[r[j].lock]
                    \/ FreedBetween(r, r[j].lock, j + 1, i - 1)
  <2>1. CASE i = 1
    BY <1>2, <1>3, <1>4, <2>1
  <2>2. CASE i # 1
    <3>1. PICK k \in 1..n : i = k + 1
      <4>1. i # n + 2
        BY <1>2, <1>3, <1>7
      <4>2. i - 1 \in 1..n /\ i = (i - 1) + 1
        BY <1>1, <1>3, <2>2, <4>1
      <4> QED
        BY <4>2
    <3>2. r[i] = body[k] /\ i + 1 = k + 2 /\ i - 1 = k
      BY <1>3, <3>1
    <3>3. /\ ServerRank[r[i].lock] < ServerRank[l]
          /\ FreedBetween(r, r[i].lock, i + 1, Len(r))
      BY <1>3, <1>6, <1>7, <3>2
    <3>4. ServerRank[r[i].lock] < b
      <4>1. r[i].lock \in Locks
        <5>1. body[k] \in Operation
          BY <1>1
        <5> QED
          BY <3>2, <5>1 DEF Operation
      <4>2. ServerRank[r[i].lock] \in Nat /\ ServerRank[l] \in Nat
        BY <4>1, RankType
      <4> QED
        BY <3>3, <4>2
    <3>5. ASSUME NEW j \in 1..(i - 1), Acquires(r[j].op)
          PROVE  ServerRank[r[i].lock] < ServerRank[r[j].lock]
                   \/ FreedBetween(r, r[j].lock, j + 1, i - 1)
      <4>1. CASE j = 1
        BY <1>2, <1>3, <3>3, <4>1
      <4>2. CASE j # 1
        <5>1. PICK h \in 1..(k - 1) : j = h + 1
          <6>1. j - 1 \in 1..(k - 1) /\ j = (j - 1) + 1
            BY <3>1, <4>2
          <6> QED
            BY <6>1
        <5>2. r[j] = body[h] /\ j + 1 = h + 2
          BY <1>3, <5>1
        <5> QED
          BY <1>6, <1>7, <3>2, <3>5, <5>2
      <4> QED
        BY <4>1, <4>2
    <3> QED
      BY <3>3, <3>4, <3>5
  <2> QED
    BY <2>1, <2>2
<1> QED
  BY <1>3, <1>7 DEF InOrderBelow, InOrder, r

\* Every program of the server is in order.
LEMMA ServerInOrder ==
  ASSUME Tasks = ServerTasks, Locks = ServerLockNames, Programs = ServerPrograms
  PROVE  ProgramsInOrder(ServerRank)
<1> DEFINE OK(p, b) == InOrderBelow(p, b)
<1>1. /\ ServerRank["status"] = 4 /\ ServerRank["registry"] = 3 /\ ServerRank["calib"] = 2
      /\ ServerRank["lengths"] = 1 /\ ServerRank["ports"] = 0 /\ ServerRank["pose"] = 0
      /\ ServerRank["autobone"] = 0 /\ ServerRank["target"] = 0 /\ ServerRank["hmd"] = 0
      /\ \A l \in {"status", "registry", "calib", "lengths", "ports", "pose", "autobone",
                   "target", "hmd"} : l \in Locks
  BY DEF ServerRank, ServerLockNames
<1>2. \A mode \in {"read", "write"}, l \in Locks, b \in 1..5 :
        ServerRank[l] < b => OK(Brief(mode, l), b)
  BY EmptyInOrder, WithinInOrder DEF Brief
<1>3. \A mode \in {"read", "write"}, l \in Locks, b \in 1..5 : \A p :
        ServerRank[l] < b /\ OK(p, ServerRank[l]) => OK(Within(mode, l, p), b)
  BY WithinInOrder
<1>4. \A p, q, b : OK(p, b) /\ OK(q, b) => OK(p \o q, b)
  BY ConcatInOrder
<1> HIDE DEF OK
<1>5. OK(HaritoraEvent, 5) /\ OK(Reset, 5)
  BY <1>1, <1>2, <1>3 DEF HaritoraEvent, Reset
<1>6. OK(SetSettings, 5) /\ OK(ClearDrift, 5) /\ OK(Restart, 5) /\ OK(LastAction, 5)
  BY <1>1, <1>2, <1>4 DEF SetSettings, ClearDrift, Restart, LastAction
<1>7. OK(Frame, 5)
  BY <1>1, <1>2, <1>3, <1>4 DEF Frame
<1>8. OK(Snapshot, 5)
  BY <1>1, <1>2, <1>3, <1>4 DEF Snapshot
<1>9. OK(Datagram, 5) /\ OK(SensorInfo, 5) /\ OK(PingDevices, 5)
  BY <1>1, <1>2, <1>4 DEF Datagram, SensorInfo, PingDevices
<1>10. OK(BoneFeed, 5) /\ OK(StartRecording, 5)
  BY <1>1, <1>2, <1>4 DEF BoneFeed, StartRecording
<1>11. OK(Process, 5)
  BY <1>1, <1>2, <1>3, <1>4 DEF Process
<1>12. OK(HmdPose, 5) /\ OK(ReadStatus, 5) /\ OK(PortState, 5)
  BY <1>1, <1>2 DEF HmdPose, ReadStatus, PortState
<1>13. \A t \in Tasks : \A p \in Programs[t] : OK(p, 5)
  BY <1>5, <1>6, <1>7, <1>8, <1>9, <1>10, <1>11, <1>12
     DEF ServerTasks, ServerPrograms, AppLoop, UdpTask, SolarXr
<1>14. \A p : OK(p, 5) => p \in Seq(Operation) /\ InOrder(ServerRank, p, {})
  BY DEF OK, InOrderBelow
<1>15. Programs = [t \in Tasks |-> Programs[t]]
  BY DEF ServerTasks, ServerPrograms
<1> QED
  BY <1>13, <1>14, <1>15 DEF ProgramsInOrder

\* The tasks of the server, with the locks that its code takes, never deadlock on
\* them.
THEOREM ServerNeverDeadlocks ==
  ASSUME Tasks = ServerTasks, Locks = ServerLockNames, Programs = ServerPrograms
  PROVE  Spec => []NoCircularWait
BY ServerInOrder, RankType, OrderedLocksAreSafe
==============================================================================
