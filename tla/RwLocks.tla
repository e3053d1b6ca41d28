------------------------------- MODULE RwLocks -------------------------------
(***************************************************************************)
(* Tasks that share data through readers-writer locks (std::sync::RwLock): *)
(* any number of readers or one writer holds a lock, and a reader does not *)
(* get past a writer that is already waiting.  A task runs one program     *)
(* after the other; a program is the sequence of its lock operations.      *)
(***************************************************************************)
EXTENDS Naturals, Sequences

CONSTANTS
  Tasks,
  Locks,
  Programs      \* the programs of each task

VARIABLES
  todo,     \* per task: what is left of the program it runs
  held,     \* per task: the locks it holds, each with its mode
  queued    \* the tasks that wait as writers

vars == <<todo, held, queued>>

Operation == [op : {"read", "write", "free"}, lock : Locks]
Guard == [op : {"read", "write"}, lock : Locks]

Idle(t) == todo[t] = <<>>
Wants(t, mode, l) == ~Idle(t) /\ Head(todo[t]) = [op |-> mode, lock |-> l]
Holds(t, mode, l) == [op |-> mode, lock |-> l] \in held[t]
HoldsAny(t, l) == Holds(t, "read", l) \/ Holds(t, "write", l)
WaitingWriters(l) == {t \in queued : Wants(t, "write", l)}

Init ==
  /\ todo = [t \in Tasks |-> <<>>] /\ held = [t \in Tasks |-> {}]
  /\ queued = {}

Start(t, p) ==
  /\ Idle(t)
  /\ todo' = [todo EXCEPT ![t] = p]
  /\ UNCHANGED <<held, queued>>

\* The task does its next operation and holds what it then holds.
Step(t, now) ==
  /\ todo' = [todo EXCEPT ![t] = Tail(@)]
  /\ held' = [held EXCEPT ![t] = now]

Read(t, l) ==
  /\ Wants(t, "read", l) /\ WaitingWriters(l) = {}
  /\ \A u \in Tasks : ~Holds(u, "write", l)
  /\ Step(t, held[t] \cup {[op |-> "read", lock |-> l]})
  /\ UNCHANGED queued

Dequeue(t) == queued' = queued \ {t}
Write(t, l) ==
  /\ Wants(t, "write", l)
  /\ \A u \in Tasks : ~HoldsAny(u, l)
  /\ Step(t, held[t] \cup {[op |-> "write", lock |-> l]})
  /\ Dequeue(t)

\* A writer that has to wait says so.
Queue(t, l) ==
  /\ Wants(t, "write", l) /\ t \notin queued
  /\ \E u \in Tasks : HoldsAny(u, l)
  /\ queued' = queued \cup {t} /\ UNCHANGED <<todo, held>>

Free(t, l) ==
  /\ Wants(t, "free", l)
  /\ Step(t, {g \in held[t] : g.lock # l})
  /\ UNCHANGED queued

Next ==
  \E t \in Tasks :
    \/ \E p \in Programs[t] : Start(t, p)
    \/ \E l \in Locks : Read(t, l) \/ Write(t, l) \/ Queue(t, l) \/ Free(t, l)

Spec == Init /\ [][Next]_vars
-----------------------------------------------------------------------------
\* A program is in order when it takes no lock that does not rank below all it
\* holds, and frees every lock it takes: from here on, with the locks in H held.
Acquires(op) == op # "free"
FreedBetween(p, l, i, j) == \E k \in i..j : p[k] = [op |-> "free", lock |-> l]
InOrder(rank, p, H) ==
  /\ \A l \in H : FreedBetween(p, l, 1, Len(p))
  /\ \A i \in 1..Len(p) : Acquires(p[i].op) =>
       /\ FreedBetween(p, p[i].lock, i + 1, Len(p))
       /\ \A l \in H :
            rank[p[i].lock] < rank[l] \/ FreedBetween(p, l, 1, i - 1)
       /\ \A j \in 1..(i - 1) : Acquires(p[j].op) =>
            rank[p[i].lock] < rank[p[j].lock] \/ FreedBetween(p, p[j].lock, j + 1, i - 1)

ProgramsInOrder(rank) ==
  /\ Programs \in [Tasks -> SUBSET Seq(Operation)]
  /\ \A t \in Tasks : \A p \in Programs[t] : InOrder(rank, p, {})

\* Besides the types: a task that has nothing to do holds no lock.
TypeOK ==
  /\ todo \in [Tasks -> Seq(Operation)]
  /\ held \in [Tasks -> SUBSET Guard]
  /\ \A t \in Tasks : Idle(t) => held[t] = {}
  /\ queued \subseteq {t \in Tasks : ~Idle(t) /\ Head(todo[t]).op = "write"}

\* t cannot go on before u does: u holds the lock it wants, or is a writer
\* ahead of it.
BlockedBy(t, u) ==
  /\ ~Idle(t)
  /\ LET next == Head(todo[t])
     IN \/ next.op = "read" /\ (Holds(u, "write", next.lock) \/ u \in WaitingWriters(next.lock))
        \/ next.op = "write" /\ HoldsAny(u, next.lock)

\* No set of tasks is stuck, each blocked by another one of the set (or by
\* itself).
NoCircularWait ==
  \A S \in SUBSET {t \in Tasks : \E u \in Tasks : BlockedBy(t, u)} :
    S # {} => \E t \in S : \A u \in S : ~BlockedBy(t, u)

\* Inductive for programs in order: what is left of one is in order, with the
\* locks that its task holds.
Locked(t) == {g.lock : g \in held[t]}
LeftInOrder(rank) == \A t \in Tasks : InOrder(rank, todo[t], Locked(t))
=============================================================================
