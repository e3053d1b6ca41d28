----------------------------- MODULE SocketClaim -----------------------------
(***************************************************************************)
(* How the programs share one socket path.  The control server and the     *)
(* proxy (control.rs, proxy.rs) are careful: they refuse what is not a     *)
(* socket, remove a socket only if a connection to it is refused, and      *)
(* unlink their own socket when they end.  The SolarXR and feeder servers  *)
(* (solarxr/mod.rs, feeder.rs) remove whatever they cannot connect to, and *)
(* leave their socket behind.                                              *)
(*                                                                         *)
(* Every file operation is a step of its own, and a process can crash      *)
(* between any two.  Servers start one after the other: the code removes   *)
(* what it has found dead without looking again, so of two that start      *)
(* together the slower one may remove the socket of the faster one.        *)
(***************************************************************************)
EXTENDS Naturals

CONSTANTS
  Careful, Hasty,   \* processes configured with the path, by kind of server
  MaxExits          \* bound on the exits and crashes

ASSUME ClaimAssumption ==
  /\ Careful \cap Hasty = {}
  /\ MaxExits \in Nat

VARIABLES
  path,       \* what is at the path: None, File, or a socket, a number above File
  listening,  \* the sockets that accept connections
  sockets,    \* the number of the last socket bound
  own,        \* per process: the socket it has bound
  inode,      \* per process: the inode it has recorded as its own
  pc,         \* per process: where it is in bind or Drop
  exits       \* exits and crashes so far

vars == <<path, listening, sockets, own, inode, pc, exits>>

Processes == Careful \cup Hasty
None == 0                  \* nothing at the path, no socket, no inode
File == 1
Connectable == path \in listening

Claiming(p) == pc[p] \in {"probe", "remove", "bind", "record"}

Init ==
  /\ path \in {None, File} /\ listening = {} /\ sockets = File
  /\ own = [p \in Processes |-> None] /\ inode = [p \in Processes |-> None]
  /\ pc = [p \in Processes |-> "off"] /\ exits = 0

Goto(p, label) == pc' = [pc EXCEPT ![p] = label]

(***************************************************************************)
(* bind: look, connect, remove, bind, and record the inode.                *)
(***************************************************************************)
Look(p) ==
  Goto(p, IF path = None THEN "bind"
          ELSE IF path = File /\ p \in Careful THEN "off" ELSE "probe")

Launch(p) ==
  /\ pc[p] = "off"
  /\ \A q \in Processes : ~Claiming(q)
  /\ Look(p)
  /\ UNCHANGED <<path, listening, sockets, own, inode, exits>>

\* A careful process gives up on every error but a refused connection.
ProbeNever(p) == "remove"      \* mutant: nobody is asked whether it is alive
ProbeGivesUp(p) == "off"       \* mutant: an existing socket is always refused
AfterProbe(p) ==
  IF Connectable \/ (path = None /\ p \in Careful) THEN "off" ELSE "remove"

Probe(p) ==
  /\ pc[p] = "probe"
  /\ Goto(p, AfterProbe(p))
  /\ UNCHANGED <<path, listening, sockets, own, inode, exits>>

\* Removing what is not there is an error.
Remove(p) ==
  /\ pc[p] = "remove"
  /\ Goto(p, IF path = None THEN "off" ELSE "bind")
  /\ path' = None
  /\ UNCHANGED <<listening, sockets, own, inode, exits>>

\* Binding to a path that exists is an error.
Bind(p) ==
  /\ pc[p] = "bind"
  /\ IF path = None
       THEN /\ path' = sockets + 1 /\ sockets' = sockets + 1
            /\ own' = [own EXCEPT ![p] = sockets + 1]
            /\ listening' = listening \cup {sockets + 1}
            /\ Goto(p, IF p \in Careful THEN "record" ELSE "serving")
       ELSE /\ Goto(p, "off")
            /\ UNCHANGED <<path, sockets, own, listening>>
  /\ UNCHANGED <<inode, exits>>

\* The process ends, and its socket is closed with it.
Close(p) ==
  /\ listening' = listening \ {own[p]}
  /\ own' = [own EXCEPT ![p] = None] /\ inode' = [inode EXCEPT ![p] = None]
  /\ Goto(p, "off")

Record(p) ==
  /\ pc[p] = "record"
  /\ IF path = None
       THEN Close(p)
       ELSE /\ inode' = [inode EXCEPT ![p] = path]
            /\ Goto(p, "serving")
            /\ UNCHANGED <<listening, own>>
  /\ UNCHANGED <<path, sockets, exits>>

(***************************************************************************)
(* The end of a process.                                                   *)
(***************************************************************************)
\* Drop of a careful process: unlink the path if the inode is still ours.
CheckInode(p) == Goto(p, IF path = inode[p] THEN "unlink" ELSE "close")

Quit(p) ==
  /\ pc[p] = "serving" /\ p \in Careful /\ exits < MaxExits
  /\ exits' = exits + 1
  /\ CheckInode(p)
  /\ UNCHANGED <<path, listening, sockets, own, inode>>

Unlink(p) ==
  /\ pc[p] = "unlink"
  /\ path' = None /\ Goto(p, "close")
  /\ UNCHANGED <<listening, sockets, own, inode, exits>>

Closed(p) ==
  /\ pc[p] = "close"
  /\ Close(p)
  /\ UNCHANGED <<path, sockets, exits>>

\* A crash, or the end of a server that does not clean up.
Crash(p) ==
  /\ pc[p] # "off" /\ exits < MaxExits
  /\ exits' = exits + 1
  /\ Close(p)
  /\ UNCHANGED <<path, sockets>>

Step(p) == Probe(p) \/ Remove(p) \/ Bind(p) \/ Record(p) \/ Unlink(p) \/ Closed(p)
Next == \E p \in Processes : Launch(p) \/ Step(p) \/ Quit(p) \/ Crash(p)

Spec == Init /\ [][Next]_vars
-----------------------------------------------------------------------------
TypeOK ==
  /\ sockets \in Nat \ {0} /\ path \in 0..sockets /\ listening \subseteq 2..sockets
  /\ own \in [Processes -> 0..sockets] /\ inode \in [Processes -> 0..sockets]
  /\ pc \in [Processes -> {"off", "probe", "remove", "bind", "record", "serving", "unlink", "close"}]
  /\ \A p \in Processes : own[p] = None \/ own[p] \in listening
  /\ exits \in 0..MaxExits

\* A server that serves is the one its clients reach: no other start and no
\* other exit takes the path away from it.
ServingIsReachable ==
  \A p \in Processes : pc[p] = "serving" => path = own[p] /\ Connectable

\* Inductive: one process claims the path at a time, and a socket has one
\* owner; from bind to unlink a process holds the path; and what is about to
\* be removed, or replaced, is nobody's.
OneClaims == \A p, q \in Processes : Claiming(p) /\ Claiming(q) => p = q
OneOwner == \A p, q \in Processes : own[p] = own[q] /\ own[p] # None => p = q
HoldersHaveThePath ==
  \A p \in Processes : pc[p] \in {"record", "serving", "unlink"} => path = own[p] /\ Connectable
RemovesTheDead ==
  \A p \in Processes :
    /\ pc[p] = "remove" => ~Connectable
    /\ pc[p] = "bind" => path = None

IInv == TypeOK /\ OneClaims /\ OneOwner /\ HoldersHaveThePath /\ RemovesTheDead

\* Whatever the crashes leave at the path, once they stop some server serves.
EventuallyServed ==
  <>[](path = File \/ \E p \in Processes : pc[p] = "serving")
=============================================================================
