-------------------------- MODULE MCTrackerRegistry --------------------------
(* Small instances of TrackerRegistry for TLC. *)
EXTENDS TrackerRegistry, TLC

CONSTANTS d1, d2, h1

\* The second device's primary sensor is assigned position 2 by hand.
MCAssigned == [id \in {[mac |-> d2, sensor |-> 0]} |-> 2]
MCNoAssigned == [id \in {} |-> 0]

Symmetry == Permutations(Addrs)
=============================================================================
