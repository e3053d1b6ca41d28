---------------------------- MODULE FrameChannel -----------------------------
(***************************************************************************)
(* What every local socket of the server promises its user: the frames     *)
(* that come out are the frames that went in, whole, in order and each     *)
(* once.  An invalid frame, and everything behind it, never comes out.     *)
(***************************************************************************)
EXTENDS Naturals, Sequences

CONSTANTS
  Frame,       \* the frames a client can send
  Valid(_)     \* the ones a receiver accepts

VARIABLES sent, received

Init == sent = <<>> /\ received = <<>>

Send == \E f \in Frame : sent' = Append(sent, f) /\ UNCHANGED received

Receive ==
  /\ Len(received) < Len(sent)
  /\ \A i \in 1..(Len(received) + 1) : Valid(sent[i])
  /\ received' = Append(received, sent[Len(received) + 1])
  /\ UNCHANGED sent

Next == Send \/ Receive

Spec == Init /\ [][Next]_<<sent, received>>
=============================================================================
