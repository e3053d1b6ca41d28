----------------------------- MODULE MCReceivers -----------------------------
(* Constants for Receivers: a leg tracker, which carries a second sensor,   *)
(* and a tracker of the thigh, on two channels.                             *)
EXTENDS Receivers

CONSTANTS c1, c2, h1, leg, other

MCFirstOn == 0 :> leg @@ 1 :> other
MCFirstId == leg :> "3" @@ other :> "2"
MCFirstCount == leg :> 1 @@ other :> 2
=============================================================================
