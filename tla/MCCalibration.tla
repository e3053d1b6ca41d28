---------------------------- MODULE MCCalibration ----------------------------
(* Constants for Calibration: a strap that has nothing in common with the   *)
(* mounting, and three poses of the user.                                   *)
EXTENDS Calibration

MCStrap == [m \in Angle |-> (3 * m) \oplus 2]

MCPoses == {[heading |-> 0, leaning |-> FALSE],
            [heading |-> 3, leaning |-> FALSE],
            [heading |-> 3, leaning |-> TRUE]}
=============================================================================
