----------------------------- MODULE MCFaceRelay -----------------------------
(* Constants for FaceRelay: two avatars that show the same shapes, one by   *)
(* floats, one by two bits and a sign, with an eyelid it has twice.         *)
EXTENDS FaceRelay, TLC

GazeL == <<"EyeX", "Left">>
LidL == <<"EyeLid", "Left">>
Leaf(prefix, shape, part, kind) ==
  [at |-> <<prefix, shape, part>>, shape |-> shape, part |-> part, prefix |-> prefix,
   kind |-> kind, writable |-> TRUE, hidden |-> FALSE, input |-> TRUE]

Plain == {Leaf("FT/v2", GazeL, Value, "float"), Leaf("FT/v2", LidL, Value, "float"),
          [Leaf("FT/v2", NoShape, Value, "int") EXCEPT !.writable = FALSE]}
Coarse == {Leaf("v2", GazeL, 1, "bool"), Leaf("v2", GazeL, 2, "bool"), Leaf("v2", GazeL, Negative, "bool"),
           Leaf("FT/v2", LidL, Value, "float"), Leaf("old", LidL, Value, "float")}
MCAvatars == [plain |-> Plain, coarse |-> Coarse]
MCSheet == {l \in Coarse : l.prefix # "old"}

MCWatched == {GazeL, LidL, <<"EyeTrackingActive", NoSide>>, <<"ExpressionTrackingActive", NoSide>>}

\* Three values that are close together and cross from one number of bits to
\* the next, below zero.
MCPackets == {<<<<"etvr", "EyeX", "Left">>, v>> : v \in {-35, -34, -33}}

\* A wry face: every weight has a value of its own.
MetaBases == UNION {DOMAIN MetaSided[b] : b \in DOMAIN MetaSided}
               \cup {"LipSuckT", "Dimpler", "EyesLookUp", "EyesLookDown"}
Wry ==
  FoldSet(LAMBDA s, weights : weights @@ (s :> (37 * (Cardinality(DOMAIN weights) + 1)) % 101), <<>>,
          (MetaBases \X Sides) \cup ({MetaSingle[b] : b \in DOMAIN MetaSingle} \X {NoSide}))
MCWeights == [wry |-> Wry]
MCGazes == [ahead |-> 0, down |-> 40]

Face(options) == [face |-> options]
Launch(file, cli, first, changed, lost) ==
  [file |-> file, cli |-> cli, avatar |-> first, changes |-> changed, losses |-> lost]
Babbling == [source |-> "babble"]
MCLaunches ==
  \* an avatar is discovered, and changes, or misses a bundle
  {Launch(<<>>, Babbling, "plain", 1, 0), Launch(<<>>, Babbling, "coarse", 0, 1),
  \* fixed outputs: UniFT against a file, a sheet against a file, OpenXR
   Launch(Face([enabled |-> TRUE, sheet |-> TRUE]), [output |-> "unift"], "plain", 1, 0),
   Launch(Face([enabled |-> TRUE, avatar |-> TRUE, output |-> "auto"]), [sheet |-> TRUE, output |-> "both"],
          "coarse", 0, 0),
   Launch(Face([source |-> "openxr", output |-> "unift"]), [source |-> "openxr"], "plain", 0, 0),
  \* the ports clash, a sheet is missing, the face is switched off
   Launch(Face([enabled |-> TRUE]), [trackerPort |-> 9400], "plain", 0, 0),
   Launch(Face([enabled |-> TRUE, output |-> "json"]), <<>>, "plain", 0, 0),
   Launch(Face([enabled |-> TRUE]), [destination |-> 9002], "plain", 0, 0),
   Launch(Face([enabled |-> TRUE, destination |-> Elsewhere]), [noFace |-> TRUE, source |-> "babble"],
          "plain", 0, 0)}
=============================================================================
