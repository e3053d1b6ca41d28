------------------------------ MODULE FaceShapes ------------------------------
(***************************************************************************)
(* The expression model of the face relay: the 89 unified shapes a face    *)
(* source fills (face/unified.rs), how Meta's face weights and the         *)
(* messages of Babble and EyeTrackVR become unified shapes (face2_fb.rs,   *)
(* babble.rs), and the 55 shapes that are combined from them.              *)
(*                                                                         *)
(* A shape is a base name and a side: <<"EyeWide", "Left">> is EyeWideLeft,*)
(* <<"JawOpen", NoSide>> is JawOpen, EyeLeftX is <<"EyeX", "Left">>.  A    *)
(* face gives shapes their values in percent; what it does not list is 0.  *)
(* Fractions of a percent are dropped.  The 56th combined shape, Blush, is *)
(* left out: it integrates the avatar's answers over time.                 *)
(***************************************************************************)
EXTENDS Integers, FiniteSets, FiniteSetsExt, Functions, Overlays

Sides == {"Left", "Right"}
NoSide == "none"
Other(side) == CASE side = "Left" -> "Right" [] side = "Right" -> "Left" [] OTHER -> side

LowOf(a, b) == IF a < b THEN a ELSE b
Clamp(v, low, high) == IF v < low THEN low ELSE LowOf(v, high)
Magnitude(v) == IF v < 0 THEN -v ELSE v
Part(v, n) == IF v < 0 THEN -((-v) \div n) ELSE v \div n     \* v / n, towards 0

SidedBases ==
  {"EyeX", "EyeClosed", "EyeSquint", "EyeWide", "BrowPinch", "BrowLowerer", "BrowInnerUp",
   "BrowOuterUp", "NasalDilation", "NasalConstrict", "CheekSquint", "CheekPuff", "CheekSuck",
   "Jaw", "LipSuckUpper", "LipSuckLower", "LipSuckCorner", "LipFunnelUpper", "LipFunnelLower",
   "LipPuckerUpper", "LipPuckerLower", "MouthUpperUp", "MouthUpperDeepen", "NoseSneer",
   "MouthLowerDown", "MouthUpper", "MouthLower", "MouthCornerPull", "MouthCornerSlant",
   "MouthFrown", "MouthStretch", "MouthDimple", "MouthPress", "MouthTightener", "Tongue",
   "TongueTwist"}
SingleBases ==
  {"EyeY", "JawOpen", "JawForward", "JawBackward", "JawClench", "JawMandibleRaise",
   "MouthClosed", "MouthRaiserUpper", "MouthRaiserLower", "TongueOut", "TongueUp", "TongueDown",
   "TongueRoll", "TongueBendDown", "TongueCurlUp", "TongueSquish", "TongueFlat"}
Unified == (SidedBases \X Sides) \cup (SingleBases \X {NoSide})

\* The shapes up to EyeWideLeft in the enumeration: those that show the eyes.
EyeShapes == ({"EyeX", "EyeClosed", "EyeSquint", "EyeWide"} \X Sides) \cup {<<"EyeY", NoSide>>}

Neutral == <<>>
At(face, shape) == IF shape \in DOMAIN face THEN face[shape] ELSE 0

\* The face with new values for some shapes.
With(face, values) == LET all == Over(values, face) IN RestrictValues(all, LAMBDA v : v # 0)

\* A weighted sum, in percent, over the bases of one side (or of no side).
Mix(face, terms, side) ==
  Part(SumFunction([b \in DOMAIN terms |-> terms[b] * At(face, <<b, side>>)]), 100)

(***************************************************************************)
(* What the sources say: mappings_for of babble.rs, face2_fb_to_unified.   *)
(***************************************************************************)
\* Babble names a side in its address and drives one shape or two of that
\* side, or drives both sides at once, or has no side.
BabbleSided ==
  [cheekPuff |-> {"CheekPuff"}, cheekSuck |-> {"CheekSuck"}, jaw |-> {"Jaw"},
   noseSneer |-> {"NoseSneer"}, mouth |-> {"MouthPress"},
   mouthSmile |-> {"MouthCornerPull", "MouthCornerSlant"},
   mouthFrown |-> {"MouthFrown", "MouthStretch"}, mouthDimple |-> {"MouthDimple"},
   mouthUpperUp |-> {"MouthUpperUp"}, mouthLowerDown |-> {"MouthLowerDown"},
   mouthStretch |-> {"MouthStretch"}, mouthPress |-> {"MouthPress"},
   tongue |-> {"Tongue"}, tongueTwist |-> {"TongueTwist"}]
BabbleBoth ==
  [mouthFunnel |-> {"LipFunnelUpper", "LipFunnelLower"}, mouthRollUpper |-> {"LipSuckUpper"},
   mouthPucker |-> {"LipPuckerUpper", "LipPuckerLower"}, mouthRollLower |-> {"LipSuckLower"}]
BabbleSingle ==
  [jawOpen |-> "JawOpen", jawForward |-> "JawForward", mouthShrugUpper |-> "MouthRaiserUpper",
   mouthShrugLower |-> "MouthRaiserLower", mouthClose |-> "MouthClosed",
   tongueOut |-> "TongueOut", tongueUp |-> "TongueUp", tongueDown |-> "TongueDown",
   tongueRoll |-> "TongueRoll", tongueBendDown |-> "TongueBendDown",
   tongueCurlUp |-> "TongueCurlUp", tongueSquish |-> "TongueSquish", tongueFlat |-> "TongueFlat"]

\* Eye messages come from Babble (names EyeLid and so on) and, in two styles,
\* from EyeTrackVR; only Babble's lid is an openness.
EyePrograms == {"babble", "etvr", "etvr2"}
EyeBases == [EyeX |-> "EyeX", EyeLid |-> "EyeClosed"]
Inverted(address) == address[1] = "babble" /\ address[2] = "EyeLid"

\* The shapes an address <<program, name, side>> drives.
DrivenBy(address) ==
  LET name == address[2] side == address[3] IN
  IF name \in DOMAIN EyeBases /\ address[1] \in EyePrograms THEN {<<EyeBases[name], side>>}
  ELSE IF name = "EyeY" /\ address[1] \in EyePrograms THEN {<<"EyeY", NoSide>>}
  ELSE IF address[1] # "babble" THEN {}
  ELSE IF name \in DOMAIN BabbleSided THEN BabbleSided[name] \X {side}
  ELSE IF name \in DOMAIN BabbleBoth THEN BabbleBoth[name] \X Sides
  ELSE IF name \in DOMAIN BabbleSingle THEN {<<BabbleSingle[name], NoSide>>} ELSE {}

\* apply_packet: the face after a message.
Applied(face, address, value) ==
  With(face, [s \in DrivenBy(address) |-> IF Inverted(address) THEN 100 - value ELSE value])

\* Meta's weights are named like shapes.  A unified shape is a mix of them on
\* its own side.
MetaSided ==
  [EyeX |-> [EyesLookRight |-> 100, EyesLookLeft |-> -100], EyeClosed |-> [EyesClosed |-> 100],
   EyeSquint |-> [LidTightener |-> 100, EyesClosed |-> -100], EyeWide |-> [UpperLidRaiser |-> 100],
   BrowPinch |-> [BrowLowerer |-> 100], BrowLowerer |-> [BrowLowerer |-> 100],
   BrowInnerUp |-> [InnerBrowRaiser |-> 100], BrowOuterUp |-> [OuterBrowRaiser |-> 100],
   CheekSquint |-> [CheekRaiser |-> 100], CheekPuff |-> [CheekPuff |-> 100],
   CheekSuck |-> [CheekSuck |-> 100], Jaw |-> [JawSideways |-> 100],
   LipSuckLower |-> [LipSuckB |-> 100], LipFunnelUpper |-> [LipFunnelerT |-> 100],
   LipFunnelLower |-> [LipFunnelerB |-> 100], LipPuckerUpper |-> [LipPucker |-> 100],
   LipPuckerLower |-> [LipPucker |-> 100], NoseSneer |-> [NoseWrinkler |-> 100],
   MouthLowerDown |-> [LowerLipDepressor |-> 100], MouthUpperUp |-> [UpperLipRaiser |-> 100],
   MouthUpperDeepen |-> [UpperLipRaiser |-> 100], MouthUpper |-> [Mouth |-> 100],
   MouthLower |-> [Mouth |-> 100], MouthCornerPull |-> [LipCornerPuller |-> 100],
   MouthCornerSlant |-> [LipCornerPuller |-> 100], MouthFrown |-> [LipCornerDepressor |-> 100],
   MouthStretch |-> [LipStretcher |-> 100], MouthPress |-> [LipPressor |-> 100],
   MouthTightener |-> [LipTightener |-> 100]]
MetaSingle ==
  [JawOpen |-> "JawDrop", JawForward |-> "JawThrust", MouthClosed |-> "LipsToward",
   MouthRaiserUpper |-> "ChinRaiserT", MouthRaiserLower |-> "ChinRaiserB",
   TongueOut |-> "TongueOut", TongueCurlUp |-> "TongueTipAlveolar"]

\* The sixth root of a percentage, to the tenth below.
SixthRoot(v) == 10 * Max({r \in 0..10 : r * r * r * r * r * r <= 10000 * v})

FromMeta(weights) ==
  LET W(base, side) == At(weights, <<base, side>>)
      value(s) ==
        CASE s[1] \in DOMAIN MetaSided -> Mix(weights, MetaSided[s[1]], s[2])
          [] s[1] \in DOMAIN MetaSingle -> W(MetaSingle[s[1]], NoSide)
          [] s[1] = "EyeY" -> W("EyesLookUp", "Right") - W("EyesLookDown", "Right")
          [] s[1] = "LipSuckUpper" ->
               LowOf(100 - SixthRoot(W("UpperLipRaiser", s[2])), W("LipSuckT", s[2]))
          [] s[1] = "MouthDimple" -> LowOf(2 * W("Dimpler", s[2]), 100)
          [] OTHER -> 0
  IN With(Neutral, [s \in Unified |-> value(s)])

(***************************************************************************)
(* calc_combined.                                                          *)
(***************************************************************************)
\* Each of these is taken per side, or as the mean of both, or both ways.
BrowRules ==
  [BrowDown |-> [BrowLowerer |-> 75, BrowPinch |-> 25], BrowOuterUp |-> [BrowOuterUp |-> 100],
   BrowInnerUp |-> [BrowInnerUp |-> 100], BrowUp |-> [BrowOuterUp |-> 50, BrowInnerUp |-> 50],
   BrowExpression |->
     [BrowInnerUp |-> 50, BrowOuterUp |-> 50, BrowLowerer |-> -75, BrowPinch |-> -25]]
CheekRules ==
  [CheekPuffSuck |-> [CheekPuff |-> 100, CheekSuck |-> -100], CheekSquint |-> [CheekSquint |-> 100]]
LipRules ==
  [LipSuckUpper |-> [LipSuckUpper |-> 100], LipSuckLower |-> [LipSuckLower |-> 100],
   LipSuck |-> [LipSuckUpper |-> 50, LipSuckLower |-> 50],
   MouthStretchTighten |-> [MouthStretch |-> 100, MouthTightener |-> -100],
   MouthStretch |-> [MouthStretch |-> 100], MouthTightener |-> [MouthTightener |-> 100],
   MouthDimple |-> [MouthDimple |-> 100]]
MouthRules ==
  [MouthUpperUp |-> [MouthUpperUp |-> 100], MouthLowerDown |-> [MouthLowerDown |-> 100],
   MouthOpen |-> [MouthUpperUp |-> 50, MouthLowerDown |-> 50],
   MouthX |-> [MouthUpper |-> 50, MouthLower |-> 50],
   JawX |-> [Jaw |-> 100], JawZ |-> [JawForward |-> 100, JawBackward |-> -100],
   LipPucker |-> [LipPuckerUpper |-> 50, LipPuckerLower |-> 50],
   LipFunnelUpper |-> [LipFunnelUpper |-> 100], LipFunnelLower |-> [LipFunnelLower |-> 100],
   LipFunnel |-> [LipFunnelUpper |-> 50, LipFunnelLower |-> 50],
   MouthPress |-> [MouthPress |-> 100], NoseSneer |-> [NoseSneer |-> 100]]
OtherRules ==
  [EyeX |-> [EyeX |-> 100], EyeSquint |-> [EyeSquint |-> 100], MouthUpperX |-> [MouthUpper |-> 100],
   MouthLowerX |-> [MouthLower |-> 100], TongueX |-> [Tongue |-> 100],
   TongueY |-> [TongueUp |-> 100, TongueDown |-> -100]]
Rules == Over(BrowRules, Over(CheekRules, Over(LipRules, Over(MouthRules, OtherRules))))

\* A shape that says how far to the right: right minus left.
Across == {"JawX", "MouthX", "MouthUpperX", "MouthLowerX", "TongueX"}
Upright == {"JawZ", "TongueY"}
PerSide == {"BrowDown", "MouthSmile", "MouthSad", "MouthStretchTighten", "Ear"}
PerSideAndMean == {"EyeLid", "BrowExpression", "SmileSad", "SmileFrown", "CheekPuffSuck"}
\* Listed, and computed by nothing.
NeverSet == {"LipPuckerUpper", "LipPuckerLower"}
CombinedShapes ==
  ((PerSide \cup PerSideAndMean) \X Sides) \cup ((((DOMAIN Rules \cup PerSideAndMean) \ PerSide) \cup NeverSet) \X {NoSide})

Openness(face, side) == Clamp(100 - Part(3 * At(face, <<"EyeClosed", side>>), 2), 0, 100)
\* (Mutant: always of the left eye.)
LidOfLeft(face, side) ==
  Part(Openness(face, "Left") * (300 + At(face, <<"EyeWide", side>>)), 400)
Lid(face, side) ==
  Part(Openness(face, side) * (300 + At(face, <<"EyeWide", side>>)), 400)
Smile(face, side) == Mix(face, [MouthCornerPull |-> 75, MouthCornerSlant |-> 25], side)
Sad(face, side) == Mix(face, [MouthFrown |-> 75, MouthStretch |-> 25], side)
ApeFaceness(face) == Part(3 * At(face, <<"MouthClosed", NoSide>>), 4)
Aped(face, v) == Part(v * ApeFaceness(face), 100)

\* One shape of the source is changed in place: a smile narrows the eye.
SquintOf(face, side) ==
  Part(LowOf(At(face, <<"EyeSquint", side>>) + Part(3 * Smile(face, side), 5), 100) * Openness(face, side), 100)
Settled(face) == With(face, [s \in {"EyeSquint"} \X Sides |-> SquintOf(face, s[2])])

\* The right ear listens to the left brow, as in the code.
Ear(face, side) ==
  Clamp(At(face, <<"BrowInnerUp", "Left">>) + Mix(face, [EyeWide |-> 100, EyeSquint |-> -100, BrowPinch |-> -100], side), -100, 100)

OneSide(face, base, side) ==
  CASE base = "EyeLid" -> Lid(face, side)
    [] base = "Ear" -> Ear(face, side)
    [] base = "MouthSmile" -> Aped(face, Smile(face, side))
    [] base = "MouthSad" -> Aped(face, Sad(face, side))
    [] base = "SmileSad" -> Aped(face, Smile(face, side) - Sad(face, side))
    [] base = "SmileFrown" ->
         Smile(face, side) - At(face, <<"MouthFrown", side>>) + ApeFaceness(face)
    [] OTHER -> Mix(face, Rules[base], side)

Combined(face, base, side) ==
  IF base \in NeverSet THEN 0
  ELSE IF side # NoSide \/ base \in Upright THEN OneSide(face, base, side)
  ELSE IF base \in Across THEN OneSide(face, base, "Right") - OneSide(face, base, "Left")
  ELSE Part(OneSide(face, base, "Left") + OneSide(face, base, "Right"), 2)

\* The value of any shape, of a face that is settled.
ShapeOf(face, s) == IF s \in Unified THEN At(face, s) ELSE Combined(face, s[1], s[2])

(***************************************************************************)
(* What the tables should agree on.                                        *)
(***************************************************************************)
\* Left and right exchanged; what points sideways changes its sign.  EyeY has
\* one value for both eyes, taken from the right one.
Mirror(s) == <<s[1], Other(s[2])>>
Sign(s) == IF s[1] \in Across \cup {"EyeX"} THEN -1 ELSE 1
LookingAway == [EyesLookLeft |-> "EyesLookRight", EyesLookRight |-> "EyesLookLeft"]
MirroredWeights(weights) ==
  LET of(s) == <<IF s[1] \in DOMAIN LookingAway THEN LookingAway[s[1]] ELSE s[1], Other(s[2])>>
  IN [s \in {of(w) : w \in DOMAIN weights} |-> weights[of(s)]]
=============================================================================
