------------------------------ MODULE FaceRoutes ------------------------------
(***************************************************************************)
(* Where a shape goes (face/output.rs, face/mystery.rs).  A route sends    *)
(* one part of one shape to one OSC address: its value, its sign, or one   *)
(* bit of its magnitude.  Routes come from the parameters of an avatar,    *)
(* either a tree of leaves that OSCQuery shows or a translation sheet, or  *)
(* are fixed: UniFT's for every shape, and a short list of defaults.       *)
(*                                                                         *)
(* A leaf is a record: `at` is its address, a prefix, shape and part;      *)
(* `shape` and `part` are what its name means, NoShape if it means         *)
(* nothing, and `prefix` is the rest of its name;                          *)
(* `kind` its type; `writable` and `hidden` whether it can be written and  *)
(* lies below OSCm.  A parameter of a sheet has `input` instead of the     *)
(* last two: whether it names an input route.                              *)
(***************************************************************************)
EXTENDS FaceShapes, Sequences

NoShape == <<"none", NoSide>>
AllShapes == Unified \cup CombinedShapes
\* What is sent beside the shapes: two flags for the face, one for the eyes.
FaceFlags == {"ExpressionTrackingActive", "LipTrackingActive"}
Flags == {<<f, NoSide>> : f \in FaceFlags \cup {"EyeTrackingActive"}}

Value == 0
Negative == -1
\* Parts of a shape that are one bit of it, named by the power of two.
Bits == {1, 2, 4, 8, 16, 32, 64}
BitsUpTo(part) == CHOOSE n \in 1..7 : 2^(n - 1) = part

\* A route; `bits` and `signed` are shared by the parts of one encoding, and
\* only a sheet's routes clamp.
Route(at, shape, part, bits, signed, kind, clamped) ==
  [at |-> at, shape |-> shape, part |-> part, bits |-> bits, signed |-> signed,
   kind |-> kind, clamped |-> clamped]
FloatRoute(at, shape) == Route(at, shape, Value, 0, FALSE, "float", FALSE)
Canonical(shape) == <<"FT/v2", shape, Value>>
FlagAddress(flag) == <<"parameters", flag, Value>>
FlagRoutes == {Route(FlagAddress(f), f, Value, 0, FALSE, "bool", FALSE) : f \in Flags}

BitsOf(leaves) == Max({BitsUpTo(l.part) : l \in {l \in leaves : l.part \in Bits}} \cup {0})
SignedIn(leaves) == \E l \in leaves : l.part = Negative

(***************************************************************************)
(* The encoding of a value for a route: MysteryParam::send, Channel::send. *)
(***************************************************************************)
BitOf(route, v) ==
  LET m == IF route.signed THEN Magnitude(v) ELSE IF v < 0 THEN 0 ELSE v
      q == Part((IF route.clamped THEN LowOf(m, 100) ELSE m) * (2^route.bits - 1), 100)
  IN (q \div route.part) % 2

\* Booleans are 0 and 100 here, as everything is in percent.
Encode(route, v) ==
  LET raw == CASE route.part = Value -> v
               [] route.part = Negative -> IF v < 0 THEN 100 ELSE 0
               [] OTHER -> 100 * BitOf(route, v)
  IN CASE route.kind = "float" -> raw
       [] route.kind = "bool" -> IF raw > 50 THEN 100 ELSE 0
       [] OTHER -> 100 * Part(raw, 100)

Unsent == 1000             \* no value has been sent to the route
\* Small changes of a float are held back, measured from what was last sent.
NeedsSending(route, last, now) ==
  \/ last = Unsent
  \/ IF route.kind = "float" THEN Magnitude(last - now) > 1 ELSE last # now

(***************************************************************************)
(* build_params: the leaves below an avatar's parameters, visited in the   *)
(* order of a hash map.  Of several leaves for the same part of a shape    *)
(* the last one visited wins; a part that is not a known bit is dropped.   *)
(***************************************************************************)
Usable(leaves) ==
  {l \in leaves : l.writable /\ l.kind \in {"float", "bool"} /\ ~l.hidden /\ l.shape \in AllShapes
                  /\ l.part \in {Value, Negative} \cup Bits}
SamePart(l, k) == l.shape = k.shape /\ l.part = k.part

\* All outcomes: one leaf for each part of each shape.
BuildParams(leaves) ==
  LET usable == Usable(leaves)
      group(l) == {k \in usable : k.shape = l.shape}
      route(l) == Route(l.at, l.shape, l.part, BitsOf(group(l)), SignedIn(group(l)),
                        IF l.part = Value THEN "float" ELSE "bool", FALSE)
      outcomes == {ls \in SUBSET usable :
                     /\ \A l \in usable : \E k \in ls : SamePart(l, k)
                     /\ \A l, k \in ls : SamePart(l, k) => l = k}
  IN {FlagRoutes \cup {route(l) : l \in ls} : ls \in outcomes}

DefaultShapes ==
  ({"BrowExpression", "EyeLid", "MouthStretchTighten", "SmileSad", "CheekPuff", "EyeSquint", "EyeX"}
     \X Sides)
  \cup ({"JawX", "LipFunnelLower", "LipFunnelUpper", "LipPucker", "MouthLowerDown", "MouthUpperUp",
         "MouthX", "EyeY", "JawOpen", "MouthClosed"} \X {NoSide})
DefaultRoutes == FlagRoutes \cup {FloatRoute(Canonical(s), s) : s \in DefaultShapes}

\* The vertical gaze is sent under two more names.
UniftRoutes ==
  {FloatRoute(Canonical(s), s) : s \in AllShapes}
  \cup {FloatRoute(Canonical(<<"EyeY", side>>), <<"EyeY", NoSide>>) : side \in Sides}
  \cup FlagRoutes

(***************************************************************************)
(* from_avatar_json: parameters with an input route that mean a shape or   *)
(* a flag.  Two with the same address, a bit that is not a power of two up *)
(* to 64, or none at all is an error.  An encoding is shared by the names  *)
(* that differ in their part only.                                         *)
(***************************************************************************)
SheetEntries(sheet) == {p \in sheet : p.input /\ p.shape \in AllShapes \cup Flags}
ValidSheet(sheet) ==
  LET entries == SheetEntries(sheet) IN
  /\ entries # {}
  /\ \A p, q \in entries : p.at = q.at => p = q
  /\ \A p \in entries : p.part \in {Value, Negative} \cup Bits
SheetRoutes(sheet) ==
  LET entries == SheetEntries(sheet)
      group(p) == {q \in entries : q.prefix = p.prefix /\ q.shape = p.shape}
  IN {Route(p.at, p.shape, p.part, BitsOf(group(p)), SignedIn(group(p)), p.kind, TRUE) : p \in entries}

\* FaceOutput::load: every outcome for a configuration, none if it fails.
\* `sheet` and `tree` are what the named files hold.
Load(cfg, sheet, tree) ==
  IF cfg.sheet
    THEN IF ~ValidSheet(sheet) THEN {}
         ELSE LET explicit == SheetRoutes(sheet) IN
              {IF cfg.output = "both"
                 THEN explicit \cup {r \in UniftRoutes : \A e \in explicit : e.at # r.at}
                 ELSE explicit}
  ELSE IF cfg.avatar THEN BuildParams(tree)
  ELSE IF cfg.output = "unift" THEN {UniftRoutes}
  ELSE {DefaultRoutes}

DiscoversAvatar(cfg) == cfg.output = "auto" /\ cfg.oscQuery /\ ~cfg.avatar /\ ~cfg.sheet
=============================================================================
