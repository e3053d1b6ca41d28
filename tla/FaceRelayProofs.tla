---------------------------- MODULE FaceRelayProofs ----------------------------
(***************************************************************************)
(* That a user and the mirror image of that user get mirrored faces,       *)
(* whatever the weights; that what the command line asks for is in force,  *)
(* whatever the file; that no two routes of an output share an address;    *)
(* and that an avatar is left neutral when the source goes silent, and has *)
(* heard the face while it is not, whatever the avatars and the packets.   *)
(*                                                                         *)
(* The first part is about sums: a shape is a weighted sum over a table,   *)
(* and SumFunction is a recursive function over the subsets of its domain. *)
(***************************************************************************)
EXTENDS FaceRelay, FiniteSetTheorems, WellFoundedInduction, TLAPS

-----------------------------------------------------------------------------
(***************************************************************************)
(* Sums.                                                                   *)
(***************************************************************************)
Some(s) == CHOOSE x \in s : TRUE

\* g adds f up over every subset of S, an element at a time.
AddsUp(g, f, S) ==
  g = [s \in SUBSET S |-> IF s = {} THEN 0
                          ELSE f[Some(s)] + g[s \ {Some(s)}]]

\* A sum is what some function that adds up gives for the whole domain.
LEMMA SumAddsUp ==
  ASSUME NEW f, \E g : AddsUp(g, f, DOMAIN f)
  PROVE  \E g : AddsUp(g, f, DOMAIN f) /\ SumFunction(f) = g[DOMAIN f]
<1> DEFINE h == CHOOSE g : g = [s \in SUBSET DOMAIN f |->
                  IF s = {} THEN 0 ELSE f[Some(s)] + g[s \ {Some(s)}]]
<1>1. SumFunction(f) = h[DOMAIN f]
  BY DEF SumFunction, SumFunctionOnSet, FoldFunctionOnSet, MapThenFoldSet, Some
<1>2. h = [s \in SUBSET DOMAIN f |->
             IF s = {} THEN 0 ELSE f[Some(s)] + h[s \ {Some(s)}]]
  BY DEF AddsUp
<1>3. QED
  BY <1>1, <1>2 DEF AddsUp

\* The strict subsets of a finite set cannot go down for ever.
LEMMA LeastSubset ==
  ASSUME NEW S, IsFiniteSet(S), NEW T, T \subseteq SUBSET S, T # {}
  PROVE  \E s \in T : \A u \in SUBSET s : u # s => u \notin T
<1>1. IsWellFoundedOn(StrictSubsetOrdering(S), SUBSET S)
  BY FS_StrictSubsetOrderingWellFounded, FS_FiniteSubsetsOfFinite
<1>2. PICK s \in T : \A u \in T : ~(<<u, s>> \in StrictSubsetOrdering(S))
  BY <1>1, WFMin
<1>3. ASSUME NEW u \in SUBSET s, u # s, u \in T PROVE FALSE
  BY <1>2, <1>3 DEF StrictSubsetOrdering
<1>4. QED
  BY <1>2, <1>3

\* Two functions that add f up agree wherever both are defined.
LEMMA AddsUpOnce ==
  ASSUME NEW f, NEW S, IsFiniteSet(S), NEW A, NEW B, NEW g, NEW h, AddsUp(g, f, A), AddsUp(h, f, B),
         S \subseteq A, S \subseteq B
  PROVE  g[S] = h[S]
<1> DEFINE T == {s \in SUBSET S : g[s] # h[s]}
<1>1. SUFFICES ASSUME T # {} PROVE FALSE
  OBVIOUS
<1>2. PICK s \in T : \A u \in SUBSET s : u # s => u \notin T
  <2>1. T \subseteq SUBSET S
    OBVIOUS
  <2> HIDE DEF T
  <2>2. QED
    BY <1>1, <2>1, LeastSubset
<1>3. s \in SUBSET A /\ s \in SUBSET B /\ s \in SUBSET S /\ g[s] # h[s]
  BY <1>2
<1>4. /\ g[s] = IF s = {} THEN 0 ELSE f[Some(s)] + g[s \ {Some(s)}]
      /\ h[s] = IF s = {} THEN 0 ELSE f[Some(s)] + h[s \ {Some(s)}]
  BY <1>3 DEF AddsUp
<1>5. s # {}
  BY <1>3, <1>4
<1>6. PICK x : x = Some(s)
  OBVIOUS
<1>7. x \in s
  BY <1>5, <1>6 DEF Some
<1>8. g[s \ {x}] = h[s \ {x}]
  BY <1>2, <1>3, <1>7
<1>9. QED
  BY <1>3, <1>4, <1>5, <1>6, <1>8

\* Whatever is finite can be added up.
LEMMA AddsUpExists ==
  ASSUME NEW f, NEW S, IsFiniteSet(S)
  PROVE  \E g : AddsUp(g, f, S)
<1> DEFINE T == {s \in SUBSET S : ~\E g : AddsUp(g, f, s)}
<1>1. SUFFICES ASSUME T # {} PROVE FALSE
  OBVIOUS
<1>2. PICK s \in T : \A u \in SUBSET s : u # s => u \notin T
  <2>1. T \subseteq SUBSET S
    OBVIOUS
  <2> HIDE DEF T
  <2>2. QED
    BY <1>1, <2>1, LeastSubset
<1>3. s \in SUBSET S /\ IsFiniteSet(s) /\ ~\E g : AddsUp(g, f, s)
  BY <1>2, FS_Subset
<1>4. \A u \in SUBSET s : u # s => \E g : AddsUp(g, f, u)
  BY <1>2, <1>3
<1> DEFINE part(u) == CHOOSE g : AddsUp(g, f, u)
           below(u) == IF u = {} THEN 0
                       ELSE f[Some(u)] + part(u \ {Some(u)})[u \ {Some(u)}]
           all == [u \in SUBSET s |-> below(u)]
<1>5. \A u \in SUBSET s : u # s => AddsUp(part(u), f, u)
  BY <1>4
<1>6. ASSUME NEW u \in SUBSET s, u # s PROVE below(u) = part(u)[u]
  <2>1. AddsUp(part(u), f, u) /\ u \in SUBSET u
    BY <1>5, <1>6
  <2>2. part(u)[u] = IF u = {} THEN 0 ELSE f[Some(u)] + part(u)[u \ {Some(u)}]
    BY <2>1 DEF AddsUp
  <2>3. CASE u = {}
    BY <2>2, <2>3
  <2>4. CASE u # {}
    <3>1. PICK x : x = Some(u)
      OBVIOUS
    <3>2. x \in u
      BY <2>4, <3>1 DEF Some
    <3> DEFINE v == u \ {x}
    <3>3. v \in SUBSET s /\ v # s /\ v \subseteq u /\ IsFiniteSet(v)
      BY <1>3, <1>6, <3>2, FS_Subset
    <3>4. AddsUp(part(v), f, v)
      BY <1>5, <3>3
    <3>5. part(u)[v] = part(v)[v]
      <4> HIDE DEF v, part
      <4>1. v \subseteq v
        OBVIOUS
      <4>2. QED
        BY <2>1, <3>3, <3>4, <4>1, AddsUpOnce
    <3>6. QED
      BY <2>2, <2>4, <3>1, <3>5
  <2>5. QED
    BY <2>3, <2>4
<1>7. AddsUp(all, f, s)
  <2>1. ASSUME NEW u \in SUBSET s
        PROVE  below(u) = IF u = {} THEN 0 ELSE f[Some(u)] + all[u \ {Some(u)}]
    <3>1. CASE u = {}
      BY <3>1
    <3>2. CASE u # {}
      <4>1. PICK x : x = Some(u)
        OBVIOUS
      <4>2. x \in u
        BY <3>2, <4>1 DEF Some
      <4> DEFINE v == u \ {x}
      <4>3. v \in SUBSET s /\ v # s
        BY <4>2
      <4>4. all[v] = part(v)[v]
        <5>1. all[v] = below(v)
          BY <4>3
        <5>2. QED
          BY <1>6, <4>3, <5>1
      <4>5. below(u) = f[x] + part(v)[v]
        BY <3>2, <4>1
      <4>6. QED
        BY <3>2, <4>1, <4>4, <4>5
    <3>3. QED
      BY <3>1, <3>2
  <2> HIDE DEF below
  <2>2. all = [u \in SUBSET s |-> IF u = {} THEN 0
                                  ELSE f[Some(u)] + all[u \ {Some(u)}]]
    BY <2>1
  <2>3. QED
    BY <2>2 DEF AddsUp
<1>8. QED
  BY <1>3, <1>7

\* A sum, an element at a time.
LEMMA SumFacts ==
  ASSUME NEW f, IsFiniteSet(DOMAIN f)
  PROVE  \E g : /\ SumFunction(f) = g[DOMAIN f] /\ g[{}] = 0
                /\ \A s \in SUBSET DOMAIN f : s # {} =>
                     \E x \in s : g[s] = f[x] + g[s \ {x}]
<1>1. PICK g : AddsUp(g, f, DOMAIN f) /\ SumFunction(f) = g[DOMAIN f]
  BY AddsUpExists, SumAddsUp
<1>2. g[{}] = 0
  BY <1>1 DEF AddsUp
<1>3. ASSUME NEW s \in SUBSET DOMAIN f, s # {} PROVE \E x \in s : g[s] = f[x] + g[s \ {x}]
  <2>1. g[s] = f[Some(s)] + g[s \ {Some(s)}]
    BY <1>1, <1>3 DEF AddsUp
  <2>2. Some(s) \in s
    BY <1>3 DEF Some
  <2>3. QED
    BY <2>1, <2>2
<1>4. QED
  BY <1>1, <1>2, <1>3

\* A sum of integers is an integer, and a sum of zeros is 0.
LEMMA SumIsInt ==
  ASSUME NEW f, IsFiniteSet(DOMAIN f), \A x \in DOMAIN f : f[x] \in Int
  PROVE  SumFunction(f) \in Int /\ ((\A x \in DOMAIN f : f[x] = 0) => SumFunction(f) = 0)
<1>1. PICK g : /\ SumFunction(f) = g[DOMAIN f] /\ g[{}] = 0
               /\ \A s \in SUBSET DOMAIN f : s # {} => \E x \in s : g[s] = f[x] + g[s \ {x}]
  BY SumFacts
<1> DEFINE good(s) == g[s] \in Int /\ ((\A x \in DOMAIN f : f[x] = 0) => g[s] = 0)
           T == {s \in SUBSET DOMAIN f : ~good(s)}
<1>2. SUFFICES ASSUME T # {} PROVE FALSE
  BY <1>1
<1>3. PICK s \in T : \A u \in SUBSET s : u # s => u \notin T
  <2>1. T \subseteq SUBSET DOMAIN f
    OBVIOUS
  <2> HIDE DEF T
  <2>2. QED
    BY <1>2, <2>1, LeastSubset
<1>4. s # {} /\ s \subseteq DOMAIN f /\ ~good(s)
  <2>1. s \subseteq DOMAIN f /\ ~good(s)
    BY <1>3
  <2>2. good({})
    BY <1>1
  <2>3. QED
    BY <2>1, <2>2
<1>5. PICK x \in s : g[s] = f[x] + g[s \ {x}]
  BY <1>1, <1>4
<1>6. good(s \ {x})
  BY <1>3, <1>4, <1>5
<1>7. good(s)
  BY <1>4, <1>5, <1>6
<1>8. QED
  BY <1>3, <1>7

\* The sum over one or two elements.
LEMMA SumOfTwo ==
  ASSUME NEW f, NEW a, NEW b, DOMAIN f = {a, b}, f[a] \in Int, f[b] \in Int
  PROVE  SumFunction(f) = IF a = b THEN f[a] ELSE f[a] + f[b]
<1>1. IsFiniteSet(DOMAIN f)
  <2>1. IsFiniteSet({a}) /\ DOMAIN f = {a} \cup {b}
    BY FS_Singleton
  <2>2. QED
    BY <2>1, FS_AddElement
<1>2. PICK g : /\ SumFunction(f) = g[DOMAIN f] /\ g[{}] = 0
               /\ \A s \in SUBSET DOMAIN f : s # {} => \E x \in s : g[s] = f[x] + g[s \ {x}]
  BY <1>1, SumFacts
<1>3. ASSUME NEW x \in DOMAIN f PROVE g[{x}] = f[x]
  <2>1. {x} \in SUBSET DOMAIN f /\ {x} # {} /\ {x} \ {x} = {}
    OBVIOUS
  <2>2. g[{x}] = f[x] + g[{}]
    BY <1>2, <2>1
  <2>3. f[x] \in Int
    OBVIOUS
  <2>4. QED
    BY <1>2, <2>2, <2>3
<1>4. CASE a = b
  BY <1>2, <1>3, <1>4
<1>5. CASE a # b
  <2>1. PICK x \in DOMAIN f : g[DOMAIN f] = f[x] + g[DOMAIN f \ {x}]
    BY <1>2
  <2>2. CASE x = a
    <3>1. DOMAIN f \ {x} = {b}
      BY <1>5, <2>2
    <3>2. QED
      BY <1>2, <1>3, <1>5, <2>1, <2>2, <3>1
  <2>3. CASE x = b
    <3>1. DOMAIN f \ {x} = {a}
      BY <1>5, <2>3
    <3>2. QED
      BY <1>2, <1>3, <1>5, <2>1, <2>3, <3>1
  <2>4. QED
    BY <2>1, <2>2, <2>3
<1>6. QED
  BY <1>4, <1>5

-----------------------------------------------------------------------------
(***************************************************************************)
(* The tables.                                                             *)
(***************************************************************************)
\* A row of a table: a weight in percent for each of a few names.
Row(terms, names) ==
  /\ IsFiniteSet(DOMAIN terms)
  /\ \A n \in DOMAIN terms : terms[n] \in Int /\ n \notin names

\* The names that the tables weigh.
MetaNames ==
  {"BrowLowerer", "CheekPuff", "CheekRaiser", "CheekSuck"}
  \cup {"EyesClosed", "EyesLookLeft", "EyesLookRight", "InnerBrowRaiser"}
  \cup {"JawSideways", "LidTightener", "LipCornerDepressor", "LipCornerPuller"}
  \cup {"LipFunnelerB", "LipFunnelerT", "LipPressor", "LipPucker"}
  \cup {"LipStretcher", "LipSuckB", "LipTightener", "LowerLipDepressor"}
  \cup {"Mouth", "NoseWrinkler", "OuterBrowRaiser", "UpperLidRaiser"}
  \cup {"UpperLipRaiser"}
WeighedBases ==
  {"BrowInnerUp", "BrowLowerer", "BrowOuterUp", "BrowPinch"}
  \cup {"CheekPuff", "CheekSquint", "CheekSuck", "EyeSquint"}
  \cup {"EyeX", "Jaw", "JawBackward", "JawForward"}
  \cup {"LipFunnelLower", "LipFunnelUpper", "LipPuckerLower", "LipPuckerUpper"}
  \cup {"LipSuckLower", "LipSuckUpper", "MouthDimple", "MouthLower"}
  \cup {"MouthLowerDown", "MouthPress", "MouthStretch", "MouthTightener"}
  \cup {"MouthUpper", "MouthUpperUp", "NoseSneer", "Tongue"}
  \cup {"TongueDown", "TongueUp"}

\* A few names are finitely many.
LEMMA FewNames ==
  \A a, b, c, d : IsFiniteSet({a}) /\ IsFiniteSet({a, b}) /\ IsFiniteSet({a, b, c}) /\ IsFiniteSet({a, b, c, d})
<1>1. TAKE a, b, c, d
<1>2. IsFiniteSet({a})
  BY FS_Singleton
<1>3. IsFiniteSet({a} \cup {b})
  BY <1>2, FS_AddElement
<1>4. IsFiniteSet(({a} \cup {b}) \cup {c})
  BY <1>3, FS_AddElement
<1>5. IsFiniteSet((({a} \cup {b}) \cup {c}) \cup {d})
  BY <1>4, FS_AddElement
<1>6. /\ {a, b} = {a} \cup {b} /\ {a, b, c} = ({a} \cup {b}) \cup {c}
      /\ {a, b, c, d} = (({a} \cup {b}) \cup {c}) \cup {d}
  OBVIOUS
<1>7. QED
  BY <1>2, <1>3, <1>4, <1>5, <1>6

\* The tables name finitely many weights and shapes.
LEMMA NamesAreFinite == IsFiniteSet(MetaNames) /\ IsFiniteSet(WeighedBases)
<1>1. \A S, T : IsFiniteSet(S) /\ IsFiniteSet(T) => IsFiniteSet(S \cup T)
  BY FS_Union
<1>2. QED
  BY <1>1, FewNames, Zenon DEF MetaNames, WeighedBases

\* Meta's tables weigh nothing but the names counted above.
LEMMA MetaNamesKnown ==
  \A base \in DOMAIN MetaSided : DOMAIN MetaSided[base] \subseteq MetaNames
  BY DEF MetaSided, MetaNames

\* Only the horizontal gaze is made from weights that exchange their names in a mirror.
LEMMA MetaTerms ==
  \A base \in DOMAIN MetaSided : base # "EyeX" =>
    \A n \in DOMAIN MetaSided[base] : MetaSided[base][n] \in Int /\ n \notin DOMAIN LookingAway
  BY DEF MetaSided, LookingAway

\* So every other one of Meta's shapes is a finite sum of weights that keep their names.
LEMMA MetaRows ==
  \A base \in DOMAIN MetaSided : base # "EyeX" => Row(MetaSided[base], DOMAIN LookingAway)
  BY MetaNamesKnown, MetaTerms, NamesAreFinite, FS_Subset DEF Row

\* A combined shape is a row of the tables, and only the horizontal gaze is made from the
\* horizontal gaze.
LEMMA RuleRows ==
  /\ \A base \in DOMAIN Rules : base # "EyeX" => Row(Rules[base], {"EyeX", "EyeY"})
  /\ Rules["EyeX"] = [EyeX |-> 100]
<1> DEFINE Good(table) ==
      \A base \in DOMAIN table : base # "EyeX" => Row(table[base], {"EyeX", "EyeY"})
<1>1. Good(BrowRules)
  <2>1. \A base \in DOMAIN BrowRules : DOMAIN BrowRules[base] \subseteq WeighedBases
    BY DEF BrowRules, WeighedBases
  <2>2. \A base \in DOMAIN BrowRules : \A n \in DOMAIN BrowRules[base] :
          BrowRules[base][n] \in Int /\ n \notin {"EyeX", "EyeY"}
    BY DEF BrowRules
  <2>3. QED
    BY <2>1, <2>2, NamesAreFinite, FS_Subset DEF Row
<1>2. Good(CheekRules)
  <2>1. \A base \in DOMAIN CheekRules : DOMAIN CheekRules[base] \subseteq WeighedBases
    BY DEF CheekRules, WeighedBases
  <2>2. \A base \in DOMAIN CheekRules : \A n \in DOMAIN CheekRules[base] :
          CheekRules[base][n] \in Int /\ n \notin {"EyeX", "EyeY"}
    BY DEF CheekRules
  <2>3. QED
    BY <2>1, <2>2, NamesAreFinite, FS_Subset DEF Row
<1>3. Good(LipRules)
  <2>1. \A base \in DOMAIN LipRules : DOMAIN LipRules[base] \subseteq WeighedBases
    BY DEF LipRules, WeighedBases
  <2>2. \A base \in DOMAIN LipRules : \A n \in DOMAIN LipRules[base] :
          LipRules[base][n] \in Int /\ n \notin {"EyeX", "EyeY"}
    BY DEF LipRules
  <2>3. QED
    BY <2>1, <2>2, NamesAreFinite, FS_Subset DEF Row
<1>4. Good(MouthRules)
  <2>1. \A base \in DOMAIN MouthRules : DOMAIN MouthRules[base] \subseteq WeighedBases
    BY DEF MouthRules, WeighedBases
  <2>2. \A base \in DOMAIN MouthRules : \A n \in DOMAIN MouthRules[base] :
          MouthRules[base][n] \in Int /\ n \notin {"EyeX", "EyeY"}
    BY DEF MouthRules
  <2>3. QED
    BY <2>1, <2>2, NamesAreFinite, FS_Subset DEF Row
<1>5. Good(OtherRules)
  <2>1. \A base \in DOMAIN OtherRules : DOMAIN OtherRules[base] \subseteq WeighedBases
    BY DEF OtherRules, WeighedBases
  <2>2. \A base \in DOMAIN OtherRules : base # "EyeX" => \A n \in DOMAIN OtherRules[base] :
          OtherRules[base][n] \in Int /\ n \notin {"EyeX", "EyeY"}
    BY DEF OtherRules
  <2>3. QED
    BY <2>1, <2>2, NamesAreFinite, FS_Subset DEF Row
<1> HIDE DEF Good
<1>6. ASSUME NEW f, NEW g, Good(f), Good(g) PROVE Good(Over(f, g))
  BY <1>6 DEF Good, Over
<1>7. Good(Rules)
  BY <1>1, <1>2, <1>3, <1>4, <1>5, <1>6 DEF Rules
<1>8. Rules["EyeX"] = OtherRules["EyeX"]
  <2>1. /\ "EyeX" \notin DOMAIN BrowRules /\ "EyeX" \notin DOMAIN CheekRules
        /\ "EyeX" \notin DOMAIN LipRules /\ "EyeX" \notin DOMAIN MouthRules
    BY DEF BrowRules, CheekRules, LipRules, MouthRules
  <2>2. "EyeX" \in DOMAIN OtherRules
    BY DEF OtherRules
  <2>3. ASSUME NEW f, NEW g, "EyeX" \notin DOMAIN f, "EyeX" \in DOMAIN g
        PROVE  "EyeX" \in DOMAIN Over(f, g) /\ Over(f, g)["EyeX"] = g["EyeX"]
    BY <2>3 DEF Over
  <2>4. QED
    BY <2>1, <2>2, <2>3 DEF Rules
<1>9. OtherRules["EyeX"] = [EyeX |-> 100]
  BY DEF OtherRules
<1>10. QED
  BY <1>7, <1>8, <1>9 DEF Good

\* A shape of a face after new values: the new one, or the one it had.
LEMMA AtWith ==
  ASSUME NEW face0, NEW values, NEW s
  PROVE  At(With(face0, values), s) = IF s \in DOMAIN values THEN values[s] ELSE At(face0, s)
  BY DEF At, With, Over, RestrictValues, Restrict

\* Where two faces agree on what a table weighs, so do their mixes.
LEMMA SameMix ==
  ASSUME NEW f, NEW g, NEW terms, NEW a, NEW b, \A n \in DOMAIN terms : At(f, <<n, a>>) = At(g, <<n, b>>)
  PROVE  Mix(f, terms, a) = Mix(g, terms, b)
<1>1. [n \in DOMAIN terms |-> terms[n] * At(f, <<n, a>>)] = [n \in DOMAIN terms |-> terms[n] * At(g, <<n, b>>)]
  OBVIOUS
<1>2. QED
  BY <1>1 DEF Mix

\* A part of an integer is an integer, and that of its opposite is the opposite.
LEMMA PartFacts ==
  \A v \in Int : \A n \in Nat \ {0} : Part(v, n) \in Int /\ Part(-v, n) = -Part(v, n)
  BY DEF Part

\* A mix of integers is an integer, and a mix of nothing is 0.
LEMMA MixIsInt ==
  ASSUME NEW f, NEW terms, NEW names, NEW side, Row(terms, names),
         \A n \in DOMAIN terms : At(f, <<n, side>>) \in Int
  PROVE  /\ Mix(f, terms, side) \in Int
         /\ (\A n \in DOMAIN terms : At(f, <<n, side>>) = 0) => Mix(f, terms, side) = 0
<1> DEFINE h == [n \in DOMAIN terms |-> terms[n] * At(f, <<n, side>>)]
<1>1. DOMAIN h = DOMAIN terms /\ IsFiniteSet(DOMAIN h)
  BY DEF Row
<1>2. \A n \in DOMAIN h : h[n] \in Int /\ (At(f, <<n, side>>) = 0 => h[n] = 0)
  BY DEF Row
<1>3. Mix(f, terms, side) = Part(SumFunction(h), 100)
  BY DEF Mix
<1> HIDE DEF h
<1>4. SumFunction(h) \in Int /\ ((\A n \in DOMAIN h : h[n] = 0) => SumFunction(h) = 0)
  BY <1>1, <1>2, SumIsInt
<1>5. Part(0, 100) = 0
  BY DEF Part
<1>6. Mix(f, terms, side) \in Int
  BY <1>3, <1>4, PartFacts
<1>7. (\A n \in DOMAIN terms : At(f, <<n, side>>) = 0) => SumFunction(h) = 0
  BY <1>1, <1>2, <1>4
<1>8. QED
  BY <1>3, <1>5, <1>6, <1>7

-----------------------------------------------------------------------------
(***************************************************************************)
(* Faces that mirror each other.                                           *)
(***************************************************************************)
AnySide == Sides \cup {NoSide}
IntFace(f) == \A n, side : At(f, <<n, side>>) \in Int

\* What f shows on one side g shows on the other, and looks the other way.
MirrorImages(f, g) ==
  \A side \in AnySide :
    /\ \A n : n \notin {"EyeX", "EyeY"} => At(g, <<n, Other(side)>>) = At(f, <<n, side>>)
    /\ At(g, <<"EyeX", Other(side)>>) = -At(f, <<"EyeX", side>>)

\* The other side of the other side is the side.
LEMMA OtherSide ==
  /\ \A side \in AnySide : Other(side) \in AnySide /\ Other(Other(side)) = side /\ (side = NoSide <=> Other(side) = NoSide)
  /\ \A side \in Sides : Other(side) \in Sides /\ side # NoSide
  BY DEF AnySide, Sides, Other, NoSide

SmileTerms == [MouthCornerPull |-> 75, MouthCornerSlant |-> 25]
SadTerms == [MouthFrown |-> 75, MouthStretch |-> 25]

\* The two mixes that several shapes share.
LEMMA SmileRows == Row(SmileTerms, {"EyeX", "EyeY"}) /\ Row(SadTerms, {"EyeX", "EyeY"})
<1>1. IsFiniteSet(DOMAIN SmileTerms)
  <2>1. DOMAIN SmileTerms = {"MouthCornerPull", "MouthCornerSlant"}
    BY DEF SmileTerms
  <2>2. QED
    BY <2>1, FewNames
<1>2. IsFiniteSet(DOMAIN SadTerms)
  <2>1. DOMAIN SadTerms = {"MouthFrown", "MouthStretch"}
    BY DEF SadTerms
  <2>2. QED
    BY <2>1, FewNames
<1>3. \A n \in DOMAIN SmileTerms : SmileTerms[n] \in Int /\ n \notin {"EyeX", "EyeY"}
  BY DEF SmileTerms
<1>4. \A n \in DOMAIN SadTerms : SadTerms[n] \in Int /\ n \notin {"EyeX", "EyeY"}
  BY DEF SadTerms
<1>5. QED
  BY <1>1, <1>2, <1>3, <1>4 DEF Row

\* Mirror images have the same mixes, side for side, of what does not look sideways.
LEMMA MixMirrors ==
  ASSUME NEW f, NEW g, IntFace(f), MirrorImages(f, g), NEW side \in AnySide,
         NEW terms, Row(terms, {"EyeX", "EyeY"})
  PROVE  Mix(g, terms, Other(side)) = Mix(f, terms, side) /\ Mix(f, terms, side) \in Int
<1>1. \A n \in DOMAIN terms : n \notin {"EyeX", "EyeY"}
  BY DEF Row
<1>2. \A n \in DOMAIN terms : At(g, <<n, Other(side)>>) = At(f, <<n, side>>)
  BY <1>1 DEF MirrorImages
<1>3. \A n \in DOMAIN terms : At(f, <<n, side>>) \in Int
  BY DEF IntFace
<1>4. Mix(g, terms, Other(side)) = Mix(f, terms, side)
  BY <1>2, SameMix
<1>5. Mix(f, terms, side) \in Int
  BY <1>3, MixIsInt
<1>6. QED
  BY <1>4, <1>5

\* What is worked out of one side, beside the tables.
LEMMA PiecesMirror ==
  ASSUME NEW f, NEW g, IntFace(f), MirrorImages(f, g), NEW side \in AnySide
  PROVE  /\ Openness(g, Other(side)) = Openness(f, side) /\ Openness(f, side) \in Int
         /\ Lid(g, Other(side)) = Lid(f, side) /\ Lid(f, side) \in Int
         /\ Smile(g, Other(side)) = Smile(f, side) /\ Smile(f, side) \in Int
         /\ Sad(g, Other(side)) = Sad(f, side) /\ Sad(f, side) \in Int
         /\ ApeFaceness(g) = ApeFaceness(f) /\ ApeFaceness(f) \in Int
         /\ \A v : Aped(g, v) = Aped(f, v) /\ (v \in Int => Aped(f, v) \in Int)
         /\ SquintOf(g, Other(side)) = SquintOf(f, side) /\ SquintOf(f, side) \in Int
<1>1. \A n : n \notin {"EyeX", "EyeY"} =>
        At(g, <<n, Other(side)>>) = At(f, <<n, side>>) /\ At(f, <<n, side>>) \in Int
  BY DEF IntFace, MirrorImages
<1>2. Openness(g, Other(side)) = Openness(f, side) /\ Openness(f, side) \in Int
  <2>1. PICK v \in Int : v = At(f, <<"EyeClosed", side>>)
    BY <1>1
  <2>2. At(g, <<"EyeClosed", Other(side)>>) = v
    BY <1>1, <2>1
  <2>3. Clamp(100 - Part(3 * v, 2), 0, 100) \in Int
    BY PartFacts DEF Clamp, LowOf
  <2>4. QED
    BY <2>1, <2>2, <2>3 DEF Openness
<1>3. Lid(g, Other(side)) = Lid(f, side) /\ Lid(f, side) \in Int
  <2>1. PICK v \in Int : v = At(f, <<"EyeWide", side>>)
    BY <1>1
  <2>2. At(g, <<"EyeWide", Other(side)>>) = v
    BY <1>1, <2>1
  <2>3. PICK o \in Int : o = Openness(f, side)
    BY <1>2
  <2>4. Part(o * (300 + v), 400) \in Int
    BY PartFacts
  <2>5. QED
    BY <1>2, <2>1, <2>2, <2>3, <2>4 DEF Lid
<1>4. Smile(g, Other(side)) = Smile(f, side) /\ Smile(f, side) \in Int
  BY MixMirrors, SmileRows DEF Smile, SmileTerms
<1>5. Sad(g, Other(side)) = Sad(f, side) /\ Sad(f, side) \in Int
  BY MixMirrors, SmileRows DEF Sad, SadTerms
<1>6. ApeFaceness(g) = ApeFaceness(f) /\ ApeFaceness(f) \in Int
  <2>1. NoSide \in AnySide /\ Other(NoSide) = NoSide
    BY DEF AnySide, Other, NoSide
  <2>2. PICK v \in Int : v = At(f, <<"MouthClosed", NoSide>>)
    BY DEF IntFace
  <2>3. At(g, <<"MouthClosed", NoSide>>) = v
    BY <2>1, <2>2 DEF MirrorImages
  <2>4. Part(3 * v, 4) \in Int
    BY PartFacts
  <2>5. QED
    BY <2>2, <2>3, <2>4 DEF ApeFaceness
<1>7. \A v : Aped(g, v) = Aped(f, v) /\ (v \in Int => Aped(f, v) \in Int)
  BY <1>6, PartFacts DEF Aped
<1>8. SquintOf(g, Other(side)) = SquintOf(f, side) /\ SquintOf(f, side) \in Int
  <2>1. PICK v \in Int : v = At(f, <<"EyeSquint", side>>)
    BY <1>1
  <2>2. At(g, <<"EyeSquint", Other(side)>>) = v
    BY <1>1, <2>1
  <2>3. PICK o \in Int : o = Openness(f, side)
    BY <1>2
  <2>4. PICK m \in Int : m = Smile(f, side)
    BY <1>4
  <2>5. LowOf(v + Part(3 * m, 5), 100) \in Int
    BY PartFacts DEF LowOf
  <2>6. Part(LowOf(v + Part(3 * m, 5), 100) * o, 100) \in Int
    BY <2>5, PartFacts
  <2>7. QED
    BY <1>2, <1>4, <2>1, <2>2, <2>3, <2>4, <2>6 DEF SquintOf
<1>9. QED
  BY <1>2, <1>3, <1>4, <1>5, <1>6, <1>7, <1>8

\* The horizontal gaze is mixed from itself alone.
LEMMA GazeMix ==
  ASSUME NEW f, NEW side, At(f, <<"EyeX", side>>) \in Int
  PROVE  Mix(f, [EyeX |-> 100], side) = Part(100 * At(f, <<"EyeX", side>>), 100)
<1> DEFINE h == [n \in DOMAIN [EyeX |-> 100] |-> [EyeX |-> 100][n] * At(f, <<n, side>>)]
<1>1. DOMAIN h = {"EyeX", "EyeX"} /\ h["EyeX"] = 100 * At(f, <<"EyeX", side>>)
  OBVIOUS
<1>2. h["EyeX"] \in Int
  BY <1>1
<1>3. Mix(f, [EyeX |-> 100], side) = Part(SumFunction(h), 100)
  BY DEF Mix
<1> HIDE DEF h
<1>4. SumFunction(h) = h["EyeX"]
  BY <1>1, <1>2, SumOfTwo
<1>5. QED
  BY <1>1, <1>3, <1>4

SidedCombined == DOMAIN Rules \cup PerSide \cup PerSideAndMean

\* What is combined of one side is combined of the other side of a mirror image.  The ears,
\* both of which listen to the left brow, are not.
LEMMA OneSideMirrors ==
  ASSUME NEW f, NEW g, IntFace(f), MirrorImages(f, g), NEW side \in AnySide,
         NEW base \in SidedCombined, base # "Ear"
  PROVE  /\ OneSide(f, base, side) \in Int
         /\ base # "EyeX" => OneSide(g, base, Other(side)) = OneSide(f, base, side)
         /\ base = "EyeX" => OneSide(g, base, Other(side)) = -OneSide(f, base, side)
<1> USE PiecesMirror
<1>1. CASE base = "EyeLid"
  BY <1>1 DEF OneSide
<1>2. CASE base \in {"MouthSmile", "MouthSad"}
  BY <1>2 DEF OneSide
<1>3. CASE base = "SmileSad"
  <2>1. PICK v \in Int : v = Smile(f, side) - Sad(f, side)
    OBVIOUS
  <2>2. Smile(g, Other(side)) - Sad(g, Other(side)) = v
    BY <2>1
  <2>3. QED
    BY <1>3, <2>1, <2>2 DEF OneSide
<1>4. CASE base = "SmileFrown"
  <2>1. PICK v \in Int : v = At(f, <<"MouthFrown", side>>)
    BY DEF IntFace
  <2>2. At(g, <<"MouthFrown", Other(side)>>) = v
    BY <2>1 DEF MirrorImages
  <2>3. Smile(f, side) - v + ApeFaceness(f) \in Int
    OBVIOUS
  <2>4. QED
    BY <1>4, <2>1, <2>2, <2>3 DEF OneSide
<1>5. CASE base \notin {"EyeLid", "MouthSmile", "MouthSad", "SmileSad", "SmileFrown"}
  <2>1. base \in DOMAIN Rules
    <3>1. {"BrowDown", "MouthStretchTighten", "BrowExpression", "CheekPuffSuck"} \subseteq DOMAIN Rules
      BY DEF Rules, Over, BrowRules, CheekRules, LipRules
    <3>2. QED
      BY <1>5, <3>1 DEF SidedCombined, PerSide, PerSideAndMean
  <2>2. /\ OneSide(f, base, side) = Mix(f, Rules[base], side)
        /\ OneSide(g, base, Other(side)) = Mix(g, Rules[base], Other(side))
    BY <1>5 DEF OneSide
  <2>3. CASE base # "EyeX"
    <3>1. Row(Rules[base], {"EyeX", "EyeY"})
      BY <2>1, <2>3, RuleRows
    <3>2. QED
      BY <2>2, <2>3, <3>1, MixMirrors
  <2>4. CASE base = "EyeX"
    <3>1. PICK v \in Int : v = At(f, <<"EyeX", side>>)
      BY DEF IntFace
    <3>2. At(g, <<"EyeX", Other(side)>>) = -v
      BY <3>1 DEF MirrorImages
    <3>3. Mix(f, Rules[base], side) = Part(100 * v, 100)
      BY <2>4, <3>1, RuleRows, GazeMix
    <3>4. Mix(g, Rules[base], Other(side)) = Part(100 * (-v), 100)
      <4>1. -v \in Int
        OBVIOUS
      <4>2. QED
        BY <2>4, <3>2, <4>1, RuleRows, GazeMix
    <3>5. 100 * (-v) = -(100 * v) /\ 100 * v \in Int
      OBVIOUS
    <3>6. QED
      BY <2>2, <2>4, <3>3, <3>4, <3>5, PartFacts
  <2>5. QED
    BY <2>3, <2>4
<1>6. QED
  BY <1>1, <1>2, <1>3, <1>4, <1>5

\* Every combined shape of a mirror image is the one of the other side, and points the other way
\* if it says how far to the right.
LEMMA CombinedMirrors ==
  ASSUME NEW f, NEW g, IntFace(f), MirrorImages(f, g), NEW s \in CombinedShapes, s[1] # "Ear"
  PROVE  Combined(g, s[1], Other(s[2])) = Sign(s) * Combined(f, s[1], s[2])
<1> DEFINE base == s[1]
           side == s[2]
<1>1. /\ side \in AnySide /\ (side \in Sides \/ side = NoSide)
      /\ base \in SidedCombined \cup NeverSet
      /\ side \in Sides => base \notin {"EyeX"} \cup Across \cup Upright \cup NeverSet
  <2>1. CASE s \in (PerSide \cup PerSideAndMean) \X Sides
    BY <2>1 DEF AnySide, SidedCombined, PerSide, PerSideAndMean, Across, Upright, NeverSet
  <2>2. CASE s \in (((DOMAIN Rules \cup PerSideAndMean) \ PerSide) \cup NeverSet) \X {NoSide}
    BY <2>2 DEF AnySide, SidedCombined, Sides, NoSide
  <2>3. QED
    BY <2>1, <2>2 DEF CombinedShapes
<1>2. CASE base \in NeverSet
  <2>1. Combined(f, base, side) = 0 /\ Combined(g, base, Other(side)) = 0
    BY <1>2 DEF Combined
  <2>2. Sign(s) \in Int
    BY DEF Sign
  <2>3. QED
    BY <2>1, <2>2
<1>3. CASE base \notin NeverSet
  <2> DEFINE v(a) == OneSide(f, base, a)
             sign == IF base = "EyeX" THEN -1 ELSE 1
  <2>1. \A a \in AnySide : v(a) \in Int /\ OneSide(g, base, Other(a)) = sign * v(a)
    <3>1. SUFFICES ASSUME NEW a \in AnySide
                   PROVE  v(a) \in Int /\ OneSide(g, base, Other(a)) = sign * v(a)
      OBVIOUS
    <3>2. base \in SidedCombined /\ base # "Ear"
      BY <1>1, <1>3
    <3> HIDE DEF base
    <3>3. /\ OneSide(f, base, a) \in Int
          /\ base # "EyeX" => OneSide(g, base, Other(a)) = OneSide(f, base, a)
          /\ base = "EyeX" => OneSide(g, base, Other(a)) = -OneSide(f, base, a)
      BY <3>2, OneSideMirrors
    <3>4. QED
      BY <3>3
  <2>2. PICK l \in Int, r \in Int, m \in Int : l = v("Left") /\ r = v("Right") /\ m = v(side)
    BY <1>1, <2>1 DEF AnySide, Sides
  <2>3. /\ OneSide(g, base, "Right") = sign * l /\ OneSide(g, base, "Left") = sign * r
        /\ OneSide(g, base, Other(side)) = sign * m
    BY <1>1, <2>1, <2>2 DEF AnySide, Sides, Other
  <2>4. CASE side # NoSide \/ base \in Upright
    <3>1. Other(side) # NoSide \/ base \in Upright
      BY <1>1, <2>4, OtherSide
    <3>2. Combined(f, base, side) = m /\ Combined(g, base, Other(side)) = sign * m
      BY <1>3, <2>2, <2>3, <2>4, <3>1 DEF Combined
    <3>3. Sign(s) = 1 /\ sign = 1
      BY <1>1, <2>4 DEF Sign, Across, Upright
    <3>4. QED
      BY <3>2, <3>3
  <2>5. CASE side = NoSide /\ base \notin Upright
    <3>1. Other(side) = NoSide
      BY <2>5 DEF Other, NoSide
    <3>2. CASE base \in Across
      <4>1. Combined(f, base, side) = r - l /\ Combined(g, base, Other(side)) = sign * l - sign * r
        BY <1>3, <2>2, <2>3, <2>5, <3>1, <3>2 DEF Combined
      <4>2. Sign(s) = -1 /\ sign = 1
        BY <3>2 DEF Sign, Across
      <4>3. QED
        BY <4>1, <4>2
    <3>3. CASE base \notin Across
      <4>1. Combined(f, base, side) = Part(l + r, 2)
        BY <1>3, <2>2, <2>5, <3>3 DEF Combined
      <4>2. Combined(g, base, Other(side)) = Part(sign * r + sign * l, 2)
        BY <1>3, <2>3, <2>5, <3>1, <3>3 DEF Combined
      <4>3. Sign(s) = sign
        BY <3>3 DEF Sign
      <4>4. sign * r + sign * l = sign * (l + r)
        OBVIOUS
      <4>5. PICK w \in Int : w = l + r
        OBVIOUS
      <4>6. Part(-w, 2) = -Part(w, 2) /\ Part(w, 2) \in Int
        BY PartFacts
      <4>7. QED
        BY <4>1, <4>2, <4>3, <4>4, <4>5, <4>6
    <3>4. QED
      BY <3>2, <3>3
  <2>6. QED
    BY <2>4, <2>5
<1>4. QED
  BY <1>2, <1>3

-----------------------------------------------------------------------------
(***************************************************************************)
(* Meta's weights, and those of the user in the mirror.                    *)
(***************************************************************************)
IsWeights(w) ==
  \A s \in DOMAIN w : s = <<s[1], s[2]>> /\ s[2] \in AnySide /\ w[s] \in Nat

Exchanged(n) == IF n \in DOMAIN LookingAway THEN LookingAway[n] ELSE n

\* In the mirror a weight is that of the other side.
LEMMA MirroredAt ==
  ASSUME NEW w, IsWeights(w), NEW n, NEW side \in AnySide
  PROVE  At(MirroredWeights(w), <<n, Other(side)>>) = At(w, <<Exchanged(n), side>>)
<1> DEFINE of(s) == <<Exchanged(s[1]), Other(s[2])>>
           m == MirroredWeights(w)
           t == <<n, Other(side)>>
<1>1. DOMAIN m = {of(s) : s \in DOMAIN w} /\ \A s \in DOMAIN m : m[s] = w[of(s)]
  BY DEF MirroredWeights, Exchanged
<1>2. \A k : Exchanged(Exchanged(k)) = k
  BY DEF Exchanged, LookingAway
<1>3. of(t) = <<Exchanged(n), side>> /\ of(of(t)) = t
  BY <1>2, OtherSide
<1>4. \A s \in DOMAIN w : of(of(s)) = s
  <2>1. SUFFICES ASSUME NEW s \in DOMAIN w PROVE of(of(s)) = s
    OBVIOUS
  <2>2. s = <<s[1], s[2]>> /\ s[2] \in AnySide
    BY DEF IsWeights
  <2>3. QED
    BY <1>2, <2>2, OtherSide
<1> HIDE DEF of, m, t
<1>5. t \in DOMAIN m <=> of(t) \in DOMAIN w
  BY <1>1, <1>3, <1>4
<1>6. QED
  BY <1>1, <1>3, <1>5 DEF At, m, t

\* Weights are never below 0.
LEMMA WeightAt ==
  ASSUME NEW w, IsWeights(w)
  PROVE  \A s : At(w, s) \in Nat
  BY DEF IsWeights, At

\* A few small numbers have a greatest one.
LEMMA GreatestOfFew ==
  ASSUME NEW S \in SUBSET (0..10), NEW s \in S
  PROVE  Max(S) \in S
<1>1. \E x \in S : \A y \in S : y <= x
  <2>1. SUFFICES ASSUME \A x \in S : \E y \in S : x < y PROVE FALSE
    OBVIOUS
  <2>2. QED
    BY <2>1
<1>2. QED
  BY <1>1 DEF Max

\* A sixth root is a whole number of tenths.
LEMMA RootIsInt == \A v \in Nat : SixthRoot(v) \in Int
<1>1. SUFFICES ASSUME NEW v \in Nat PROVE SixthRoot(v) \in Int
  OBVIOUS
<1> DEFINE S == {r \in 0..10 : r * r * r * r * r * r <= 10000 * v}
<1>2. 0 \in S /\ S \subseteq 0..10
  OBVIOUS
<1> HIDE DEF S
<1>3. Max(S) \in S
  BY <1>2, GreatestOfFew
<1>4. QED
  BY <1>2, <1>3 DEF SixthRoot, S

\* What Meta's weights make of a unified shape.
IsMetaShape(w, n, side, v) ==
  /\ <<n, side>> \notin Unified => v = 0
  /\ <<n, side>> \in Unified =>
       /\ n \in DOMAIN MetaSided => v = Mix(w, MetaSided[n], side)
       /\ n \in DOMAIN MetaSingle => v = At(w, <<MetaSingle[n], NoSide>>)
       /\ n = "EyeY" => v = At(w, <<"EyesLookUp", "Right">>) - At(w, <<"EyesLookDown", "Right">>)
       /\ n = "LipSuckUpper" =>
            v = LowOf(100 - SixthRoot(At(w, <<"UpperLipRaiser", side>>)), At(w, <<"LipSuckT", side>>))
       /\ n = "MouthDimple" => v = LowOf(2 * At(w, <<"Dimpler", side>>), 100)
       /\ n \notin DOMAIN MetaSided \cup DOMAIN MetaSingle \cup {"EyeY", "LipSuckUpper", "MouthDimple"}
            => v = 0

\* A shape of the face that is made from weights is that shape of the weights.
LEMMA MetaShape ==
  ASSUME NEW w, NEW n, NEW side
  PROVE  IsMetaShape(w, n, side, At(FromMeta(w), <<n, side>>))
<1> DEFINE value(s) ==
      CASE s[1] \in DOMAIN MetaSided -> Mix(w, MetaSided[s[1]], s[2])
        [] s[1] \in DOMAIN MetaSingle -> At(w, <<MetaSingle[s[1]], NoSide>>)
        [] s[1] = "EyeY" -> At(w, <<"EyesLookUp", "Right">>) - At(w, <<"EyesLookDown", "Right">>)
        [] s[1] = "LipSuckUpper" ->
             LowOf(100 - SixthRoot(At(w, <<"UpperLipRaiser", s[2]>>)), At(w, <<"LipSuckT", s[2]>>))
        [] s[1] = "MouthDimple" -> LowOf(2 * At(w, <<"Dimpler", s[2]>>), 100)
        [] OTHER -> 0
      s == <<n, side>>
<1>1. FromMeta(w) = With(Neutral, [u \in Unified |-> value(u)])
  BY DEF FromMeta
<1>2. At(Neutral, s) = 0
  BY DEF At, Neutral
<1>3. At(FromMeta(w), s) = IF s \in Unified THEN value(s) ELSE 0
  <2> HIDE DEF value, s
  <2>1. PICK values : values = [u \in Unified |-> value(u)]
    OBVIOUS
  <2>2. At(FromMeta(w), s) = IF s \in DOMAIN values THEN values[s] ELSE At(Neutral, s)
    BY <1>1, <2>1, AtWith
  <2>3. QED
    BY <1>2, <2>1, <2>2
<1>4. /\ {"EyeY", "LipSuckUpper", "MouthDimple"} \cap (DOMAIN MetaSided \cup DOMAIN MetaSingle) = {}
      /\ DOMAIN MetaSided \cap DOMAIN MetaSingle = {}
  BY DEF MetaSided, MetaSingle
<1>5. s[1] = n /\ s[2] = side
  OBVIOUS
<1>6. PICK v : v = At(FromMeta(w), s)
  OBVIOUS
<1> HIDE DEF s
<1>7. QED
  BY <1>3, <1>4, <1>5, <1>6 DEF s, IsMetaShape

\* The weights of the user in the mirror are weights.
LEMMA MirroredAreWeights ==
  ASSUME NEW w, IsWeights(w)
  PROVE  IsWeights(MirroredWeights(w))
<1> DEFINE of(s) == <<Exchanged(s[1]), Other(s[2])>>
<1>1. MirroredWeights(w) = [s \in {of(u) : u \in DOMAIN w} |-> w[of(s)]]
  BY DEF MirroredWeights, Exchanged
<1>2. ASSUME NEW u, u = <<u[1], u[2]>>, u[2] \in AnySide
      PROVE  of(u) = <<of(u)[1], of(u)[2]>> /\ of(u)[2] \in AnySide /\ of(of(u)) = u
  <2>1. Exchanged(Exchanged(u[1])) = u[1]
    BY DEF Exchanged, LookingAway
  <2>2. Other(u[2]) \in AnySide /\ Other(Other(u[2])) = u[2]
    BY <1>2, OtherSide
  <2>3. QED
    BY <1>2, <2>1, <2>2
<1> HIDE DEF of
<1>3. \A u \in DOMAIN w : u = <<u[1], u[2]>> /\ u[2] \in AnySide /\ w[u] \in Nat
  BY DEF IsWeights
<1>4. QED
  BY <1>1, <1>2, <1>3 DEF IsWeights

\* Meta's horizontal gaze: how far to the right, less how far to the left.
LEMMA GazeWeights ==
  ASSUME NEW w, NEW side, At(w, <<"EyesLookRight", side>>) \in Int, At(w, <<"EyesLookLeft", side>>) \in Int
  PROVE  Mix(w, MetaSided["EyeX"], side)
           = Part(100 * At(w, <<"EyesLookRight", side>>) - 100 * At(w, <<"EyesLookLeft", side>>), 100)
<1> DEFINE terms == [EyesLookRight |-> 100, EyesLookLeft |-> -100]
           h == [n \in DOMAIN terms |-> terms[n] * At(w, <<n, side>>)]
<1>1. MetaSided["EyeX"] = terms
  BY DEF MetaSided
<1>2. PICK r \in Int, l \in Int : r = At(w, <<"EyesLookRight", side>>) /\ l = At(w, <<"EyesLookLeft", side>>)
  OBVIOUS
<1>3. DOMAIN h = {"EyesLookRight", "EyesLookLeft"} /\ h["EyesLookRight"] = 100 * r /\ h["EyesLookLeft"] = -100 * l
  BY <1>2
<1>4. Mix(w, terms, side) = Part(SumFunction(h), 100)
  BY DEF Mix
<1> HIDE DEF terms, h
<1>5. SumFunction(h) = h["EyesLookRight"] + h["EyesLookLeft"]
  <2>1. h["EyesLookRight"] \in Int /\ h["EyesLookLeft"] \in Int
    BY <1>3
  <2>2. "EyesLookRight" # "EyesLookLeft"
    OBVIOUS
  <2>3. QED
    BY <1>3, <2>1, <2>2, SumOfTwo
<1>6. SumFunction(h) = 100 * r - 100 * l
  BY <1>3, <1>5
<1>7. QED
  BY <1>1, <1>2, <1>4, <1>6

\* A face made from weights has whole percents.
LEMMA MetaIsInt ==
  ASSUME NEW w, IsWeights(w)
  PROVE  IntFace(FromMeta(w))
<1>1. SUFFICES ASSUME NEW n, NEW side PROVE At(FromMeta(w), <<n, side>>) \in Int
  BY DEF IntFace
<1>2. \A s : At(w, s) \in Nat
  BY WeightAt
<1> DEFINE v == At(FromMeta(w), <<n, side>>)
<1>shape. IsMetaShape(w, n, side, v)
  BY MetaShape
<1> HIDE DEF v
<1>3. CASE n \in DOMAIN MetaSided /\ n # "EyeX"
  <2>1. Mix(w, MetaSided[n], side) \in Int
    <3>1. Row(MetaSided[n], DOMAIN LookingAway)
      BY <1>3, MetaRows
    <3>2. \A k \in DOMAIN MetaSided[n] : At(w, <<k, side>>) \in Int
      BY <1>2
    <3>3. QED
      BY <3>1, <3>2, MixIsInt
  <2>2. QED
    BY <1>3, <2>1, <1>shape DEF IsMetaShape, v
<1>4. CASE n = "EyeX"
  <2>1. Mix(w, MetaSided[n], side) = Part(100 * At(w, <<"EyesLookRight", side>>) - 100 * At(w, <<"EyesLookLeft", side>>), 100)
    BY <1>2, <1>4, GazeWeights
  <2>2. 100 * At(w, <<"EyesLookRight", side>>) - 100 * At(w, <<"EyesLookLeft", side>>) \in Int
    BY <1>2
  <2>3. Mix(w, MetaSided[n], side) \in Int
    BY <2>1, <2>2, PartFacts
  <2>4. n \in DOMAIN MetaSided
    BY <1>4 DEF MetaSided
  <2>5. QED
    BY <2>3, <2>4, <1>shape DEF IsMetaShape, v
<1>5. CASE n \in DOMAIN MetaSingle
  BY <1>2, <1>5, <1>shape DEF IsMetaShape, v
<1>6. CASE n \in {"EyeY", "MouthDimple"}
  <2>1. \A a, b \in Nat : a - b \in Int /\ LowOf(2 * a, 100) \in Int
    BY DEF LowOf
  <2>2. QED
    BY <1>2, <1>6, <2>1, <1>shape DEF IsMetaShape, v
<1>7. CASE n = "LipSuckUpper"
  <2>1. PICK a \in Nat, b \in Nat : a = At(w, <<"UpperLipRaiser", side>>) /\ b = At(w, <<"LipSuckT", side>>)
    BY <1>2
  <2>2. LowOf(100 - SixthRoot(a), b) \in Int
    BY RootIsInt DEF LowOf
  <2>3. QED
    BY <1>7, <2>1, <2>2, <1>shape DEF IsMetaShape, v
<1>8. CASE n \notin DOMAIN MetaSided \cup DOMAIN MetaSingle \cup {"EyeY", "LipSuckUpper", "MouthDimple"}
  BY <1>8, <1>shape DEF IsMetaShape, v
<1>9. QED
  BY <1>3, <1>4, <1>5, <1>6, <1>7, <1>8

\* The faces of a user and of the user in the mirror are mirror images.
LEMMA MetaMirrors ==
  ASSUME NEW w, IsWeights(w)
  PROVE  MirrorImages(FromMeta(w), FromMeta(MirroredWeights(w)))
<1> DEFINE m == MirroredWeights(w)
<1>1. SUFFICES ASSUME NEW side \in AnySide
      PROVE  /\ \A n : n \notin {"EyeX", "EyeY"} =>
                         At(FromMeta(m), <<n, Other(side)>>) = At(FromMeta(w), <<n, side>>)
             /\ At(FromMeta(m), <<"EyeX", Other(side)>>) = -At(FromMeta(w), <<"EyeX", side>>)
  BY DEF MirrorImages
<1>2. \A n : <<n, Other(side)>> \in Unified <=> <<n, side>> \in Unified
  BY DEF Unified, AnySide, Sides, Other, NoSide
<1>3. \A k : k \notin DOMAIN LookingAway => At(m, <<k, Other(side)>>) = At(w, <<k, side>>)
  BY MirroredAt DEF Exchanged
<1>4. \A s : At(w, s) \in Nat /\ At(m, s) \in Nat
  BY WeightAt, MirroredAreWeights
<1> HIDE DEF m
<1> DEFINE u(n) == At(FromMeta(m), <<n, Other(side)>>)
           v(n) == At(FromMeta(w), <<n, side>>)
<1>shape. \A n : IsMetaShape(m, n, Other(side), u(n)) /\ IsMetaShape(w, n, side, v(n))
  BY MetaShape
<1> HIDE DEF u, v
<1>5. ASSUME NEW n, n \notin {"EyeX", "EyeY"}
      PROVE  u(n) = v(n)
  <2>1. CASE <<n, side>> \notin Unified
    BY <1>2, <2>1, <1>shape DEF IsMetaShape
  <2>2. CASE <<n, side>> \in Unified
    <3>1. CASE n \in DOMAIN MetaSided
      <4>1. Row(MetaSided[n], DOMAIN LookingAway)
        BY <1>5, <3>1, MetaRows
      <4>2. \A k \in DOMAIN MetaSided[n] : At(m, <<k, Other(side)>>) = At(w, <<k, side>>)
        BY <1>3, <4>1 DEF Row
      <4>3. Mix(m, MetaSided[n], Other(side)) = Mix(w, MetaSided[n], side)
        BY <4>2, SameMix
      <4>4. QED
        BY <1>2, <2>2, <3>1, <4>3, <1>shape DEF IsMetaShape
    <3>2. CASE n \in DOMAIN MetaSingle
      <4>1. MetaSingle[n] \notin DOMAIN LookingAway
        BY <3>2 DEF MetaSingle, LookingAway
      <4>2. NoSide \in AnySide /\ Other(NoSide) = NoSide
        BY DEF AnySide, Other, NoSide
      <4>3. At(m, <<MetaSingle[n], NoSide>>) = At(w, <<MetaSingle[n], NoSide>>)
        BY <4>1, <4>2, MirroredAt DEF Exchanged, m
      <4>4. QED
        BY <1>2, <2>2, <3>2, <4>3, <1>shape DEF IsMetaShape
    <3>3. CASE n = "LipSuckUpper"
      <4>1. /\ At(m, <<"UpperLipRaiser", Other(side)>>) = At(w, <<"UpperLipRaiser", side>>)
            /\ At(m, <<"LipSuckT", Other(side)>>) = At(w, <<"LipSuckT", side>>)
        BY <1>3 DEF LookingAway
      <4>2. QED
        BY <1>2, <2>2, <3>3, <4>1, <1>shape DEF IsMetaShape
    <3>4. CASE n = "MouthDimple"
      <4>1. At(m, <<"Dimpler", Other(side)>>) = At(w, <<"Dimpler", side>>)
        BY <1>3 DEF LookingAway
      <4>2. QED
        BY <1>2, <2>2, <3>4, <4>1, <1>shape DEF IsMetaShape
    <3>5. CASE n \notin DOMAIN MetaSided \cup DOMAIN MetaSingle \cup {"EyeY", "LipSuckUpper", "MouthDimple"}
      BY <1>2, <2>2, <3>5, <1>shape DEF IsMetaShape
    <3>6. QED
      BY <1>5, <3>1, <3>2, <3>3, <3>4, <3>5
  <2>3. QED
    BY <2>1, <2>2
<1>6. u("EyeX") = -v("EyeX")
  <2>1. PICK r \in Nat, l \in Nat : r = At(w, <<"EyesLookRight", side>>) /\ l = At(w, <<"EyesLookLeft", side>>)
    BY <1>4
  <2>2. At(m, <<"EyesLookRight", Other(side)>>) = l /\ At(m, <<"EyesLookLeft", Other(side)>>) = r
    BY <2>1, MirroredAt DEF Exchanged, LookingAway, m
  <2>3. Mix(w, MetaSided["EyeX"], side) = Part(100 * r - 100 * l, 100)
    BY <1>4, <2>1, GazeWeights
  <2>4. Mix(m, MetaSided["EyeX"], Other(side)) = Part(100 * l - 100 * r, 100)
    BY <1>4, <2>2, GazeWeights
  <2>5. PICK e \in Int : e = 100 * r - 100 * l
    BY <2>1
  <2>6. 100 * l - 100 * r = -e
    BY <2>1, <2>5
  <2>7. Mix(m, MetaSided["EyeX"], Other(side)) = -Mix(w, MetaSided["EyeX"], side)
    BY <2>3, <2>4, <2>5, <2>6, PartFacts
  <2>8. "EyeX" \in DOMAIN MetaSided
    BY DEF MetaSided
  <2>9. CASE <<"EyeX", side>> \notin Unified
    <3>1. u("EyeX") = 0 /\ v("EyeX") = 0
      BY <1>2, <2>9, <1>shape DEF IsMetaShape
    <3>2. QED
      BY <3>1
  <2>10. CASE <<"EyeX", side>> \in Unified
    <3>1. u("EyeX") = Mix(m, MetaSided["EyeX"], Other(side)) /\ v("EyeX") = Mix(w, MetaSided["EyeX"], side)
      BY <1>2, <2>8, <2>10, <1>shape DEF IsMetaShape
    <3>2. QED
      BY <2>7, <3>1
  <2>11. QED
    BY <2>9, <2>10
<1>7. QED
  BY <1>5, <1>6 DEF u, v, m

\* Settling keeps mirror images what they are, and percents whole.
LEMMA SettledMirrors ==
  ASSUME NEW f, NEW g, IntFace(f), IntFace(g), MirrorImages(f, g)
  PROVE  MirrorImages(Settled(f), Settled(g)) /\ IntFace(Settled(f))
<1> DEFINE squints(h) == [s \in {"EyeSquint"} \X Sides |-> SquintOf(h, s[2])]
<1>1. \A h, s : At(Settled(h), s) = IF s \in {"EyeSquint"} \X Sides THEN SquintOf(h, s[2]) ELSE At(h, s)
  <2>1. SUFFICES ASSUME NEW h, NEW s
        PROVE  At(Settled(h), s) = IF s \in {"EyeSquint"} \X Sides THEN SquintOf(h, s[2]) ELSE At(h, s)
    OBVIOUS
  <2>2. PICK values : values = squints(h)
    OBVIOUS
  <2>3. Settled(h) = With(h, values)
    BY <2>2 DEF Settled
  <2>4. At(Settled(h), s) = IF s \in DOMAIN values THEN values[s] ELSE At(h, s)
    BY <2>3, AtWith
  <2>5. QED
    BY <2>2, <2>4
<1>2. \A side \in AnySide :
        SquintOf(g, Other(side)) = SquintOf(f, side) /\ SquintOf(f, side) \in Int
  BY PiecesMirror
<1>3. \A n, side : At(Settled(f), <<n, side>>)
                     = IF n = "EyeSquint" /\ side \in Sides THEN SquintOf(f, side) ELSE At(f, <<n, side>>)
  BY <1>1
<1>4. \A n, side : At(Settled(g), <<n, side>>)
                     = IF n = "EyeSquint" /\ side \in Sides THEN SquintOf(g, side) ELSE At(g, <<n, side>>)
  BY <1>1
<1>5. \A side \in AnySide : Other(side) \in Sides <=> side \in Sides
  BY DEF AnySide, Sides, Other, NoSide
<1>6. MirrorImages(Settled(f), Settled(g))
  <2>1. SUFFICES ASSUME NEW side \in AnySide
        PROVE  /\ \A n : n \notin {"EyeX", "EyeY"} =>
                           At(Settled(g), <<n, Other(side)>>) = At(Settled(f), <<n, side>>)
               /\ At(Settled(g), <<"EyeX", Other(side)>>) = -At(Settled(f), <<"EyeX", side>>)
    BY DEF MirrorImages
  <2>2. ASSUME NEW n, n \notin {"EyeX", "EyeY"}
        PROVE  At(Settled(g), <<n, Other(side)>>) = At(Settled(f), <<n, side>>)
    <3>1. At(g, <<n, Other(side)>>) = At(f, <<n, side>>)
      BY <2>2 DEF MirrorImages
    <3>2. QED
      BY <1>2, <1>3, <1>4, <1>5, <3>1
  <2>3. At(Settled(g), <<"EyeX", Other(side)>>) = -At(Settled(f), <<"EyeX", side>>)
    BY <1>3, <1>4 DEF MirrorImages
  <2>4. QED
    BY <2>2, <2>3
<1>7. IntFace(Settled(f))
  <2>1. \A side \in Sides : SquintOf(f, side) \in Int
    BY <1>2 DEF AnySide
  <2>2. QED
    BY <1>3, <2>1 DEF IntFace
<1>8. QED
  BY <1>6, <1>7

\* Faces that are mirror images look it, in every shape that is combined from them.
LEMMA ImagesLookMirrored ==
  ASSUME NEW f, NEW g, IntFace(f), MirrorImages(f, g)
  PROVE  LooksMirrored(g, f)
<1>1. ASSUME NEW s \in AllShapes, s[1] \notin {"Ear", "EyeY"}
      PROVE  ShapeOf(g, Mirror(s)) = Sign(s) * ShapeOf(f, s)
  <2>1. Mirror(s) = <<s[1], Other(s[2])>>
    BY DEF Mirror
  <2>2. s = <<s[1], s[2]>> /\ s[2] \in AnySide /\ (Mirror(s) \in Unified <=> s \in Unified)
    <3>1. s \in Unified \cup CombinedShapes
      BY DEF AllShapes
    <3>2. s = <<s[1], s[2]>> /\ s[2] \in AnySide
      BY <3>1 DEF Unified, CombinedShapes, AnySide, Sides
    <3>3. \A n : <<n, Other(s[2])>> \in Unified <=> <<n, s[2]>> \in Unified
      BY <3>2 DEF Unified, AnySide, Sides, Other, NoSide
    <3>4. QED
      BY <2>1, <3>2, <3>3
  <2>3. CASE s \in Unified
    <3>1. ShapeOf(g, Mirror(s)) = At(g, Mirror(s)) /\ ShapeOf(f, s) = At(f, s)
      BY <2>2, <2>3 DEF ShapeOf
    <3>2. s[1] \notin Across
      <4>1. s[1] \in SidedBases \cup SingleBases
        BY <2>3 DEF Unified
      <4>2. QED
        BY <4>1 DEF SidedBases, SingleBases, Across
    <3>3. PICK v \in Int : v = At(f, s)
      BY <2>2 DEF IntFace
    <3>4. CASE s[1] = "EyeX"
      <4>1. Sign(s) = -1
        BY <3>4 DEF Sign
      <4>2. At(g, Mirror(s)) = -v
        BY <2>1, <2>2, <3>3, <3>4 DEF MirrorImages
      <4>3. QED
        BY <3>1, <3>3, <4>1, <4>2
    <3>5. CASE s[1] # "EyeX"
      <4>1. Sign(s) = 1
        BY <3>2, <3>5 DEF Sign
      <4>2. At(g, Mirror(s)) = v
        BY <1>1, <2>1, <2>2, <3>3, <3>5 DEF MirrorImages
      <4>3. QED
        BY <3>1, <3>3, <4>1, <4>2
    <3>6. QED
      BY <3>4, <3>5
  <2>4. CASE s \notin Unified
    <3>1. s \in CombinedShapes
      BY <2>4 DEF AllShapes
    <3>2. ShapeOf(g, Mirror(s)) = Combined(g, s[1], Other(s[2])) /\ ShapeOf(f, s) = Combined(f, s[1], s[2])
      BY <2>1, <2>2, <2>4 DEF ShapeOf
    <3>3. QED
      BY <1>1, <3>1, <3>2, CombinedMirrors
  <2>5. QED
    BY <2>3, <2>4
<1>2. QED
  BY <1>1 DEF LooksMirrored

\* The face of a mirrored user is the mirrored face, ears and vertical gaze apart, for whatever
\* weights Meta reports.
THEOREM FacesMirror ==
  \A w : IsWeights(w) => LooksMirrored(Settled(FromMeta(MirroredWeights(w))), Settled(FromMeta(w)))
  BY MetaIsInt, MetaMirrors, MirroredAreWeights, SettledMirrors, ImagesLookMirrored

\* A face of unified shapes, in whole percents.
GoodFace(f) == DOMAIN f \subseteq Unified /\ IntFace(f)

\* The name and the side of a unified shape, and its mirror image.
LEMMA UnifiedParts ==
  \A s \in Unified : /\ s = <<s[1], s[2]>> /\ s[2] \in AnySide /\ s[1] \notin Across
                     /\ Mirror(s) \in Unified /\ Mirror(Mirror(s)) = s
<1>1. SUFFICES ASSUME NEW s \in Unified
      PROVE  /\ s = <<s[1], s[2]>> /\ s[2] \in AnySide /\ s[1] \notin Across
             /\ Mirror(s) \in Unified /\ Mirror(Mirror(s)) = s
  OBVIOUS
<1>2. s = <<s[1], s[2]>> /\ s[2] \in AnySide
  BY DEF Unified, AnySide
<1>3. s[1] \notin Across
  <2>1. s[1] \in SidedBases \cup SingleBases
    BY DEF Unified
  <2>2. QED
    BY <2>1 DEF SidedBases, SingleBases, Across
<1>4. <<s[1], Other(s[2])>> \in Unified
  BY <1>2 DEF Unified, AnySide, Sides, Other, NoSide
<1>5. QED
  BY <1>2, <1>3, <1>4, OtherSide DEF Mirror

\* A whole face is the mirror image of MirrorOf it.
LEMMA MirrorOfIsImage ==
  ASSUME NEW f, GoodFace(f)
  PROVE  MirrorImages(f, MirrorOf(f)) /\ IntFace(MirrorOf(f))
<1>1. PICK g : g = MirrorOf(f)
  OBVIOUS
<1>2. DOMAIN g = {Mirror(t) : t \in DOMAIN f} /\ \A s \in DOMAIN g : g[s] = Sign(s) * f[Mirror(s)]
  BY <1>1 DEF MirrorOf
<1>3. DOMAIN f \subseteq Unified /\ \A t \in DOMAIN f : f[t] \in Int
  <2>1. DOMAIN f \subseteq Unified
    BY DEF GoodFace
  <2>2. ASSUME NEW t \in DOMAIN f PROVE f[t] \in Int
    <3>1. t = <<t[1], t[2]>>
      BY <2>1, UnifiedParts
    <3>2. At(f, <<t[1], t[2]>>) \in Int
      BY DEF GoodFace, IntFace
    <3>3. QED
      BY <3>1, <3>2 DEF At
  <2>3. QED
    BY <2>1, <2>2
<1>4. ASSUME NEW s \in DOMAIN g
      PROVE  /\ s \in Unified /\ Mirror(s) \in DOMAIN f
             /\ g[s] = IF s[1] = "EyeX" THEN -f[Mirror(s)] ELSE f[Mirror(s)]
  <2>1. PICK t \in DOMAIN f : s = Mirror(t)
    BY <1>2
  <2>2. s \in Unified /\ Mirror(s) = t
    BY <1>3, <2>1, UnifiedParts
  <2>3. s[1] \notin Across
    BY <2>2, UnifiedParts
  <2>4. g[s] = Sign(s) * f[Mirror(s)] /\ f[Mirror(s)] \in Int
    BY <1>2, <1>3, <2>2
  <2>5. QED
    BY <2>2, <2>3, <2>4 DEF Sign
<1>5. IntFace(g)
  <2>1. ASSUME NEW s \in DOMAIN g PROVE g[s] \in Int
    BY <1>3, <1>4
  <2>2. QED
    BY <2>1 DEF IntFace, At
<1>6. MirrorImages(f, g)
  <2>1. SUFFICES ASSUME NEW side \in AnySide, NEW n
        PROVE  At(g, <<n, Other(side)>>) = IF n = "EyeX" THEN -At(f, <<n, side>>) ELSE At(f, <<n, side>>)
    BY DEF MirrorImages
  <2>2. PICK s, m : s = <<n, side>> /\ m = <<n, Other(side)>>
    OBVIOUS
  <2>3. Mirror(s) = m /\ Mirror(m) = s /\ m[1] = n
    BY <2>2, OtherSide DEF Mirror
  <2>4. CASE m \in DOMAIN g
    BY <1>4, <2>2, <2>3, <2>4 DEF At
  <2>5. CASE m \notin DOMAIN g
    <3>1. s \notin DOMAIN f
      BY <1>2, <2>3, <2>5
    <3>2. At(g, m) = 0 /\ At(f, s) = 0
      BY <2>5, <3>1 DEF At
    <3>3. \A z \in Int : -z \in Int /\ z + (-z) = 0
      OBVIOUS
    <3>4. PICK u : u = -At(f, s)
      OBVIOUS
    <3>5. u \in Int /\ 0 + u = 0
      <4>1. At(f, s) \in Int
        BY <3>2
      <4>2. u \in Int /\ At(f, s) + u = 0
        BY <3>3, <3>4, <4>1
      <4>3. QED
        BY <3>2, <4>2
    <3>6. u = 0
      BY <3>5
    <3>7. QED
      BY <2>2, <3>2, <3>4, <3>6
  <2>6. QED
    BY <2>4, <2>5
<1>7. QED
  BY <1>1, <1>5, <1>6

\* New values give no face a shape of another kind.
LEMMA WithDomain ==
  ASSUME NEW f, NEW values
  PROVE  DOMAIN With(f, values) \subseteq DOMAIN f \cup DOMAIN values
  BY DEF With, Over, RestrictValues, Restrict

\* A face to start from.
LEMMA NeutralIsGood == GoodFace(Neutral)
  BY DEF GoodFace, IntFace, At, Neutral

\* Settling keeps a face what it should be.
LEMMA SettledIsGood ==
  ASSUME NEW f, GoodFace(f)
  PROVE  GoodFace(Settled(f))
<1>1. IntFace(Settled(f))
  BY MirrorOfIsImage, SettledMirrors DEF GoodFace
<1>2. PICK values : values = [s \in {"EyeSquint"} \X Sides |-> SquintOf(f, s[2])]
  OBVIOUS
<1>3. Settled(f) = With(f, values)
  BY <1>2 DEF Settled
<1>4. DOMAIN values \subseteq Unified
  BY <1>2 DEF Unified, SidedBases, Sides
<1>5. QED
  BY <1>1, <1>3, <1>4, WithDomain DEF GoodFace

\* A face that is made from weights is what it should be.
LEMMA MetaIsGood ==
  ASSUME NEW w, IsWeights(w)
  PROVE  GoodFace(FromMeta(w))
<1>1. IntFace(FromMeta(w))
  BY MetaIsInt
<1>2. DOMAIN FromMeta(w) \subseteq Unified
  BY DEF FromMeta, With, Over, RestrictValues, Restrict, Neutral
<1>3. QED
  BY <1>1, <1>2 DEF GoodFace

\* What an OpenXR frame makes of a face and of its mirror image are mirror images.
LEMMA FramesMirror ==
  ASSUME NEW in \in XrInputs, NEW f, NEW g, GoodFace(f), IntFace(g), MirrorImages(f, g)
  PROVE  /\ GoodFace(XrFace(f, in, MetaFaces)) /\ IntFace(XrFace(g, in, MirroredMetaFaces))
         /\ MirrorImages(XrFace(f, in, MetaFaces), XrFace(g, in, MirroredMetaFaces))
<1>1. PICK x, y : x = XrFace(f, in, MetaFaces) /\ y = XrFace(g, in, MirroredMetaFaces)
  OBVIOUS
<1>2. CASE Reported(in)
  <2>1. in.weights \in DOMAIN Weights
    BY <1>2 DEF XrInputs, NoInput, Reported
  <2>2. PICK w : w = Weights[in.weights]
    OBVIOUS
  <2>3. IsWeights(w)
    BY <2>1, <2>2, InputsAssumption DEF IsWeights, AnySide
  <2>4. x = FromMeta(w) /\ y = FromMeta(MirroredWeights(w))
    BY <1>1, <1>2, <2>1, <2>2 DEF XrFace, MetaFaces, MirroredMetaFaces
  <2>5. QED
    BY <1>1, <2>3, <2>4, MetaIsGood, MetaIsInt, MetaMirrors, MirroredAreWeights
<1>3. CASE ~Reported(in) /\ Looked(in)
  <2>1. PICK closed : closed = IF BlinkNow(in) > 0 THEN 100 ELSE Gazes[in.gaze]
    OBVIOUS
  <2>2. closed \in Int
    <3>1. in.gaze \in DOMAIN Gazes
      BY <1>3 DEF XrInputs, NoInput, Looked
    <3>2. QED
      BY <2>1, <3>1, InputsAssumption
  <2>3. PICK lids : lids = [s \in {"EyeClosed"} \X Sides |-> closed]
    OBVIOUS
  <2>4. x = With(f, lids) /\ y = With(g, lids)
    BY <1>1, <1>3, <2>1, <2>3 DEF XrFace
  <2>5. ASSUME NEW n, NEW side
        PROVE  /\ At(x, <<n, side>>) = IF n = "EyeClosed" /\ side \in Sides THEN closed ELSE At(f, <<n, side>>)
               /\ At(y, <<n, side>>) = IF n = "EyeClosed" /\ side \in Sides THEN closed ELSE At(g, <<n, side>>)
    <3>1. PICK s : s = <<n, side>>
      OBVIOUS
    <3>2. (s \in DOMAIN lids <=> n = "EyeClosed" /\ side \in Sides) /\ (s \in DOMAIN lids => lids[s] = closed)
      BY <2>3, <3>1
    <3>3. /\ At(x, s) = IF s \in DOMAIN lids THEN lids[s] ELSE At(f, s)
          /\ At(y, s) = IF s \in DOMAIN lids THEN lids[s] ELSE At(g, s)
      BY <2>4, AtWith
    <3>4. QED
      BY <3>1, <3>2, <3>3
  <2>6. \A n, side : /\ At(x, <<n, side>>) = IF n = "EyeClosed" /\ side \in Sides THEN closed ELSE At(f, <<n, side>>)
                     /\ At(y, <<n, side>>) = IF n = "EyeClosed" /\ side \in Sides THEN closed ELSE At(g, <<n, side>>)
    BY <2>5
  <2>7. IntFace(x) /\ IntFace(y)
    BY <2>2, <2>6 DEF IntFace, GoodFace
  <2>8. \A side \in AnySide : Other(side) \in Sides <=> side \in Sides
    BY DEF AnySide, Sides, Other, NoSide
  <2>9. MirrorImages(x, y)
    <3>1. SUFFICES ASSUME NEW side \in AnySide
          PROVE  /\ \A n : n \notin {"EyeX", "EyeY"} => At(y, <<n, Other(side)>>) = At(x, <<n, side>>)
                 /\ At(y, <<"EyeX", Other(side)>>) = -At(x, <<"EyeX", side>>)
      BY DEF MirrorImages
    <3>2. /\ \A n : n \notin {"EyeX", "EyeY"} => At(g, <<n, Other(side)>>) = At(f, <<n, side>>)
          /\ At(g, <<"EyeX", Other(side)>>) = -At(f, <<"EyeX", side>>)
      BY DEF MirrorImages
    <3>3. ASSUME NEW n, n \notin {"EyeX", "EyeY"} PROVE At(y, <<n, Other(side)>>) = At(x, <<n, side>>)
      BY <2>6, <2>8, <3>2, <3>3
    <3>4. At(y, <<"EyeX", Other(side)>>) = -At(x, <<"EyeX", side>>)
      BY <2>6, <3>2
    <3>5. QED
      BY <3>3, <3>4
  <2>10. DOMAIN lids \subseteq Unified
    BY <2>3 DEF Unified, SidedBases, Sides
  <2>11. DOMAIN x \subseteq Unified
    BY <2>4, <2>10, WithDomain DEF GoodFace
  <2>12. QED
    BY <1>1, <2>7, <2>9, <2>11 DEF GoodFace
<1>4. CASE ~Reported(in) /\ ~Looked(in)
  BY <1>4 DEF XrFace, GoodFace
<1>5. QED
  BY <1>2, <1>3, <1>4

\* The face of an OpenXR source has unified shapes, in whole percents.
FaceKnown ==
  /\ pc = "off" => face = Neutral
  /\ cfg.face.source # "babble" => GoodFace(face)

\* What a frame of OpenXR leaves of the face: it is tracked only by XrFace.
LEMMA OpenXrFace ==
  ASSUME NEW in
  PROVE  \/ OpenXr(in).face = XrFace(face, in, MetaFaces)
         \/ OpenXr(in).face = face /\ OpenXr(in).active = FALSE
<1>1. PICK x : x = XrFace(face, in, MetaFaces)
  OBVIOUS
<1>2. XrFrame(in).face = x
  BY <1>1 DEF XrFrame
<1>3. QED
  BY <1>1, <1>2 DEF OpenXr

\* A frame leaves a face that is what it should be, and a tracked one is that of XrFace, settled.
LEMMA FrameKnown ==
  ASSUME FaceKnown, cfg.face.source # "babble", NEW in \in XrInputs, NEW lost, Frame(in, lost)
  PROVE  GoodFace(face') /\ (lastActive' => face' = Settled(XrFace(face, in, MetaFaces)))
<1>1. PICK got, seen, x : got = OpenXr(in) /\ seen = FaceSeen(got) /\ x = XrFace(face, in, MetaFaces)
  OBVIOUS
<1>2. got = Receive(in)
  BY <1>1 DEF Receive
<1>3. lastActive' = got.active /\ (face' = Settled(seen) \/ face' = seen) /\ (got.active => face' = Settled(seen))
  BY <1>1, <1>2, Zenon DEF Frame
<1>4. GoodFace(face)
  BY DEF FaceKnown
<1>5. GoodFace(x)
  BY <1>1, <1>4, FramesMirror, MirrorOfIsImage
<1>6. got.face = x \/ (got.face = face /\ got.active = FALSE)
  BY <1>1, OpenXrFace
<1>7. seen = got.face \/ (seen = Neutral /\ ~got.active)
  BY <1>1 DEF FaceSeen
<1>8. GoodFace(seen)
  BY <1>4, <1>5, <1>6, <1>7, NeutralIsGood
<1>9. PICK f : f = face'
  OBVIOUS
<1>10. GoodFace(f)
  BY <1>3, <1>8, <1>9, SettledIsGood
<1>11. got.active => seen = x
  BY <1>6, <1>7
<1>12. QED
  BY <1>1, <1>3, <1>9, <1>10, <1>11 DEF GoodFace, IntFace

\* The face is always what it should be.
LEMMA FaceInvariance == Spec => []FaceKnown
<1>1. Init => FaceKnown
  BY NeutralIsGood DEF Init, FaceKnown
<1>2. FaceKnown /\ [Next]_vars => FaceKnown'
  <2> SUFFICES ASSUME FaceKnown, [Next]_vars PROVE FaceKnown'
    OBVIOUS
  <2>1. CASE Start
    <3>1. pc' # "off" /\ face' = Neutral
      BY <2>1 DEF Start, data, FaceKnown
    <3>2. QED
      BY <3>1, NeutralIsGood DEF FaceKnown
  <2>2. ASSUME pc' # "off", face' \in {face, Neutral}, cfg' = cfg PROVE FaceKnown'
    BY <2>2, NeutralIsGood DEF FaceKnown
  <2>3. CASE Fail
    BY <2>2, <2>3 DEF Fail
  <2>4. ASSUME NEW fetched \in BOOLEAN, NEW note \in BOOLEAN, NEW vsync \in BOOLEAN, Listen(fetched, note, vsync)
        PROVE  FaceKnown'
    <3>1. pc' # "off" /\ face' = face /\ cfg' = cfg
      BY <2>4 DEF Listen, data
    <3>2. QED
      BY <2>2, <3>1
  <2>5. ASSUME NEW in \in Inputs, NEW lost \in BOOLEAN, Frame(in, lost)
        PROVE  FaceKnown'
    <3>1. pc' = "listen" /\ cfg' = cfg
      BY <2>5 DEF Frame
    <3>2. CASE cfg.face.source = "babble"
      BY <3>1, <3>2 DEF FaceKnown
    <3>3. CASE cfg.face.source # "babble"
      <4>1. in \in XrInputs
        BY <2>5, <3>3 DEF Inputs
      <4>2. GoodFace(face')
        BY <2>5, <3>3, <4>1, FrameKnown
      <4>3. QED
        BY <3>1, <4>2 DEF FaceKnown
    <3>4. QED
      BY <3>2, <3>3
  <2>6. ASSUME NEW lost \in BOOLEAN, Shutdown(lost)
        PROVE  FaceKnown'
    <3>1. pc' # "off" /\ face' \in {face, Neutral} /\ cfg' = cfg
      BY <2>6 DEF Shutdown
    <3>2. QED
      BY <2>2, <3>1
  <2>7. ASSUME pc' = pc, face' = face, cfg' = cfg PROVE FaceKnown'
    BY <2>7 DEF FaceKnown
  <2>8. CASE Tick \/ Publish \/ UNCHANGED vars
    BY <2>7, <2>8 DEF Tick, Publish, vars, data
  <2>9. ASSUME NEW a \in DOMAIN Avatars, ChangeAvatar(a)
        PROVE  FaceKnown'
    BY <2>7, <2>9 DEF ChangeAvatar, data
  <2>10. QED
    BY <2>1, <2>3, <2>4, <2>5, <2>6, <2>8, <2>9 DEF Next
<1>3. QED
  BY <1>1, <1>2, PTL DEF Spec

\* A frame keeps what it shows of a user and of the mirrored user mirror images.
LEMMA StepMirrors ==
  ASSUME FaceKnown, cfg.face.source = "openxr", lastActive', NEW in \in XrInputs, NEW lost, Frame(in, lost)
  PROVE  LooksMirrored(Settled(XrFace(MirrorOf(face), in, MirroredMetaFaces)), face')
<1>1. PICK f, g : f = XrFace(face, in, MetaFaces) /\ g = XrFace(MirrorOf(face), in, MirroredMetaFaces)
  OBVIOUS
<1>2. GoodFace(face) /\ face' = Settled(f)
  BY <1>1, FrameKnown DEF FaceKnown
<1>3. GoodFace(f) /\ IntFace(g) /\ MirrorImages(f, g)
  BY <1>1, <1>2, MirrorOfIsImage, FramesMirror
<1>4. LooksMirrored(Settled(g), Settled(f))
  BY <1>3, SettledMirrors, ImagesLookMirrored DEF GoodFace
<1>5. QED
  BY <1>1, <1>2, <1>4 DEF LooksMirrored

\* With OpenXR the face of a mirrored user stays the mirrored face, ears and vertical gaze apart,
\* whatever weights and gazes come and go (XrState::receive, face2_fb, calc_combined).
THEOREM StepsMirror == Spec => MirroredFaces
<1> DEFINE Mirrored ==
      cfg.face.source = "openxr" /\ pc = "frame" /\ lastActive' =>
        LET taken == {in \in XrInputs : \E lost \in BOOLEAN : Frame(in, lost)} IN
        \A g \in {Settled(XrFace(MirrorOf(face), in, MirroredMetaFaces)) : in \in taken} :
          LooksMirrored(g, face')
<1>1. FaceKnown => Mirrored
  <2> SUFFICES ASSUME FaceKnown, cfg.face.source = "openxr", lastActive',
                      NEW in \in XrInputs, NEW lost \in BOOLEAN, Frame(in, lost)
               PROVE  LooksMirrored(Settled(XrFace(MirrorOf(face), in, MirroredMetaFaces)), face')
    OBVIOUS
  <2> QED
    BY StepMirrors
<1>2. QED
  BY <1>1, FaceInvariance, PTL DEF Spec, MirroredFaces

-----------------------------------------------------------------------------
(***************************************************************************)
(* The command line.                                                       *)
(***************************************************************************)
\* While the relay is off, what the server is started with is still known.
LaunchKnown == pc = "off" => launch \in Launches

\* Only starting leaves "off", and nothing returns to it.
LEMMA LaunchInvariance == Spec => []LaunchKnown
<1>1. Init => LaunchKnown
  BY DEF Init, LaunchKnown
<1>2. LaunchKnown /\ [Next]_vars => LaunchKnown'
  <2> SUFFICES ASSUME LaunchKnown, [Next]_vars PROVE LaunchKnown'
    OBVIOUS
  <2> USE DEF LaunchKnown
  <2>1. CASE Start
    BY <2>1 DEF Start
  <2>2. CASE Fail
    BY <2>2 DEF Fail
  <2>3. ASSUME NEW fetched \in BOOLEAN, NEW note \in BOOLEAN, NEW vsync \in BOOLEAN, Listen(fetched, note, vsync)
        PROVE  LaunchKnown'
    BY <2>3 DEF Listen
  <2>4. ASSUME NEW in, NEW lost \in BOOLEAN, Frame(in, lost)
        PROVE  LaunchKnown'
    BY <2>4 DEF Frame
  <2>5. ASSUME NEW lost \in BOOLEAN, Shutdown(lost)
        PROVE  LaunchKnown'
    BY <2>5 DEF Shutdown
  <2>6. CASE Tick
    BY <2>6 DEF Tick
  <2>7. CASE Publish
    BY <2>7 DEF Publish
  <2>8. ASSUME NEW a \in DOMAIN Avatars, ChangeAvatar(a)
        PROVE  LaunchKnown'
    BY <2>8 DEF ChangeAvatar
  <2>9. CASE UNCHANGED vars
    BY <2>9 DEF vars
  <2>10. QED
    BY <2>1, <2>2, <2>3, <2>4, <2>5, <2>6, <2>7, <2>8, <2>9 DEF Next
<1>3. QED
  BY <1>1, <1>2, PTL DEF Spec

\* The command line's own settings are those of the configuration, and the settings about the
\* face are those of FaceFlagsOf.
LEMMA CliIsLast ==
  ASSUME NEW file, NEW cli
  PROVE  LET c == Resolved(file, cli)
             f == ApplyFile(Defaults, file)
         IN
         /\ \A n \in DOMAIN Defaults \ {"assignments", "face"} :
              c[n] = IF n \in {"trackerPort", "timing", "tracking", "solarxr", "feeder", "control", "haritorax"}
                          /\ n \in DOMAIN cli
                     THEN cli[n] ELSE f[n]
         /\ c.face = FaceFlagsOf(f.face, cli)
         /\ f.face = IF "face" \in DOMAIN file THEN Over(file.face, FaceDefaults) ELSE FaceDefaults
<1> DEFINE f == ApplyFile(Defaults, file)
           names == {"trackerPort", "timing", "tracking", "solarxr", "feeder", "control", "haritorax"}
           c == ApplyCli(f, cli)
<1>1. {"face", "assignments"} \cup names \cup {"baudRate"} = DOMAIN Defaults
  BY DEF Defaults
<1>2. DOMAIN f = DOMAIN Over(Picked(file, DOMAIN Defaults \ {"face", "assignments"}), Defaults)
  BY DEF ApplyFile
<1>3. DOMAIN Defaults \subseteq DOMAIN f
  BY <1>2 DEF Over
<1>4. "face" \in DOMAIN f /\ "assignments" \in DOMAIN f
  BY <1>1, <1>3
<1>5. f.face = IF "face" \in DOMAIN file THEN Over(file.face, FaceDefaults) ELSE FaceDefaults
  BY <1>2, <1>4 DEF ApplyFile
<1> HIDE DEF f
<1>6. \A n \in DOMAIN f \ {"assignments", "face"} : c[n] = Over(Picked(cli, names), f)[n]
  BY DEF ApplyCli, Over
<1>7. c.face = FaceFlagsOf(f.face, cli)
  BY <1>4 DEF ApplyCli, Over
<1>8. \A n \in DOMAIN f : Over(Picked(cli, names), f)[n] = IF n \in names /\ n \in DOMAIN cli THEN cli[n] ELSE f[n]
  BY DEF Over, Picked
<1>9. c = Resolved(file, cli)
  BY DEF Resolved, f
<1> HIDE DEF c
<1>10. QED
  BY <1>1, <1>3, <1>5, <1>6, <1>7, <1>8, <1>9 DEF f

\* f has what the command line says of the face, and otherwise what face0 has.
FaceAsked(f, face0, cli) ==
  /\ f.enabled = ((face0.enabled \/ "source" \in DOMAIN cli) /\ "noFace" \notin DOMAIN cli)
  /\ f.sheet = ("sheet" \in DOMAIN cli
                \/ (face0.sheet /\ ~("output" \in DOMAIN cli /\ cli.output = "unift")))
  /\ f.avatar = (face0.avatar /\ ~("output" \in DOMAIN cli /\ cli.output = "unift")
                 /\ "sheet" \notin DOMAIN cli)
  /\ \A n \in DOMAIN face0 \ {"enabled", "sheet", "avatar"} :
       f[n] = IF n \in {"source", "destination", "output"} /\ n \in DOMAIN cli THEN cli[n] ELSE face0[n]
  /\ \A n \in {"source", "destination", "output"} : n \in DOMAIN cli => f[n] = cli[n]

\* That is what the flags do.
LEMMA FaceSettings ==
  ASSUME NEW face0, NEW cli, {"enabled", "sheet", "avatar", "output"} \subseteq DOMAIN face0
  PROVE  FaceAsked(FaceFlagsOf(face0, cli), face0, cli)
<1> DEFINE names == {"source", "destination", "output"}
           over == Over(Picked(cli, names), face0)
           given(n) == n \in DOMAIN cli
           unift == given("output") /\ cli.output = "unift"
           g == [over EXCEPT !.enabled = (face0.enabled \/ given("source")) /\ ~given("noFace"),
                             !.sheet = given("sheet") \/ (face0.sheet /\ ~unift),
                             !.avatar = face0.avatar /\ ~unift /\ ~given("sheet")]
<1>1. PICK f : f = FaceFlagsOf(face0, cli) /\ f = g
  BY DEF FaceFlagsOf
<1>2. /\ DOMAIN over = (names \cap DOMAIN cli) \cup DOMAIN face0
      /\ \A n \in DOMAIN over : over[n] = IF n \in names /\ n \in DOMAIN cli THEN cli[n] ELSE face0[n]
  BY DEF Over, Picked
<1> HIDE DEF over
<1>3. /\ \A n \in names : n \in DOMAIN cli => f[n] = cli[n]
      /\ \A n \in DOMAIN face0 \ {"enabled", "sheet", "avatar"} :
           f[n] = IF n \in names /\ n \in DOMAIN cli THEN cli[n] ELSE face0[n]
  BY <1>1, <1>2
<1>4. /\ f.enabled = ((face0.enabled \/ given("source")) /\ ~given("noFace"))
      /\ f.sheet = (given("sheet") \/ (face0.sheet /\ ~unift))
      /\ f.avatar = (face0.avatar /\ ~unift /\ ~given("sheet"))
  BY <1>1, <1>2
<1>5. QED
  BY <1>1, <1>3, <1>4 DEF FaceAsked

\* An output and a sheet asked for on the command line replace the mapping of the file.
MappingAsked(cli, output) ==
  /\ DOMAIN cli \subseteq {"output", "sheet"}
  /\ IF "sheet" \in DOMAIN cli THEN ValidSheet(Sheet) /\ output # "unift"
     ELSE "output" \in DOMAIN cli /\ cli.output = "unift"

\* Then they are accepted, with whatever valid file.
LEMMA MappingIsAccepted ==
  ASSUME NEW file, NEW cli, ConfigValid(ApplyFile(Defaults, file)),
         MappingAsked(cli, Resolved(file, cli).face.output)
  PROVE  LET c == Resolved(file, cli) IN
         ConfigValid(c) /\ Load(c.face, Sheet, Tree) # {}
<1> DEFINE c == Resolved(file, cli)
           f == ApplyFile(Defaults, file)
           same == {"trackerPort", "timing", "tracking", "baudRate", "control", "solarxr", "feeder"}
<1>1. DOMAIN cli \subseteq {"output", "sheet"}
  BY DEF MappingAsked
<1>2. same \subseteq DOMAIN Defaults \ {"assignments", "face"}
  BY DEF Defaults
<1>3. c.face = FaceFlagsOf(f.face, cli) /\ \A n \in same : c[n] = f[n]
  BY <1>1, <1>2, CliIsLast
<1>4. f.face = IF "face" \in DOMAIN file THEN Over(file.face, FaceDefaults) ELSE FaceDefaults
  BY CliIsLast
<1>5. DOMAIN FaceDefaults \subseteq DOMAIN f.face
  BY <1>4 DEF Over
<1>6. DOMAIN FaceDefaults
      = {"enabled", "source", "destination", "oscPort", "babblePort", "avatar", "oscQuery", "output", "sheet"}
  BY DEF FaceDefaults
<1>7. ConfigValid(f) /\ MappingAsked(cli, c.face.output)
  OBVIOUS
<1> HIDE DEF f, c
<1>8. PICK face0 : face0 = f.face
  OBVIOUS
<1>9. PICK g : g = FaceFlagsOf(face0, cli) /\ g = c.face
  BY <1>3, <1>8
<1>10. {"enabled", "sheet", "avatar", "output"} \subseteq DOMAIN face0
  BY <1>5, <1>6, <1>8
<1>11. MappingAsked(cli, g.output)
  BY <1>7, <1>9
<1>12. FaceAsked(g, face0, cli)
  BY <1>9, <1>10, FaceSettings
<1>13. /\ g.avatar = FALSE
       /\ \/ g.sheet = TRUE /\ ValidSheet(Sheet) /\ g.output # "unift"
          \/ g.sheet = FALSE /\ g.output = "unift"
       /\ g.enabled <=> face0.enabled
       /\ \A n \in DOMAIN face0 \ {"enabled", "sheet", "avatar", "output"} : g[n] = face0[n]
  <2>1. /\ g.enabled <=> face0.enabled
        /\ \A n \in DOMAIN face0 \ {"enabled", "sheet", "avatar", "output"} : g[n] = face0[n]
    BY <1>1, <1>12 DEF FaceAsked
  <2>2. CASE "sheet" \in DOMAIN cli
    <3>1. g.avatar = FALSE /\ g.sheet = TRUE
      BY <1>12, <2>2 DEF FaceAsked
    <3>2. ValidSheet(Sheet) /\ g.output # "unift"
      BY <1>11, <2>2 DEF MappingAsked
    <3>3. QED
      BY <2>1, <3>1, <3>2
  <2>3. CASE "sheet" \notin DOMAIN cli
    <3>1. "output" \in DOMAIN cli /\ cli.output = "unift"
      BY <1>11, <2>3 DEF MappingAsked
    <3>2. g.avatar = FALSE /\ g.sheet = FALSE /\ g.output = "unift"
      BY <1>12, <2>3, <3>1 DEF FaceAsked
    <3>3. QED
      BY <2>1, <3>2
  <2>4. QED
    BY <2>2, <2>3
<1>14. /\ g.source = face0.source /\ g.destination = face0.destination
       /\ g.oscPort = face0.oscPort /\ g.babblePort = face0.babblePort
  BY <1>5, <1>6, <1>8, <1>13
<1>15. FaceInputs(g) = FaceInputs(face0)
  BY <1>14 DEF FaceInputs
<1>16. FaceValid(face0) => FaceValid(g)
  BY <1>13, <1>14, <1>15 DEF FaceValid
<1>17. c.face = g
  BY <1>9
<1>18. /\ c.trackerPort = f.trackerPort /\ c.timing = f.timing /\ c.tracking = f.tracking
       /\ c.baudRate = f.baudRate /\ c.control = f.control /\ c.solarxr = f.solarxr
       /\ c.feeder = f.feeder
  BY <1>3
<1>19. ConfigValid(c)
  <2>1. /\ f.baudRate \in 1..HighestBaudRate /\ f.timing > 0 /\ f.tracking \in 0..2
        /\ f.control \notin {f.solarxr, f.feeder}
    BY <1>7, Zenon DEF ConfigValid
  <2>2. f.face.enabled => FaceValid(f.face) /\ f.trackerPort \notin FaceInputs(f.face)
    BY <1>7, Zenon DEF ConfigValid
  <2>3. g.enabled => FaceValid(g) /\ f.trackerPort \notin FaceInputs(g)
    BY <1>8, <1>13, <1>15, <1>16, <2>2
  <2>4. /\ c.baudRate \in 1..HighestBaudRate /\ c.timing > 0 /\ c.tracking \in 0..2
        /\ c.control \notin {c.solarxr, c.feeder}
    BY <1>18, <2>1
  <2>5. c.face.enabled => FaceValid(c.face) /\ c.trackerPort \notin FaceInputs(c.face)
    BY <1>17, <1>18, <2>3
  <2>6. QED
    BY <2>4, <2>5, Zenon DEF ConfigValid
<1>20. Load(g, Sheet, Tree) # {}
  BY <1>13 DEF Load
<1>21. QED
  BY <1>17, <1>19, <1>20 DEF c

\* What is asked for is in force when the server starts, in one step.
LEMMA StartObeys == LaunchKnown /\ Start => CommandLineStep
<1> SUFFICES ASSUME LaunchKnown, Start PROVE CommandLineStep
  OBVIOUS
<1>1. PICK file, cli, c, f : /\ file = launch.file /\ cli = launch.cli
                             /\ c = Resolved(file, cli) /\ f = ApplyFile(Defaults, file)
  OBVIOUS
<1>2. /\ pc = "off" /\ cfg' = c
      /\ \/ /\ ~ConfigValid(c) \/ (c.face.enabled /\ Load(c.face, Sheet, Tree) = {})
            /\ pc' = "refused"
         \/ /\ ConfigValid(c) /\ ~(c.face.enabled /\ Load(c.face, Sheet, Tree) = {})
            /\ ~c.face.enabled /\ pc' = "disabled"
         \/ /\ ConfigValid(c) /\ c.face.enabled /\ pc' = "listen"
  BY <1>1 DEF Start
<1>3. "sheet" \in DOMAIN cli => cli.sheet = TRUE
  BY <1>1, <1>2, InputsAssumption DEF LaunchKnown
<1>4. /\ \A n \in DOMAIN Defaults \ {"assignments", "face"} :
           c[n] = IF n \in {"trackerPort", "timing", "tracking", "solarxr", "feeder", "control", "haritorax"}
                       /\ n \in DOMAIN cli
                  THEN cli[n] ELSE f[n]
      /\ c.face = FaceFlagsOf(f.face, cli)
      /\ f.face = IF "face" \in DOMAIN file THEN Over(file.face, FaceDefaults) ELSE FaceDefaults
  BY <1>1, CliIsLast
<1>5. {"trackerPort", "control"} \subseteq DOMAIN Defaults \ {"assignments", "face"}
  BY DEF Defaults
<1>6. \A n \in {"trackerPort", "control"} : n \in DOMAIN cli => c[n] = cli[n]
  BY <1>4, <1>5
<1>7. {"enabled", "sheet", "avatar", "output"} \subseteq DOMAIN f.face
  <2>1. {"enabled", "sheet", "avatar", "output"} \subseteq DOMAIN FaceDefaults
    BY DEF FaceDefaults
  <2>2. QED
    BY <1>4, <2>1 DEF Over
<1>8. PICK face0, g : face0 = f.face /\ g = FaceFlagsOf(face0, cli)
  OBVIOUS
<1>9. g = c.face /\ {"enabled", "sheet", "avatar", "output"} \subseteq DOMAIN face0
  BY <1>4, <1>7, <1>8
<1>10. FaceAsked(g, face0, cli)
  BY <1>8, <1>9, FaceSettings
<1>11. /\ \A n \in {"source", "destination", "output"} : n \in DOMAIN cli => g[n] = cli[n]
       /\ "sheet" \in DOMAIN cli => g.sheet = TRUE
       /\ "noFace" \in DOMAIN cli => g.enabled = FALSE
       /\ "source" \in DOMAIN cli /\ "noFace" \notin DOMAIN cli => g.enabled = TRUE
  BY <1>10 DEF FaceAsked
<1>12. /\ \A n \in {"source", "destination", "output"} : n \in DOMAIN cli => c.face[n] = cli[n]
       /\ "sheet" \in DOMAIN cli => c.face.sheet = TRUE
       /\ "noFace" \in DOMAIN cli => c.face.enabled = FALSE
       /\ "source" \in DOMAIN cli /\ "noFace" \notin DOMAIN cli => c.face.enabled = TRUE
  BY <1>9, <1>11
<1>13. ASSUME pc' # "refused"
       PROVE  /\ "noFace" \in DOMAIN cli => pc' = "disabled"
              /\ "source" \in DOMAIN cli /\ "noFace" \notin DOMAIN cli => pc' = "listen"
  BY <1>2, <1>12, <1>13
<1>14. \A n \in {"source", "destination", "output", "sheet"} : n \in DOMAIN cli => c.face[n] = cli[n]
  BY <1>3, <1>12
<1>15. pc' = "listen" => c.face.destination \notin FaceInputs(c.face) /\ c.trackerPort \notin FaceInputs(c.face)
  <2>1. pc' = "listen" => ConfigValid(c) /\ c.face.enabled
    BY <1>2
  <2>2. ConfigValid(c) /\ c.face.enabled => FaceValid(c.face) /\ c.trackerPort \notin FaceInputs(c.face)
    BY Zenon DEF ConfigValid
  <2>3. FaceValid(c.face) => c.face.destination \notin FaceInputs(c.face)
    BY Zenon DEF FaceValid
  <2>4. QED
    BY <2>1, <2>2, <2>3
<1>16. MappingAsked(cli, c.face.output) /\ ConfigValid(f) => ConfigValid(c) /\ Load(c.face, Sheet, Tree) # {}
  BY <1>1, MappingIsAccepted
<1>17. MappingAsked(cli, cfg'.face.output) /\ ConfigValid(f) => pc' # "refused"
  BY <1>2, <1>16
<1>18. (/\ DOMAIN cli \subseteq {"output", "sheet"} /\ ConfigValid(f)
        /\ IF "sheet" \in DOMAIN cli THEN ValidSheet(Sheet) /\ cfg'.face.output # "unift"
           ELSE "output" \in DOMAIN cli /\ cli.output = "unift") => pc' # "refused"
  BY <1>17, Zenon DEF MappingAsked
<1>19. QED
  BY <1>1, <1>2, <1>6, <1>13, <1>14, <1>15, <1>18 DEF CommandLineStep

\* What the command line asks for is in force, or the server refuses to start; and UniFT, or a
\* good sheet for an output that takes one, replaces the mapping of any valid file (Config::load).
THEOREM CommandLineInForce == Spec => CommandLineWins
<1>1. LaunchKnown /\ [Next]_vars => (CommandLineStep \/ UNCHANGED vars)
  <2> SUFFICES ASSUME LaunchKnown, Next, pc = "off" PROVE CommandLineStep
    BY DEF CommandLineStep
  <2>1. Start
    BY DEF Next, Fail, Listen, Frame, Shutdown, Tick, ChangeAvatar, Publish
  <2>2. QED
    BY <2>1, StartObeys
<1>2. QED
  BY <1>1, LaunchInvariance, PTL DEF Spec, CommandLineWins

-----------------------------------------------------------------------------
(***************************************************************************)
(* The routes of an output.                                                *)
(***************************************************************************)
\* No two send to the same address, and each is for a shape or a flag, or one part of it.
GoodRoutes(routes) ==
  /\ \A r, q \in routes : r.at = q.at => r = q
  /\ \A r \in routes : r.shape \in AllShapes \cup Flags /\ r.part \in {Value, Negative} \cup Bits /\ r.bits \in 0..7

\* An encoding has at most seven bits.
LEMMA BitsAreFew == \A leaves : BitsOf(leaves) \in 0..7
<1>1. \A b \in Bits : \E n \in 1..7 : 2^(n - 1) = b
  <2>1. 2^0 = 1 /\ 2^1 = 2 /\ 2^2 = 4 /\ 2^3 = 8 /\ 2^4 = 16 /\ 2^5 = 32 /\ 2^6 = 64
    OBVIOUS
  <2>2. SUFFICES ASSUME NEW b \in Bits PROVE \E n \in 1..7 : 2^(n - 1) = b
    OBVIOUS
  <2>3. CASE b = 1
    <3>1. 1 - 1 = 0
      OBVIOUS
    <3>2. QED
      BY <2>1, <2>3, <3>1
  <2>4. QED
    BY <2>1, <2>3 DEF Bits
<1>2. \A b \in Bits : BitsUpTo(b) \in 1..7
  BY <1>1 DEF BitsUpTo
<1>3. SUFFICES ASSUME NEW leaves PROVE BitsOf(leaves) \in 0..7
  OBVIOUS
<1>4. PICK S : S = {BitsUpTo(l.part) : l \in {l \in leaves : l.part \in Bits}} \cup {0}
  OBVIOUS
<1>5. \A n \in S : n \in 0..7
  BY <1>2, <1>4
<1>6. 0 \in S /\ S \in SUBSET (0..10) /\ S \subseteq 0..7
  BY <1>4, <1>5
<1>7. Max(S) \in S
  BY <1>6, GreatestOfFew
<1>8. QED
  BY <1>4, <1>6, <1>7 DEF BitsOf

\* A route that is for a shape as a whole.
LEMMA FloatRouteFields ==
  \A at, shape : /\ FloatRoute(at, shape).at = at /\ FloatRoute(at, shape).shape = shape
                 /\ FloatRoute(at, shape).part = Value /\ FloatRoute(at, shape).bits = 0
  BY DEF FloatRoute, Route

\* The flags have addresses of their own.
LEMMA FlagsAreGood ==
  /\ GoodRoutes(FlagRoutes)
  /\ \A r \in FlagRoutes : r.shape \in Flags /\ r.at = FlagAddress(r.shape)
<1>1. ASSUME NEW r \in FlagRoutes
      PROVE  /\ r.shape \in Flags /\ r.at = FlagAddress(r.shape) /\ r.part = Value /\ r.bits = 0
             /\ r = Route(FlagAddress(r.shape), r.shape, Value, 0, FALSE, "bool", FALSE)
  <2>1. PICK f \in Flags : r = Route(FlagAddress(f), f, Value, 0, FALSE, "bool", FALSE)
    BY DEF FlagRoutes
  <2>2. r.shape = f /\ r.at = FlagAddress(f) /\ r.part = Value /\ r.bits = 0
    BY <2>1 DEF Route
  <2>3. QED
    BY <2>1, <2>2
<1>2. \A r \in FlagRoutes : r.shape \in Flags /\ r.at = FlagAddress(r.shape) /\ r.part = Value /\ r.bits = 0
  BY <1>1
<1>3. \A r \in FlagRoutes : r = Route(FlagAddress(r.shape), r.shape, Value, 0, FALSE, "bool", FALSE)
  BY <1>1
<1>4. \A f, g : FlagAddress(f) = FlagAddress(g) => f = g
  BY DEF FlagAddress
<1>5. \A r, q \in FlagRoutes : r.at = q.at => r = q
  BY <1>2, <1>3, <1>4, Zenon
<1>6. \A r \in FlagRoutes : r.shape \in AllShapes \cup Flags /\ r.part \in {Value, Negative} \cup Bits /\ r.bits \in 0..7
  BY <1>2
<1>7. QED
  BY <1>2, <1>5, <1>6 DEF GoodRoutes

\* Canonical addresses differ from shape to shape, and from those of the flags.
LEMMA CanonicalFacts ==
  /\ \A s, t : Canonical(s) = Canonical(t) => s = t
  /\ \A s, f : Canonical(s) # FlagAddress(f)
  BY DEF Canonical, FlagAddress

\* Whole shapes under canonical names, each name for one shape, go well with the flags.
LEMMA CanonicalAreGood ==
  ASSUME NEW R,
         \A r \in R : r = FloatRoute(r.at, r.shape) /\ r.shape \in AllShapes /\ \E s : r.at = Canonical(s),
         \A r, q \in R : r.at = q.at => r.shape = q.shape
  PROVE  GoodRoutes(R \cup FlagRoutes)
<1>1. \A r \in R : \A q \in FlagRoutes : r.at # q.at
  BY CanonicalFacts, FlagsAreGood
<1>2. \A r, q \in R : r.at = q.at => r = q
  OBVIOUS
<1>3. \A r \in R : r.part = Value /\ r.bits = 0
  BY FloatRouteFields
<1>4. QED
  BY <1>1, <1>2, <1>3, FlagsAreGood DEF GoodRoutes

\* The default output.
LEMMA DefaultsAreGood == GoodRoutes(DefaultRoutes)
<1> DEFINE R == {FloatRoute(Canonical(s), s) : s \in DefaultShapes}
<1>1. DefaultShapes \subseteq AllShapes
  <2>1. /\ {"BrowExpression", "EyeLid"} \subseteq PerSideAndMean \cup PerSide
        /\ {"MouthStretchTighten", "SmileSad"} \subseteq PerSideAndMean \cup PerSide
        /\ {"CheekPuff", "EyeSquint", "EyeX"} \subseteq SidedBases
    BY DEF PerSideAndMean, PerSide, SidedBases
  <2>2. {"EyeY", "JawOpen", "MouthClosed"} \subseteq SingleBases
    BY DEF SingleBases
  <2>3. /\ {"JawX", "LipFunnelLower", "LipFunnelUpper", "LipPucker", "MouthX"} \subseteq DOMAIN MouthRules
        /\ {"MouthLowerDown", "MouthUpperUp"} \subseteq DOMAIN MouthRules
        /\ \A n \in DOMAIN MouthRules : n \notin PerSide
    BY DEF MouthRules, PerSide
  <2>4. DOMAIN MouthRules \subseteq DOMAIN Rules
    BY DEF Rules, Over
  <2>5. \A n \in {"BrowExpression", "EyeLid", "MouthStretchTighten", "SmileSad"} : \A side \in Sides :
          <<n, side>> \in CombinedShapes
    BY <2>1 DEF CombinedShapes
  <2>6. \A n \in {"CheekPuff", "EyeSquint", "EyeX"} : \A side \in Sides : <<n, side>> \in Unified
    BY <2>1 DEF Unified
  <2>7. \A n \in {"EyeY", "JawOpen", "MouthClosed"} : <<n, NoSide>> \in Unified
    BY <2>2 DEF Unified
  <2>8. \A n \in DOMAIN MouthRules : <<n, NoSide>> \in CombinedShapes
    BY <2>3, <2>4 DEF CombinedShapes
  <2>9. \A s \in DefaultShapes : s \in AllShapes
    BY <2>3, <2>5, <2>6, <2>7, <2>8 DEF DefaultShapes, AllShapes
  <2>10. QED
    BY <2>9
<1>2. \A r \in R : \E s \in DefaultShapes : r = FloatRoute(Canonical(s), s)
  OBVIOUS
<1>3. \A r \in R : /\ r = FloatRoute(r.at, r.shape) /\ r.shape \in AllShapes
                   /\ r.at = Canonical(r.shape)
  BY <1>1, <1>2, FloatRouteFields
<1>4. DefaultRoutes = R \cup FlagRoutes
  BY DEF DefaultRoutes
<1> HIDE DEF R
<1>5. GoodRoutes(R \cup FlagRoutes)
  BY <1>3, CanonicalFacts, CanonicalAreGood
<1>6. QED
  BY <1>4, <1>5

\* UniFT's output: the names under which the vertical gaze is sent twice more are no shapes.
LEMMA UniftIsGood == GoodRoutes(UniftRoutes)
<1> DEFINE Whole == {FloatRoute(Canonical(s), s) : s \in AllShapes}
           Gaze == {FloatRoute(Canonical(<<"EyeY", side>>), <<"EyeY", NoSide>>) : side \in Sides}
           R == Whole \cup Gaze
<1>1. <<"EyeY", NoSide>> \in AllShapes
  BY DEF AllShapes, Unified, SingleBases
<1>2. \A side \in Sides : <<"EyeY", side>> \notin AllShapes
  <2>1. "EyeY" \notin SidedBases \cup PerSide \cup PerSideAndMean
    BY DEF SidedBases, PerSide, PerSideAndMean
  <2>2. \A side \in Sides : side # NoSide
    BY DEF Sides, NoSide
  <2>3. \A side \in Sides : <<"EyeY", side>> \notin Unified
    BY <2>1, <2>2 DEF Unified
  <2>4. \A side \in Sides : <<"EyeY", side>> \notin CombinedShapes
    BY <2>1, <2>2 DEF CombinedShapes
  <2>5. QED
    BY <2>3, <2>4 DEF AllShapes
<1>3. \A r \in Whole : /\ r = FloatRoute(r.at, r.shape) /\ r.shape \in AllShapes
                       /\ r.at = Canonical(r.shape)
  BY FloatRouteFields
<1>4. ASSUME NEW r \in Gaze
      PROVE  /\ r = FloatRoute(r.at, r.shape) /\ r.shape = <<"EyeY", NoSide>>
             /\ \E side \in Sides : r.at = Canonical(<<"EyeY", side>>)
  <2>1. PICK side \in Sides : r = FloatRoute(Canonical(<<"EyeY", side>>), <<"EyeY", NoSide>>)
    OBVIOUS
  <2>2. r.at = Canonical(<<"EyeY", side>>) /\ r.shape = <<"EyeY", NoSide>>
    BY <2>1, FloatRouteFields
  <2>3. QED
    BY <2>1, <2>2
<1>5. UniftRoutes = R \cup FlagRoutes
  BY DEF UniftRoutes
<1> HIDE DEF Whole, Gaze
<1>6. \A r, q \in R : r.at = q.at => r.shape = q.shape
  <2>1. \A r, q \in Whole : r.at = q.at => r.shape = q.shape
    BY <1>3, CanonicalFacts
  <2>2. \A r, q \in Gaze : r.shape = q.shape
    BY <1>4
  <2>3. \A r \in Whole : \A q \in Gaze : r.at # q.at
    <3>1. SUFFICES ASSUME NEW r \in Whole, NEW q \in Gaze, r.at = q.at PROVE FALSE
      OBVIOUS
    <3>2. PICK side \in Sides : q.at = Canonical(<<"EyeY", side>>)
      BY <1>4
    <3>3. r.shape = <<"EyeY", side>> /\ r.shape \in AllShapes
      BY <1>3, <3>1, <3>2, CanonicalFacts
    <3>4. QED
      BY <1>2, <3>3
  <2>4. QED
    BY <2>1, <2>2, <2>3
<1>7. \A r \in R : r = FloatRoute(r.at, r.shape) /\ r.shape \in AllShapes /\ \E s : r.at = Canonical(s)
  BY <1>1, <1>3, <1>4
<1> HIDE DEF R
<1>8. QED
  BY <1>5, <1>6, <1>7, CanonicalAreGood

\* The routes made of an avatar's leaves: a name means one part of one shape, and no flag.
LEMMA LeavesAreGood ==
  ASSUME NEW leaves \in {Avatars[a] : a \in DOMAIN Avatars} \cup {Tree}, NEW routes \in BuildParams(leaves)
  PROVE  GoodRoutes(routes)
<1> DEFINE usable == Usable(leaves)
           group(l) == {k \in usable : k.shape = l.shape}
           route(l) == Route(l.at, l.shape, l.part, BitsOf(group(l)), SignedIn(group(l)),
                             IF l.part = Value THEN "float" ELSE "bool", FALSE)
<1>1. PICK ls \in SUBSET usable : /\ \A l, k \in ls : SamePart(l, k) => l = k
                                  /\ routes = FlagRoutes \cup {route(l) : l \in ls}
  BY DEF BuildParams
<1>2. \A l \in ls : l \in leaves /\ l.shape \in AllShapes /\ l.part \in {Value, Negative} \cup Bits
  BY DEF Usable
<1>3. \A l \in ls : /\ l.at \notin {FlagAddress(f) : f \in Flags}
                    /\ \A k \in ls : l.at = k.at => l = k
  BY <1>1, <1>2, NamesAssumption
<1>4. \A l \in ls : /\ route(l).at = l.at /\ route(l).shape = l.shape /\ route(l).part = l.part
                    /\ route(l).bits \in 0..7
  BY BitsAreFew DEF Route
<1> HIDE DEF route
<1>5. PICK R : R = {route(l) : l \in ls}
  OBVIOUS
<1>6. \A r \in R : \E l \in ls : r = route(l)
  BY <1>5
<1>7. \A r \in R : \A q \in FlagRoutes : r.at # q.at
  BY <1>3, <1>4, <1>6, FlagsAreGood
<1>8. \A r, q \in R : r.at = q.at => r = q
  BY <1>3, <1>4, <1>6
<1>9. \A r \in R : r.shape \in AllShapes /\ r.part \in {Value, Negative} \cup Bits /\ r.bits \in 0..7
  BY <1>2, <1>4, <1>6
<1>10. QED
  BY <1>1, <1>5, <1>7, <1>8, <1>9, FlagsAreGood DEF GoodRoutes

\* The routes of a valid sheet.
LEMMA SheetIsGood ==
  ASSUME NEW sheet, ValidSheet(sheet)
  PROVE  GoodRoutes(SheetRoutes(sheet))
<1> DEFINE entries == SheetEntries(sheet)
           group(p) == {q \in entries : q.prefix = p.prefix /\ q.shape = p.shape}
           route(p) == Route(p.at, p.shape, p.part, BitsOf(group(p)), SignedIn(group(p)), p.kind, TRUE)
<1>1. SheetRoutes(sheet) = {route(p) : p \in entries}
  BY DEF SheetRoutes
<1>2. \A p \in entries : /\ p.shape \in AllShapes \cup Flags /\ p.part \in {Value, Negative} \cup Bits
                         /\ \A q \in entries : p.at = q.at => p = q
  BY DEF ValidSheet, SheetEntries
<1>3. \A p \in entries : /\ route(p).at = p.at /\ route(p).shape = p.shape /\ route(p).part = p.part
                         /\ route(p).bits \in 0..7
  BY BitsAreFew DEF Route
<1> HIDE DEF route, entries
<1>4. QED
  BY <1>1, <1>2, <1>3 DEF GoodRoutes

\* Whatever the output, its routes are good.
LEMMA LoadIsGood ==
  ASSUME NEW face0, NEW routes \in Load(face0, Sheet, Tree)
  PROVE  GoodRoutes(routes)
<1>1. CASE face0.sheet
  <2>1. ValidSheet(Sheet) /\ GoodRoutes(SheetRoutes(Sheet))
    BY <1>1, SheetIsGood DEF Load
  <2>2. \/ routes = SheetRoutes(Sheet)
        \/ routes = SheetRoutes(Sheet) \cup {r \in UniftRoutes : \A e \in SheetRoutes(Sheet) : e.at # r.at}
    BY <1>1, <2>1 DEF Load
  <2>3. QED
    BY <2>1, <2>2, UniftIsGood DEF GoodRoutes
<1>2. CASE ~face0.sheet /\ face0.avatar
  BY <1>2, LeavesAreGood DEF Load
<1>3. CASE ~face0.sheet /\ ~face0.avatar
  BY <1>3, UniftIsGood, DefaultsAreGood DEF Load
<1>4. QED
  BY <1>1, <1>2, <1>3

-----------------------------------------------------------------------------
(***************************************************************************)
(* What a silent face sends.                                               *)
(***************************************************************************)
\* The ear is a percentage of whole ones.
LEMMA EarIsInt ==
  ASSUME NEW f, IntFace(f), NEW side
  PROVE  Ear(f, side) \in Int
<1> DEFINE terms == [EyeWide |-> 100, EyeSquint |-> -100, BrowPinch |-> -100]
<1>1. DOMAIN terms = {"EyeWide", "EyeSquint", "BrowPinch"}
  OBVIOUS
<1>2. Row(terms, {})
  <2>1. IsFiniteSet(DOMAIN terms)
    BY <1>1, FewNames
  <2>2. \A n \in DOMAIN terms : terms[n] \in Int
    BY <1>1
  <2>3. QED
    BY <2>1, <2>2 DEF Row
<1>3. PICK t : t = terms
  OBVIOUS
<1>4. Mix(f, t, side) \in Int
  BY <1>2, <1>3, MixIsInt DEF IntFace
<1>5. PICK m \in Int : m = Mix(f, terms, side)
  BY <1>3, <1>4
<1>6. PICK v \in Int : v = At(f, <<"BrowInnerUp", "Left">>)
  BY DEF IntFace
<1>7. Ear(f, side) = Clamp(v + m, -100, 100)
  BY <1>5, <1>6 DEF Ear
<1>8. QED
  BY <1>7 DEF Clamp, LowOf

\* The neutral face is its own mirror image, and every shape of it is a whole percentage.
LEMMA NeutralShapes == \A s \in AllShapes : ShapeOf(Neutral, s) \in Int
<1>1. \A s : At(Neutral, s) = 0
  BY DEF At, Neutral
<1>2. IntFace(Neutral) /\ MirrorImages(Neutral, Neutral)
  BY <1>1 DEF IntFace, MirrorImages
<1>3. SUFFICES ASSUME NEW s \in AllShapes PROVE ShapeOf(Neutral, s) \in Int
  OBVIOUS
<1>4. CASE s \in Unified
  BY <1>1, <1>4 DEF ShapeOf
<1>5. CASE s \notin Unified
  <2>1. s \in CombinedShapes
    BY <1>5 DEF AllShapes
  <2>2. PICK base, side : base = s[1] /\ side = s[2]
    OBVIOUS
  <2>3. side \in AnySide /\ base \in SidedCombined \cup NeverSet
    <3>1. CASE s \in (PerSide \cup PerSideAndMean) \X Sides
      BY <2>2, <3>1 DEF AnySide, SidedCombined
    <3>2. CASE s \in (((DOMAIN Rules \cup PerSideAndMean) \ PerSide) \cup NeverSet) \X {NoSide}
      BY <2>2, <3>2 DEF AnySide, SidedCombined
    <3>3. QED
      BY <2>1, <3>1, <3>2 DEF CombinedShapes
  <2>4. ShapeOf(Neutral, s) = Combined(Neutral, base, side)
    BY <1>5, <2>2 DEF ShapeOf
  <2>5. CASE base \in NeverSet
    BY <2>4, <2>5 DEF Combined
  <2>6. CASE base \notin NeverSet
    <3>1. \A a \in AnySide : OneSide(Neutral, base, a) \in Int
      <4>1. CASE base = "Ear"
        BY <1>2, <4>1, EarIsInt DEF OneSide
      <4>2. CASE base # "Ear"
        BY <1>2, <2>3, <2>6, <4>2, OneSideMirrors
      <4>3. QED
        BY <4>1, <4>2
    <3>2. {"Left", "Right", side} \subseteq AnySide
      BY <2>3 DEF AnySide, Sides
    <3>3. PICK l \in Int, r \in Int, m \in Int :
            /\ l = OneSide(Neutral, base, "Left") /\ r = OneSide(Neutral, base, "Right")
            /\ m = OneSide(Neutral, base, side)
      BY <3>1, <3>2
    <3>4. Part(l + r, 2) \in Int /\ r - l \in Int
      BY PartFacts
    <3>5. Combined(Neutral, base, side) \in {m, r - l, Part(l + r, 2)}
      BY <2>6, <3>3 DEF Combined
    <3>6. QED
      BY <2>4, <3>4, <3>5
  <2>7. QED
    BY <2>5, <2>6
<1>6. QED
  BY <1>4, <1>5

\* Clearing and settling a face leaves nothing of it.
LEMMA NeutralIsSettled == Settled(Neutral) = Neutral
<1>1. \A s : At(Neutral, s) = 0
  BY DEF At, Neutral
<1>2. \A side : SquintOf(Neutral, side) = 0
  <2>1. SUFFICES ASSUME NEW side PROVE SquintOf(Neutral, side) = 0
    OBVIOUS
  <2>2. Smile(Neutral, side) = 0
    <3>1. \A n \in DOMAIN SmileTerms : At(Neutral, <<n, side>>) = 0
      BY <1>1
    <3>2. PICK t : t = SmileTerms
      OBVIOUS
    <3>3. Mix(Neutral, t, side) = 0
      BY <3>1, <3>2, SmileRows, MixIsInt
    <3>4. QED
      BY <3>2, <3>3 DEF Smile, SmileTerms
  <2>3. Openness(Neutral, side) = 100
    <3>1. Part(3 * 0, 2) = 0
      BY DEF Part
    <3>2. QED
      BY <1>1, <3>1 DEF Openness, Clamp, LowOf
  <2>4. Part(3 * 0, 5) = 0 /\ LowOf(0 + 0, 100) = 0 /\ Part(0 * 100, 100) = 0
    BY DEF Part, LowOf
  <2>5. QED
    BY <1>1, <2>2, <2>3, <2>4 DEF SquintOf
<1>3. PICK values : values = [s \in {"EyeSquint"} \X Sides |-> SquintOf(Neutral, s[2])]
  OBVIOUS
<1>4. \A s \in DOMAIN values : values[s] = 0
  BY <1>2, <1>3
<1>5. PICK all : all = Over(values, Neutral)
  OBVIOUS
<1>6. \A s \in DOMAIN all : all[s] = 0
  BY <1>4, <1>5 DEF Over, Neutral
<1>7. RestrictValues(all, LAMBDA v : v # 0) = [x \in {} |-> 0]
  BY <1>6 DEF RestrictValues, Restrict
<1>8. [x \in {} |-> 0] = Neutral
  BY DEF Neutral
<1>9. Settled(Neutral) = RestrictValues(all, LAMBDA v : v # 0)
  BY <1>3, <1>5 DEF Settled, With
<1>10. QED
  BY <1>7, <1>8, <1>9

\* What a route is sent of a neutral face that is not tracked.
NeutralValue(r) == Encode(r, ValueOf(r, Neutral, FALSE, FALSE))

\* It is a number, so a neutral value is not followed by itself.
LEMMA NeutralIsSentOnce ==
  ASSUME NEW r, r.shape \in AllShapes \cup Flags, r.part \in {Value, Negative} \cup Bits, r.bits \in 0..7
  PROVE  NeutralValue(r) = Unsent \/ ~NeedsSending(r, NeutralValue(r), NeutralValue(r))
<1>1. PICK v : v = ValueOf(r, Neutral, FALSE, FALSE)
  OBVIOUS
<1>2. v \in Int
  <2>1. CASE r.shape \notin Flags
    BY <1>1, <2>1, NeutralShapes DEF ValueOf
  <2>2. CASE r.shape \in Flags
    BY <1>1, <2>2 DEF ValueOf
  <2>3. QED
    BY <2>1, <2>2
<1>3. BitOf(r, v) \in Int \/ r.part \notin Bits
  <2>1. SUFFICES ASSUME r.part \in Bits PROVE BitOf(r, v) \in Int
    OBVIOUS
  <2>2. PICK b \in Nat \ {0} : b = r.part
    BY <2>1 DEF Bits
  <2>3. PICK p \in Int : p = 2^r.bits - 1
    OBVIOUS
  <2>4. PICK m \in Int : m = IF r.signed THEN Magnitude(v) ELSE IF v < 0 THEN 0 ELSE v
    BY <1>2 DEF Magnitude
  <2>5. PICK k \in Int : k = IF r.clamped THEN LowOf(m, 100) ELSE m
    BY <2>4 DEF LowOf
  <2>6. k * p \in Int
    OBVIOUS
  <2>7. PICK q \in Int : q = Part(k * p, 100)
    BY <2>6, PartFacts
  <2>8. (q \div b) % 2 \in Int
    OBVIOUS
  <2>9. BitOf(r, v) = (q \div b) % 2
    BY <2>2, <2>3, <2>4, <2>5, <2>7 DEF BitOf
  <2>10. QED
    BY <2>8, <2>9
<1>4. PICK raw \in Int : raw = CASE r.part = Value -> v
                                 [] r.part = Negative -> IF v < 0 THEN 100 ELSE 0
                                 [] OTHER -> 100 * BitOf(r, v)
  BY <1>2, <1>3 DEF Value, Negative
<1>5. NeutralValue(r) = CASE r.kind = "float" -> raw
                          [] r.kind = "bool" -> IF raw > 50 THEN 100 ELSE 0
                          [] OTHER -> 100 * Part(raw, 100)
  BY <1>1, <1>4 DEF NeutralValue, Encode
<1>6. PICK n \in Int : n = NeutralValue(r)
  BY <1>5, PartFacts
<1>7. Magnitude(n - n) = 0
  BY DEF Magnitude
<1>8. QED
  BY <1>6, <1>7 DEF NeedsSending

-----------------------------------------------------------------------------
(***************************************************************************)
(* What the avatar has heard, and that it is told when the source goes     *)
(* silent.                                                                 *)
(***************************************************************************)
\* What counts as sent, and what has arrived, after a bundle with the values of now that changed.
Taken(s, now) == [r \in DOMAIN s |-> IF NeedsSending(r, s[r], now[r]) THEN now[r] ELSE s[r]]
Arrived(s, h, now) ==
  [a \in DOMAIN h |->
     LET new == {r \in DOMAIN s : NeedsSending(r, s[r], now[r]) /\ r.at = a} IN
     IF new = {} THEN h[a] ELSE now[CHOOSE r \in new : TRUE]]

\* The avatar has heard what was sent; the next bundle says nothing new to a neutral face.
HeardAsSent(s, h) == \A r \in DOMAIN s : r.at \in DOMAIN h => h[r.at] = s[r]
Hushed(s) == \A r \in DOMAIN s : s[r] = Unsent \/ ~NeedsSending(r, s[r], NeutralValue(r))
Nothing(s) == \A r \in DOMAIN s : s[r] = Unsent

\* A bundle that arrives keeps the avatar as it was told, or brings it there when everything was
\* to be sent: no two routes speak to the same address.
LEMMA BundleTells ==
  ASSUME NEW s, NEW h, NEW now, GoodRoutes(DOMAIN s), Nothing(s) \/ HeardAsSent(s, h)
  PROVE  HeardAsSent(Taken(s, now), Arrived(s, h, now))
<1> DEFINE needs(r) == NeedsSending(r, s[r], now[r])
           new(a) == {r \in DOMAIN s : needs(r) /\ r.at = a}
<1>1. SUFFICES ASSUME NEW r \in DOMAIN s, r.at \in DOMAIN h
               PROVE  Arrived(s, h, now)[r.at] = Taken(s, now)[r]
  BY DEF HeardAsSent, Taken, Arrived
<1>2. /\ Arrived(s, h, now)[r.at] = IF new(r.at) = {} THEN h[r.at] ELSE now[CHOOSE q \in new(r.at) : TRUE]
      /\ Taken(s, now)[r] = IF needs(r) THEN now[r] ELSE s[r]
  BY <1>1 DEF Taken, Arrived
<1>3. CASE needs(r)
  <2>1. new(r.at) = {r}
    BY <1>3 DEF GoodRoutes
  <2>2. (CHOOSE q \in {r} : TRUE) = r
    OBVIOUS
  <2>3. QED
    BY <1>2, <1>3, <2>1, <2>2
<1>4. CASE ~needs(r)
  <2>1. new(r.at) = {}
    BY <1>4 DEF GoodRoutes
  <2>2. HeardAsSent(s, h)
    BY <1>4 DEF Nothing, NeedsSending
  <2>3. QED
    BY <1>1, <1>2, <1>4, <2>1, <2>2 DEF HeardAsSent
<1>5. QED
  BY <1>3, <1>4

\* A bundle of the neutral face leaves nothing more to say about it.
LEMMA NeutralBundleHushes ==
  ASSUME NEW s, NEW now, GoodRoutes(DOMAIN s), \A r \in DOMAIN s : now[r] = NeutralValue(r)
  PROVE  Hushed(Taken(s, now))
<1>1. SUFFICES ASSUME NEW r \in DOMAIN s
               PROVE  Taken(s, now)[r] = Unsent \/ ~NeedsSending(r, Taken(s, now)[r], NeutralValue(r))
  BY DEF Hushed, Taken
<1>2. NeutralValue(r) = Unsent \/ ~NeedsSending(r, NeutralValue(r), NeutralValue(r))
  BY NeutralIsSentOnce DEF GoodRoutes
<1>3. PICK v : v = NeutralValue(r)
  OBVIOUS
<1>4. Taken(s, now)[r] = IF NeedsSending(r, s[r], v) THEN v ELSE s[r]
  BY <1>3 DEF Taken
<1>5. QED
  BY <1>2, <1>3, <1>4, Zenon

\* The worker as the avatar hears it: every route is told of once, what was told since the avatar
\* appeared is what it has heard, and a source that is silent has been said to be.
Silent == pc = "ended" \/ (pc \in {"listen", "frame"} /\ ~lastActive)
SilenceInv ==
  /\ avatar \in DOMAIN Avatars /\ published \in DOMAIN Avatars
  /\ GoodRoutes(DOMAIN sent)
  /\ pc = "off" => told = "asked" /\ launch \in Launches
  /\ pc \in {"listen", "frame"} /\ told = "asked" => Nothing(sent)
  /\ told = "told" => HeardAsSent(sent, heard)
  /\ told = "told" /\ Silent => Hushed(sent)

\* Routes that nothing was sent to.
LEMMA RoutedFacts ==
  ASSUME NEW routes, GoodRoutes(routes)
  PROVE  GoodRoutes(DOMAIN Routed(routes)) /\ Nothing(Routed(routes))
  BY DEF GoodRoutes, Nothing, Routed

\* No routes at all.
LEMMA NoRoutes == GoodRoutes(DOMAIN <<>>)
  BY DEF GoodRoutes

\* What the bundle of a frame or of the end says.
LEMMA SendIs ==
  ASSUME NEW f, NEW active, NEW eye, NEW lost, Send(f, active, eye, lost)
  PROVE  LET now == [r \in DOMAIN sent |-> Encode(r, ValueOf(r, f, active, eye))] IN
         /\ sent' = Taken(sent, now)
         /\ heard' = IF lost THEN heard ELSE Arrived(sent, heard, now)
         /\ told' = IF lost THEN "no" ELSE IF told = "asked" THEN "told" ELSE told
<1> DEFINE now == [r \in DOMAIN sent |-> Encode(r, ValueOf(r, f, active, eye))]
           news == {r \in DOMAIN sent : NeedsSending(r, sent[r], now[r])}
<1>1. /\ sent' = [r \in DOMAIN sent |-> IF r \in news THEN now[r] ELSE sent[r]]
      /\ heard' = IF lost THEN heard
                  ELSE [a \in DOMAIN heard |->
                          LET new == {r \in news : r.at = a} IN
                          IF new = {} THEN heard[a] ELSE now[CHOOSE r \in new : TRUE]]
      /\ told' = IF lost THEN "no" ELSE IF told = "asked" THEN "told" ELSE told
  BY DEF Send
<1> HIDE DEF now
<1>2. sent' = Taken(sent, now)
  BY <1>1 DEF Taken
<1>3. \A a : {r \in news : r.at = a} = {r \in DOMAIN sent : NeedsSending(r, sent[r], now[r]) /\ r.at = a}
  OBVIOUS
<1>4. ~lost => heard' = Arrived(sent, heard, now)
  BY <1>1, <1>3 DEF Arrived
<1>5. QED
  BY <1>1, <1>2, <1>4 DEF now

\* A bundle keeps what is known of the avatar, and a neutral one, of a silent source, hushes it.
LEMMA SendKeeps ==
  ASSUME SilenceInv, pc \in {"listen", "frame"}, pc' \in {"listen", "ended"},
         UNCHANGED <<avatar, published>>,
         NEW now, NEW lost, sent' = Taken(sent, now),
         heard' = IF lost THEN heard ELSE Arrived(sent, heard, now),
         told' = IF lost THEN "no" ELSE IF told = "asked" THEN "told" ELSE told,
         Silent' => \A r \in DOMAIN sent : now[r] = NeutralValue(r)
  PROVE  SilenceInv'
<1>1. GoodRoutes(DOMAIN sent) /\ DOMAIN sent' = DOMAIN sent
  BY DEF SilenceInv, Taken
<1>2. pc' # "off" /\ told' # "asked"
  OBVIOUS
<1>3. ASSUME told' = "told" PROVE HeardAsSent(sent', heard')
  <2>1. ~lost /\ told \in {"asked", "told"}
    BY <1>3
  <2>2. Nothing(sent) \/ HeardAsSent(sent, heard)
    BY <2>1 DEF SilenceInv
  <2>3. HeardAsSent(Taken(sent, now), Arrived(sent, heard, now))
    BY <1>1, <2>2, BundleTells
  <2>4. QED
    BY <2>1, <2>3
<1>4. ASSUME Silent' PROVE Hushed(sent')
  <2>1. \A r \in DOMAIN sent : now[r] = NeutralValue(r)
    BY <1>4
  <2>2. Hushed(Taken(sent, now))
    BY <1>1, <2>1, NeutralBundleHushes
  <2>3. QED
    BY <2>2
<1>5. avatar' \in DOMAIN Avatars /\ published' \in DOMAIN Avatars
  BY DEF SilenceInv
<1>6. QED
  BY <1>1, <1>2, <1>3, <1>4, <1>5 DEF SilenceInv

\* A frame keeps it: a face that has just gone silent is cleared before the bundle.
LEMMA FrameKeeps ==
  ASSUME SilenceInv, NEW in, NEW lost, Frame(in, lost)
  PROVE  SilenceInv'
<1>1. PICK got : got = Receive(in)
  OBVIOUS
<1>2. PICK seen : seen = FaceSeen(got)
  OBVIOUS
<1>3. /\ pc = "frame" /\ pc' = "listen" /\ lastActive' = got.active
      /\ avatar' = avatar /\ published' = published
  BY <1>1 DEF Frame, vrchat
<1>4. CASE got.active \/ lastActive
  <2>1. PICK f : f = Settled(seen)
    OBVIOUS
  <2>2. face' = f /\ Send(f, got.active, got.eyeActive, lost)
    <3>1. face' = f /\ Send(face', got.active, got.eyeActive, lost)
      BY <1>1, <1>2, <1>4, <2>1, Zenon DEF Frame
    <3>2. QED
      BY <3>1 DEF Send
  <2>3. PICK now : now = [r \in DOMAIN sent |-> Encode(r, ValueOf(r, f, got.active, got.eyeActive))]
    OBVIOUS
  <2>4. /\ sent' = Taken(sent, now)
        /\ heard' = IF lost THEN heard ELSE Arrived(sent, heard, now)
        /\ told' = IF lost THEN "no" ELSE IF told = "asked" THEN "told" ELSE told
    BY <2>2, <2>3, SendIs
  <2>5. ASSUME Silent' PROVE \A r \in DOMAIN sent : now[r] = NeutralValue(r)
    <3>1. ~got.active /\ lastActive
      BY <1>3, <1>4, <2>5 DEF Silent
    <3>2. seen = Neutral
      BY <1>2, <3>1 DEF FaceSeen
    <3>3. f = Neutral
      BY <2>1, <3>2, NeutralIsSettled
    <3>4. \A r : ValueOf(r, Neutral, got.active, got.eyeActive) = ValueOf(r, Neutral, FALSE, FALSE)
      BY <3>1 DEF ValueOf
    <3>5. QED
      BY <2>3, <3>3, <3>4 DEF NeutralValue
  <2>6. QED
    BY <1>3, <2>4, <2>5, SendKeeps
<1>5. CASE ~got.active /\ ~lastActive
  <2>1. sent' = sent /\ heard' = heard /\ told' = told
    BY <1>1, <1>5 DEF Frame
  <2>2. Silent /\ pc \in {"listen", "frame"}
    BY <1>3, <1>5 DEF Silent
  <2>3. QED
    BY <1>3, <2>1, <2>2 DEF SilenceInv
<1>6. QED
  BY <1>4, <1>5

\* So does the end, with a last, neutral frame.
LEMMA ShutdownKeeps ==
  ASSUME SilenceInv, NEW lost, Shutdown(lost)
  PROVE  SilenceInv'
<1>1. pc = "listen" /\ pc' = "ended" /\ avatar' = avatar /\ published' = published /\ lastActive' = lastActive
  BY DEF Shutdown, vrchat
<1>2. CASE lastActive
  <2>1. PICK f, active, eye : f = Neutral /\ active = FALSE /\ Send(f, active, eye, lost)
    BY <1>2, Zenon DEF Shutdown
  <2>2. PICK now : now = [r \in DOMAIN sent |-> Encode(r, ValueOf(r, f, active, eye))]
    OBVIOUS
  <2>3. /\ sent' = Taken(sent, now)
        /\ heard' = IF lost THEN heard ELSE Arrived(sent, heard, now)
        /\ told' = IF lost THEN "no" ELSE IF told = "asked" THEN "told" ELSE told
    BY <2>1, <2>2, SendIs
  <2>4. \A r : ValueOf(r, f, active, eye) = ValueOf(r, Neutral, FALSE, FALSE)
    BY <2>1 DEF ValueOf
  <2>5. \A r \in DOMAIN sent : now[r] = NeutralValue(r)
    BY <2>2, <2>4 DEF NeutralValue
  <2>6. QED
    BY <1>1, <2>3, <2>5, SendKeeps
<1>3. CASE ~lastActive
  <2>1. sent' = sent /\ heard' = heard /\ told' = told
    BY <1>3 DEF Shutdown
  <2>2. Silent /\ pc \in {"listen", "frame"}
    BY <1>1, <1>3 DEF Silent
  <2>3. QED
    BY <1>1, <2>1, <2>2 DEF SilenceInv
<1>4. QED
  BY <1>2, <1>3

\* Whatever listening brings: new routes are told of anew, an avatar change makes all be sent again.
LEMMA ListenKeeps ==
  ASSUME SilenceInv, NEW fetched \in BOOLEAN, NEW note \in BOOLEAN, NEW vsync \in BOOLEAN,
         Listen(fetched, note, vsync)
  PROVE  SilenceInv'
<1>1. /\ pc = "listen" /\ pc' \in {"listen", "frame"} /\ lastActive' = lastActive
      /\ avatar' = avatar /\ published' = published /\ heard' = heard
      /\ told' = IF fetched \/ note THEN "asked" ELSE told
  BY DEF Listen, data
<1>2. avatar' \in DOMAIN Avatars /\ published' \in DOMAIN Avatars
  BY <1>1 DEF SilenceInv
<1>3. CASE fetched
  <2>1. PICK leaves : leaves = Avatars[published]
    OBVIOUS
  <2>2. leaves \in {Avatars[a] : a \in DOMAIN Avatars} \cup {Tree}
    BY <2>1 DEF SilenceInv
  <2>3. Trees[published] = BuildParams(leaves)
    BY <2>1 DEF Trees, SilenceInv
  <2>4. PICK routes \in BuildParams(leaves) : sent' = Routed(routes)
    BY <1>3, <2>3 DEF Listen
  <2>5. GoodRoutes(routes)
    BY <2>2, <2>4, LeavesAreGood
  <2>6. GoodRoutes(DOMAIN sent') /\ Nothing(sent')
    BY <2>4, <2>5, RoutedFacts
  <2>7. QED
    BY <1>1, <1>2, <1>3, <2>6 DEF SilenceInv
<1>4. CASE ~fetched /\ note
  <2>1. sent' = Invalidated(sent)
    BY <1>4 DEF Listen
  <2>2. DOMAIN sent' = DOMAIN sent /\ Nothing(sent')
    BY <2>1 DEF Invalidated, Nothing
  <2>3. QED
    BY <1>1, <1>2, <1>4, <2>2 DEF SilenceInv
<1>5. CASE ~fetched /\ ~note
  <2>1. sent' = sent /\ told' = told
    BY <1>1, <1>5 DEF Listen
  <2>2. Silent' <=> Silent
    BY <1>1 DEF Silent
  <2>3. QED
    BY <1>1, <1>2, <2>1, <2>2 DEF SilenceInv
<1>6. QED
  BY <1>3, <1>4, <1>5

\* Starting has routes, or none, and has told nothing yet.
LEMMA StartKeeps ==
  ASSUME SilenceInv, Start
  PROVE  SilenceInv'
<1>1. /\ pc = "off" /\ told = "asked" /\ told' = "asked" /\ avatar' = avatar /\ published' = published
      /\ GoodRoutes(DOMAIN sent)
  BY DEF Start, SilenceInv, vrchat
<1>2. PICK c : c = Resolved(launch.file, launch.cli)
  OBVIOUS
<1>3. \/ pc' \in {"refused", "disabled"} /\ sent' = sent
      \/ pc' = "listen" /\ \E routes \in Load(c.face, Sheet, Tree) : sent' = Routed(routes)
  BY <1>2 DEF Start
<1>4. pc' # "off" /\ GoodRoutes(DOMAIN sent') /\ (pc' = "listen" => Nothing(sent'))
               /\ pc' # "frame"
  <2>1. CASE pc' \in {"refused", "disabled"} /\ sent' = sent
    BY <1>1, <2>1
  <2>2. CASE pc' = "listen" /\ \E routes \in Load(c.face, Sheet, Tree) : sent' = Routed(routes)
    <3>1. PICK routes \in Load(c.face, Sheet, Tree) : sent' = Routed(routes)
      BY <2>2
    <3>2. GoodRoutes(routes)
      BY LoadIsGood
    <3>3. QED
      BY <2>2, <3>1, <3>2, RoutedFacts
  <2>3. QED
    BY <1>3, <2>1, <2>2
<1>5. QED
  BY <1>1, <1>4 DEF SilenceInv

\* The inductive invariant.
LEMMA SilenceInvariance == Spec => []SilenceInv
<1>1. Init => SilenceInv
  <2> SUFFICES ASSUME Init PROVE SilenceInv
    OBVIOUS
  <2>1. avatar \in DOMAIN Avatars /\ published = avatar /\ launch \in Launches
    BY RelayAssumption DEF Init
  <2>2. pc = "off" /\ told = "asked" /\ sent = <<>>
    BY DEF Init
  <2>3. GoodRoutes(DOMAIN sent)
    BY <2>2, NoRoutes
  <2>4. QED
    BY <2>1, <2>2, <2>3 DEF SilenceInv
<1>2. SilenceInv /\ [Next]_vars => SilenceInv'
  <2> SUFFICES ASSUME SilenceInv, [Next]_vars PROVE SilenceInv'
    OBVIOUS
  <2>1. CASE Start
    BY <2>1, StartKeeps
  <2>2. CASE Fail
    <3>1. /\ pc' = "failed" /\ sent' = <<>> /\ told' = told /\ heard' = heard
          /\ avatar' = avatar /\ published' = published
      BY <2>2 DEF Fail, vrchat
    <3>2. HeardAsSent(sent', heard')
      BY <3>1 DEF HeardAsSent
    <3>3. GoodRoutes(DOMAIN sent') /\ ~Silent'
      BY <3>1, NoRoutes DEF Silent
    <3>4. QED
      BY <3>1, <3>2, <3>3 DEF SilenceInv
  <2>3. ASSUME NEW fetched \in BOOLEAN, NEW note \in BOOLEAN, NEW vsync \in BOOLEAN, Listen(fetched, note, vsync)
        PROVE  SilenceInv'
    BY <2>3, ListenKeeps
  <2>4. ASSUME NEW in, NEW lost \in BOOLEAN, Frame(in, lost)
        PROVE  SilenceInv'
    BY <2>4, FrameKeeps
  <2>5. ASSUME NEW lost \in BOOLEAN, Shutdown(lost)
        PROVE  SilenceInv'
    BY <2>5, ShutdownKeeps
  <2>6. CASE Tick \/ Publish
    <3>1. /\ pc' = pc /\ lastActive' = lastActive /\ sent' = sent /\ told' = told /\ heard' = heard
          /\ avatar' = avatar /\ published' \in {published, avatar} /\ launch' = launch
      BY <2>6 DEF Tick, Publish, vrchat, data
    <3>2. Silent' <=> Silent
      BY <3>1 DEF Silent
    <3>3. QED
      BY <3>1, <3>2 DEF SilenceInv
  <2>7. ASSUME NEW a \in DOMAIN Avatars, ChangeAvatar(a)
        PROVE  SilenceInv'
    <3>1. /\ pc = "listen" /\ pc' = pc /\ told' = "no" /\ sent' = sent /\ avatar' = a /\ published' = published
      BY <2>7 DEF ChangeAvatar
    <3>2. QED
      BY <3>1 DEF SilenceInv
  <2>8. CASE UNCHANGED vars
    <3>1. /\ pc' = pc /\ lastActive' = lastActive /\ sent' = sent /\ told' = told /\ heard' = heard
          /\ avatar' = avatar /\ published' = published /\ launch' = launch
      BY <2>8 DEF vars, vrchat, data
    <3>2. Silent' <=> Silent
      BY <3>1 DEF Silent
    <3>3. QED
      BY <3>1, <3>2 DEF SilenceInv
  <2>9. QED
    BY <2>1, <2>2, <2>3, <2>4, <2>5, <2>6, <2>7, <2>8 DEF Next
<1>3. QED
  BY <1>1, <1>2, PTL DEF Spec

\* An avatar that has heard the face is left neutral, its flags down, once the source is silent
\* or the relay has stopped (the last send of a face that goes silent, and that of a drop).
THEOREM SilenceHolds == Spec => []SilenceIsNeutral
<1>1. SilenceInv => SilenceIsNeutral
  <2>1. SUFFICES ASSUME SilenceInv, told = "told", pc = "ended" \/ (pc \in {"listen", "frame"} /\ ~lastActive),
                        NEW r \in DOMAIN sent, r.at \in DOMAIN heard
                 PROVE  heard[r.at] = Unsent \/ ~NeedsSending(r, heard[r.at], Encode(r, ValueOf(r, Neutral, FALSE, FALSE)))
    BY DEF SilenceIsNeutral
  <2>2. heard[r.at] = sent[r]
    BY <2>1 DEF SilenceInv, HeardAsSent
  <2>3. sent[r] = Unsent \/ ~NeedsSending(r, sent[r], NeutralValue(r))
    BY <2>1 DEF SilenceInv, Silent, Hushed
  <2>4. QED
    BY <2>2, <2>3, Zenon DEF NeutralValue
<1>2. QED
  BY <1>1, SilenceInvariance, PTL

\* What the worker's face comes to on a route.
EncodedNow(r) == Encode(r, ValueOf(r, face, lastActive, eyeActive))

\* What the decoding of AvatarIsCurrent starts from: once the worker has sent a frame, each of its
\* routes has been heard as the face is now, or as a float that has hardly moved since.
RoutesAreCurrent ==
  [][pc = "frame" /\ pc' = "listen" /\ lastActive' /\ told' = "told" =>
       \A r \in DOMAIN sent' : r.at \in DOMAIN heard' =>
         heard'[r.at] = EncodedNow(r)' \/ ~NeedsSending(r, heard'[r.at], EncodedNow(r)')]_vars

\* A frame of an active source, unless its bundle is lost or the avatar has just changed, leaves
\* no route of the avatar behind (FaceOutput::apply, Channel::send).
THEOREM RoutesStayCurrent == Spec => RoutesAreCurrent
<1> DEFINE Heard ==
      pc = "frame" /\ pc' = "listen" /\ lastActive' /\ told' = "told" =>
        \A r \in DOMAIN sent' : r.at \in DOMAIN heard' =>
          heard'[r.at] = EncodedNow(r)' \/ ~NeedsSending(r, heard'[r.at], EncodedNow(r)')
<1>1. ASSUME SilenceInv, NEW in, NEW lost, Frame(in, lost), lastActive', told' = "told",
             NEW r \in DOMAIN sent', r.at \in DOMAIN heard'
      PROVE  heard'[r.at] = EncodedNow(r)' \/ ~NeedsSending(r, heard'[r.at], EncodedNow(r)')
  <2>1. PICK got, f : got = Receive(in) /\ f = Settled(FaceSeen(got))
    OBVIOUS
  <2>2. lastActive' = got.active /\ eyeActive' = got.eyeActive /\ got.active
    BY <1>1, <2>1 DEF Frame
  <2>3. face' = f /\ Send(f, got.active, got.eyeActive, lost)
    <3>1. face' = f /\ Send(face', got.active, got.eyeActive, lost)
      BY <1>1, <2>1, <2>2, Zenon DEF Frame
    <3>2. QED
      BY <3>1 DEF Send
  <2>4. PICK now : now = [q \in DOMAIN sent |-> Encode(q, ValueOf(q, f, got.active, got.eyeActive))]
    OBVIOUS
  <2>5. sent' = Taken(sent, now)
    BY <2>3, <2>4, SendIs
  <2>6. EncodedNow(r)' = Encode(r, ValueOf(r, face', lastActive', eyeActive'))
    BY DEF EncodedNow
  <2>7. r \in DOMAIN sent /\ now[r] = EncodedNow(r)'
    BY <1>1, <2>2, <2>3, <2>4, <2>5, <2>6 DEF Taken
  <2>8. sent'[r] = now[r] \/ (sent'[r] = sent[r] /\ ~NeedsSending(r, sent[r], now[r]))
    BY <2>5, <2>7 DEF Taken
  <2>9. HeardAsSent(sent', heard')
    BY <1>1, FrameKeeps DEF SilenceInv
  <2>10. heard'[r.at] = sent'[r]
    BY <1>1, <2>9 DEF HeardAsSent
  <2>11. QED
    BY <2>7, <2>8, <2>10
<1>2. SilenceInv /\ [Next]_vars => Heard \/ UNCHANGED vars
  <2> SUFFICES ASSUME SilenceInv, Next, pc = "frame", pc' = "listen", lastActive', told' = "told"
               PROVE  \A r \in DOMAIN sent' : r.at \in DOMAIN heard' =>
                        heard'[r.at] = EncodedNow(r)' \/ ~NeedsSending(r, heard'[r.at], EncodedNow(r)')
    OBVIOUS
  <2>1. PICK in, lost : Frame(in, lost)
    BY DEF Next, Start, Fail, Listen, Shutdown, Tick, Publish, ChangeAvatar
  <2>2. QED
    BY <1>1, <2>1
<1>3. QED
  BY <1>2, SilenceInvariance, PTL DEF Spec, RoutesAreCurrent
=============================================================================
