----------------------------- MODULE BodyProofs -----------------------------
(***************************************************************************)
(* The invariants of what a body is made of: the rotations of its bones    *)
(* (Calibration), for any strap, drift, poses, headings of other trackers  *)
(* and number of resets, and their lengths (BodyProportions), for any      *)
(* number of connections, heights and frames.                              *)
(***************************************************************************)
EXTENDS Calibration, BodyProportions, TLAPS

(***************************************************************************)
(* Calibration.  Angles are integers modulo a turn of 8: where several of  *)
(* them are added up, the step first names them as integers.               *)
(***************************************************************************)
\* Sums and differences of angles are angles.
LEMMA AnglesAdd ==
  ASSUME NEW a \in Int, NEW b \in Int
  PROVE  a \oplus b \in Angle /\ a \ominus b \in Angle
BY DEF \oplus, \ominus, Angle, Turn

\* Angles are integers, and none of the marks for something else.
LEMMA AnglesAreInts == Angle \subseteq Int /\ 0 \in Angle /\ None \notin Angle /\ Skewed \notin Angle
BY DEF Angle, Turn, None, Skewed

\* The signed form of an angle, and of the difference of a small one.
LEMMA SignedFits ==
  ASSUME NEW a \in Angle
  PROVE  Signed(a) \in (1 - Turn)..Turn
BY DEF Signed, Angle, Turn

\* A product with a difference of times, and a quotient that comes out even.
LEMMA Distributes ==
  ASSUME NEW k \in Int, NEW a \in Int, NEW b \in Int
  PROVE  k * (b - a) = k * b - k * a /\ k * a \in Int
OBVIOUS

\* A drift in proportion to the time it took, scaled to another time.
LEMMA Divides ==
  ASSUME NEW k \in Int, NEW n \in Nat, NEW m \in Nat, n > 0
  PROVE  ((0 - k * n) * m) \div n = 0 - k * m
OBVIOUS

\* The drift between two resets of the same aim.
LEMMA DriftSeen ==
  ASSUME NEW r \in Int, NEW h \in Int, NEW aim \in Int, aim = r \ominus h,
         NEW q \in Int, 2 * q \in (1 - Turn)..(Turn - 1)
  PROVE  Signed(r \ominus (h \oplus (aim + q))) = 0 - q
BY DEF \oplus, \ominus, Signed, Turn

\* The sensor drifts by less than half a turn.
LEMMA DriftIsSmall ==
  ASSUME NEW t \in 0..MaxTime
  PROVE  2 * (DriftRate * t) \in (1 - Turn)..(Turn - 1)
<1>1. DriftRate \in Int /\ MaxTime \in Nat /\ t \in Nat /\ t <= MaxTime
  BY CalibrationAssumption
<1>2. 2 * (DriftRate * MaxTime) \in (1 - Turn)..(Turn - 1)
  <2>1. 2 * DriftRate * MaxTime = 2 * (DriftRate * MaxTime)
    BY <1>1
  <2>2. QED
    BY <2>1, CalibrationAssumption
<1>3. CASE DriftRate >= 0
  <2>1. 0 <= DriftRate * t /\ DriftRate * t <= DriftRate * MaxTime
    BY <1>1, <1>3
  <2>2. QED
    BY <1>1, <1>2, <2>1 DEF Turn
<1>4. CASE DriftRate < 0
  <2>1. DriftRate * MaxTime <= DriftRate * t /\ DriftRate * t <= 0
    BY <1>1, <1>4
  <2>2. QED
    BY <1>1, <1>2, <2>1 DEF Turn
<1>5. QED
  BY <1>1, <1>3, <1>4

-----------------------------------------------------------------------------
\* Everything that is read and shown is an angle.
LEMMA Readings ==
  ASSUME TypeOK
  PROVE  /\ heading \in Angle /\ leaning \in BOOLEAN /\ now \in Nat /\ MaxTime \in Nat
         /\ \A m \in Angle : Strap[m] \in Angle
         /\ Drifted \in Int /\ DriftRate \in Int
         /\ SkiLean \in Angle
         /\ \A m \in Angle : /\ Mounted(m).yaw = heading \oplus (Drifted + Strap[m])
                             /\ Mounted(m).yaw \in Angle
                             /\ leaning => Mounted(m).lean = SkiLean \ominus Strap[m]
                             /\ leaning => Mounted(m).lean \in Angle
         /\ Aligned.yaw = calib.gyro \oplus Mounted(calib.mounting).yaw
         /\ Aligned.yaw \in Angle
<1>1. body \in Poses /\ calib \in TrackerCalibration /\ now \in 0..MaxTime
  BY DEF TypeOK, Time
<1>2. heading \in Angle /\ leaning \in BOOLEAN
  BY <1>1, CalibrationAssumption DEF heading, leaning
<1>3. DriftRate \in Int /\ MaxTime \in Nat /\ now \in Nat /\ \A m \in Angle : Strap[m] \in Angle
  BY <1>1, CalibrationAssumption
<1>4. Drifted \in Int
  BY <1>3 DEF Drifted
<1>5. SkiLean \in Angle
  BY DEF SkiLean, Angle, Turn
<1>6. ASSUME NEW m \in Angle
      PROVE  /\ Mounted(m).yaw = heading \oplus (Drifted + Strap[m]) /\ Mounted(m).yaw \in Angle
             /\ leaning => Mounted(m).lean = SkiLean \ominus Strap[m] /\ Mounted(m).lean \in Angle
  <2>1. Mounted(m).yaw = heading \oplus (Drifted + Strap[m])
    BY DEF Mounted
  <2>2. leaning => Mounted(m).lean = SkiLean \ominus Strap[m]
    BY DEF Mounted
  <2>3. heading \in Int /\ Drifted + Strap[m] \in Int /\ SkiLean \in Int /\ Strap[m] \in Int
    <3>1. heading \in Int /\ SkiLean \in Int /\ Strap[m] \in Int
      BY <1>2, <1>3, <1>5, AnglesAreInts
    <3>2. QED
      BY <1>4, <3>1
  <2>4. QED
    BY <2>1, <2>2, <2>3, AnglesAdd
<1>7. calib.gyro \in Angle /\ calib.mounting \in Angle
  BY <1>1 DEF TrackerCalibration
<1>8. Aligned.yaw = calib.gyro \oplus Mounted(calib.mounting).yaw
  BY DEF Aligned
<1>9. Aligned.yaw \in Angle
  <2>1. calib.gyro \in Int /\ Mounted(calib.mounting).yaw \in Int
    BY <1>6, <1>7, AnglesAreInts
  <2>2. QED
    BY <1>8, <2>1, AnglesAdd
<1>10. QED
  BY <1>2, <1>3, <1>4, <1>5, <1>6, <1>8, <1>9

\* The yaw fix in force is an angle, and the yaw fix once it is eased in.
LEMMA YawFixInForce ==
  ASSUME TypeOK
  PROVE  EffectiveYawFix \in Angle /\ (~Easing => EffectiveYawFix = calib.yawFix)
<1>1. /\ calib.yawFix \in Angle /\ calib.yawStart \in Angle /\ now \in Nat
      /\ calib.easedSince \in Nat \cup {None} /\ Ease \in Nat \ {0}
  BY CalibrationAssumption, Readings DEF TypeOK, TrackerCalibration, Time
<1>2. CASE ~Easing
  BY <1>1, <1>2 DEF EffectiveYawFix
<1>3. CASE Easing
  <2> DEFINE whole == Signed(calib.yawFix \ominus calib.yawStart)
             part == (whole * (now - calib.easedSince)) \div Ease
  <2>1. whole \in Int
    <3>1. calib.yawFix \ominus calib.yawStart \in Angle
      BY <1>1, AnglesAdd, AnglesAreInts
    <3>2. \A i \in (1 - Turn)..Turn : i \in Int
      BY DEF Turn
    <3>3. QED
      BY <3>1, <3>2, SignedFits
  <2>2. EffectiveYawFix = calib.yawStart \oplus part
    BY <1>3 DEF EffectiveYawFix
  <2>3. now - calib.easedSince \in Int
    BY <1>1 DEF None
  <2> HIDE DEF whole
  <2>4. part \in Int
    BY <1>1, <2>1, <2>3
  <2> HIDE DEF part
  <2>5. QED
    BY <1>1, <1>3, <2>2, <2>4, AnglesAdd, AnglesAreInts
<1>4. QED
  BY <1>2, <1>3

\* What a reset is given.
LEMMA ResetInputs ==
  ASSUME TypeOK
  PROVE  /\ Yaws \subseteq Angle /\ (Known => Yaws = {Aligned.yaw})
         /\ References \subseteq Angle
         /\ \A ref \in References : LeanDirections(ref) \subseteq Angle
<1>1. Unclear \subseteq Angle /\ Elsewhere \subseteq Angle /\ hmd \in Angle \cup {None}
  BY CalibrationAssumption DEF TypeOK
<1>2. Yaws \subseteq Angle /\ (Known => Yaws = {Aligned.yaw})
  BY <1>1, Readings DEF Yaws
<1>3. References \subseteq Angle
  BY <1>1, Readings, AnglesAreInts DEF References
<1>4. ASSUME NEW ref \in References PROVE LeanDirections(ref) \subseteq Angle
  <2>1. CASE ~(Straight /\ leaning)
    BY <1>1, <2>1 DEF LeanDirections
  <2>2. CASE Straight /\ leaning
    <3>1. LeanDirections(ref) =
            {(calib.yawFix + calib.gyro + Mounted(calib.mounting).yaw + Mounted(calib.mounting).lean)
               \ominus ref}
      BY <2>2 DEF LeanDirections
    <3>2. /\ calib.yawFix \in Int /\ calib.gyro \in Int /\ Mounted(calib.mounting).yaw \in Int
          /\ Mounted(calib.mounting).lean \in Int /\ ref \in Int
      BY <1>3, <2>2, Readings, AnglesAreInts DEF TypeOK, TrackerCalibration
    <3>3. calib.yawFix + calib.gyro + Mounted(calib.mounting).yaw + Mounted(calib.mounting).lean \in Int
      BY <3>2
    <3>4. QED
      BY <3>1, <3>2, <3>3, AnglesAdd
  <2>3. QED
    BY <2>1, <2>2
<1>5. QED
  BY <1>2, <1>3, <1>4

-----------------------------------------------------------------------------
\* What the drift compensation records.
LEMMA ElapsedIsTime ==
  ASSUME IInv
  PROVE  Elapsed \in Time /\ (calib.since # None => Elapsed = now - truth.at)
<1>1. now \in 0..MaxTime /\ MaxTime \in Nat /\ truth.at \in 0..MaxTime
  BY CalibrationAssumption DEF IInv, TypeOK, Time
<1>2. truth.at <= now /\ calib.since \in {None, truth.at}
  BY DEF IInv, SamplesAreTrue
<1>3. CASE calib.since = None
  BY <1>1, <1>3 DEF Elapsed, Time
<1>4. CASE calib.since # None
  <2>1. calib.since = truth.at /\ Elapsed = now - truth.at
    BY <1>2, <1>4 DEF Elapsed
  <2>2. QED
    BY <1>1, <1>2, <2>1 DEF Time
<1>5. QED
  BY <1>3, <1>4

\* Recording a drift touches no fix, and nothing else when learning is off.
LEMMA Records ==
  ASSUME IInv, NEW c \in TrackerCalibration, NEW before \in Angle, NEW after \in Angle,
         NEW r, r = Recorded(c, before, after)
  PROVE  /\ r \in TrackerCalibration
         /\ r.attachment = c.attachment /\ r.yawFix = c.yawFix /\ r.gyro = c.gyro
         /\ r.mountRot = c.mountRot /\ r.enabled = c.enabled /\ r.since = now
         /\ c.enabled => r.quat = Signed(after \ominus before) /\ r.duration = Elapsed
<1>1. now \in Time /\ Elapsed \in Time
  BY ElapsedIsTime DEF IInv, TypeOK
<1>2. Signed(after \ominus before) \in (1 - Turn)..Turn
  BY AnglesAdd, AnglesAreInts, SignedFits
<1>3. CASE ~c.enabled
  <2>1. r = [c EXCEPT !.since = now]
    BY <1>3 DEF Recorded
  <2>2. QED
    BY <1>1, <1>3, <2>1 DEF TrackerCalibration
<1>4. CASE c.enabled
  <2>1. r = [c EXCEPT !.quat = Signed(after \ominus before), !.duration = Elapsed, !.since = now]
    BY <1>4 DEF Recorded
  <2> HIDE DEF Elapsed
  <2>2. QED
    BY <1>1, <1>2, <2>1 DEF TrackerCalibration
<1>5. QED
  BY <1>3, <1>4

\* With fixes that add up, the heading is off by the aim and the drift since.
LEMMA HeadingFromFixes ==
  ASSUME TypeOK, FixesAddUp, Straight, truth.aim # None
  PROVE  calib.yawFix \oplus Aligned.yaw = heading \oplus (truth.aim + DriftRate * (now - truth.at))
<1> DEFINE m == calib.mounting
           d == DriftRate * truth.at
<1>1. m \in Angle /\ calib.attachment = m
  BY DEF TypeOK, TrackerCalibration, Straight
<1>2. truth.aim \in Angle /\ truth.at \in Nat /\ now \in Nat /\ DriftRate \in Int
  BY Readings DEF TypeOK, Time
<1>3. truth.aim = calib.yawFix \oplus (calib.gyro + d + Strap[m])
  BY <1>1 DEF FixesAddUp
<1>4. Aligned.yaw = calib.gyro \oplus (heading \oplus (Drifted + Strap[m]))
  BY <1>1, Readings
<1>5. Drifted - d = DriftRate * (now - truth.at) /\ d \in Int /\ Drifted \in Int
  BY <1>2, Distributes DEF Drifted
<1>6. calib.yawFix \in Int /\ calib.gyro \in Int /\ heading \in Int /\ Strap[m] \in Int /\ truth.aim \in Int
  BY <1>1, <1>2, Readings, AnglesAreInts DEF TypeOK, TrackerCalibration
<1> HIDE DEF m, d
<1>7. calib.yawFix \oplus Aligned.yaw = heading \oplus (truth.aim + (Drifted - d))
  <2>1. PICK y \in Int, g \in Int, h \in Int, e \in Int, f \in Int, aim \in Int, x \in Int :
          /\ y = calib.yawFix /\ g = calib.gyro /\ h = heading /\ e = Drifted /\ f = d
          /\ aim = truth.aim /\ x = Strap[m]
    BY <1>5, <1>6
  <2>2. aim = y \oplus (g + f + x)
    BY <1>3, <2>1
  <2>3. y \oplus (g \oplus (h \oplus (e + x))) = h \oplus (aim + (e - f))
    BY <2>2 DEF \oplus, Turn
  <2>4. QED
    BY <1>4, <2>1, <2>3
<1>8. QED
  BY <1>5, <1>7

-----------------------------------------------------------------------------
\* A reset that concerns the heading, given what it makes of the other fixes.
LEMMA StandingReset ==
  ASSUME IInv, NEW c \in TrackerCalibration, NEW before \in Angle, NEW ref \in Angle,
         NEW aim \in Angle \cup {None},
         calib' = Recorded(c, before, ref), truth' = AfterStanding(aim),
         UNCHANGED <<position, hmd, body, now>>,
         c.enabled = calib.enabled, c.mountRot = calib.mountRot,
         aim # None => /\ c.attachment \in Angle /\ aim = ref \ominus heading
                       /\ aim = c.yawFix \oplus (c.gyro + Drifted + Strap[c.attachment]),
         Known /\ ~Easing => before = calib.yawFix \oplus Aligned.yaw
  PROVE  IInv'
<1>1. /\ calib' \in TrackerCalibration
      /\ calib'.attachment = c.attachment /\ calib'.yawFix = c.yawFix /\ calib'.gyro = c.gyro
      /\ calib'.mountRot = c.mountRot /\ calib'.enabled = c.enabled /\ calib'.since = now
      /\ c.enabled => calib'.quat = Signed(ref \ominus before) /\ calib'.duration = Elapsed
  BY Records
<1>2. /\ truth' \in [aim : Angle \cup {None}, at : Time, repeated : BOOLEAN,
                     axis : Angle \cup {None}, learned : 0..2]
      /\ truth'.aim = aim /\ truth'.at = now /\ truth'.axis = truth.axis
      /\ truth'.repeated => aim # None /\ truth.aim = aim /\ Known /\ ~Easing
      /\ truth'.learned = IF truth.learned < 2 THEN truth.learned + 1 ELSE 2
  <2>1. /\ truth \in [aim : Angle \cup {None}, at : Time, repeated : BOOLEAN,
                      axis : Angle \cup {None}, learned : 0..2]
        /\ now \in Time
    BY DEF IInv, TypeOK
  <2> DEFINE rep == aim # None /\ truth.aim = aim /\ Known /\ ~Easing
             lea == IF truth.learned < 2 THEN truth.learned + 1 ELSE 2
  <2>2. rep \in BOOLEAN
    OBVIOUS
  <2>3. lea \in 0..2
    BY <2>1
  <2>4. truth' = [truth EXCEPT !.aim = aim, !.at = now, !.repeated = rep, !.learned = lea]
    BY DEF AfterStanding
  <2>5. rep => aim # None /\ truth.aim = aim /\ Known /\ ~Easing
    OBVIOUS
  <2>6. truth'.learned = lea
    BY <2>1, <2>4
  <2> HIDE DEF rep, lea
  <2>7. /\ truth' \in [aim : Angle \cup {None}, at : Time, repeated : BOOLEAN,
                       axis : Angle \cup {None}, learned : 0..2]
        /\ truth'.aim = aim /\ truth'.at = now /\ truth'.axis = truth.axis /\ truth'.repeated = rep
    BY <2>1, <2>2, <2>3, <2>4
  <2>8. QED
    BY <2>5, <2>6, <2>7 DEF lea
<1>3. TypeOK'
  BY <1>1, <1>2 DEF IInv, TypeOK
<1>4. FixesAddUp'
  BY <1>1, <1>2, AnglesAreInts DEF FixesAddUp, Drifted
<1>5. AxisIsTurnedBack'
  BY <1>1, <1>2 DEF IInv, AxisIsTurnedBack
<1>6. ASSUME HasDriftSample'
      PROVE  /\ calib.since # None /\ calib.enabled /\ c.enabled
             /\ calib'.duration = now - truth.at /\ now - truth.at \in 0..MaxTime
  <2>1. c.enabled /\ calib.enabled /\ Elapsed > 0
    BY <1>1, <1>6 DEF HasDriftSample
  <2>2. calib.since # None
    BY <2>1 DEF Elapsed
  <2>3. QED
    BY <1>1, <2>1, <2>2, ElapsedIsTime DEF Time
<1>7. ASSUME HasDriftSample', truth'.repeated
      PROVE  truth'.aim # None /\ calib'.quat = 0 - DriftRate * calib'.duration
  <2> DEFINE q == DriftRate * (now - truth.at)
  <2>1. aim # None /\ truth.aim = aim /\ Known /\ ~Easing
    BY <1>2, <1>7
  <2>2. before = heading \oplus (aim + q)
    BY <2>1, HeadingFromFixes DEF Known, IInv
  <2>3. calib'.quat = Signed(ref \ominus before) /\ calib'.duration = now - truth.at /\ now - truth.at \in 0..MaxTime
    BY <1>1, <1>6, <1>7
  <2>4. 2 * q \in (1 - Turn)..(Turn - 1) /\ q \in Int
    BY <2>3, DriftIsSmall, Readings, Distributes DEF IInv
  <2>5. aim = ref \ominus heading /\ aim \in Int /\ ref \in Int /\ heading \in Int
    BY <2>1, Readings, AnglesAreInts DEF IInv
  <2> HIDE DEF q
  <2>6. Signed(ref \ominus before) = 0 - q
    BY <2>2, <2>4, <2>5, DriftSeen
  <2>7. QED
    BY <1>2, <2>1, <2>3, <2>6 DEF q
<1>8. SamplesAreTrue'
  <2>1. now \in Nat /\ truth.learned \in 0..2
    BY Readings DEF IInv, TypeOK
  <2>2. truth'.at <= now' /\ calib'.since \in {None, truth'.at} /\ truth'.learned > 0
    BY <1>1, <1>2, <2>1
  <2>3. HasDriftSample' => calib'.since # None /\ truth'.learned = 2
    <3>1. SUFFICES ASSUME HasDriftSample' PROVE calib'.since # None /\ truth'.learned = 2
      OBVIOUS
    <3>2. truth.learned > 0
      BY <1>6, <3>1 DEF IInv, SamplesAreTrue
    <3>3. now # None
      BY <2>1 DEF None
    <3>4. QED
      BY <1>1, <1>2, <2>1, <3>2, <3>3
  <2>4. QED
    BY <1>7, <2>2, <2>3 DEF SamplesAreTrue
<1>9. QED
  BY <1>3, <1>4, <1>5, <1>8 DEF IInv

\* The heading a reset finds is an angle, and the heading shown if the yaw is
\* known and nothing is being eased in.
LEMMA HeadingBefore ==
  ASSUME IInv, NEW yaw \in Yaws
  PROVE  /\ yaw \in Angle /\ EffectiveYawFix \oplus yaw \in Angle
         /\ Known => yaw = Aligned.yaw
         /\ Known /\ ~Easing => EffectiveYawFix \oplus yaw = calib.yawFix \oplus Aligned.yaw
<1>1. yaw \in Angle /\ (Known => yaw = Aligned.yaw)
  BY ResetInputs DEF IInv
<1>2. EffectiveYawFix \in Angle /\ (~Easing => EffectiveYawFix = calib.yawFix)
  BY YawFixInForce DEF IInv
<1>3. QED
  BY <1>1, <1>2, AnglesAdd, AnglesAreInts

\* The bound on the number of resets.
LEMMA CountedResets ==
  ASSUME TypeOK, CanReset
  PROVE  calib.resets + 1 \in 0..MaxResets
<1>1. calib.resets \in 0..MaxResets
  BY DEF TypeOK, TrackerCalibration
<1>2. QED
  BY <1>1, CalibrationAssumption DEF CanReset

\* The three resets (Calibration::full_reset, yaw_reset, mounting_reset).
LEMMA ResetIInv ==
  ASSUME IInv, Reset
  PROVE  IInv'
<1>1. PICK ref \in References, yaw \in Yaws :
        /\ calib' = FullReset(ref, yaw)
        /\ truth' = AfterStanding(IF leaning THEN None ELSE ref \ominus heading)
  BY DEF Reset
<1> DEFINE m == calib.mounting
           read == Mounted(m).yaw
           c == [calib EXCEPT !.resets = @ + 1, !.gyro = 0 \ominus read,
                   !.attachment = IF leaning THEN Skewed ELSE m,
                   !.yawFix = ref, !.easedSince = None]
           aim == IF leaning THEN None ELSE ref \ominus heading
           before == EffectiveYawFix \oplus yaw
<1>2. /\ ref \in Angle /\ m \in Angle /\ read \in Angle /\ heading \in Angle /\ Drifted \in Int
      /\ Strap[m] \in Angle /\ read = heading \oplus (Drifted + Strap[m])
      /\ calib \in TrackerCalibration
  BY Readings, ResetInputs DEF IInv, TypeOK, TrackerCalibration
<1>3. 0 \ominus read \in Angle /\ ref \ominus heading \in Angle
  BY <1>2, AnglesAdd, AnglesAreInts
<1>4. /\ c \in TrackerCalibration
      /\ c.enabled = calib.enabled /\ c.mountRot = calib.mountRot /\ c.yawFix = ref
      /\ c.gyro = 0 \ominus read /\ (~leaning => c.attachment = m)
  <2>1. calib.resets + 1 \in 0..MaxResets
    BY CountedResets DEF IInv, Reset
  <2> DEFINE fix == IF leaning THEN Skewed ELSE m
  <2>2. fix \in Angle \cup {None, Skewed}
    BY <1>2
  <2>3. ~leaning => fix = m
    OBVIOUS
  <2>4. c = [calib EXCEPT !.resets = @ + 1, !.gyro = 0 \ominus read, !.attachment = fix,
                          !.yawFix = ref, !.easedSince = None]
    OBVIOUS
  <2> HIDE DEF read, m, fix, c
  <2>5. /\ c \in TrackerCalibration /\ c.enabled = calib.enabled /\ c.mountRot = calib.mountRot
        /\ c.yawFix = ref /\ c.gyro = 0 \ominus read /\ c.attachment = fix
    BY <1>2, <1>3, <2>1, <2>2, <2>4 DEF TrackerCalibration
  <2>6. QED
    BY <2>3, <2>5
<1>5. before \in Angle /\ (Known /\ ~Easing => before = calib.yawFix \oplus Aligned.yaw)
  BY HeadingBefore
<1>6. aim \in Angle \cup {None}
  BY <1>3
<1>7. ~leaning => aim = c.yawFix \oplus (c.gyro + Drifted + Strap[c.attachment])
  <2>1. PICK r \in Int, h \in Int, d \in Int, s \in Int :
          r = ref /\ h = heading /\ d = Drifted /\ s = Strap[m]
    BY <1>2, AnglesAreInts
  <2>2. r \ominus h = r \oplus ((0 \ominus (h \oplus (d + s))) + d + s)
    BY DEF \oplus, \ominus, Turn
  <2> HIDE DEF c, read, m
  <2>3. QED
    BY <1>2, <1>4, <2>1, <2>2
<1>8. aim # None => c.attachment \in Angle /\ aim = ref \ominus heading
  <2>1. aim # None => ~leaning
    OBVIOUS
  <2> HIDE DEF c
  <2>2. QED
    BY <1>2, <1>4, <2>1
<1>9. aim # None => ~leaning
  OBVIOUS
<1>10. calib' = Recorded(c, before, ref) /\ truth' = AfterStanding(aim) /\ UNCHANGED <<position, hmd, body, now>>
  BY <1>1 DEF FullReset, Reset
<1> HIDE DEF c, aim, before
<1>11. QED
  BY <1>2, <1>4, <1>5, <1>6, <1>7, <1>8, <1>9, <1>10, StandingReset

\* A yaw reset aims if the yaw before it is known.
LEMMA ResetYawIInv ==
  ASSUME IInv, ResetYaw
  PROVE  IInv'
<1>1. PICK ref \in References, yaw \in Yaws :
        /\ calib' = YawReset(ref, yaw)
        /\ truth' = AfterStanding(IF Known THEN ref \ominus heading ELSE None)
  BY DEF ResetYaw
<1> DEFINE m == calib.mounting
           c == [calib EXCEPT !.resets = @ + 1, !.yawStart = calib.yawFix,
                   !.yawFix = ref \ominus yaw, !.easedSince = now]
           aim == IF Known THEN ref \ominus heading ELSE None
           before == EffectiveYawFix \oplus yaw
<1>2. /\ ref \in Angle /\ m \in Angle /\ heading \in Angle /\ Drifted \in Int
      /\ Strap[m] \in Angle /\ yaw \in Angle /\ now \in Time
      /\ Aligned.yaw = calib.gyro \oplus (heading \oplus (Drifted + Strap[m]))
      /\ calib \in TrackerCalibration
  BY Readings, ResetInputs DEF IInv, TypeOK, TrackerCalibration
<1>3. ref \ominus yaw \in Angle /\ ref \ominus heading \in Angle
  BY <1>2, AnglesAdd, AnglesAreInts
<1>4. /\ c \in TrackerCalibration
      /\ c.enabled = calib.enabled /\ c.mountRot = calib.mountRot /\ c.yawFix = ref \ominus yaw
      /\ c.gyro = calib.gyro /\ c.attachment = calib.attachment /\ calib.gyro \in Angle
  <2>1. calib.resets + 1 \in 0..MaxResets
    BY CountedResets DEF IInv, ResetYaw
  <2>2. QED
    BY <1>2, <1>3, <2>1 DEF TrackerCalibration
<1>5. /\ before \in Angle /\ (Known /\ ~Easing => before = calib.yawFix \oplus Aligned.yaw)
      /\ Known => yaw = Aligned.yaw
  BY HeadingBefore
<1>6. aim \in Angle \cup {None} /\ (aim # None => Known) /\ (Known => aim = ref \ominus heading)
  BY <1>3
<1>7. Known => c.attachment = m
  BY <1>4 DEF Known, Straight
<1>8. Known => ref \ominus heading = c.yawFix \oplus (c.gyro + Drifted + Strap[c.attachment])
  <2>1. PICK r \in Int, h \in Int, d \in Int, s \in Int, g \in Int :
          r = ref /\ h = heading /\ d = Drifted /\ s = Strap[m] /\ g = calib.gyro
    BY <1>2, <1>4, AnglesAreInts
  <2>2. r \ominus h = (r \ominus (g \oplus (h \oplus (d + s)))) \oplus (g + d + s)
    BY DEF \oplus, \ominus, Turn
  <2> HIDE DEF c, m
  <2>3. QED
    BY <1>2, <1>4, <1>5, <1>7, <2>1, <2>2
<1>10. calib' = Recorded(c, before, ref) /\ truth' = AfterStanding(aim) /\ UNCHANGED <<position, hmd, body, now>>
  BY <1>1 DEF YawReset, ResetYaw
<1> HIDE DEF c, aim, before
<1>11. QED
  BY <1>2, <1>4, <1>5, <1>6, <1>7, <1>8, <1>10, StandingReset

\* A mounting reset that finds the bend axis undoes the strap.
LEMMA AxisFound ==
  ASSUME IInv, NEW ref \in References, NEW direction \in LeanDirections(ref), FindsAxis(ref)
  PROVE  direction \ominus SkiLean = 0 \ominus Strap[calib.mounting]
<1> DEFINE m == calib.mounting
<1>1. Straight /\ leaning /\ truth.aim = ref \ominus heading /\ Drifted = DriftRate * truth.at
  BY DEF FindsAxis
<1>2. /\ ref \in Angle /\ m \in Angle /\ heading \in Angle /\ Drifted \in Int /\ SkiLean \in Angle
      /\ Strap[m] \in Angle /\ calib.yawFix \in Angle /\ calib.gyro \in Angle
      /\ Mounted(m).yaw = heading \oplus (Drifted + Strap[m])
      /\ Mounted(m).lean = SkiLean \ominus Strap[m]
  BY <1>1, Readings, ResetInputs DEF IInv, TypeOK, TrackerCalibration
<1>3. truth.aim # None
  BY <1>1, <1>2, AnglesAdd, AnglesAreInts
<1>4. truth.aim = calib.yawFix \oplus (calib.gyro + Drifted + Strap[m])
  BY <1>1, <1>3 DEF IInv, FixesAddUp, Straight
<1>5. direction = (calib.yawFix + calib.gyro + Mounted(m).yaw + Mounted(m).lean) \ominus ref
  BY <1>1 DEF LeanDirections
<1> HIDE DEF m
<1>6. PICK y \in Int, g \in Int, h \in Int, d \in Int, x \in Int, k \in Int, r \in Int :
        /\ y = calib.yawFix /\ g = calib.gyro /\ h = heading /\ d = Drifted
        /\ x = Strap[m] /\ k = SkiLean /\ r = ref
  BY <1>2, AnglesAreInts
<1>7. r \ominus h = y \oplus (g + d + x)
  BY <1>1, <1>4, <1>6
<1>8. ((y + g + (h \oplus (d + x)) + (k \ominus x)) \ominus r) \ominus k = 0 \ominus x
  BY <1>7 DEF \oplus, \ominus, Turn
<1>9. QED
  BY <1>2, <1>5, <1>6, <1>8 DEF m

\* A mounting reset changes the mounting fix alone.
LEMMA ResetMountingIInv ==
  ASSUME IInv, ResetMounting
  PROVE  IInv'
<1>1. PICK ref \in References : \E direction \in LeanDirections(ref) :
        /\ calib' = MountingReset(direction)
        /\ truth' = [truth EXCEPT !.axis = IF FindsAxis(ref) THEN calib.mounting ELSE None]
  BY DEF ResetMounting
<1>2. PICK direction \in LeanDirections(ref) :
        /\ calib' = MountingReset(direction)
        /\ truth' = [truth EXCEPT !.axis = IF FindsAxis(ref) THEN calib.mounting ELSE None]
  BY <1>1
<1> DEFINE axis == IF FindsAxis(ref) THEN calib.mounting ELSE None
           fix == direction \ominus SkiLean
<1>3. /\ calib \in TrackerCalibration /\ calib.mounting \in Angle
      /\ direction \in Angle /\ SkiLean \in Angle /\ fix \in Angle
  BY Readings, ResetInputs, AnglesAdd, AnglesAreInts DEF IInv, TypeOK, TrackerCalibration
<1>4. axis \in Angle \cup {None} /\ (axis # None => fix = 0 \ominus Strap[axis])
  BY <1>3, AxisFound
<1>5. calib' = [calib EXCEPT !.resets = @ + 1, !.mountRot = fix] /\ truth' = [truth EXCEPT !.axis = axis]
  BY <1>2 DEF MountingReset
<1>6. UNCHANGED <<position, hmd, body, now>> /\ calib.resets + 1 \in 0..MaxResets
  BY CountedResets DEF ResetMounting, IInv
<1> HIDE DEF axis, fix
<1>7. /\ calib' \in TrackerCalibration /\ calib'.mountRot = fix
      /\ calib'.attachment = calib.attachment /\ calib'.yawFix = calib.yawFix /\ calib'.gyro = calib.gyro
      /\ calib'.enabled = calib.enabled /\ calib'.since = calib.since
      /\ calib'.quat = calib.quat /\ calib'.duration = calib.duration
  BY <1>3, <1>5, <1>6 DEF TrackerCalibration
<1>8. /\ truth' \in [aim : Angle \cup {None}, at : Time, repeated : BOOLEAN,
                     axis : Angle \cup {None}, learned : 0..2]
      /\ truth'.axis = axis /\ truth'.aim = truth.aim /\ truth'.at = truth.at
      /\ truth'.repeated = truth.repeated /\ truth'.learned = truth.learned
  BY <1>4, <1>5 DEF IInv, TypeOK
<1>9. TypeOK'
  BY <1>6, <1>7, <1>8 DEF IInv, TypeOK
<1>10. FixesAddUp'
  BY <1>7, <1>8 DEF IInv, FixesAddUp
<1>11. AxisIsTurnedBack'
  BY <1>4, <1>7, <1>8 DEF AxisIsTurnedBack
<1>12. SamplesAreTrue'
  BY <1>6, <1>7, <1>8 DEF IInv, SamplesAreTrue, HasDriftSample
<1>13. QED
  BY <1>9, <1>10, <1>11, <1>12 DEF IInv

\* The position only replaces the mounting.
LEMMA SetMountingIInv ==
  ASSUME IInv, NEW p \in Places, SetMounting(p)
  PROVE  IInv'
<1>1. position' = p /\ calib' = [calib EXCEPT !.mounting = DefaultMounting(p)]
      /\ UNCHANGED <<hmd, body, now, truth>>
  BY DEF SetMounting
<1>2. DefaultMounting(p) \in Angle
  BY DEF DefaultMounting, Angle, Turn
<1>3. /\ calib' \in TrackerCalibration /\ calib'.mountRot = calib.mountRot
      /\ calib'.attachment = calib.attachment /\ calib'.yawFix = calib.yawFix /\ calib'.gyro = calib.gyro
      /\ calib'.enabled = calib.enabled /\ calib'.since = calib.since
      /\ calib'.quat = calib.quat /\ calib'.duration = calib.duration
  BY <1>1, <1>2 DEF IInv, TypeOK, TrackerCalibration
<1>4. TypeOK'
  BY <1>1, <1>3 DEF IInv, TypeOK
<1>5. FixesAddUp' /\ AxisIsTurnedBack' /\ SamplesAreTrue'
  BY <1>1, <1>3 DEF IInv, FixesAddUp, AxisIsTurnedBack, SamplesAreTrue, HasDriftSample
<1>6. QED
  BY <1>4, <1>5 DEF IInv

\* Switching learning on or off, and clearing, forget what was learned.
LEMMA ForgetDrift ==
  ASSUME IInv, NEW on \in BOOLEAN, calib' = [Cleared EXCEPT !.enabled = on],
         truth' = [truth EXCEPT !.learned = 0], UNCHANGED <<position, hmd, body, now>>
  PROVE  IInv'
<1>1. /\ calib' \in TrackerCalibration /\ calib'.mountRot = calib.mountRot
      /\ calib'.attachment = calib.attachment /\ calib'.yawFix = calib.yawFix /\ calib'.gyro = calib.gyro
      /\ calib'.since = None /\ calib'.duration = 0
  <2>1. 0 \in (1 - Turn)..Turn /\ 0 \in Time
    BY CalibrationAssumption DEF Turn, Time
  <2>2. QED
    BY <2>1 DEF IInv, TypeOK, TrackerCalibration, Cleared
<1>2. /\ truth' \in [aim : Angle \cup {None}, at : Time, repeated : BOOLEAN,
                     axis : Angle \cup {None}, learned : 0..2]
      /\ truth'.axis = truth.axis /\ truth'.aim = truth.aim /\ truth'.at = truth.at
  BY DEF IInv, TypeOK
<1>3. TypeOK'
  BY <1>1, <1>2 DEF IInv, TypeOK
<1>4. FixesAddUp' /\ AxisIsTurnedBack'
  BY <1>1, <1>2 DEF IInv, FixesAddUp, AxisIsTurnedBack
<1>5. SamplesAreTrue'
  BY <1>1, <1>2 DEF IInv, SamplesAreTrue, HasDriftSample
<1>6. QED
  BY <1>3, <1>4, <1>5 DEF IInv

\* configure_drift and clear_drift.
LEMMA DriftSettingsIInv ==
  ASSUME IInv, ClearDrift \/ \E on \in BOOLEAN : ConfigureDrift(on)
  PROVE  IInv'
<1>1. calib \in TrackerCalibration /\ calib.enabled \in BOOLEAN
  BY DEF IInv, TypeOK, TrackerCalibration
<1>2. CASE ClearDrift
  <2>1. calib' = [Cleared EXCEPT !.enabled = calib.enabled]
    BY <1>1, <1>2 DEF ClearDrift, Cleared, TrackerCalibration
  <2>2. QED
    BY <1>1, <1>2, <2>1, ForgetDrift DEF ClearDrift
<1>3. ASSUME NEW on \in BOOLEAN, ConfigureDrift(on) PROVE IInv'
  <2>1. CASE calib.enabled # on
    <3>1. calib' = [Cleared EXCEPT !.enabled = on] /\ truth' = [truth EXCEPT !.learned = 0]
      BY <1>3, <2>1 DEF ConfigureDrift, Configured
    <3>2. QED
      BY <1>3, <3>1, ForgetDrift DEF ConfigureDrift
  <2>2. CASE calib.enabled = on
    <3>1. calib' = calib
      BY <1>1, <1>3, <2>2 DEF ConfigureDrift, Configured, TrackerCalibration
    <3>2. truth' = truth
      BY <1>3, <2>2 DEF ConfigureDrift, IInv, TypeOK
    <3>3. QED
      BY <1>3, <3>1, <3>2 DEF ConfigureDrift, IInv, TypeOK, FixesAddUp, AxisIsTurnedBack,
                             SamplesAreTrue, HasDriftSample
  <2>3. QED
    BY <2>1, <2>2
<1>4. QED
  BY <1>2, <1>3

\* The headset, the user and the clock.
LEMMA SurroundingsIInv ==
  ASSUME IInv, HmdPose \/ Tick \/ UNCHANGED vars \/ \E pose \in Poses : Move(pose)
  PROVE  IInv'
<1>1. UNCHANGED <<calib, position, truth>>
  BY DEF HmdPose, Tick, Move, vars
<1>2. hmd' \in {hmd, heading} /\ (body' = body \/ body' \in Poses) /\ now' \in 0..MaxTime /\ now' >= now
  <2>1. now \in 0..MaxTime /\ MaxTime \in Nat
    BY CalibrationAssumption DEF IInv, TypeOK, Time
  <2>2. QED
    BY <2>1 DEF HmdPose, Tick, Move, vars
<1>3. TypeOK'
  BY <1>1, <1>2, Readings DEF IInv, TypeOK, Time
<1>4. FixesAddUp' /\ AxisIsTurnedBack'
  BY <1>1 DEF IInv, FixesAddUp, AxisIsTurnedBack
<1>5. SamplesAreTrue'
  <2>1. truth.at \in Nat /\ now \in Nat /\ now' \in Nat
    BY <1>2, Readings DEF IInv, TypeOK, Time
  <2>2. truth.at <= now'
    BY <1>2, <2>1 DEF IInv, SamplesAreTrue
  <2>3. QED
    BY <1>1, <2>2 DEF IInv, SamplesAreTrue, HasDriftSample
<1>6. QED
  BY <1>3, <1>4, <1>5 DEF IInv

\* A tracker that has not been reset.
LEMMA Initially == Init => IInv
<1> SUFFICES ASSUME Init PROVE IInv
  OBVIOUS
<1>1. PICK on \in BOOLEAN : calib = Fresh(position, on)
  BY DEF Init
<1>2. /\ 0 \in Angle /\ 0 \in Time /\ 0 \in 0..MaxResets /\ 0 \in (1 - Turn)..Turn
      /\ DefaultMounting(position) \in Angle
  BY CalibrationAssumption DEF Angle, Time, Turn, DefaultMounting
<1>3. /\ calib \in TrackerCalibration /\ calib.since = None /\ calib.duration = 0
  BY <1>1, <1>2 DEF Fresh, TrackerCalibration
<1>4. /\ truth = NoTruth /\ now = 0 /\ hmd = None /\ body \in Poses /\ position \in Places
  BY DEF Init
<1>5. TypeOK
  BY <1>2, <1>3, <1>4 DEF TypeOK, NoTruth
<1>6. FixesAddUp /\ AxisIsTurnedBack /\ SamplesAreTrue
  BY <1>3, <1>4 DEF FixesAddUp, AxisIsTurnedBack, SamplesAreTrue, HasDriftSample, NoTruth
<1>7. QED
  BY <1>5, <1>6 DEF IInv

-----------------------------------------------------------------------------
\* The invariant of calibration.rs.
THEOREM Invariance == Spec => []IInv
<1>1. IInv /\ [Next]_vars => IInv'
  BY ResetIInv, ResetYawIInv, ResetMountingIInv, SetMountingIInv, DriftSettingsIInv, SurroundingsIInv
     DEF Next
<1> QED BY Initially, <1>1, PTL DEF Spec

\* Whatever came before, the heading shown is off by the aim of the last
\* standing reset and by the drift since.
THEOREM HeadingIsReset == Spec => []HeadingFollowsReset
<1>1. IInv => HeadingFollowsReset
  <2> SUFFICES ASSUME IInv, Straight, truth.aim # None, ~Easing
               PROVE  Referred = heading \oplus (truth.aim + DriftRate * (now - truth.at))
    BY DEF HeadingFollowsReset
  <2>1. EffectiveYawFix = calib.yawFix
    BY YawFixInForce DEF IInv
  <2> QED BY <2>1, HeadingFromFixes DEF Referred, IInv
<1> QED BY <1>1, Invariance, PTL

\* However the sensor is turned on the limb, bends show in their direction.
THEOREM BendsAreShown == Spec => []BendsShow
<1>1. IInv => BendsShow
  <2> SUFFICES ASSUME IInv, Straight, truth.axis = calib.mounting, leaning
               PROVE  Aligned.lean = SkiLean
    BY DEF BendsShow
  <2>1. /\ calib.mounting \in Angle /\ Mounted(calib.mounting).lean = SkiLean \ominus Strap[calib.mounting]
        /\ SkiLean \in Angle /\ Strap[calib.mounting] \in Angle
    BY Readings DEF IInv, TypeOK, TrackerCalibration
  <2>2. calib.mountRot = 0 \ominus Strap[calib.mounting]
    BY <2>1, AnglesAreInts DEF IInv, AxisIsTurnedBack
  <2>3. Aligned.lean = (SkiLean \ominus Strap[calib.mounting]) \ominus (0 \ominus Strap[calib.mounting])
    BY <2>1, <2>2 DEF Aligned
  <2>4. \A k \in Angle, x \in Angle : (k \ominus x) \ominus (0 \ominus x) = k
    BY DEF \ominus, Angle, Turn
  <2> QED BY <2>1, <2>3, <2>4
<1> QED BY <1>1, Invariance, PTL

\* Between two resets of the same aim the sensor drifts by what the
\* compensation takes away for as long again.
THEOREM DriftIsCompensated == Spec => []DriftIsCancelled
<1>1. ASSUME IInv, HasDriftSample, Straight, ~Easing, truth.repeated, Elapsed <= calib.duration
      PROVE  Shown = heading \oplus truth.aim
  <2>1. /\ calib.since # None /\ truth.aim # None /\ calib.quat = 0 - DriftRate * calib.duration
    BY <1>1 DEF IInv, SamplesAreTrue
  <2>2. /\ Elapsed = now - truth.at /\ Elapsed \in Nat /\ calib.duration \in Nat /\ calib.duration > 0
        /\ DriftRate \in Int
    BY <1>1, <2>1, ElapsedIsTime, Readings DEF IInv, TypeOK, TrackerCalibration, Time, HasDriftSample
  <2>3. Correction = 0 - DriftRate * Elapsed
    <3> HIDE DEF Elapsed
    <3>1. CASE Elapsed < calib.duration
      <4>1. Correction = ((0 - DriftRate * calib.duration) * Elapsed) \div calib.duration
        BY <1>1, <2>1, <3>1 DEF Correction
      <4>2. QED
        BY <2>2, <4>1, Divides
    <3>2. CASE Elapsed = calib.duration
      BY <1>1, <2>1, <2>2, <3>2 DEF Correction
    <3>3. Elapsed < calib.duration \/ Elapsed = calib.duration
      BY <1>1, <2>2
    <3>4. QED
      BY <3>1, <3>2, <3>3
  <2>4. Referred = heading \oplus (truth.aim + DriftRate * Elapsed)
    <3>1. EffectiveYawFix = calib.yawFix
      BY <1>1, YawFixInForce DEF IInv
    <3>2. QED
      BY <1>1, <2>1, <2>2, <3>1, HeadingFromFixes DEF Referred, IInv
  <2>5. PICK h \in Int, a \in Int, e \in Int :
          h = heading /\ a = truth.aim /\ e = DriftRate * Elapsed
    <3>1. heading \in Int
      BY <1>1, Readings, AnglesAreInts DEF IInv
    <3>2. truth.aim \in Int
      BY <1>1, <2>1, AnglesAreInts DEF IInv, TypeOK
    <3>3. DriftRate * Elapsed \in Int
      <4> HIDE DEF Elapsed
      <4>1. QED
        BY <2>2
    <3>4. QED
      BY <3>1, <3>2, <3>3
  <2>6. (h \oplus (a + e)) \oplus (0 - e) = h \oplus a
    BY DEF \oplus, Turn
  <2> QED BY <2>3, <2>4, <2>5, <2>6 DEF Shown
<1>2. IInv => DriftIsCancelled
  BY <1>1 DEF IInv, SamplesAreTrue, DriftIsCancelled
<1> QED BY <1>2, Invariance, PTL

-----------------------------------------------------------------------------
(***************************************************************************)
(* BodyProportions.                                                        *)
(***************************************************************************)
\* No request under way is a request record, whatever the clock.
LEMMA FreeIsProcess == Free \in Process
<1>1. (CHOOSE h \in Heights : TRUE) \in Heights
  BY HeightsAssumption
<1>2. {} \in SUBSET (1..clock)
  OBVIOUS
<1> QED BY <1>1, <1>2 DEF Free, Process

\* Nothing recorded, and the lengths of the configured height.
LEMMA BodyInitially == BodyInit => BodyIInv
<1> SUFFICES ASSUME BodyInit PROVE BodyIInv
  OBVIOUS
<1>1. BodyTypeOK
  <2>1. opt \in [Optimizers -> Process]
    BY FreeIsProcess DEF BodyInit
  <2>2. lengths \in [by : {"height", "autobone"}, for : Heights]
    BY DEF BodyInit, FromHeight
  <2>3. clock \in 0..MaxFrames /\ frames \subseteq 1..clock
    BY HeightsAssumption DEF BodyInit
  <2> QED BY <2>1, <2>2, <2>3 DEF BodyInit, BodyTypeOK
<1>2. FramesUsedOnce
  BY DEF BodyInit, FramesUsedOnce, Free
<1>3. BodyAgrees
  BY DEF BodyInit, BodyAgrees, FromHeight
<1>4. SettingsUnderWay /\ FramesOnlyWhileRecording
  BY DEF BodyInit, SettingsUnderWay, FramesOnlyWhileRecording
<1> QED BY <1>1, <1>2, <1>3, <1>4 DEF BodyIInv

\* The steps of the loop that leave the recording and the requests alone.
LEMMA LoopSteps ==
  ASSUME BodyIInv,
         \/ \E h \in Heights \cup BadHeights : Submit(h)
         \/ Refuse \/ SetLengths \/ SetTarget \/ ApplySettings \/ TogglePause
  PROVE  BodyIInv'
<1> USE DEF BodyIInv
<1>1. UNCHANGED <<recordVars, opt>>
  BY DEF Submit, Refuse, SetLengths, SetTarget, ApplySettings, TogglePause, recordVars
<1>2. FramesOnlyWhileRecording' /\ FramesUsedOnce'
  BY <1>1 DEF FramesOnlyWhileRecording, FramesUsedOnce, recordVars
<1>3. /\ recording' \in BOOLEAN /\ clock' \in 0..MaxFrames /\ frames' \subseteq 1..clock'
      /\ opt' \in [Optimizers -> Process']
  BY <1>1 DEF BodyTypeOK, recordVars, Process
<1>4. CASE \E h \in Heights \cup BadHeights : Submit(h)
  <2>1. BodyTypeOK'
    BY <1>3, <1>4 DEF BodyTypeOK, Submit
  <2>2. BodyAgrees' /\ SettingsUnderWay'
    BY <1>4 DEF BodyAgrees, SettingsUnderWay, Submit
  <2> QED BY <1>2, <2>1, <2>2
<1>5. CASE Refuse
  <2>1. BodyTypeOK'
    BY <1>3, <1>5 DEF BodyTypeOK, Refuse
  <2>2. BodyAgrees' /\ SettingsUnderWay'
    BY <1>5 DEF BodyAgrees, SettingsUnderWay, Refuse
  <2> QED BY <1>2, <2>1, <2>2
<1>6. CASE SetLengths
  <2>1. BodyTypeOK'
    BY <1>3, <1>6 DEF BodyTypeOK, SetLengths, Accepts, FromHeight
  <2>2. BodyAgrees' /\ SettingsUnderWay'
    BY <1>6 DEF BodyAgrees, SettingsUnderWay, SetLengths, Accepts, FromHeight
  <2> QED BY <1>2, <2>1, <2>2
<1>7. CASE SetTarget
  <2>1. BodyTypeOK'
    BY <1>3, <1>7 DEF BodyTypeOK, SetTarget, SettingsUnderWay
  <2>2. BodyAgrees' /\ SettingsUnderWay'
    BY <1>7 DEF BodyAgrees, SettingsUnderWay, SetTarget
  <2> QED BY <1>2, <2>1, <2>2
<1>8. CASE ApplySettings
  <2>1. BodyTypeOK'
    BY <1>3, <1>8 DEF BodyTypeOK, ApplySettings, SettingsUnderWay
  <2>2. BodyAgrees' /\ SettingsUnderWay'
    BY <1>8 DEF BodyAgrees, SettingsUnderWay, ApplySettings
  <2> QED BY <1>2, <2>1, <2>2
<1>9. CASE TogglePause
  <2>1. BodyTypeOK'
    BY <1>3, <1>9 DEF BodyTypeOK, TogglePause
  <2>2. BodyAgrees' /\ SettingsUnderWay'
    BY <1>9 DEF BodyAgrees, SettingsUnderWay, TogglePause
  <2> QED BY <1>2, <2>1, <2>2
<1> QED BY <1>4, <1>5, <1>6, <1>7, <1>8, <1>9

\* A frame gets a number no frame had before.
LEMMA RecordingAFrame == ASSUME BodyIInv, RecordFrame PROVE BodyIInv'
<1> USE DEF BodyIInv
<1>1. /\ clock \in Nat /\ clock' = clock + 1 /\ clock' \in 0..MaxFrames
      /\ 1..clock \subseteq 1..clock' /\ clock' \in 1..clock' /\ clock' \notin 1..clock
  BY HeightsAssumption DEF RecordFrame, BodyTypeOK
<1>2. Process \subseteq Process'
  BY <1>1 DEF Process
<1>3. BodyTypeOK'
  BY <1>1, <1>2 DEF RecordFrame, BodyTypeOK, loopVars
<1>4. BodyAgrees' /\ SettingsUnderWay' /\ FramesOnlyWhileRecording'
  BY DEF RecordFrame, loopVars, BodyAgrees, SettingsUnderWay, FramesOnlyWhileRecording
<1>5. FramesUsedOnce'
  <2>1. \A o \in Optimizers : opt[o].frames \subseteq 1..clock
    BY DEF BodyTypeOK, Process
  <2> QED BY <1>1, <2>1 DEF RecordFrame, FramesUsedOnce
<1> QED BY <1>3, <1>4, <1>5

\* The steps of a connection.  Frames pass from the recording to one request.
LEMMA OptimizerSteps ==
  ASSUME BodyIInv, NEW o \in Optimizers,
         Record(o) \/ ReadTarget(o) \/ TakeFrames(o) \/ LockCalibration(o) \/ WriteLengths(o)
  PROVE  BodyIInv'
<1> USE DEF BodyIInv
<1>1. UNCHANGED <<loopVars, target, clock>> /\ Process' = Process
  BY DEF Record, ReadTarget, TakeFrames, LockCalibration, WriteLengths, recordVars, Process
<1>2. opt \in [Optimizers -> Process] /\ opt[o] \in Process
  BY DEF BodyTypeOK
<1>3. CASE Record(o)
  <2>1. BodyTypeOK'
    BY <1>1, <1>3 DEF Record, BodyTypeOK, loopVars
  <2>2. BodyAgrees' /\ SettingsUnderWay' /\ FramesOnlyWhileRecording' /\ FramesUsedOnce'
    BY <1>1, <1>3 DEF Record, loopVars, BodyAgrees, SettingsUnderWay,
                      FramesOnlyWhileRecording, FramesUsedOnce
  <2> QED BY <2>1, <2>2
<1>4. CASE ReadTarget(o)
  <2>1. opt'[o] \in Process /\ opt'[o].frames = opt[o].frames
    BY <1>2, <1>4 DEF ReadTarget, BodyTypeOK, Process
  <2>2. \A p \in Optimizers : p # o => opt'[p] = opt[p]
    BY <1>2, <1>4 DEF ReadTarget
  <2>3. opt' \in [Optimizers -> Process']
    BY <1>1, <1>2, <1>4, <2>1 DEF ReadTarget, Process
  <2>4. BodyTypeOK'
    BY <1>1, <1>4, <2>3 DEF ReadTarget, BodyTypeOK, loopVars, recordVars
  <2>5. FramesUsedOnce'
    BY <1>4, <2>1, <2>2 DEF FramesUsedOnce, ReadTarget, recordVars
  <2>6. BodyAgrees' /\ SettingsUnderWay' /\ FramesOnlyWhileRecording'
    BY <1>1, <1>4 DEF ReadTarget, loopVars, recordVars, BodyAgrees, SettingsUnderWay,
                      FramesOnlyWhileRecording
  <2> QED BY <2>4, <2>5, <2>6
<1>5. CASE TakeFrames(o)
  <2>1. /\ opt'[o] \in Process
        /\ opt'[o].frames = frames \/ opt'[o].frames = {}
    <3>1. CASE frames = {}
      BY <1>2, <1>5, <3>1, FreeIsProcess DEF TakeFrames, Free
    <3>2. CASE frames # {}
      <4>1. opt'[o] = [opt[o] EXCEPT !.at = "lock", !.frames = frames]
        BY <1>2, <1>5, <3>2 DEF TakeFrames
      <4> QED BY <1>2, <4>1 DEF Process, BodyTypeOK
    <3> QED BY <3>1, <3>2
  <2>2. \A p \in Optimizers : p # o => opt'[p] = opt[p]
    BY <1>2, <1>5 DEF TakeFrames
  <2>3. opt' \in [Optimizers -> Process']
    BY <1>1, <1>2, <1>5, <2>1, <2>2 DEF TakeFrames
  <2>4. BodyTypeOK'
    BY <1>1, <1>5, <2>3 DEF TakeFrames, BodyTypeOK, loopVars
  <2>5. FramesUsedOnce'
    BY <1>5, <2>1, <2>2 DEF FramesUsedOnce, TakeFrames
  <2>6. BodyAgrees' /\ SettingsUnderWay' /\ FramesOnlyWhileRecording'
    BY <1>1, <1>5 DEF TakeFrames, loopVars, BodyAgrees, SettingsUnderWay, FramesOnlyWhileRecording
  <2> QED BY <2>4, <2>5, <2>6
<1>6. CASE LockCalibration(o)
  <2>1. opt'[o] \in Process /\ opt'[o].frames = opt[o].frames
    BY <1>2, <1>6 DEF LockCalibration, Process
  <2>2. \A p \in Optimizers : p # o => opt'[p] = opt[p]
    BY <1>2, <1>6 DEF LockCalibration
  <2>3. opt' \in [Optimizers -> Process']
    BY <1>1, <1>2, <1>6, <2>1 DEF LockCalibration, Process
  <2>4. BodyTypeOK'
    BY <1>1, <1>6, <2>3 DEF LockCalibration, BodyTypeOK, loopVars, recordVars
  <2>5. FramesUsedOnce'
    BY <1>6, <2>1, <2>2 DEF FramesUsedOnce, LockCalibration, recordVars
  <2>6. BodyAgrees' /\ SettingsUnderWay' /\ FramesOnlyWhileRecording'
    BY <1>1, <1>6 DEF LockCalibration, loopVars, recordVars, BodyAgrees, SettingsUnderWay,
                      FramesOnlyWhileRecording
  <2> QED BY <2>4, <2>5, <2>6
<1>7. CASE WriteLengths(o)
  <2>1. opt'[o] \in Process /\ opt'[o].frames = {}
    BY <1>2, <1>7, FreeIsProcess DEF WriteLengths, Free
  <2>2. \A p \in Optimizers : p # o => opt'[p] = opt[p]
    BY <1>2, <1>7 DEF WriteLengths
  <2>3. opt' \in [Optimizers -> Process'] /\ lengths' = Optimized(opt[o].height)
    BY <1>1, <1>2, <1>7, <2>1, <2>2 DEF WriteLengths
  <2>4. BodyTypeOK'
    BY <1>1, <1>2, <1>7, <2>3 DEF WriteLengths, BodyTypeOK, loopVars, recordVars, Optimized, Process
  <2>5. FramesUsedOnce'
    BY <1>7, <2>1, <2>2 DEF FramesUsedOnce, WriteLengths, recordVars
  <2>6. BodyAgrees' /\ SettingsUnderWay' /\ FramesOnlyWhileRecording'
    BY <1>1, <1>7, <2>3 DEF WriteLengths, loopVars, recordVars, BodyAgrees, SettingsUnderWay,
                      FramesOnlyWhileRecording, Optimized
  <2> QED BY <2>4, <2>5, <2>6
<1> QED BY <1>3, <1>4, <1>5, <1>6, <1>7

\* The invariant of app.rs and solarxr/mod.rs together.
THEOREM BodyInvariance == BodySpec => []BodyIInv
<1>1. BodyIInv /\ UNCHANGED bodyVars => BodyIInv'
  BY DEF BodyIInv, BodyTypeOK, BodyAgrees, SettingsUnderWay, FramesOnlyWhileRecording, FramesUsedOnce,
         Process, bodyVars, loopVars, recordVars
<1>2. BodyIInv /\ [BodyNext]_bodyVars => BodyIInv'
  BY <1>1, LoopSteps, RecordingAFrame, OptimizerSteps DEF BodyNext
<1> QED BY BodyInitially, <1>2, PTL DEF BodySpec

\* Types are respected: in particular, no height that validation refuses is
\* ever in use.
THEOREM BodyTypeCorrectness == BodySpec => []BodyTypeOK
BY BodyInvariance, PTL DEF BodyIInv

\* Between two changes of the settings, the height, the optimizer's target and
\* lengths built from a height agree.
THEOREM SettingsAgree == BodySpec => []BodyAgrees
BY BodyInvariance, PTL DEF BodyIInv

\* A recording is consumed by one request, and nothing is left behind by it.
THEOREM RecordingIsConsumedOnce == BodySpec => [](FramesUsedOnce /\ FramesOnlyWhileRecording)
BY BodyInvariance, PTL DEF BodyIInv
=============================================================================
