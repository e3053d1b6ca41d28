----------------------------- MODULE Calibration -----------------------------
(***************************************************************************)
(* The corrections that turn a sensor's rotation into a bone's: full, yaw  *)
(* and mounting resets, mounting orientations and the compensation of yaw  *)
(* drift (calibration.rs), as reset.rs applies them.  A reset treats every *)
(* tracker alike and on its own, with one reference for all; so this is    *)
(* one tracker, and the others are what the reference may be taken from.   *)
(*                                                                         *)
(* A rotation is a heading, followed by a lean of some fixed size towards  *)
(* one of the directions around the body or none: [yaw, lean].  These are  *)
(* closed under the rotations about the vertical axis that calibration     *)
(* multiplies by.  Angles are eighths of a turn, the grid of               *)
(* default_mounting.                                                       *)
(*                                                                         *)
(* A sensor is strapped on anyhow.  On an unturned upright body, with the  *)
(* mounting orientation m, it reads the heading Strap[m] and some tilt.    *)
(* An attachment fix is taken for one such tilt; it is written as the      *)
(* mounting it was taken under, and undoes the tilt of no other.           *)
(***************************************************************************)
EXTENDS Integers

CONSTANTS
  Places,      \* the body positions the tracker may report
  Strap,       \* how its sensor is strapped on (above)
  DriftRate,   \* by how much the sensor's heading drifts in a tick
  Elsewhere,   \* the headings other trackers' sensors may read
  Poses,       \* the user's poses: [heading, leaning]
  Unclear,     \* what the yaw of a rotation that is not upright may read
  Ease,        \* YAW_SMOOTH_SECS, in ticks
  MaxTime,     \* bound on the clock
  MaxResets    \* bound on the number of resets

Turn == 8
Angle == 0..(Turn - 1)
a \oplus b == (a + b) % Turn
a \ominus b == (a - b) % Turn

\* The same angle, in the half turn to either side.
Signed(a) == IF a > Turn \div 2 THEN a - Turn ELSE a

None == -1         \* no instant; no lean; the identity as attachment fix
Skewed == -2       \* an attachment fix that was not taken upright
Time == 0..MaxTime

ASSUME CalibrationAssumption ==
  /\ Strap \in [Angle -> Angle] /\ DriftRate \in Int
  /\ Places # {} /\ Elsewhere \subseteq Angle
  /\ Poses \subseteq [heading : Angle, leaning : BOOLEAN]
  /\ Unclear \subseteq Angle /\ Unclear # {}
  /\ Ease \in Nat \ {0} /\ MaxTime \in Nat /\ MaxResets \in Nat
  \* the sensor does not drift by half a turn unnoticed
  /\ 2 * DriftRate * MaxTime \in (1 - Turn)..(Turn - 1)

VARIABLES
  calib,      \* its TrackerCalibration
  position,   \* its position in the registry
  hmd,        \* the heading of the last headset pose, or None
  body,       \* how the user really stands: where to, and in the ski pose?
  now,
  truth       \* history: what its resets have seen

vars == <<calib, position, hmd, body, now, truth>>

heading == body.heading
leaning == body.leaning

(***************************************************************************)
(* What the sensor measures.                                               *)
(***************************************************************************)
DefaultMounting(p) ==
  CASE p \in {13, 17} \cup 21..35 -> 2
    [] p \in {14, 18} \cup 36..50 -> 6
    [] p \in {15, 9}              -> 3
    [] p \in {16, 10}             -> 5
    [] OTHER                      -> 4

\* LEFT_UPPER_LEG and RIGHT_UPPER_LEG lean backward in the ski pose, all
\* else forward.
SkiLean == IF position \in {7, 8} THEN Turn \div 2 ELSE 0

Drifted == DriftRate * now

\* raw * mounting_orientation, but for the tilt.
Mounted(m) ==
  [yaw |-> heading \oplus (Drifted + Strap[m]),
   lean |-> IF leaning THEN SkiLean \ominus Strap[m] ELSE None]

(***************************************************************************)
(* The fixes.                                                              *)
(***************************************************************************)
Fresh(p, on) ==
  [resets |-> 0, mounting |-> DefaultMounting(p), gyro |-> 0,
   attachment |-> None, mountRot |-> 0, yawFix |-> 0, yawStart |-> 0,
   easedSince |-> None,
   enabled |-> on, quat |-> 0, duration |-> 0, since |-> None]

Easing == calib.easedSince # None /\ now - calib.easedSince < Ease

\* The yaw fix in force: it turns from the old to the new one within Ease.
EffectiveYawFix ==
  IF ~Easing THEN calib.yawFix
  ELSE LET whole == Signed(calib.yawFix \ominus calib.yawStart)
       IN calib.yawStart \oplus ((whole * (now - calib.easedSince)) \div Ease)

\* The rotation under gyro_fix, attachment_fix and mount_rot_fix.
Aligned ==
  LET rot == Mounted(calib.mounting)
  IN [yaw |-> calib.gyro \oplus rot.yaw,
      lean |-> IF leaning THEN rot.lean \ominus calib.mountRot ELSE None]

\* The attachment fix undoes the tilt of the sensor.
Straight == calib.attachment = calib.mounting

\* The yaw of Aligned is only definite when the sensor reads upright.
Known == Straight /\ ~leaning
Yaws == IF Known THEN {Aligned.yaw} ELSE Unclear

(***************************************************************************)
(* Drift compensation.                                                     *)
(***************************************************************************)
Elapsed == IF calib.since = None THEN 0 ELSE now - calib.since

Cleared == [calib EXCEPT !.quat = 0, !.duration = 0, !.since = None]

Configured(on) ==
  [(IF calib.enabled # on THEN Cleared ELSE calib) EXCEPT !.enabled = on]

\* record: the drift between two resets, with the time it took.
Recorded(c, before, after) ==
  IF ~c.enabled
    THEN [c EXCEPT !.since = now]
    ELSE [c EXCEPT !.quat = Signed(after \ominus before),
                   !.duration = Elapsed, !.since = now]

HasDriftSample == calib.enabled /\ calib.duration > 0

\* apply: the learned drift, in proportion to the time since the last reset,
\* with a drift_amount of 1 (a smaller one takes that share of it).
Correction ==
  IF ~HasDriftSample THEN 0
  ELSE IF Elapsed < calib.duration THEN (calib.quat * Elapsed) \div calib.duration
  ELSE calib.quat

\* The heading after adjust_reference, and after adjust.
Referred == EffectiveYawFix \oplus Aligned.yaw
Shown == Referred \oplus Correction

(***************************************************************************)
(* Resets, with the yaw the tracker reads just before.                     *)
(***************************************************************************)
\* Mutant: the yaw fix is computed before the two others are replaced.
FullResetYawFirst(ref, yaw) ==
  Recorded([calib EXCEPT
    !.resets = @ + 1,
    !.gyro = 0 \ominus Mounted(calib.mounting).yaw,
    !.attachment = IF leaning THEN Skewed ELSE calib.mounting,
    !.yawFix = ref \ominus yaw,
    !.easedSince = None], EffectiveYawFix \oplus yaw, ref)

\* With its new gyro and attachment fix the tracker reads the identity, so
\* that the yaw fix is the reference itself.  (The gyro fix of a leaning
\* sensor means nothing, nor does any yaw until it is Straight again.)
FullReset(ref, yaw) ==
  Recorded([calib EXCEPT
    !.resets = @ + 1,
    !.gyro = 0 \ominus Mounted(calib.mounting).yaw,
    !.attachment = IF leaning THEN Skewed ELSE calib.mounting,
    !.yawFix = ref,
    !.easedSince = None], EffectiveYawFix \oplus yaw, ref)

\* The complete correction is learned, though it is eased in.
YawReset(ref, yaw) ==
  Recorded([calib EXCEPT
    !.resets = @ + 1,
    !.yawStart = calib.yawFix,
    !.yawFix = ref \ominus yaw,
    !.easedSince = now], EffectiveYawFix \oplus yaw, ref)

\* The direction the sensor leans to, seen from the reference.
LeanDirections(ref) ==
  LET rot == Mounted(calib.mounting)
  IN IF Straight /\ leaning
       THEN {(calib.yawFix + calib.gyro + rot.yaw + rot.lean) \ominus ref}
       ELSE Unclear

\* Mutant: every limb is taken to lean forward.
MountingResetForward(direction) ==
  [calib EXCEPT !.resets = @ + 1, !.mountRot = direction]

MountingReset(direction) ==
  [calib EXCEPT !.resets = @ + 1, !.mountRot = direction \ominus SkiLean]

(***************************************************************************)
(* The reference of a reset: the headset, or else the sensor of the head's *)
(* tracker, the chest's or any, this one's or another one's.               *)
(***************************************************************************)
References ==
  IF hmd # None THEN {hmd}
  ELSE Elsewhere \cup (IF leaning THEN Unclear ELSE {Mounted(0).yaw})

\* History: the direction the heading was reset to, relative to the user's;
\* when; whether the reset before aimed there as well; the mounting for
\* which the bend axis was found; and how many standing resets drift learning
\* has seen (2 for more).
NoTruth == [aim |-> None, at |-> 0, repeated |-> FALSE, axis |-> None, learned |-> 0]

AfterStanding(aim) ==
  [truth EXCEPT
     !.aim = aim, !.at = now,
     !.repeated = aim # None /\ truth.aim = aim /\ Known /\ ~Easing,
     !.learned = IF @ < 2 THEN @ + 1 ELSE 2]

Init ==
  /\ position \in Places
  /\ \E on \in BOOLEAN : calib = Fresh(position, on)
  /\ hmd = None /\ now = 0
  /\ body \in {p \in Poses : ~p.leaning}
  /\ truth = NoTruth

(***************************************************************************)
(* handle_user_action, for a tracker that has a sample.                    *)
(***************************************************************************)
CanReset == calib.resets < MaxResets

Reset ==
  /\ CanReset
  /\ \E ref \in References, yaw \in Yaws :
       /\ calib' = FullReset(ref, yaw)
       /\ truth' = AfterStanding(IF leaning THEN None ELSE ref \ominus heading)
  /\ UNCHANGED <<position, hmd, body, now>>

ResetYaw ==
  /\ CanReset
  /\ \E ref \in References, yaw \in Yaws :
       /\ calib' = YawReset(ref, yaw)
       /\ truth' = AfterStanding(IF Known THEN ref \ominus heading ELSE None)
  /\ UNCHANGED <<position, hmd, body, now>>

\* A mounting reset finds the bend axis if all else is right: the tracker was
\* reset upright, has not drifted since, and the reference is where it was.
FindsAxis(ref) ==
  /\ Straight /\ leaning
  /\ truth.aim = ref \ominus heading
  /\ Drifted = DriftRate * truth.at

\* Mutant: the tilted pose is taken for drift.
ResetMountingLearns ==
  /\ CanReset
  /\ \E ref \in References : \E direction \in LeanDirections(ref), yaw \in Yaws :
       /\ calib' = Recorded(MountingReset(direction), EffectiveYawFix \oplus yaw, ref)
       /\ truth' = [truth EXCEPT
            !.axis = IF FindsAxis(ref) THEN calib.mounting ELSE None]
  /\ UNCHANGED <<position, hmd, body, now>>

ResetMounting ==
  /\ CanReset
  /\ \E ref \in References : \E direction \in LeanDirections(ref) :
       /\ calib' = MountingReset(direction)
       /\ truth' = [truth EXCEPT
            !.axis = IF FindsAxis(ref) THEN calib.mounting ELSE None]
  /\ UNCHANGED <<position, hmd, body, now>>

(***************************************************************************)
(* The other operations of Calibration.                                    *)
(***************************************************************************)
\* The tracker reports a position (Bridge, SENSOR_INFO).
SetMounting(p) ==
  /\ position' = p
  /\ calib' = [calib EXCEPT !.mounting = DefaultMounting(p)]
  /\ UNCHANGED <<hmd, body, now, truth>>

ConfigureDrift(on) ==
  /\ calib' = Configured(on)
  /\ truth' = [truth EXCEPT !.learned = IF calib.enabled = on THEN @ ELSE 0]
  /\ UNCHANGED <<position, hmd, body, now>>

ClearDrift ==
  /\ calib' = Cleared
  /\ truth' = [truth EXCEPT !.learned = 0]
  /\ UNCHANGED <<position, hmd, body, now>>

(***************************************************************************)
(* The headset, the user and the clock.                                    *)
(***************************************************************************)
\* The feeder reports a pose.  The last one stays when it stops.
HmdPose ==
  /\ hmd' = heading
  /\ UNCHANGED <<calib, position, body, now, truth>>

Move(pose) ==
  /\ body' = pose
  /\ UNCHANGED <<calib, position, hmd, now, truth>>

Tick ==
  /\ now < MaxTime
  /\ now' = now + 1
  /\ UNCHANGED <<calib, position, hmd, body, truth>>

Next ==
  \/ Reset \/ ResetYaw \/ ResetMounting
  \/ \E p \in Places : SetMounting(p)
  \/ \E on \in BOOLEAN : ConfigureDrift(on)
  \/ ClearDrift
  \/ HmdPose
  \/ \E pose \in Poses : Move(pose)
  \/ Tick

Spec == Init /\ [][Next]_vars
-----------------------------------------------------------------------------
TrackerCalibration ==
  [resets : 0..MaxResets, mounting : Angle, gyro : Angle,
   attachment : Angle \cup {None, Skewed}, mountRot : Angle, yawFix : Angle,
   yawStart : Angle, easedSince : Time \cup {None}, enabled : BOOLEAN,
   quat : (1 - Turn)..Turn, duration : Time, since : Time \cup {None}]

TypeOK ==
  /\ calib \in TrackerCalibration
  /\ position \in Places /\ hmd \in Angle \cup {None}
  /\ body \in Poses /\ now \in Time
  /\ truth \in
       [aim : Angle \cup {None}, at : Time, repeated : BOOLEAN,
        axis : Angle \cup {None}, learned : 0..2]

\* After a full reset made upright the tracker shows the user's heading, off
\* by where its last reset aimed and by the drift since: whatever mountings,
\* leans, other resets and reference came before.  The aim is that of the
\* reset's reference, so trackers that took part in a reset agree.
HeadingFollowsReset ==
  Straight /\ truth.aim # None /\ ~Easing =>
    Referred = heading \oplus (truth.aim + DriftRate * (now - truth.at))

\* After a full and a mounting reset the tracker shows the way the user
\* bends, however its sensor is turned on the limb; later resets, and a
\* position of the same mounting, keep that.
BendsShow ==
  Straight /\ truth.axis = calib.mounting /\ leaning => Aligned.lean = SkiLean

\* A drift is learned from two standing resets that both came after learning
\* was last switched on or cleared; and if those two aimed in the same
\* direction, the tracker shows no drift for as long again as they lay apart
\* (with drift_amount 1).
DriftIsCancelled ==
  HasDriftSample =>
    /\ truth.learned = 2
    /\ Straight /\ ~Easing /\ truth.repeated /\ Elapsed <= calib.duration
         => Shown = heading \oplus truth.aim

\* Inductive: how the fixes add up to where the last standing reset aimed, ...
FixesAddUp ==
  truth.aim # None =>
    /\ calib.attachment # None /\ calib.attachment # Skewed
    /\ truth.aim =
         calib.yawFix \oplus (calib.gyro + DriftRate * truth.at + Strap[calib.attachment])

\* ... that the mounting fix undoes the strap, ...
AxisIsTurnedBack ==
  truth.axis # None => calib.mountRot = 0 \ominus Strap[truth.axis]

\* ... and what drift a sample stands for.
SamplesAreTrue ==
  /\ truth.at <= now /\ calib.since \in {None, truth.at}
  /\ calib.enabled /\ calib.since # None => truth.learned > 0
  /\ HasDriftSample =>
       /\ calib.since # None /\ truth.learned = 2
       /\ truth.repeated => truth.aim # None /\ calib.quat = 0 - DriftRate * calib.duration

IInv == TypeOK /\ FixesAddUp /\ AxisIsTurnedBack /\ SamplesAreTrue
=============================================================================
