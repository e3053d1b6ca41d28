--------------------------- MODULE BodyProportions ---------------------------
(***************************************************************************)
(* Who decides how long the bones are.  The application loop (app.rs)      *)
(* rebuilds the lengths when the configured height changes, and records    *)
(* frames; SolarXR connections (solarxr/mod.rs) start a recording, and     *)
(* process it into lengths optimized for the target height.  The loop and  *)
(* each connection are tasks of their own, and share the lengths, the      *)
(* target and the recording through one lock each: a step is one lock      *)
(* section.                                                                *)
(***************************************************************************)
EXTENDS Naturals

CONSTANTS
  Optimizers,    \* SolarXR connections that record and process
  Heights,       \* body heights that pass validation
  BadHeights,    \* heights that do not
  MaxFrames      \* bound on the frames recorded over the run

ASSUME HeightsAssumption ==
  Heights \cap BadHeights = {} /\ Heights # {} /\ MaxFrames \in Nat

VARIABLES
  pc,          \* where the loop is; "select" between two iterations
  next,        \* the height of the settings it is given
  height,      \* the height in its current settings
  paused,      \* tracking is paused
  lengths,     \* shared: bone lengths, by origin and height
  target,      \* shared: the height to optimize for
  recording,   \* shared: frames are being recorded
  frames,      \* shared: the frames recorded, each with its number
  clock,       \* number of the last frame recorded
  opt          \* per optimizer: its progress through PROCESS

loopVars == <<pc, next, height, paused>>
recordVars == <<recording, frames, clock>>
bodyVars == <<loopVars, lengths, target, recordVars, opt>>

FromHeight(h) == [by |-> "height", for |-> h]
Optimized(h) == [by |-> "autobone", for |-> h]

\* No PROCESS request under way.
Free == [at |-> "idle", height |-> CHOOSE h \in Heights : TRUE, frames |-> {}]

BodyInit ==
  /\ pc = "select" /\ height \in Heights /\ next = height /\ paused = FALSE
  /\ lengths = FromHeight(height) /\ target = height
  /\ recording = FALSE /\ frames = {} /\ clock = 0
  /\ opt = [o \in Optimizers |-> Free]

(***************************************************************************)
(* The application loop.                                                   *)
(***************************************************************************)
Submit(h) ==
  /\ pc = "select"
  /\ pc' = "validate" /\ next' = h
  /\ UNCHANGED <<height, paused, lengths, target, recordVars, opt>>

Accepts(h) == h \in Heights

\* Settings are validated as a whole before any of them is used.
Refuse ==
  /\ pc = "validate" /\ ~Accepts(next)
  /\ pc' = "select"
  /\ UNCHANGED <<next, height, paused, lengths, target, recordVars, opt>>

\* A new height rebuilds the lengths and then the target, each in a lock
\* section of its own; the height already set changes neither.
SetLengths ==
  /\ pc = "validate" /\ Accepts(next)
  /\ IF next # height
       THEN pc' = "target" /\ lengths' = FromHeight(next)
       ELSE pc' = "settings" /\ UNCHANGED lengths
  /\ UNCHANGED <<next, height, paused, target, recordVars, opt>>

SkipTarget ==               \* mutant: the target keeps the old height
  /\ pc = "target" /\ pc' = "settings"
  /\ UNCHANGED <<next, height, paused, lengths, target, recordVars, opt>>
SetTarget ==
  /\ pc = "target" /\ pc' = "settings"
  /\ target' = next
  /\ UNCHANGED <<next, height, paused, lengths, recordVars, opt>>

\* The drift settings go to the calibration, which an optimizer keeps locked;
\* then the loop adopts the settings.
ApplySettings ==
  /\ pc = "settings" /\ pc' = "select"
  /\ \A o \in Optimizers : opt[o].at # "optimize"
  /\ height' = next
  /\ UNCHANGED <<next, paused, lengths, target, recordVars, opt>>

TogglePause ==
  /\ pc = "select" /\ paused' = ~paused
  /\ UNCHANGED <<pc, next, height, lengths, target, recordVars, opt>>

\* A tick solves a frame, which goes to the recording if there is one.
RecordFrame ==
  /\ pc = "select" /\ ~paused /\ recording /\ clock < MaxFrames
  /\ clock' = clock + 1 /\ frames' = frames \cup {clock'}
  /\ UNCHANGED <<loopVars, lengths, target, recording, opt>>

(***************************************************************************)
(* Autobone requests.  A recording belongs to no connection.               *)
(***************************************************************************)
Record(o) ==
  /\ opt[o].at = "idle"
  /\ recording' = TRUE /\ frames' = {}
  /\ UNCHANGED <<loopVars, lengths, target, clock, opt>>

\* PROCESS reads the target height, then takes the frames, ...
ReadTarget(o) ==
  /\ opt[o].at = "idle"
  /\ opt' = [opt EXCEPT ![o].at = "take", ![o].height = target]
  /\ UNCHANGED <<loopVars, lengths, target, recordVars>>

CopyFrames(o) ==            \* mutant: the frames are copied, not taken
  /\ opt[o].at = "take"
  /\ recording' = FALSE
  /\ opt' = [opt EXCEPT ![o] = IF frames = {} THEN Free
                               ELSE [@ EXCEPT !.at = "lock", !.frames = frames]]
  /\ UNCHANGED <<loopVars, lengths, target, frames, clock>>
TakeFrames(o) ==
  /\ opt[o].at = "take"
  /\ recording' = FALSE /\ frames' = {}
  /\ opt' = [opt EXCEPT ![o] = IF frames = {} THEN Free
                               ELSE [@ EXCEPT !.at = "lock", !.frames = frames]]
  /\ UNCHANGED <<loopVars, lengths, target, clock>>

\* ... locks the calibration for reading, ...
LockCalibration(o) ==
  /\ opt[o].at = "lock"
  /\ opt' = [opt EXCEPT ![o].at = "optimize"]
  /\ UNCHANGED <<loopVars, lengths, target, recordVars>>

\* ... and writes the lengths it has optimized when it is done.
WriteLengths(o) ==
  /\ opt[o].at = "optimize"
  /\ lengths' = Optimized(opt[o].height)
  /\ opt' = [opt EXCEPT ![o] = Free]
  /\ UNCHANGED <<loopVars, target, recordVars>>

BodyNext ==
  \/ \E h \in Heights \cup BadHeights : Submit(h)
  \/ Refuse \/ SetLengths \/ SetTarget \/ ApplySettings
  \/ TogglePause \/ RecordFrame
  \/ \E o \in Optimizers :
       Record(o) \/ ReadTarget(o) \/ TakeFrames(o) \/ LockCalibration(o) \/ WriteLengths(o)

BodySpec == BodyInit /\ [][BodyNext]_bodyVars
-----------------------------------------------------------------------------
Process == [at : {"idle", "take", "lock", "optimize"}, height : Heights, frames : SUBSET (1..clock)]

BodyTypeOK ==
  /\ pc \in {"select", "validate", "target", "settings"}
  /\ next \in Heights \cup BadHeights /\ height \in Heights /\ paused \in BOOLEAN
  /\ lengths \in [by : {"height", "autobone"}, for : Heights] /\ target \in Heights
  /\ recording \in BOOLEAN /\ clock \in 0..MaxFrames /\ frames \subseteq 1..clock
  /\ opt \in [Optimizers -> Process]

\* Between two changes of the settings the loop, the optimizer's target and
\* lengths built from a height all agree, whatever settings were refused on the
\* way: only a recording can have made the lengths differ.
BodyAgrees ==
  pc \in {"select", "validate"} =>
    target = height /\ (lengths.by = "height" => lengths.for = height)

\* Frames are only held while recording: a frame solved around the end of a
\* recording is not left for the next one.
FramesOnlyWhileRecording == frames # {} => recording

\* No frame is optimized over twice, however many connections process.
FramesUsedOnce ==
  /\ \A o \in Optimizers : opt[o].frames \cap frames = {}
  /\ \A o, p \in Optimizers : o # p => opt[o].frames \cap opt[p].frames = {}

\* Inductive: where the settings stand while they change.
SettingsUnderWay ==
  /\ pc \in {"target", "settings"} => next \in Heights
  /\ pc = "target" => target = height
  /\ pc = "settings" => target = next
  /\ pc \in {"target", "settings"} /\ lengths.by = "height" => lengths.for = next

BodyIInv == BodyTypeOK /\ BodyAgrees /\ SettingsUnderWay /\ FramesOnlyWhileRecording /\ FramesUsedOnce
=============================================================================
