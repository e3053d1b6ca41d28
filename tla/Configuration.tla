---------------------------- MODULE Configuration ----------------------------
(***************************************************************************)
(* What the server runs with (config.rs, face/config.rs,                   *)
(* haritorax/config.rs): defaults, overlaid by a file, overlaid by the     *)
(* command line, and then validated as a whole.                            *)
(*                                                                         *)
(* A file and a command line are records that list what they set.  Ports   *)
(* are numbers, 0 an invalid one; a path is its presence.  The destination *)
(* of face output is a port on this machine, or Elsewhere.  Settings that  *)
(* only have a value and a range stand as one: `timing` is valid above 0,  *)
(* `tracking` inside 0..2 (TrackingSettings::validate).  The terminal UI,  *)
(* log file and serial ports take their values unchecked and are left out. *)
(***************************************************************************)
EXTENDS Naturals, Overlays

Elsewhere == 70000

FaceDefaults ==
  [enabled |-> FALSE, source |-> "babble", destination |-> 9000, oscPort |-> 9002,
   babblePort |-> 9400, avatar |-> FALSE, oscQuery |-> TRUE, output |-> "auto", sheet |-> FALSE]

Defaults ==
  [trackerPort |-> 6969, timing |-> 2, tracking |-> 1, baudRate |-> 500000, haritorax |-> FALSE,
   solarxr |-> "SlimeVRRpc", feeder |-> "SlimeVRInput", control |-> "none",
   assignments |-> <<>>, face |-> FaceDefaults]

\* What a record sets, of the names given.
Picked(record, names) == [n \in names \cap DOMAIN record |-> record[n]]

\* apply_file: a [face] table replaces the defaults, and what it leaves out is
\* the default again; other values are taken one by one.
ApplyFile(cfg, file) ==
  [Over(Picked(file, DOMAIN Defaults \ {"face", "assignments"}), cfg) EXCEPT
     !.face = IF "face" \in DOMAIN file THEN Over(file.face, FaceDefaults) ELSE FaceDefaults,
     !.assignments = IF "assignments" \in DOMAIN file THEN Over(file.assignments, cfg.assignments)
                     ELSE cfg.assignments]

\* The flags about the face: a source enables it, a sheet takes the place of an
\* avatar file, UniFT of both, and --no-face comes last.
\* (Mutant: a sheet leaves the avatar file.)
FaceAvatarKept(face, cli) ==
  LET given(n) == n \in DOMAIN cli
      unift == given("output") /\ cli.output = "unift"
  IN [Over(Picked(cli, {"source", "destination", "output"}), face) EXCEPT
        !.enabled = (face.enabled \/ given("source")) /\ ~given("noFace"),
        !.sheet = given("sheet") \/ (face.sheet /\ ~unift),
        !.avatar = face.avatar /\ ~unift]
FaceFlagsOf(face, cli) ==
  LET given(n) == n \in DOMAIN cli
      unift == given("output") /\ cli.output = "unift"
  IN [Over(Picked(cli, {"source", "destination", "output"}), face) EXCEPT
        !.enabled = (face.enabled \/ given("source")) /\ ~given("noFace"),
        !.sheet = given("sheet") \/ (face.sheet /\ ~unift),
        !.avatar = face.avatar /\ ~unift /\ ~given("sheet")]

ApplyCli(cfg, cli) ==
  [Over(Picked(cli, {"trackerPort", "timing", "tracking", "solarxr", "feeder", "control", "haritorax"}), cfg) EXCEPT
     !.assignments = IF "assignments" \in DOMAIN cli THEN Over(cli.assignments, cfg.assignments)
                     ELSE cfg.assignments,
     !.face = FaceFlagsOf(cfg.face, cli)]

\* The ports the relay listens on.
FaceInputs(face) == {face.oscPort} \cup (IF face.source = "babble" THEN {face.babblePort} ELSE {})

FaceValid(face) ==
  /\ ~(face.avatar /\ face.sheet)
  /\ face.output \in {"json", "both"} => face.sheet
  /\ face.output = "unift" => ~face.avatar /\ ~face.sheet
  /\ 0 \notin FaceInputs(face) \cup {face.destination}
  /\ face.source = "babble" => face.babblePort # face.oscPort
  /\ face.destination \notin FaceInputs(face)

HighestBaudRate == 4000000

ConfigValid(cfg) ==
  /\ cfg.baudRate \in 1..HighestBaudRate /\ cfg.timing > 0 /\ cfg.tracking \in 0..2
  /\ cfg.control \notin {cfg.solarxr, cfg.feeder}
  /\ cfg.face.enabled => FaceValid(cfg.face) /\ cfg.trackerPort \notin FaceInputs(cfg.face)

\* Config::load, when it succeeds.
Resolved(file, cli) == ApplyCli(ApplyFile(Defaults, file), cli)
=============================================================================
