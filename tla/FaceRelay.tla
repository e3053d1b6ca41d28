------------------------------ MODULE FaceRelay ------------------------------
(***************************************************************************)
(* The face relay (face/osc.rs) from its configuration to what the avatar  *)
(* shows: a worker thread that listens for feedback, takes what the source *)
(* has seen, and sends what has changed; its sources Babble and OpenXR     *)
(* (babble.rs, openxr.rs); discovery of the avatar over OSCQuery           *)
(* (oscjson.rs).                                                           *)
(*                                                                         *)
(* Around it is VRChat: it changes avatars, says so in a datagram that may *)
(* never be read, and shows the tree of the new avatar a little later.     *)
(* Bundles may be lost.                                                    *)
(*                                                                         *)
(* Time is counted in ticks, and ages stop where they no longer matter.    *)
(* Nothing happens between the two halves of an iteration: what does is as *)
(* if it came before or after.  Left out: the cache of avatar parameters,  *)
(* which only the blush reads; the gaze sent under /tracking/eye, which    *)
(* keeps no state; a source packet is taken alone, not up to 256 of them.  *)
(***************************************************************************)
EXTENDS FaceRoutes, Configuration

CONSTANTS
  Launches,    \* how the server is started (file, cli), with which avatar, and how many
               \* changes of avatar and losses of bundles follow at most
  Avatars,     \* per avatar: its leaves
  Sheet, Tree, \* what the configured translation sheet and avatar file hold
  Packets,     \* <<address, value>> that Babble or EyeTrackVR may send
  Weights,     \* by name: face weights OpenXR may report
  Gazes,       \* per gaze direction: how far it closes the eye, in percent
  Watched,     \* the shapes and flags that are followed
  Fresh,       \* ticks after which a source is silent (1 s)
  Watchdog,    \* ticks without VSync after which frames run freely (500 ms)
  Rescan,      \* ticks between two looks at the avatar (15 s)
  Blink        \* frames an eye stays closed after a jump (5)

ASSUME RelayAssumption ==
  /\ {Fresh, Watchdog, Rescan, Blink} \subseteq Nat \ {0}
  /\ \A l \in Launches : l.avatar \in DOMAIN Avatars

\* The last part of an address says what a leaf means; a flag is no shape.
ASSUME NamesAssumption ==
  \A leaves \in {Avatars[a] : a \in DOMAIN Avatars} \cup {Tree} : \A l \in leaves :
    /\ l.at \in {FlagAddress(f) : f \in Flags} => l.shape \notin AllShapes
    /\ \A k \in leaves : l.at = k.at => SamePart(l, k)

\* Meta's weights, and how far a gaze closes the eyes, are never below 0; a flag
\* for a sheet, where given, is TRUE.
ASSUME InputsAssumption ==
  /\ \A w \in DOMAIN Weights : \A s \in DOMAIN Weights[w] :
       s = <<s[1], s[2]>> /\ s[2] \in Sides \cup {NoSide} /\ Weights[w][s] \in Nat
  /\ \A g \in DOMAIN Gazes : Gazes[g] \in Nat
  /\ \A l \in Launches : "sheet" \in DOMAIN l.cli => l.cli.sheet = TRUE

VARIABLES
  launch,     \* what the server is started with
  cfg,        \* its configuration
  pc,         \* the worker: "off", "refused", "disabled", "listen", "frame", "ended", "failed"
  sent,       \* per route: the last value sent, or Unsent
  mapped,     \* the avatar the routes were made for, or Fixed
  face, eyes, eyeActive, lastActive,   \* the worker's data
  source,     \* the state of its source
  sinceVsync, sinceScan,
  avatar,     \* the avatar in use
  published,  \* the avatar whose tree OSCQuery shows
  notes,      \* /avatar/change datagrams not yet read
  heard,      \* per address of the avatar: the last value that arrived
  changes, losses,   \* of avatars and bundles, still to come
  told        \* history: "no", or since the avatar appeared or a bundle was lost, the worker
              \* was "asked" to send everything again, and has "told" it since

data == <<face, eyes, eyeActive, lastActive, source>>
clocks == <<sinceVsync, sinceScan>>
vrchat == <<avatar, published, notes, changes>>
vars == <<launch, cfg, pc, sent, mapped, data, clocks, vrchat, heard, losses, told>>

Fixed == "fixed"
NoGaze == "none"

Fields(leaves) == {l.at : l \in leaves} \cup {FlagAddress(f) : f \in Flags}
Unheard(a) == [at \in Fields(Avatars[a]) |-> Unsent]
Discovering == pc \notin {"off", "refused", "disabled"} /\ DiscoversAvatar(cfg.face)

NewSource ==
  [sinceFace |-> Fresh, sinceEye |-> Fresh,                                    \* Babble
   session |-> "none", tracker |-> FALSE, blink |-> 0, tried |-> Rescan + 1]   \* OpenXR

Init ==
  /\ launch \in Launches /\ cfg = Defaults /\ pc = "off"
  /\ sent = <<>> /\ mapped = Fixed
  /\ face = Neutral /\ eyes = NoGaze /\ eyeActive = FALSE /\ lastActive = FALSE
  /\ source = NewSource /\ sinceVsync = Watchdog /\ sinceScan = Rescan
  /\ avatar = launch.avatar /\ published = avatar /\ notes = 0 /\ heard = Unheard(avatar)
  /\ changes = launch.changes /\ losses = launch.losses /\ told = "asked"

\* Nothing has been sent to any of the routes (what a new output starts from,
\* and what invalidate returns to).
Routed(routes) == [r \in {r \in routes : r.shape \in Watched} |-> Unsent]
InvalidatedNever(s) == s          \* mutant: an avatar change sends nothing anew
Invalidated(s) == [r \in DOMAIN s |-> Unsent]

(***************************************************************************)
(* FaceRelay::start, and the two ends of the worker.                       *)
(***************************************************************************)
Start ==
  LET c == Resolved(launch.file, launch.cli)
      outputs == Load(c.face, Sheet, Tree)
  IN
  /\ pc = "off" /\ cfg' = c
  /\ IF ~ConfigValid(c) \/ (c.face.enabled /\ outputs = {}) THEN pc' = "refused" /\ UNCHANGED sent
     ELSE IF ~c.face.enabled THEN pc' = "disabled" /\ UNCHANGED sent
     ELSE pc' = "listen" /\ \E routes \in outputs : sent' = Routed(routes)
  /\ launch' = [file |-> <<>>, cli |-> <<>>]
  /\ UNCHANGED <<mapped, data, clocks, vrchat, heard, losses, told>>

\* A socket error ends the worker without a last frame, and its data with it.
\* check_health then ends the application.
Fail ==
  /\ pc \in {"listen", "frame"} /\ pc' = "failed" /\ sent' = <<>> /\ mapped' = Fixed
  /\ face' = Neutral /\ eyes' = NoGaze /\ eyeActive' = FALSE /\ lastActive' = FALSE
  /\ source' = NewSource /\ sinceVsync' = Watchdog /\ sinceScan' = Rescan
  /\ UNCHANGED <<launch, cfg, vrchat, heard, losses, told>>

Trees == [a \in DOMAIN Avatars |-> BuildParams(Avatars[a])]

(***************************************************************************)
(* The first half of an iteration: discovery, feedback and VSync.          *)
(***************************************************************************)
\* The tree is looked at when a look is due.
\* (Mutant: only until one has been found.)
ScanUntilFound == Discovering /\ sinceScan >= Rescan /\ mapped = Fixed
ScanDue == Discovering /\ sinceScan >= Rescan

\* handle_feedback: an avatar change makes a look due at once.
HandleFeedback(note, age) ==
  /\ note => notes > 0
  /\ notes' = IF note THEN notes - 1 ELSE notes
  /\ sinceScan' = IF note /\ Discovering THEN Rescan ELSE age

\* The tree is fetched if a look is due; a failed attempt counts as a look.  An
\* avatar change makes everything be sent again.
Listen(fetched, note, vsync) ==
  /\ pc = "listen"
  /\ fetched => ScanDue
  /\ HandleFeedback(note, IF ScanDue THEN 0 ELSE sinceScan)
  /\ mapped' = IF fetched THEN published ELSE mapped
  /\ IF fetched THEN \E routes \in Trees[published] : sent' = Routed(routes)
     ELSE sent' = IF note THEN Invalidated(sent) ELSE sent
  /\ told' = IF fetched \/ note THEN "asked" ELSE told
  /\ sinceVsync' = IF vsync THEN 0 ELSE sinceVsync
  /\ pc' = IF vsync \/ sinceVsync = Watchdog THEN "frame" ELSE "listen"
  /\ UNCHANGED <<launch, cfg, data, avatar, published, changes, heard, losses>>

(***************************************************************************)
(* The sources.  Receive says what a source makes of an input: its new     *)
(* state, the worker's data, and whether the face is tracked.              *)
(***************************************************************************)
NoPacket == <<>>

Babble(packet) ==
  LET driven == IF packet = NoPacket THEN {} ELSE DrivenBy(packet[1])
      src == [source EXCEPT !.sinceFace = IF driven # {} THEN 0 ELSE @,
                            !.sinceEye = IF driven \cap EyeShapes # {} THEN 0 ELSE @]
  IN [source |-> src, eyes |-> eyes,
      face |-> IF driven = {} THEN face ELSE Applied(face, packet[1], packet[2]),
      eyeActive |-> src.sinceEye < Fresh, active |-> src.sinceFace < Fresh]

\* What one frame of OpenXR may bring: an event, a gaze, the state of the face
\* weights.  `created` is the outcome of opening a session when one is due.
NoInput == [event |-> "none", gaze |-> NoGaze, report |-> "none", weights |-> "none", created |-> "no"]
XrInputs ==
  IF source.session = "none" THEN {[NoInput EXCEPT !.created = c] : c \in {"no", "session", "tracker"}}
  ELSE {[NoInput EXCEPT !.event = e] :
          e \in {"none", "exiting", IF source.session = "created" THEN "ready" ELSE "stopping"}}
       \cup [event : {"none", "ready"}, gaze : DOMAIN Gazes \cup {NoGaze}, report : {"none", "error"},
             weights : {"none"}, created : {"no"}]
       \cup [event : {"none", "ready"}, gaze : DOMAIN Gazes \cup {NoGaze}, report : {"valid"},
             weights : DOMAIN Weights, created : {"no"}]

MetaFaces == [w \in DOMAIN Weights |-> FromMeta(Weights[w])]

Looked(in) == in.gaze # NoGaze
Reported(in) == source.tracker /\ in.report = "valid"
BlinkNow(in) == IF Looked(in) /\ eyes \notin {NoGaze, in.gaze} THEN Blink ELSE source.blink

\* What a frame of a running session makes of a face: valid weights replace all
\* its shapes, the lids included, and a gaze closes the eyes as far as it goes
\* down, or wholly for some frames after it has jumped.
XrFace(f, in, faces) ==
  LET closed == IF BlinkNow(in) > 0 THEN 100 ELSE Gazes[in.gaze] IN
  IF Reported(in) THEN faces[in.weights]
  ELSE IF Looked(in) THEN With(f, [s \in {"EyeClosed"} \X Sides |-> closed]) ELSE f

XrFrame(in) ==
  LET blink == BlinkNow(in)
      seen == Looked(in) \/ Reported(in)
      failed == source.tracker /\ in.report = "error"
  IN [source |-> IF failed THEN [NewSource EXCEPT !.tried = source.tried]
                 ELSE [source EXCEPT !.session = "running",
                                     !.blink = IF Looked(in) /\ blink > 0 THEN blink - 1 ELSE blink],
      eyes |-> IF Looked(in) THEN in.gaze ELSE eyes,
      face |-> XrFace(face, in, MetaFaces), eyeActive |-> seen, active |-> ~failed /\ seen]

OpenXr(in) ==
  LET idle(src) == [source |-> src, eyes |-> eyes, face |-> face, eyeActive |-> FALSE, active |-> FALSE]
      running == in.event = "ready" \/ (source.session = "running" /\ in.event # "stopping")
  IN CASE source.session = "none" /\ source.tried > Rescan ->
            idle([NewSource EXCEPT !.tried = 0, !.tracker = in.created = "tracker",
                                   !.session = IF in.created = "no" THEN "none" ELSE "created"])
       [] source.session = "none" -> idle(source)
       [] in.event = "exiting" -> idle([NewSource EXCEPT !.tried = source.tried])
       [] running -> XrFrame(in)
       [] OTHER -> idle([source EXCEPT !.session = "created"])

Receive(in) == IF cfg.face.source = "babble" THEN Babble(in) ELSE OpenXr(in)

(***************************************************************************)
(* The second half: take what the source has seen, and send what changed.  *)
(***************************************************************************)
ValueOf(route, f, active, eye) ==
  CASE route.shape \notin Flags -> ShapeOf(f, route.shape)
    [] route.shape[1] \in FaceFlags -> IF active THEN 100 ELSE 0
    [] OTHER -> IF active /\ eye THEN 100 ELSE 0

\* FaceOutput::apply and send_bundle: the values that changed, all of which are
\* taken as sent, and arrive unless the bundle is lost.
Send(f, active, eye, lost) ==
  LET now == [r \in DOMAIN sent |-> Encode(r, ValueOf(r, f, active, eye))]
      news == {r \in DOMAIN sent : NeedsSending(r, sent[r], now[r])}
  IN /\ losses' = IF lost THEN losses - 1 ELSE losses
     /\ sent' = [r \in DOMAIN sent |-> IF r \in news THEN now[r] ELSE sent[r]]
     /\ heard' = IF lost THEN heard
                 ELSE [a \in DOMAIN heard |->
                         LET new == {r \in news : r.at = a} IN
                         IF new = {} THEN heard[a] ELSE now[CHOOSE r \in new : TRUE]]
     /\ told' = IF lost THEN "no" ELSE IF told = "asked" THEN "told" ELSE told

\* A face that has just gone silent is cleared before the last send.
FaceStays(got) == got.face        \* mutant: it is kept
FaceSeen(got) == IF lastActive /\ ~got.active THEN Neutral ELSE got.face

Frame(in, lost) ==
  LET got == Receive(in) seen == FaceSeen(got) IN
  /\ pc = "frame" /\ pc' = "listen" /\ (lost => losses > 0)
  /\ source' = got.source /\ eyeActive' = got.eyeActive /\ lastActive' = got.active
  /\ eyes' = IF lastActive /\ ~got.active THEN NoGaze ELSE got.eyes
  /\ IF got.active \/ lastActive
       THEN face' = Settled(seen) /\ Send(face', got.active, got.eyeActive, lost)
       ELSE face' = seen /\ ~lost /\ UNCHANGED <<sent, heard, losses, told>>
  /\ UNCHANGED <<launch, cfg, mapped, clocks, vrchat>>

\* The application drops the relay: the loop sees that it is to stop, sends a last,
\* neutral frame, and is joined.
Shutdown(lost) ==
  /\ pc = "listen" /\ pc' = "ended" /\ (lost => losses > 0)
  /\ IF lastActive
       THEN face' = Neutral /\ eyes' = NoGaze /\ Send(Neutral, FALSE, eyeActive, lost)
       ELSE ~lost /\ UNCHANGED <<face, eyes, sent, heard, losses, told>>
  /\ UNCHANGED <<launch, cfg, mapped, eyeActive, lastActive, source, clocks, vrchat>>

(***************************************************************************)
(* Time and VRChat.                                                        *)
(***************************************************************************)
Older(age, limit) == IF age < limit THEN age + 1 ELSE age

Tick ==
  /\ pc = "listen"
  /\ sinceVsync' = Older(sinceVsync, Watchdog)
  /\ sinceScan' = IF Discovering THEN Older(sinceScan, Rescan) ELSE sinceScan
  /\ source' = [source EXCEPT !.sinceFace = Older(@, Fresh), !.sinceEye = Older(@, Fresh),
                              !.tried = Older(@, Rescan + 1)]
  /\ UNCHANGED <<launch, cfg, pc, sent, mapped, face, eyes, eyeActive, lastActive, vrchat,
                 heard, losses, told>>

ChangeAvatar(a) ==
  /\ pc = "listen" /\ changes > 0 /\ a # avatar
  /\ changes' = changes - 1 /\ avatar' = a /\ notes' = notes + 1
  /\ heard' = Unheard(a) /\ told' = "no"
  /\ UNCHANGED <<launch, cfg, pc, sent, mapped, data, clocks, published, losses>>

Publish ==
  /\ pc = "listen" /\ published # avatar /\ published' = avatar
  /\ UNCHANGED <<launch, cfg, pc, sent, mapped, data, clocks, avatar, notes, changes,
                 heard, losses, told>>

Inputs == IF cfg.face.source = "babble" THEN Packets \cup {NoPacket} ELSE XrInputs

Next ==
  \/ Start \/ Fail
  \/ \E fetched, note, vsync \in BOOLEAN : Listen(fetched, note, vsync)
  \/ \E in \in Inputs, lost \in BOOLEAN : Frame(in, lost)
  \/ \E lost \in BOOLEAN : Shutdown(lost)
  \/ Tick \/ Publish
  \/ \E a \in DOMAIN Avatars : ChangeAvatar(a)

Spec == Init /\ [][Next]_vars

\* The worker's loop runs and its source goes on; the avatar's tree can be
\* fetched again and again; time passes.  Nothing says that it ever stops.
Fairness ==
  /\ WF_pc(Start) /\ SF_clocks(Tick) /\ SF_vars(Publish)
  /\ WF_pc(\E note, vsync \in BOOLEAN : Listen(FALSE, note, vsync))
  /\ SF_vars(\E note, vsync \in BOOLEAN : Listen(TRUE, note, vsync))
  /\ WF_pc(\E in \in Inputs, lost \in BOOLEAN : Frame(in, lost))

FairSpec == Spec /\ Fairness
-----------------------------------------------------------------------------
TypeOK ==
  /\ pc \in {"off", "refused", "disabled", "listen", "frame", "ended", "failed"}
  /\ \A r \in DOMAIN sent : r.shape \in Watched /\ sent[r] \in Int
  /\ mapped \in DOMAIN Avatars \cup {Fixed} /\ {avatar, published} \subseteq DOMAIN Avatars
  /\ DOMAIN face \subseteq Unified /\ eyes \in DOMAIN Gazes \cup {NoGaze}
  /\ eyeActive \in BOOLEAN /\ lastActive \in BOOLEAN
  /\ source \in [sinceFace : 0..Fresh, sinceEye : 0..Fresh, session : {"none", "created", "running"},
                 tracker : BOOLEAN, blink : 0..Blink, tried : 0..(Rescan + 1)]
  /\ sinceVsync \in 0..Watchdog /\ sinceScan \in 0..Rescan
  /\ {notes, changes, losses} \subseteq Nat
  /\ DOMAIN heard = Fields(Avatars[avatar]) /\ told \in {"no", "asked", "told"}

\* What the avatar shows of a shape, from its leaves that have a route: the
\* float it heard, or the number its bits spell, with its sign.
UsableIn == [a \in DOMAIN Avatars |-> {l \in Usable(Avatars[a]) : l.shape \in Watched}]
Shown(leaves) ==
  LET part(p) == SumSet({heard[l.at] : l \in {l \in leaves : l.part = p}}) IN
  IF \E l \in leaves : l.part = Value THEN part(Value)
  ELSE Part(SumSet({b * part(b) : b \in {l.part : l \in leaves} \cap Bits}), 2^BitsOf(leaves) - 1)
       * (IF part(Negative) = 100 THEN -1 ELSE 1)

\* How well leaves show a value: to a hundredth, or to the last bit; without a
\* sign negative values show as 0, and nothing shows beyond 100.
Show(leaves, value) ==
  LET bits == \A l \in leaves : l.part # Value
      target == IF bits /\ ~SignedIn(leaves) /\ value < 0 THEN 0 ELSE value
      step == IF bits THEN Part(100, 2^BitsOf(leaves) - 1) + 1 ELSE 1
  IN Magnitude(target) <= 100 => Magnitude(Shown(leaves) - target) <= step

\* Every shape that is routed with all its parts is shown as it is, and for an
\* avatar that has been discovered these are all it has.
Current ==
  LET routed == {r.at : r \in DOMAIN sent} IN
  \A shape \in {l.shape : l \in UsableIn[avatar]} :
    LET all == {l \in UsableIn[avatar] : l.shape = shape}
        leaves == {l \in all : l.at \in routed}
        complete == \A l \in all : \E k \in leaves : SamePart(l, k)
    IN (mapped = avatar => complete) /\ (complete => Show(leaves, ShapeOf(face, shape)))

\* When the worker sends a frame, the avatar shows the worker's face, in every
\* encoding, however little moved since the last frame and whatever was sent to
\* an earlier avatar.  It may not when a bundle has been lost, or a change of
\* avatar not yet heard of.
AvatarIsCurrent ==
  [][pc = "frame" /\ pc' = "listen" /\ lastActive' /\ told' = "told" /\ mapped' \in {avatar', Fixed}
       => Current']_vars

\* An avatar that has heard the face is left neutral and its flags down once
\* the source is silent or the relay has stopped.
SilenceIsNeutral ==
  told = "told" /\ (pc = "ended" \/ (pc \in {"listen", "frame"} /\ ~lastActive)) =>
    \A r \in DOMAIN sent : r.at \in DOMAIN heard =>
      \/ heard[r.at] = Unsent
      \/ ~NeedsSending(r, heard[r.at], Encode(r, ValueOf(r, Neutral, FALSE, FALSE)))

\* g looks like f in the mirror.  Ears, and the vertical gaze, of which there is
\* one for both eyes, are known to be one-sided.
LooksMirrored(g, f) ==
  \A s \in AllShapes : s[1] \notin {"Ear", "EyeY"} => ShapeOf(g, Mirror(s)) = Sign(s) * ShapeOf(f, s)
MirrorOf(f) == [s \in {Mirror(t) : t \in DOMAIN f} |-> Sign(s) * f[Mirror(s)]]
MirroredMetaFaces == [w \in DOMAIN Weights |-> FromMeta(MirroredWeights(Weights[w]))]

\* With OpenXR, the face of a mirrored user stays the mirrored face (ears and
\* vertical gaze apart): a frame that gets the mirrored weights on top of the
\* mirrored face makes the mirror image of what it has made.  No table, rule or
\* formula from Meta's weights and the gaze to the combined shapes mixes up the
\* sides, not when weights stop and the lids go on, nor when the same shapes are
\* settled frame after frame.
MirroredFaces ==
  [][cfg.face.source = "openxr" /\ pc = "frame" /\ lastActive' =>
       LET taken == {in \in XrInputs : \E lost \in BOOLEAN : Frame(in, lost)} IN
       \A g \in {Settled(XrFace(MirrorOf(face), in, MirroredMetaFaces)) : in \in taken} :
         LooksMirrored(g, face')]_vars

\* What the command line asks for is in force, or the server refuses to start.
\* An output and a sheet that it names take the place of the mapping that the
\* file had chosen: UniFT, or a good sheet for an output that takes one, is not
\* refused with any valid file.  (A sheet alone is refused with a file's UniFT.)
CommandLineStep ==
  pc = "off" =>
    LET cli == launch.cli
        given(n) == n \in DOMAIN cli
        file == ApplyFile(Defaults, launch.file)
    IN
    /\ pc' # "refused" =>
         /\ given("noFace") => pc' = "disabled"
         /\ given("source") /\ ~given("noFace") => pc' = "listen"
         /\ \A n \in {"source", "destination", "output", "sheet"} : given(n) => cfg'.face[n] = cli[n]
         /\ \A n \in {"trackerPort", "control"} : given(n) => cfg'[n] = cli[n]
         /\ pc' = "listen" =>
              cfg'.face.destination \notin FaceInputs(cfg'.face) /\ cfg'.trackerPort \notin FaceInputs(cfg'.face)
    /\ (/\ DOMAIN cli \subseteq {"output", "sheet"} /\ ConfigValid(file)
        /\ IF given("sheet") THEN ValidSheet(Sheet) /\ cfg'.face.output # "unift"
           ELSE given("output") /\ cli.output = "unift") => pc' # "refused"
CommandLineWins == [][CommandLineStep]_vars

\* With discovery, neither the avatar nor its routes stay wrong while the source
\* goes on: again and again the routes are those of the avatar in use and it
\* shows the face.  Neither a lost bundle, nor a change nobody was told of, nor a
\* tree read too early lasts for ever.
Recovers ==
  <>[](lastActive /\ pc \in {"listen", "frame"} /\ Discovering) =>
    []<>(pc = "listen" /\ mapped = avatar /\ Current)
=============================================================================
