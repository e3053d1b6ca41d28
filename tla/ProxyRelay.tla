----------------------------- MODULE ProxyRelay ------------------------------
(***************************************************************************)
(* One client connection of shora-proxy (proxy.rs, relay and Cache).  The  *)
(* client keeps its connection while the backend server crashes, restarts  *)
(* and stalls; the relay caches the frames that set a session up, replays  *)
(* them to each new backend and passes every other frame on at most once.  *)
(*                                                                         *)
(* A frame is named by its place in sent, the history of what the relay    *)
(* took from the client.  The queue between client and relay only delays   *)
(* that moment, so taking a frame and its arrival are one step.            *)
(***************************************************************************)
EXTENDS Naturals, Sequences, FiniteSets, SequencesExt

CONSTANTS
  Setups,        \* distinct SolarXR bundles made of setup requests only
  Trackers,      \* feeder tracker ids, numbers: the cache is ordered by id
  MaxSetup,      \* the cache limits: 32 bundles, 64 trackers in the code
  MaxTrackers,
  MaxSent,       \* bound on the frames a client sends
  MaxFaults,     \* bound on the backend's crashes, hang-ups and stalls
  MaxReplies     \* bound on the backend's unread frames

ASSUME BoundsAssumption ==
  /\ Trackers \subseteq Nat /\ 0 \notin Trackers
  /\ {MaxSetup, MaxTrackers, MaxSent, MaxFaults, MaxReplies} \subseteq Nat

Protocols == {"SolarXr", "Feeder"}
Frames(p) ==
  IF p = "SolarXr"
    THEN [kind : {"setup"}, id : Setups] \cup {[kind |-> "action", id |-> 0]}
    ELSE [kind : {"added", "on", "off", "pose"}, id : Trackers]
           \cup [kind : {"version", "action"}, id : {0}]

VARIABLES
  protocol,   \* which of the two sockets the client connected to
  sent,       \* the frames taken from the client, in order
  horizon,    \* the first horizon frames are older than POSE_MAX_AGE
  setup,      \* cached SolarXR bundles, in the order first seen
  version,    \* cached feeder version frame, 0 if none
  trackers,   \* cached feeder trackers: a partial map from id
  conn,       \* "none", "replaying" or "attached" to a backend
  alive,      \* the backend's end of that connection is open
  up,         \* a backend is listening
  session,    \* number of connections made so far
  pending,    \* the frames of the replay still to be written
  stream,     \* the frames written to this connection
  done,       \* how many of them the backend has handled
  live,       \* the actions passed on directly, in any session
  runs,       \* how often each action has been handled, over all sessions
  replies,    \* sessions of the backend frames waiting to go to the client
  heard,      \* the session the client last heard from
  closed,     \* the client is gone
  faults

cacheVars == <<setup, version, trackers>>
linkVars == <<conn, alive, session, pending, stream, done, replies>>
vars == <<protocol, sent, horizon, cacheVars, linkVars, up, live, runs, heard,
          closed, faults>>

Init ==
  /\ protocol \in Protocols
  /\ sent = <<>> /\ horizon = 0
  /\ setup = <<>> /\ version = 0 /\ trackers = [t \in {} |-> 0]
  /\ conn = "none" /\ alive = FALSE /\ session = 0
  /\ pending = <<>> /\ stream = <<>> /\ done = 0 /\ replies = <<>>
  /\ up \in BOOLEAN /\ closed = FALSE
  /\ live = {} /\ runs = [n \in 1..MaxSent |-> 0] /\ heard = 0 /\ faults = 0

Idle == ~closed /\ conn # "replaying"    \* the relay's select! is waiting

(***************************************************************************)
(* The cache (observe and replay).                                         *)
(***************************************************************************)
\* Mutant: an id announced again keeps the status and pose of its last owner.
EntryKept(f, n) ==
  IF f.kind = "added" /\ f.id \in DOMAIN trackers THEN [trackers[f.id] EXCEPT !.added = n]
  ELSE IF f.kind = "added" THEN [added |-> n, status |-> 0, pose |-> 0]
  ELSE IF f.kind = "pose" THEN [trackers[f.id] EXCEPT !.pose = n]
  ELSE [trackers[f.id] EXCEPT !.status = n]

\* What a tracker's entry becomes: an announcement forgets all that was known
\* of the id, an inactive status forgets the pose.
EntryAfter(f, n) ==
  CASE f.kind = "added" -> [added |-> n, status |-> 0, pose |-> 0]
    [] f.kind = "pose"  -> [trackers[f.id] EXCEPT !.pose = n]
    [] f.kind = "on"    -> [trackers[f.id] EXCEPT !.status = n]
    [] f.kind = "off"   -> [trackers[f.id] EXCEPT !.status = n, !.pose = 0]

\* A tracker message is only cached for an id that has been announced.
Tracked(f) ==
  \/ f.kind = "added"
  \/ f.kind \in {"pose", "on", "off"} /\ f.id \in DOMAIN trackers

\* Mutants: a bundle with an action in it is cached; setup is never cached.
ObserveAnything(f, n) == setup' = Append(setup, n) /\ UNCHANGED <<version, trackers>>
ObserveNothing(f, n) == UNCHANGED cacheVars
Observe(f, n) ==
  /\ setup' = IF f.kind = "setup" /\ \A i \in 1..Len(setup) : sent[setup[i]] # f
                THEN Append(setup, n) ELSE setup
  /\ version' = IF f.kind = "version" THEN n ELSE version
  /\ trackers' = IF Tracked(f)
                   THEN [t \in DOMAIN trackers \cup {f.id} |->
                           IF t = f.id THEN EntryAfter(f, n) ELSE trackers[t]]
                   ELSE trackers

\* The limits of the cache; going over them ends the relay.
OverLimit(f) ==
  \/ /\ f.kind = "setup" /\ Len(setup) >= MaxSetup
     /\ \A i \in 1..Len(setup) : sent[setup[i]] # f
  \/ /\ f.kind = "added" /\ f.id \notin DOMAIN trackers
     /\ Cardinality(DOMAIN trackers) >= MaxTrackers

\* The poses a replay may send: fresh ones of trackers not known inactive.
\* (Mutant: any pose.)
AnyPose(t) == IF trackers[t].pose # 0 THEN <<trackers[t].pose>> ELSE <<>>
FreshPose(t) ==
  LET entry == trackers[t]
      inactive == entry.status # 0 /\ sent[entry.status].kind = "off"
  IN IF entry.pose > horizon /\ ~inactive THEN <<entry.pose>> ELSE <<>>

Status(t) == IF trackers[t].status # 0 THEN <<trackers[t].status>> ELSE <<>>
Ids == CHOOSE ids \in SetToSeqs(DOMAIN trackers) :   \* in ascending order
         \A i, j \in DOMAIN ids : i < j => ids[i] < ids[j]
PerTracker(Op(_)) == FlattenSeq([i \in 1..Len(Ids) |-> Op(Ids[i])])
Announcement(t) == <<trackers[t].added>>
NewsOf(t) == Status(t) \o FreshPose(t)

\* Every identity is announced before any pose is replayed.
Replay ==
  IF protocol = "SolarXr" THEN setup
  ELSE (IF version # 0 THEN <<version>> ELSE <<>>)
         \o PerTracker(Announcement) \o PerTracker(NewsOf)

(***************************************************************************)
(* The relay's events.                                                     *)
(***************************************************************************)
\* The relay drops the backend connection with all that is queued on it.
Drop ==
  /\ conn' = "none" /\ alive' = FALSE
  /\ pending' = <<>> /\ stream' = <<>> /\ done' = 0 /\ replies' = <<>>
  /\ UNCHANGED session

\* Writing to the backend fails when it is gone, or when it stalls.
CanFail == ~alive \/ faults < MaxFaults
CountFault == faults' = IF alive THEN faults + 1 ELSE faults

\* Event::Client(Some): observe, then pass the frame on.  While no backend is
\* attached the frame is not queued: what is not in the cache is lost.
ClientFrame(f) ==
  LET n == Len(sent) + 1 IN
  /\ Idle /\ n <= MaxSent /\ ~OverLimit(f)
  /\ sent' = Append(sent, f)
  /\ Observe(f, n)
  /\ \/ /\ conn = "attached" /\ alive
        /\ stream' = Append(stream, n) 
        /\ live' = IF f.kind = "action" THEN live \cup {n} ELSE live
        /\ UNCHANGED <<conn, alive, session, pending, done, replies, faults>>
     \/ /\ conn = "attached" /\ CanFail
        /\ Drop /\ CountFault
        /\ UNCHANGED live
     \/ /\ conn = "none"
        /\ UNCHANGED <<linkVars, live, faults>>
  /\ UNCHANGED <<protocol, horizon, up, runs, heard, closed>>

\* Event::Client(None), a frame over the cache limits, or a failed write to
\* the client: the relay ends and both connections are closed.
Close ==
  /\ Idle
  /\ closed' = TRUE /\ Drop
  /\ UNCHANGED <<protocol, sent, horizon, cacheVars, up, live, runs, heard, faults>>

\* Event::Retry: connect and compute the replay.
Connect ==
  /\ Idle /\ conn = "none" /\ up
  /\ conn' = "replaying" /\ alive' = TRUE /\ session' = session + 1
  /\ pending' = Replay
  /\ UNCHANGED <<protocol, sent, horizon, cacheVars, up, stream, done, live, runs,
                 replies, heard, closed, faults>>

\* One write of the replay.
ReplayFrame ==
  /\ conn = "replaying" /\ pending # <<>> /\ alive
  /\ stream' = Append(stream, Head(pending)) /\ pending' = Tail(pending)
  /\ UNCHANGED <<protocol, sent, horizon, cacheVars, conn, alive, up, session, done,
                 live, runs, replies, heard, closed, faults>>

ReplayFails ==
  /\ conn = "replaying" /\ pending # <<>> /\ CanFail
  /\ Drop /\ CountFault
  /\ UNCHANGED <<protocol, sent, horizon, cacheVars, up, live, runs, heard, closed>>

Attach ==
  /\ conn = "replaying" /\ pending = <<>>
  /\ conn' = "attached"
  /\ UNCHANGED <<protocol, sent, horizon, cacheVars, alive, up, session, pending,
                 stream, done, live, runs, replies, heard, closed, faults>>

\* Event::Backend: a frame for the client, or the end of the connection once
\* everything read from it has been passed on.
BackendFrame ==
  /\ Idle /\ conn = "attached" /\ replies # <<>>
  /\ heard' = Head(replies) /\ replies' = Tail(replies)
  /\ UNCHANGED <<protocol, sent, horizon, cacheVars, conn, alive, up, session,
                 pending, stream, done, live, runs, closed, faults>>

BackendEndUnseen ==     \* mutant: the end of the connection is noticed on writes only
  /\ Idle /\ conn = "attached" /\ replies = <<>> /\ ~alive /\ UNCHANGED vars
BackendEnd ==
  /\ Idle /\ conn = "attached" /\ replies = <<>> /\ ~alive
  /\ Drop
  /\ UNCHANGED <<protocol, sent, horizon, cacheVars, up, live, runs, heard, closed,
                 faults>>

(***************************************************************************)
(* The backend and time, for as long as the client is there.               *)
(***************************************************************************)
Handle ==
  /\ alive /\ done < Len(stream)
  /\ done' = done + 1
  /\ LET n == stream[done + 1]
     IN runs' = IF sent[n].kind = "action" THEN [runs EXCEPT ![n] = @ + 1] ELSE runs
  /\ UNCHANGED <<protocol, sent, horizon, cacheVars, conn, alive, up, session,
                 pending, stream, live, replies, heard, closed, faults>>

Reply ==
  /\ alive /\ Len(replies) < MaxReplies
  /\ replies' = Append(replies, session)
  /\ UNCHANGED <<protocol, sent, horizon, cacheVars, conn, alive, up, session,
                 pending, stream, done, live, runs, heard, closed, faults>>

\* The backend crashes, or closes this connection and goes on listening.
\* What it has not read is lost.
HangUp(listening) ==
  /\ ~closed /\ up /\ faults < MaxFaults /\ (listening => alive)
  /\ alive' = FALSE /\ up' = listening /\ faults' = faults + 1
  /\ UNCHANGED <<protocol, sent, horizon, cacheVars, conn, session, pending, stream,
                 done, live, runs, replies, heard, closed>>

Start ==
  /\ ~closed /\ ~up /\ up' = TRUE
  /\ UNCHANGED <<protocol, sent, horizon, cacheVars, linkVars, live, runs, heard,
                 closed, faults>>

Age ==
  /\ ~closed /\ horizon < Len(sent) /\ horizon' = horizon + 1
  /\ UNCHANGED <<protocol, sent, cacheVars, linkVars, up, live, runs, heard, closed,
                 faults>>

Next ==
  \/ \E f \in Frames(protocol) : ClientFrame(f)
  \/ Close \/ Connect \/ ReplayFrame \/ ReplayFails \/ Attach
  \/ BackendFrame \/ BackendEnd
  \/ Handle \/ Reply \/ Start \/ Age
  \/ \E listening \in BOOLEAN : HangUp(listening)

Spec == Init /\ [][Next]_vars

\* The relay task keeps running: its timer fires while it has no backend, and
\* each write ends, at the latest by its timeout.
Fairness ==
  /\ WF_vars(Connect) /\ WF_vars(ReplayFrame \/ ReplayFails) /\ WF_vars(Attach)
  /\ WF_vars(BackendFrame) /\ WF_vars(BackendEnd)

FairSpec == Spec /\ Fairness
-----------------------------------------------------------------------------
TypeOK ==
  /\ protocol \in Protocols
  /\ sent \in Seq(Frames(protocol)) /\ Len(sent) <= MaxSent /\ horizon \in 0..Len(sent)
  /\ setup \in Seq(1..Len(sent)) /\ Len(setup) <= MaxSetup
  /\ version \in 0..Len(sent)
  /\ DOMAIN trackers \subseteq Trackers /\ Cardinality(DOMAIN trackers) <= MaxTrackers
  /\ \A t \in DOMAIN trackers :
       trackers[t] \in [added : 1..Len(sent), status : 0..Len(sent), pose : 0..Len(sent)]
  /\ conn \in {"none", "replaying", "attached"} /\ {alive, up, closed} \subseteq BOOLEAN
  /\ pending \in Seq(1..Len(sent)) /\ stream \in Seq(1..Len(sent))
  /\ done \in 0..Len(stream) /\ live \subseteq 1..Len(sent)
  /\ runs \in [1..MaxSent -> Nat]
  /\ session \in Nat /\ replies \in Seq(1..session) /\ heard \in 0..session

\* Inductive.  The cache is what the client last said of its session: every
\* setup frame; for every tracker its latest announcement, and a status and a
\* pose only of that identity, the pose not followed by other news than "on".
IsFrame(n, kind, id) == sent[n].kind = kind /\ sent[n].id = id
CacheIsTrue ==
  /\ \A k \in 1..Len(setup) : sent[setup[k]].kind = "setup"
  /\ \A m \in 1..Len(sent) : sent[m].kind = "setup" => \E k \in 1..Len(setup) : sent[setup[k]] = sent[m]
  /\ version # 0 => sent[version].kind = "version"
  /\ IsFiniteSet(DOMAIN trackers)
  /\ \A m \in 1..Len(sent) : sent[m].kind = "added" => sent[m].id \in DOMAIN trackers
EntriesAreTrue ==
  \A t \in DOMAIN trackers :
    LET e == trackers[t] IN
    /\ IsFrame(e.added, "added", t)
    /\ \A m \in 1..Len(sent) : IsFrame(m, "added", t) => m <= e.added
    /\ e.status # 0 => e.status > e.added /\ \E kind \in {"on", "off"} : IsFrame(e.status, kind, t)
    /\ e.pose # 0 => /\ e.pose > e.added /\ IsFrame(e.pose, "pose", t)
                     /\ \A m \in (e.pose + 1)..Len(sent) : sent[m].id = t => sent[m].kind = "on"

\* Without a backend there is nothing on the way to one, and nothing from it.
LinkIsFresh ==
  /\ conn # "replaying" => pending = <<>>
  /\ conn = "none" => stream = <<>> /\ replies = <<>> /\ ~alive
  /\ conn # "none" => session > 0
  /\ \A i \in 1..Len(replies) : replies[i] = session

\* An action is written once, after the replay, and handled after that.
ActionsAreLive ==
  /\ \A n \in 1..MaxSent : n > Len(sent) => runs[n] = 0
  /\ \A i \in 1..Len(pending) : sent[pending[i]].kind # "action"
  /\ \A i \in 1..Len(stream) : sent[stream[i]].kind = "action" =>
       /\ conn # "replaying" /\ stream[i] \in live /\ (i > done => runs[stream[i]] = 0)
       /\ \A j \in 1..Len(stream) : stream[j] = stream[i] => j = i

\* A backend has been given, or will be by the replay, every setup frame and
\* every tracker's present identity, and no later announcement follows that.
SetupIsComing ==
  protocol = "SolarXr" /\ conn # "none" =>
    \A m \in 1..Len(sent) : sent[m].kind = "setup" =>
      \/ \E j \in 1..Len(stream) : sent[stream[j]] = sent[m]
      \/ \E j \in 1..Len(pending) : sent[pending[j]] = sent[m]
IdentitiesArrive ==
  conn = "attached" => \A t \in DOMAIN trackers :
    \E j \in 1..Len(stream) :
      stream[j] = trackers[t].added /\ \A k \in (j + 1)..Len(stream) : ~IsFrame(stream[k], "added", t)
News == {"pose", "on", "off"}
NewsFollows(n, i, before) ==    \* of n, which is the i-th frame of a replay
  sent[n].kind \in News =>
    /\ sent[n].id \in DOMAIN trackers /\ n > trackers[sent[n].id].added
    /\ \E j \in 1..(i - 1) : before[j] = trackers[sent[n].id].added
ReplayIsInOrder ==
  conn = "replaying" =>
    LET replay == stream \o pending IN
    /\ \A i \in 1..Len(replay) :
         /\ sent[replay[i]].kind = "added" => replay[i] = trackers[sent[replay[i]].id].added
         /\ NewsFollows(replay[i], i, replay)
    /\ protocol = "Feeder" => \A t \in DOMAIN trackers :
         \E j \in 1..Len(replay) : replay[j] = trackers[t].added

\* A frame that may act (reset, calibration, ...) is handled at most once over
\* all sessions, and never if it came while no backend was attached: nothing
\* that acts is ever replayed.
ActionsRunAtMostOnce ==
  \A n \in 1..Len(sent) : sent[n].kind = "action" =>
    runs[n] <= 1 /\ (runs[n] = 1 => n \in live)

\* In every session, an action is handled by a backend that has first been
\* given every setup bundle the client had sent before it.
SetupBeforeActions ==
  protocol = "SolarXr" =>
    \A i \in 1..Len(stream), m \in 1..Len(sent) :
      /\ sent[stream[i]].kind = "action" /\ sent[m].kind = "setup"
      /\ m < stream[i]
      => \E j \in 1..(i - 1) : sent[stream[j]] = sent[m]

\* The identity the client meant with frame n: its latest announcement of the id.
IdentityOf(n) ==
  LET own == {m \in 1..n : sent[m].kind = "added" /\ sent[m].id = sent[n].id}
  IN {m \in own : \A k \in own : k <= m}

\* In every session, a pose or status reaches the backend after the very
\* announcement it belongs to, with no other announcement of the id between.
PoseFollowsItsIdentity ==
  protocol = "Feeder" =>
    \A i \in 1..Len(stream) : sent[stream[i]].kind \in {"pose", "on", "off"} =>
      LET before == {j \in 1..i : /\ sent[stream[j]].kind = "added"
                                  /\ sent[stream[j]].id = sent[stream[i]].id}
      IN IdentityOf(stream[i]) =
           {stream[j] : j \in {j \in before : \A k \in before : k <= j}}

\* Nothing stale passes through the relay.  A replay starts with poses that are
\* fresh, the latest of their tracker, and not followed by news that it went
\* inactive or that the id changed hands; and the client only hears from the
\* backend it is attached to, never from one that was dropped before.
NothingStaleIsPassedOn ==
  [][/\ conn = "none" /\ conn' = "replaying" =>
          \A i \in 1..Len(pending') :
            LET n == pending'[i] IN sent[n].kind = "pose" =>
              /\ n > horizon
              /\ \A m \in (n + 1)..Len(sent) :
                   sent[m].id = sent[n].id => sent[m].kind = "on"
     /\ heard' # heard => heard' = session]_vars

IInv ==
  /\ TypeOK /\ CacheIsTrue /\ EntriesAreTrue /\ LinkIsFresh /\ ActionsAreLive
  /\ SetupIsComing /\ IdentitiesArrive /\ ReplayIsInOrder
  /\ ActionsRunAtMostOnce /\ SetupBeforeActions /\ PoseFollowsItsIdentity

\* Once a backend stays up, a client that stays connected stays attached.
Reattaches ==
  <>[]up => <>[](closed \/ (conn = "attached" /\ alive))
=============================================================================
