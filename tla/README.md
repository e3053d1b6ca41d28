# slimevr-server-rs in TLA+

A verification project for the body- and face-tracking server in `src/`: TLA+
modules for the parts of it where order, concurrency, failure or time matter,
TLC runs that check them on small instances, and TLAPS proofs for every value
of the constants.

Run a model with `tlc -config X.cfg M` and a proof with `tlapm M.tla`, in this
directory. The community modules and the TLAPS library must be on the path.

## The system

One process, a set of tokio tasks and a few threads around shared state behind
`RwLock`s; a small proxy beside it. In order of weight:

| Part | State it keeps | Operations | Talks to |
| --- | --- | --- | --- |
| Tracker registry (`tracker/mod.rs`) | trackers by id, routes from address to MAC | handshake, sensor info, samples, status, heartbeat, local insert/remove, eviction | shared by the UDP task, the application loop, SolarXR, the status |
| UDP server (`tracker/udp.rs`) | a socket, a ping timer | decode one datagram, ping devices, evict silent ones | registry, calibration |
| Acquisition (`haritorax/serial.rs`) | a worker thread and a control channel for each serial port, one event queue, port states | start, restart, power off, report ports | bridge, through the queue |
| Decoder (`haritorax/gx6.rs`) | channel assignments, button counters, channels that have not reported | decode a line, disconnect | worker that owns it |
| Bridge (`haritorax/bridge.rs`) | tracker metadata, pending clicks | handle an event, group clicks, clear | registry, calibration, command queue |
| Application loop (`app.rs`) | settings, pause, bone lengths, target height, last pose | select over events, commands, ticks | everything |
| Calibration (`calibration.rs`, `reset.rs`, `smoothing.rs`) | fixes, drift samples and filter history for each tracker | full, yaw and mounting reset, set mounting, configure drift | loop, UDP, SolarXR |
| Autobone (`autobone.rs`) | recorded frames | start, record, process | loop, SolarXR |
| Control server (`control.rs`) | 16 connections | one JSON request at a time, five seconds to an answer | loop, through a bounded queue |
| Terminal UI (`ui/`), status (`status.rs`) | a published snapshot | read; queue commands | loop |
| SolarXR server (`solarxr/mod.rs`) | connections and their feed | requests, 33 ms feed | registry, calibration, autobone |
| Feeder server (`feeder.rs`) | the HMD pose | receive poses | solver, resets |
| Reconnect proxy (`proxy.rs`) | for each client a backend connection and a cache of set-up frames | relay, reconnect, replay | SolarXR and feeder sockets |
| Face relay (`face/osc.rs`, `output.rs`, `mystery.rs`, `unified.rs`) | the routes to the avatar and the last value sent on each, the face, how long ago its source was heard | listen for feedback, look at the avatar, take the source's data, send what changed, stop | VRChat over OSC and OSCQuery, a source |
| Face sources (`face/babble.rs`, `openxr.rs`) | when each half of the face was last heard; a session with the runtime | receive a packet; open, poll and lose a session | face relay |
| Configuration (`config.rs`, `face/config.rs`) | none | overlay defaults, file and command line; validate | everything |

What is hard here, and what makes each part correct:

- **Registry.** Devices roam between addresses, addresses change hands,
  old and new firmware send different SENSOR_INFO packets, two tasks write, and
  everything silent must go. Correct when a device has one route, its
  sensors sit there, nothing offline holds a pose, a configured position always
  wins and calibration hears of each change.
- **Proxy.** The backend may die between any two frames, and what is replayed
  must restore the session without repeating anything that acts. Correct
  when an action runs at most once and after the set-up it relied on, and a pose
  never reaches the backend under another tracker's identity.
- **Framing.** A frame arrives in pieces, in tasks that are cancelled. Correct
  when whole frames come out once and in order.
- **Commands.** A bounded queue between clients that give up after five seconds
  and a loop that must not stop. Correct when every answer is that of the
  command it was asked for, and the status already shows it.
- **Acquisition.** Threads that must be joined by the task that empties their
  queue; requests that outlive their caller. Correct when nothing of an old
  worker survives a restart, and "sent" means every port did it.
- **Proportions.** Height, lengths and target are three locks, two writers.
  Correct when they agree once a change is over and no frame is used twice.
- **Locks.** Nine `RwLock`s, nested; a waiting writer holds back readers.
  Correct when no set of tasks waits for itself.
- **Sockets.** A crash leaves a socket file. Correct when the next start takes
  it over and nobody takes over one that is alive.
- **Calibration.** Resets combine with mountings, drift and a head pose that
  may be stale. Correct when the user's heading and bends are shown whatever
  came before, and only drift is learned as drift.
- **Decoder.** A receiver names channels, the server body parts, and the link
  between the two arrives in reports that may be missed, while trackers exchange
  channels and parts. A click is a counter that has changed since somebody last
  looked. Correct when no click is counted that the user has not made, and a
  tracker that streams is known again and again.
- **Face relay.** Values are sent only when they change, over UDP, to an avatar
  that changes, encoded in whatever bits it has. Correct when the avatar shows
  the face after every frame that was not lost, recovers from one that was, and
  is left neutral when the source falls silent. Its tables are written once per
  side: correct when they mirror.
- **Configuration.** Flags exclude, imply and replace what a file says. Correct
  when what the command line asks for is in force or the start is refused.

`PROJECT.json` lists every part with what is modelled of it, and every hazard
with its line and the properties that cover it.

## Modules

| Module | Models | Main correspondence |
| --- | --- | --- |
| `TrackerRegistry` | registry, UDP task, bridge's effect on it | `byId`, `bySocket` are the two maps of `TrackerRegistry`; `known` the keys of `Bridge::trackers`; `mounting` what `Calibration` was last told; `pending` the gap between the two locks of `handle_sensor_info_raw`; an action for each datagram, event and half of `ping_devices` |
| `MCTrackerRegistry` | constants for TLC | a manual assignment, and symmetry |
| `TrackerRegistryProofs` | proofs | |
| `ProxyRelay` | `relay`, `Cache`, `replay` | frames are places in `sent`, the history of what was taken; `setup`, `version`, `trackers` are the cache; `pending` is what a replay has yet to write |
| `FrameChannel` | what a framed socket promises | abstract |
| `FrameReader` | `Reader`, `read_frame` byte by byte | `pos` counts bytes read, `start` the beginning of the frame under way, `queue` the channel of four frames |
| `ProxyProofs` | proofs, of `ProxyRelay` and of `FrameReader` | |
| `SolarXrReader` | the same read inside `handle_connection`'s `select!` | adds `Tick`, which drops the read future |
| `ControlLoop` | `control.rs`, the command queue, an iteration of the loop | `conn` is a connection, `slot` its oneshot, `pc` the place in the iteration, `status` the published snapshot |
| `ControlLoopProofs` | proofs | |
| `Acquisition` | `serial.rs`, and the loop's use of it | `pc` is a worker's place, `gen` the `stop` flag it was given, `control` its channel of one, `awaiting` the receivers `shutdown_trackers` still holds |
| `AcquisitionProofs` | proofs | |
| `BodyProportions` | settings, height, lengths, autobone | `pc` is the loop within `SetSettings`, `opt` a connection within `PROCESS` |
| `Calibration` | resets, mountings and drift learning of one tracker, with the headset and the user around it | `calib` is its `TrackerCalibration`; `truth` is history: where and when its last reset aimed, and for which mounting its bend axis was found |
| `MCCalibration` | constants for TLC | a strap and three poses |
| `BodyProofs` | proofs, of `Calibration` and of `BodyProportions` | |
| `RwLocks` | tasks and readers-writer locks in general | `std::sync::RwLock` |
| `ServerLocks` | the lock operations of every task, in the code's order | one program for each handler |
| `ServerLocksProofs` | proofs, first about locks in general | |
| `SocketClaim` | `Endpoint::bind` and `Drop`, and the other servers' remove-then-bind | `sockets` are inodes, `path` the one the name leads to |
| `Decoder` | `Decoder` of `gx6.rs`, as operators from a line to events | `assigned`, `counters`, `missing` are its maps; `Report` is an `r` line, `Sample` an `x` line |
| `Receivers` | servers that claim their endpoint, open a port in turn, decode it and count clicks; the user | `reader` is the server that has the port, `seen` the local part of the registry, `clicks` the bridge's, `owed` history: what the user pressed |
| `MCReceivers` | constants for TLC | a leg tracker, which has a second sensor on the thigh, and a tracker of that thigh |
| `ReceiversProofs` | proofs, first about the socket claim alone | |
| `Configuration` | defaults, `apply_file`, `apply_cli`, `validate` | records of what a file and a command line set |
| `FaceShapes` | Meta's and Babble's weights to unified shapes, and these to combined ones | a shape is a base name and a side; the tables of the code, once for both sides where the code has both |
| `FaceRoutes` | `output.rs`, `mystery.rs` | a route is one part of one shape at one address: a float, a sign or a bit |
| `FaceRelay` | the worker of `osc.rs`, its sources, discovery; VRChat around it | `sent` are the routes and what each sent last, `sinceVsync` and `sinceScan` its clocks, `heard` what the avatar has |
| `Overlays` | a record laid over another: `Over` | flags over a file, a file over the defaults, shapes over a face and tables over tables |
| `MCFaceRelay` | constants for TLC | two avatars, three packets, one face, nine ways to start |
| `FaceRelayProofs` | proofs, of `FaceRelay` and what it is made of | |

How they compose: `SolarXrReader` extends `FrameReader`; `FrameReader`
implements `FrameChannel` (`INSTANCE ... WITH sent <- frames, received <- taken`);
`ServerLocks` extends `RwLocks` with the programs of this server; `Receivers`
extends `SocketClaim` with what the winner does, and `Decoder`; `FaceRelay`
extends `Configuration`, `FaceRoutes` and, through it, `FaceShapes`, and so goes
from the command line to the avatar. Each behaviour of `Receivers` is one of
`SocketClaim`, and each one of `FrameReader` one of `FrameChannel`: both are proved.
`TrackerRegistry` already joins the UDP task and the application loop on one
registry. The others meet at an interface that each models from its own side:
`Receivers` has one port, its lines and its servers, `Acquisition` several ports
with their threads and queues but one tracker each; both end where an event
reaches the registry, which `TrackerRegistry` starts from; `TrackerRegistry` ends at the mounting it tells
calibration, which `Calibration` starts from; `ControlLoop` leaves open what a
command does.

Data is abstracted to what the properties tell apart: a rotation is its
presence or, in `Calibration`, a heading and a lean; a frame is a number, a
payload is a kind. Names defined just before
an action and marked `mutant` are broken variants; substituting one for the
definition after it makes TLC report the property it is paired with in
`PROJECT.json`, which shows that the property depends on the code. No
specification uses them.

## Runs

| Run | States | Shows |
| --- | ---: | --- |
| `registry_safety` | 52,720 | Two devices that swap and share two addresses, a receiver's tracker, an assigned position: routing, poses, positions and mountings stay consistent |
| `registry_eviction` | 220,576 | Two devices of two sensors, one of which falls silent: a move keeps sibling sensors, a route does not outlive its sensors, the silent device is forgotten |
| `proxy_relay` | 1,189,075 | Every order of three client frames with a backend that is late, crashes, hangs up or stalls once |
| `frame_reader` | 15,073 | Every fragmentation of three frames, empty, whole or invalid: the reader task is a `FrameChannel`, and loses nothing |
| `solarxr_tick` | violation | A tick inside a half-read frame makes the SolarXR server decode a frame nobody sent |
| `control_loop` | 151,491 | Two clients that time out and come back, gestures, room for one command |
| `acquisition` | 568,073 | Two receivers that come and go, a restart, a power-off call that may expire |
| `body_proportions` | 59,544 | Height changes, refused settings, pauses, two connections that record and process |
| `server_locks` | 190,811 | The lock operations of the loop, the UDP task, a SolarXR connection and the small services |
| `receivers` | 72,400 | Two careful servers and a hasty one start in turn, end or crash between any two file operations; the one that serves reads two trackers, which press or exchange channels or body parts, while reports, events and the port are lost |
| `face_relay` | 11,920 | Nine starts, six of which relay: Babble to a discovered avatar that changes or loses a bundle, UniFT, a sheet, OpenXR to fixed outputs; command lines against files |
| `calibration` | 3,699,132 | Three resets of any kind, at any time, in any pose, with changes of position and of drift settings between them: headings and bends are shown as they are, drift is learned from standing resets only and cancelled |

### Bounds, and why they are enough

- Registry: two devices and two addresses give every relation the rules
  mention: moving, swapping, sharing and taking over. Two sensors tell a
  device from its sensors, which only the eviction run needs; its clock stops at
  `Timeout + 1` since all ages beyond the timeout behave alike. Positions 0, 1, 2
  are unassigned, the configured one and another one.
- Proxy: three frames hold set-up, action and set-up, or announcement, pose and
  new announcement; one fault puts a crash at every point of a replay. The
  cache limits are 2 and 1 instead of 32 and 64, so that they are reached.
- Frame reader: a header of two bytes and bodies of 0, 1 or 2 let a frame break
  everywhere; 9 is a length beyond the limit. A queue of one is full at once.
- Control loop: three commands make a late answer meet the next request of the
  same client while another one waits for room in a queue of one.
- Acquisition: two ports make a partial failure, one restart an old and a new
  generation, a queue of one an overload. A single call leaves out the case of
  a port still busy with an earlier call; the same module with one port, two
  calls and a queue of two passes as well, and so do the safety properties of
  this instance with two calls (1,483,132 states).
- Proportions: two heights, one refused value, three frames for two optimizers.
- Locks: a task runs its programs for ever, so nothing is bounded; the set of
  programs is that of the code.
- Calibration: three resets hold the documented sequences (full, mounting, yaw;
  yaw, mounting, yaw) and every other one; a clock of three ticks, two of them the
  second of easing, holds an interval of two and a step into it. Positions 7
  and 9 differ in mounting and in the way they lean. One tracker is enough, since
  a reset treats each by itself: what they share is the reference.
- Receivers: three exits, by crash or by `Drop`, cover a crash during a takeover
  after a crash. Two trackers and two channels can exchange both channels and
  parts; a counter of three values differs, repeats and wraps (the code's has
  sixteen). One press or exchange is enough to be lost, doubled or mistaken; the
  proof of `NobodyElseClicks` takes any number.
- Face relay: avatars, packets and faces are chosen so that every encoding of a
  value (float, two bits, a sign, an address it has twice) follows another one;
  the three packets cross from one number of bits to the next, below zero. Each
  launch carries its own budget of avatar changes and lost bundles, at most
  one of them: what recovery has to do does not depend on what was lost before.
  Times are 1 or 2 ticks: a silence and the watchdog end within one tick, a
  look at the avatar is further away than either. The tables are those of the
  code in full: `MirroredFaces` gives each of Meta's weights a value of its own, and two
  gazes close the lids by different amounts and jump.

The modules that keep state have a `TypeOK`, but for `Receivers`, whose `ClicksInv`
takes its place. Two modules give way to another one that is proved about in the same
place: in `BodyProportions` the names it has in common with `Calibration` begin with
`Body`, in `FrameReader` those in common with `ProxyRelay` with `Frames`. The `TypeOK` of the registry is
checked and proved; those of `BodyProportions`, `Calibration`, `RwLocks`,
`SocketClaim`, `ProxyRelay`, `FrameReader`, `ControlLoop` and `Acquisition` are proved,
as parts of their inductive invariants; that of `FaceRelay` says what the variables
hold and is not among the properties of the runs. Every inductive invariant (`IInv`,
`PositionInv`, `ClicksInv`, `SilenceInv`, `FaceKnown`) was checked by TLC under the constants of
its run before it was proved.

Every cap is in a guard and named in the CONSTANTS (`MaxSent`, `MaxFaults`,
`MaxReplies`, `MaxFrames`, `MaxCommands`, `MaxRestarts`, `MaxCalls`, `MaxExits`,
`MaxTime`, `MaxResets`, `MaxMoves`, and `changes` and `losses` of `Launches`).
`CHECK_DEADLOCK FALSE` stands where a system may really stop (the client has
closed, the loop has shut down) or where a cap ends the run. It is on for the
locks and the registry.

### Fairness

- Registry: time passes (weak, `Tick`); the ping branch of the UDP task's
  `select!` is polled in random order with the socket, so datagrams cannot
  keep it out for ever (strong, `PingStart`); the second half of a handler follows.
  No fairness on datagrams or events.
- Proxy: the retry timer fires and every write ends, at the latest by its
  two-second timeout. None on the client or on the backend's life: `Reattaches`
  assumes in its statement that the backend stays up.
- Frame reader: the reader and its user are scheduled. None on the client.
- Control loop: the steps of an iteration end; `select!` does not starve a
  ready branch, and tokio's `Semaphore` behind the queue is first come, first
  served (both strong); the five-second timer fires.
- Acquisition: threads run, a serial read returns within its 100 ms timeout so
  that a stopped worker leaves its loop, and the two-second deadline comes. None
  on tracker reports or on ports.
- Receivers: a process that claims goes on, and some server is started again;
  one that ends lets go of its port (weak), and a port is tried every two
  seconds (strong, `OpenPort`); a tracker goes on sending samples, and a channel
  that is asked again and again, as `gx6.rs` does for the unknown ones, answers
  (both strong, for each channel). Any one
  report or event may still be lost; none is assumed of presses, exchanges or
  failures.
- Face relay: the worker's loop runs and its source goes on (weak); time passes
  and VRChat publishes the tree of its avatar (strong); among the looks at the
  avatar one succeeds in the end (strong). None on what is lost, on the
  notice of a change, or on the end.

Proportions, locks and calibration have safety properties only.

## Findings

One place where a run shows that code and text disagree, quoted in
`PROJECT.json`: in `solarxr/mod.rs:135` `read_message` is a branch of a `select!`
with a 33 ms tick, so a tick drops what was read of a frame. `proxy.rs:122` gives
this very reason for its dedicated reader.

What else was noticed while modelling. No property speaks of these cases, or it
names them as exceptions:

- A height change during an autobone `PROCESS`: lengths optimised for the old
  height overwrite those of the new one (`solarxr/mod.rs:588`; README line 262
  says a change replaces "any current optimized lengths"). `BodyAgrees` holds
  lengths built from a height to it, and no others.
- Two servers that start together on a stale socket: the slower one removes the
  socket of the faster one (`proxy.rs:52`). `SocketClaim` starts one at a time.
- A yaw reset within a second of another learns as drift what is left of the
  first correction (`calibration.rs:151`). `DriftIsCancelled` speaks of the others.
- Buttons: a counter that wraps to 0 loses a press (`gx6.rs:149`); a part that
  changes hands looks like one press of it (`gx6.rs:140`), which `owed` concedes;
  clicks are grouped by the time they are handled (`bridge.rs:55`), so a
  loop that waits for its threads can merge two gestures; a report lost after
  two trackers have exchanged parts leaves their samples under the old parts,
  since only unknown channels are asked again (`gx6.rs:97`).
- `--face-translation-sheet` alone is refused when the file says `output = "unift"`
  (`face/config.rs:82`): the sheet takes the place of an avatar file, but not of an
  output. `CommandLineWins` asks for a sheet's output to be one that takes it.
- Shutdown gives up the endpoint (`app.rs:158`) before the serial threads let go of
  the ports; the next server's open fails and is retried, which `StreamingIsSeen`
  covers.
- Face: ears and the vertical gaze are one-sided (`unified.rs:385` reads the left
  brow for the right ear) and exempt from `MirroredFaces`; with Babble, a squint is
  modified in place and grows with every smile (`unified.rs:160`); bits of values
  beyond 1 wrap (`mystery.rs:85`), so `Show` stops at 100 %; a source that fails
  ends the relay without a neutral frame (`osc.rs:148`); in the static modes
  nothing resends a lost bundle (`osc.rs:219`), so `Recovers` is about discovery.
- A failed send in `udp.rs:78` ends the UDP service, and an unprocessed recording
  grows without a bound (`app.rs:134`).

## Proofs

`TrackerRegistryProofs`, from `ConstantsAssumption` (devices and receivers' MACs
are disjoint, no UDP device has the local address, 0 is a sensor and a
position, configured positions are positions), for any number of devices,
addresses and sensors and any timeout:

- `IInv` is inductive: types, one route for each device, sensors at their
  route, poses only of sensors that are Ok, local trackers known to the bridge,
  and `LocalsAreLocal`. The last is the strengthening: without it nothing says
  that a datagram's MAC cannot name a local entry, and neither `SensorAtItsRoute`
  nor `LocalsAreKnown` survives a handshake. Each action has a lemma of its own.
- `RoutesAreLive` is proved on top of it (`NextLive`): it needs `IInv` in the old
  state, and nothing in `IInv` needs it.
- `MovingKeepsSensors`: the action property about moves, from `IInv`.

Its last part, from the same assumption and `IInv`, is about positions: `PositionInv`, that a
configured position wins, that the calibration's mounting is that of the
position unless the UDP task has yet to say so, and (the strengthening,
`PendingIsCurrent`) that what it has yet to say is about one UDP sensor and still
that sensor's position. The other task that sets positions touches local
trackers only, which `ConstantsAssumption` keeps apart from UDP devices; and the
UDP task begins no other packet before it has told the calibration.

`BodyProofs` is about what a body is made of. Its first part is about `Calibration`,
for any strap, any rate of drift, any poses and headings of other trackers, and
any number of resets, from `CalibrationAssumption` (a sensor drifts by less than half a turn
over the run). The properties are not inductive: they say
nothing while the sensor is not straight, or a yaw reset is being eased in. `IInv`
says what holds all along, of the fixes themselves: `FixesAddUp`, that with the
strap and the drift at the time they add up to where the last standing reset
aimed (under the mounting the attachment fix was taken for, which need not be the
current one); `AxisIsTurnedBack`, that the mounting fix undoes the strap; and
`SamplesAreTrue`, that a drift sample from two resets with one aim is what the
sensor drifted between them. A step for each kind of reset, and the three
properties follow by arithmetic modulo a turn: `HeadingIsReset`, `BendsAreShown`
and `DriftIsCompensated`.

Its second part, for any number of connections and any heights, is about
`BodyProportions`: `BodyIInv` adds to the three properties where the three values stand
while a settings command is under way (`SettingsUnderWay`), since `BodyAgrees` says
nothing of the states in between. From it, `SettingsAgree` and
`RecordingIsConsumedOnce`.

`ServerLocksProofs` begins with any number of tasks, locks and programs: if there is a rank
such that every program takes only locks ranking below all it holds, and frees
each lock it takes (`ProgramsInOrder`), then no set of tasks is ever stuck
(`OrderedLocksAreSafe`). The inductive invariant `LeftInOrder` says that what is
left of a program is in order with the locks its task holds; the step from it
to `NoCircularWait` takes, of a set of stuck tasks, the one that wants the lowest
lock. A waiting writer that holds back readers costs one more step: it waits
itself for somebody who holds the lock.

Its second part shows that every program of `ServerLocks` is in order, with
status above registry above calibration above bone lengths above the rest, by
composition (`ConcatInOrder`, `WithinInOrder`), and concludes that the server does
not deadlock on its locks. A handler that is changed needs one line of that
proof to be checked again.

`ReceiversProofs` begins with the socket claim alone, from `ClaimAssumption` (a process is careful or hasty), for
any number of processes and crashes: `IInv` says that one process claims the path
at a time, a socket has one owner, from `record` to `unlink` a process holds the
path, and what is about to be removed is not connectable. The last is what a
crash between two file operations must not break. From it,
`ServersAreReachable`.

Then, from `ReceiverAssumption` as well (each tracker is set to a
body part of its own), for any number of servers, trackers, channels, exits and
moves and a counter of any width: every step of `Receivers` is one of
`SocketClaim` or none (`ClaimStep`), so `IInv` and reachability carry over
(`ServersClaimTheirPath`, `ServersStayReachable`); and `ClicksInv`, that a
counter which differs from the one last reported for its part is a press that is
owed and not yet counted, while the port is read by the server that serves. What a
line holds is settled first, by lemmas on its events: `ReportClicks` and
`SampleClicks` say that only a report clicks, for its own part, and if the
counter has changed. `NobodyElseClicks` follows.

`ProxyProofs` begins with the relay, from `BoundsAssumption` (ids are numbers other than 0, limits
are numbers), for any number of frames, trackers, bundles, crashes, stalls and
reconnections. The three safety properties are not inductive, as each speaks
only of what a backend has got. `IInv` adds where that comes from:

- `CacheIsTrue`, `EntriesAreTrue`: the cache is what the client last said. Every
  setup frame has its bundle; a tracker's entry holds its latest announcement, a
  status and a pose that came after it, the pose followed by no news but "on".
- `ReplayIsInOrder`: what has been written of a replay and what is still pending,
  taken together, announce each tracker once under its present identity, with
  news of it behind. A step of the replay leaves that sequence as it is.
- `IdentitiesArrive`: an attached backend has got the present identity of every
  tracker, and no other announcement of that id since. So a live pose finds the
  identity it was meant for.
- `ActionsAreLive`: an action in a stream was passed on directly, stands there
  once, and has not been handled before its turn. `SetupIsComing`: each setup
  frame is in the stream or on its way. `LinkIsFresh`: a dropped backend leaves
  nothing behind, neither frames nor replies.

What a replay holds is settled first (`ReplayFacts`). It is made of `FlattenSeq`,
whose recursive function needs induction: `SetInduction` has it for a set of
numbers, from the well-foundedness of `<`, and `FlattenSteps`, `FlatRange` and
`CanBeSorted` (the ids have an ascending order) follow. The step of each action is
a lemma; a client's frame takes several, the history, the cache and the link.
From `IInv`: `NoActionTwice`, `SessionIsSetUp`, `NoForeignPose`; and the action
property `NothingStale`, whose two halves rest on `ReplayFacts` with
`EntriesAreTrue`, and on `LinkIsFresh`.

Its second part is about the reader, for any frames, sizes and fragmentation: `FramesIInv` says that
what was handed over, what is queued and what is being read are frames in a row
(`HandedAreNext`), and that the bytes of the one under way begin where the last
ended (`ReadIsAligned`). From it `FramesComeIntact`, and `Implements`: every step of
the reader is one of `FrameChannel` or none. `SolarXrReader` adds the step that
breaks the second of these, as its run shows.

`ControlLoopProofs`, for any number of clients, any queue and any bound on commands:
`IInv` follows a command from the request to the answer through its connection,
the queue, the loop and the oneshot; each command has one place, and its slot is
filled by it or by nothing. `AnswersFit` follows.

`AcquisitionProofs`, for any ports, queues and numbers of restarts and calls:
`OnlyCurrentWorkers` (a worker that acts was started after the last restart),
`NothingLeftOver` (queue and registry hold nothing of an older one) and
`EveryPortAccountedFor` (of a call under way, each port is still to be asked, awaited,
or has answered, and who answered "sent" has done it for this call). From them
`ControlsAreThere`, `NoStaleTracker`, and the action properties `OkMeansOff` and
`TurnsOffOnce`. The last rests on `OneRequestPerCall`: during a call a port has at most
one request of it, in its channel or in its worker's hands, and none once it is off or
has answered; and no channel holds a request of a call to come. A request that outlived
its call is then told from one of this call by its number (a closed reply channel in
the code). A worker that has turned to its tracker when the wait ends still turns it off.

`FaceRelayProofs` goes from the tables to the avatar, in five parts. Its assumptions
are `RelayAssumption` (the launches are what a start can be given, times are at least
a tick, the avatar of a launch has a tree), `NamesAssumption` (the last part of an
address decides which shape it stands for and which part of it, and no flag's address
is a shape's: names in the code are parsed from their ends) and `InputsAssumption`
(Meta's weights, and how far a gaze closes the eyes, are not negative; a flag for a sheet, where given, is TRUE).

- *Mirror images.* A shape is a weighted sum over a row of a table, by
  `SumFunction`, a recursive function over subsets. That it exists, adds up
  and is an integer is by well-founded induction on strict subsets, for functions of
  any size (`AddsUpExists`, `SumFacts`, `SumIsInt`). A row is written once for both sides
  and weighs no horizontal gaze, so mirror images have the same sums, side for side
  (`MixMirrors`); the gaze, which changes sign, and the formulas that are no sums (lids,
  smiles and what they do to each other) follow one by one. `FacesMirror` is the result for any
  weights of Meta. The worker's face is not always made from weights: they stop, the lids
  go on, and the squint is settled again in every frame. `MirroredFaces`
  (`StepsMirror`) says that each such frame carries mirror images on to mirror images,
  by `FaceKnown` (with OpenXR the face is one of unified shapes in whole percents)
  and `FramesMirror`. Ears and the vertical gaze are exempt.
- *Command line.* `CommandLineWins` (`CommandLineInForce`), by what `apply_file`
  and `apply_cli` lay over what, for any file and flags (`CliIsLast`, `FaceSettings`).
  UniFT sets the sheet and the avatar of a file aside, and a sheet the avatar, so a
  file that is valid stays so, unless a sheet meets UniFT (`MappingIsAccepted`).
- *Routes.* Whatever `FaceOutput::load` makes, of a sheet, an avatar's file or tree,
  UniFT's table or the defaults, sends to each address once and only shapes or
  flags (`LoadIsGood`). So a bundle cannot contradict itself, and leaves the avatar with
  what counts as sent (`BundleTells`).
- *Silence.* `SilenceIsNeutral` says nothing while the source is active, nor of how a
  face becomes neutral. `SilenceInv` adds: the routes are good, the avatar has heard
  what counts as sent (`HeardAsSent`) unless it has just changed or a bundle was
  lost, and a face that is silent is the neutral one and has been sent as such
  (`Hushed`), though the small changes are held back. That takes `NeutralIsSettled`: the neutral
  face is a fixed point of every formula it goes through. From it `SilenceHolds`.
- *Currency.* `RoutesStayCurrent`: after a frame of an active source that was not lost
  each route was heard as the face is now, or as a float that has hardly moved since.

Only model-checked:

- Liveness (`SilentIsEvicted`, `Reattaches`, `AllHandled`, `EveryCommandShows`,
  `RequestsEnd`, `CallsEnd`, `Recovers`, `EventuallyServed`, `StreamingIsSeen`): the
  prover has no rule for fairness and ENABLED.
- `AvatarIsCurrent`. It decodes what the avatar has heard, bits and signs and all, to
  the face. That the routes carry the face is proved (`RoutesStayCurrent`); that they decode to it
  is a matter of the avatar's own choice of bits, and false of a sheet that says
  something else of an address than the avatar does. TLC decodes every combination the
  avatars of the run have.

Every other invariant and action property of a passing run is stated by a theorem.

## Not modelled

- Quaternion arithmetic beyond the headings and leans of `Calibration`, filters,
  forward kinematics, the optimiser, sample decoding: floating point. A
  `drift_amount` other than 1, which takes that share of a correction. What is modelled is which inputs they are given.
- The identity hash, parsing of avatar files, OSC packets and JSON,
  serialisation, formatting: sequential functions with unit tests.
- Of the receivers: the sub button, whose events the bridge ignores, the battery,
  the settings digit, and the splitting of bytes into lines.
- Of the face relay: the blush, which integrates the avatar's answers; the gaze
  sent under `/tracking/eye`, which keeps no state; the bundle's chunks of 30;
  which of two leaves of the same name wins (`mystery.rs:137` leaves it to a
  hash map). The server is taken as built with the feature `face-xr`.
- OpenXR, mDNS, terminal drawing, `frontend/`, `packaging/`, `vendor/`:
  other programs or other people's code. `oscquery.rs` answers with constant text.
- The limits of 16 connections in the proxy and the control server: a
  semaphore, acquired and dropped with the connection.

## Plan

Filter history (`smoothing.rs`) across disconnects and resets.
