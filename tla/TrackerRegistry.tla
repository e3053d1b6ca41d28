--------------------------- MODULE TrackerRegistry ---------------------------
(***************************************************************************)
(* The registry of live trackers and the two tasks that write it:          *)
(*                                                                         *)
(*   - the UDP task (tracker/udp.rs), which handles one datagram at a time *)
(*     and, on its own timer, pings devices and evicts silent sensors;     *)
(*   - the application loop (app.rs), which feeds the events of the        *)
(*     HaritoraX receivers to the registry through Bridge.                 *)
(*                                                                         *)
(* A UDP device is known by its MAC and reached at one socket address; a   *)
(* sensor is a MAC and a sensor number.  HaritoraX trackers are sensors    *)
(* whose MAC is derived from their name and whose address has port 0.      *)
(* Datagrams come from any address at any time: nothing is assumed of the  *)
(* network but that a device which has fallen silent sends nothing.        *)
(***************************************************************************)
EXTENDS Naturals

CONSTANTS
  Devices,      \* MACs of the devices that speak the UDP protocol
  LocalMacs,    \* MACs derived from HaritoraX tracker names
  Addrs,        \* UDP socket addresses
  LocalAddr,    \* 127.0.0.1:0, the address of every local tracker
  Sensors,      \* sensor numbers; 0 is the primary sensor of a device
  Positions,    \* body positions; 0 is "unassigned"
  NoPosition,   \* a SENSOR_INFO packet too short to hold a position
  Statuses,     \* sensor states a SENSOR_INFO packet can report
  SampleKinds,  \* what a sensor streams: rotation, acceleration
  Assigned,     \* the configured position of some sensors (a partial map)
  Mortal,       \* the devices that may fall silent for good
  Timeout       \* tracker timeout, in units of the model's clock

Macs == Devices \cup LocalMacs
TrackerId == [mac : Macs, sensor : Sensors]
MaxAge == Timeout + 1    \* every age beyond the timeout is the same age

ASSUME ConstantsAssumption ==
  /\ Devices \cap LocalMacs = {}
  /\ LocalAddr \notin Addrs
  /\ 0 \in Sensors
  /\ 0 \in Positions /\ NoPosition \notin Positions
  /\ "Ok" \in Statuses
  /\ Mortal \subseteq Devices
  /\ Timeout \in Nat
  /\ DOMAIN Assigned \subseteq TrackerId
  /\ \A id \in DOMAIN Assigned : Assigned[id] \in Positions

VARIABLES
  byId,      \* partial map from TrackerId to its state
  bySocket,  \* partial map from address to the MAC it routes to
  mounting,  \* the mounting calibration was last told of, by sensor
  pending,   \* the sensors whose mounting the UDP task has yet to set
  pinging,   \* the UDP task is between two lock sections of ping_devices
  known,     \* the trackers Bridge has metadata for
  silent,    \* the devices that will never send again
  running    \* the UDP service has not failed

vars == <<byId, bySocket, mounting, pending, pinging, known, silent, running>>
env == <<silent, running>>

Tracker == [addr : Addrs \cup {LocalAddr}, position : Positions,
            status : Statuses, samples : SUBSET SampleKinds, age : 0..MaxAge]

EmptyMap == [x \in {} |-> x]

NewTracker(addr) ==
  [addr |-> addr, position |-> 0, status |-> "Ok", samples |-> {}, age |-> 0]

(***************************************************************************)
(* Lookups and updates shared by the operations.                           *)
(***************************************************************************)
Routed(mac) == {a \in DOMAIN bySocket : bySocket[a] = mac}
SensorsOf(mac) == {id \in DOMAIN byId : id.mac = mac}
Local(id) == byId[id].addr = LocalAddr

\* Mutant: a sensor already known is registered afresh.
EntryAlwaysNew(id, addr) == NewTracker(addr)

\* The entry of id, or the fresh one the registry would insert for it.
Entry(id, addr) == IF id \in DOMAIN byId THEN byId[id] ELSE NewTracker(addr)

\* byId with id bound to t.
With(id, t) == [x \in DOMAIN byId \cup {id} |-> IF x = id THEN t ELSE byId[x]]

\* byId and bySocket restricted to some keys.
Keep(ids) == [id \in ids |-> byId[id]]
KeepRoutes(as) == [a \in as |-> bySocket[a]]

\* The UDP task is waiting for the next datagram or timer tick.
Idle == running /\ pending = {} /\ ~pinging

\* A datagram from addr can arrive: a silent device sends none.
Receives(addr) ==
  /\ Idle
  /\ addr \in DOMAIN bySocket => bySocket[addr] \notin silent

Init ==
  /\ byId = EmptyMap /\ bySocket = EmptyMap /\ mounting = EmptyMap
  /\ pending = {} /\ pinging = FALSE
  /\ known = {} /\ silent = {} /\ running = TRUE

(***************************************************************************)
(* UDP datagrams.                                                          *)
(***************************************************************************)
\* The sensors a handshake drops: those of another device at this address.
EvictedNone(addr, mac) == {}   \* mutant: the previous owner's sensors stay
Evicted(addr, mac) ==
  IF addr \in DOMAIN bySocket /\ bySocket[addr] # mac
    THEN SensorsOf(bySocket[addr]) ELSE {}

\* The routes after a handshake: the device leaves its old address.
RoutesKept(addr, mac) ==        \* mutant: the old address keeps routing to it
  [a \in DOMAIN bySocket \cup {addr} |-> IF a = addr THEN mac ELSE bySocket[a]]
Routes(addr, mac) ==
  [a \in (DOMAIN bySocket \ Routed(mac)) \cup {addr} |->
     IF a = addr THEN mac ELSE bySocket[a]]

\* register_handshake: the address now belongs to mac.  Sensors of another
\* device that owned it are dropped; the device's own sensors move with it.
Handshake(addr, mac) ==
  /\ Receives(addr) /\ mac \notin silent
  /\ LET primary == [mac |-> mac, sensor |-> 0]
         kept == (DOMAIN byId \ Evicted(addr, mac)) \cup {primary}
     IN byId' = [id \in kept |->
                   IF id.mac = mac
                     THEN [Entry(id, addr) EXCEPT !.addr = addr, !.age = 0]
                     ELSE byId[id]]
  /\ bySocket' = Routes(addr, mac)
  /\ UNCHANGED <<mounting, pending, pinging, known, env>>

\* A configured position wins over the reported one, which an older firmware
\* leaves out.
ReportedWins(id, reported, old) ==        \* mutant: the assignment is a default
  IF reported # NoPosition THEN reported
  ELSE IF id \in DOMAIN Assigned THEN Assigned[id] ELSE old
ReportedAsIs(id, reported, old) ==        \* mutant: an absent position is stored
  IF id \in DOMAIN Assigned THEN Assigned[id] ELSE reported
NewPosition(id, reported, old) ==
  IF id \in DOMAIN Assigned THEN Assigned[id]
  ELSE IF reported = NoPosition THEN old ELSE reported

\* The pose of a sensor that is not Ok is dropped.
PosesKept(status, samples) == samples     \* mutant: it is not
Poses(status, samples) == IF status = "Ok" THEN samples ELSE {}

\* handle_sensor_info_raw up to drop(reg): the registry entry is updated
\* under the registry lock, the mounting only after it is released.
SensorInfo(addr, sensor, reported, status) ==
  /\ Receives(addr) /\ addr \in DOMAIN bySocket
  /\ LET id == [mac |-> bySocket[addr], sensor |-> sensor]
         old == Entry(id, addr)
         position == NewPosition(id, reported, old.position)
     IN /\ byId' = With(id, [old EXCEPT
                     !.position = position,
                     !.status = status,
                     !.samples = Poses(status, @),
                     !.age = 0])
        /\ pending' = {[id |-> id, position |-> position]}
  /\ UNCHANGED <<bySocket, mounting, pinging, known, env>>

SetMountingOnce(id, position) ==   \* mutant: a known mounting is not changed
  mounting' = [x \in DOMAIN mounting \cup {id} |->
                 IF x \in DOMAIN mounting THEN mounting[x] ELSE position]
SetMounting(id, position) ==
  mounting' = [x \in DOMAIN mounting \cup {id} |->
                 IF x = id THEN position ELSE mounting[x]]

\* The rest of the SENSOR_INFO branch: set_mounting, then the
\* acknowledgement, whose failure ends the service.
SetMountingAndAck(sent) ==
  /\ running
  /\ \E p \in pending : SetMounting(p.id, p.position)
  /\ pending' = {}
  /\ running' = sent
  /\ UNCHANGED <<byId, bySocket, pinging, known, silent>>

\* update_rotation and update_accel: a sample of a sensor that is not Ok is
\* dropped, but still shows that the sensor is alive.
Sample(addr, sensor, kind) ==
  /\ Receives(addr) /\ addr \in DOMAIN bySocket
  /\ LET id == [mac |-> bySocket[addr], sensor |-> sensor]
     IN /\ id \in DOMAIN byId
        /\ byId' = [byId EXCEPT ![id].age = 0,
                      ![id].samples = IF byId[id].status = "Ok"
                                        THEN @ \cup {kind} ELSE @]
  /\ UNCHANGED <<bySocket, mounting, pending, pinging, known, env>>

\* Mutant: a heartbeat refreshes every tracker.
MarkSeenAll(addr) ==
  /\ Receives(addr) /\ addr \in DOMAIN bySocket
  /\ byId' = [id \in DOMAIN byId |-> [byId[id] EXCEPT !.age = 0]]
  /\ UNCHANGED <<bySocket, mounting, pending, pinging, known, env>>

\* Heartbeats and ping echoes refresh every sensor of the device.
MarkSeen(addr) ==
  /\ Receives(addr) /\ addr \in DOMAIN bySocket
  /\ byId' = [id \in DOMAIN byId |->
                IF id.mac = bySocket[addr] THEN [byId[id] EXCEPT !.age = 0]
                                           ELSE byId[id]]
  /\ UNCHANGED <<bySocket, mounting, pending, pinging, known, env>>

(***************************************************************************)
(* Maintenance: ping_devices reads the addresses, sends without a lock,    *)
(* then removes what has been silent for longer than the timeout.          *)
(***************************************************************************)
PingStart ==
  /\ Idle
  /\ pinging' = TRUE
  /\ UNCHANGED <<byId, bySocket, mounting, pending, known, env>>

\* The routes that survive an eviction.
AllRoutes(fresh) == bySocket       \* mutant: routes are never removed
LiveRoutes(fresh) ==
  KeepRoutes({a \in DOMAIN bySocket : \E id \in fresh : id.mac = bySocket[a]})

RemoveStale ==
  /\ running /\ pinging
  /\ LET fresh == {id \in DOMAIN byId : byId[id].age <= Timeout}
     IN /\ byId' = Keep(fresh)
        /\ bySocket' = LiveRoutes(fresh)
  /\ pinging' = FALSE
  /\ UNCHANGED <<mounting, pending, known, env>>

(***************************************************************************)
(* HaritoraX events, handled by Bridge with the registry lock held.        *)
(***************************************************************************)
LocalId(mac) == [mac |-> mac, sensor |-> 0]

\* The position Bridge gives a tracker: configured, or implied by its name.
LocalPosition(id, implied) ==
  IF id \in DOMAIN Assigned THEN Assigned[id] ELSE implied

EnsureLocal(id, position) == [Entry(id, LocalAddr) EXCEPT !.position = position]

TrackerConnected(mac, implied) ==
  LET id == LocalId(mac)
      position == LocalPosition(id, implied)
  IN /\ running
     /\ byId' = With(id, EnsureLocal(id, position))
     /\ SetMounting(id, position)
     /\ known' = known \cup {id}
     /\ UNCHANGED <<bySocket, pending, pinging, env>>

\* A sample replaces the pose whatever the status; an unusable one only
\* leaves the metadata entry behind, as battery and button events do.
Imu(mac, implied, usable) ==
  LET id == LocalId(mac)
      position == LocalPosition(id, implied)
  IN /\ running
     /\ known' = known \cup {id}
     /\ IF usable
          THEN /\ byId' = With(id, [EnsureLocal(id, position) EXCEPT
                                      !.samples = SampleKinds, !.age = 0])
               /\ SetMounting(id, position)
          ELSE UNCHANGED <<byId, mounting>>
     /\ UNCHANGED <<bySocket, pending, pinging, env>>

\* remove_local spares an entry that is not local.
RemoveLocal(ids) ==
  byId' = Keep({id \in DOMAIN byId : ~(id \in ids /\ Local(id))})

TrackerDisconnected(mac) ==
  /\ running
  /\ RemoveLocal({LocalId(mac)})
  /\ known' = known \cup {LocalId(mac)}
  /\ UNCHANGED <<bySocket, mounting, pending, pinging, env>>

ClearForgets ==                    \* mutant: the metadata is dropped first
  /\ running
  /\ known' = {}
  /\ UNCHANGED <<byId, bySocket, mounting, pending, pinging, env>>

\* Bridge::clear, on an acquisition restart.
Clear ==
  /\ running
  /\ RemoveLocal(known)
  /\ known' = {}
  /\ UNCHANGED <<bySocket, mounting, pending, pinging, env>>

(***************************************************************************)
(* The environment: time passes, a device falls silent for good.           *)
(***************************************************************************)
Tick ==
  /\ byId' = [id \in DOMAIN byId |->
                [byId[id] EXCEPT !.age = IF @ < MaxAge THEN @ + 1 ELSE @]]
  /\ UNCHANGED <<bySocket, mounting, pending, pinging, known, env>>

GoSilent(mac) ==
  /\ silent' = silent \cup {mac}
  /\ UNCHANGED <<byId, bySocket, mounting, pending, pinging, known, running>>

Udp ==
  \/ \E a \in Addrs, m \in Devices : Handshake(a, m)
  \/ \E a \in Addrs, s \in Sensors, p \in Positions \cup {NoPosition},
        st \in Statuses : SensorInfo(a, s, p, st)
  \/ \E a \in Addrs, s \in Sensors, k \in SampleKinds : Sample(a, s, k)
  \/ \E a \in Addrs : MarkSeen(a)
  \/ \E sent \in BOOLEAN : SetMountingAndAck(sent)
  \/ PingStart
  \/ RemoveStale

Haritora ==
  \/ \E m \in LocalMacs, p \in Positions : TrackerConnected(m, p)
  \/ \E m \in LocalMacs, p \in Positions, u \in BOOLEAN : Imu(m, p, u)
  \/ \E m \in LocalMacs : TrackerDisconnected(m)
  \/ Clear

Next == Udp \/ Haritora \/ Tick \/ \E m \in Mortal : GoSilent(m)

Spec == Init /\ [][Next]_vars

\* Time passes, and the UDP task keeps running: its timer branch is polled
\* in the same select! as the socket, and neither starves the other.
Fairness ==
  /\ WF_vars(Tick)
  /\ SF_vars(PingStart)
  /\ WF_vars(RemoveStale)
  /\ WF_vars(\E sent \in BOOLEAN : SetMountingAndAck(sent))

FairSpec == Spec /\ Fairness
-----------------------------------------------------------------------------
TypeOK ==
  /\ DOMAIN byId \subseteq TrackerId
  /\ \A id \in DOMAIN byId : byId[id] \in Tracker
  /\ DOMAIN bySocket \subseteq Addrs
  /\ \A a \in DOMAIN bySocket : bySocket[a] \in Devices
  /\ DOMAIN mounting \subseteq TrackerId
  /\ \A id \in DOMAIN mounting : mounting[id] \in Positions
  /\ pending \subseteq [id : TrackerId, position : Positions]
  /\ known \subseteq TrackerId /\ silent \subseteq Devices
  /\ pinging \in BOOLEAN /\ running \in BOOLEAN

\* A device is reached at one address only: after it reappears at another
\* one, packets from the old address no longer drive its sensors.
OneRoutePerDevice ==
  \A a, b \in DOMAIN bySocket : bySocket[a] = bySocket[b] => a = b

\* Every UDP sensor sits at the address that routes to its own device, so a
\* device that takes over an address never inherits the sensors of the
\* previous owner, and a moved device leaves no sensor behind.
SensorAtItsRoute ==
  \A id \in DOMAIN byId : byId[id].addr # LocalAddr =>
    /\ byId[id].addr \in DOMAIN bySocket
    /\ bySocket[byId[id].addr] = id.mac

\* Every route leads to a device with a live sensor: no device is pinged
\* once all its sensors are gone.
RoutesAreLive == \A a \in DOMAIN bySocket : SensorsOf(bySocket[a]) # {}

\* A pose is only held for a sensor that is Ok: no stale pose of an offline
\* sensor reaches the skeleton or a reset.
PosesAreLive == \A id \in DOMAIN byId : byId[id].samples # {} => byId[id].status = "Ok"

\* Every local tracker is one Bridge knows, so that a restart of the
\* acquisition removes all of them.
LocalsAreKnown == \A id \in DOMAIN byId : Local(id) => id \in known

\* The invariant that is inductive: local entries are exactly those of local
\* MACs, and nothing ever reports a status for them.
LocalsAreLocal ==
  \A id \in DOMAIN byId :
    /\ Local(id) <=> id.mac \in LocalMacs
    /\ Local(id) => byId[id].status = "Ok"

IInv ==
  /\ TypeOK
  /\ OneRoutePerDevice
  /\ SensorAtItsRoute
  /\ LocalsAreLocal
  /\ PosesAreLive
  /\ LocalsAreKnown

\* A sensor with a configured position never holds another one, whatever it
\* reports of itself (0 until its first SENSOR_INFO).
AssignmentWins ==
  \A id \in DOMAIN byId \cap DOMAIN Assigned : byId[id].position \in {0, Assigned[id]}

\* Calibration knows the mounting of every sensor with a position, except
\* between the two lock sections of the SENSOR_INFO that just changed it.
MountingFollowsPosition ==
  running => \A id \in DOMAIN byId :
    \/ byId[id].position = 0
    \/ id \in DOMAIN mounting /\ mounting[id] = byId[id].position
    \/ \E p \in pending : p.id = id /\ p.position = byId[id].position

\* Inductive: the one mounting the UDP task has yet to set is that of a UDP
\* sensor, and is still the position of the sensor.
PendingIsCurrent ==
  /\ \A p, q \in pending : p = q
  /\ \A p \in pending :
       /\ p.id.mac \in Devices
       /\ p.id \in DOMAIN byId => byId[p.id].position = p.position

PositionInv == AssignmentWins /\ MountingFollowsPosition /\ PendingIsCurrent

\* A sensor keeps its position, status and pose when its device moves to
\* another address, and moving drops none of the device's sensors.
MoveStep ==
  \A a, b \in Addrs :
    a # b /\ a \in DOMAIN bySocket /\ b \in DOMAIN bySocket'
      /\ bySocket'[b] = bySocket[a]
      => \A id \in SensorsOf(bySocket[a]) :
           /\ id \in DOMAIN byId'
           /\ byId'[id] = [byId[id] EXCEPT !.addr = b, !.age = 0]

MoveKeepsSensors == [][MoveStep]_vars

\* A device that falls silent is forgotten, whatever the others send.
SilentIsEvicted ==
  \A m \in Devices : (m \in silent) ~>
    (~running \/ (SensorsOf(m) = {} /\ Routed(m) = {}))
=============================================================================
