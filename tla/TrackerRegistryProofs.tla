------------------------ MODULE TrackerRegistryProofs ------------------------
(***************************************************************************)
(* The invariants of the tracker registry, for every set of devices,       *)
(* addresses, sensors and positions and every timeout.                     *)
(*                                                                         *)
(* The last part is about the positions of sensors: a configured one wins, *)
(* and the calibration hears of each.  Two tasks set positions; what keeps *)
(* them apart is that the sensors of one are never those of the other, and *)
(* that the UDP task handles nothing else between its two lock sections.   *)
(***************************************************************************)
EXTENDS TrackerRegistry, TLAPS

\* The empty registry satisfies the inductive invariant.
LEMMA InitIInv == Init => IInv
BY ConstantsAssumption
   DEF Init, EmptyMap, IInv, TypeOK, OneRoutePerDevice, SensorAtItsRoute, LocalsAreLocal,
       PosesAreLive, LocalsAreKnown

\* A fresh entry is a well-formed one.
LEMMA NewTrackerType ==
  ASSUME NEW addr \in Addrs \cup {LocalAddr}
  PROVE  NewTracker(addr) \in Tracker
BY ConstantsAssumption DEF NewTracker, Tracker, MaxAge

\* So is the entry the registry updates for a sensor it may not know yet.
LEMMA EntryType ==
  ASSUME TypeOK, NEW id, NEW addr \in Addrs \cup {LocalAddr}
  PROVE  Entry(id, addr) \in Tracker
BY NewTrackerType DEF Entry, TypeOK

\* The age of a sensor that was just seen is an age.
LEMMA ZeroIsAge == 0 \in 0..MaxAge
BY ConstantsAssumption DEF MaxAge

\* register_handshake preserves the inductive invariant.
LEMMA HandshakeIInv ==
  ASSUME IInv, NEW addr \in Addrs, NEW mac \in Devices, Handshake(addr, mac)
  PROVE  IInv'
<1> DEFINE primary == [mac |-> mac, sensor |-> 0]
           kept == (DOMAIN byId \ Evicted(addr, mac)) \cup {primary}
<1>0. primary \in TrackerId /\ primary.mac = mac
  BY ConstantsAssumption DEF TrackerId, Macs
<1>1. /\ DOMAIN byId' = kept
      /\ \A id \in kept : byId'[id] =
           IF id.mac = mac THEN [Entry(id, addr) EXCEPT !.addr = addr, !.age = 0]
                           ELSE byId[id]
  BY DEF Handshake
<1>2. /\ DOMAIN bySocket' = (DOMAIN bySocket \ Routed(mac)) \cup {addr}
      /\ \A a \in DOMAIN bySocket' : bySocket'[a] = IF a = addr THEN mac ELSE bySocket[a]
  BY DEF Handshake, Routes
<1>3. UNCHANGED <<mounting, pending, pinging, known, silent, running>>
  BY DEF Handshake, env
<1>4. \A id \in kept : id.mac = mac \/ id \in DOMAIN byId
  BY <1>0
<1>5. kept \subseteq TrackerId
  BY <1>0 DEF IInv, TypeOK
<1>6. ASSUME NEW id \in kept, id.mac = mac
      PROVE  /\ byId'[id] \in Tracker
             /\ byId'[id].addr = addr
             /\ byId'[id].status = Entry(id, addr).status
             /\ byId'[id].samples = Entry(id, addr).samples
  <2>1. Entry(id, addr) \in Tracker
    BY EntryType DEF IInv
  <2>2. byId'[id] = [Entry(id, addr) EXCEPT !.addr = addr, !.age = 0]
    BY <1>1, <1>6
  <2>3. QED
    BY <2>1, <2>2, ZeroIsAge DEF Tracker
<1>7. TypeOK'
  <2>1. \A id \in DOMAIN byId' : byId'[id] \in Tracker
    BY <1>1, <1>4, <1>6 DEF IInv, TypeOK
  <2>2. QED
    BY <2>1, <1>1, <1>2, <1>3, <1>5 DEF IInv, TypeOK
<1>8. OneRoutePerDevice'
  BY <1>2 DEF IInv, OneRoutePerDevice, Routed
<1>9. SensorAtItsRoute'
  <2> SUFFICES ASSUME NEW id \in kept, byId'[id].addr # LocalAddr
               PROVE  /\ byId'[id].addr \in DOMAIN bySocket'
                      /\ bySocket'[byId'[id].addr] = id.mac
    BY <1>1 DEF SensorAtItsRoute
  <2>1. CASE id.mac = mac
    BY <2>1, <1>6, <1>2
  <2>2. CASE id.mac # mac
    <3>1. id \in DOMAIN byId /\ byId'[id] = byId[id] /\ id \notin Evicted(addr, mac)
      BY <2>2, <1>1, <1>4, <1>0
    <3>2. byId[id].addr \in DOMAIN bySocket /\ bySocket[byId[id].addr] = id.mac
      BY <3>1 DEF IInv, SensorAtItsRoute
    <3>3. byId[id].addr # addr
      BY <3>1, <3>2, <2>2 DEF Evicted, SensorsOf
    <3>4. QED
      BY <3>1, <3>2, <3>3, <2>2, <1>2 DEF Routed
  <2>3. QED
    BY <2>1, <2>2
<1>10. \A id \in kept : id.mac = mac /\ Entry(id, addr).samples # {} => Entry(id, addr).status = "Ok"
  BY DEF Entry, NewTracker, IInv, PosesAreLive
<1>11. ASSUME NEW id \in kept, id.mac # mac
       PROVE  id \in DOMAIN byId /\ byId'[id] = byId[id]
  BY <1>1, <1>4, <1>11
<1>13. LocalsAreLocal'
  <2>1. \A id \in kept : id.mac = mac => byId'[id].addr # LocalAddr /\ id.mac \notin LocalMacs
    BY <1>6, ConstantsAssumption
  <2>2. \A id \in kept : id.mac # mac =>
          /\ byId'[id].addr = LocalAddr <=> id.mac \in LocalMacs
          /\ byId'[id].addr = LocalAddr => byId'[id].status = "Ok"
    BY <1>11 DEF IInv, LocalsAreLocal, Local
  <2>3. QED
    BY <1>1, <2>1, <2>2 DEF LocalsAreLocal, Local
<1>14. PosesAreLive'
  BY <1>1, <1>6, <1>10, <1>11 DEF IInv, PosesAreLive
<1>15. LocalsAreKnown'
  BY <1>1, <1>3, <1>6, <1>11, ConstantsAssumption DEF IInv, LocalsAreKnown, Local
<1> QED
  BY <1>7, <1>8, <1>9, <1>13, <1>14, <1>15 DEF IInv

\* The variables an operation on the registry leaves well typed.
OthersOK ==
  /\ DOMAIN mounting \subseteq TrackerId
  /\ \A id \in DOMAIN mounting : mounting[id] \in Positions
  /\ pending \subseteq [id : TrackerId, position : Positions]
  /\ known \subseteq TrackerId /\ silent \subseteq Devices
  /\ pinging \in BOOLEAN /\ running \in BOOLEAN

\* Inserting or replacing one entry preserves the inductive invariant, when
\* the entry is at its device's route or local, and has a pose only if Ok.
LEMMA WithIInv ==
  ASSUME IInv, OthersOK', UNCHANGED bySocket, known \subseteq known',
         NEW id \in TrackerId, NEW t \in Tracker, byId' = With(id, t),
         t.addr # LocalAddr =>
           t.addr \in DOMAIN bySocket /\ bySocket[t.addr] = id.mac,
         t.addr = LocalAddr <=> id.mac \in LocalMacs,
         t.addr = LocalAddr => t.status = "Ok" /\ id \in known',
         t.samples # {} => t.status = "Ok"
  PROVE  IInv'
<1>1. /\ DOMAIN byId' = DOMAIN byId \cup {id}
      /\ byId'[id] = t
      /\ \A x \in DOMAIN byId : x # id => byId'[x] = byId[x]
  BY DEF With
<1>2. TypeOK'
  BY <1>1 DEF IInv, TypeOK, OthersOK
<1>3. OneRoutePerDevice' /\ SensorAtItsRoute'
  BY <1>1 DEF IInv, OneRoutePerDevice, SensorAtItsRoute
<1>4. LocalsAreLocal'
  BY <1>1 DEF IInv, LocalsAreLocal, Local
<1>5. PosesAreLive' /\ LocalsAreKnown'
  BY <1>1 DEF IInv, PosesAreLive, LocalsAreKnown, Local
<1>6. QED
  BY <1>2, <1>3, <1>4, <1>5 DEF IInv

\* So does removing entries, with the routes of devices left without any, and
\* changing ages and poses in place.
LEMMA SameEntriesIInv ==
  ASSUME IInv, OthersOK',
         DOMAIN byId' \subseteq DOMAIN byId,
         DOMAIN bySocket' \subseteq DOMAIN bySocket,
         \A a \in DOMAIN bySocket' : bySocket'[a] = bySocket[a],
         \A id \in DOMAIN byId' :
           /\ byId'[id] \in Tracker
           /\ byId'[id].addr = byId[id].addr
           /\ byId'[id].status = byId[id].status
           /\ byId'[id].samples # {} => byId'[id].status = "Ok"
           /\ \A a \in DOMAIN bySocket : bySocket[a] = id.mac => a \in DOMAIN bySocket'
           /\ Local(id) => id \in known'
  PROVE  IInv'
<1>1. TypeOK'
  BY DEF IInv, TypeOK, OthersOK
<1>2. OneRoutePerDevice' /\ SensorAtItsRoute'
  BY DEF IInv, OneRoutePerDevice, SensorAtItsRoute
<1>3. LocalsAreLocal'
  BY DEF IInv, LocalsAreLocal, Local
<1>4. PosesAreLive' /\ LocalsAreKnown'
  BY DEF IInv, PosesAreLive, LocalsAreKnown, Local
<1>5. QED
  BY <1>1, <1>2, <1>3, <1>4 DEF IInv

\* A change of the other variables alone preserves it too.
LEMMA OthersIInv ==
  ASSUME IInv, OthersOK', UNCHANGED <<byId, bySocket>>, known \subseteq known'
  PROVE  IInv'
BY DEF IInv, TypeOK, OthersOK, OneRoutePerDevice, SensorAtItsRoute,
       LocalsAreLocal, PosesAreLive, LocalsAreKnown, Local

\* The SENSOR_INFO handler: a new sensor enters at the address of its device.
LEMMA SensorInfoIInv ==
  ASSUME IInv, NEW addr \in Addrs, NEW sensor \in Sensors,
         NEW reported \in Positions \cup {NoPosition}, NEW status \in Statuses,
         SensorInfo(addr, sensor, reported, status)
  PROVE  IInv'
<1> DEFINE id == [mac |-> bySocket[addr], sensor |-> sensor]
           old == Entry(id, addr)
           position == NewPosition(id, reported, old.position)
           t == [old EXCEPT !.position = position, !.status = status,
                            !.samples = Poses(status, @), !.age = 0]
<1>1. addr \in DOMAIN bySocket /\ byId' = With(id, t)
      /\ pending' = {[id |-> id, position |-> position]}
      /\ UNCHANGED <<bySocket, mounting, pinging, known, silent, running>>
  BY DEF SensorInfo, env
<1>2. id \in TrackerId /\ id.mac \in Devices /\ id.mac = bySocket[addr]
  BY <1>1 DEF IInv, TypeOK, TrackerId, Macs
<1>3. old \in Tracker
  BY EntryType DEF IInv
<1>4. position \in Positions
  BY <1>3, ConstantsAssumption DEF Tracker, NewPosition
<1>5. t \in Tracker /\ t.addr = old.addr /\ t.status = status
      /\ (t.samples # {} => status = "Ok")
  BY <1>3, <1>4, ZeroIsAge DEF Tracker, Poses
<1>6. old.addr = addr
  <2>1. CASE id \in DOMAIN byId
    <3>1. byId[id].addr # LocalAddr
      BY <2>1, <1>2, ConstantsAssumption DEF IInv, LocalsAreLocal, Local
    <3>2. byId[id].addr \in DOMAIN bySocket /\ bySocket[byId[id].addr] = bySocket[addr]
      BY <2>1, <3>1, <1>2 DEF IInv, SensorAtItsRoute
    <3>3. QED
      BY <2>1, <3>2, <1>1 DEF IInv, OneRoutePerDevice, Entry
  <2>2. CASE id \notin DOMAIN byId
    BY <2>2 DEF Entry, NewTracker
  <2>3. QED
    BY <2>1, <2>2
<1>7. OthersOK'
  BY <1>1, <1>2, <1>4 DEF OthersOK, IInv, TypeOK
<1> HIDE DEF id, t
<1>8. QED
  BY <1>1, <1>2, <1>5, <1>6, <1>7, WithIInv, ConstantsAssumption

\* Samples and signs of life change poses and ages in place.
LEMMA PacketIInv ==
  ASSUME IInv, NEW addr \in Addrs,
         \/ MarkSeen(addr)
         \/ \E s \in Sensors, k \in SampleKinds : Sample(addr, s, k)
  PROVE  IInv'
<1>1. /\ DOMAIN byId' = DOMAIN byId
      /\ UNCHANGED <<bySocket, mounting, pending, pinging, known, silent, running>>
  BY DEF MarkSeen, Sample, env
<1>2. ASSUME NEW id \in DOMAIN byId
      PROVE  /\ byId'[id] \in Tracker
             /\ byId'[id].addr = byId[id].addr
             /\ byId'[id].status = byId[id].status
             /\ byId'[id].samples # {} => byId'[id].status = "Ok"
  <2>1. byId[id] \in Tracker /\ (byId[id].samples # {} => byId[id].status = "Ok")
    BY DEF IInv, TypeOK, PosesAreLive
  <2>2. CASE MarkSeen(addr)
    <3>1. byId'[id] = byId[id] \/ byId'[id] = [byId[id] EXCEPT !.age = 0]
      BY <2>2 DEF MarkSeen
    <3>2. QED
      BY <2>1, <3>1, ZeroIsAge DEF Tracker
  <2>3. ASSUME NEW s \in Sensors, NEW k \in SampleKinds, Sample(addr, s, k)
        PROVE  /\ byId'[id] \in Tracker
               /\ byId'[id].addr = byId[id].addr
               /\ byId'[id].status = byId[id].status
               /\ byId'[id].samples # {} => byId'[id].status = "Ok"
    <3>1. CASE byId'[id] = byId[id]
      BY <2>1, <3>1
    <3>2. CASE byId'[id] # byId[id]
      <4> DEFINE samples == IF byId[id].status = "Ok" THEN byId[id].samples \cup {k}
                                                      ELSE byId[id].samples
      <4>1. byId'[id] = [byId[id] EXCEPT !.age = 0, !.samples = samples]
        BY <2>1, <2>3, <3>2 DEF Sample, Tracker
      <4>2. samples \in SUBSET SampleKinds /\ (samples # {} => byId[id].status = "Ok")
        BY <2>1 DEF Tracker
      <4> HIDE DEF samples
      <4>3. QED
        BY <2>1, <4>1, <4>2, ZeroIsAge DEF Tracker
    <3>3. QED
      BY <3>1, <3>2
  <2>4. QED
    BY <2>2, <2>3
<1>3. OthersOK'
  BY <1>1 DEF OthersOK, IInv, TypeOK
<1>4. QED
  BY <1>1, <1>2, <1>3, SameEntriesIInv DEF IInv, LocalsAreKnown, Local

\* Eviction removes sensors, and the routes of devices that have none left.
LEMMA RemoveStaleIInv == ASSUME IInv, RemoveStale PROVE IInv'
<1>1. /\ DOMAIN byId' \subseteq DOMAIN byId
      /\ \A id \in DOMAIN byId' : byId'[id] = byId[id]
      /\ DOMAIN bySocket' \subseteq DOMAIN bySocket
      /\ \A a \in DOMAIN bySocket' : bySocket'[a] = bySocket[a]
      /\ \A id \in DOMAIN byId' : \A a \in DOMAIN bySocket :
           bySocket[a] = id.mac => a \in DOMAIN bySocket'
      /\ UNCHANGED <<mounting, pending, known, silent, running>>
      /\ pinging' = FALSE
  BY DEF RemoveStale, LiveRoutes, Keep, KeepRoutes, env
<1>2. OthersOK'
  BY <1>1 DEF OthersOK, IInv, TypeOK
<1>3. QED
  BY <1>1, <1>2, SameEntriesIInv
     DEF IInv, TypeOK, PosesAreLive, LocalsAreKnown, Local

\* Bridge removes local entries only, on a disconnect or on a restart.
LEMMA RemoveLocalIInv ==
  ASSUME IInv, Clear \/ \E m \in LocalMacs : TrackerDisconnected(m)
  PROVE  IInv'
<1>1. UNCHANGED <<bySocket, mounting, pending, pinging, silent, running>>
  BY DEF Clear, TrackerDisconnected, env
<1>2. /\ DOMAIN byId' \subseteq DOMAIN byId
      /\ \A id \in DOMAIN byId' : byId'[id] = byId[id]
      /\ \A id \in DOMAIN byId' : Local(id) => id \in known'
  <2>1. CASE Clear
    BY <2>1 DEF Clear, RemoveLocal, Keep, IInv, LocalsAreKnown
  <2>2. CASE \E m \in LocalMacs : TrackerDisconnected(m)
    BY <2>2 DEF TrackerDisconnected, RemoveLocal, Keep, IInv, LocalsAreKnown
  <2>3. QED
    BY <2>1, <2>2
<1>3. known' \subseteq TrackerId
  <2>1. \A m \in LocalMacs : LocalId(m) \in TrackerId
    BY ConstantsAssumption DEF LocalId, TrackerId, Macs
  <2>2. QED
    BY <2>1 DEF Clear, TrackerDisconnected, IInv, TypeOK
<1>4. OthersOK'
  BY <1>1, <1>3 DEF OthersOK, IInv, TypeOK
<1>5. QED
  BY <1>1, <1>2, <1>4, SameEntriesIInv DEF IInv, TypeOK, PosesAreLive

\* A HaritoraX event inserts or refreshes the entry of a local tracker.
LEMMA EnsureLocalIInv ==
  ASSUME IInv, NEW mac \in LocalMacs, NEW implied \in Positions,
         TrackerConnected(mac, implied) \/ Imu(mac, implied, TRUE)
  PROVE  IInv'
<1> DEFINE id == LocalId(mac)
           position == LocalPosition(id, implied)
           e == EnsureLocal(id, position)
<1>1. id \in TrackerId /\ id.mac = mac /\ position \in Positions
  BY ConstantsAssumption DEF LocalId, TrackerId, Macs, LocalPosition
<1>2. /\ Entry(id, LocalAddr) \in Tracker
      /\ Entry(id, LocalAddr).addr = LocalAddr
      /\ Entry(id, LocalAddr).status = "Ok"
  BY <1>1, EntryType DEF IInv, LocalsAreLocal, Local, Entry, NewTracker
<1>3. e \in Tracker /\ e.addr = LocalAddr /\ e.status = "Ok"
  BY <1>1, <1>2 DEF EnsureLocal, Tracker
<1>4. PICK t : /\ byId' = With(id, t)
               /\ t \in Tracker /\ t.addr = LocalAddr /\ t.status = "Ok"
  <2>1. CASE TrackerConnected(mac, implied)
    BY <2>1, <1>3 DEF TrackerConnected
  <2>2. CASE Imu(mac, implied, TRUE)
    <3>1. byId' = With(id, [e EXCEPT !.samples = SampleKinds, !.age = 0])
      BY <2>2 DEF Imu
    <3>2. LET u == [e EXCEPT !.samples = SampleKinds, !.age = 0]
          IN  u \in Tracker /\ u.addr = LocalAddr /\ u.status = "Ok"
      BY <1>3, ZeroIsAge DEF Tracker
    <3>3. QED
      BY <3>1, <3>2
  <2>3. QED
    BY <2>1, <2>2
<1>5. /\ UNCHANGED <<bySocket, pending, pinging, silent, running>>
      /\ mounting' = [x \in DOMAIN mounting \cup {id} |->
                        IF x = id THEN position ELSE mounting[x]]
      /\ known' = known \cup {id}
  <2>1. CASE TrackerConnected(mac, implied)
    BY <2>1 DEF TrackerConnected, SetMounting, env
  <2>2. CASE Imu(mac, implied, TRUE)
    BY <2>2 DEF Imu, SetMounting, env
  <2>3. QED
    BY <2>1, <2>2
<1>6. OthersOK'
  BY <1>1, <1>5 DEF OthersOK, IInv, TypeOK
<1> HIDE DEF id, position
<1>7. QED
  BY <1>1, <1>4, <1>5, <1>6, WithIInv

\* Time only ages the entries.
LEMMA TickIInv == ASSUME IInv, Tick PROVE IInv'
<1>1. /\ DOMAIN byId' = DOMAIN byId
      /\ UNCHANGED <<bySocket, mounting, pending, pinging, known, silent, running>>
  BY DEF Tick, env
<1>2. ASSUME NEW id \in DOMAIN byId
      PROVE  /\ byId'[id] \in Tracker
             /\ byId'[id].addr = byId[id].addr
             /\ byId'[id].status = byId[id].status
             /\ byId'[id].samples # {} => byId'[id].status = "Ok"
  <2> DEFINE age == IF byId[id].age < MaxAge THEN byId[id].age + 1 ELSE byId[id].age
  <2>1. byId[id] \in Tracker /\ (byId[id].samples # {} => byId[id].status = "Ok")
    BY DEF IInv, TypeOK, PosesAreLive
  <2>2. byId'[id] = [byId[id] EXCEPT !.age = age]
    BY <2>1 DEF Tick, Tracker
  <2>3. age \in 0..MaxAge
    BY <2>1, ConstantsAssumption DEF Tracker, MaxAge
  <2> HIDE DEF age
  <2>4. QED
    BY <2>1, <2>2, <2>3 DEF Tracker
<1>3. OthersOK'
  BY <1>1 DEF OthersOK, IInv, TypeOK
<1>4. QED
  BY <1>1, <1>2, <1>3, SameEntriesIInv DEF IInv, LocalsAreKnown, Local

\* The remaining steps leave both maps of the registry alone.
LEMMA OtherStepsIInv ==
  ASSUME IInv,
         \/ \E sent \in BOOLEAN : SetMountingAndAck(sent)
         \/ PingStart
         \/ \E m \in LocalMacs, p \in Positions : Imu(m, p, FALSE)
         \/ \E m \in Mortal : GoSilent(m)
         \/ UNCHANGED vars
  PROVE  IInv'
<1>1. CASE \E sent \in BOOLEAN : SetMountingAndAck(sent)
  <2>1. PICK sent \in BOOLEAN : SetMountingAndAck(sent)
    BY <1>1
  <2>2. PICK p \in pending :
          mounting' = [x \in DOMAIN mounting \cup {p.id} |->
                         IF x = p.id THEN p.position ELSE mounting[x]]
    BY <2>1 DEF SetMountingAndAck, SetMounting
  <2>3. p.id \in TrackerId /\ p.position \in Positions
    BY DEF IInv, TypeOK
  <2>4. OthersOK'
    BY <2>1, <2>2, <2>3 DEF SetMountingAndAck, OthersOK, IInv, TypeOK
  <2>5. QED
    BY <2>1, <2>4, OthersIInv DEF SetMountingAndAck
<1>2. CASE PingStart
  BY <1>2, OthersIInv DEF PingStart, env, OthersOK, IInv, TypeOK
<1>3. CASE \E m \in LocalMacs, p \in Positions : Imu(m, p, FALSE)
  <2>1. \A m \in LocalMacs : LocalId(m) \in TrackerId
    BY ConstantsAssumption DEF LocalId, TrackerId, Macs
  <2>2. OthersOK'
    BY <1>3, <2>1 DEF Imu, env, OthersOK, IInv, TypeOK
  <2>3. QED
    BY <1>3, <2>2, OthersIInv DEF Imu
<1>4. CASE \E m \in Mortal : GoSilent(m)
  BY <1>4, OthersIInv, ConstantsAssumption DEF GoSilent, OthersOK, IInv, TypeOK
<1>5. CASE UNCHANGED vars
  BY <1>5, OthersIInv DEF vars, OthersOK, IInv, TypeOK
<1>6. QED
  BY <1>1, <1>2, <1>3, <1>4, <1>5

\* Every step preserves the inductive invariant.
LEMMA NextIInv == ASSUME IInv, [Next]_vars PROVE IInv'
<1>1. CASE Udp
  BY <1>1, HandshakeIInv, SensorInfoIInv, PacketIInv, RemoveStaleIInv,
     OtherStepsIInv DEF Udp
<1>2. CASE Haritora
  <2>1. ASSUME NEW m \in LocalMacs, NEW p \in Positions, NEW u \in BOOLEAN, Imu(m, p, u)
        PROVE  IInv'
    BY <2>1, EnsureLocalIInv, OtherStepsIInv
  <2>2. QED
    BY <1>2, <2>1, EnsureLocalIInv, RemoveLocalIInv DEF Haritora
<1>3. CASE Tick
  BY <1>3, TickIInv
<1>4. CASE \E m \in Mortal : GoSilent(m)
  BY <1>4, OtherStepsIInv
<1>5. CASE UNCHANGED vars
  BY <1>5, OtherStepsIInv
<1>6. QED
  BY <1>1, <1>2, <1>3, <1>4, <1>5 DEF Next

\* The inductive invariant holds in every reachable state.
THEOREM Invariance == Spec => []IInv
BY InitIInv, NextIInv, PTL DEF Spec

\* The registry and the calibration only ever hold values of their types.
THEOREM TypeCorrectness == Spec => []TypeOK
<1>1. IInv => TypeOK
  BY DEF IInv
<1>2. QED
  BY <1>1, Invariance, PTL

\* A device is reached at one address only.
THEOREM RoutingIsSound == Spec => []OneRoutePerDevice
<1>1. IInv => OneRoutePerDevice
  BY DEF IInv
<1>2. QED
  BY <1>1, Invariance, PTL

\* Every UDP sensor sits at the address that routes to its own device.
THEOREM SensorsSitAtTheirRoute == Spec => []SensorAtItsRoute
<1>1. IInv => SensorAtItsRoute
  BY DEF IInv
<1>2. QED
  BY <1>1, Invariance, PTL

\* Only a sensor that is Ok has a pose, on the UDP side and on the local one.
THEOREM NoStalePose == Spec => []PosesAreLive
<1>1. IInv => PosesAreLive
  BY DEF IInv
<1>2. QED
  BY <1>1, Invariance, PTL

\* Every local tracker in the registry is one that Bridge::clear removes.
THEOREM RestartRemovesLocals == Spec => []LocalsAreKnown
<1>1. IInv => LocalsAreKnown
  BY DEF IInv
<1>2. QED
  BY <1>1, Invariance, PTL

\* A step that keeps every route, and a sensor of every routed device, keeps
\* every route live.
LEMMA SameRoutesLive ==
  ASSUME IInv, RoutesAreLive, UNCHANGED bySocket,
         \A id \in DOMAIN byId : id.mac \in Devices => id \in DOMAIN byId'
  PROVE  RoutesAreLive'
BY DEF IInv, TypeOK, RoutesAreLive, SensorsOf

\* Every step keeps every route live.
LEMMA NextLive == ASSUME IInv, RoutesAreLive, [Next]_vars PROVE RoutesAreLive'
<1>1. ASSUME NEW addr \in Addrs, NEW mac \in Devices, Handshake(addr, mac)
      PROVE  RoutesAreLive'
  <2> DEFINE primary == [mac |-> mac, sensor |-> 0]
  <2>1. primary \in DOMAIN byId' /\ primary.mac = mac
    BY <1>1 DEF Handshake
  <2>2. ASSUME NEW a \in DOMAIN bySocket', a # addr
        PROVE  /\ a \in DOMAIN bySocket /\ bySocket'[a] = bySocket[a]
               /\ SensorsOf(bySocket[a]) \subseteq DOMAIN byId'
    <3>1. a \in DOMAIN bySocket /\ bySocket'[a] = bySocket[a]
      BY <1>1, <2>2 DEF Handshake, Routes
    <3>2. addr \in DOMAIN bySocket => bySocket[addr] # bySocket[a]
      BY <2>2, <3>1 DEF IInv, OneRoutePerDevice
    <3>3. QED
      BY <1>1, <3>1, <3>2 DEF Handshake, Evicted, SensorsOf
  <2>3. bySocket'[addr] = mac
    BY <1>1 DEF Handshake, Routes
  <2>4. QED
    BY <2>1, <2>2, <2>3 DEF RoutesAreLive, SensorsOf
<1>2. ASSUME NEW addr \in Addrs, NEW s \in Sensors, NEW p \in Positions \cup {NoPosition},
             NEW st \in Statuses, SensorInfo(addr, s, p, st)
      PROVE  RoutesAreLive'
  BY <1>2, SameRoutesLive DEF SensorInfo, With
<1>3. ASSUME NEW addr \in Addrs,
             MarkSeen(addr) \/ \E s \in Sensors, k \in SampleKinds : Sample(addr, s, k)
      PROVE  RoutesAreLive'
  BY <1>3, SameRoutesLive DEF MarkSeen, Sample
<1>4. CASE RemoveStale
  <2>1. ASSUME NEW a \in DOMAIN bySocket'
        PROVE  \E id \in DOMAIN byId' : id.mac = bySocket'[a]
    BY <1>4 DEF RemoveStale, LiveRoutes, Keep, KeepRoutes
  <2>2. QED
    BY <2>1 DEF RoutesAreLive, SensorsOf
<1>5. CASE Haritora
  <2>1. UNCHANGED bySocket
    BY <1>5 DEF Haritora, TrackerConnected, Imu, TrackerDisconnected, Clear
  <2>2. ASSUME NEW id \in DOMAIN byId, id.mac \in Devices
        PROVE  id \in DOMAIN byId'
    <3>1. ~Local(id)
      BY <2>2, ConstantsAssumption DEF IInv, LocalsAreLocal
    <3>2. QED
      BY <1>5, <3>1 DEF Haritora, TrackerConnected, Imu, TrackerDisconnected,
                        Clear, RemoveLocal, Keep, With
  <2>3. QED
    BY <2>1, <2>2, SameRoutesLive
<1>6. CASE \/ \E sent \in BOOLEAN : SetMountingAndAck(sent)
           \/ PingStart \/ Tick
           \/ \E m \in Mortal : GoSilent(m)
           \/ UNCHANGED vars
  BY <1>6, SameRoutesLive DEF SetMountingAndAck, PingStart, Tick, GoSilent, vars
<1>7. QED
  BY <1>1, <1>2, <1>3, <1>4, <1>5, <1>6 DEF Next, Udp

\* Every pinged address belongs to a device with a live sensor.
THEOREM RoutesStayLive == Spec => []RoutesAreLive
<1>1. Init => RoutesAreLive
  BY DEF Init, EmptyMap, RoutesAreLive
<1>2. QED
  BY <1>1, Invariance, NextLive, PTL DEF Spec

\* Only a handshake changes the route of a device that keeps one.
LEMMA OnlyHandshakeMoves ==
  ASSUME IInv, [Next]_vars, NEW a \in Addrs, NEW b \in Addrs, a # b,
         a \in DOMAIN bySocket, b \in DOMAIN bySocket', bySocket'[b] = bySocket[a]
  PROVE  Handshake(b, bySocket[a])
<1>1. b \in DOMAIN bySocket => bySocket[b] # bySocket[a]
  BY DEF IInv, OneRoutePerDevice
<1>2. ASSUME NEW addr \in Addrs, NEW mac \in Devices, Handshake(addr, mac)
      PROVE  addr = b /\ mac = bySocket[a]
  BY <1>1, <1>2 DEF Handshake, Routes, Routed
<1>3. ASSUME RemoveStale PROVE FALSE
  BY <1>1, <1>3 DEF RemoveStale, LiveRoutes, KeepRoutes
<1>4. bySocket' # bySocket
  BY <1>1
<1>5. CASE Udp
  <2>1. ASSUME NEW addr \in Addrs, NEW s \in Sensors, NEW p \in Positions \cup {NoPosition},
               NEW st \in Statuses, SensorInfo(addr, s, p, st)
        PROVE  FALSE
    BY <1>4, <2>1 DEF SensorInfo
  <2>2. ASSUME NEW addr \in Addrs,
               MarkSeen(addr) \/ \E s \in Sensors, k \in SampleKinds : Sample(addr, s, k)
        PROVE  FALSE
    BY <1>4, <2>2 DEF MarkSeen, Sample
  <2>3. CASE PingStart \/ \E sent \in BOOLEAN : SetMountingAndAck(sent)
    BY <1>4, <2>3 DEF PingStart, SetMountingAndAck
  <2>4. QED
    BY <1>2, <1>3, <1>5, <2>1, <2>2, <2>3 DEF Udp
<1>6. CASE Haritora
  BY <1>4, <1>6 DEF Haritora, TrackerConnected, Imu, TrackerDisconnected, Clear
<1>7. CASE Tick \/ (\E m \in Mortal : GoSilent(m)) \/ UNCHANGED vars
  BY <1>4, <1>7 DEF Tick, GoSilent, vars
<1>8. QED
  BY <1>5, <1>6, <1>7 DEF Next

\* When a device moves to another address, all its sensors move with it and
\* keep their position, status and pose.
THEOREM MovingKeepsSensors == Spec => MoveKeepsSensors
<1>1. ASSUME IInv, [Next]_vars, NEW a \in Addrs, NEW b \in Addrs, a # b,
             a \in DOMAIN bySocket, b \in DOMAIN bySocket', bySocket'[b] = bySocket[a],
             NEW id \in SensorsOf(bySocket[a])
      PROVE  id \in DOMAIN byId' /\ byId'[id] = [byId[id] EXCEPT !.addr = b, !.age = 0]
  <2>1. Handshake(b, bySocket[a])
    BY <1>1, OnlyHandshakeMoves
  <2>2. id \in DOMAIN byId /\ id.mac = bySocket[a]
    BY <1>1 DEF SensorsOf
  <2>3. b \in DOMAIN bySocket /\ bySocket[b] # bySocket[a] =>
          id \notin SensorsOf(bySocket[b])
    BY <2>2 DEF SensorsOf
  <2>4. id \in DOMAIN byId' /\ byId'[id] = [Entry(id, b) EXCEPT !.addr = b, !.age = 0]
    BY <2>1, <2>2, <2>3 DEF Handshake, Evicted
  <2>5. Entry(id, b) = byId[id]
    BY <2>2 DEF Entry
  <2>6. QED
    BY <2>4, <2>5
<1>2. IInv /\ [Next]_vars => [MoveStep]_vars
  BY <1>1 DEF MoveStep
<1>3. QED
  BY <1>2, Invariance, PTL DEF Spec, MoveKeepsSensors

-----------------------------------------------------------------------------

\* No sensor has a position at first.
LEMMA InitPositions == Init => PositionInv
BY DEF Init, EmptyMap, PositionInv, AssignmentWins, MountingFollowsPosition, PendingIsCurrent

\* A step that gives nobody a position: sensors are new, kept or gone, and
\* none is new while a mounting is pending.
LEMMA SamePositions ==
  ASSUME PositionInv, UNCHANGED <<mounting, pending, running>>,
         \A id \in DOMAIN byId' :
           \/ pending = {} /\ byId'[id].position = 0
           \/ id \in DOMAIN byId /\ byId'[id].position = byId[id].position
  PROVE  PositionInv'
<1>1. AssignmentWins'
  BY DEF PositionInv, AssignmentWins
<1>2. MountingFollowsPosition'
  BY DEF PositionInv, MountingFollowsPosition
<1>3. PendingIsCurrent'
  BY DEF PositionInv, PendingIsCurrent
<1>4. QED
  BY <1>1, <1>2, <1>3 DEF PositionInv

\* A handshake enters a primary sensor without a position, or keeps its own.
LEMMA HandshakePositions ==
  ASSUME IInv, PositionInv, NEW addr \in Addrs, NEW mac \in Devices, Handshake(addr, mac)
  PROVE  PositionInv'
<1>1. pending = {} /\ UNCHANGED <<mounting, pending, running>>
  BY DEF Handshake, Receives, Idle, env
<1>2. ASSUME NEW id \in DOMAIN byId'
      PROVE  \/ byId'[id].position = 0
             \/ id \in DOMAIN byId /\ byId'[id].position = byId[id].position
  <2>1. Entry(id, addr) \in Tracker
    BY EntryType DEF IInv
  <2>2. CASE id.mac = mac
    <3>1. byId'[id] = [Entry(id, addr) EXCEPT !.addr = addr, !.age = 0]
      BY <2>2 DEF Handshake
    <3>2. byId'[id].position = Entry(id, addr).position
      BY <2>1, <3>1 DEF Tracker
    <3>3. QED
      BY <3>2 DEF Entry, NewTracker
  <2>3. CASE id.mac # mac
    <3>1. id \in (DOMAIN byId \ Evicted(addr, mac)) \cup {[mac |-> mac, sensor |-> 0]}
      BY DEF Handshake
    <3>2. id \in DOMAIN byId
      BY <2>3, <3>1
    <3>3. QED
      BY <2>3, <3>1, <3>2 DEF Handshake
  <2>4. QED
    BY <2>2, <2>3
<1>3. QED
  BY <1>1, <1>2, SamePositions

\* SENSOR_INFO gives a UDP sensor its configured position or the one it
\* reports, and leaves the mounting to be set.
LEMMA SensorInfoPositions ==
  ASSUME IInv, PositionInv, NEW addr \in Addrs, NEW sensor \in Sensors,
         NEW reported \in Positions \cup {NoPosition}, NEW status \in Statuses,
         SensorInfo(addr, sensor, reported, status)
  PROVE  PositionInv'
<1> DEFINE id == [mac |-> bySocket[addr], sensor |-> sensor]
           old == Entry(id, addr)
           position == NewPosition(id, reported, old.position)
           t == [old EXCEPT !.position = position, !.status = status,
                            !.samples = Poses(status, @), !.age = 0]
<1>1. /\ addr \in DOMAIN bySocket /\ pending = {}
      /\ byId' = With(id, t)
      /\ pending' = {[id |-> id, position |-> position]}
      /\ UNCHANGED <<mounting, running>>
  BY DEF SensorInfo, Receives, Idle, env
<1>2. t.position = position
  <2>1. old \in Tracker
    BY EntryType DEF IInv
  <2>2. QED
    BY <2>1 DEF Tracker
<1>3. id.mac \in Devices
  BY <1>1 DEF IInv, TypeOK
<1>4. id \in DOMAIN Assigned => position = Assigned[id]
  BY DEF NewPosition
<1> HIDE DEF id, position, t
<1>5. /\ DOMAIN byId' = DOMAIN byId \cup {id}
      /\ byId'[id].position = position
      /\ \A x \in DOMAIN byId : x # id => byId'[x] = byId[x]
  BY <1>1, <1>2 DEF With
<1>6. AssignmentWins'
  BY <1>4, <1>5 DEF PositionInv, AssignmentWins
<1>7. MountingFollowsPosition'
  BY <1>1, <1>5 DEF PositionInv, MountingFollowsPosition
<1>8. PendingIsCurrent'
  BY <1>1, <1>3, <1>5 DEF PendingIsCurrent
<1>9. QED
  BY <1>6, <1>7, <1>8 DEF PositionInv

\* The second lock section sets the mounting that is pending, which no event of
\* a receiver has changed in between.
LEMMA SetMountingPositions ==
  ASSUME IInv, PositionInv, NEW sent \in BOOLEAN, SetMountingAndAck(sent)
  PROVE  PositionInv'
<1>1. PICK p \in pending : SetMounting(p.id, p.position)
  BY DEF SetMountingAndAck
<1>2. running /\ pending' = {} /\ UNCHANGED byId
  BY DEF SetMountingAndAck
<1>3. /\ DOMAIN mounting' = DOMAIN mounting \cup {p.id}
      /\ mounting'[p.id] = p.position
      /\ \A x \in DOMAIN mounting : x # p.id => mounting'[x] = mounting[x]
  BY <1>1 DEF SetMounting
<1>4. /\ \A q \in pending : q = p
      /\ p.id \in DOMAIN byId => byId[p.id].position = p.position
  BY DEF PositionInv, PendingIsCurrent
<1>5. AssignmentWins'
  BY <1>2 DEF PositionInv, AssignmentWins
<1>6. ASSUME NEW id \in DOMAIN byId, byId[id].position # 0
      PROVE  id \in DOMAIN mounting' /\ mounting'[id] = byId[id].position
  <2>1. CASE id = p.id
    BY <2>1, <1>3, <1>4
  <2>2. CASE id # p.id
    BY <2>2, <1>2, <1>3, <1>4, <1>6 DEF PositionInv, MountingFollowsPosition
  <2>3. QED
    BY <2>1, <2>2
<1>7. MountingFollowsPosition'
  BY <1>2, <1>6 DEF MountingFollowsPosition
<1>8. PendingIsCurrent'
  BY <1>2 DEF PendingIsCurrent
<1>9. QED
  BY <1>5, <1>7, <1>8 DEF PositionInv

\* An event of a receiver sets the position of a local tracker and its
\* mounting at once.
LEMMA LocalPositions ==
  ASSUME PositionInv, UNCHANGED <<pending, running>>,
         NEW mac \in LocalMacs, NEW implied, NEW t,
         t.position = LocalPosition(LocalId(mac), implied),
         byId' = With(LocalId(mac), t), SetMounting(LocalId(mac), t.position)
  PROVE  PositionInv'
<1> DEFINE id == LocalId(mac)
<1>1. id.mac \notin Devices
  BY ConstantsAssumption DEF LocalId
<1>2. id \in DOMAIN Assigned => t.position = Assigned[id]
  BY DEF LocalPosition
<1> HIDE DEF id
<1>3. byId' = With(id, t) /\ SetMounting(id, t.position)
  BY DEF id
<1>4. /\ DOMAIN byId' = DOMAIN byId \cup {id} /\ byId'[id] = t
      /\ \A x \in DOMAIN byId : x # id => byId'[x] = byId[x]
  BY <1>3 DEF With
<1>5. /\ DOMAIN mounting' = DOMAIN mounting \cup {id} /\ mounting'[id] = t.position
      /\ \A x \in DOMAIN mounting : x # id => mounting'[x] = mounting[x]
  BY <1>3 DEF SetMounting
<1>6. AssignmentWins'
  BY <1>2, <1>4 DEF PositionInv, AssignmentWins
<1>7. MountingFollowsPosition'
  BY <1>4, <1>5 DEF PositionInv, MountingFollowsPosition
<1>8. PendingIsCurrent'
  BY <1>1, <1>4 DEF PositionInv, PendingIsCurrent
<1>9. QED
  BY <1>6, <1>7, <1>8 DEF PositionInv

\* Every step keeps the positions in order.
LEMMA NextPositions ==
  ASSUME IInv, PositionInv, [Next]_vars
  PROVE  PositionInv'
<1>1. ASSUME NEW m \in LocalMacs, NEW p \in Positions,
             TrackerConnected(m, p) \/ \E u \in BOOLEAN : Imu(m, p, u)
      PROVE  PositionInv'
  <2> DEFINE old == EnsureLocal(LocalId(m), LocalPosition(LocalId(m), p))
             seen == [old EXCEPT !.samples = SampleKinds, !.age = 0]
  <2>1. Entry(LocalId(m), LocalAddr) \in Tracker
    BY EntryType DEF IInv
  <2>2. /\ old.position = LocalPosition(LocalId(m), p)
        /\ seen.position = LocalPosition(LocalId(m), p)
    BY <2>1 DEF EnsureLocal, Tracker
  <2>3. UNCHANGED <<pending, running>>
    BY <1>1 DEF TrackerConnected, Imu, env
  <2>4. \/ byId' = With(LocalId(m), old) /\ SetMounting(LocalId(m), LocalPosition(LocalId(m), p))
        \/ byId' = With(LocalId(m), seen) /\ SetMounting(LocalId(m), LocalPosition(LocalId(m), p))
        \/ UNCHANGED <<byId, mounting>>
    BY <1>1 DEF TrackerConnected, Imu
  <2> HIDE DEF old, seen
  <2>5. QED
    BY <2>2, <2>3, <2>4, LocalPositions, SamePositions
<1>2. CASE \E m \in LocalMacs : TrackerDisconnected(m)
  BY <1>2, SamePositions DEF TrackerDisconnected, RemoveLocal, Keep, env
<1>3. CASE Clear
  BY <1>3, SamePositions DEF Clear, RemoveLocal, Keep, env
<1>4. CASE RemoveStale
  BY <1>4, SamePositions DEF RemoveStale, Keep, env
<1>5. ASSUME NEW addr \in Addrs,
             MarkSeen(addr) \/ \E s \in Sensors, k \in SampleKinds : Sample(addr, s, k)
      PROVE  PositionInv'
  <2>1. DOMAIN byId' = DOMAIN byId /\ UNCHANGED <<mounting, pending, running>>
    BY <1>5 DEF MarkSeen, Sample, env
  <2>2. ASSUME NEW id \in DOMAIN byId
        PROVE  byId'[id].position = byId[id].position
    <3>1. byId[id] \in Tracker
      BY DEF IInv, TypeOK
    <3>2. CASE MarkSeen(addr)
      BY <3>1, <3>2 DEF MarkSeen, Tracker
    <3>3. ASSUME NEW s \in Sensors, NEW k \in SampleKinds, Sample(addr, s, k)
          PROVE  byId'[id].position = byId[id].position
      BY <3>1, <3>3 DEF Sample, Tracker
    <3>4. QED
      BY <1>5, <3>2, <3>3
  <2>3. QED
    BY <2>1, <2>2, SamePositions
<1>6. CASE Tick
  <2>1. DOMAIN byId' = DOMAIN byId /\ UNCHANGED <<mounting, pending, running>>
    BY <1>6 DEF Tick, env
  <2>2. ASSUME NEW id \in DOMAIN byId
        PROVE  byId'[id].position = byId[id].position
    <3>1. byId[id] \in Tracker
      BY DEF IInv, TypeOK
    <3>2. QED
      BY <1>6, <3>1 DEF Tick, Tracker
  <2>3. QED
    BY <2>1, <2>2, SamePositions
<1>7. CASE PingStart \/ (\E m \in Mortal : GoSilent(m)) \/ UNCHANGED vars
  BY <1>7, SamePositions DEF PingStart, GoSilent, vars, env
<1>8. QED
  BY <1>1, <1>2, <1>3, <1>4, <1>5, <1>6, <1>7, HandshakePositions, SensorInfoPositions,
     SetMountingPositions DEF Next, Udp, Haritora

\* A sensor with a configured position never holds another one.
THEOREM ConfiguredPositionWins == Spec => []AssignmentWins
<1>1. PositionInv => AssignmentWins
  BY DEF PositionInv
<1>2. QED
  BY <1>1, InitPositions, NextPositions, Invariance, PTL DEF Spec

\* The calibration has the mounting of every sensor with a position, but for
\* the one whose SENSOR_INFO is under way.
THEOREM CalibrationHearsPositions == Spec => []MountingFollowsPosition
<1>1. PositionInv => MountingFollowsPosition
  BY DEF PositionInv
<1>2. QED
  BY <1>1, InitPositions, NextPositions, Invariance, PTL DEF Spec
==============================================================================
