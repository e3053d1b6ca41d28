--------------------------- MODULE AcquisitionProofs ---------------------------
(***************************************************************************)
(* That the control channels cover the connected ports, that nothing of a  *)
(* stopped worker is left after a restart, and what the answer to a call   *)
(* that turns the trackers off means: for any number of ports, restarts    *)
(* and calls, and an event queue of any length.                            *)
(***************************************************************************)
EXTENDS Acquisition, SequenceTheorems, TLAPS

Labels == {"off", "start", "open", "read", "power", "unset", "drain", "done"}
Events == [from : Workers, kind : {"up", "down"}]

\* A worker is a port and a generation.
LEMMA WorkerParts == \A w \in Workers : Port(w) \in Ports /\ w[2] \in Generations /\ w[2] \in Nat
BY DEF Workers, Port, Generations

\* The ports that are found have a worker, of the first generation.
LEMMA InitIInv == Init => IInv
<1>1. SUFFICES ASSUME Init PROVE IInv
  OBVIOUS
<1>2. PICK found \in SUBSET Ports : controls = found /\ pc = [w \in Workers |-> Spawned(found, 0, w)]
  BY <1>1 DEF Init
<1>3. /\ gen = 0 /\ connected = {} /\ events = <<>> /\ seen = {} /\ app = "idle"
      /\ decoder = [w \in Workers |-> "empty"]
      /\ control = [w \in Workers |-> 0] /\ serving = [w \in Workers |-> 0]
      /\ call = 0 /\ targets = {} /\ todo = {} /\ awaiting = {} /\ failed = FALSE
      /\ ran = {} /\ replies = [p \in Ports |-> "none"] /\ outcome = "none"
  BY <1>1 DEF Init
<1>4. TypeOK
  <2>1. pc \in [Workers -> {"off", "start", "open", "read", "power", "unset", "drain", "done"}]
    BY <1>2 DEF Spawned
  <2>2. gen \in Generations /\ call \in 0..MaxCalls /\ 0 \in 0..MaxCalls
    BY <1>3, AcquisitionAssumption DEF Generations
  <2>3. events \in Seq([from : Workers, kind : {"up", "down"}]) /\ Len(events) <= EventCap
    BY <1>3, AcquisitionAssumption
  <2>4. QED
    BY <1>2, <1>3, <2>1, <2>2, <2>3 DEF TypeOK
<1>5. OnlyCurrentWorkers
  BY <1>2, <1>3 DEF OnlyCurrentWorkers, Spawned
<1>6. RequestsAreNoneOfTheFuture /\ OneRequestPerCall
  BY <1>3 DEF RequestsAreNoneOfTheFuture, OneRequestPerCall
<1>7. QED
  BY <1>3, <1>4, <1>5, <1>6
     DEF IInv, RestartsAreBounded, NothingLeftOver, EveryPortAccountedFor, ControlsCoverPorts,
         OnlyCurrentTrackers

\* What a port's worker is, during a call.
LEMMA WorkerOf ==
  ASSUME IInv, NEW w \in Workers, w[2] = gen
  PROVE  w = <<Port(w), gen>> /\ Port(w) \in Ports
BY DEF Workers, Port

\* The requests of a call stay what they are when nothing of them changes.
LEMMA RequestsKeep ==
  ASSUME IInv, UNCHANGED <<call, todo, control, serving, replies, ran, gen, app>>
  PROVE  RequestsAreNoneOfTheFuture' /\ OneRequestPerCall'
BY DEF IInv, RequestsAreNoneOfTheFuture, OneRequestPerCall, OneRequestPerPort, UntouchedBy

\* A worker drops its request, or takes it in hand, or is done with it; only a
\* request of this call changes what is known of its port.
LEMMA RequestsMove ==
  ASSUME IInv, NEW w \in Workers, w[2] = gen, UNCHANGED <<call, todo, gen, app>>,
         control' = control \/ control' = [control EXCEPT ![w] = 0],
         \/ serving' = serving
         \/ serving' = [serving EXCEPT ![w] = 0]
         \/ serving' = [serving EXCEPT ![w] = control[w]] /\ control' = [control EXCEPT ![w] = 0],
         \/ UNCHANGED <<replies, ran>>
         \/ /\ \A p \in Ports \ {Port(w)} : replies'[p] = replies[p]
            /\ ran' \cup {Port(w)} = ran \cup {Port(w)}
            /\ \/ control[w] = call /\ control'[w] = 0 /\ serving' = serving
               \/ serving[w] = call /\ serving'[w] = 0 /\ control' = control
  PROVE  RequestsAreNoneOfTheFuture' /\ OneRequestPerCall'
<1>1. control \in [Workers -> 0..MaxCalls] /\ serving \in [Workers -> 0..MaxCalls] /\ call \in Nat
  BY AcquisitionAssumption DEF IInv, TypeOK
<1>2. RequestsAreNoneOfTheFuture'
  BY <1>1, AcquisitionAssumption DEF IInv, RequestsAreNoneOfTheFuture
<1>3. SUFFICES ASSUME app = "call" PROVE OneRequestPerCall'
  BY <1>2 DEF OneRequestPerCall
<1>4. SUFFICES ASSUME NEW p \in Ports PROVE OneRequestPerPort(p, <<p, gen>>)'
  BY <1>2, <1>3 DEF IInv, OneRequestPerCall
<1>5. PICK v \in Workers : v = <<p, gen>>
  BY DEF IInv, TypeOK, Workers
<1>6. OneRequestPerPort(p, v) /\ call # 0
  BY <1>3, <1>5 DEF IInv, OneRequestPerCall
<1>7. CASE p = Port(w)
  <2>1. v = w
    BY <1>5, <1>7, WorkerOf
  <2>2. OneRequestPerPort(p, v)'
    BY <1>1, <1>6, <2>1 DEF OneRequestPerPort, UntouchedBy
  <2>3. QED
    BY <1>5, <2>2
<1>8. CASE p # Port(w)
  <2>1. v # w
    BY <1>5, <1>8 DEF Port
  <2>2. control'[v] = control[v] /\ serving'[v] = serving[v]
    BY <1>1, <2>1
  <2>3. UntouchedBy(p)' <=> UntouchedBy(p)
    BY <1>8 DEF UntouchedBy
  <2>4. OneRequestPerPort(p, v)'
    BY <1>6, <2>2, <2>3 DEF OneRequestPerPort
  <2>5. QED
    BY <1>5, <2>4
<1>9. QED
  BY <1>7, <1>8

\* An event that is queued, or dropped, by a worker of the current generation.
LEMMA EmitKeeps ==
  ASSUME IInv, NEW w \in Workers, w[2] = gen, NEW kind \in {"up", "down"}, Emit(w, kind)
  PROVE  /\ events' \in Seq(Events) /\ Len(events') <= EventCap
         /\ \A i \in 1..Len(events') : events'[i].from[2] = gen
<1>1. /\ events \in Seq(Events) /\ Len(events) <= EventCap /\ EventCap \in Nat
      /\ \A i \in 1..Len(events) : events[i].from[2] = gen
  BY AcquisitionAssumption DEF IInv, TypeOK, OnlyCurrentTrackers, Events
<1>2. CASE ~(Len(events) < EventCap)
  BY <1>1, <1>2 DEF Emit
<1>3. CASE Len(events) < EventCap
  <2>1. events' = Append(events, [from |-> w, kind |-> kind])
    BY <1>3 DEF Emit
  <2>2. [from |-> w, kind |-> kind] \in Events
    BY DEF Events
  <2>3. events' \in Seq(Events) /\ Len(events') = Len(events) + 1
    BY <1>1, <2>1, <2>2
  <2>4. \A i \in 1..Len(events') : events'[i].from[2] = gen
    BY <1>1, <2>1, <2>2, <2>3
  <2>5. QED
    BY <1>1, <1>3, <2>3, <2>4
<1>4. QED
  BY <1>2, <1>3

\* A worker that only moves on, and does not come back to life.
LEMMA MoveKeeps ==
  ASSUME IInv, NEW w \in Workers, pc[w] \notin {"off", "done"}, NEW label \in Labels,
         Goto(w, label), UNCHANGED <<gen, controls>>
  PROVE  pc' \in [Workers -> Labels] /\ OnlyCurrentWorkers'
<1>1. pc \in [Workers -> Labels] /\ pc' = [pc EXCEPT ![w] = label]
  BY DEF IInv, TypeOK, Labels, Goto
<1>2. OnlyCurrentWorkers'
  BY <1>1 DEF IInv, OnlyCurrentWorkers, Port
<1>3. QED
  BY <1>1, <1>2

\* What holds of the loop and of a call is nothing a worker's own steps touch.
LEMMA WorkerLeaves ==
  ASSUME IInv, UNCHANGED <<callVars, replies, ran, gen, controls, seen, app>>
  PROVE  /\ gen' \in Generations /\ controls' \subseteq Ports /\ seen' \subseteq Workers
         /\ app' \in {"idle", "join", "clear", "call"} /\ call' \in 0..MaxCalls
         /\ targets' \subseteq Ports /\ todo' \subseteq targets' /\ awaiting' \subseteq targets'
         /\ ran' \subseteq Ports /\ replies' \in [Ports -> {"none", "zero", "sent", "error"}]
         /\ failed' \in BOOLEAN /\ outcome' \in {"none", "ok", "error"}
         /\ RestartsAreBounded' /\ NothingLeftOver' /\ EveryPortAccountedFor'
         /\ todo' \subseteq controls' /\ (app' # "clear" => \A v \in seen' : v[2] = gen')
<1>1. UNCHANGED <<call, targets, todo, awaiting, failed, outcome, replies, ran, gen, controls, seen, app>>
  BY DEF callVars
<1>2. RestartsAreBounded' /\ NothingLeftOver' /\ EveryPortAccountedFor'
  BY <1>1 DEF IInv, RestartsAreBounded, NothingLeftOver, EveryPortAccountedFor
<1>3. todo' \subseteq controls' /\ (app' # "clear" => \A v \in seen' : v[2] = gen')
  BY <1>1 DEF IInv, ControlsCoverPorts, OnlyCurrentTrackers
<1>4. QED
  BY <1>1, <1>2, <1>3 DEF IInv, TypeOK

\* A worker looks at the stop flag, opens its port, or leaves a port behind.
LEMMA PortIInv ==
  ASSUME IInv, NEW w \in Workers, NEW ok \in BOOLEAN,
         Begin(w) \/ Open(w, ok) \/ Unset(w) \/ Drain(w) \/ Exit(w)
  PROVE  IInv'
<1>1. /\ UNCHANGED <<callVars, ran, gen, controls, seen, app, events, decoder, serving>>
      /\ pc[w] \notin {"off", "done"} /\ \E label \in Labels : Goto(w, label)
      /\ connected' = connected \/ connected' = connected \ {Port(w)}
           \/ connected' = connected \cup {Port(w)}
      /\ control' = control \/ control' = [control EXCEPT ![w] = 0]
      /\ \/ replies' = replies
         \/ /\ Port(w) \in awaiting /\ replies' = [replies EXCEPT ![Port(w)] = "error"]
            /\ control[w] = call /\ control' = [control EXCEPT ![w] = 0]
  BY DEF Begin, Open, Unset, Drain, Exit, Labels, Awaited
<1>2. UNCHANGED <<call, targets, todo, awaiting, failed, outcome>>
  BY <1>1 DEF callVars
<1>3. pc' \in [Workers -> Labels] /\ OnlyCurrentWorkers' /\ w[2] = gen /\ Port(w) \in controls /\ Port(w) \in Ports
  BY <1>1, MoveKeeps, WorkerParts DEF IInv, OnlyCurrentWorkers
<1>4. TypeOK'
  <2>1. control' \in [Workers -> 0..MaxCalls]
    <3>1. 0 \in 0..MaxCalls
      BY AcquisitionAssumption
    <3>2. QED
      BY <1>1, <3>1 DEF IInv, TypeOK
  <2>2. replies' \in [Ports -> {"none", "zero", "sent", "error"}]
    BY <1>1 DEF IInv, TypeOK
  <2>3. connected' \subseteq Ports
    BY <1>1, <1>3 DEF IInv, TypeOK
  <2>4. QED
    BY <1>1, <1>2, <1>3, <2>1, <2>2, <2>3 DEF IInv, TypeOK, Labels
<1>5. NothingLeftOver'
  BY <1>1, <1>2 DEF IInv, NothingLeftOver
<1>6. EveryPortAccountedFor'
  BY <1>1, <1>2 DEF IInv, TypeOK, EveryPortAccountedFor
<1>7. ControlsCoverPorts' /\ OnlyCurrentTrackers' /\ RestartsAreBounded'
  BY <1>1, <1>2, <1>3 DEF IInv, ControlsCoverPorts, OnlyCurrentTrackers, RestartsAreBounded
<1>8. RequestsAreNoneOfTheFuture' /\ OneRequestPerCall'
  <2>1. control \in [Workers -> 0..MaxCalls] /\ replies \in [Ports -> {"none", "zero", "sent", "error"}]
    BY DEF IInv, TypeOK
  <2>2. \/ UNCHANGED <<replies, ran>>
        \/ /\ \A p \in Ports \ {Port(w)} : replies'[p] = replies[p]
           /\ control[w] = call /\ control'[w] = 0 /\ ran' = ran
    BY <1>1, <2>1
  <2>3. QED
    BY <1>1, <1>2, <1>3, <2>2, RequestsMove
<1>9. QED
  BY <1>3, <1>4, <1>5, <1>6, <1>7, <1>8 DEF IInv

\* A worker tells of its tracker, or that it is gone.
LEMMA EventIInv ==
  ASSUME IInv, NEW w \in Workers, Report(w) \/ Leave(w)
  PROVE  IInv'
<1>1. /\ UNCHANGED <<callVars, replies, ran, gen, controls, seen, app, connected, control, serving>>
      /\ pc[w] = "read" /\ (pc' = pc \/ Goto(w, "unset"))
      /\ events' = events \/ \E kind \in {"up", "down"} : Emit(w, kind)
      /\ \E what \in {"empty", "assigned"} : decoder' = [decoder EXCEPT ![w] = what]
  BY DEF Report, Leave
<1>2. w[2] = gen
  BY <1>1 DEF IInv, OnlyCurrentWorkers
<1>3. /\ events' \in Seq(Events) /\ Len(events') <= EventCap
      /\ \A i \in 1..Len(events') : events'[i].from[2] = gen
  BY <1>1, <1>2, EmitKeeps DEF IInv, TypeOK, OnlyCurrentTrackers, Events
<1>4. pc' \in [Workers -> Labels] /\ OnlyCurrentWorkers'
  <2>1. CASE pc' = pc
    BY <1>1, <2>1 DEF IInv, TypeOK, OnlyCurrentWorkers, Labels
  <2>2. CASE Goto(w, "unset")
    BY <1>1, <2>2, MoveKeeps DEF Labels
  <2>3. QED
    BY <1>1, <2>1, <2>2
<1>5. TypeOK'
  <2>1. decoder' \in [Workers -> {"empty", "assigned"}]
    BY <1>1 DEF IInv, TypeOK
  <2>2. connected' \subseteq Ports /\ control' \in [Workers -> 0..MaxCalls] /\ serving' \in [Workers -> 0..MaxCalls]
    BY <1>1 DEF IInv, TypeOK
  <2>3. QED
    BY <1>1, <1>3, <1>4, <2>1, <2>2, WorkerLeaves DEF TypeOK, Labels, Events
<1>6. ControlsCoverPorts' /\ OnlyCurrentTrackers'
  BY <1>1, <1>3 DEF IInv, ControlsCoverPorts, OnlyCurrentTrackers, callVars
<1>7. RequestsAreNoneOfTheFuture' /\ OneRequestPerCall'
  BY <1>1, RequestsKeep DEF callVars
<1>8. QED
  BY <1>1, <1>4, <1>5, <1>6, <1>7, WorkerLeaves DEF IInv

\* A worker takes a request, or refuses one its caller has given up.
LEMMA ServeIInv ==
  ASSUME IInv, NEW w \in Workers, Serve(w)
  PROVE  IInv'
<1>1. /\ UNCHANGED <<callVars, replies, ran, gen, controls, seen, app, connected, events, decoder>>
      /\ pc[w] = "read" /\ control' = [control EXCEPT ![w] = 0]
      /\ (pc' = pc /\ serving' = serving) \/ (Goto(w, "power") /\ serving' = [serving EXCEPT ![w] = control[w]])
  BY DEF Serve
<1>2. pc' \in [Workers -> Labels] /\ OnlyCurrentWorkers'
  <2>1. CASE pc' = pc
    BY <1>1, <2>1 DEF IInv, TypeOK, OnlyCurrentWorkers, Labels
  <2>2. CASE Goto(w, "power")
    BY <1>1, <2>2, MoveKeeps DEF Labels
  <2>3. QED
    BY <1>1, <2>1, <2>2
<1>3. TypeOK'
  <2>1. control' \in [Workers -> 0..MaxCalls] /\ serving' \in [Workers -> 0..MaxCalls]
    <3>1. 0 \in 0..MaxCalls /\ control \in [Workers -> 0..MaxCalls] /\ serving \in [Workers -> 0..MaxCalls]
      BY AcquisitionAssumption DEF IInv, TypeOK
    <3>2. QED
      BY <1>1, <3>1
  <2>2. connected' \subseteq Ports /\ decoder' \in [Workers -> {"empty", "assigned"}]
    BY <1>1 DEF IInv, TypeOK
  <2>3. events' \in Seq([from : Workers, kind : {"up", "down"}]) /\ Len(events') <= EventCap
    BY <1>1 DEF IInv, TypeOK
  <2>4. QED
    BY <1>1, <1>2, <2>1, <2>2, <2>3, WorkerLeaves DEF TypeOK, Labels
<1>4. ControlsCoverPorts' /\ OnlyCurrentTrackers'
  BY <1>1 DEF IInv, ControlsCoverPorts, OnlyCurrentTrackers, callVars
<1>5. RequestsAreNoneOfTheFuture' /\ OneRequestPerCall'
  <2>1. w[2] = gen
    BY <1>1 DEF IInv, OnlyCurrentWorkers
  <2>2. QED
    BY <1>1, <2>1, RequestsMove DEF callVars
<1>6. QED
  BY <1>1, <1>2, <1>3, <1>4, <1>5, WorkerLeaves DEF IInv

\* It turns its tracker off and says so to a caller that still waits.
LEMMA PowerOffIInv ==
  ASSUME IInv, NEW w \in Workers, NEW ok \in BOOLEAN, PowerOff(w, ok)
  PROVE  IInv'
<1>1. PICK reply \in {"zero", "sent", "error"} :
        /\ \/ replies' = replies
           \/ /\ serving[w] = call /\ Port(w) \in awaiting
              /\ replies' = [replies EXCEPT ![Port(w)] = reply]
        /\ ran' = IF serving[w] = call /\ reply # "error" THEN ran \cup {Port(w)} ELSE ran
  BY DEF PowerOff, Awaited
<1>2. /\ UNCHANGED <<callVars, gen, controls, seen, app, connected, events, decoder, control>>
      /\ pc[w] = "power" /\ Goto(w, "read") /\ serving' = [serving EXCEPT ![w] = 0]
  BY DEF PowerOff
<1>3. UNCHANGED <<call, targets, todo, awaiting, failed, outcome>> /\ Port(w) \in Ports
  BY <1>2, WorkerParts DEF callVars
<1>4. pc' \in [Workers -> Labels] /\ OnlyCurrentWorkers'
  BY <1>2, MoveKeeps DEF Labels
<1>5. TypeOK'
  <2>1. serving' \in [Workers -> 0..MaxCalls]
    <3>1. 0 \in 0..MaxCalls /\ serving \in [Workers -> 0..MaxCalls]
      BY AcquisitionAssumption DEF IInv, TypeOK
    <3>2. QED
      BY <1>2, <3>1
  <2>2. replies' \in [Ports -> {"none", "zero", "sent", "error"}] /\ ran' \subseteq Ports
    <3>1. replies \in [Ports -> {"none", "zero", "sent", "error"}] /\ ran \subseteq Ports
      BY DEF IInv, TypeOK
    <3>2. ran' \subseteq Ports
      BY <1>1, <1>3, <3>1
    <3>3. QED
      BY <1>1, <1>3, <3>1, <3>2
  <2>3. QED
    BY <1>2, <1>3, <1>4, <2>1, <2>2 DEF IInv, TypeOK, Labels
<1>6. NothingLeftOver'
  BY <1>1, <1>2, <1>3 DEF IInv, NothingLeftOver
<1>7. EveryPortAccountedFor'
  BY <1>1, <1>2, <1>3 DEF IInv, TypeOK, EveryPortAccountedFor
<1>8. ControlsCoverPorts' /\ OnlyCurrentTrackers' /\ RestartsAreBounded'
  BY <1>2, <1>3 DEF IInv, ControlsCoverPorts, OnlyCurrentTrackers, RestartsAreBounded
<1>9. RequestsAreNoneOfTheFuture' /\ OneRequestPerCall'
  <2>1. w[2] = gen /\ replies \in [Ports -> {"none", "zero", "sent", "error"}]
    BY <1>2 DEF IInv, TypeOK, OnlyCurrentWorkers
  <2>2. serving \in [Workers -> 0..MaxCalls]
    BY DEF IInv, TypeOK
  <2>3. \/ UNCHANGED <<replies, ran>>
        \/ /\ \A p \in Ports \ {Port(w)} : replies'[p] = replies[p]
           /\ ran' \cup {Port(w)} = ran \cup {Port(w)}
           /\ serving[w] = call /\ serving'[w] = 0
    BY <1>1, <1>2, <2>1, <2>2
  <2>4. QED
    BY <1>2, <1>3, <2>1, <2>3, RequestsMove
<1>10. QED
  BY <1>4, <1>5, <1>6, <1>7, <1>8, <1>9 DEF IInv

\* The loop handles the first event of the queue.
LEMMA HandleIInv ==
  ASSUME IInv, Handle
  PROVE  IInv'
<1>1. /\ UNCHANGED <<call, targets, todo, awaiting, failed, outcome, replies, ran, gen, controls,
                     app, connected, pc, decoder, control, serving>>
      /\ app = "idle" /\ events # <<>> /\ events' = Tail(events)
      /\ seen' \subseteq seen \cup {Head(events).from}
  BY DEF Handle, callVars
<1>2. events \in Seq(Events) /\ Len(events) <= EventCap /\ \A i \in 1..Len(events) : events[i].from[2] = gen
  BY DEF IInv, TypeOK, OnlyCurrentTrackers, Events
<1>3. Len(events) \in Nat /\ Len(events) # 0 /\ Head(events) = events[1] /\ events[1] \in Events
  BY <1>1, <1>2
<1>4. /\ events' \in Seq(Events) /\ Len(events') = Len(events) - 1
      /\ \A i \in 1..Len(events') : events'[i] = events[i + 1]
  BY <1>1, <1>2, <1>3
<1>5. seen' \subseteq Workers /\ \A w \in seen' : w[2] = gen
  <2>1. events[1].from \in Workers /\ events[1].from[2] = gen
    BY <1>2, <1>3 DEF Events
  <2>2. QED
    BY <1>1, <1>3, <2>1 DEF IInv, TypeOK, OnlyCurrentTrackers
<1>6. Len(events') <= EventCap /\ \A i \in 1..Len(events') : events'[i].from[2] = gen
  BY <1>2, <1>3, <1>4, AcquisitionAssumption
<1>7. TypeOK'
  BY <1>1, <1>4, <1>5, <1>6 DEF IInv, TypeOK, Events
<1>8. OnlyCurrentTrackers'
  BY <1>1, <1>5, <1>6 DEF OnlyCurrentTrackers
<1>9. /\ OnlyCurrentWorkers' /\ RestartsAreBounded' /\ NothingLeftOver' /\ EveryPortAccountedFor'
      /\ ControlsCoverPorts'
  BY <1>1 DEF IInv, OnlyCurrentWorkers, RestartsAreBounded, NothingLeftOver, EveryPortAccountedFor,
              ControlsCoverPorts
<1>10. QED
  BY <1>1, <1>7, <1>8, <1>9, RequestsKeep DEF IInv

\* A restart: the workers are stopped, new ones found, the registry cleared.
LEMMA RestartIInv ==
  ASSUME IInv, Restart \/ Clear
  PROVE  IInv'
<1>1. /\ UNCHANGED <<connected, events, pc, decoder, control, serving, call, targets, todo, awaiting,
                     failed, outcome, replies, ran, gen, controls>>
      /\ \/ app = "idle" /\ app' = "join" /\ gen < MaxRestarts /\ seen' = seen
         \/ app = "clear" /\ app' = "idle" /\ seen' = {}
  BY DEF Restart, Clear, workerVars, callVars
<1>2. TypeOK'
  BY <1>1 DEF IInv, TypeOK
<1>3. OnlyCurrentWorkers' /\ RestartsAreBounded' /\ ControlsCoverPorts' /\ OnlyCurrentTrackers'
  BY <1>1 DEF IInv, OnlyCurrentWorkers, RestartsAreBounded, ControlsCoverPorts, OnlyCurrentTrackers
<1>4. NothingLeftOver' /\ EveryPortAccountedFor'
  BY <1>1 DEF IInv, NothingLeftOver, EveryPortAccountedFor
<1>5. RequestsAreNoneOfTheFuture' /\ OneRequestPerCall'
  BY <1>1 DEF IInv, RequestsAreNoneOfTheFuture, OneRequestPerCall
<1>6. QED
  BY <1>2, <1>3, <1>4, <1>5 DEF IInv

\* A restart goes on once the old workers are joined: new ones, of the next generation, start clean.
LEMMA RespawnIInv ==
  ASSUME IInv, NEW found \in SUBSET Ports, Respawn(found)
  PROVE  IInv'
<1>1. /\ app = "join" /\ Joined
      /\ gen' = gen + 1 /\ controls' = found /\ connected' = {} /\ events' = <<>>
      /\ pc' = [w \in Workers |-> IF w[2] = gen + 1 THEN Spawned(found, gen + 1, w) ELSE pc[w]]
      /\ app' = "clear"
      /\ UNCHANGED <<call, targets, todo, awaiting, failed, outcome, replies, ran, seen, decoder,
                     control, serving>>
  BY DEF Respawn, callVars
<1>2. gen + 1 \in Generations
  BY <1>1, AcquisitionAssumption DEF IInv, TypeOK, RestartsAreBounded, Generations
<1>3. TypeOK'
  <2>1. events' \in Seq([from : Workers, kind : {"up", "down"}]) /\ Len(events') <= EventCap
    BY <1>1, AcquisitionAssumption
  <2>2. pc' \in [Workers -> {"off", "start", "open", "read", "power", "unset", "drain", "done"}]
    BY <1>1 DEF IInv, TypeOK, Spawned
  <2>3. QED
    BY <1>1, <1>2, <2>1, <2>2 DEF IInv, TypeOK
<1>4. OnlyCurrentWorkers'
  BY <1>1 DEF OnlyCurrentWorkers, Joined, Spawned
<1>5. RestartsAreBounded' /\ NothingLeftOver' /\ EveryPortAccountedFor'
  BY <1>1 DEF IInv, RestartsAreBounded, NothingLeftOver, EveryPortAccountedFor
<1>6. ControlsCoverPorts' /\ OnlyCurrentTrackers'
  BY <1>1 DEF IInv, NothingLeftOver, ControlsCoverPorts, OnlyCurrentTrackers
<1>7. RequestsAreNoneOfTheFuture' /\ OneRequestPerCall'
  BY <1>1 DEF IInv, RequestsAreNoneOfTheFuture, OneRequestPerCall
<1>8. QED
  BY <1>3, <1>4, <1>5, <1>6, <1>7 DEF IInv

\* A call begins: every connected port is to be asked.
LEMMA CallIInv ==
  ASSUME IInv, Call
  PROVE  IInv'
<1>1. /\ app = "idle" /\ call < MaxCalls /\ app' = "call" /\ call' = call + 1
      /\ targets' = connected /\ todo' = connected /\ outcome' = "none" /\ ran' = {}
      /\ UNCHANGED <<connected, events, pc, decoder, control, serving, awaiting, failed, replies, gen,
                     controls, seen>>
  BY DEF Call, workerVars
<1>2. todo = {} /\ awaiting = {} /\ ~failed /\ replies = [p \in Ports |-> "none"]
  BY <1>1 DEF IInv, NothingLeftOver
<1>3. TypeOK'
  <2>1. call' \in 0..MaxCalls
    BY <1>1, AcquisitionAssumption DEF IInv, TypeOK
  <2>2. QED
    BY <1>1, <1>2, <2>1 DEF IInv, TypeOK
<1>4. EveryPortAccountedFor'
  BY <1>1, <1>2 DEF IInv, TypeOK, EveryPortAccountedFor
<1>5. OnlyCurrentWorkers' /\ RestartsAreBounded' /\ NothingLeftOver' /\ ControlsCoverPorts' /\ OnlyCurrentTrackers'
  BY <1>1 DEF IInv, OnlyCurrentWorkers, RestartsAreBounded, NothingLeftOver, ControlsCoverPorts,
              OnlyCurrentTrackers
<1>6. RequestsAreNoneOfTheFuture' /\ OneRequestPerCall'
  <2>1. call \in Nat /\ control \in [Workers -> 0..MaxCalls] /\ serving \in [Workers -> 0..MaxCalls]
    BY AcquisitionAssumption DEF IInv, TypeOK
  <2>2. \A w \in Workers : control[w] <= call /\ serving[w] <= call
    BY DEF IInv, RequestsAreNoneOfTheFuture
  <2>3. \A w \in Workers : control[w] < call + 1 /\ serving[w] < call + 1
    BY <2>1, <2>2, AcquisitionAssumption
  <2>4. RequestsAreNoneOfTheFuture'
    BY <1>1, <2>1, <2>3, AcquisitionAssumption DEF RequestsAreNoneOfTheFuture
  <2>5. call' # 0 /\ \A w \in Workers : control'[w] # call' /\ serving'[w] # call'
    BY <1>1, <2>1, <2>3, AcquisitionAssumption
  <2>6. \A p \in Ports : UntouchedBy(p)' /\ <<p, gen'>> \in Workers
    BY <1>1, <1>2 DEF UntouchedBy, IInv, TypeOK, Workers
  <2>7. QED
    BY <2>4, <2>5, <2>6 DEF OneRequestPerCall, OneRequestPerPort
<1>7. QED
  BY <1>3, <1>4, <1>5, <1>6 DEF IInv

\* One port is asked, one reply comes in, or one wait ends.
LEMMA AskIInv ==
  ASSUME IInv, NEW p \in Ports, Send(p) \/ Collect(p) \/ Expire(p)
  PROVE  IInv'
<1>1. /\ UNCHANGED <<call, targets, outcome, replies, ran, gen, controls, seen, app, connected, events,
                     pc, decoder, serving>>
      /\ p \in todo \cup awaiting
      /\ \/ control' = control
         \/ /\ <<p, gen>> \in Workers /\ control' = [control EXCEPT ![<<p, gen>>] = call]
            /\ p \in todo /\ todo' = todo \ {p}
      /\ \/ todo' = todo \ {p} /\ awaiting' = awaiting \cup {p} /\ failed' = failed /\ p \in todo
         \/ todo' = todo \ {p} /\ awaiting' = awaiting /\ failed' = TRUE
         \/ todo' = todo /\ awaiting' = awaiting \ {p} /\ replies[p] # "none"
              /\ failed' = (failed \/ replies[p] = "error")
         \/ todo' = todo /\ awaiting' = awaiting \ {p} /\ failed' = TRUE
  <2>1. CASE Send(p)
    <3>1. <<p, gen>> \in Workers
      BY DEF IInv, TypeOK, Workers
    <3>2. QED
      BY <2>1, <3>1 DEF Send
  <2>2. CASE Collect(p)
    BY <2>2 DEF Collect, workerVars
  <2>3. CASE Expire(p)
    BY <2>3 DEF Expire, workerVars
  <2>4. QED
    BY <2>1, <2>2, <2>3
<1>2. app = "call"
  BY <1>1 DEF IInv, NothingLeftOver
<1>3. TypeOK'
  <2>1. control' \in [Workers -> 0..MaxCalls]
    BY <1>1 DEF IInv, TypeOK
  <2>2. todo' \subseteq targets /\ awaiting' \subseteq targets /\ failed' \in BOOLEAN
    BY <1>1 DEF IInv, TypeOK
  <2>3. QED
    BY <1>1, <2>1, <2>2 DEF IInv, TypeOK
<1>4. EveryPortAccountedFor'
  <2>1. replies \in [Ports -> {"none", "zero", "sent", "error"}]
    BY DEF IInv, TypeOK
  <2>2. outcome' = "none" /\ \A q \in targets' : replies'[q] \in {"zero", "sent"} => q \in ran'
    BY <1>1, <1>2 DEF IInv, EveryPortAccountedFor
  <2>3. failed => failed'
    BY <1>1
  <2>4. ASSUME NEW q \in targets PROVE q \in todo' \cup awaiting' \/ failed' \/ replies[q] \in {"zero", "sent"}
    <3>1. q \in todo \cup awaiting \/ failed \/ replies[q] \in {"zero", "sent"}
      BY <1>2, <2>4 DEF IInv, EveryPortAccountedFor
    <3>2. CASE q # p
      BY <1>1, <2>3, <3>1, <3>2
    <3>3. CASE q = p
      BY <1>1, <2>1, <3>3
    <3>4. QED
      BY <3>2, <3>3
  <2>5. QED
    BY <1>1, <2>2, <2>4 DEF EveryPortAccountedFor
<1>5. OnlyCurrentWorkers' /\ RestartsAreBounded' /\ NothingLeftOver' /\ ControlsCoverPorts' /\ OnlyCurrentTrackers'
  BY <1>1, <1>2 DEF IInv, OnlyCurrentWorkers, RestartsAreBounded, NothingLeftOver, ControlsCoverPorts,
                    OnlyCurrentTrackers
<1>6. RequestsAreNoneOfTheFuture' /\ OneRequestPerCall'
  <2>1. call \in 0..MaxCalls /\ call \in Nat /\ control \in [Workers -> 0..MaxCalls]
    BY AcquisitionAssumption DEF IInv, TypeOK
  <2>2. RequestsAreNoneOfTheFuture'
    BY <1>1, <2>1, AcquisitionAssumption DEF IInv, RequestsAreNoneOfTheFuture
  <2>3. ASSUME NEW q \in Ports PROVE OneRequestPerPort(q, <<q, gen>>)'
    <3>1. PICK v \in Workers : v = <<q, gen>>
      BY DEF IInv, TypeOK, Workers
    <3>2. OneRequestPerPort(q, v)
      BY <1>2, <3>1 DEF IInv, OneRequestPerCall
    <3>3. UntouchedBy(q)' <=> UntouchedBy(q)
      BY <1>1 DEF UntouchedBy
    <3>4. \/ control'[v] = control[v] /\ (q \in todo' => q \in todo)
          \/ control'[v] = call /\ q \in todo /\ q \notin todo'
      BY <1>1, <2>1, <3>1
    <3>5. OneRequestPerPort(q, v)'
      BY <1>1, <3>2, <3>3, <3>4 DEF OneRequestPerPort
    <3>6. QED
      BY <1>1, <3>1, <3>5
  <2>4. QED
    BY <1>1, <1>2, <2>2, <2>3 DEF IInv, OneRequestPerCall
<1>7. QED
  BY <1>3, <1>4, <1>5, <1>6 DEF IInv

\* The call returns, and forgets what it was about.
LEMMA ReturnIInv ==
  ASSUME IInv, Return
  PROVE  IInv'
<1>1. /\ app' = "idle" /\ todo = {} /\ awaiting = {}
      /\ targets' = {} /\ replies' = [p \in Ports |-> "none"] /\ failed' = FALSE /\ ran' = {}
      /\ outcome' \in {"ok", "error"}
      /\ UNCHANGED <<connected, events, pc, decoder, control, serving, call, todo, awaiting, gen, controls, seen>>
  BY DEF Return, workerVars
<1>2. TypeOK'
  BY <1>1 DEF IInv, TypeOK
<1>3. OnlyCurrentWorkers' /\ RestartsAreBounded' /\ NothingLeftOver' /\ EveryPortAccountedFor'
  BY <1>1 DEF IInv, OnlyCurrentWorkers, RestartsAreBounded, NothingLeftOver, EveryPortAccountedFor
<1>4. ControlsCoverPorts' /\ OnlyCurrentTrackers'
  <2>1. app # "clear"
    BY DEF Return
  <2>2. QED
    BY <1>1, <2>1 DEF IInv, ControlsCoverPorts, OnlyCurrentTrackers
<1>5. RequestsAreNoneOfTheFuture' /\ OneRequestPerCall'
  BY <1>1 DEF IInv, RequestsAreNoneOfTheFuture, OneRequestPerCall
<1>6. QED
  BY <1>2, <1>3, <1>4, <1>5 DEF IInv

\* Every step preserves the inductive invariant.
LEMMA NextIInv == ASSUME IInv, [Next]_vars PROVE IInv'
<1>1. CASE UNCHANGED vars
  BY <1>1, RequestsKeep DEF vars, workerVars, callVars, IInv, TypeOK, OnlyCurrentWorkers, RestartsAreBounded,
              NothingLeftOver, EveryPortAccountedFor, ControlsCoverPorts, OnlyCurrentTrackers
<1>2. ASSUME NEW w \in Workers, Advance(w) \/ Serve(w) \/ Leave(w) \/ Report(w) PROVE IInv'
  BY <1>2, PortIInv, EventIInv, ServeIInv, PowerOffIInv DEF Advance
<1>3. CASE Loop
  BY <1>3, RespawnIInv, AskIInv, RestartIInv, ReturnIInv DEF Loop
<1>4. QED
  BY <1>1, <1>2, <1>3, HandleIInv, RestartIInv, CallIInv DEF Next

\* The inductive invariant holds in every reachable state.
THEOREM Invariance == Spec => []IInv
BY InitIInv, NextIInv, PTL DEF Spec

\* A call never indexes a control channel that is not there.
THEOREM ControlsAreThere == Spec => []ControlsCoverPorts
<1>1. IInv => ControlsCoverPorts
  BY DEF IInv
<1>2. QED
  BY <1>1, Invariance, PTL

\* Nothing of a worker that was stopped outlives the restart, neither a tracker
\* in the registry nor an event in the queue.
THEOREM NoStaleTracker == Spec => []OnlyCurrentTrackers
<1>1. IInv => OnlyCurrentTrackers
  BY DEF IInv
<1>2. QED
  BY <1>1, Invariance, PTL

\* A step in which a call succeeds is its last, and by then every port that was
\* connected has carried the call out.
LEMMA ReturnMeansAllOff ==
  ASSUME IInv, [Next]_vars, vars' # vars, app = "call", outcome' = "ok"
  PROVE  targets \subseteq ran /\ \E p \in targets : replies[p] = "sent"
<1>1. outcome = "none"
  BY DEF IInv, EveryPortAccountedFor
<1>2. Return
  <2>1. outcome' # outcome /\ Next
    BY <1>1 DEF vars
  <2>2. ASSUME NEW w \in Workers, Advance(w) \/ Serve(w) \/ Leave(w) \/ Report(w) PROVE FALSE
    BY <2>1, <2>2 DEF Advance, Begin, Open, Unset, Drain, Exit, PowerOff, Serve, Leave, Report, callVars
  <2>3. QED
    BY <2>1, <2>2 DEF Next, Loop, Respawn, Send, Collect, Expire, Clear, Handle, Restart, Call, callVars
<1>3. ~failed /\ todo = {} /\ awaiting = {} /\ \E p \in targets : replies[p] = "sent"
  BY <1>2 DEF Return
<1>4. QED
  BY <1>3 DEF IInv, EveryPortAccountedFor

\* "Tracker shutdown commands sent" is only answered when every port that was
\* connected has carried out this very call, and some tracker was told.
THEOREM OkMeansOff == Spec => OkMeansAllOff
<1>1. IInv /\ [Next]_vars => [app = "call" /\ outcome' = "ok" =>
        targets \subseteq ran /\ \E p \in targets : replies[p] = "sent"]_vars
  BY ReturnMeansAllOff
<1>2. QED
  BY <1>1, Invariance, PTL DEF Spec, OkMeansAllOff

\* A worker only turns to a request of this call, whose caller still waits, for a
\* port that is not off yet.
LEMMA TurnsToThisCall ==
  ASSUME IInv, [Next]_vars, NEW w \in Workers, pc'[w] = "power", pc[w] # "power"
  PROVE  app = "call" /\ w[2] = gen /\ Port(w) \in awaiting /\ UntouchedBy(Port(w))
<1>1. pc \in [Workers -> Labels] /\ Next
  BY DEF IInv, TypeOK, Labels, vars, workerVars
<1>2. ASSUME NEW v \in Workers, Advance(v) \/ Leave(v) \/ Report(v) PROVE FALSE
  <2>1. pc' = pc \/ \E label \in Labels \ {"power"} : pc' = [pc EXCEPT ![v] = label]
    BY <1>2 DEF Advance, Begin, Open, Unset, Drain, Exit, PowerOff, Leave, Report, Goto, Labels
  <2>2. QED
    BY <1>1, <2>1
<1>3. ASSUME NEW v \in Workers, Serve(v)
      PROVE  pc[w] = "read" /\ control[w] = call /\ Port(w) \in awaiting
  BY <1>1, <1>3 DEF Serve, Goto, Awaited
<1>4. ASSUME Loop \/ Handle \/ Restart \/ Call PROVE FALSE
  <2>1. pc' = pc \/ \E found \in SUBSET Ports : Respawn(found)
    BY <1>4 DEF Loop, Send, Collect, Expire, Clear, Return, Handle, Restart, Call, workerVars
  <2>2. QED
    BY <2>1 DEF Respawn, Spawned
<1>5. pc[w] = "read" /\ control[w] = call /\ Port(w) \in awaiting
  BY <1>1, <1>2, <1>3, <1>4 DEF Next
<1>6. app = "call" /\ w[2] = gen
  BY <1>5 DEF IInv, NothingLeftOver, OnlyCurrentWorkers
<1>7. w = <<Port(w), gen>> /\ Port(w) \in Ports
  BY <1>6, WorkerOf
<1>8. PICK p \in Ports : p = Port(w)
  BY <1>7
<1>9. OneRequestPerPort(p, w)
  BY <1>6, <1>7, <1>8 DEF IInv, OneRequestPerCall
<1>10. QED
  BY <1>5, <1>6, <1>8, <1>9 DEF OneRequestPerPort

\* A call turns a tracker off at most once: never after the wait for its port has ended
\* or the port has answered, whatever older requests were left in the channels.
THEOREM TurnsOffOnce == Spec => OffOncePerCall
<1>1. IInv /\ [Next]_vars =>
        [\A w \in Workers : pc[w] # "power" /\ pc'[w] = "power" =>
           app = "call" /\ w[2] = gen /\ Port(w) \in awaiting /\ UntouchedBy(Port(w))]_vars
  BY TurnsToThisCall
<1>2. QED
  BY <1>1, Invariance, PTL DEF Spec, OffOncePerCall
=============================================================================
