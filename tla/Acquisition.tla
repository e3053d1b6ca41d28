------------------------------ MODULE Acquisition ------------------------------
(***************************************************************************)
(* The HaritoraX receivers (haritorax/serial.rs): one worker thread per    *)
(* serial port, the bounded queue of their events, and what the            *)
(* application loop does with them: handle an event, restart the           *)
(* acquisition, turn the trackers off.                                     *)
(*                                                                         *)
(* A port carries one tracker here, and a worker is a port with the        *)
(* generation it was started in.  A port can vanish and come back at any   *)
(* time.  The acquisition is enabled; a disabled one has no worker.        *)
(***************************************************************************)
EXTENDS Naturals, Sequences

CONSTANTS
  Ports,
  EventCap,      \* capacity of the event queue (1024 in the code)
  MaxRestarts,   \* bound on the restarts
  MaxCalls       \* bound on the calls that turn the trackers off

ASSUME AcquisitionAssumption ==
  EventCap \in Nat \ {0} /\ MaxRestarts \in Nat /\ MaxCalls \in Nat

Generations == 0..MaxRestarts
Workers == Ports \X Generations

VARIABLES
  gen,         \* the current generation
  controls,    \* the ports with a control channel
  connected,   \* the ports whose state says connected
  events,      \* the queue
  pc,          \* per worker: where it is
  decoder,     \* per worker: what it knows of its tracker
  control,     \* per worker: the call whose request waits for it, 0 if none
  serving,     \* per worker: the call whose request it carries out, 0 if none
  seen,        \* the trackers in the registry, as the workers that reported them
  app,         \* what the application loop does
  call,        \* number of calls so far; the rest is about the last one:
  targets,     \*   the ports that were connected
  todo,        \*   those it has yet to send a request to
  awaiting,    \*   those whose reply it waits for
  replies,     \*   per port: the reply
  failed,      \*   whether some port failed
  ran,         \*   the ports whose worker has carried it out
  outcome      \*   its result

workerVars == <<connected, events, pc, decoder, control, serving>>
callVars == <<call, targets, todo, awaiting, failed, outcome>>
vars == <<workerVars, callVars, replies, ran, gen, controls, seen, app>>

Port(w) == w[1]
Stopped(w) == w[2] < gen \/ app = "join"
Goto(w, label) == pc' = [pc EXCEPT ![w] = label]

\* A worker for each of the ports that are found.
Spawned(found, g, w) == IF w[2] = g /\ Port(w) \in found THEN "start" ELSE "off"

Init ==
  /\ \E found \in SUBSET Ports :
       controls = found /\ pc = [w \in Workers |-> Spawned(found, 0, w)]
  /\ gen = 0 /\ connected = {} /\ events = <<>> /\ seen = {} /\ app = "idle"
  /\ decoder = [w \in Workers |-> "empty"]
  /\ control = [w \in Workers |-> 0] /\ serving = [w \in Workers |-> 0]
  /\ call = 0 /\ targets = {} /\ todo = {} /\ awaiting = {} /\ failed = FALSE
  /\ ran = {} /\ replies = [p \in Ports |-> "none"] /\ outcome = "none"

(***************************************************************************)
(* Workers.                                                                *)
(***************************************************************************)
EmitWaiting(w, kind) ==        \* mutant: wait for room instead of dropping
  Len(events) < EventCap /\ events' = Append(events, [from |-> w, kind |-> kind])
Emit(w, kind) ==
  events' = IF Len(events) < EventCap
              THEN Append(events, [from |-> w, kind |-> kind]) ELSE events

\* A worker looks at the stop flag,
Begin(w) ==
  /\ pc[w] = "start" /\ ~Stopped(w)
  /\ Goto(w, "open")
  /\ UNCHANGED <<callVars, replies, ran, gen, controls, seen, app, connected, events, decoder, control, serving>>

\* opens the port, which takes a while, and publishes its state.
Open(w, ok) ==
  /\ pc[w] = "open"
  /\ connected' = IF ok THEN connected \cup {Port(w)} ELSE connected \ {Port(w)}
  /\ Goto(w, IF ok THEN "read" ELSE "drain")
  /\ UNCHANGED <<callVars, replies, ran, gen, controls, seen, app, events, decoder, control, serving>>

\* A line that tells of the tracker: its identity, or a sample.
Report(w) ==
  /\ pc[w] = "read"
  /\ decoder' = [decoder EXCEPT ![w] = "assigned"]
  /\ Emit(w, "up")
  /\ UNCHANGED <<callVars, replies, ran, gen, controls, seen, app, connected, pc, control, serving>>

\* The caller still waits for the reply.
Awaited(n, p) == n = call /\ p \in awaiting

Serve(w) ==
  /\ pc[w] = "read" /\ control[w] # 0
  /\ control' = [control EXCEPT ![w] = 0]
  /\ IF Awaited(control[w], Port(w))
       THEN Goto(w, "power") /\ serving' = [serving EXCEPT ![w] = control[w]]
       ELSE UNCHANGED <<pc, serving>>
  /\ UNCHANGED <<callVars, replies, ran, gen, controls, seen, app, connected, events, decoder>>

\* power_off: nothing to do without a tracker, an error without its settings or
\* when a write fails.
PowerOff(w, ok) ==
  LET reply == IF decoder[w] = "empty" THEN "zero" ELSE IF ok THEN "sent" ELSE "error"
      heard == Awaited(serving[w], Port(w))
  IN /\ pc[w] = "power"
     /\ replies' = IF heard THEN [replies EXCEPT ![Port(w)] = reply] ELSE replies
     /\ ran' = IF serving[w] = call /\ reply # "error" THEN ran \cup {Port(w)} ELSE ran
     /\ Goto(w, "read") /\ serving' = [serving EXCEPT ![w] = 0]
     /\ UNCHANGED <<callVars, gen, controls, seen, app, connected, events, decoder, control>>

\* The port has vanished, or the worker was told to stop: its tracker goes.
Leave(w) ==
  /\ pc[w] = "read"
  /\ IF decoder[w] = "empty" THEN UNCHANGED events ELSE Emit(w, "down")
  /\ decoder' = [decoder EXCEPT ![w] = "empty"]
  /\ Goto(w, "unset")
  /\ UNCHANGED <<callVars, replies, ran, gen, controls, seen, app, connected, control, serving>>

Unset(w) ==
  /\ pc[w] = "unset"
  /\ connected' = connected \ {Port(w)}
  /\ Goto(w, "drain")
  /\ UNCHANGED <<callVars, replies, ran, gen, controls, seen, app, events, decoder, control, serving>>

\* A request that waits for a port that is gone is refused.
Drain(w) ==
  /\ pc[w] = "drain"
  /\ replies' = IF control[w] # 0 /\ Awaited(control[w], Port(w))
                  THEN [replies EXCEPT ![Port(w)] = "error"] ELSE replies
  /\ control' = [control EXCEPT ![w] = 0]
  /\ Goto(w, "start")
  /\ UNCHANGED <<callVars, ran, gen, controls, seen, app, connected, events, decoder, serving>>

Exit(w) ==
  /\ pc[w] = "start" /\ Stopped(w)
  /\ connected' = connected \ {Port(w)} /\ control' = [control EXCEPT ![w] = 0]
  /\ Goto(w, "done")
  /\ UNCHANGED <<callVars, replies, ran, gen, controls, seen, app, events, decoder, serving>>

(***************************************************************************)
(* The application loop.                                                   *)
(***************************************************************************)
\* Bridge::handle, as far as the registry goes.
Handle ==
  /\ app = "idle" /\ events # <<>>
  /\ LET e == Head(events)
         others == {w \in seen : Port(w) # Port(e.from)}
     IN seen' = IF e.kind = "up" THEN others \cup {e.from} ELSE others
  /\ events' = Tail(events)
  /\ UNCHANGED <<callVars, replies, ran, gen, controls, app, connected, pc, decoder, control, serving>>

\* restart: stop the workers,
Restart ==
  /\ app = "idle" /\ gen < MaxRestarts
  /\ app' = "join"
  /\ UNCHANGED <<workerVars, callVars, replies, ran, gen, controls, seen>>

\* wait for them, drop what they left in the queue, and look for ports again;
NotJoined == TRUE         \* mutant: do not wait
Joined == \A w \in Workers : pc[w] \in {"off", "done"}
Respawn(found) ==
  /\ app = "join" /\ Joined
  /\ gen' = gen + 1 /\ controls' = found /\ connected' = {} /\ events' = <<>>
  /\ pc' = [w \in Workers |-> IF w[2] = gen + 1 THEN Spawned(found, gen + 1, w) ELSE pc[w]]
  /\ app' = "clear"
  /\ UNCHANGED <<callVars, replies, ran, seen, decoder, control, serving>>

\* then Bridge::clear.
ClearNothing ==           \* mutant: the trackers stay
  /\ app = "clear" /\ app' = "idle"
  /\ UNCHANGED <<workerVars, callVars, replies, ran, gen, controls, seen>>
Clear ==
  /\ app = "clear" /\ app' = "idle" /\ seen' = {}
  /\ UNCHANGED <<workerVars, callVars, replies, ran, gen, controls>>

\* shutdown_trackers: the connected ports,
Call ==
  /\ app = "idle" /\ call < MaxCalls
  /\ app' = "call" /\ call' = call + 1
  /\ targets' = connected /\ todo' = connected /\ outcome' = "none" /\ ran' = {}
  /\ UNCHANGED <<workerVars, awaiting, failed, replies, gen, controls, seen>>

\* a request to each that has room for one,
Send(p) ==
  LET w == <<p, gen>> IN
  /\ p \in todo /\ todo' = todo \ {p}
  /\ IF control[w] = 0
       THEN /\ control' = [control EXCEPT ![w] = call]
            /\ awaiting' = awaiting \cup {p} /\ UNCHANGED failed
       ELSE failed' = TRUE /\ UNCHANGED <<control, awaiting>>
  /\ UNCHANGED <<call, targets, outcome, replies, ran, gen, controls, seen, app, connected, events, pc, decoder, serving>>

\* and the replies, until the deadline.
Collect(p) ==
  /\ todo = {} /\ p \in awaiting /\ replies[p] # "none"
  /\ awaiting' = awaiting \ {p} /\ failed' = (failed \/ replies[p] = "error")
  /\ UNCHANGED <<workerVars, call, targets, todo, outcome, replies, ran, gen, controls, seen, app>>

ExpireQuietly(p) ==       \* mutant: no reply is no error
  /\ todo = {} /\ p \in awaiting /\ replies[p] = "none"
  /\ awaiting' = awaiting \ {p}
  /\ UNCHANGED <<workerVars, call, targets, todo, failed, outcome, replies, ran, gen, controls, seen, app>>
ExpireRetried(p) ==      \* mutant: the port is asked again
  /\ todo = {} /\ p \in awaiting /\ replies[p] = "none"
  /\ awaiting' = awaiting \ {p} /\ todo' = {p}
  /\ UNCHANGED <<workerVars, call, targets, failed, outcome, replies, ran, gen, controls, seen, app>>
Expire(p) ==
  /\ todo = {} /\ p \in awaiting /\ replies[p] = "none"
  /\ awaiting' = awaiting \ {p} /\ failed' = TRUE
  /\ UNCHANGED <<workerVars, call, targets, todo, outcome, replies, ran, gen, controls, seen, app>>

Return ==
  /\ app = "call" /\ todo = {} /\ awaiting = {}
  /\ outcome' = IF ~failed /\ \E p \in targets : replies[p] = "sent" THEN "ok" ELSE "error"
  /\ app' = "idle"
  /\ targets' = {} /\ replies' = [p \in Ports |-> "none"] /\ failed' = FALSE /\ ran' = {}
  /\ UNCHANGED <<workerVars, call, todo, awaiting, gen, controls, seen>>

Advance(w) ==
  \/ \E ok \in BOOLEAN : Open(w, ok) \/ PowerOff(w, ok)
  \/ Begin(w) \/ Unset(w) \/ Drain(w) \/ Exit(w)
Loop ==
  \/ \E found \in SUBSET Ports : Respawn(found)
  \/ \E p \in Ports : Send(p) \/ Collect(p) \/ Expire(p)
  \/ Clear \/ Return

Next ==
  \/ \E w \in Workers :
       Advance(w) \/ Serve(w) \/ Leave(w) \/ Report(w)
  \/ Loop \/ Handle \/ Restart \/ Call

Spec == Init /\ [][Next]_vars

\* Threads run; a read of a port returns within 100 ms, and a worker then sees
\* that it was stopped; the deadline comes.
Fairness ==
  /\ WF_vars(Loop)
  /\ \A w \in Workers : WF_vars(Advance(w) \/ (Stopped(w) /\ Leave(w)))

FairSpec == Spec /\ Fairness
-----------------------------------------------------------------------------
TypeOK ==
  /\ gen \in Generations /\ controls \subseteq Ports /\ connected \subseteq Ports
  /\ events \in Seq([from : Workers, kind : {"up", "down"}]) /\ Len(events) <= EventCap
  /\ pc \in [Workers -> {"off", "start", "open", "read", "power", "unset", "drain", "done"}]
  /\ decoder \in [Workers -> {"empty", "assigned"}]
  /\ control \in [Workers -> 0..MaxCalls] /\ serving \in [Workers -> 0..MaxCalls]
  /\ seen \subseteq Workers /\ app \in {"idle", "join", "clear", "call"}
  /\ call \in 0..MaxCalls /\ targets \subseteq Ports
  /\ todo \subseteq targets /\ awaiting \subseteq targets /\ ran \subseteq Ports
  /\ replies \in [Ports -> {"none", "zero", "sent", "error"}]
  /\ failed \in BOOLEAN /\ outcome \in {"none", "ok", "error"}

\* shutdown_trackers indexes the control channels with the connected ports, and
\* would panic if one were missing: the state of a port of an earlier
\* generation must never come back after a restart.
ControlsCoverPorts == connected \cup todo \subseteq controls

\* After a restart the registry holds no tracker, and the queue no event, of a
\* worker that has been stopped.
OnlyCurrentTrackers ==
  /\ app # "clear" => \A w \in seen : w[2] = gen
  /\ \A i \in 1..Len(events) : events[i].from[2] = gen

\* Inductive: only workers of the current generation run, each on a port with a
\* control channel; a restart has been granted its generation; between calls
\* nothing is left of the last one; and during a call every port is yet to be
\* asked, awaited, off, or a failure.
OnlyCurrentWorkers ==
  \A w \in Workers : pc[w] \notin {"off", "done"} => w[2] = gen /\ Port(w) \in controls
RestartsAreBounded == app = "join" => gen < MaxRestarts
NothingLeftOver ==
  app # "call" =>
    todo = {} /\ awaiting = {} /\ ~failed /\ replies = [p \in Ports |-> "none"]
EveryPortAccountedFor ==
  app = "call" =>
    /\ outcome = "none"
    /\ \A p \in targets : p \in todo \cup awaiting \/ failed \/ replies[p] \in {"zero", "sent"}
    /\ \A p \in targets : replies[p] \in {"zero", "sent"} => p \in ran


\* A port has at most one request of the call, in its channel or in its
\* worker's hands, and none once it is off or has answered.
UntouchedBy(p) == replies[p] = "none" /\ p \notin ran
OneRequestPerPort(p, w) ==
  /\ p \in todo => control[w] # call /\ serving[w] # call
  /\ control[w] = call => serving[w] # call
  /\ p \in todo \/ control[w] = call \/ serving[w] = call => UntouchedBy(p)
RequestsAreNoneOfTheFuture == \A w \in Workers : control[w] <= call /\ serving[w] <= call
OneRequestPerCall ==
  app = "call" => call # 0 /\ \A p \in Ports : OneRequestPerPort(p, <<p, gen>>)

IInv ==
  /\ TypeOK /\ OnlyCurrentWorkers /\ RestartsAreBounded /\ NothingLeftOver
  /\ EveryPortAccountedFor /\ ControlsCoverPorts /\ OnlyCurrentTrackers
  /\ RequestsAreNoneOfTheFuture /\ OneRequestPerCall

\* "Tracker shutdown commands sent" is only answered when every port that was
\* connected has carried out this very call, and some tracker was told.
OkMeansAllOff ==
  [][app = "call" /\ outcome' = "ok" =>
       targets \subseteq ran /\ \E p \in targets : replies[p] = "sent"]_vars

\* A call turns a tracker off at most once: a worker only turns to it during the
\* call, for a port whose reply is still waited for ("never execute a request
\* that timed out", read_port) and that has neither answered this call nor
\* carried it out, whatever requests of earlier calls were left in the channels.
\* A worker that has turned to it when the wait ends still carries it out.
OffOncePerCall ==
  [][\A w \in Workers : pc[w] # "power" /\ pc'[w] = "power" =>
       app = "call" /\ w[2] = gen /\ Port(w) \in awaiting /\ UntouchedBy(Port(w))]_vars

\* The application loop blocks on a restart and on a call: neither lasts for
\* ever, even when the queue is full and nobody empties it.
CallsEnd == (app # "idle") ~> (app = "idle")
=============================================================================
