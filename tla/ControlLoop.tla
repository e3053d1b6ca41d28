----------------------------- MODULE ControlLoop -----------------------------
(***************************************************************************)
(* Commands: the control connections (control.rs), the bounded queue they  *)
(* share with gestures and the terminal UI, and the application loop       *)
(* (app.rs) that takes one command or one tick per iteration, publishes    *)
(* the status and only then answers.                                       *)
(*                                                                         *)
(* What a command does to the trackers, the calibration or the settings is *)
(* left to the other modules; here a command has an outcome, and shutdown  *)
(* ends the loop.  A step is what happens between two points where another *)
(* task can look.                                                          *)
(***************************************************************************)
EXTENDS Naturals, Sequences

CONSTANTS
  Clients,       \* control connections
  QueueCap,      \* capacity of the command queue (32 in the code)
  MaxCommands    \* bound on the commands sent over the run

ASSUME LoopAssumption == QueueCap \in Nat \ {0} /\ MaxCommands \in Nat

\* "other" stands for every command but shutdown; some of them can be refused.
Commands == {"other", "shutdown"}
Nobody == "nobody"

VARIABLES
  commands,   \* every command sent, in order; queue and log name them by place
  sender,     \* who waits for its answer: a client, or Nobody
  conn,       \* per client: "idle", "sending", "waiting" or "closed"
  mine,       \* per client: the command it waits for, 0 if none
  answer,     \* per client: its response, with the status it shows
  slot,       \* per client: the result sent back to it, or "none"
  queue,      \* commands sent and not yet taken
  pc,         \* where the loop is
  current,    \* the command it handles, 0 for a tick
  result,     \* its outcome
  log,        \* the commands handled so far, in order, with their outcomes
  status      \* how much of log the published snapshot shows

sendVars == <<commands, sender, conn, mine, answer, slot>>
loopVars == <<pc, current, result, log>>
vars == <<sendVars, queue, loopVars, status>>

NoAnswer == [to |-> 0, ok |-> FALSE, status |-> 0]
Running == pc # "stopped"

Init ==
  /\ commands = <<>> /\ sender = <<>>
  /\ conn = [c \in Clients |-> "idle"] /\ mine = [c \in Clients |-> 0]
  /\ answer = [c \in Clients |-> NoAnswer]
  /\ slot = [c \in Clients |-> "none"]
  /\ queue = <<>> /\ status = 0
  /\ pc = "select" /\ current = 0 /\ result = "ok" /\ log = <<>>

(***************************************************************************)
(* Control connections (serve).                                            *)
(***************************************************************************)
New(command, from) ==
  /\ Len(commands) < MaxCommands
  /\ commands' = Append(commands, command) /\ sender' = Append(sender, from)

\* A request waits for room in the queue, without a timeout.  (A status
\* request, or one that does not parse, is answered at once from the published
\* status and changes nothing.)
Request(c, command) ==
  /\ Running /\ conn[c] = "idle"
  /\ New(command, c)
  /\ mine' = [mine EXCEPT ![c] = Len(commands) + 1]
  /\ conn' = [conn EXCEPT ![c] = "sending"] /\ answer' = [answer EXCEPT ![c] = NoAnswer]
  /\ UNCHANGED <<slot, queue, loopVars, status>>

Enqueue(c) ==
  /\ Running /\ conn[c] = "sending" /\ Len(queue) < QueueCap
  /\ queue' = Append(queue, mine[c])
  /\ conn' = [conn EXCEPT ![c] = "waiting"]
  /\ UNCHANGED <<commands, sender, mine, answer, slot, loopVars, status>>

\* The answer has come.
Receive(c) ==
  /\ Running /\ conn[c] = "waiting" /\ slot[c] # "none"
  /\ answer' = [answer EXCEPT ![c] = [to |-> mine[c], ok |-> slot[c] = "ok", status |-> status]]
  /\ conn' = [conn EXCEPT ![c] = "idle"] /\ slot' = [slot EXCEPT ![c] = "none"]
  /\ mine' = [mine EXCEPT ![c] = 0]
  /\ UNCHANGED <<commands, sender, queue, loopVars, status>>

\* It has not come within five seconds: the connection is closed.  The command
\* stays in the queue and will be handled all the same.
Timeout(c) ==
  /\ Running /\ conn[c] = "waiting" /\ slot[c] = "none"
  /\ conn' = [conn EXCEPT ![c] = "closed"] /\ mine' = [mine EXCEPT ![c] = 0]
  /\ UNCHANGED <<commands, sender, answer, slot, queue, loopVars, status>>

\* The client connects again.
Reconnect(c) ==
  /\ Running /\ conn[c] = "closed"
  /\ conn' = [conn EXCEPT ![c] = "idle"]
  /\ UNCHANGED <<commands, sender, mine, answer, slot, queue, loopVars, status>>

(***************************************************************************)
(* The application loop.                                                   *)
(***************************************************************************)
\* A gesture (or a key of the terminal UI): dropped when the queue is full.
Gesture(command) ==
  /\ Running /\ Len(queue) < QueueCap
  /\ New(command, Nobody)
  /\ queue' = Append(queue, Len(commands) + 1)
  /\ UNCHANGED <<conn, mine, answer, slot, loopVars, status>>

TakeCommand ==
  /\ pc = "select" /\ queue # <<>>
  /\ current' = Head(queue) /\ queue' = Tail(queue) /\ pc' = "apply"
  /\ UNCHANGED <<sendVars, result, log, status>>

\* The command is carried out, or refused.  Without anybody to answer, nothing
\* is published until the next tick.
Apply(res) ==
  /\ pc = "apply" /\ (commands[current] = "shutdown" => res = "ok")
  /\ log' = Append(log, [command |-> current, ok |-> res = "ok"]) /\ result' = res
  /\ pc' = IF sender[current] = Nobody THEN "end" ELSE "publish"
  /\ UNCHANGED <<sendVars, queue, current, status>>

Tick ==
  /\ pc = "select" /\ pc' = "publish" /\ current' = 0
  /\ UNCHANGED <<sendVars, queue, result, log, status>>

PublishForReply ==  \* mutant: only answered commands publish
  /\ pc = "publish" /\ pc' = "reply"
  /\ status' = IF current = 0 THEN status ELSE Len(log)
  /\ UNCHANGED <<sendVars, queue, current, result, log>>
Publish ==
  /\ pc = "publish" /\ pc' = "reply"
  /\ status' = Len(log)
  /\ UNCHANGED <<sendVars, queue, current, result, log>>

\* The answer goes to the connection that sent the command, if it still waits.
ReplyToAny ==      \* mutant: it goes to whatever the client waits for now
  /\ pc = "reply" /\ pc' = "end"
  /\ slot' = IF current # 0 THEN [slot EXCEPT ![sender[current]] = result] ELSE slot
  /\ UNCHANGED <<commands, sender, conn, mine, answer, queue, current, result, log, status>>
Reply ==
  /\ pc = "reply" /\ pc' = "end"
  /\ slot' = [c \in Clients |->
                IF current # 0 /\ conn[c] = "waiting" /\ mine[c] = current
                  THEN result ELSE slot[c]]
  /\ UNCHANGED <<commands, sender, conn, mine, answer, queue, current, result, log, status>>

ShuttingDown == current # 0 /\ commands[current] = "shutdown"

EndIteration ==
  /\ pc = "end" /\ ~ShuttingDown
  /\ pc' = "select" /\ current' = 0 /\ result' = "ok"
  /\ UNCHANGED <<sendVars, queue, log, status>>

\* Shutdown, a signal or a service that has failed ends the loop, and every
\* connection with it; what is still queued is lost.
StopAlone(when) ==     \* mutant: the connections are left behind
  /\ pc = when /\ (when = "end" => ShuttingDown)
  /\ pc' = "stopped" /\ queue' = <<>>
  /\ UNCHANGED <<sendVars, current, result, log, status>>
Stop(when) ==
  /\ pc = when /\ (when = "end" => ShuttingDown)
  /\ pc' = "stopped" /\ queue' = <<>>
  /\ conn' = [c \in Clients |-> "closed"]
  /\ UNCHANGED <<commands, sender, mine, answer, slot, current, result, log, status>>

Next ==
  \/ \E c \in Clients :
       \/ \E command \in Commands : Request(c, command)
       \/ Enqueue(c) \/ Receive(c) \/ Timeout(c) \/ Reconnect(c)
  \/ \E command \in Commands : Gesture(command)
  \/ TakeCommand \/ Tick
  \/ \E res \in {"ok", "error"} : Apply(res)
  \/ Publish \/ Reply \/ EndIteration
  \/ \E when \in {"select", "end"} : Stop(when)

Spec == Init /\ [][Next]_vars

\* The loop's steps end, and its select! leaves no ready branch out for ever;
\* the queue serves those who wait for room in turn, and timers fire.
Fairness ==
  /\ SF_vars(TakeCommand) /\ SF_vars(Tick)
  /\ WF_vars((\E res \in {"ok", "error"} : Apply(res))
              \/ Publish \/ Reply \/ EndIteration \/ Stop("end"))
  /\ \A c \in Clients : SF_vars(Enqueue(c)) /\ WF_vars(Receive(c) \/ Timeout(c))

FairSpec == Spec /\ Fairness
-----------------------------------------------------------------------------
Numbers == 0..Len(commands)

TypeOK ==
  /\ commands \in Seq(Commands) /\ Len(commands) <= MaxCommands
  /\ sender \in Seq(Clients \cup {Nobody}) /\ Len(sender) = Len(commands)
  /\ conn \in [Clients -> {"idle", "sending", "waiting", "closed"}]
  /\ mine \in [Clients -> Numbers] /\ slot \in [Clients -> {"none", "ok", "error"}]
  /\ answer \in [Clients -> [to : Numbers, ok : BOOLEAN, status : 0..Len(log)]]
  /\ queue \in Seq(Numbers \ {0}) /\ Len(queue) <= QueueCap
  /\ pc \in {"select", "apply", "publish", "reply", "end", "stopped"}
  /\ current \in Numbers /\ result \in {"ok", "error"}
  /\ log \in Seq([command : Numbers \ {0}, ok : BOOLEAN]) /\ status \in 0..Len(log)

\* A response is the outcome of the very command the client sent, never that
\* of one it gave up on, and the status that comes with it is not older than
\* that command.
AnswersAreTheirs ==
  \A c \in Clients : answer[c].to # 0 =>
    \E i \in 1..answer[c].status :
      log[i] = [command |-> answer[c].to, ok |-> answer[c].ok]

\* Inductive: a client that sends or waits has a command; one that does not wait
\* has no result lying about; and what the loop is about to answer, and what a
\* client has been sent, is the outcome of its command, in the log and in the
\* published status.
Outcome(i, n, ok) == log[i] = [command |-> n, ok |-> ok]

WaitingForCommands == \A c \in Clients : conn[c] \in {"sending", "waiting"} => mine[c] # 0
HandlingCommands ==
  /\ pc = "apply" => current # 0
  /\ pc \in {"publish", "reply"} /\ current # 0 => log # <<>> /\ Outcome(Len(log), current, result = "ok")
  /\ pc = "reply" => status = Len(log)
SlotsAreTheirs ==
  Running => \A c \in Clients : slot[c] # "none" =>
    conn[c] = "waiting" /\ \E i \in 1..status : Outcome(i, mine[c], slot[c] = "ok")

IInv == TypeOK /\ WaitingForCommands /\ HandlingCommands /\ SlotsAreTheirs /\ AnswersAreTheirs

\* A command that entered the queue is handled and then shows in the published
\* status, whether or not anybody waits for it, unless the server stops.
Shown(n) == \E i \in 1..status : log[i].command = n
EveryCommandShows ==
  \A n \in 1..MaxCommands :
    (\E i \in 1..Len(queue) : queue[i] = n) ~> (Shown(n) \/ ~Running)

\* No client hangs: a request is answered or its connection closes, even when
\* the queue is full.
RequestsEnd ==
  \A c \in Clients :
    (conn[c] \in {"sending", "waiting"}) ~> (conn[c] \in {"idle", "closed"})
=============================================================================
