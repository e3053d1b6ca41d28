--------------------------- MODULE ControlLoopProofs ----------------------------
(***************************************************************************)
(* That an answer is the outcome of the command it was asked for, and that *)
(* the status which comes with it shows it, for any number of clients and  *)
(* commands, a queue of any length and time-outs anywhere.                 *)
(***************************************************************************)
EXTENDS ControlLoop, SequenceTheorems, TLAPS

\* Nothing has been asked or answered at first.
LEMMA InitIInv == Init => IInv
BY LoopAssumption
   DEF Init, IInv, TypeOK, WaitingForCommands, HandlingCommands, SlotsAreTheirs, AnswersAreTheirs,
       Commands, Nobody, Numbers, NoAnswer, Running

\* A new command has the next number, and the others keep theirs.
LEMMA NewCommand ==
  ASSUME TypeOK, NEW command \in Commands, NEW from \in Clients \cup {Nobody}, New(command, from)
  PROVE  /\ commands' \in Seq(Commands) /\ Len(commands') \in Nat /\ Len(commands') <= MaxCommands
         /\ sender' \in Seq(Clients \cup {Nobody}) /\ Len(sender') = Len(commands')
         /\ Numbers \subseteq Numbers' /\ Len(commands) + 1 \in Numbers' \ {0}
<1>1. /\ commands \in Seq(Commands) /\ sender \in Seq(Clients \cup {Nobody})
      /\ Len(sender) = Len(commands) /\ Len(commands) < MaxCommands /\ MaxCommands \in Nat
      /\ commands' = Append(commands, command) /\ sender' = Append(sender, from)
  BY LoopAssumption DEF TypeOK, New
<1>2. Len(commands) \in Nat /\ Len(commands') = Len(commands) + 1 /\ Len(sender') = Len(sender) + 1
  BY <1>1
<1>3. commands' \in Seq(Commands) /\ sender' \in Seq(Clients \cup {Nobody})
  BY <1>1
<1>4. QED
  BY <1>1, <1>2, <1>3 DEF Numbers

\* What is queued and logged stays well typed.
LEMMA KeptTypes ==
  ASSUME TypeOK, Numbers \subseteq Numbers'
  PROVE  queue \in Seq(Numbers' \ {0}) /\ log \in Seq([command : Numbers' \ {0}, ok : BOOLEAN])
<1>1. queue \in Seq(Numbers \ {0}) /\ log \in Seq([command : Numbers \ {0}, ok : BOOLEAN])
  BY DEF TypeOK
<1>2. /\ Numbers \ {0} \subseteq Numbers' \ {0}
      /\ [command : Numbers \ {0}, ok : BOOLEAN] \subseteq [command : Numbers' \ {0}, ok : BOOLEAN]
  OBVIOUS
<1>3. QED
  BY <1>1, <1>2, SeqMonotonic

\* A client sends a request, or a gesture a command of nobody.
LEMMA RequestIInv ==
  ASSUME IInv, NEW c \in Clients, NEW command \in Commands, Request(c, command)
  PROVE  IInv'
<1>1. /\ Running /\ conn[c] = "idle"
      /\ New(command, c)
      /\ mine' = [mine EXCEPT ![c] = Len(commands) + 1]
      /\ conn' = [conn EXCEPT ![c] = "sending"] /\ answer' = [answer EXCEPT ![c] = NoAnswer]
      /\ UNCHANGED <<slot, queue, pc, current, result, log, status>>
  BY DEF Request, loopVars
<1>2. /\ commands' \in Seq(Commands) /\ Len(commands') \in Nat /\ Len(commands') <= MaxCommands
      /\ sender' \in Seq(Clients \cup {Nobody}) /\ Len(sender') = Len(commands')
      /\ Numbers \subseteq Numbers' /\ Len(commands) + 1 \in Numbers' \ {0} /\ 0 \in Numbers
  BY <1>1, NewCommand DEF IInv, TypeOK, Numbers
<1>3. TypeOK'
  <2>1. mine' \in [Clients -> Numbers'] /\ conn' \in [Clients -> {"idle", "sending", "waiting", "closed"}]
    BY <1>1, <1>2 DEF IInv, TypeOK
  <2>2. answer' \in [Clients -> [to : Numbers', ok : BOOLEAN, status : 0..Len(log')]]
    <3>1. NoAnswer \in [to : Numbers', ok : BOOLEAN, status : 0..Len(log')]
      BY <1>1, <1>2 DEF NoAnswer, IInv, TypeOK
    <3>2. answer \in [Clients -> [to : Numbers', ok : BOOLEAN, status : 0..Len(log')]]
      BY <1>1, <1>2 DEF IInv, TypeOK
    <3>3. QED
      BY <1>1, <3>1, <3>2
  <2>3. queue' \in Seq(Numbers' \ {0}) /\ log' \in Seq([command : Numbers' \ {0}, ok : BOOLEAN])
    BY <1>1, <1>2, KeptTypes DEF IInv
  <2>4. QED
    BY <1>1, <1>2, <2>1, <2>2, <2>3 DEF IInv, TypeOK
<1>4. WaitingForCommands'
  BY <1>1, <1>2 DEF IInv, TypeOK, WaitingForCommands
<1>5. HandlingCommands'
  BY <1>1 DEF IInv, HandlingCommands, Outcome
<1>6. SlotsAreTheirs'
  BY <1>1 DEF IInv, TypeOK, SlotsAreTheirs, Outcome, Running
<1>7. AnswersAreTheirs'
  BY <1>1 DEF IInv, TypeOK, AnswersAreTheirs, NoAnswer
<1>8. QED
  BY <1>3, <1>4, <1>5, <1>6, <1>7 DEF IInv

\* It waits for room, and then for the answer.
LEMMA EnqueueIInv ==
  ASSUME IInv, NEW c \in Clients, Enqueue(c)
  PROVE  IInv'
<1>1. /\ Running /\ conn[c] = "sending" /\ Len(queue) < QueueCap
      /\ queue' = Append(queue, mine[c])
      /\ conn' = [conn EXCEPT ![c] = "waiting"]
      /\ UNCHANGED <<commands, sender, mine, answer, slot, pc, current, result, log, status>>
  BY DEF Enqueue, loopVars
<1>2. TypeOK'
  <2>1. mine[c] \in Numbers \ {0} /\ queue \in Seq(Numbers \ {0}) /\ QueueCap \in Nat
    BY <1>1, LoopAssumption DEF IInv, TypeOK, WaitingForCommands
  <2>2. queue' \in Seq(Numbers \ {0}) /\ Len(queue') <= QueueCap
    BY <1>1, <2>1
  <2>3. QED
    BY <1>1, <2>2 DEF IInv, TypeOK, Numbers
<1>3. WaitingForCommands'
  BY <1>1 DEF IInv, TypeOK, WaitingForCommands
<1>4. HandlingCommands'
  BY <1>1 DEF IInv, HandlingCommands, Outcome
<1>5. SlotsAreTheirs'
  BY <1>1 DEF IInv, TypeOK, SlotsAreTheirs, Outcome, Running
<1>6. AnswersAreTheirs'
  BY <1>1 DEF IInv, AnswersAreTheirs
<1>7. QED
  BY <1>2, <1>3, <1>4, <1>5, <1>6 DEF IInv

\* The answer arrives with the status, which shows the command.
LEMMA ReceiveIInv ==
  ASSUME IInv, NEW c \in Clients, Receive(c)
  PROVE  IInv'
<1>1. /\ Running /\ conn[c] = "waiting" /\ slot[c] # "none"
      /\ answer' = [answer EXCEPT ![c] = [to |-> mine[c], ok |-> slot[c] = "ok", status |-> status]]
      /\ conn' = [conn EXCEPT ![c] = "idle"] /\ slot' = [slot EXCEPT ![c] = "none"]
      /\ mine' = [mine EXCEPT ![c] = 0]
      /\ UNCHANGED <<commands, sender, queue, pc, current, result, log, status>>
  BY DEF Receive, loopVars
<1>2. TypeOK'
  <2>1. [to |-> mine[c], ok |-> slot[c] = "ok", status |-> status] \in
          [to : Numbers, ok : BOOLEAN, status : 0..Len(log)]
    BY DEF IInv, TypeOK
  <2>2. answer' \in [Clients -> [to : Numbers, ok : BOOLEAN, status : 0..Len(log)]]
    BY <1>1, <2>1 DEF IInv, TypeOK
  <2>3. mine' \in [Clients -> Numbers]
    BY <1>1 DEF IInv, TypeOK, Numbers
  <2>4. QED
    BY <1>1, <2>2, <2>3 DEF IInv, TypeOK, Numbers
<1>3. WaitingForCommands'
  BY <1>1 DEF IInv, TypeOK, WaitingForCommands
<1>4. HandlingCommands'
  BY <1>1 DEF IInv, HandlingCommands, Outcome
<1>5. SlotsAreTheirs'
  BY <1>1 DEF IInv, TypeOK, SlotsAreTheirs, Outcome, Running
<1>6. AnswersAreTheirs'
  <2>1. \E i \in 1..status : Outcome(i, mine[c], slot[c] = "ok")
    BY <1>1 DEF IInv, SlotsAreTheirs
  <2>2. /\ answer'[c].to = mine[c] /\ answer'[c].ok = (slot[c] = "ok") /\ answer'[c].status = status
        /\ \A d \in Clients : d # c => answer'[d] = answer[d]
    BY <1>1 DEF IInv, TypeOK
  <2>3. QED
    BY <1>1, <2>1, <2>2 DEF IInv, AnswersAreTheirs, Outcome
<1>7. QED
  BY <1>2, <1>3, <1>4, <1>5, <1>6 DEF IInv

\* A connection gives up, or is made again.
LEMMA TimeoutIInv ==
  ASSUME IInv, NEW c \in Clients, Timeout(c) \/ Reconnect(c)
  PROVE  IInv'
<1>1. /\ Running /\ slot[c] = "none"
      /\ \E state \in {"closed", "idle"} : conn' = [conn EXCEPT ![c] = state]
      /\ mine' = [mine EXCEPT ![c] = 0] \/ mine' = mine
      /\ UNCHANGED <<commands, sender, answer, slot, queue, pc, current, result, log, status>>
  BY DEF Timeout, Reconnect, loopVars, IInv, SlotsAreTheirs
<1>2. TypeOK'
  <2>1. mine' \in [Clients -> Numbers]
    <3>1. 0 \in Numbers /\ mine \in [Clients -> Numbers]
      BY LenProperties DEF IInv, TypeOK, Numbers
    <3>2. QED
      BY <1>1, <3>1
  <2>2. conn' \in [Clients -> {"idle", "sending", "waiting", "closed"}]
    BY <1>1 DEF IInv, TypeOK
  <2>3. Numbers' = Numbers
    BY <1>1 DEF Numbers
  <2>4. QED
    BY <1>1, <2>1, <2>2, <2>3 DEF IInv, TypeOK
<1>3. WaitingForCommands'
  BY <1>1 DEF IInv, TypeOK, WaitingForCommands
<1>4. HandlingCommands'
  BY <1>1 DEF IInv, HandlingCommands, Outcome
<1>5. SlotsAreTheirs'
  BY <1>1 DEF IInv, TypeOK, SlotsAreTheirs, Outcome, Running
<1>6. AnswersAreTheirs'
  BY <1>1 DEF IInv, AnswersAreTheirs
<1>7. QED
  BY <1>2, <1>3, <1>4, <1>5, <1>6 DEF IInv

\* Nobody waits for what a gesture asks.
LEMMA GestureIInv ==
  ASSUME IInv, NEW command \in Commands, Gesture(command)
  PROVE  IInv'
<1>1. /\ Running /\ Len(queue) < QueueCap
      /\ New(command, Nobody)
      /\ queue' = Append(queue, Len(commands) + 1)
      /\ UNCHANGED <<conn, mine, answer, slot, pc, current, result, log, status>>
  BY DEF Gesture, loopVars
<1>2. /\ commands' \in Seq(Commands) /\ Len(commands') \in Nat /\ Len(commands') <= MaxCommands
      /\ sender' \in Seq(Clients \cup {Nobody}) /\ Len(sender') = Len(commands')
      /\ Numbers \subseteq Numbers' /\ Len(commands) + 1 \in Numbers' \ {0}
  BY <1>1, NewCommand DEF IInv
<1>3. TypeOK'
  <2>1. queue \in Seq(Numbers' \ {0}) /\ log' \in Seq([command : Numbers' \ {0}, ok : BOOLEAN])
    BY <1>1, <1>2, KeptTypes DEF IInv
  <2>2. queue' \in Seq(Numbers' \ {0}) /\ Len(queue') <= QueueCap
    BY <1>1, <1>2, <2>1, LoopAssumption
  <2>3. /\ mine' \in [Clients -> Numbers'] /\ current' \in Numbers'
        /\ answer' \in [Clients -> [to : Numbers', ok : BOOLEAN, status : 0..Len(log')]]
    BY <1>1, <1>2 DEF IInv, TypeOK
  <2>4. QED
    BY <1>1, <1>2, <2>1, <2>2, <2>3 DEF IInv, TypeOK
<1>4. WaitingForCommands' /\ HandlingCommands' /\ SlotsAreTheirs' /\ AnswersAreTheirs'
  BY <1>1 DEF IInv, WaitingForCommands, HandlingCommands, SlotsAreTheirs, AnswersAreTheirs, Outcome, Running
<1>5. QED
  BY <1>3, <1>4 DEF IInv

\* The loop takes a command, or a tick.
LEMMA TakeIInv ==
  ASSUME IInv, TakeCommand \/ Tick
  PROVE  IInv'
<1>1. /\ UNCHANGED <<commands, sender, conn, mine, answer, slot, result, log, status>>
      /\ pc = "select"
      /\ \/ queue # <<>> /\ current' = Head(queue) /\ queue' = Tail(queue) /\ pc' = "apply"
         \/ current' = 0 /\ queue' = queue /\ pc' = "publish"
  BY DEF TakeCommand, Tick, sendVars
<1>2. queue' \in Seq(Numbers \ {0}) /\ Len(queue') <= QueueCap /\ current' \in Numbers
  <2>1. queue \in Seq(Numbers \ {0}) /\ Len(queue) <= QueueCap /\ 0 \in Numbers /\ QueueCap \in Nat
    BY LoopAssumption DEF IInv, TypeOK, Numbers
  <2>2. QED
    BY <1>1, <2>1
<1>3. pc' = "apply" => current' # 0
  BY <1>1 DEF IInv, TypeOK
<1>4. TypeOK'
  BY <1>1, <1>2 DEF IInv, TypeOK, Numbers
<1>5. WaitingForCommands' /\ HandlingCommands'
  BY <1>1, <1>3 DEF IInv, WaitingForCommands, HandlingCommands
<1>6. SlotsAreTheirs' /\ AnswersAreTheirs'
  BY <1>1 DEF IInv, SlotsAreTheirs, AnswersAreTheirs, Outcome, Running
<1>7. QED
  BY <1>4, <1>5, <1>6 DEF IInv

\* The command is carried out or refused, and the log says so at its end.
LEMMA ApplyIInv ==
  ASSUME IInv, NEW res \in {"ok", "error"}, Apply(res)
  PROVE  IInv'
<1> DEFINE entry == [command |-> current, ok |-> res = "ok"]
<1>1. /\ pc = "apply" /\ log' = Append(log, entry) /\ result' = res /\ pc' \in {"end", "publish"}
      /\ UNCHANGED <<commands, sender, conn, mine, answer, slot, queue, current, status>>
  BY DEF Apply, sendVars
<1>2. entry \in [command : Numbers \ {0}, ok : BOOLEAN]
  BY <1>1 DEF IInv, TypeOK, HandlingCommands
<1>3. log \in Seq([command : Numbers \ {0}, ok : BOOLEAN]) /\ status \in 0..Len(log)
  BY DEF IInv, TypeOK
<1> HIDE DEF entry
<1>4. /\ log' \in Seq([command : Numbers \ {0}, ok : BOOLEAN]) /\ Len(log') = Len(log) + 1
      /\ log'[Len(log')] = entry /\ \A i \in 1..Len(log) : log'[i] = log[i]
      /\ Len(log) \in Nat
  BY <1>1, <1>2, <1>3
<1>5. TypeOK'
  <2>1. answer' \in [Clients -> [to : Numbers, ok : BOOLEAN, status : 0..Len(log')]]
    BY <1>1, <1>4 DEF IInv, TypeOK
  <2>2. status' \in 0..Len(log')
    BY <1>1, <1>3, <1>4
  <2>3. QED
    BY <1>1, <1>4, <2>1, <2>2 DEF IInv, TypeOK, Numbers
<1>6. WaitingForCommands'
  BY <1>1 DEF IInv, WaitingForCommands
<1>7. HandlingCommands'
  BY <1>1, <1>4 DEF HandlingCommands, Outcome, entry
<1>8. SlotsAreTheirs'
  BY <1>1, <1>3, <1>4 DEF IInv, SlotsAreTheirs, Outcome, Running
<1>9. AnswersAreTheirs'
  BY <1>1, <1>4 DEF IInv, TypeOK, AnswersAreTheirs
<1>10. QED
  BY <1>5, <1>6, <1>7, <1>8, <1>9 DEF IInv

\* The status is published, and shows all that has been handled.
LEMMA PublishIInv == ASSUME IInv, Publish PROVE IInv'
<1>1. /\ pc = "publish" /\ pc' = "reply" /\ status' = Len(log)
      /\ UNCHANGED <<commands, sender, conn, mine, answer, slot, queue, current, result, log>>
  BY DEF Publish, sendVars
<1>2. status \in 0..Len(log) /\ Len(log) \in Nat
  BY DEF IInv, TypeOK
<1>3. TypeOK'
  BY <1>1, <1>2 DEF IInv, TypeOK, Numbers
<1>4. WaitingForCommands' /\ HandlingCommands'
  BY <1>1 DEF IInv, WaitingForCommands, HandlingCommands, Outcome
<1>5. SlotsAreTheirs'
  BY <1>1, <1>2 DEF IInv, SlotsAreTheirs, Outcome, Running
<1>6. AnswersAreTheirs'
  BY <1>1 DEF IInv, AnswersAreTheirs
<1>7. QED
  BY <1>3, <1>4, <1>5, <1>6 DEF IInv

\* The answer goes to the client that still waits for this command, which is
\* the last one in the log and shows.
LEMMA ReplyIInv == ASSUME IInv, Reply PROVE IInv'
<1>1. /\ pc = "reply" /\ pc' = "end"
      /\ slot' = [c \in Clients |->
                    IF current # 0 /\ conn[c] = "waiting" /\ mine[c] = current THEN result ELSE slot[c]]
      /\ UNCHANGED <<commands, sender, conn, mine, answer, queue, current, result, log, status>>
  BY DEF Reply
<1>2. TypeOK'
  BY <1>1 DEF IInv, TypeOK, Numbers
<1>3. WaitingForCommands' /\ HandlingCommands'
  BY <1>1 DEF IInv, WaitingForCommands, HandlingCommands, Outcome
<1>4. SlotsAreTheirs'
  <2>1. ASSUME NEW c \in Clients, slot'[c] # "none"
        PROVE  conn[c] = "waiting" /\ \E i \in 1..status : Outcome(i, mine[c], slot'[c] = "ok")
    <3>1. CASE current # 0 /\ conn[c] = "waiting" /\ mine[c] = current
      <4>1. Outcome(Len(log), current, result = "ok") /\ status = Len(log) /\ log # <<>>
        BY <1>1, <3>1 DEF IInv, HandlingCommands
      <4>2. Len(log) \in 1..status
        BY <4>1 DEF IInv, TypeOK
      <4>3. QED
        BY <1>1, <3>1, <4>1, <4>2
    <3>2. CASE ~(current # 0 /\ conn[c] = "waiting" /\ mine[c] = current)
      BY <1>1, <2>1, <3>2 DEF IInv, SlotsAreTheirs, Running
    <3>3. QED
      BY <3>1, <3>2
  <2>2. QED
    BY <1>1, <2>1 DEF SlotsAreTheirs, Outcome
<1>5. AnswersAreTheirs'
  BY <1>1 DEF IInv, AnswersAreTheirs
<1>6. QED
  BY <1>2, <1>3, <1>4, <1>5 DEF IInv

\* The iteration ends, and sometimes the loop.
LEMMA EndIInv ==
  ASSUME IInv, EndIteration \/ \E when \in {"select", "end"} : Stop(when)
  PROVE  IInv'
<1>1. CASE EndIteration
  <2>1. /\ pc' = "select" /\ current' = 0 /\ result' = "ok"
        /\ UNCHANGED <<commands, sender, conn, mine, answer, slot, queue, log, status>> /\ pc = "end"
    BY <1>1 DEF EndIteration, sendVars
  <2>2. TypeOK'
    BY <2>1 DEF IInv, TypeOK, Numbers
  <2>3. WaitingForCommands' /\ HandlingCommands' /\ SlotsAreTheirs' /\ AnswersAreTheirs'
    BY <2>1 DEF IInv, WaitingForCommands, HandlingCommands, SlotsAreTheirs, AnswersAreTheirs, Outcome, Running
  <2>4. QED
    BY <2>2, <2>3 DEF IInv
<1>2. ASSUME NEW when \in {"select", "end"}, Stop(when) PROVE IInv'
  <2>1. /\ pc' = "stopped" /\ queue' = <<>> /\ conn' = [c \in Clients |-> "closed"]
        /\ UNCHANGED <<commands, sender, mine, answer, slot, current, result, log, status>>
    BY <1>2 DEF Stop
  <2>2. TypeOK'
    BY <2>1, LoopAssumption DEF IInv, TypeOK, Numbers
  <2>3. WaitingForCommands' /\ HandlingCommands' /\ SlotsAreTheirs' /\ AnswersAreTheirs'
    BY <2>1 DEF IInv, WaitingForCommands, HandlingCommands, SlotsAreTheirs, AnswersAreTheirs, Running
  <2>4. QED
    BY <2>2, <2>3 DEF IInv
<1>3. QED
  BY <1>1, <1>2

\* Every step preserves the inductive invariant.
LEMMA NextIInv == ASSUME IInv, [Next]_vars PROVE IInv'
<1>1. CASE UNCHANGED vars
  BY <1>1 DEF vars, sendVars, loopVars, IInv, TypeOK, Numbers, WaitingForCommands, HandlingCommands,
              SlotsAreTheirs, AnswersAreTheirs, Outcome, Running
<1>2. QED
  BY <1>1, RequestIInv, EnqueueIInv, ReceiveIInv, TimeoutIInv, GestureIInv, TakeIInv, ApplyIInv,
     PublishIInv, ReplyIInv, EndIInv DEF Next

\* The inductive invariant holds in every reachable state.
THEOREM Invariance == Spec => []IInv
BY InitIInv, NextIInv, PTL DEF Spec

\* A response is the outcome of the command the client sent and still waited
\* for, and the status that comes with it shows the command.
THEOREM AnswersFit == Spec => []AnswersAreTheirs
<1>1. IInv => AnswersAreTheirs
  BY DEF IInv
<1>2. QED
  BY <1>1, Invariance, PTL
=============================================================================
