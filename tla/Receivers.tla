------------------------------ MODULE Receivers ------------------------------
(***************************************************************************)
(* Who reads the receivers, and what becomes of a button.  Servers claim   *)
(* their control endpoint before they open a serial port (app.rs); the one *)
(* that serves opens it, decodes it and groups the clicks of a button into *)
(* gestures (haritorax/serial.rs, gx6.rs, bridge.rs).                      *)
(*                                                                         *)
(* SocketClaim says which server serves.  One that quits gives up the      *)
(* endpoint first and the port later; one that crashes, both at once.  The *)
(* trackers know nothing of servers: their button counters go on.  They    *)
(* may exchange their channels or their body parts at any time.            *)
(*                                                                         *)
(* Events are handled as they are sent, or dropped when their queue is     *)
(* full; Acquisition has that queue, the threads and the restart in full.  *)
(* The path is the control endpoint here; the hasty process stands for a   *)
(* SolarXR server that was given it by mistake.                            *)
(***************************************************************************)
EXTENDS SocketClaim, Decoder, Integers

CONSTANTS
  Trackers, Channels,
  FirstOn,      \* per channel: the tracker on it at first
  FirstId,      \* per tracker: its id at first
  FirstCount,   \* per tracker: its button counter at first
  Counts,       \* values of a button counter (16 in the code)
  MaxMoves      \* bound on what the user does

ASSUME ReceiverAssumption ==
  /\ FirstOn \in [Channels -> Trackers] /\ Counts \in Nat \ {0, 1}
  /\ FirstCount \in [Trackers -> 0..(Counts - 1)] /\ MaxMoves \in Nat
  \* each tracker is set to a body part of its own
  /\ FirstId \in [Trackers -> DOMAIN BodyPart]
  /\ \A t, u \in Trackers : BodyPart[FirstId[t]] = BodyPart[FirstId[u]] => t = u

VARIABLES
  reader,      \* the server instance, named by its socket, that has the port open
  decoder,
  seen,        \* the body parts in its registry
  clicks,      \* per body part: clicks not yet acted upon
  on, id, counter,     \* the trackers: their channels, ids and button counters
  moves,       \* presses and exchanges so far
  owed         \* history: per body part, what the user pressed and has not been acted upon

bridgeVars == <<seen, clicks>>
trackerVars == <<on, id, counter, moves>>
receiverVars == <<reader, decoder, bridgeVars, trackerVars, owed>>
allVars == <<vars, receiverVars>>

Part(t) == BodyPart[id[t]]
Parts == {BodyPart[FirstId[t]] : t \in Trackers}
Nothing == [n \in Parts |-> 0]

Serving(p) == p \in Careful /\ pc[p] = "serving"
Reading == \E p \in Careful : Serving(p) /\ own[p] = reader

InitAll ==
  /\ Init
  /\ reader = None /\ decoder = NewDecoder /\ seen = {} /\ clicks = Nothing
  /\ on = FirstOn /\ id = FirstId /\ counter = FirstCount
  /\ moves = 0 /\ owed = Nothing

(***************************************************************************)
(* Servers start and end (app.rs).                                         *)
(***************************************************************************)
Claim(p) ==
  /\ Launch(p) \/ Step(p)
  /\ UNCHANGED receiverVars

\* What the application loop knew is gone with it.
LoopGone ==
  seen' = {} /\ clicks' = Nothing /\ owed' = Nothing /\ decoder' = NewDecoder

End(p) == Quit(p) /\ LoopGone /\ UNCHANGED <<reader, trackerVars>>

Kill(p) ==
  /\ Crash(p)
  /\ reader' = IF own[p] = reader THEN None ELSE reader
  /\ IF Serving(p) THEN LoopGone ELSE UNCHANGED <<decoder, bridgeVars, owed>>
  /\ UNCHANGED trackerVars

\* Drop of the acquisition, once the endpoint has been given up.
Release ==
  /\ reader # None /\ \A p \in Processes : own[p] # reader
  /\ reader' = None
  /\ UNCHANGED <<vars, decoder, bridgeVars, trackerVars, owed>>

(***************************************************************************)
(* The worker of the port (serial.rs).                                     *)
(***************************************************************************)
\* A port is open once at a time; its decoder starts from nothing.
OpenPort(p) ==
  /\ Serving(p) /\ reader = None
  /\ reader' = own[p] /\ decoder' = NewDecoder /\ owed' = clicks
  /\ UNCHANGED <<vars, bridgeVars, trackerVars>>

\* emit, and Bridge::handle: the queue takes all of the events, or the first few
\* if it fills up.  Of those about a part the last says whether it is there; a
\* line holds one click at most.
News(events, n, part) == {i \in 1..n : events[i].kind # "button" /\ events[i].part = part}
Clicked(events, n, part) == \E i \in 1..n : events[i].kind = "button" /\ events[i].part = part

SeenAfter(events, n) ==
  {part \in seen \cup {events[i].part : i \in 1..n} :
     LET news == News(events, n, part) IN
     IF news = {} THEN part \in seen
     ELSE \E i \in news : (\A j \in news : j <= i) /\ events[i].kind # "disconnected"}

Read(line, n) ==
  /\ Reading /\ decoder' = line.decoder
  /\ seen' = SeenAfter(line.events, n)
  /\ clicks' = [part \in Parts |-> IF Clicked(line.events, n, part) THEN clicks[part] + 1 ELSE clicks[part]]
  /\ UNCHANGED <<vars, reader, trackerVars, owed>>

\* A tracker reports when a button is pressed, when it is asked, or of itself.
Reported(ch) == Report(decoder, ch, id[on[ch]], counter[on[ch]])
Samples(ch) == {Sample(decoder, ch, long) : long \in BOOLEAN}

HearReport(ch) == \E n \in 0..Len(Reported(ch).events) : Read(Reported(ch), n)
HearSample(ch) == \E line \in Samples(ch) : \E n \in 0..Len(line.events) : Read(line, n)

\* Every two seconds the channels that are missing are asked again.
Answered(ch) == ch \in decoder.missing /\ Read(Reported(ch), Len(Reported(ch).events))
Streamed(ch) == \E line \in Samples(ch) : Read(line, Len(line.events))

\* The port fails, and will be opened again.
Vanish(gone) ==
  /\ Reading /\ gone \subseteq Known(decoder)
  /\ reader' = None /\ decoder' = NewDecoder /\ seen' = seen \ gone
  /\ UNCHANGED <<vars, clicks, trackerVars, owed>>

(***************************************************************************)
(* The bridge and the application loop (bridge.rs, app.rs).                *)
(***************************************************************************)
\* take_actions: half a second has passed without another click of a part, and
\* their number becomes a command (a gesture of ControlLoop).
Act(n) ==
  /\ (\E p \in Careful : Serving(p)) /\ clicks[n] > 0
  /\ clicks' = [clicks EXCEPT ![n] = 0] /\ owed' = [owed EXCEPT ![n] = @ - clicks[n]]
  /\ UNCHANGED <<vars, reader, decoder, seen, trackerVars>>

\* The restart command: the port is closed and the bridge cleared.
Restart ==
  /\ (\E p \in Careful : Serving(p)) /\ LoopGone
  /\ reader' = IF Reading THEN None ELSE reader
  /\ UNCHANGED <<vars, trackerVars>>

(***************************************************************************)
(* The user.  To the decoder, a part that changes hands may look like one  *)
(* press of it, since counters are kept by part.                           *)
(***************************************************************************)
Moved == moves < MaxMoves /\ moves' = moves + 1
Owe(parts) == owed' = [n \in Parts |-> IF Reading /\ n \in parts THEN owed[n] + 1 ELSE owed[n]]

Press(t) ==
  /\ Moved
  /\ counter' = [counter EXCEPT ![t] = (@ + 1) % Counts] /\ Owe({Part(t)})
  /\ UNCHANGED <<vars, reader, decoder, bridgeVars, on, id>>

ExchangeChannels(c, d) ==
  /\ Moved
  /\ c # d /\ on' = [on EXCEPT ![c] = on[d], ![d] = on[c]]
  /\ UNCHANGED <<vars, reader, decoder, bridgeVars, id, counter, owed>>

ExchangeParts(t, u) ==
  /\ Moved
  /\ t # u /\ id' = [id EXCEPT ![t] = id[u], ![u] = id[t]] /\ Owe({Part(t), Part(u)})
  /\ UNCHANGED <<vars, reader, decoder, bridgeVars, on, counter>>

NextAll ==
  \/ \E p \in Processes : Claim(p) \/ End(p) \/ Kill(p) \/ OpenPort(p)
  \/ \E ch \in Channels : HearReport(ch) \/ HearSample(ch)
  \/ Release \/ Restart
  \/ \E gone \in SUBSET Known(decoder) : Vanish(gone)
  \/ \E n \in Parts : Act(n)
  \/ \E t \in Trackers : Press(t)
  \/ \E c, d \in Channels : ExchangeChannels(c, d)
  \/ \E t, u \in Trackers : ExchangeParts(t, u)

\* Servers as in SocketClaim; the old one lets go of the port and the new one
\* tries every two seconds; a tracker goes on sending samples, and one that is
\* asked again and again answers once.
FairnessAll ==
  /\ \A p \in Processes : WF_pc(Claim(p) /\ pc[p] # "off")
  /\ SF_pc(\E p \in Processes : Claim(p) /\ pc[p] = "off")
  /\ WF_reader(Release) /\ SF_reader(\E p \in Processes : OpenPort(p))
  /\ \A ch \in Channels : SF_<<decoder, seen>>(Streamed(ch)) /\ SF_decoder(Answered(ch))

SpecAll == InitAll /\ [][NextAll]_allVars /\ FairnessAll
-----------------------------------------------------------------------------
\* A gesture resets the user's calibration or stops the tracking: no click is
\* counted that the user has not made.  Not the counter of a tracker that was
\* used before the server, the port or the receiver came up, nor that of
\* another tracker on the channel.
ClicksWerePressed == \A n \in Parts : clicks[n] <= owed[n]

\* Inductive: each tracker has a body part of its own; the port is open to a
\* server that serves or to one that ends; the decoder names body parts; and a
\* counter which differs from the one last reported is a press that is owed and
\* not counted.
PartsAreDistinct ==
  /\ on \in [Channels -> Trackers] /\ DOMAIN counter = Trackers
  /\ id \in [Trackers -> DOMAIN BodyPart]
  /\ \A t \in Trackers : Part(t) \in Parts
  /\ \A t, u \in Trackers : Part(t) = Part(u) => t = u

ReaderHasServed ==
  /\ reader \in 0..sockets
  /\ \A p \in Processes : own[p] = reader /\ reader # None => pc[p] \in {"serving", "unlink", "close"}

IsDecoder(d) ==
  /\ d = [assigned |-> d.assigned, counters |-> d.counters, missing |-> d.missing]
  /\ \A ch \in DOMAIN d.assigned : \E c \in DOMAIN BodyPart : d.assigned[ch] = BodyPart[c]

PressesAreOwed ==
  /\ clicks \in [Parts -> Int] /\ owed \in [Parts -> Int]
  /\ IsDecoder(decoder)
  /\ Reading => \A t \in Trackers :
       Pressed(decoder, Part(t), counter[t]) => clicks[Part(t)] < owed[Part(t)]

ClicksInv == IInv /\ PartsAreDistinct /\ ReaderHasServed /\ PressesAreOwed /\ ClicksWerePressed

\* While a server serves, a tracker that sends samples is in its registry again
\* and again, whatever is lost: its first report, an event, the port, the
\* server before; and whichever trackers exchange their channels.
StreamingIsSeen ==
  \A ch \in Channels :
    <>[](\E p \in Careful : Serving(p)) =>
      []<>(ch \in DOMAIN decoder.assigned /\ decoder.assigned[ch] \in seen)
=============================================================================
