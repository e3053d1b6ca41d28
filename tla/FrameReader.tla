----------------------------- MODULE FrameReader -----------------------------
(***************************************************************************)
(* Reading length-prefixed frames from a local socket the way proxy.rs     *)
(* does: each connection has a reader task, which hands whole frames to    *)
(* the relay through a short queue.                                        *)
(*                                                                         *)
(* The client's bytes are numbered; a frame is its offset and its length,  *)
(* and a read is the interval of bytes it has taken.  The socket may pass  *)
(* any number of bytes at a time, and the client may stop anywhere.        *)
(***************************************************************************)
EXTENDS Naturals, Sequences

CONSTANTS
  HeaderLen,   \* bytes of the length prefix (4 in the code)
  Lens,        \* payload lengths a header can announce
  MaxLen,      \* the longest accepted payload
  Capacity,    \* frames the reader task may be ahead (4 in the code)
  MaxFrames    \* bound on the frames a client sends

ASSUME FramingAssumption ==
  /\ HeaderLen \in Nat \ {0} /\ Capacity \in Nat \ {0}
  /\ Lens \subseteq Nat /\ MaxLen \in Nat /\ MaxFrames \in Nat

VARIABLES
  frames,    \* the frames the client has begun, each [from, len]
  written,   \* bytes the client has written
  client,    \* "open" or "closed"
  start,     \* where the read in progress began
  pos,       \* bytes taken from the socket
  size,      \* payload length decoded from the header, or Unknown
  reader,    \* "reading", or ended by "eof" or "failed"
  queue,     \* frames between the reader and its user
  taken,     \* frames the user has handled
  ended      \* "no", "drained" (the stream is over) or "dropped" by the user

clientVars == <<frames, written, client>>
readVars == <<start, pos, size, reader>>
frameVars == <<clientVars, readVars, queue, taken, ended>>

Unknown == MaxLen + 1          \* no accepted length
Accepted(len) == len <= MaxLen
Valid(f) == Accepted(f.len)

\* Behind the header of a frame nobody accepts, nothing matters.
End(f) == f.from + HeaderLen + (IF Valid(f) THEN f.len ELSE 0)
Whole(f) == written >= End(f)
AllWhole == \A i \in 1..Len(frames) : Whole(frames[i])
Begun(at) == {i \in 1..Len(frames) : frames[i].from = at}

FramesInit ==
  /\ frames = <<>> /\ written = 0 /\ client = "open"
  /\ start = 0 /\ pos = 0 /\ size = Unknown /\ reader = "reading"
  /\ queue = <<>> /\ taken = <<>> /\ ended = "no"

(***************************************************************************)
(* The client writes header and payload, in pieces, and may close early.   *)
(***************************************************************************)
Begin(len) ==
  /\ client = "open" /\ Len(frames) < MaxFrames
  /\ AllWhole
  /\ frames' = Append(frames, [from |-> written, len |-> len])
  /\ UNCHANGED <<written, client, readVars, queue, taken, ended>>

Write ==
  /\ client = "open" /\ ~AllWhole
  /\ written' = written + 1
  /\ UNCHANGED <<frames, client, readVars, queue, taken, ended>>

CloseClient ==
  /\ client = "open" /\ client' = "closed"
  /\ UNCHANGED <<frames, written, readVars, queue, taken, ended>>

(***************************************************************************)
(* read_frame / read_message.                                              *)
(***************************************************************************)
Polled == reader = "reading" /\ ended = "no"

HeaderRead == pos - start >= HeaderLen
Complete == size # Unknown /\ pos - start = HeaderLen + size

\* The lengths a header can decode to.  A header that begins where no frame
\* does is made of other bytes, and can announce any length.
Decoded ==
  IF Begun(start) # {} THEN {frames[i].len : i \in Begun(start)} ELSE Lens

\* Mutant: the prefix counts as part of the payload.
ReadByteOff ==
  /\ Polled /\ pos < written /\ ~Complete
  /\ pos' = pos + 1
  /\ IF pos' - start = HeaderLen
       THEN \E len \in Decoded : size' = (IF Accepted(len) THEN (IF len > 0 THEN len - 1 ELSE 0) ELSE Unknown)
       ELSE UNCHANGED size
  /\ reader' = IF pos' - start = HeaderLen /\ size' = Unknown THEN "failed" ELSE reader
  /\ UNCHANGED <<clientVars, start, queue, taken, ended>>

\* One more byte; the last one of the header fixes the length or ends the
\* connection.
ReadByte ==
  /\ Polled /\ pos < written /\ ~Complete
  /\ pos' = pos + 1
  /\ IF pos' - start = HeaderLen
       THEN \E len \in Decoded : size' = (IF Accepted(len) THEN len ELSE Unknown)
       ELSE UNCHANGED size
  /\ reader' = IF pos' - start = HeaderLen /\ size' = Unknown THEN "failed" ELSE reader
  /\ UNCHANGED <<clientVars, start, queue, taken, ended>>

\* A whole frame is handed over, as soon as there is room.
DeliverIfRoom ==        \* mutant: a frame that finds the queue full is dropped
  /\ Polled /\ Complete
  /\ queue' = IF Len(queue) < Capacity
                THEN Append(queue, [from |-> start, len |-> size]) ELSE queue
  /\ start' = pos /\ size' = Unknown
  /\ UNCHANGED <<clientVars, pos, reader, taken, ended>>
Deliver ==
  /\ Polled /\ Complete
  /\ Len(queue) < Capacity
  /\ queue' = Append(queue, [from |-> start, len |-> size])
  /\ start' = pos /\ size' = Unknown
  /\ UNCHANGED <<clientVars, pos, reader, taken, ended>>

\* End of file: clean before the first byte of a header, an error elsewhere.
Eof ==
  /\ Polled /\ client = "closed" /\ pos = written /\ ~Complete
  /\ reader' = IF pos = start THEN "eof" ELSE "failed"
  /\ UNCHANGED <<clientVars, start, pos, size, queue, taken, ended>>

(***************************************************************************)
(* The user of the connection.                                             *)
(***************************************************************************)
Take ==
  /\ ended = "no" /\ queue # <<>>
  /\ taken' = Append(taken, Head(queue)) /\ queue' = Tail(queue)
  /\ UNCHANGED <<clientVars, readVars, ended>>

Finish ==
  /\ ended = "no" /\ queue = <<>> /\ reader # "reading"
  /\ ended' = "drained"
  /\ UNCHANGED <<clientVars, readVars, queue, taken>>

\* The user ends for a reason of its own: a failed write, a rejected frame.
DropReader ==
  /\ ended = "no" /\ ended' = "dropped"
  /\ UNCHANGED <<clientVars, readVars, queue, taken>>

FramesNext ==
  \/ \E len \in Lens : Begin(len)
  \/ Write \/ CloseClient
  \/ ReadByte \/ Deliver \/ Eof
  \/ Take \/ Finish \/ DropReader

FramesSpec == FramesInit /\ [][FramesNext]_frameVars

\* The reader and its user are tasks that keep running.
FramesFairness ==
  /\ WF_frameVars(ReadByte) /\ WF_frameVars(Deliver) /\ WF_frameVars(Eof)
  /\ WF_frameVars(Take) /\ WF_frameVars(Finish)

FramesFairSpec == FramesSpec /\ FramesFairness
-----------------------------------------------------------------------------
MaxBytes == MaxFrames * (HeaderLen + MaxLen)

FramesTypeOK ==
  /\ frames \in Seq([from : 0..MaxBytes, len : Lens]) /\ Len(frames) <= MaxFrames
  /\ written \in 0..MaxBytes /\ pos \in 0..written /\ start \in 0..pos
  /\ size \in 0..Unknown
  /\ client \in {"open", "closed"} /\ reader \in {"reading", "eof", "failed"}
  /\ ended \in {"no", "drained", "dropped"}
  /\ queue \in Seq([from : 0..MaxBytes, len : Lens]) /\ Len(queue) <= Capacity
  /\ taken \in Seq([from : 0..MaxBytes, len : Lens])

\* Every frame handed to the user is the next frame of the client, whole: no
\* fragmentation makes bytes of one frame pass for another (the reason proxy.rs
\* gives for its reader task).
FramesIntact ==
  /\ Len(taken) <= Len(frames)
  /\ \A i \in 1..Len(taken) : taken[i] = frames[i] /\ Whole(frames[i])

\* Inductive: the client's frames follow each other without a gap; what has been
\* handed over is a prefix of them, valid and whole, and ends where the read in
\* progress starts; and a size is only known when it is that of the next frame.
BytesOf(n) == n * (HeaderLen + MaxLen)
FramesInARow ==
  /\ frames = <<>> => written = 0
  /\ frames # <<>> => frames[1].from = 0 /\ written <= End(frames[Len(frames)])
  /\ \A i \in 1..Len(frames) :
       /\ End(frames[i]) <= BytesOf(i)
       /\ i < Len(frames) => frames[i + 1].from = End(frames[i])
       /\ \A j \in 1..Len(frames) : i < j => End(frames[i]) <= frames[j].from
Handed == Len(taken) + Len(queue)
HandedAreNext ==
  /\ Handed <= Len(frames)
  /\ \A i \in 1..Handed : Valid(frames[i]) /\ Whole(frames[i])
  /\ \A i \in 1..Len(taken) : taken[i] = frames[i]
  /\ \A i \in 1..Len(queue) : queue[i] = frames[Len(taken) + i]
  /\ start = IF Handed = 0 THEN 0 ELSE End(frames[Handed])
ReadIsAligned ==
  /\ size # Unknown =>
       /\ Handed < Len(frames) /\ size = frames[Handed + 1].len
       /\ start + HeaderLen <= pos /\ pos <= start + HeaderLen + size
  /\ size = Unknown /\ reader = "reading" => pos < start + HeaderLen

FramesIInv == FramesTypeOK /\ FramesInARow /\ HandedAreNext /\ ReadIsAligned

\* The connection is a FrameChannel.
Channel ==
  INSTANCE FrameChannel WITH Frame <- [from : 0..MaxBytes, len : Lens],
                             sent <- frames, received <- taken
IsChannel == Channel!Spec

\* Every frame the client completes before it closes, breaks off or sends an
\* invalid length is handled in the end, unless the user goes first.
Deliverable(n) == \A i \in 1..n : Valid(frames[i]) /\ Whole(frames[i])
AllHandled ==
  \A n \in 1..MaxFrames :
    (n <= Len(frames) /\ Deliverable(n)) ~> (Len(taken) >= n \/ ended = "dropped")
=============================================================================
