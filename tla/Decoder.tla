------------------------------- MODULE Decoder -------------------------------
(***************************************************************************)
(* The decoder of a HaritoraX receiver (haritorax/gx6.rs): what it         *)
(* remembers of its channels and what it makes of a line.  A receiver has  *)
(* numbered channels; a tracker is known by the channel it arrives on and, *)
(* once it has reported, by a body part.                                   *)
(*                                                                         *)
(* An operator that reads a line returns the new decoder and the events in *)
(* order.  Left out: the sub button, whose events the bridge ignores, a    *)
(* report without a counter, the battery, and the settings, which only a   *)
(* power-off needs.                                                        *)
(***************************************************************************)
EXTENDS Naturals, Sequences, TLC

BodyPart ==
  "1" :> "chest" @@ "2" :> "leftKnee" @@ "3" :> "leftAnkle" @@ "4" :> "rightKnee" @@
  "5" :> "rightAnkle" @@ "6" :> "hip" @@ "7" :> "leftElbow" @@ "8" :> "rightElbow" @@
  "9" :> "leftWrist" @@ "a" :> "rightWrist" @@ "b" :> "head" @@ "c" :> "leftFoot" @@ "d" :> "rightFoot"

\* A leg tracker carries a second sensor on the thigh.
Thigh == [leftAnkle |-> "leftKnee", rightAnkle |-> "rightKnee"]
WithThigh(part) == {part} \cup (IF part \in DOMAIN Thigh THEN {Thigh[part]} ELSE {})

\* `assigned` and `counters` are functions, of channels and of body parts;
\* `missing` the channels that send samples without having reported.
NewDecoder == [assigned |-> <<>>, counters |-> <<>>, missing |-> {}]

Connected(part) == <<[kind |-> "connected", part |-> part]>>
Sampled(part) == <<[kind |-> "imu", part |-> part]>>
Gone(part) ==
  <<[kind |-> "disconnected", part |-> part]>>
    \o (IF part \in DOMAIN Thigh THEN <<[kind |-> "disconnected", part |-> Thigh[part]]>> ELSE <<>>)

\* A press shows as a counter that has changed.  What a counter said before the
\* first report nobody knows, so that report presses nothing.
ZeroBefore(d, part, count) ==      \* mutant: it was zero
  count # 0 /\ (part \notin DOMAIN d.counters \/ d.counters[part] # count)
Pressed(d, part, count) ==
  count # 0 /\ part \in DOMAIN d.counters /\ d.counters[part] # count

\* f with x bound to v.
Put(f, x, v) == [y \in {x} \cup DOMAIN f |-> IF y = x THEN v ELSE f[y]]

\* An 'r' line: the tracker's id and button counter.
Report(d, ch, id, count) ==
  LET part == BodyPart[id]
      changed == ch \notin DOMAIN d.assigned \/ d.assigned[ch] # part
      old == IF changed /\ ch \in DOMAIN d.assigned THEN Gone(d.assigned[ch]) ELSE <<>>
      button == IF Pressed(d, part, count) THEN <<[kind |-> "button", part |-> part]>> ELSE <<>>
  IN IF id \notin DOMAIN BodyPart THEN [decoder |-> d, events |-> <<>>]
     ELSE [decoder |-> [assigned |-> Put(d.assigned, ch, part),
                        counters |-> Put(d.counters, part, count),
                        missing |-> d.missing \ {ch}],
           events |-> old \o (IF changed THEN Connected(part) ELSE <<>>) \o button]

\* An 'x' line: a sample, with that of the thigh if the frame is long enough.
\* Nothing comes of a channel that has not reported; it is noted.
Unnoted(d, ch) == d                    \* mutant: and forgotten
Noted(d, ch) == [d EXCEPT !.missing = @ \cup {ch}]
Sample(d, ch, long) ==
  IF ch \notin DOMAIN d.assigned THEN [decoder |-> Noted(d, ch), events |-> <<>>]
  ELSE LET part == d.assigned[ch] IN
       [decoder |-> d,
        events |-> IF long /\ part \in DOMAIN Thigh
                     THEN Connected(Thigh[part]) \o Sampled(part) \o Sampled(Thigh[part])
                     ELSE Sampled(part)]

\* The parts that go when the port does.
Known(d) == UNION {WithThigh(d.assigned[ch]) : ch \in DOMAIN d.assigned}
=============================================================================
