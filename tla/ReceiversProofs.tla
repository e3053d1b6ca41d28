---------------------------- MODULE ReceiversProofs ----------------------------
(***************************************************************************)
(* First, that a server that serves is reachable, for any number of        *)
(* processes of both kinds and any number of crashes: the socket claim.    *)
(*                                                                         *)
(* Then, that nobody clicks but the user, for any number of servers,       *)
(* crashes, trackers, channels and presses, and a button counter of any    *)
(* width; and that servers with receivers still claim their path as        *)
(* SocketClaim says.                                                       *)
(***************************************************************************)
EXTENDS Receivers, SequenceTheorems, TLAPS

\* At first no process holds or claims anything.
LEMMA InitIInv == Init => IInv
BY ClaimAssumption
   DEF Init, IInv, TypeOK, OneClaims, OneOwner, HoldersHaveThePath, RemovesTheDead,
       Claiming, Connectable, None, File

\* The end of a process takes nothing from the others.
LEMMA CloseIInv ==
  ASSUME IInv, NEW p \in Processes, Close(p), UNCHANGED <<path, sockets>>, exits' \in 0..MaxExits
  PROVE  IInv'
<1>1. /\ listening' = listening \ {own[p]}
      /\ own' = [own EXCEPT ![p] = None] /\ inode' = [inode EXCEPT ![p] = None]
      /\ pc' = [pc EXCEPT ![p] = "off"]
  BY DEF Close, Goto
<1>2. \A q \in Processes : q # p => own[q] # own[p] \/ own[q] = None
  BY DEF IInv, OneOwner
<1>3. None \notin listening
  BY DEF IInv, TypeOK, None
<1>4. TypeOK'
  <2>1. \A q \in Processes : own'[q] = None \/ own'[q] \in listening'
    BY <1>1, <1>2 DEF IInv, TypeOK
  <2>2. own' \in [Processes -> 0..sockets] /\ inode' \in [Processes -> 0..sockets]
    BY <1>1 DEF IInv, TypeOK, None
  <2>3. pc' \in [Processes -> {"off", "probe", "remove", "bind", "record", "serving", "unlink", "close"}]
    BY <1>1 DEF IInv, TypeOK
  <2>4. listening' \subseteq 2..sockets
    BY <1>1 DEF IInv, TypeOK
  <2>5. QED
    BY <2>1, <2>2, <2>3, <2>4 DEF IInv, TypeOK
<1>5. OneClaims' /\ OneOwner'
  BY <1>1 DEF IInv, TypeOK, OneClaims, OneOwner, Claiming
<1>6. HoldersHaveThePath'
  BY <1>1, <1>2, <1>3 DEF IInv, TypeOK, HoldersHaveThePath, Connectable
<1>7. RemovesTheDead'
  BY <1>1 DEF IInv, TypeOK, RemovesTheDead, Connectable
<1>8. QED
  BY <1>4, <1>5, <1>6, <1>7 DEF IInv

\* A step that only moves one process: it may claim if nobody else does, holds
\* the path only if it did before, and removes or binds with nobody there.
LEMMA GotoIInv ==
  ASSUME IInv, NEW p \in Processes, NEW label,
         pc' = [pc EXCEPT ![p] = label],
         UNCHANGED <<path, listening, sockets, own>>, inode' \in [Processes -> 0..sockets],
         exits' \in 0..MaxExits,
         label \in {"off", "probe", "remove", "bind", "record", "serving", "unlink", "close"},
         label \in {"probe", "remove", "bind", "record"} =>
           \A q \in Processes : Claiming(q) => q = p,
         label \in {"record", "serving", "unlink"} => path = own[p] /\ Connectable,
         label = "remove" => ~Connectable,
         label = "bind" => path = None
  PROVE  IInv'
<1>1. TypeOK'
  BY DEF IInv, TypeOK
<1>2. OneClaims' /\ OneOwner'
  BY DEF IInv, TypeOK, OneClaims, OneOwner, Claiming
<1>3. HoldersHaveThePath' /\ RemovesTheDead'
  BY DEF IInv, TypeOK, HoldersHaveThePath, RemovesTheDead, Connectable
<1>4. QED
  BY <1>1, <1>2, <1>3 DEF IInv

\* Removing and unlinking leave nothing at the path, which nobody else held.
LEMMA EmptiedIInv ==
  ASSUME IInv, NEW p \in Processes, NEW label \in {"off", "bind", "close"},
         pc' = [pc EXCEPT ![p] = label], path' = None,
         \A q \in Processes : q # p => pc[q] \notin {"record", "serving", "unlink"},
         label = "bind" => Claiming(p),
         UNCHANGED <<listening, sockets, own, inode, exits>>
  PROVE  IInv'
<1>1. None \notin listening
  BY DEF IInv, TypeOK, None
<1>2. TypeOK'
  BY DEF IInv, TypeOK, None
<1>3. OneClaims' /\ OneOwner'
  BY DEF IInv, TypeOK, OneClaims, OneOwner, Claiming
<1>4. HoldersHaveThePath' /\ RemovesTheDead'
  BY <1>1 DEF IInv, TypeOK, HoldersHaveThePath, RemovesTheDead, Connectable
<1>5. QED
  BY <1>2, <1>3, <1>4 DEF IInv

\* A socket is bound where there is none, under a number nobody had.
LEMMA BindIInv ==
  ASSUME IInv, NEW p \in Processes, Bind(p)
  PROVE  IInv'
<1>1. pc[p] = "bind" /\ path = None /\ Claiming(p)
  BY DEF Bind, IInv, RemovesTheDead, Claiming
<1>2. PICK label \in {"record", "serving"} : pc' = [pc EXCEPT ![p] = label]
  BY <1>1 DEF Bind, Goto
<1>3. /\ path' = sockets + 1 /\ sockets' = sockets + 1
      /\ own' = [own EXCEPT ![p] = sockets + 1]
      /\ listening' = listening \cup {sockets + 1}
      /\ UNCHANGED <<inode, exits>>
  BY <1>1 DEF Bind
<1>4. None \notin listening
  BY DEF IInv, TypeOK, None
<1>5. \A q \in Processes : pc[q] \notin {"record", "serving", "unlink"}
  BY <1>1, <1>4 DEF IInv, HoldersHaveThePath, Connectable
<1>6. \A q \in Processes : own[q] # sockets + 1
  BY DEF IInv, TypeOK
<1>7. TypeOK'
  <2>1. sockets' \in Nat \ {0} /\ path' \in 0..sockets' /\ listening' \subseteq 2..sockets'
    BY <1>3 DEF IInv, TypeOK
  <2>2. /\ own' \in [Processes -> 0..sockets'] /\ inode' \in [Processes -> 0..sockets']
        /\ exits' \in 0..MaxExits
    BY <1>3 DEF IInv, TypeOK
  <2>3. \A q \in Processes : own'[q] = None \/ own'[q] \in listening'
    BY <1>3 DEF IInv, TypeOK
  <2>4. QED
    BY <1>2, <2>1, <2>2, <2>3 DEF IInv, TypeOK
<1>8. OneClaims'
  BY <1>1, <1>2 DEF IInv, TypeOK, OneClaims, Claiming
<1>9. OneOwner'
  BY <1>3, <1>6 DEF IInv, TypeOK, OneOwner
<1>10. HoldersHaveThePath'
  BY <1>2, <1>3, <1>5 DEF IInv, TypeOK, HoldersHaveThePath, Connectable
<1>11. RemovesTheDead'
  <2>1. \A q \in Processes : pc[q] \in {"remove", "bind"} => q = p
    BY <1>1 DEF IInv, OneClaims, Claiming
  <2>2. QED
    BY <1>2, <2>1 DEF IInv, TypeOK, RemovesTheDead
<1>12. QED
  BY <1>7, <1>8, <1>9, <1>10, <1>11 DEF IInv

\* Every step preserves the inductive invariant.
LEMMA NextIInv == ASSUME IInv, [Next]_vars PROVE IInv'
<1>0. /\ exits \in 0..MaxExits /\ exits + 1 \in 0..(MaxExits + 1)
      /\ inode \in [Processes -> 0..sockets] /\ path \in 0..sockets
  BY ClaimAssumption DEF IInv, TypeOK
<1>1. ASSUME NEW p \in Processes, Launch(p) PROVE IInv'
  <2> DEFINE label == IF path = None THEN "bind"
                      ELSE IF path = File /\ p \in Careful THEN "off" ELSE "probe"
  <2>1. /\ pc' = [pc EXCEPT ![p] = label]
        /\ label \in {"off", "probe", "bind"}
        /\ label = "bind" => path = None
    BY <1>1 DEF Launch, Look, Goto
  <2>2. \A q \in Processes : ~Claiming(q)
    BY <1>1 DEF Launch
  <2>3. UNCHANGED <<path, listening, sockets, own, inode, exits>>
    BY <1>1 DEF Launch
  <2> HIDE DEF label
  <2>4. QED
    BY <1>0, <2>1, <2>2, <2>3, GotoIInv
<1>2. ASSUME NEW p \in Processes, Probe(p) PROVE IInv'
  <2>1. pc' = [pc EXCEPT ![p] = AfterProbe(p)]
    BY <1>2 DEF Probe, Goto
  <2>2. AfterProbe(p) \in {"off", "remove"} /\ (AfterProbe(p) = "remove" => ~Connectable)
    BY DEF AfterProbe
  <2>3. \A q \in Processes : Claiming(q) => q = p
    BY <1>2 DEF Probe, Claiming, IInv, OneClaims
  <2>4. UNCHANGED <<path, listening, sockets, own, inode, exits>>
    BY <1>2 DEF Probe
  <2>5. QED
    BY <1>0, <2>1, <2>2, <2>3, <2>4, GotoIInv
<1>3. ASSUME NEW p \in Processes, Remove(p) PROVE IInv'
  <2>1. PICK label \in {"off", "bind", "close"} : pc' = [pc EXCEPT ![p] = label]
    BY <1>3 DEF Remove, Goto
  <2>2. ~Connectable /\ Claiming(p)
    BY <1>3 DEF Remove, IInv, RemovesTheDead, Claiming
  <2>3. \A q \in Processes : pc[q] \notin {"record", "serving", "unlink"}
    BY <2>2 DEF IInv, HoldersHaveThePath
  <2>4. QED
    BY <1>3, <2>1, <2>2, <2>3, EmptiedIInv DEF Remove
<1>4. ASSUME NEW p \in Processes, Record(p) PROVE IInv'
  <2>1. path = own[p] /\ Connectable
    BY <1>4 DEF Record, IInv, HoldersHaveThePath
  <2>2. path # None
    BY <2>1 DEF IInv, TypeOK, Connectable, None
  <2>3. /\ inode' = [inode EXCEPT ![p] = path] /\ pc' = [pc EXCEPT ![p] = "serving"]
        /\ UNCHANGED <<path, listening, sockets, own, exits>>
    BY <1>4, <2>2 DEF Record, Goto
  <2>4. inode' \in [Processes -> 0..sockets]
    BY <1>0, <2>3
  <2>5. QED
    BY <1>0, <2>1, <2>3, <2>4, GotoIInv
<1>5. ASSUME NEW p \in Processes, Quit(p) PROVE IInv'
  <2>1. PICK label \in {"unlink", "close"} : pc' = [pc EXCEPT ![p] = label]
    BY <1>5 DEF Quit, CheckInode, Goto
  <2>2. path = own[p] /\ Connectable
    BY <1>5 DEF Quit, IInv, HoldersHaveThePath
  <2>3. exits' \in 0..MaxExits
    BY <1>0, <1>5, ClaimAssumption DEF Quit
  <2>4. UNCHANGED <<path, listening, sockets, own, inode>>
    BY <1>5 DEF Quit
  <2>5. QED
    BY <1>0, <2>1, <2>2, <2>3, <2>4, GotoIInv
<1>6. ASSUME NEW p \in Processes, Unlink(p) PROVE IInv'
  <2>1. pc' = [pc EXCEPT ![p] = "close"] /\ path = own[p] /\ Connectable
    BY <1>6 DEF Unlink, Goto, IInv, HoldersHaveThePath
  <2>2. ASSUME NEW q \in Processes, pc[q] \in {"record", "serving", "unlink"}
        PROVE  q = p
    <3>1. own[q] = own[p]
      BY <2>1, <2>2 DEF IInv, HoldersHaveThePath
    <3>2. own[p] # None
      BY <2>1 DEF IInv, TypeOK, Connectable, None
    <3>3. QED
      BY <3>1, <3>2 DEF IInv, OneOwner
  <2>3. QED
    BY <1>6, <2>1, <2>2, EmptiedIInv DEF Unlink
<1>7. ASSUME NEW p \in Processes, Closed(p) \/ Crash(p) PROVE IInv'
  <2>1. Close(p) /\ UNCHANGED <<path, sockets>>
    BY <1>7 DEF Closed, Crash
  <2>2. exits' \in 0..MaxExits
    BY <1>0, <1>7, ClaimAssumption DEF Closed, Crash
  <2>3. QED
    BY <2>1, <2>2, CloseIInv
<1>8. CASE UNCHANGED vars
  BY <1>8 DEF vars, IInv, TypeOK, OneClaims, OneOwner, HoldersHaveThePath, RemovesTheDead,
              Claiming, Connectable
<1>9. QED
  BY <1>1, <1>2, <1>3, <1>4, <1>5, <1>6, <1>7, <1>8, BindIInv DEF Next, Step

\* The inductive invariant holds in every reachable state.
THEOREM Invariance == Spec => []IInv
BY InitIInv, NextIInv, PTL DEF Spec

\* A server that serves is the one its clients reach.
THEOREM ServersAreReachable == Spec => []ServingIsReachable
<1>1. IInv => ServingIsReachable
  BY DEF IInv, HoldersHaveThePath, ServingIsReachable
<1>2. QED
  BY <1>1, Invariance, PTL

-----------------------------------------------------------------------------

Kinds == {"connected", "disconnected", "imu", "button"}
Event == [kind : Kinds, part : {BodyPart[c] : c \in DOMAIN BodyPart} \cup {Thigh[p] : p \in DOMAIN Thigh}]

\* A line without a click.
Quiet(events) == events \in Seq(Event) /\ \A i \in 1..Len(events) : events[i].kind # "button"

\* Two such lines in a row have none either.
LEMMA QuietConcat ==
  ASSUME NEW s, NEW t, Quiet(s), Quiet(t)
  PROVE  Quiet(s \o t)
<1>1. s \in Seq(Event) /\ t \in Seq(Event)
  BY DEF Quiet
<1>2. s \o t \in Seq(Event) /\ Len(s \o t) = Len(s) + Len(t)
  BY <1>1
<1>3. ASSUME NEW i \in 1..Len(s \o t)
      PROVE  (s \o t)[i].kind # "button"
  <2>1. CASE i <= Len(s)
    BY <2>1, <1>1, <1>2 DEF Quiet
  <2>2. CASE i > Len(s)
    <3>1. (s \o t)[i] = t[i - Len(s)] /\ i - Len(s) \in 1..Len(t)
      BY <2>2, <1>1, <1>2
    <3>2. QED
      BY <3>1 DEF Quiet
  <2>3. QED
    BY <1>1, <2>1, <2>2
<1>4. QED
  BY <1>2, <1>3 DEF Quiet

\* A click at the end is the only one.
LEMMA ClickAtTheEnd ==
  ASSUME NEW s, Quiet(s), NEW e \in Event
  PROVE  /\ s \o <<e>> \in Seq(Event)
         /\ \A i \in 1..Len(s \o <<e>>) : (s \o <<e>>)[i].kind = "button" => (s \o <<e>>)[i] = e
<1>1. s \in Seq(Event) /\ <<e>> \in Seq(Event) /\ Len(<<e>>) = 1
  BY DEF Quiet
<1>2. s \o <<e>> \in Seq(Event) /\ Len(s \o <<e>>) = Len(s) + 1
  BY <1>1
<1>3. ASSUME NEW i \in 1..Len(s \o <<e>>)
      PROVE  (s \o <<e>>)[i] = IF i <= Len(s) THEN s[i] ELSE e
  BY <1>1, <1>2
<1>4. QED
  BY <1>1, <1>2, <1>3 DEF Quiet

\* Neither has one event of another kind.
LEMMA QuietEvent ==
  ASSUME NEW kind \in Kinds \ {"button"},
         NEW part \in {BodyPart[c] : c \in DOMAIN BodyPart} \cup {Thigh[p] : p \in DOMAIN Thigh}
  PROVE  Quiet(<<[kind |-> kind, part |-> part]>>)
BY DEF Quiet, Event

\* What goes, comes or sends a sample does not click.
LEMMA QuietParts ==
  ASSUME NEW part \in {BodyPart[c] : c \in DOMAIN BodyPart} \cup {Thigh[p] : p \in DOMAIN Thigh}
  PROVE  Quiet(<<>>) /\ Quiet(Connected(part)) /\ Quiet(Sampled(part)) /\ Quiet(Gone(part))
<1>1. Quiet(<<>>)
  BY DEF Quiet
<1>2. Quiet(Connected(part)) /\ Quiet(Sampled(part))
  BY QuietEvent DEF Connected, Sampled, Kinds
<1>3. Quiet(<<[kind |-> "disconnected", part |-> part]>>)
  BY QuietEvent DEF Kinds
<1>4. ASSUME part \in DOMAIN Thigh
      PROVE  Quiet(<<[kind |-> "disconnected", part |-> Thigh[part]]>>)
  BY <1>4, QuietEvent DEF Kinds
<1>5. QED
  BY <1>1, <1>2, <1>3, <1>4, QuietConcat DEF Gone

\* A report clicks at most for its own body part, and if its counter has
\* changed; the counter is then the reported one.
LEMMA ReportClicks ==
  ASSUME NEW d, IsDecoder(d), NEW ch, NEW c \in DOMAIN BodyPart, NEW count
  PROVE  LET line == Report(d, ch, c, count) IN
         /\ IsDecoder(line.decoder)
         /\ line.decoder.counters = Put(d.counters, BodyPart[c], count)
         /\ line.events \in Seq(Event)
         /\ \A i \in 1..Len(line.events) : line.events[i].kind = "button" =>
              line.events[i].part = BodyPart[c] /\ Pressed(d, BodyPart[c], count)
<1> DEFINE part == BodyPart[c]
           changed == ch \notin DOMAIN d.assigned \/ d.assigned[ch] # part
           old == IF changed /\ ch \in DOMAIN d.assigned THEN Gone(d.assigned[ch]) ELSE <<>>
           new == IF changed THEN Connected(part) ELSE <<>>
           button == IF Pressed(d, part, count) THEN <<[kind |-> "button", part |-> part]>> ELSE <<>>
           line == Report(d, ch, c, count)
           assigned == Put(d.assigned, ch, part)
<1>1. line = [decoder |-> [assigned |-> assigned,
                           counters |-> Put(d.counters, part, count),
                           missing |-> d.missing \ {ch}],
              events |-> old \o new \o button]
  BY DEF Report
<1>2. \A x \in DOMAIN assigned : \E e \in DOMAIN BodyPart : assigned[x] = BodyPart[e]
  <2>1. /\ DOMAIN assigned = {ch} \cup DOMAIN d.assigned
        /\ \A x \in DOMAIN assigned : assigned[x] = IF x = ch THEN part ELSE d.assigned[x]
    BY DEF Put
  <2>2. QED
    BY <2>1 DEF IsDecoder
<1>3. Quiet(old) /\ Quiet(new)
  BY QuietParts DEF IsDecoder
<1>4. Quiet(old \o new)
  BY <1>3, QuietConcat
<1> HIDE DEF old, new, line, assigned
<1> DEFINE s == old \o new
           click == [kind |-> "button", part |-> part]
<1>5. click \in Event /\ click.part = part
  BY DEF Event, Kinds
<1>6. /\ line.events \in Seq(Event)
      /\ \A i \in 1..Len(line.events) : line.events[i].kind = "button" =>
           line.events[i].part = part /\ Pressed(d, part, count)
  <2>1. Quiet(s) /\ line.events = s \o button
    BY <1>1, <1>4
  <2> HIDE DEF s, click
  <2>2. CASE Pressed(d, part, count)
    <3>1. line.events = s \o <<click>>
      BY <2>1, <2>2 DEF click
    <3>2. QED
      BY <2>1, <2>2, <3>1, <1>5, ClickAtTheEnd
  <2>3. CASE ~Pressed(d, part, count)
    <3>1. line.events = s
      BY <2>1, <2>3 DEF Quiet
    <3>2. QED
      BY <2>1, <3>1 DEF Quiet
  <2>4. QED
    BY <2>2, <2>3
<1>7. line.decoder.counters = Put(d.counters, part, count)
  BY <1>1
<1>8. IsDecoder(line.decoder)
  BY <1>1, <1>2 DEF IsDecoder
<1>9. QED
  BY <1>6, <1>7, <1>8 DEF line

\* A sample does not click, and leaves the counters alone.
LEMMA SampleClicks ==
  ASSUME NEW d, IsDecoder(d), NEW ch, NEW long \in BOOLEAN
  PROVE  LET line == Sample(d, ch, long) IN
         /\ IsDecoder(line.decoder)
         /\ line.decoder.counters = d.counters
         /\ Quiet(line.events)
<1>1. CASE ch \notin DOMAIN d.assigned
  <2>1. PICK a, b, m : d = [assigned |-> a, counters |-> b, missing |-> m]
    BY DEF IsDecoder
  <2> DEFINE noted == [assigned |-> a, counters |-> b, missing |-> m \cup {ch}]
  <2>2. Noted(d, ch) = noted
    BY <2>1 DEF Noted
  <2>3. IsDecoder(noted) /\ noted.counters = d.counters
    BY <2>1 DEF IsDecoder
  <2>4. Quiet(<<>>)
    BY DEF Quiet
  <2>5. Sample(d, ch, long) = [decoder |-> Noted(d, ch), events |-> <<>>]
    BY <1>1 DEF Sample
  <2> HIDE DEF noted
  <2>6. QED
    BY <2>2, <2>3, <2>4, <2>5
<1>2. CASE ch \in DOMAIN d.assigned
  <2>1. PICK c \in DOMAIN BodyPart : d.assigned[ch] = BodyPart[c]
    BY <1>2 DEF IsDecoder
  <2>2. Quiet(Sampled(BodyPart[c]))
    BY QuietParts
  <2>3. CASE long /\ BodyPart[c] \in DOMAIN Thigh
    <3>1. Quiet(Connected(Thigh[BodyPart[c]])) /\ Quiet(Sampled(Thigh[BodyPart[c]]))
      BY <2>3, QuietParts
    <3>2. Quiet(Connected(Thigh[BodyPart[c]]) \o Sampled(BodyPart[c]) \o Sampled(Thigh[BodyPart[c]]))
      BY <2>2, <3>1, QuietConcat
    <3>3. QED
      BY <1>2, <2>1, <2>3, <3>2 DEF Sample
  <2>4. CASE ~(long /\ BodyPart[c] \in DOMAIN Thigh)
    BY <1>2, <2>1, <2>2, <2>4 DEF Sample
  <2>5. QED
    BY <2>3, <2>4
<1>3. QED
  BY <1>1, <1>2

(***************************************************************************)
(* Servers and receivers together.                                         *)
(***************************************************************************)
\* To the path, a step of the whole is a step of SocketClaim or none.
LEMMA ClaimStep == ASSUME [NextAll]_allVars PROVE [Next]_vars
<1>1. ASSUME NEW p \in Processes, Claim(p) \/ End(p) \/ Kill(p) \/ OpenPort(p) PROVE [Next]_vars
  BY <1>1 DEF Claim, End, Kill, OpenPort, Next
<1>2. ASSUME NEW ch \in Channels, HearReport(ch) \/ HearSample(ch) PROVE UNCHANGED vars
  BY <1>2 DEF HearReport, HearSample, Read
<1>3. CASE \/ Release \/ Restart
           \/ \E gone \in SUBSET Known(decoder) : Vanish(gone)
           \/ \E n \in Parts : Act(n)
  BY <1>3 DEF Release, Restart, Vanish, Act
<1>4. CASE \/ \E t \in Trackers : Press(t)
           \/ \E c, d \in Channels : ExchangeChannels(c, d)
           \/ \E t, u \in Trackers : ExchangeParts(t, u)
  BY <1>4 DEF Press, ExchangeChannels, ExchangeParts
<1>5. CASE UNCHANGED allVars
  BY <1>5 DEF allVars
<1>6. QED
  BY <1>1, <1>2, <1>3, <1>4, <1>5 DEF NextAll

\* A server that serves has a socket.
LEMMA ServingHasSocket == ASSUME IInv, NEW p \in Processes, pc[p] = "serving" PROVE own[p] # None
BY DEF IInv, TypeOK, HoldersHaveThePath, Connectable, None

\* Nobody reads a port that is not open.
LEMMA ClosedIsNotRead == ASSUME IInv, reader = None PROVE ~Reading
BY ServingHasSocket DEF Reading, Serving, Processes

\* Initially nothing has been pressed or counted.
LEMMA InitClicks == InitAll => ClicksInv
<1> SUFFICES ASSUME InitAll PROVE ClicksInv
  OBVIOUS
<1>1. IInv
  BY InitIInv DEF InitAll
<1>2. PartsAreDistinct
  BY ReceiverAssumption DEF InitAll, PartsAreDistinct, Part, Parts
<1>3. ReaderHasServed
  BY <1>1 DEF InitAll, ReaderHasServed, IInv, TypeOK, None
<1>4. ~Reading
  BY <1>1, ClosedIsNotRead DEF InitAll
<1>5. PressesAreOwed /\ ClicksWerePressed
  BY <1>4 DEF InitAll, PressesAreOwed, ClicksWerePressed, IsDecoder, NewDecoder, Nothing
<1>6. QED
  BY <1>1, <1>2, <1>3, <1>5 DEF ClicksInv

\* Whoever claims the path is not the one whose port is open, and does not
\* become it.
LEMMA ClaimKeepsReader ==
  ASSUME IInv, IInv', ReaderHasServed, NEW p \in Processes, Launch(p) \/ Step(p), UNCHANGED reader
  PROVE  ReaderHasServed' /\ (Reading' => Reading)
<1>1. /\ reader \in 0..sockets /\ sockets \in Nat
      /\ own[p] = reader /\ reader # None => pc[p] \in {"serving", "unlink", "close"}
      /\ own \in [Processes -> 0..sockets] /\ DOMAIN pc = Processes
  BY DEF ReaderHasServed, IInv, TypeOK
<1>2. \A q \in Processes : q # p => own'[q] = own[q] /\ pc'[q] = pc[q]
  BY <1>1 DEF Launch, Look, Step, Probe, Remove, Bind, Record, Unlink, Closed, Close, Goto, CheckInode
<1>3. own'[p] = reader /\ reader # None =>
        own[p] = reader /\ pc'[p] \in {"unlink", "close"}
  BY <1>1 DEF Launch, Look, Step, Probe, Remove, Bind, Record, Unlink, Closed, Close, Goto
<1>4. reader' \in 0..sockets'
  BY <1>1 DEF Launch, Step, Probe, Remove, Bind, Record, Unlink, Closed
<1>5. ReaderHasServed'
  BY <1>2, <1>3, <1>4 DEF ReaderHasServed
<1>6. ASSUME Reading' PROVE Reading
  <2>1. PICK q \in Careful : pc'[q] = "serving" /\ own'[q] = reader
    BY <1>6 DEF Reading, Serving
  <2>2. q \in Processes
    BY DEF Processes
  <2>3. reader # None
    BY <2>1, <2>2 DEF IInv, TypeOK, HoldersHaveThePath, Connectable, None
  <2>4. QED
    BY <1>2, <1>3, <2>1, <2>2, <2>3 DEF Reading, Serving
<1>7. QED
  BY <1>5, <1>6

(***************************************************************************)
(* The steps that press, report and count.                                 *)
(***************************************************************************)
\* A step that neither presses nor counts, nor opens a port.
LEMMA SameClicks ==
  ASSUME PartsAreDistinct, PressesAreOwed, ClicksWerePressed,
         UNCHANGED <<decoder, clicks, owed, id, counter>>, on' \in [Channels -> Trackers],
         Reading' => Reading
  PROVE  PartsAreDistinct' /\ PressesAreOwed' /\ ClicksWerePressed'
<1>1. PartsAreDistinct'
  BY DEF PartsAreDistinct, Part
<1>2. PressesAreOwed' /\ ClicksWerePressed'
  BY DEF PressesAreOwed, ClicksWerePressed, Part
<1>3. QED
  BY <1>1, <1>2

\* A decoder that has just been made has heard no counter.
LEMMA FreshDecoder ==
  ASSUME PartsAreDistinct, UNCHANGED <<on, id, counter>>,
         decoder' = NewDecoder, clicks' \in [Parts -> Int], owed' \in [Parts -> Int],
         \A n \in Parts : clicks'[n] <= owed'[n]
  PROVE  PartsAreDistinct' /\ PressesAreOwed' /\ ClicksWerePressed'
<1>1. PartsAreDistinct'
  BY DEF PartsAreDistinct, Part
<1>2. PressesAreOwed' /\ ClicksWerePressed'
  BY DEF PressesAreOwed, ClicksWerePressed, IsDecoder, NewDecoder, Pressed
<1>3. QED
  BY <1>1, <1>2

\* A sample changes no counter and no click.
LEMMA SampleKeepsClicks ==
  ASSUME ClicksInv, NEW ch \in Channels, HearSample(ch)
  PROVE  PartsAreDistinct' /\ PressesAreOwed' /\ ClicksWerePressed'
<1>0. PICK long \in BOOLEAN :
        \E n \in 0..Len(Sample(decoder, ch, long).events) : Read(Sample(decoder, ch, long), n)
  BY DEF HearSample, Samples
<1> DEFINE line == Sample(decoder, ch, long)
<1>1. PICK n \in 0..Len(line.events) : Read(line, n)
  BY <1>0
<1>2. IsDecoder(line.decoder) /\ line.decoder.counters = decoder.counters /\ Quiet(line.events)
  BY SampleClicks DEF ClicksInv, PressesAreOwed
<1> HIDE DEF line
<1>3. /\ decoder' = line.decoder
      /\ clicks' = [part \in Parts |-> IF Clicked(line.events, n, part) THEN clicks[part] + 1 ELSE clicks[part]]
      /\ UNCHANGED <<vars, reader, on, id, counter, owed>>
  BY <1>1 DEF Read, trackerVars, line
<1>4. n \in 0..Len(line.events)
  BY <1>1 DEF line
<1>5. \A part \in Parts : ~Clicked(line.events, n, part)
  <2>1. Len(line.events) \in Nat
    BY <1>2 DEF Quiet
  <2>2. QED
    BY <1>2, <1>4, <2>1 DEF Clicked, Quiet
<1>6. clicks' = clicks
  BY <1>3, <1>5 DEF ClicksInv, PressesAreOwed
<1>7. Reading' => Reading
  BY <1>3 DEF Reading, Serving, vars
<1>8. PartsAreDistinct'
  BY <1>3 DEF ClicksInv, PartsAreDistinct, Part
<1>9. PressesAreOwed'
  <2>1. IsDecoder(decoder)'
    BY <1>2, <1>3 DEF IsDecoder
  <2>2. ASSUME Reading', NEW t \in Trackers, Pressed(decoder, Part(t), counter[t])'
        PROVE  clicks'[Part(t)'] < owed'[Part(t)']
    BY <1>2, <1>3, <1>6, <1>7, <2>2 DEF ClicksInv, PressesAreOwed, Pressed, Part
  <2>3. QED
    BY <1>3, <1>6, <2>1, <2>2 DEF ClicksInv, PressesAreOwed
<1>10. ClicksWerePressed'
  BY <1>3, <1>6 DEF ClicksInv, ClicksWerePressed
<1>11. QED
  BY <1>8, <1>9, <1>10

\* A report counts a click only if one is owed, and settles it.
LEMMA ReportCountsOwed ==
  ASSUME ClicksInv, NEW ch \in Channels, HearReport(ch)
  PROVE  PartsAreDistinct' /\ PressesAreOwed' /\ ClicksWerePressed'
<1> DEFINE t == on[ch]
           line == Report(decoder, ch, id[t], counter[t])
<1>1. PICK n \in 0..Len(line.events) : Read(line, n)
  BY DEF HearReport, Reported
<1>2. t \in Trackers /\ id[t] \in DOMAIN BodyPart /\ Part(t) \in Parts /\ Part(t) = BodyPart[id[t]]
  BY DEF ClicksInv, PartsAreDistinct, Part
<1>3. /\ IsDecoder(line.decoder)
      /\ line.decoder.counters = Put(decoder.counters, Part(t), counter[t])
      /\ line.events \in Seq(Event)
      /\ \A i \in 1..Len(line.events) : line.events[i].kind = "button" =>
           line.events[i].part = Part(t) /\ Pressed(decoder, Part(t), counter[t])
  BY <1>2, ReportClicks DEF ClicksInv, PressesAreOwed
<1> HIDE DEF line, t
<1>4. /\ Reading
      /\ decoder' = line.decoder
      /\ clicks' = [part \in Parts |-> IF Clicked(line.events, n, part) THEN clicks[part] + 1 ELSE clicks[part]]
      /\ UNCHANGED <<reader, on, id, counter, owed>>
  BY <1>1 DEF Read, trackerVars
<1>5. ASSUME NEW part \in Parts, Clicked(line.events, n, part)
      PROVE  part = Part(t) /\ Pressed(decoder, Part(t), counter[t])
  <2>1. Len(line.events) \in Nat
    BY <1>3
  <2>2. QED
    BY <1>3, <1>5, <2>1 DEF Clicked
<1>6. /\ clicks \in [Parts -> Int] /\ owed \in [Parts -> Int]
      /\ \A u \in Trackers : Pressed(decoder, Part(u), counter[u]) => clicks[Part(u)] < owed[Part(u)]
      /\ \A part \in Parts : clicks[part] <= owed[part]
  BY <1>4 DEF ClicksInv, PressesAreOwed, ClicksWerePressed
<1>7. clicks' \in [Parts -> Int]
  BY <1>4, <1>6
<1>8. ClicksWerePressed'
  BY <1>2, <1>4, <1>5, <1>6 DEF ClicksWerePressed
<1>9. PartsAreDistinct'
  BY <1>4 DEF ClicksInv, PartsAreDistinct, Part
<1>10. ASSUME NEW u \in Trackers, Pressed(decoder, Part(u), counter[u])'
       PROVE  clicks'[Part(u)'] < owed'[Part(u)']
  <2>1. Part(u)' = Part(u) /\ counter' = counter /\ Part(u) \in Parts
    BY <1>4 DEF Part, ClicksInv, PartsAreDistinct
  <2>2. decoder'.counters = Put(decoder.counters, Part(t), counter[t])
    BY <1>3, <1>4
  <2>3. Part(u) # Part(t)
    <3>1. SUFFICES ASSUME Part(u) = Part(t) PROVE FALSE
      OBVIOUS
    <3>2. u = t
      BY <1>2, <3>1 DEF ClicksInv, PartsAreDistinct
    <3>3. decoder'.counters[Part(u)] = counter[u]
      BY <2>2, <3>1, <3>2 DEF Put
    <3>4. QED
      BY <1>10, <2>1, <3>3 DEF Pressed
  <2>4. Pressed(decoder, Part(u), counter[u])
    BY <1>10, <2>1, <2>2, <2>3 DEF Pressed, Put
  <2>5. ~Clicked(line.events, n, Part(u))
    BY <1>5, <2>1, <2>3
  <2>6. QED
    BY <1>4, <1>6, <2>1, <2>4, <2>5
<1>11. PressesAreOwed'
  BY <1>3, <1>4, <1>6, <1>7, <1>10 DEF PressesAreOwed
<1>12. QED
  BY <1>8, <1>9, <1>11

(***************************************************************************)
(* The steps of the servers and of the port.                               *)
(***************************************************************************)
\* Who quits or restarts forgets what was pressed, and the clicks with it.
LEMMA LoopGoneClicks ==
  ASSUME PartsAreDistinct, LoopGone, UNCHANGED trackerVars
  PROVE  PartsAreDistinct' /\ PressesAreOwed' /\ ClicksWerePressed'
<1>1. clicks' = Nothing /\ owed' = Nothing /\ decoder' = NewDecoder
  BY DEF LoopGone
<1>2. Nothing \in [Parts -> Int] /\ \A n \in Parts : Nothing[n] <= Nothing[n]
  BY DEF Nothing
<1>3. UNCHANGED <<on, id, counter>>
  BY DEF trackerVars
<1>4. QED
  BY <1>1, <1>2, <1>3, FreshDecoder

\* A server that quits no longer serves, and its port is still open.
LEMMA EndKeepsReader ==
  ASSUME ClicksInv, NEW p \in Processes, End(p)
  PROVE  ReaderHasServed'
<1>1. /\ reader \in 0..sockets /\ UNCHANGED <<reader, own, sockets>>
      /\ \E label \in {"unlink", "close"} : pc' = [pc EXCEPT ![p] = label]
  BY DEF End, Quit, CheckInode, Goto, ClicksInv, ReaderHasServed
<1>2. QED
  BY <1>1 DEF ClicksInv, IInv, TypeOK, ReaderHasServed

\* A server that crashes loses its port at once.
LEMMA KillKeepsReader ==
  ASSUME ClicksInv, NEW p \in Processes, Kill(p)
  PROVE  ReaderHasServed' /\ (Reading' => Reading)
<1>1. /\ own' = [own EXCEPT ![p] = None] /\ pc' = [pc EXCEPT ![p] = "off"]
      /\ sockets' = sockets /\ reader' = IF own[p] = reader THEN None ELSE reader
  BY DEF Kill, Crash, Close, Goto
<1>2. /\ reader \in 0..sockets /\ sockets \in Nat /\ own \in [Processes -> 0..sockets] /\ DOMAIN pc = Processes
      /\ \A q \in Processes : own[q] = reader /\ reader # None => pc[q] \in {"serving", "unlink", "close"}
  BY DEF ClicksInv, ReaderHasServed, IInv, TypeOK
<1>3. ReaderHasServed'
  BY <1>1, <1>2 DEF ReaderHasServed, None
<1>4. ASSUME Reading' PROVE Reading
  <2>1. PICK q \in Careful : pc'[q] = "serving" /\ own'[q] = reader'
    BY <1>4 DEF Reading, Serving
  <2>2. q \in Processes /\ q # p
    BY <1>1, <1>2, <2>1 DEF Processes
  <2>3. pc[q] = "serving" /\ own[q] = reader'
    BY <1>1, <1>2, <2>1, <2>2
  <2>4. own[q] # None
    BY <2>2, <2>3, ServingHasSocket DEF ClicksInv
  <2>5. QED
    BY <1>1, <2>3, <2>4 DEF Reading, Serving
<1>5. QED
  BY <1>3, <1>4

\* A port that is closed is nobody's.
LEMMA ClosedKeepsReader ==
  ASSUME IInv, IInv', reader' = None
  PROVE  ReaderHasServed' /\ ~Reading'
<1>1. \A q \in Careful : pc'[q] = "serving" => own'[q] # None
  BY DEF IInv, TypeOK, HoldersHaveThePath, Connectable, None, Processes
<1>2. ReaderHasServed'
  BY DEF ReaderHasServed, IInv, TypeOK, None
<1>3. QED
  BY <1>1, <1>2 DEF Reading, Serving

\* The one who opens the port is the only one with its socket.
LEMMA OpenKeepsClicks ==
  ASSUME ClicksInv, NEW p \in Processes, OpenPort(p)
  PROVE  ReaderHasServed' /\ PartsAreDistinct' /\ PressesAreOwed' /\ ClicksWerePressed'
<1>1. /\ pc[p] = "serving" /\ reader' = own[p] /\ decoder' = NewDecoder /\ owed' = clicks
      /\ UNCHANGED <<vars, clicks, on, id, counter>>
  BY DEF OpenPort, Serving, bridgeVars, trackerVars
<1>2. ReaderHasServed'
  BY <1>1 DEF ReaderHasServed, vars, ClicksInv, IInv, TypeOK, OneOwner, None
<1>3. clicks' \in [Parts -> Int] /\ owed' \in [Parts -> Int] /\ \A n \in Parts : clicks'[n] <= owed'[n]
  BY <1>1 DEF ClicksInv, PressesAreOwed
<1>4. PartsAreDistinct' /\ PressesAreOwed' /\ ClicksWerePressed'
  BY <1>1, <1>3, FreshDecoder DEF ClicksInv
<1>5. QED
  BY <1>2, <1>4

(***************************************************************************)
(* The steps of the user.                                                  *)
(***************************************************************************)
\* A press is owed before it is reported.
LEMMA PressIsOwed ==
  ASSUME ClicksInv, NEW t \in Trackers, Press(t)
  PROVE  PartsAreDistinct' /\ PressesAreOwed' /\ ClicksWerePressed'
<1>1. /\ UNCHANGED <<vars, reader, decoder, clicks, on, id>>
      /\ DOMAIN counter' = Trackers
      /\ \A u \in Trackers : u # t => counter'[u] = counter[u]
      /\ owed' = [n \in Parts |-> IF Reading /\ n = Part(t) THEN owed[n] + 1 ELSE owed[n]]
  BY DEF Press, Owe, bridgeVars, ClicksInv, PartsAreDistinct
<1>2. PartsAreDistinct'
  BY <1>1 DEF ClicksInv, PartsAreDistinct, Part
<1>3. \A u \in Trackers : Part(u)' = Part(u) /\ Part(u) \in Parts /\ (u # t => Part(u) # Part(t))
  BY <1>1 DEF ClicksInv, PartsAreDistinct, Part
<1>4. /\ clicks \in [Parts -> Int] /\ owed \in [Parts -> Int] /\ IsDecoder(decoder)
      /\ \A n \in Parts : clicks[n] <= owed[n]
  BY DEF ClicksInv, PressesAreOwed, ClicksWerePressed
<1>5. ClicksWerePressed' /\ owed' \in [Parts -> Int]
  BY <1>1, <1>4 DEF ClicksWerePressed
<1>6. ASSUME Reading', NEW u \in Trackers, Pressed(decoder, Part(u), counter[u])'
      PROVE  clicks'[Part(u)'] < owed'[Part(u)']
  <2>1. Reading
    BY <1>1, <1>6 DEF Reading, Serving, vars
  <2>2. CASE u = t
    BY <1>1, <1>3, <1>4, <2>1, <2>2
  <2>3. CASE u # t
    <3>1. Pressed(decoder, Part(u), counter[u])
      BY <1>1, <1>3, <1>6, <2>3 DEF Pressed
    <3>2. clicks[Part(u)] < owed[Part(u)]
      BY <2>1, <3>1 DEF ClicksInv, PressesAreOwed
    <3>3. owed'[Part(u)] = owed[Part(u)]
      BY <1>1, <1>3, <2>3
    <3>4. QED
      BY <1>1, <1>3, <3>2, <3>3
  <2>4. QED
    BY <2>2, <2>3
<1>7. PressesAreOwed'
  BY <1>1, <1>4, <1>5, <1>6 DEF PressesAreOwed, IsDecoder
<1>8. QED
  BY <1>2, <1>5, <1>7

\* A part that changes hands may look like a press of it, and is owed one.
LEMMA ExchangeIsOwed ==
  ASSUME ClicksInv, NEW t \in Trackers, NEW u \in Trackers, ExchangeParts(t, u)
  PROVE  PartsAreDistinct' /\ PressesAreOwed' /\ ClicksWerePressed'
<1>1. /\ t # u /\ id' = [id EXCEPT ![t] = id[u], ![u] = id[t]]
      /\ UNCHANGED <<vars, reader, decoder, clicks, on, counter>>
      /\ owed' = [n \in Parts |-> IF Reading /\ n \in {Part(t), Part(u)} THEN owed[n] + 1 ELSE owed[n]]
  BY DEF ExchangeParts, Owe, bridgeVars
<1>2. /\ id \in [Trackers -> DOMAIN BodyPart] /\ Trackers = DOMAIN counter /\ on \in [Channels -> Trackers]
      /\ \A v \in Trackers : Part(v) \in Parts
      /\ \A v, w \in Trackers : Part(v) = Part(w) => v = w
  BY DEF ClicksInv, PartsAreDistinct
<1>3. /\ id' \in [Trackers -> DOMAIN BodyPart]
      /\ id'[t] = id[u] /\ id'[u] = id[t]
      /\ \A v \in Trackers \ {t, u} : id'[v] = id[v]
  BY <1>1, <1>2
<1>4. \A v \in Trackers :
        Part(v)' = IF v = t THEN Part(u) ELSE IF v = u THEN Part(t) ELSE Part(v)
  BY <1>3 DEF Part
<1>5. PartsAreDistinct'
  BY <1>1, <1>2, <1>3, <1>4 DEF PartsAreDistinct
<1>6. /\ clicks \in [Parts -> Int] /\ owed \in [Parts -> Int] /\ IsDecoder(decoder)
      /\ \A n \in Parts : clicks[n] <= owed[n]
  BY DEF ClicksInv, PressesAreOwed, ClicksWerePressed
<1>7. ClicksWerePressed' /\ owed' \in [Parts -> Int]
  BY <1>1, <1>6 DEF ClicksWerePressed
<1>8. ASSUME Reading', NEW v \in Trackers, Pressed(decoder, Part(v), counter[v])'
      PROVE  clicks'[Part(v)'] < owed'[Part(v)']
  <2>1. Reading
    BY <1>1, <1>8 DEF Reading, Serving, vars
  <2>2. CASE v \in {t, u}
    BY <1>1, <1>2, <1>4, <1>6, <2>1, <2>2
  <2>3. CASE v \notin {t, u}
    <3>1. Part(v)' = Part(v) /\ Pressed(decoder, Part(v), counter[v])
      BY <1>1, <1>4, <1>8, <2>3 DEF Pressed
    <3>2. clicks[Part(v)] < owed[Part(v)]
      BY <2>1, <3>1 DEF ClicksInv, PressesAreOwed
    <3>3. owed'[Part(v)] = owed[Part(v)]
      BY <1>1, <1>2, <2>3
    <3>4. QED
      BY <1>1, <3>1, <3>2, <3>3
  <2>4. QED
    BY <2>2, <2>3
<1>9. PressesAreOwed'
  BY <1>1, <1>6, <1>7, <1>8 DEF PressesAreOwed, IsDecoder
<1>10. QED
  BY <1>5, <1>7, <1>9

\* Clicks that become a command are no longer counted, nor owed.
LEMMA ActSettles ==
  ASSUME ClicksInv, NEW n \in Parts, Act(n)
  PROVE  PartsAreDistinct' /\ PressesAreOwed' /\ ClicksWerePressed'
<1>1. /\ clicks' = [clicks EXCEPT ![n] = 0] /\ owed' = [owed EXCEPT ![n] = @ - clicks[n]]
      /\ UNCHANGED <<vars, reader, decoder, on, id, counter>>
  BY DEF Act, trackerVars
<1>2. /\ clicks \in [Parts -> Int] /\ owed \in [Parts -> Int] /\ IsDecoder(decoder)
      /\ \A m \in Parts : clicks[m] <= owed[m]
  BY DEF ClicksInv, PressesAreOwed, ClicksWerePressed
<1>3. /\ clicks' \in [Parts -> Int] /\ owed' \in [Parts -> Int]
      /\ \A m \in Parts : owed'[m] - clicks'[m] = owed[m] - clicks[m]
  BY <1>1, <1>2
<1>4. PartsAreDistinct' /\ ClicksWerePressed'
  BY <1>1, <1>2, <1>3 DEF ClicksInv, PartsAreDistinct, Part, ClicksWerePressed
<1>5. ASSUME Reading', NEW v \in Trackers, Pressed(decoder, Part(v), counter[v])'
      PROVE  clicks'[Part(v)'] < owed'[Part(v)']
  <2>1. Reading /\ Part(v)' = Part(v) /\ Part(v) \in Parts /\ Pressed(decoder, Part(v), counter[v])
    BY <1>1, <1>5 DEF Reading, Serving, vars, Part, ClicksInv, PartsAreDistinct, Pressed
  <2>2. clicks[Part(v)] < owed[Part(v)]
    BY <2>1 DEF ClicksInv, PressesAreOwed
  <2>3. QED
    BY <1>2, <1>3, <2>1, <2>2
<1>6. PressesAreOwed'
  BY <1>1, <1>2, <1>3, <1>5 DEF PressesAreOwed, IsDecoder
<1>7. QED
  BY <1>4, <1>6

(***************************************************************************)
(* All steps.                                                              *)
(***************************************************************************)
LEMMA NextClicks == ASSUME ClicksInv, [NextAll]_allVars PROVE ClicksInv'
<1>1. IInv /\ IInv'
  BY ClaimStep, NextIInv DEF ClicksInv
<1>2. ASSUME UNCHANGED <<vars, reader>>
      PROVE  ReaderHasServed' /\ (Reading' => Reading)
  BY <1>2 DEF ClicksInv, ReaderHasServed, Reading, Serving, vars
<1>3. ASSUME NEW p \in Processes, Claim(p) PROVE ClicksInv'
  <2>1. (Launch(p) \/ Step(p)) /\ UNCHANGED <<reader, decoder, clicks, owed, on, id, counter>>
    BY <1>3 DEF Claim, receiverVars, bridgeVars, trackerVars
  <2>2. ReaderHasServed' /\ (Reading' => Reading)
    BY <1>1, <2>1, ClaimKeepsReader DEF ClicksInv
  <2>3. QED
    BY <1>1, <2>1, <2>2, SameClicks DEF ClicksInv, PartsAreDistinct
<1>4. ASSUME NEW p \in Processes, End(p) PROVE ClicksInv'
  BY <1>1, <1>4, EndKeepsReader, LoopGoneClicks DEF End, ClicksInv
<1>5. ASSUME NEW p \in Processes, Kill(p) PROVE ClicksInv'
  <2>1. ReaderHasServed' /\ (Reading' => Reading)
    BY <1>5, KillKeepsReader
  <2>2. CASE Serving(p)
    BY <1>1, <1>5, <2>1, <2>2, LoopGoneClicks DEF Kill, ClicksInv
  <2>3. CASE ~Serving(p)
    <3>1. UNCHANGED <<decoder, clicks, owed, on, id, counter>>
      BY <1>5, <2>3 DEF Kill, bridgeVars, trackerVars
    <3>2. QED
      BY <1>1, <2>1, <3>1, SameClicks DEF ClicksInv, PartsAreDistinct
  <2>4. QED
    BY <2>2, <2>3
<1>6. ASSUME NEW p \in Processes, OpenPort(p) PROVE ClicksInv'
  BY <1>1, <1>6, OpenKeepsClicks DEF ClicksInv
<1>7. ASSUME NEW ch \in Channels, HearReport(ch) \/ HearSample(ch) PROVE ClicksInv'
  <2>1. UNCHANGED <<vars, reader>>
    BY <1>7 DEF HearReport, HearSample, Read
  <2>2. PartsAreDistinct' /\ PressesAreOwed' /\ ClicksWerePressed'
    BY <1>7, ReportCountsOwed, SampleKeepsClicks
  <2>3. QED
    BY <1>1, <1>2, <2>1, <2>2 DEF ClicksInv
<1>8. ASSUME Release PROVE ClicksInv'
  <2>1. reader' = None /\ UNCHANGED <<decoder, clicks, owed, on, id, counter>>
    BY <1>8 DEF Release, bridgeVars, trackerVars
  <2>2. ReaderHasServed' /\ ~Reading'
    BY <1>1, <2>1, ClosedKeepsReader
  <2>3. QED
    BY <1>1, <2>1, <2>2, SameClicks DEF ClicksInv, PartsAreDistinct
<1>9. ASSUME Restart PROVE ClicksInv'
  <2>1. ReaderHasServed'
    <3>1. CASE Reading
      BY <1>1, <1>9, <3>1, ClosedKeepsReader DEF Restart
    <3>2. CASE ~Reading
      BY <1>2, <1>9, <3>2 DEF Restart
    <3>3. QED
      BY <3>1, <3>2
  <2>2. QED
    BY <1>1, <1>9, <2>1, LoopGoneClicks DEF Restart, ClicksInv
<1>10. ASSUME NEW gone \in SUBSET Known(decoder), Vanish(gone) PROVE ClicksInv'
  <2>1. reader' = None /\ decoder' = NewDecoder /\ UNCHANGED <<clicks, owed, on, id, counter>>
    BY <1>10 DEF Vanish, trackerVars
  <2>2. clicks' \in [Parts -> Int] /\ owed' \in [Parts -> Int] /\ \A n \in Parts : clicks'[n] <= owed'[n]
    BY <2>1 DEF ClicksInv, PressesAreOwed, ClicksWerePressed
  <2>3. PartsAreDistinct' /\ PressesAreOwed' /\ ClicksWerePressed'
    BY <1>10, <2>1, <2>2, FreshDecoder DEF ClicksInv, Vanish, trackerVars
  <2>4. QED
    BY <1>1, <2>1, <2>3, ClosedKeepsReader DEF ClicksInv
<1>11. ASSUME NEW n \in Parts, Act(n) PROVE ClicksInv'
  <2>1. UNCHANGED <<vars, reader>>
    BY <1>11 DEF Act
  <2>2. QED
    BY <1>1, <1>2, <1>11, <2>1, ActSettles DEF ClicksInv
<1>12. ASSUME NEW t \in Trackers, Press(t) PROVE ClicksInv'
  <2>1. UNCHANGED <<vars, reader>>
    BY <1>12 DEF Press
  <2>2. QED
    BY <1>1, <1>2, <1>12, <2>1, PressIsOwed DEF ClicksInv
<1>13. ASSUME NEW c \in Channels, NEW d \in Channels, ExchangeChannels(c, d) PROVE ClicksInv'
  <2>1. /\ UNCHANGED <<vars, reader, decoder, clicks, owed, id, counter>>
        /\ on' \in [Channels -> Trackers]
    BY <1>13 DEF ExchangeChannels, bridgeVars, ClicksInv, PartsAreDistinct
  <2>2. ReaderHasServed' /\ (Reading' => Reading)
    BY <1>2, <2>1
  <2>3. QED
    BY <1>1, <2>1, <2>2, SameClicks DEF ClicksInv
<1>14. ASSUME NEW t \in Trackers, NEW u \in Trackers, ExchangeParts(t, u) PROVE ClicksInv'
  <2>1. UNCHANGED <<vars, reader>>
    BY <1>14 DEF ExchangeParts
  <2>2. QED
    BY <1>1, <1>2, <1>14, <2>1, ExchangeIsOwed DEF ClicksInv
<1>15. CASE UNCHANGED allVars
  <2>1. UNCHANGED <<vars, reader, decoder, clicks, owed, on, id, counter>>
    BY <1>15 DEF allVars, receiverVars, bridgeVars, trackerVars
  <2>2. ReaderHasServed' /\ (Reading' => Reading)
    BY <1>2, <2>1
  <2>3. QED
    BY <1>1, <2>1, <2>2, SameClicks DEF ClicksInv, PartsAreDistinct
<1>16. QED
  BY <1>3, <1>4, <1>5, <1>6, <1>7, <1>8, <1>9, <1>10, <1>11, <1>12, <1>13, <1>14, <1>15
     DEF NextAll

\* Every click that is counted was made by the user, and is one the server has
\* not acted upon.
THEOREM NobodyElseClicks == SpecAll => []ClicksWerePressed
<1>1. SpecAll => []ClicksInv
  BY InitClicks, NextClicks, PTL DEF SpecAll
<1>2. ClicksInv => ClicksWerePressed
  BY DEF ClicksInv
<1>3. QED
  BY <1>1, <1>2, PTL

\* Servers with receivers claim their path as SocketClaim says.
THEOREM ServersClaimTheirPath == SpecAll => Spec
<1>1. InitAll => Init
  BY DEF InitAll
<1>2. QED
  BY <1>1, ClaimStep, PTL DEF SpecAll, Spec

\* So one that serves is reachable, whatever its receivers do.
THEOREM ServersStayReachable == SpecAll => []ServingIsReachable
BY ServersClaimTheirPath, ServersAreReachable, PTL
==============================================================================
