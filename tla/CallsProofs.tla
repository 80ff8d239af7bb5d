----------------------------- MODULE CallsProofs ------------------------------
(***************************************************************************)
(* What holds of the gateway's list of officers and of their calls, for any*)
(* number of officers, sockets, set-ups and peer connections.              *)
(***************************************************************************)
EXTENDS Calls, TLAPS
-----------------------------------------------------------------------------
(* The list of officers.                                                   *)

\* A socket closed while it joins is not the officer's line.
LostIsBehind ==
    \A o \in Officers, s \in Sockets : handshake[o][s] = "lost" => line[o] # s

\* The entry, once it was written in order, names a socket that has joined and is not
\* known to be closed, and the officer's line if that has joined.
EntryIsCurrent ==
    \A o \in Officers : ~crossed[o] =>
        /\ presence[o] # NoSocket => handshake[o][presence[o]] = "joined"
        /\ Joined(o) => presence[o] = line[o]

PresenceInv == PresenceTypeOK /\ LostIsBehind /\ EntryIsCurrent

States == {"free", "joining", "lost", "joined"}

LEMMA PresenceInitial == PresenceInit => PresenceInv
  BY PresenceAssumption
     DEF PresenceInit, PresenceInv, PresenceTypeOK, LostIsBehind, EntryIsCurrent, Joined, OnLine

\* A socket's state changes, and nothing else of the handshakes.
LEMMA HandshakeChange ==
    ASSUME PresenceTypeOK, NEW o \in Officers, NEW s \in Sockets, NEW state \in States,
           handshake' = [handshake EXCEPT ![o][s] = state]
    PROVE  /\ handshake' \in [Officers -> [Sockets -> States]]
           /\ handshake'[o][s] = state
           /\ \A r \in Sockets \ {s} : handshake'[o][r] = handshake[o][r]
           /\ \A p \in Officers \ {o} : handshake'[p] = handshake[p]
<1>1. handshake \in [Officers -> [Sockets -> States]]
  BY DEF PresenceTypeOK, States
<1>. DEFINE h == [handshake[o] EXCEPT ![s] = state]
<1>2. /\ h \in [Sockets -> States] /\ h[s] = state
      /\ \A r \in Sockets \ {s} : h[r] = handshake[o][r]
  BY <1>1
<1>3. handshake' = [handshake EXCEPT ![o] = h]
  BY <1>1
<1>. HIDE DEF h
<1>. QED
  BY <1>1, <1>2, <1>3

\* Officers keep to themselves: an event of one leaves the invariant of the others.
Fits(o) ==
    /\ \A s \in Sockets : handshake[o][s] = "lost" => line[o] # s
    /\ ~crossed[o] =>
        /\ presence[o] # NoSocket => handshake[o][presence[o]] = "joined"
        /\ (line[o] # NoSocket /\ handshake[o][line[o]] = "joined") => presence[o] = line[o]

LEMMA EachFits == (LostIsBehind /\ EntryIsCurrent) <=> \A o \in Officers : Fits(o)
  BY DEF LostIsBehind, EntryIsCurrent, Fits, Joined, OnLine

LEMMA OthersFit ==
    ASSUME PresenceInv, NEW o \in Officers, PresenceTypeOK', Fits(o)',
           \A p \in Officers \ {o} :
              /\ handshake'[p] = handshake[p] /\ line'[p] = line[p]
              /\ presence'[p] = presence[p] /\ crossed'[p] = crossed[p]
    PROVE  PresenceInv'
<1>1. \A p \in Officers : Fits(p)
  BY EachFits DEF PresenceInv
<1>2. \A p \in Officers : Fits(p)'
  BY <1>1 DEF Fits
<1>3. (LostIsBehind /\ EntryIsCurrent)'
  BY <1>2 DEF LostIsBehind, EntryIsCurrent, Fits, Joined, OnLine
<1>. QED
  BY <1>3 DEF PresenceInv

LEMMA ConnectStep ==
    ASSUME PresenceInv, NEW o \in Officers, NEW s \in Sockets, Connect(o, s)
    PROVE  PresenceInv'
<1>. USE DEF PresenceInv
<1>1. Fits(o)
  BY EachFits
<1>2. /\ handshake[o][s] = "free" /\ presence[o] # s
      /\ line' = [line EXCEPT ![o] = s] /\ UNCHANGED <<presence, crossed>>
  BY DEF Connect, Unused
<1>3. /\ handshake' \in [Officers -> [Sockets -> States]] /\ handshake'[o][s] = "joining"
      /\ \A r \in Sockets \ {s} : handshake'[o][r] = handshake[o][r]
      /\ \A p \in Officers \ {o} : handshake'[p] = handshake[p]
  BY HandshakeChange DEF Connect, States
<1>4. /\ line'[o] = s /\ line' \in [Officers -> Sockets \cup {NoSocket}]
      /\ \A p \in Officers \ {o} : line'[p] = line[p]
  BY <1>2 DEF PresenceTypeOK
<1>5. PresenceTypeOK'
  BY <1>2, <1>3, <1>4 DEF PresenceTypeOK, States
<1>6. Fits(o)'
  BY <1>1, <1>2, <1>3, <1>4 DEF Fits, PresenceTypeOK
<1>. QED
  BY <1>2, <1>3, <1>4, <1>5, <1>6, OthersFit

\* Where the socket is the officer's line, it is not closed yet.
LEMMA JoinStep ==
    ASSUME PresenceInv, NEW o \in Officers, NEW s \in Sockets, Join(o, s)
    PROVE  PresenceInv'
<1>. USE DEF PresenceInv
<1>1. Fits(o)
  BY EachFits
<1>. DEFINE state == PastHandshake(handshake[o][s])
<1>2. /\ handshake[o][s] \in {"joining", "lost"}
      /\ handshake' = [handshake EXCEPT ![o][s] = state]
      /\ presence' = [presence EXCEPT ![o] = s]
      /\ crossed' = [crossed EXCEPT ![o] = line[o] # s] /\ UNCHANGED line
  BY DEF Join
<1>3. state \in {"free", "joined"} /\ (handshake[o][s] # "lost" => state = "joined")
  BY DEF PastHandshake
<1>. HIDE DEF state
<1>4. /\ handshake' \in [Officers -> [Sockets -> States]] /\ handshake'[o][s] = state
      /\ \A r \in Sockets \ {s} : handshake'[o][r] = handshake[o][r]
      /\ \A p \in Officers \ {o} : handshake'[p] = handshake[p]
  <2>1. state \in States /\ handshake' = [handshake EXCEPT ![o][s] = state]
    BY <1>2, <1>3 DEF States
  <2>2. PresenceTypeOK
    OBVIOUS
  <2>. QED
    BY <2>1, <2>2, HandshakeChange, Zenon
<1>5. /\ presence'[o] = s /\ presence' \in [Officers -> Sockets \cup {NoSocket}]
      /\ \A p \in Officers \ {o} : presence'[p] = presence[p]
  BY <1>2 DEF PresenceTypeOK
<1>. DEFINE late == line[o] # s
<1>6. late \in BOOLEAN
  OBVIOUS
<1>7. /\ crossed'[o] = late /\ crossed' \in [Officers -> BOOLEAN]
      /\ \A p \in Officers \ {o} : crossed'[p] = crossed[p]
  <2>1. crossed' = [crossed EXCEPT ![o] = late]
    BY <1>2
  <2>. HIDE DEF late
  <2>. QED
    BY <2>1, <1>6, Zenon DEF PresenceTypeOK
<1>8. PresenceTypeOK'
  BY <1>2, <1>4, <1>5, <1>7 DEF PresenceTypeOK, States
<1>9. ~crossed'[o] => line[o] = s /\ state = "joined"
  BY <1>1, <1>3, <1>7 DEF Fits
<1>10. Fits(o)'
  BY <1>1, <1>2, <1>3, <1>4, <1>5, <1>9 DEF Fits, PresenceTypeOK
<1>. QED
  BY <1>2, <1>4, <1>5, <1>7, <1>8, <1>10, OthersFit

LEMMA RefuseStep ==
    ASSUME PresenceInv, NEW o \in Officers, NEW s \in Sockets, Refuse(o, s)
    PROVE  PresenceInv'
<1>. USE DEF PresenceInv
<1>1. Fits(o)
  BY EachFits
<1>2. /\ handshake[o][s] \in {"joining", "lost"} /\ UNCHANGED <<presence, crossed>>
      /\ line' = [line EXCEPT ![o] = IF @ = s THEN NoSocket ELSE @]
  BY DEF Refuse
<1>3. /\ handshake' \in [Officers -> [Sockets -> States]] /\ handshake'[o][s] = "free"
      /\ \A r \in Sockets \ {s} : handshake'[o][r] = handshake[o][r]
      /\ \A p \in Officers \ {o} : handshake'[p] = handshake[p]
  BY HandshakeChange DEF Refuse, States
<1>4. /\ line'[o] = IF line[o] = s THEN NoSocket ELSE line[o]
      /\ line' \in [Officers -> Sockets \cup {NoSocket}]
      /\ \A p \in Officers \ {o} : line'[p] = line[p]
  BY <1>2 DEF PresenceTypeOK
<1>5. PresenceTypeOK'
  BY <1>2, <1>3, <1>4 DEF PresenceTypeOK, States
<1>6. Fits(o)'
  BY <1>1, <1>2, <1>3, <1>4, PresenceAssumption DEF Fits, PresenceTypeOK
<1>. QED
  BY <1>2, <1>3, <1>4, <1>5, <1>6, OthersFit

LEMMA NoticeStep ==
    ASSUME PresenceInv, NEW o \in Officers, NEW s \in Sockets, Notice(o, s)
    PROVE  PresenceInv'
<1>. USE DEF PresenceInv
<1>1. Fits(o)
  BY EachFits
<1>2. /\ handshake[o][s] = "joined" /\ line[o] # s /\ UNCHANGED line
      /\ presence' = [presence EXCEPT ![o] = NoSocket]
      /\ crossed' = [crossed EXCEPT ![o] = @ \/ presence[o] # s]
  BY DEF Notice
<1>3. /\ handshake' \in [Officers -> [Sockets -> States]] /\ handshake'[o][s] = "free"
      /\ \A r \in Sockets \ {s} : handshake'[o][r] = handshake[o][r]
      /\ \A p \in Officers \ {o} : handshake'[p] = handshake[p]
  BY HandshakeChange DEF Notice, States
<1>4. /\ presence'[o] = NoSocket /\ presence' \in [Officers -> Sockets \cup {NoSocket}]
      /\ \A p \in Officers \ {o} : presence'[p] = presence[p]
  BY <1>2 DEF PresenceTypeOK
<1>. DEFINE late == crossed[o] \/ presence[o] # s
<1>5. /\ crossed'[o] = late /\ crossed' \in [Officers -> BOOLEAN]
      /\ \A p \in Officers \ {o} : crossed'[p] = crossed[p]
  <2>1. crossed' = [crossed EXCEPT ![o] = late] /\ late \in BOOLEAN
    BY <1>2
  <2>. HIDE DEF late
  <2>. QED
    BY <2>1, Zenon DEF PresenceTypeOK
<1>6. PresenceTypeOK'
  BY <1>2, <1>3, <1>4, <1>5 DEF PresenceTypeOK, States
<1>7. ~crossed'[o] => ~crossed[o] /\ presence[o] = s
  BY <1>5
<1>8. Fits(o)'
  BY <1>1, <1>2, <1>3, <1>4, <1>7 DEF Fits, PresenceTypeOK
<1>. QED
  BY <1>2, <1>3, <1>4, <1>5, <1>6, <1>8, OthersFit

LEMMA NoticeEarlyStep ==
    ASSUME PresenceInv, NEW o \in Officers, NEW s \in Sockets, NoticeEarly(o, s)
    PROVE  PresenceInv'
<1>. USE DEF PresenceInv
<1>1. Fits(o)
  BY EachFits
<1>2. /\ handshake[o][s] = "joining" /\ line[o] # s
      /\ UNCHANGED <<line, presence, crossed>>
  BY DEF NoticeEarly
<1>3. /\ handshake' \in [Officers -> [Sockets -> States]] /\ handshake'[o][s] = "lost"
      /\ \A r \in Sockets \ {s} : handshake'[o][r] = handshake[o][r]
      /\ \A p \in Officers \ {o} : handshake'[p] = handshake[p]
  BY HandshakeChange DEF NoticeEarly, States
<1>4. PresenceTypeOK'
  BY <1>2, <1>3 DEF PresenceTypeOK, States
<1>5. Fits(o)'
  BY <1>1, <1>2, <1>3 DEF Fits, PresenceTypeOK
<1>. QED
  BY <1>2, <1>3, <1>4, <1>5, OthersFit

LEMMA LoseStep ==
    ASSUME PresenceInv, NEW o \in Officers, Lose(o)
    PROVE  PresenceInv'
<1>. USE DEF PresenceInv
<1>1. Fits(o)
  BY EachFits
<1>2. UNCHANGED <<handshake, presence, crossed>> /\ line' = [line EXCEPT ![o] = NoSocket]
  BY DEF Lose
<1>3. /\ line'[o] = NoSocket /\ line' \in [Officers -> Sockets \cup {NoSocket}]
      /\ \A p \in Officers \ {o} : line'[p] = line[p]
  BY <1>2 DEF PresenceTypeOK
<1>4. PresenceTypeOK'
  BY <1>2, <1>3 DEF PresenceTypeOK
<1>5. Fits(o)'
  BY <1>1, <1>2, <1>3, PresenceAssumption DEF Fits
<1>. QED
  BY <1>2, <1>3, <1>4, <1>5, OthersFit

\* What the gateway's list keeps while sockets join, are lost and come back: an entry written
\* in order is the officer's own line (calls.gateway.ts).
THEOREM PresenceInvariant == PresenceSpec => []PresenceInv
<1>1. ASSUME PresenceInv, [PresenceNext]_presenceVars
      PROVE  PresenceInv'
  <2>1. CASE \E o \in Officers : Lose(o)
    BY <1>1, <2>1, LoseStep
  <2>2. CASE \E o \in Officers, s \in Sockets : Connect(o, s) \/ Join(o, s) \/ Refuse(o, s)
    BY <1>1, <2>2, ConnectStep, JoinStep, RefuseStep
  <2>3. CASE \E o \in Officers, s \in Sockets : NoticeEarly(o, s) \/ Notice(o, s)
    BY <1>1, <2>3, NoticeEarlyStep, NoticeStep
  <2>4. CASE UNCHANGED presenceVars
    BY <1>1, <2>4 DEF PresenceInv, PresenceTypeOK, LostIsBehind, EntryIsCurrent, Joined, OnLine,
                      presenceVars
  <2>. QED
    BY <1>1, <2>1, <2>2, <2>3, <2>4 DEF PresenceNext
<1>. QED
  BY <1>1, PresenceInitial, PTL DEF PresenceSpec

\* calls.gateway.ts: an officer who is connected is listed with the socket in use, and one
\* who is away is not listed, unless a socket joined or closed behind the next one.
THEOREM ListedIsReachable == PresenceSpec => []PresenceRight
<1>1. PresenceInv => PresenceRight
  BY DEF PresenceInv, PresenceTypeOK, EntryIsCurrent, PresenceRight, Settled, OnLine
<1>. QED
  BY <1>1, PresenceInvariant, PTL
-----------------------------------------------------------------------------
(* Calls.  While no call ended or came during a set-up, the set-up whose peer*)
(* connection is open is of the call the page shows.                       *)

SetUp == [kind: {"start", "accept"}, with: Officers, pc: 0..MaxPcs]
Event == [kind: Events, from: Officers \cup {NoOfficer}]

CallsState ==
    /\ page \in [Officers -> Page]
    /\ pcs \in [Officers -> SUBSET Pc]
    /\ setUps \in [Officers -> Seq(SetUp)]
    /\ stray \in [Officers -> BOOLEAN]
    /\ inbox \in [Officers -> Seq(Event)]
    /\ raced \in [Officers -> BOOLEAN]

Quiet(o) == page[o].phase \in {"idle", "ended"}

\* A set-up whose peer connection is open is the one the page knows of, and the page is
\* in a call; a page in none has no set-up that nothing can stop.
SetUpFits(o) ==
    ~raced[o] =>
        /\ ~stray[o]
        /\ Quiet(o) => ~page[o].mic /\ ~Early(o)
        /\ \A i \in DOMAIN setUps[o] :
               Open(o, setUps[o][i].pc) => setUps[o][i].pc = page[o].pc /\ ~Quiet(o)

CallsInv == CallsState /\ \A o \in Officers : SetUpFits(o)

-----------------------------------------------------------------------------
\* What an event makes of a page.
Phased(d, phase) == [d EXCEPT !.phase = phase]
Taken(d) == [d EXCEPT !.incoming = NoOfficer]
Offered(d) == [d EXCEPT !.offer = "theirs"]
RungBy(d, from) == [d EXCEPT !.phase = "ringing", !.rung = TRUE, !.peer = from,
                             !.incoming = from]
RingsAt(d, from) == [d EXCEPT !.rung = TRUE, !.peer = from, !.offer = "none"]
Made(d, id, peer) == [d EXCEPT !.pc = id, !.peer = peer]
Calling(d) == [d EXCEPT !.mic = TRUE, !.offer = "own"]
Answered(d) == [d EXCEPT !.mic = TRUE, !.offer = "none", !.phase = "connected"]
Over(phase) == [IdlePage EXCEPT !.phase = phase]

LEMMA PagePhased ==
    ASSUME NEW d \in Page, NEW phase \in {"idle", "calling", "ringing", "connected", "ended"}
    PROVE  /\ Phased(d, phase) \in Page
           /\ Phased(d, phase).phase = phase
           /\ Phased(d, phase).mic = d.mic /\ Phased(d, phase).pc = d.pc
BY DEF Phased, Page

LEMMA PageTaken ==
    ASSUME NEW d \in Page
    PROVE  /\ Taken(d) \in Page /\ Taken(d).phase = d.phase
           /\ Taken(d).mic = d.mic /\ Taken(d).pc = d.pc
BY DEF Taken, Page

LEMMA PageOffered ==
    ASSUME NEW d \in Page
    PROVE  /\ Offered(d) \in Page /\ Offered(d).phase = d.phase
           /\ Offered(d).mic = d.mic /\ Offered(d).pc = d.pc
BY DEF Offered, Page

LEMMA PageRung ==
    ASSUME NEW d \in Page, NEW from \in Officers \cup {NoOfficer}
    PROVE  /\ RungBy(d, from) \in Page /\ RungBy(d, from).phase = "ringing"
           /\ RungBy(d, from).mic = d.mic /\ RungBy(d, from).pc = d.pc
<1> DEFINE a == [d EXCEPT !.phase = "ringing"]   b == [a EXCEPT !.rung = TRUE]
           c == [b EXCEPT !.peer = from]         e == [c EXCEPT !.incoming = from]
<1>1. a \in Page /\ a.phase = "ringing" /\ a.mic = d.mic /\ a.pc = d.pc
    BY DEF Page
<1> HIDE DEF a
<1>2. b \in Page /\ b.phase = "ringing" /\ b.mic = d.mic /\ b.pc = d.pc
    BY <1>1 DEF Page
<1> HIDE DEF b
<1>3. c \in Page /\ c.phase = "ringing" /\ c.mic = d.mic /\ c.pc = d.pc
    BY <1>2 DEF Page
<1> HIDE DEF c
<1>4. e \in Page /\ e.phase = "ringing" /\ e.mic = d.mic /\ e.pc = d.pc
    BY <1>3 DEF Page
<1>5. RungBy(d, from) = e
    BY DEF RungBy, a, b, c
<1> HIDE DEF e
<1> QED
    BY <1>4, <1>5

LEMMA PageRings ==
    ASSUME NEW d \in Page, NEW from \in Officers \cup {NoOfficer}
    PROVE  /\ RingsAt(d, from) \in Page /\ RingsAt(d, from).phase = d.phase
           /\ RingsAt(d, from).mic = d.mic /\ RingsAt(d, from).pc = d.pc
<1> DEFINE a == [d EXCEPT !.rung = TRUE]   b == [a EXCEPT !.peer = from]
           e == [b EXCEPT !.offer = "none"]
<1>1. a \in Page /\ a.phase = d.phase /\ a.mic = d.mic /\ a.pc = d.pc
    BY DEF Page
<1> HIDE DEF a
<1>2. b \in Page /\ b.phase = d.phase /\ b.mic = d.mic /\ b.pc = d.pc
    BY <1>1 DEF Page
<1> HIDE DEF b
<1>3. e \in Page /\ e.phase = d.phase /\ e.mic = d.mic /\ e.pc = d.pc
    BY <1>2 DEF Page
<1>4. RingsAt(d, from) = e
    BY DEF RingsAt, a, b
<1> HIDE DEF e
<1> QED
    BY <1>3, <1>4

LEMMA PageMade ==
    ASSUME NEW d \in Page, NEW id \in 1..MaxPcs, NEW peer \in Officers \cup {NoOfficer}
    PROVE  /\ Made(d, id, peer) \in Page /\ Made(d, id, peer).phase = d.phase
           /\ Made(d, id, peer).mic = d.mic /\ Made(d, id, peer).pc = id
<1> DEFINE a == [d EXCEPT !.pc = id]   e == [a EXCEPT !.peer = peer]
<1>0. id \in 0..MaxPcs
    OBVIOUS
<1>1. a \in Page /\ a.phase = d.phase /\ a.mic = d.mic /\ a.pc = id
    BY <1>0 DEF Page
<1> HIDE DEF a
<1>2. e \in Page /\ e.phase = d.phase /\ e.mic = d.mic /\ e.pc = id
    BY <1>1 DEF Page
<1>3. Made(d, id, peer) = e
    BY DEF Made, a
<1> HIDE DEF e
<1> QED
    BY <1>2, <1>3

LEMMA PageCalling ==
    ASSUME NEW d \in Page
    PROVE  /\ Calling(d) \in Page /\ Calling(d).phase = d.phase
           /\ Calling(d).mic /\ Calling(d).pc = d.pc
<1> DEFINE a == [d EXCEPT !.mic = TRUE]   e == [a EXCEPT !.offer = "own"]
<1>1. a \in Page /\ a.phase = d.phase /\ a.mic = TRUE /\ a.pc = d.pc
    BY DEF Page
<1> HIDE DEF a
<1>2. e \in Page /\ e.phase = d.phase /\ e.mic = TRUE /\ e.pc = d.pc
    BY <1>1 DEF Page
<1>3. Calling(d) = e
    BY DEF Calling, a
<1> HIDE DEF e
<1> QED
    BY <1>2, <1>3

LEMMA PageAnswered ==
    ASSUME NEW d \in Page
    PROVE  /\ Answered(d) \in Page /\ Answered(d).phase = "connected"
           /\ Answered(d).mic /\ Answered(d).pc = d.pc
<1> DEFINE a == [d EXCEPT !.mic = TRUE]   b == [a EXCEPT !.offer = "none"]
           e == [b EXCEPT !.phase = "connected"]
<1>1. a \in Page /\ a.mic = TRUE /\ a.pc = d.pc
    BY DEF Page
<1> HIDE DEF a
<1>2. b \in Page /\ b.mic = TRUE /\ b.pc = d.pc
    BY <1>1 DEF Page
<1> HIDE DEF b
<1>3. e \in Page /\ e.phase = "connected" /\ e.mic = TRUE /\ e.pc = d.pc
    BY <1>2 DEF Page
<1>4. Answered(d) = e
    BY DEF Answered, a, b
<1> HIDE DEF e
<1> QED
    BY <1>3, <1>4

LEMMA PageOver ==
    ASSUME NEW phase \in {"idle", "ended"}
    PROVE  /\ Over(phase) \in Page /\ Over(phase).phase = phase
           /\ Over(phase).mic = FALSE /\ Over(phase).pc = 0
<1>1. 0 \in 0..MaxPcs
    BY CallsAssumption
<1> QED
    BY <1>1 DEF Over, IdlePage, Page
-----------------------------------------------------------------------------
\* Boxes stay boxes of events.
Boxes == [Officers -> Seq(Event)]

LEMMA WithIsBoxes ==
    ASSUME NEW o, NEW kind \in Events, NEW from \in Officers \cup {NoOfficer},
           NEW boxes \in Boxes
    PROVE  With(o, kind, from, boxes) \in Boxes
<1> DEFINE e == [kind |-> kind, from |-> from]
<1>1. e \in Event
    BY DEF Event
<1> HIDE DEF e
<1>2. CASE o \in Officers
    <2>1. Append(boxes[o], e) \in Seq(Event)
        BY <1>1, <1>2 DEF Boxes
    <2> QED
        BY <1>2, <2>1 DEF With, Boxes, e
<1>3. CASE o \notin Officers
    BY <1>3 DEF With, Boxes
<1> QED
    BY <1>2, <1>3

LEMMA EmitAfterIsBoxes ==
    ASSUME NEW o \in Officers, NEW kind \in Events, NEW to \in Officers \cup {NoOfficer},
           NEW boxes \in Boxes, EmitAfter(o, kind, to, boxes)
    PROVE  inbox' \in Boxes
<1>1. /\ With(to, kind, o, boxes) \in Boxes
      /\ With(o, "unavailable", to, boxes) \in Boxes
    BY WithIsBoxes DEF Events
<1> QED
    BY <1>1 DEF EmitAfter

LEMMA EmitIsBoxes ==
    ASSUME NEW o \in Officers, NEW kind \in Events, NEW to \in Officers \cup {NoOfficer},
           inbox \in Boxes, Emit(o, kind, to)
    PROVE  inbox' \in Boxes
BY EmitAfterIsBoxes DEF Emit

LEMMA InviteIsBoxes ==
    ASSUME NEW o \in Officers, NEW to \in Officers, inbox \in Boxes, Invite(o, to)
    PROVE  inbox' \in Boxes
<1>1. CASE Joined(o) /\ presence[to] # NoSocket
    <2> DEFINE rings == With(o, "ringing", to, inbox)
    <2>1. rings \in Boxes
        BY WithIsBoxes DEF Events
    <2> HIDE DEF rings
    <2>2. With(to, "incoming", o, rings) \in Boxes
        BY <2>1, WithIsBoxes DEF Events
    <2>3. inbox' = IF Reached(to) THEN With(to, "incoming", o, rings) ELSE rings
        BY <1>1 DEF Invite, rings
    <2> QED
        BY <2>1, <2>2, <2>3
<1>2. CASE ~(Joined(o) /\ presence[to] # NoSocket)
    BY <1>2, EmitIsBoxes DEF Invite, Events
<1> QED
    BY <1>1, <1>2

\* The event a page handles, and the box without it.
LEMMA HeadIsEvent ==
    ASSUME inbox \in Boxes, NEW o \in Officers, inbox[o] # <<>>
    PROVE  /\ From(o) \in Officers \cup {NoOfficer}
           /\ Rest(o) \in Boxes
<1>1. Head(inbox[o]) \in Event /\ Tail(inbox[o]) \in Seq(Event)
    BY DEF Boxes
<1> QED
    BY <1>1 DEF From, Rest, Boxes, Event

LEMMA ConcatIs ==
    ASSUME NEW S, NEW a \in Seq(S), NEW b \in Seq(S)
    PROVE  /\ a \o b \in Seq(S) /\ Len(a \o b) = Len(a) + Len(b)
           /\ \A j \in 1..Len(a) + Len(b) :
                  (a \o b)[j] = IF j <= Len(a) THEN a[j] ELSE b[j - Len(a)]
OBVIOUS

LEMMA RemoveAtIs ==
    ASSUME NEW S, NEW s \in Seq(S), NEW i \in DOMAIN s
    PROVE  /\ RemoveAt(s, i) \in Seq(S)
           /\ \A j \in DOMAIN RemoveAt(s, i) : \E k \in DOMAIN s : RemoveAt(s, i)[j] = s[k]
<1> DEFINE n == Len(s)   a == SubSeq(s, 1, i - 1)   b == SubSeq(s, i + 1, n)
<1>0. n \in Nat /\ i \in 1..n /\ DOMAIN s = 1..n
    OBVIOUS
<1>1. /\ a \in Seq(S) /\ Len(a) = i - 1
      /\ \A j \in 1..i - 1 : a[j] = s[j]
    BY <1>0
<1>2. /\ b \in Seq(S) /\ Len(b) = n - i
      /\ \A j \in 1..n - i : b[j] = s[i + j]
    BY <1>0
<1> HIDE DEF a, b
<1>3. /\ a \o b \in Seq(S) /\ DOMAIN (a \o b) = 1..n - 1
      /\ \A j \in 1..n - 1 : (a \o b)[j] = IF j <= i - 1 THEN a[j] ELSE b[j - (i - 1)]
    <2>1. /\ a \o b \in Seq(S) /\ Len(a \o b) = Len(a) + Len(b)
          /\ \A j \in 1..Len(a) + Len(b) :
                 (a \o b)[j] = IF j <= Len(a) THEN a[j] ELSE b[j - Len(a)]
        BY <1>1, <1>2, ConcatIs
    <2>2. Len(a) + Len(b) = n - 1
        BY <1>0, <1>1, <1>2
    <2>3. DOMAIN (a \o b) = 1..n - 1
        BY <2>1, <2>2
    <2> QED
        BY <1>1, <2>1, <2>2, <2>3
<1>4. RemoveAt(s, i) = a \o b
    BY DEF RemoveAt, a, b
<1>5. ASSUME NEW j \in 1..n - 1 PROVE \E k \in 1..n : (a \o b)[j] = s[k]
    <2>1. CASE j <= i - 1
        <3>1. j \in 1..i - 1 /\ j \in 1..n
            BY <1>0, <2>1
        <3> QED
            BY <1>1, <1>3, <2>1, <3>1
    <2>2. CASE ~(j <= i - 1)
        <3>1. j - (i - 1) \in 1..n - i /\ i + (j - (i - 1)) \in 1..n
            BY <1>0, <2>2
        <3>2. (a \o b)[j] = s[i + (j - (i - 1))]
            BY <1>2, <1>3, <2>2, <3>1
        <3> QED
            BY <3>1, <3>2
    <2> QED
        BY <2>1, <2>2
<1> QED
    BY <1>0, <1>3, <1>4, <1>5
-----------------------------------------------------------------------------
\* Set-ups of a page that are as they were, or have only begun.
OldOrEarly(o) ==
    \A i \in DOMAIN setUps'[o] :
        \/ \E k \in DOMAIN setUps[o] : setUps'[o][i] = setUps[o][k]
        \/ setUps'[o][i].pc = 0 /\ ~Quiet(o)'

\* A step that closes nothing and opens nothing.
LEMMA FitsStill ==
    ASSUME CallsInv, NEW o \in Officers, CallsState',
           raced'[o] \/ /\ ~raced[o]
                        /\ page'[o].mic => page[o].mic
                        /\ page'[o].pc = page[o].pc
                        /\ Quiet(o)' => Quiet(o)
                        /\ stray'[o] = stray[o]
                        /\ \A p \in pcs'[o] : \E q \in pcs[o] : q.id = p.id
                        /\ OldOrEarly(o)
    PROVE  SetUpFits(o)'
<1> SUFFICES ASSUME ~raced'[o]
             PROVE  /\ ~stray'[o]
                    /\ Quiet(o)' => ~page'[o].mic /\ ~Early(o)'
                    /\ \A i \in DOMAIN setUps'[o] :
                           Open(o, setUps[o][i].pc)' =>
                               setUps'[o][i].pc = page'[o].pc /\ ~Quiet(o)'
    BY DEF SetUpFits
<1>0. ~raced[o] /\ SetUpFits(o)
    BY DEF CallsInv
<1>1. ~stray'[o] /\ (Quiet(o)' => ~page'[o].mic)
    BY <1>0 DEF SetUpFits
<1>2. Quiet(o)' => ~Early(o)'
    BY <1>0 DEF SetUpFits, Early, OldOrEarly
<1>3. ASSUME NEW i \in DOMAIN setUps'[o], Open(o, setUps[o][i].pc)'
      PROVE  setUps'[o][i].pc = page'[o].pc /\ ~Quiet(o)'
    <2>1. setUps'[o][i].pc # 0
        BY <1>3 DEF CallsState, Open, Pc
    <2>2. PICK k \in DOMAIN setUps[o] : setUps'[o][i] = setUps[o][k]
        BY <2>1 DEF OldOrEarly
    <2>3. Open(o, setUps[o][k].pc)
        BY <1>3, <2>2 DEF Open
    <2> QED
        BY <1>0, <2>2, <2>3 DEF SetUpFits
<1> QED
    BY <1>1, <1>2, <1>3

\* A step that ends the call, where it is not too early for that.
LEMMA FitsClosed ==
    ASSUME CallsInv, NEW o \in Officers, CallsState',
           page'[o].mic = FALSE, stray'[o] = stray[o],
           raced'[o] \/ (~raced[o] /\ ~Early(o)),
           \A p \in pcs'[o] : p \in pcs[o] /\ p.id # page[o].pc,
           \A i \in DOMAIN setUps'[o] :
               \E k \in DOMAIN setUps[o] : setUps'[o][i] = setUps[o][k]
    PROVE  SetUpFits(o)'
<1> SUFFICES ASSUME ~raced'[o]
             PROVE  /\ ~stray'[o]
                    /\ ~Early(o)'
                    /\ \A i \in DOMAIN setUps'[o] : ~Open(o, setUps[o][i].pc)'
    BY DEF SetUpFits
<1>0. ~raced[o] /\ ~Early(o) /\ SetUpFits(o)
    BY DEF CallsInv
<1>1. ~stray'[o] /\ ~Early(o)'
    BY <1>0 DEF SetUpFits, Early
<1>2. ASSUME NEW i \in DOMAIN setUps'[o] PROVE ~Open(o, setUps[o][i].pc)'
    <2>1. PICK k \in DOMAIN setUps[o] : setUps'[o][i] = setUps[o][k]
        OBVIOUS
    <2> QED
        BY <1>0, <2>1 DEF SetUpFits, Open
<1> QED
    BY <1>1, <1>2

\* Officers whose page the step is not about.
LEMMA FitsElsewhere ==
    ASSUME CallsInv, NEW o \in Officers,
           page'[o] = page[o], pcs'[o] = pcs[o], setUps'[o] = setUps[o],
           stray'[o] = stray[o], raced'[o] = raced[o]
    PROVE  SetUpFits(o)'
BY DEF CallsInv, SetUpFits, Quiet, Early, Open

\* A step that only shows something else.
LEMMA ShowStep ==
    ASSUME CallsInv, NEW o \in Officers, NEW shown \in Page, Show(o, shown),
           UNCHANGED <<setUps, stray, raced>>, inbox' \in Boxes,
           pcs' \in [Officers -> SUBSET Pc],
           \A q \in Officers \ {o} : pcs'[q] = pcs[q],
           \A p \in pcs'[o] : \E q \in pcs[o] : q.id = p.id,
           shown.mic = page[o].mic, shown.pc = page[o].pc,
           shown.phase \in {"idle", "ended"} => Quiet(o)
    PROVE  CallsInv'
<1>1. /\ page' \in [Officers -> Page] /\ page'[o] = shown
      /\ \A q \in Officers \ {o} : page'[q] = page[q]
    BY DEF CallsInv, CallsState, Show
<1>2. CallsState'
    BY <1>1 DEF CallsInv, CallsState, Boxes
<1>3. Quiet(o)' => Quiet(o)
    BY <1>1 DEF Quiet
<1>4. raced[o] \in BOOLEAN /\ raced'[o] = raced[o] /\ OldOrEarly(o)
    BY DEF CallsInv, CallsState, OldOrEarly
<1>5. SetUpFits(o)'
    BY <1>1, <1>2, <1>3, <1>4, FitsStill
<1>6. \A q \in Officers \ {o} : SetUpFits(q)'
    BY <1>1, FitsElsewhere
<1> QED
    BY <1>2, <1>5, <1>6 DEF CallsInv
\* A step of the connections: no page is about it.
LEMMA LinesStep ==
    ASSUME CallsInv, UNCHANGED pageVars, inbox' \in Boxes
    PROVE  CallsInv'
<1>1. UNCHANGED <<page, pcs, setUps, stray, raced>>
    BY DEF pageVars
<1>2. CallsState'
    BY <1>1 DEF CallsInv, CallsState, Boxes
<1>3. \A q \in Officers : SetUpFits(q)'
    BY <1>1, FitsElsewhere
<1> QED
    BY <1>2, <1>3 DEF CallsInv

\* Everything the steps below ask of the types.
LEMMA CallsTypes ==
    ASSUME CallsInv, NEW o \in Officers
    PROVE  /\ page[o] \in Page /\ pcs[o] \in SUBSET Pc /\ setUps[o] \in Seq(SetUp)
           /\ inbox \in Boxes /\ raced[o] \in BOOLEAN
           /\ page[o].incoming \in Officers \cup {NoOfficer}
           /\ page[o].peer \in Officers \cup {NoOfficer}
           /\ page[o].pc \in 0..MaxPcs
           /\ SetUpFits(o)
BY DEF CallsInv, CallsState, Boxes, Page

\* endCall.
LEMMA EndCallStep ==
    ASSUME CallsInv, NEW o \in Officers, NEW next \in {"idle", "ended"}, EndCall(o, next),
           UNCHANGED stray, inbox' \in Boxes, setUps' \in [Officers -> Seq(SetUp)],
           \A q \in Officers \ {o} : setUps'[q] = setUps[q],
           \A i \in DOMAIN setUps'[o] :
               \E k \in DOMAIN setUps[o] : setUps'[o][i] = setUps[o][k]
    PROVE  CallsInv'
<1>1. page' = [page EXCEPT ![o] = Over(next)]
    BY DEF EndCall, CleanUp, Over
<1>2. /\ page' \in [Officers -> Page] /\ page'[o] = Over(next)
      /\ page'[o].mic = FALSE
      /\ \A q \in Officers \ {o} : page'[q] = page[q]
    BY <1>1, PageOver DEF CallsInv, CallsState
<1>3. /\ pcs' \in [Officers -> SUBSET Pc]
      /\ \A p \in pcs'[o] : p \in pcs[o] /\ p.id # page[o].pc
      /\ \A q \in Officers \ {o} : pcs'[q] = pcs[q]
    BY DEF EndCall, CleanUp, CallsInv, CallsState
<1>4. /\ raced' \in [Officers -> BOOLEAN]
      /\ raced'[o] \/ (~raced[o] /\ ~Early(o))
      /\ \A q \in Officers \ {o} : raced'[q] = raced[q]
    <2> DEFINE early == Early(o)
    <2>1. raced' = [raced EXCEPT ![o] = raced[o] \/ early]
        BY DEF EndCall
    <2>2. raced \in [Officers -> BOOLEAN] /\ early \in BOOLEAN
        BY DEF CallsInv, CallsState, Early
    <2> HIDE DEF early
    <2>3. (raced[o] \/ early) \in BOOLEAN
        OBVIOUS
    <2> DEFINE r == raced[o] \/ early
    <2>4. raced' = [raced EXCEPT ![o] = r] /\ r \in BOOLEAN
        BY <2>1, <2>3
    <2>5. r <=> (raced[o] \/ early)
        OBVIOUS
    <2> HIDE DEF r
    <2>6. /\ raced' \in [Officers -> BOOLEAN] /\ raced'[o] = r
          /\ \A q \in Officers \ {o} : raced'[q] = raced[q]
        BY <2>2, <2>4
    <2> QED
        BY <2>2, <2>5, <2>6 DEF early
<1>5. CallsState'
    BY <1>2, <1>3, <1>4 DEF CallsInv, CallsState, Boxes
<1>6. SetUpFits(o)'
    BY <1>2, <1>3, <1>4, <1>5, FitsClosed
<1>7. \A q \in Officers \ {o} : SetUpFits(q)'
    BY <1>2, <1>3, <1>4, FitsElsewhere
<1> QED
    BY <1>5, <1>6, <1>7 DEF CallsInv

\* A set-up that begins.
LEMMA BeginStep ==
    ASSUME CallsInv, NEW o \in Officers, NEW t \in SetUp, t.pc = 0, NEW shown \in Page,
           Show(o, shown), setUps' = [setUps EXCEPT ![o] = Append(@, t)],
           UNCHANGED <<pcs, stray, raced, inbox>>,
           shown.mic = page[o].mic, shown.pc = page[o].pc,
           shown.phase \notin {"idle", "ended"}
    PROVE  CallsInv'
<1>t. setUps[o] \in Seq(SetUp) /\ raced[o] \in BOOLEAN
    BY CallsTypes
<1>1. /\ page' \in [Officers -> Page] /\ page'[o] = shown
      /\ \A q \in Officers \ {o} : page'[q] = page[q]
    BY DEF CallsInv, CallsState, Show
<1>2. /\ Append(setUps[o], t) \in Seq(SetUp)
      /\ \A i \in DOMAIN Append(setUps[o], t) :
             \/ i \in DOMAIN setUps[o] /\ Append(setUps[o], t)[i] = setUps[o][i]
             \/ Append(setUps[o], t)[i] = t
    BY <1>t
<1>3. /\ setUps' \in [Officers -> Seq(SetUp)] /\ setUps'[o] = Append(setUps[o], t)
      /\ \A q \in Officers \ {o} : setUps'[q] = setUps[q]
    BY <1>2 DEF CallsInv, CallsState
<1>4. CallsState'
    BY <1>1, <1>3 DEF CallsInv, CallsState
<1>5. ~Quiet(o)'
    BY <1>1 DEF Quiet
<1>6. OldOrEarly(o)
    BY <1>2, <1>3, <1>5 DEF OldOrEarly
<1>7. SetUpFits(o)'
    BY <1>t, <1>1, <1>4, <1>5, <1>6, FitsStill
<1>8. \A q \in Officers \ {o} : SetUpFits(q)'
    BY <1>1, <1>3, FitsElsewhere
<1> QED
    BY <1>4, <1>7, <1>8 DEF CallsInv
-----------------------------------------------------------------------------
LEMMA StartCallStep ==
    ASSUME CallsInv, NEW o \in Officers, NEW to \in Officers, StartCall(o, to)
    PROVE  CallsInv'
<1> DEFINE t == [kind |-> "start", with |-> to, pc |-> 0]
           shown == Phased(page[o], "calling")
<1>1. t \in SetUp /\ t.pc = 0
    BY CallsAssumption DEF SetUp
<1>2. /\ shown \in Page /\ shown.phase = "calling"
      /\ shown.mic = page[o].mic /\ shown.pc = page[o].pc
    BY CallsTypes, PagePhased
<1>3. /\ Show(o, shown) /\ setUps' = [setUps EXCEPT ![o] = Append(@, t)]
      /\ UNCHANGED <<pcs, stray, raced, inbox>>
    BY DEF StartCall, Phased
<1> HIDE DEF t, shown
<1> QED
    BY <1>1, <1>2, <1>3, BeginStep

LEMMA AcceptCallStep ==
    ASSUME CallsInv, NEW o \in Officers, AcceptCall(o)
    PROVE  CallsInv'
<1> DEFINE t == [kind |-> "accept", with |-> page[o].incoming, pc |-> 0]
           shown == Taken(page[o])
<1>1. t \in SetUp /\ t.pc = 0
    BY CallsAssumption, CallsTypes DEF SetUp, AcceptCall
<1>2. /\ shown \in Page /\ shown.phase = page[o].phase
      /\ shown.mic = page[o].mic /\ shown.pc = page[o].pc
    BY CallsTypes, PageTaken
<1>3. /\ Show(o, shown) /\ setUps' = [setUps EXCEPT ![o] = Append(@, t)]
      /\ UNCHANGED <<pcs, stray, raced, inbox>> /\ page[o].phase = "ringing"
    BY DEF AcceptCall, Taken
<1>4. shown.phase \notin {"idle", "ended"}
    BY <1>2, <1>3
<1> HIDE DEF t, shown
<1> QED
    BY <1>1, <1>2, <1>3, <1>4, BeginStep

LEMMA DeclineCallStep ==
    ASSUME CallsInv, NEW o \in Officers, DeclineCall(o)
    PROVE  CallsInv'
<1>1. inbox' \in Boxes
    BY CallsTypes, EmitIsBoxes DEF DeclineCall, Events
<1>2. EndCall(o, "idle") /\ UNCHANGED <<stray, setUps>>
    BY DEF DeclineCall
<1>3. setUps' \in [Officers -> Seq(SetUp)]
    BY <1>2 DEF CallsInv, CallsState
<1> QED
    BY <1>1, <1>2, <1>3, EndCallStep

LEMMA HangUpStep ==
    ASSUME CallsInv, NEW o \in Officers, HangUp(o)
    PROVE  CallsInv'
<1>1. inbox' \in Boxes
    <2>1. CASE UNCHANGED inbox
        BY <2>1, CallsTypes
    <2>2. CASE Emit(o, IF page[o].phase = "calling" THEN "cancelled" ELSE "hangup",
                    page[o].peer)
        <3> DEFINE kind == IF page[o].phase = "calling" THEN "cancelled" ELSE "hangup"
        <3>1. kind \in Events
            BY DEF Events
        <3> HIDE DEF kind
        <3> QED
            BY <2>2, <3>1, CallsTypes, EmitIsBoxes DEF kind
    <2> QED
        BY <2>1, <2>2 DEF HangUp
<1>2. EndCall(o, "idle") /\ UNCHANGED <<stray, setUps>>
    BY DEF HangUp
<1>3. setUps' \in [Officers -> Seq(SetUp)]
    BY <1>2 DEF CallsInv, CallsState
<1> QED
    BY <1>1, <1>2, <1>3, EndCallStep

LEMMA OnEndStep ==
    ASSUME CallsInv, NEW o \in Officers, OnEnd(o)
    PROVE  CallsInv'
<1>1. inbox' \in Boxes
    BY CallsTypes, HeadIsEvent DEF OnEnd, Heads
<1>2. (EndCall(o, "ended") \/ EndCall(o, "idle")) /\ UNCHANGED <<stray, setUps>>
    BY DEF OnEnd
<1>3. setUps' \in [Officers -> Seq(SetUp)]
    BY <1>2 DEF CallsInv, CallsState
<1> QED
    BY <1>1, <1>2, <1>3, EndCallStep

LEMMA OnGoneStep ==
    ASSUME CallsInv, NEW o \in Officers, OnGone(o)
    PROVE  CallsInv'
<1>1. inbox' \in Boxes
    BY CallsTypes, HeadIsEvent DEF OnGone, Heads
<1>2. UNCHANGED <<stray, setUps>> /\ setUps' \in [Officers -> Seq(SetUp)]
    BY DEF OnGone, CallsInv, CallsState
<1>3. CASE EndCall(o, "ended")
    BY <1>1, <1>2, <1>3, EndCallStep
<1>4. CASE UNCHANGED <<page, pcs, timers, raced>>
    BY <1>1, <1>2, <1>4, LinesStep DEF pageVars
<1> QED
    BY <1>3, <1>4 DEF OnGone

\* The set-up that made it this far is gone; another may not be.
LEMMA SetUpFailsStep ==
    ASSUME CallsInv, NEW o \in Officers, NEW i \in DOMAIN setUps[o], SetUpFails(o, i)
    PROVE  CallsInv'
<1>1. setUps[o] \in Seq(SetUp) /\ setUps[o][i] \in SetUp
    BY CallsTypes
<1>2. /\ RemoveAt(setUps[o], i) \in Seq(SetUp)
      /\ \A j \in DOMAIN RemoveAt(setUps[o], i) :
             \E k \in DOMAIN setUps[o] : RemoveAt(setUps[o], i)[j] = setUps[o][k]
    BY <1>1, RemoveAtIs
<1>3. setUps' = [setUps EXCEPT ![o] = RemoveAt(@, i)] /\ UNCHANGED stray
    BY DEF SetUpFails
<1>4. /\ setUps' \in [Officers -> Seq(SetUp)] /\ setUps'[o] = RemoveAt(setUps[o], i)
      /\ \A q \in Officers \ {o} : setUps'[q] = setUps[q]
    BY <1>2, <1>3 DEF CallsInv, CallsState
<1>5. CASE EndCall(o, "ended") /\ UNCHANGED inbox
    BY <1>2, <1>3, <1>4, <1>5, CallsTypes, EndCallStep
<1>6. CASE EndCall(o, "idle") /\ Emit(o, "declined", setUps[o][i].with)
    <2>1. inbox' \in Boxes
        BY <1>1, <1>6, CallsTypes, EmitIsBoxes DEF SetUp, Events
    <2> QED
        BY <1>2, <1>3, <1>4, <1>6, <2>1, EndCallStep
<1> QED
    BY <1>5, <1>6 DEF SetUpFails
-----------------------------------------------------------------------------
LEMMA TimerFiresStep ==
    ASSUME CallsInv, NEW o \in Officers, TimerFires(o)
    PROVE  CallsInv'
<1> DEFINE shown == Phased(page[o], "idle")
           early == raced[o] \/ page[o].phase \notin {"idle", "ended"}
<1>0. UNCHANGED <<pcs, setUps, stray, inbox>> /\ Show(o, shown)
      /\ raced' = [raced EXCEPT ![o] = early]
    BY DEF TimerFires, Phased
<1>1. /\ shown \in Page /\ shown.phase = "idle"
      /\ shown.mic = page[o].mic /\ shown.pc = page[o].pc
    BY CallsTypes, PagePhased
<1>2. early \in BOOLEAN /\ (~early => ~raced[o] /\ Quiet(o))
    BY DEF Quiet
<1> HIDE DEF shown, early
<1>3. /\ page' \in [Officers -> Page] /\ page'[o] = shown
      /\ \A q \in Officers \ {o} : page'[q] = page[q]
    BY <1>0, <1>1 DEF CallsInv, CallsState, Show
<1>4. /\ raced' \in [Officers -> BOOLEAN] /\ raced'[o] = early
      /\ \A q \in Officers \ {o} : raced'[q] = raced[q]
    BY <1>0, <1>2 DEF CallsInv, CallsState
<1>5. CallsState'
    BY <1>0, <1>3, <1>4 DEF CallsInv, CallsState
<1>6. SetUpFits(o)'
    <2>1. OldOrEarly(o)
        BY <1>0 DEF OldOrEarly
    <2> QED
        BY <1>0, <1>1, <1>2, <1>3, <1>4, <1>5, <2>1, FitsStill
<1>7. \A q \in Officers \ {o} : SetUpFits(q)'
    BY <1>0, <1>3, <1>4, FitsElsewhere
<1> QED
    BY <1>5, <1>6, <1>7 DEF CallsInv

LEMMA OnIncomingStep ==
    ASSUME CallsInv, NEW o \in Officers, OnIncoming(o)
    PROVE  CallsInv'
<1> DEFINE shown == RungBy(page[o], From(o))
<1>0. /\ UNCHANGED <<pcs, setUps, stray, raced>> /\ Show(o, shown) /\ inbox[o] # <<>>
      /\ inbox' = Rest(o)
    BY DEF OnIncoming, RungBy, Heads
<1>1. From(o) \in Officers \cup {NoOfficer} /\ inbox' \in Boxes
    BY <1>0, CallsTypes, HeadIsEvent
<1>2. /\ shown \in Page /\ shown.phase = "ringing"
      /\ shown.mic = page[o].mic /\ shown.pc = page[o].pc
    BY <1>1, CallsTypes, PageRung
<1> HIDE DEF shown
<1>3. pcs' \in [Officers -> SUBSET Pc]
    BY <1>0 DEF CallsInv, CallsState
<1> QED
    BY <1>0, <1>1, <1>2, <1>3, ShowStep

LEMMA OnRingingStep ==
    ASSUME CallsInv, NEW o \in Officers, OnRinging(o)
    PROVE  CallsInv'
<1> DEFINE shown == RingsAt(page[o], From(o))
<1>0. /\ UNCHANGED <<pcs, setUps, stray, raced>> /\ Show(o, shown) /\ inbox[o] # <<>>
      /\ inbox' = Rest(o) \/ EmitAfter(o, "offer", From(o), Rest(o))
    BY DEF OnRinging, RingsAt, Heads
<1>1. From(o) \in Officers \cup {NoOfficer} /\ Rest(o) \in Boxes
    BY <1>0, CallsTypes, HeadIsEvent
<1>2. inbox' \in Boxes
    BY <1>0, <1>1, EmitAfterIsBoxes DEF Events
<1>3. /\ shown \in Page /\ shown.phase = page[o].phase
      /\ shown.mic = page[o].mic /\ shown.pc = page[o].pc
    BY <1>1, CallsTypes, PageRings
<1> HIDE DEF shown
<1>4. pcs' \in [Officers -> SUBSET Pc]
    BY <1>0 DEF CallsInv, CallsState
<1>5. shown.phase \in {"idle", "ended"} => Quiet(o)
    BY <1>3 DEF Quiet
<1> QED
    BY <1>0, <1>2, <1>3, <1>4, <1>5, ShowStep

\* Peer connections that only move on: each is one there was.
LEMMA MovedOn ==
    ASSUME NEW p \in Pc, NEW s \in {"new", "set", "up"}
    PROVE  [p EXCEPT !.state = s] \in Pc /\ [p EXCEPT !.state = s].id = p.id
BY DEF Pc

LEMMA OnSignalStep ==
    ASSUME CallsInv, NEW o \in Officers, OnSignal(o)
    PROVE  CallsInv'
<1>0. UNCHANGED <<setUps, stray, raced>> /\ inbox' = Rest(o) /\ inbox[o] # <<>>
    BY DEF OnSignal, Heads
<1>1. inbox' \in Boxes
    BY <1>0, CallsTypes, HeadIsEvent
<1>2. CASE Head(inbox[o]).kind = "offer"
    <2> DEFINE shown == Offered(page[o])
    <2>1. Show(o, shown) /\ UNCHANGED pcs
        BY <1>2 DEF OnSignal, Offered
    <2>2. /\ shown \in Page /\ shown.phase = page[o].phase
          /\ shown.mic = page[o].mic /\ shown.pc = page[o].pc
        BY CallsTypes, PageOffered
    <2> HIDE DEF shown
    <2>3. pcs' \in [Officers -> SUBSET Pc]
        BY <2>1 DEF CallsInv, CallsState
    <2>4. shown.phase \in {"idle", "ended"} => Quiet(o)
        BY <2>2 DEF Quiet
    <2> QED
        BY <1>0, <1>1, <2>1, <2>2, <2>3, <2>4, ShowStep
<1>3. CASE Head(inbox[o]).kind # "offer"
    <2> DEFINE moved == {IF p.id = page[o].pc /\ p.state = "new"
                         THEN [p EXCEPT !.state = "set"] ELSE p : p \in pcs[o]}
    <2>1. pcs' = [pcs EXCEPT ![o] = moved] /\ UNCHANGED page
        BY <1>3 DEF OnSignal
    <2>2. ASSUME NEW r \in moved PROVE r \in Pc /\ \E q \in pcs[o] : q.id = r.id
        <3>1. PICK p \in pcs[o] : r = IF p.id = page[o].pc /\ p.state = "new"
                                     THEN [p EXCEPT !.state = "set"] ELSE p
            OBVIOUS
        <3>2. p \in Pc
            BY CallsTypes
        <3>3. [p EXCEPT !.state = "set"] \in Pc /\ [p EXCEPT !.state = "set"].id = p.id
            BY <3>2, MovedOn
        <3> QED
            BY <3>1, <3>2, <3>3
    <2> HIDE DEF moved
    <2>3. /\ pcs' \in [Officers -> SUBSET Pc] /\ pcs'[o] = moved
          /\ \A q \in Officers \ {o} : pcs'[q] = pcs[q]
        BY <2>1, <2>2 DEF CallsInv, CallsState
    <2>4. Show(o, page[o])
        BY <2>1 DEF Show, CallsInv, CallsState
    <2>5. page[o] \in Page /\ (page[o].phase \in {"idle", "ended"} => Quiet(o))
        BY CallsTypes DEF Quiet
    <2> QED
        BY <1>0, <1>1, <2>2, <2>3, <2>4, <2>5, ShowStep
<1> QED
    BY <1>2, <1>3

LEMMA TrickleStep ==
    ASSUME CallsInv, NEW o \in Officers, Trickle(o)
    PROVE  CallsInv'
<1>1. inbox' \in Boxes
    BY CallsTypes, WithIsBoxes DEF Trickle, Events
<1> QED
    BY <1>1, LinesStep DEF Trickle

LEMMA PcConnectsStep ==
    ASSUME CallsInv, NEW o \in Officers, NEW p \in pcs[o], PcConnects(o, p)
    PROVE  CallsInv'
<1> DEFINE up == [p EXCEPT !.state = "up"]   shown == Phased(page[o], "connected")
<1>0. /\ UNCHANGED <<setUps, stray, raced, inbox>> /\ Show(o, shown)
      /\ pcs' = [pcs EXCEPT ![o] = (@ \ {p}) \cup {up}]
    BY DEF PcConnects, Phased
<1>1. up \in Pc /\ up.id = p.id
    BY CallsTypes, MovedOn
<1>2. /\ shown \in Page /\ shown.phase = "connected"
      /\ shown.mic = page[o].mic /\ shown.pc = page[o].pc
    BY CallsTypes, PagePhased
<1> HIDE DEF up, shown
<1>3. /\ pcs' \in [Officers -> SUBSET Pc] /\ pcs'[o] = (pcs[o] \ {p}) \cup {up}
      /\ \A q \in Officers \ {o} : pcs'[q] = pcs[q]
    BY <1>0, <1>1 DEF CallsInv, CallsState
<1>4. \A r \in pcs'[o] : \E q \in pcs[o] : q.id = r.id
    BY <1>1, <1>3
<1>5. inbox' \in Boxes
    BY <1>0, CallsTypes
<1> QED
    BY <1>0, <1>2, <1>3, <1>4, <1>5, ShowStep

LEMMA PcFailsStep ==
    ASSUME CallsInv, NEW o \in Officers, NEW p \in pcs[o], PcFails(o, p)
    PROVE  CallsInv'
<1> DEFINE early == raced[o] \/ Early(o)
<1>0. /\ UNCHANGED <<setUps, stray, inbox>>
      /\ page' = [page EXCEPT ![o] = Over("ended")]
      /\ pcs' = [pcs EXCEPT ![o] = {q \in @ : q.id \notin {p.id, page[o].pc}}]
      /\ raced' = [raced EXCEPT ![o] = early]
    BY DEF PcFails, Show, Over
<1>1. early \in BOOLEAN /\ (~early => ~raced[o] /\ ~Early(o))
    OBVIOUS
<1> HIDE DEF early
<1>2. /\ page' \in [Officers -> Page] /\ page'[o].mic = FALSE
      /\ \A q \in Officers \ {o} : page'[q] = page[q]
    BY <1>0, PageOver DEF CallsInv, CallsState
<1>3. /\ pcs' \in [Officers -> SUBSET Pc]
      /\ \A q \in pcs'[o] : q \in pcs[o] /\ q.id # page[o].pc
      /\ \A q \in Officers \ {o} : pcs'[q] = pcs[q]
    BY <1>0 DEF CallsInv, CallsState
<1>4. /\ raced' \in [Officers -> BOOLEAN] /\ raced'[o] = early
      /\ \A q \in Officers \ {o} : raced'[q] = raced[q]
    BY <1>0, <1>1 DEF CallsInv, CallsState
<1>5. CallsState'
    BY <1>0, <1>2, <1>3, <1>4 DEF CallsInv, CallsState
<1>6. SetUpFits(o)'
    BY <1>0, <1>1, <1>2, <1>3, <1>4, <1>5, FitsClosed
<1>7. \A q \in Officers \ {o} : SetUpFits(q)'
    BY <1>0, <1>2, <1>3, <1>4, FitsElsewhere
<1> QED
    BY <1>5, <1>6, <1>7 DEF CallsInv
-----------------------------------------------------------------------------
\* The peer connection the page knows of from now on is the new one, whose number no
\* other set-up has.
LEMMA MakePcStep ==
    ASSUME CallsInv, NEW o \in Officers, NEW i \in DOMAIN setUps[o], MakePc(o, i)
    PROVE  CallsInv'
<1> DEFINE t == setUps[o][i]
           taken == {p.id : p \in pcs[o]} \cup {setUps[o][j].pc : j \in DOMAIN setUps[o]}
           early == raced[o] \/ page[o].pc # 0
<1>t. setUps[o] \in Seq(SetUp) /\ t \in SetUp /\ page[o] \in Page
    BY CallsTypes
<1>0. PICK id \in (1..MaxPcs) \ taken :
          /\ pcs' = [pcs EXCEPT ![o] = @ \cup {[id |-> id, with |-> t.with, state |-> "new"]}]
          /\ setUps' = [setUps EXCEPT ![o][i].pc = id]
          /\ Show(o, [page[o] EXCEPT !.pc = id,
                                     !.peer = IF t.kind = "start" THEN t.with ELSE @])
    BY DEF MakePc
<1>1. t.pc = 0 /\ UNCHANGED <<stray, inbox>> /\ raced' = [raced EXCEPT ![o] = early]
    BY DEF MakePc
<1>2. early \in BOOLEAN /\ (~early => ~raced[o] /\ page[o].pc = 0)
    OBVIOUS
<1> DEFINE pc == [id |-> id, with |-> t.with, state |-> "new"]
           peer == IF t.kind = "start" THEN t.with ELSE page[o].peer
           shown == Made(page[o], id, peer)
           made == [t EXCEPT !.pc = id]
<1>3. pc \in Pc /\ pc.id = id
    BY <1>t DEF Pc, SetUp
<1>4. made \in SetUp /\ made.pc = id
    <2>1. id \in 0..MaxPcs
        OBVIOUS
    <2> QED
        BY <1>t, <2>1 DEF SetUp
<1>5. /\ shown \in Page /\ shown.phase = page[o].phase
      /\ shown.mic = page[o].mic /\ shown.pc = id
    <2>1. peer \in Officers \cup {NoOfficer}
        BY <1>t DEF SetUp, Page
    <2> HIDE DEF peer
    <2> QED
        BY <1>t, <2>1, PageMade
<1>6. Show(o, shown)
    BY <1>0 DEF Made
<1>7. setUps' = [setUps EXCEPT ![o] = [setUps[o] EXCEPT ![i] = made]]
    BY <1>0, <1>t DEF CallsInv, CallsState
<1>8. \A j \in DOMAIN setUps[o] : setUps[o][j].pc # id
    OBVIOUS
<1>e. early <=> (raced[o] \/ page[o].pc # 0)
    OBVIOUS
<1> HIDE DEF t, taken, early, pc, peer, shown, made
<1>9. /\ page' \in [Officers -> Page] /\ page'[o] = shown
      /\ \A q \in Officers \ {o} : page'[q] = page[q]
    BY <1>5, <1>6 DEF CallsInv, CallsState, Show
<1>10. /\ pcs' \in [Officers -> SUBSET Pc] /\ pcs'[o] = pcs[o] \cup {pc}
       /\ \A q \in Officers \ {o} : pcs'[q] = pcs[q]
    <2>1. pcs' = [pcs EXCEPT ![o] = @ \cup {pc}]
        BY <1>0 DEF pc
    <2> QED
        BY <1>3, <2>1 DEF CallsInv, CallsState
<1>11. /\ [setUps[o] EXCEPT ![i] = made] \in Seq(SetUp)
       /\ DOMAIN [setUps[o] EXCEPT ![i] = made] = DOMAIN setUps[o]
       /\ \A j \in DOMAIN setUps[o] :
              [setUps[o] EXCEPT ![i] = made][j] = IF j = i THEN made ELSE setUps[o][j]
    BY <1>t, <1>4
<1>12. /\ setUps' \in [Officers -> Seq(SetUp)] /\ DOMAIN setUps'[o] = DOMAIN setUps[o]
       /\ \A j \in DOMAIN setUps[o] : setUps'[o][j] = IF j = i THEN made ELSE setUps[o][j]
       /\ \A q \in Officers \ {o} : setUps'[q] = setUps[q]
    BY <1>7, <1>11 DEF CallsInv, CallsState
<1>13. /\ raced' \in [Officers -> BOOLEAN] /\ raced'[o] = early
       /\ \A q \in Officers \ {o} : raced'[q] = raced[q]
    BY <1>1, <1>2 DEF CallsInv, CallsState
<1>14. CallsState'
    BY <1>1, <1>9, <1>10, <1>12, <1>13 DEF CallsInv, CallsState
<1>15. SetUpFits(o)'
    <2> SUFFICES ASSUME ~early
                 PROVE  /\ ~stray[o]
                        /\ Quiet(o)' => ~page'[o].mic /\ ~Early(o)'
                        /\ \A j \in DOMAIN setUps'[o] :
                               Open(o, setUps[o][j].pc)' =>
                                   setUps'[o][j].pc = page'[o].pc /\ ~Quiet(o)'
        BY <1>1, <1>13 DEF SetUpFits
    <2>1. ~raced[o] /\ page[o].pc = 0 /\ SetUpFits(o)
        BY <1>2, CallsTypes
    <2>2. Quiet(o)' <=> Quiet(o)
        BY <1>5, <1>9 DEF Quiet
    <2>3. ~stray[o]
        BY <2>1 DEF SetUpFits
    <2>4. Early(o)
        BY <1>1 DEF Early, t
    <2>5. ~Quiet(o)
        BY <2>1, <2>4 DEF SetUpFits
    <2>6. ASSUME NEW j \in DOMAIN setUps[o], j # i
          PROVE  ~Open(o, setUps[o][j].pc)'
        <3>1. ASSUME Open(o, setUps[o][j].pc) PROVE FALSE
            <4>1. setUps[o][j].pc = 0
                BY <2>1, <3>1 DEF SetUpFits
            <4>2. PICK p \in pcs[o] : p.id = 0
                BY <3>1, <4>1 DEF Open
            <4>3. p.id \in 1..MaxPcs
                BY <4>2, CallsTypes DEF Pc
            <4> QED
                BY <4>2, <4>3
        <3>2. setUps'[o][j] = setUps[o][j]
            BY <1>12, <2>6
        <3> QED
            BY <1>3, <1>8, <1>10, <3>1, <3>2 DEF Open
    <2> QED
        BY <1>4, <1>5, <1>9, <1>12, <2>2, <2>3, <2>5, <2>6
<1>16. \A q \in Officers \ {o} : SetUpFits(q)'
    BY <1>1, <1>9, <1>10, <1>12, <1>13, FitsElsewhere
<1> QED
    BY <1>14, <1>15, <1>16 DEF CallsInv

\* A microphone comes on in a call, unless the call was over before.
LEMMA SetUpEndsStep ==
    ASSUME CallsInv, NEW o \in Officers, NEW i \in DOMAIN setUps[o], SetUpEnds(o, i)
    PROVE  CallsInv'
<1> DEFINE t == setUps[o][i]
           strays == stray[o] \/ page[o].mic
           early == raced[o] \/ page[o].mic
           rest == RemoveAt(setUps[o], i)
<1>t. setUps[o] \in Seq(SetUp) /\ t \in SetUp /\ page[o] \in Page /\ page[o].mic \in BOOLEAN
    BY CallsTypes DEF Page
<1>1. /\ t.pc # 0 /\ Open(o, t.pc)
      /\ setUps' = [setUps EXCEPT ![o] = rest]
      /\ stray' = [stray EXCEPT ![o] = strays]
      /\ raced' = [raced EXCEPT ![o] = early]
    BY DEF SetUpEnds
<1>2. /\ strays \in BOOLEAN /\ early \in BOOLEAN
      /\ ~early => ~raced[o] /\ ~page[o].mic
      /\ strays => stray[o] \/ page[o].mic
    OBVIOUS
<1>3. /\ rest \in Seq(SetUp)
      /\ \A j \in DOMAIN rest : \E k \in DOMAIN setUps[o] : rest[j] = setUps[o][k]
    BY <1>t, RemoveAtIs
<1>4. PICK shown \in Page :
          /\ Show(o, shown) /\ shown.pc = page[o].pc
          /\ shown.phase = page[o].phase \/ shown.phase = "connected"
    <2>1. CASE Show(o, Calling(page[o]))
        BY <1>t, <2>1, PageCalling
    <2>2. CASE Show(o, Answered(page[o]))
        BY <1>t, <2>2, PageAnswered
    <2> QED
        BY <2>1, <2>2 DEF SetUpEnds, Calling, Answered
<1>5. /\ pcs' \in [Officers -> SUBSET Pc]
      /\ \A q \in Officers \ {o} : pcs'[q] = pcs[q]
      /\ \A p \in pcs'[o] : \E q \in pcs[o] : q.id = p.id
    <2>1. CASE UNCHANGED pcs
        BY <2>1 DEF CallsInv, CallsState
    <2>2. CASE pcs' = [pcs EXCEPT ![o] = {IF p.id = t.pc THEN [p EXCEPT !.state = "set"] ELSE p :
                                          p \in @}]
        <3> DEFINE moved == {IF p.id = t.pc THEN [p EXCEPT !.state = "set"] ELSE p :
                             p \in pcs[o]}
        <3>1. pcs' = [pcs EXCEPT ![o] = moved]
            BY <2>2
        <3>2. ASSUME NEW r \in moved PROVE r \in Pc /\ \E q \in pcs[o] : q.id = r.id
            <4>1. PICK p \in pcs[o] : r = IF p.id = t.pc THEN [p EXCEPT !.state = "set"] ELSE p
                OBVIOUS
            <4>2. p \in Pc
                BY CallsTypes
            <4>3. [p EXCEPT !.state = "set"] \in Pc /\ [p EXCEPT !.state = "set"].id = p.id
                BY <4>2, MovedOn
            <4> QED
                BY <4>1, <4>2, <4>3
        <3> HIDE DEF moved
        <3> QED
            BY <3>1, <3>2 DEF CallsInv, CallsState
    <2> QED
        BY <2>1, <2>2 DEF SetUpEnds
<1>6. inbox' \in Boxes
    <2>1. CASE Invite(o, t.with)
        BY <1>t, <2>1, CallsTypes, InviteIsBoxes DEF SetUp
    <2>2. CASE Emit(o, "answer", t.with)
        BY <1>t, <2>2, CallsTypes, EmitIsBoxes DEF SetUp, Events
    <2> QED
        BY <2>1, <2>2 DEF SetUpEnds
<1> HIDE DEF t, strays, early, rest
<1>7. /\ page' \in [Officers -> Page] /\ page'[o] = shown
      /\ \A q \in Officers \ {o} : page'[q] = page[q]
    BY <1>4 DEF CallsInv, CallsState, Show
<1>8. /\ setUps' \in [Officers -> Seq(SetUp)] /\ setUps'[o] = rest
      /\ stray' \in [Officers -> BOOLEAN] /\ stray'[o] = strays
      /\ raced' \in [Officers -> BOOLEAN] /\ raced'[o] = early
      /\ \A q \in Officers \ {o} : /\ setUps'[q] = setUps[q] /\ stray'[q] = stray[q]
                                   /\ raced'[q] = raced[q]
    BY <1>1, <1>2, <1>3 DEF CallsInv, CallsState
<1>9. CallsState'
    BY <1>5, <1>6, <1>7, <1>8 DEF CallsState, Boxes
<1>10. SetUpFits(o)'
    <2> SUFFICES ASSUME ~early
                 PROVE  /\ ~strays
                        /\ ~Quiet(o)'
                        /\ \A j \in DOMAIN rest :
                               Open(o, setUps[o][j].pc)' => rest[j].pc = shown.pc
        BY <1>7, <1>8 DEF SetUpFits
    <2>1. ~raced[o] /\ ~page[o].mic /\ SetUpFits(o)
        BY <1>2, CallsTypes
    <2>2. ~strays
        BY <1>2, <2>1 DEF SetUpFits
    <2>3. ~Quiet(o)
        BY <1>1, <2>1 DEF SetUpFits, t
    <2>4. ~Quiet(o)'
        BY <1>4, <1>7, <2>3 DEF Quiet
    <2>5. ASSUME NEW j \in DOMAIN rest, Open(o, setUps[o][j].pc)'
          PROVE  rest[j].pc = shown.pc
        <3>1. PICK k \in DOMAIN setUps[o] : rest[j] = setUps[o][k]
            BY <1>3
        <3>2. Open(o, setUps[o][k].pc)
            BY <1>5, <1>8, <2>5, <3>1 DEF Open
        <3> QED
            BY <1>4, <2>1, <3>1, <3>2 DEF SetUpFits
    <2> QED
        BY <2>2, <2>4, <2>5
<1>11. \A q \in Officers \ {o} : SetUpFits(q)'
    BY <1>5, <1>7, <1>8, FitsElsewhere
<1> QED
    BY <1>9, <1>10, <1>11 DEF CallsInv
-----------------------------------------------------------------------------
LEMMA DropsStep ==
    ASSUME CallsInv, NEW o \in Officers, Drops(o)
    PROVE  CallsInv'
<1>1. UNCHANGED pageVars /\ inbox' = [inbox EXCEPT ![o] = <<>>]
    BY DEF Drops
<1>2. inbox' \in Boxes
    BY <1>1, CallsTypes DEF Boxes
<1> QED
    BY <1>1, <1>2, LinesStep

LEMMA ReloadStep ==
    ASSUME CallsInv, NEW o \in Officers, Reload(o)
    PROVE  CallsInv'
<1>1. IdlePage \in Page /\ IdlePage.mic = FALSE
    BY CallsAssumption DEF IdlePage, Page
<1>2. /\ page' = [page EXCEPT ![o] = IdlePage]
      /\ pcs' = [pcs EXCEPT ![o] = {}]
      /\ setUps' = [setUps EXCEPT ![o] = <<>>]
      /\ stray' = [stray EXCEPT ![o] = FALSE]
      /\ raced' = [raced EXCEPT ![o] = FALSE]
      /\ inbox' = [inbox EXCEPT ![o] = <<>>]
    BY DEF Reload
<1>3. CallsState'
    BY <1>1, <1>2 DEF CallsInv, CallsState
<1>4. /\ page'[o] = IdlePage /\ pcs'[o] = {} /\ setUps'[o] = <<>> /\ stray'[o] = FALSE
    BY <1>2 DEF CallsInv, CallsState
<1>5. SetUpFits(o)'
    BY <1>1, <1>4 DEF SetUpFits, Early
<1>6. \A q \in Officers \ {o} : SetUpFits(q)'
    <2>1. \A q \in Officers \ {o} :
              /\ page'[q] = page[q] /\ pcs'[q] = pcs[q] /\ setUps'[q] = setUps[q]
              /\ stray'[q] = stray[q] /\ raced'[q] = raced[q]
        BY <1>2 DEF CallsInv, CallsState
    <2> QED
        BY <2>1, FitsElsewhere
<1> QED
    BY <1>3, <1>5, <1>6 DEF CallsInv

LEMMA LeavesStep ==
    ASSUME CallsInv, NEW o \in Officers, NEW s \in Sockets, Leaves(o, s)
    PROVE  CallsInv'
<1> DEFINE e == [kind |-> "gone", from |-> o]
<1>1. e \in Event
    BY DEF Event, Events
<1>2. inbox' = [q \in Officers |-> IF Joined(q) THEN Append(inbox[q], e) ELSE inbox[q]]
      /\ UNCHANGED pageVars
    BY DEF Leaves
<1> HIDE DEF e
<1>3. \A q \in Officers : inbox[q] \in Seq(Event) /\ Append(inbox[q], e) \in Seq(Event)
    BY <1>1, CallsTypes DEF Boxes
<1>4. inbox' \in Boxes
    BY <1>2, <1>3 DEF Boxes
<1> QED
    BY <1>2, <1>4, LinesStep

\* What the pages, their connections and their set-ups are while nothing overtook a
\* set-up: an open peer connection that a set-up works on is the page's own and the page
\* is in a call; a page in none has no microphone on (useCallManager.ts).
THEOREM CallsInvariant == CallsSpec => []CallsInv
<1>1. CallsInit => CallsInv
    <2> SUFFICES ASSUME CallsInit PROVE CallsInv
        OBVIOUS
    <2>1. IdlePage \in Page /\ IdlePage.mic = FALSE
        BY CallsAssumption DEF IdlePage, Page
    <2>2. CallsState
        BY <2>1 DEF CallsInit, CallsState
    <2>3. \A o \in Officers : SetUpFits(o)
        BY <2>1 DEF CallsInit, SetUpFits, Early
    <2> QED
        BY <2>2, <2>3 DEF CallsInv
<1>2. ASSUME CallsInv, CallsNext PROVE CallsInv'
    <2>1. PICK o \in Officers :
              \/ AcceptCall(o) \/ DeclineCall(o) \/ HangUp(o) \/ TimerFires(o)
              \/ \E to \in Officers : StartCall(o, to)
              \/ \E i \in DOMAIN setUps[o] :
                     MakePc(o, i) \/ SetUpEnds(o, i) \/ SetUpFails(o, i)
              \/ OnIncoming(o) \/ OnRinging(o) \/ OnSignal(o) \/ OnEnd(o) \/ OnGone(o)
              \/ Trickle(o)
              \/ \E p \in pcs[o] : PcConnects(o, p) \/ PcFails(o, p)
              \/ \E s \in Sockets : Comes(o, s) \/ Settles(o, s) \/ Leaves(o, s)
              \/ Drops(o) \/ Reload(o)
        BY <1>2 DEF CallsNext
    <2>2. CASE \E to \in Officers : StartCall(o, to)
        BY <1>2, <2>2, StartCallStep
    <2>3. CASE \E i \in DOMAIN setUps[o] :
                   MakePc(o, i) \/ SetUpEnds(o, i) \/ SetUpFails(o, i)
        BY <1>2, <2>3, MakePcStep, SetUpEndsStep, SetUpFailsStep
    <2>4. CASE \E p \in pcs[o] : PcConnects(o, p) \/ PcFails(o, p)
        BY <1>2, <2>4, PcConnectsStep, PcFailsStep
    <2>5. CASE \E s \in Sockets : Comes(o, s) \/ Settles(o, s)
        <3>1. inbox' \in Boxes /\ UNCHANGED pageVars
            BY <1>2, <2>5, CallsTypes DEF Comes, Settles
        <3> QED
            BY <1>2, <3>1, LinesStep
    <2>6. CASE \E s \in Sockets : Leaves(o, s)
        BY <1>2, <2>6, LeavesStep
    <2> QED
        BY <1>2, <2>1, <2>2, <2>3, <2>4, <2>5, <2>6, AcceptCallStep, DeclineCallStep,
           HangUpStep, TimerFiresStep, OnIncomingStep, OnRingingStep, OnSignalStep,
           OnEndStep, OnGoneStep, TrickleStep, DropsStep, ReloadStep
<1>3. CallsInv /\ UNCHANGED callsVars => CallsInv'
    BY DEF callsVars, CallsInv, CallsState, SetUpFits, Quiet, Early, Open
<1> QED
    BY <1>1, <1>2, <1>3, PTL DEF CallsSpec

\* Outside a call the microphone is off, unless a call ended or came while a set-up was
\* under way, for any number of officers, set-ups and peer connections.
THEOREM MicIsOffOutside == CallsSpec => []MicOnlyInCall
<1>1. CallsInv => MicOnlyInCall
    BY DEF CallsInv, SetUpFits, Quiet, MicOnlyInCall
<1> QED
    BY <1>1, CallsInvariant, PTL
=============================================================================
