-------------------------------- MODULE Calls --------------------------------
(***************************************************************************)
(* Voice calls between officers: the page of each officer                  *)
(* (useCallManager.ts) and the gateway that relays between them            *)
(* (calls.gateway.ts).  The gateway handles what a page emits at once, and *)
(* what it emits itself reaches a page in order while the socket lives;    *)
(* the sound goes from page to page, by peer connections.                  *)
(*                                                                         *)
(* A page sets a call up in steps: it awaits the ICE servers, makes the    *)
(* peer connection, awaits the microphone and then finishes.  Whatever     *)
(* ends the call closes the peer connection the page knows of, and leaves  *)
(* the set-up running.                                                     *)
(***************************************************************************)
EXTENDS OfficerPresence, Naturals, Sequences, FiniteSets, SequencesExt

CONSTANTS
    NoOfficer,
    MaxCalls,       \* invitations the gateway relays
    MaxSetUps,      \* set-ups of one page under way at once
    MaxPcs,         \* peer connections of one page at once
    MaxTimers,      \* "Call ended" notices of one page at once
    Roaming         \* the officers who may lose their connection

ASSUME CallsAssumption == MaxPcs \in Nat

VARIABLES
    page,       \* what each page shows and the refs it keeps
    pcs,        \* per page, its open peer connections
    setUps,     \* per page, the set-ups under way
    stray,      \* a page has a microphone on that it lost its reference to
    timers,     \* "Call ended" notices that will turn the page to idle
    inbox,      \* per page, the gateway's events on their way to it
    calls,      \* invitations relayed
    raced       \* a call ended, or another came, while a set-up was under way

pageVars  == <<page, pcs, setUps, stray, timers, raced>>
callsVars == <<presenceVars, page, pcs, setUps, stray, timers, inbox, calls, raced>>

Page == [phase: {"idle", "calling", "ringing", "connected", "ended"},
         rung: BOOLEAN, peer: Officers \cup {NoOfficer}, incoming: Officers \cup {NoOfficer},
         offer: {"none", "own", "theirs"}, pc: 0..MaxPcs, mic: BOOLEAN]

Events == {"incoming", "ringing", "unavailable", "offer", "answer", "declined", "cancelled",
           "hangup", "gone"}

Pc == [id: 1..MaxPcs, with: Officers, state: {"new", "set", "up"}]

\* `rung' stands for a call id in callIdRef: the ids themselves are never compared.
IdlePage == [phase |-> "idle", rung |-> FALSE, peer |-> NoOfficer, incoming |-> NoOfficer,
             offer |-> "none", pc |-> 0, mic |-> FALSE]

CallsTypeOK ==
    /\ PresenceTypeOK
    /\ page \in [Officers -> Page]
    /\ pcs \in [Officers -> SUBSET Pc]
    /\ \A o \in Officers : \A i \in DOMAIN setUps[o] :
           setUps[o][i] \in [kind: {"start", "accept"}, with: Officers, pc: 0..MaxPcs]
    /\ \A o \in Officers : \A i \in DOMAIN inbox[o] : inbox[o][i].kind \in Events
    /\ stray \in [Officers -> BOOLEAN]
    /\ timers \in [Officers -> 0..MaxTimers]
    /\ calls \in 0..MaxCalls
    /\ raced \in [Officers -> BOOLEAN]

CallsInit ==
    /\ PresenceInit
    /\ page = [o \in Officers |-> IdlePage]
    /\ pcs = [o \in Officers |-> {}]
    /\ setUps = [o \in Officers |-> <<>>]
    /\ stray = [o \in Officers |-> FALSE]
    /\ timers = [o \in Officers |-> 0]
    /\ inbox = [o \in Officers |-> <<>>]
    /\ calls = 0
    /\ raced = [o \in Officers |-> FALSE]
-----------------------------------------------------------------------------
With(o, kind, from, boxes) == [boxes EXCEPT ![o] = Append(@, [kind |-> kind, from |-> from])]

\* What goes to a socket the page has lost is lost.
Reached(to) == presence[to] = line[to]

\* A page emits an event.  For an officer without an entry it is answered
\* "unavailable"; so is what a page kept while it was off line, if it arrives at all.
EmitAfter(o, kind, to, boxes) ==
    \/ /\ Joined(o) /\ presence[to] # NoSocket
       /\ inbox' = IF Reached(to) THEN With(to, kind, o, boxes) ELSE boxes
    \/ /\ presence[to] = NoSocket \/ ~Joined(o)
       /\ inbox' = With(o, "unavailable", to, boxes)
    \/ /\ ~Joined(o)
       /\ inbox' = boxes

Emit(o, kind, to) == EmitAfter(o, kind, to, inbox)

\* "call:invite": the caller hears that it rings, once it has a call id.
Invite(o, to) ==
    IF Joined(o) /\ presence[to] # NoSocket
    THEN /\ calls < MaxCalls
         /\ calls' = calls + 1
         /\ inbox' = LET rings == With(o, "ringing", to, inbox)
                     IN  IF Reached(to) THEN With(to, "incoming", o, rings) ELSE rings
    ELSE Emit(o, "incoming", to) /\ UNCHANGED calls

Open(o, id) == \E p \in pcs[o] : p.id = id

\* A set-up that has not made its peer connection yet: nothing can stop it.
Early(o) == \E i \in DOMAIN setUps[o] : setUps[o][i].pc = 0

\* Mutant: the microphone is left on.
CleanUpPc(o, next) ==
    /\ page' = [page EXCEPT ![o] = [IdlePage EXCEPT !.phase = next, !.mic = page[o].mic]]
    /\ pcs' = [pcs EXCEPT ![o] = {p \in @ : p.id # page[o].pc}]

\* cleanup: the peer connection and the microphone the page knows of.
CleanUp(o, next) ==
    /\ page' = [page EXCEPT ![o] = [IdlePage EXCEPT !.phase = next]]
    /\ pcs' = [pcs EXCEPT ![o] = {p \in @ : p.id # page[o].pc}]

\* endCall, here or after one set-up (the i-th) came to its own end.
EndCall(o, next) ==
    /\ CleanUp(o, next)
    /\ timers' = [timers EXCEPT ![o] = IF next = "ended" /\ @ < MaxTimers THEN @ + 1 ELSE @]
    /\ raced' = [raced EXCEPT ![o] = @ \/ Early(o)]

Show(o, shown) == page' = [page EXCEPT ![o] = shown]
-----------------------------------------------------------------------------
\* "Call": the officers listed may be out of date, so any of them may be rung.
StartCall(o, to) ==
    /\ to # o
    /\ page[o].phase = "idle"
    /\ Len(setUps[o]) < MaxSetUps
    /\ Show(o, [page[o] EXCEPT !.phase = "calling"])
    /\ setUps' = [setUps EXCEPT ![o] =
                      Append(@, [kind |-> "start", with |-> to, pc |-> 0])]
    /\ UNCHANGED <<presenceVars, pcs, stray, timers, inbox, calls, raced>>

AcceptCall(o) ==
    /\ page[o].phase = "ringing" /\ page[o].incoming # NoOfficer
    /\ Len(setUps[o]) < MaxSetUps
    /\ Show(o, [page[o] EXCEPT !.incoming = NoOfficer])
    /\ setUps' = [setUps EXCEPT ![o] =
                      Append(@, [kind |-> "accept", with |-> page[o].incoming, pc |-> 0])]
    /\ UNCHANGED <<presenceVars, pcs, stray, timers, inbox, calls, raced>>

DeclineCall(o) ==
    /\ page[o].phase = "ringing" /\ page[o].incoming # NoOfficer
    /\ Emit(o, "declined", page[o].incoming)
    /\ EndCall(o, "idle")
    /\ UNCHANGED <<presenceVars, setUps, stray, calls>>

\* hangUp: told to the other officer if the page knows the call.
HangUp(o) ==
    /\ page[o].phase \in {"calling", "connected"}
    /\ IF page[o].rung /\ page[o].peer # NoOfficer
       THEN Emit(o, IF page[o].phase = "calling" THEN "cancelled" ELSE "hangup", page[o].peer)
       ELSE UNCHANGED inbox
    /\ EndCall(o, "idle")
    /\ UNCHANGED <<presenceVars, setUps, stray, calls>>

\* fetchIceServers answers: the peer connection is made, in place of the last one.
MakePc(o, i) ==
    LET t     == setUps[o][i]
        taken == {p.id : p \in pcs[o]} \cup {setUps[o][j].pc : j \in DOMAIN setUps[o]}
    IN  /\ t.pc = 0
        /\ \E id \in (1..MaxPcs) \ taken :
               /\ \A k \in (1..MaxPcs) \ taken : id <= k
               /\ pcs' = [pcs EXCEPT ![o] = @ \cup {[id |-> id, with |-> t.with, state |-> "new"]}]
               /\ setUps' = [setUps EXCEPT ![o][i].pc = id]
               /\ Show(o, [page[o] EXCEPT !.pc = id,
                                          !.peer = IF t.kind = "start" THEN t.with ELSE @])
        /\ raced' = [raced EXCEPT ![o] = @ \/ page[o].pc # 0]
        /\ UNCHANGED <<presenceVars, stray, timers, inbox, calls>>

\* The set-up cannot go on: the microphone is refused, its peer connection was closed
\* meanwhile, or there is no offer to answer.
SetUpFails(o, i) ==
    LET t == setUps[o][i]
    IN  /\ t.pc # 0
        /\ setUps' = [setUps EXCEPT ![o] = RemoveAt(@, i)]
        /\ \/ t.kind = "start" /\ EndCall(o, "ended") /\ UNCHANGED inbox
           \/ t.kind = "accept" /\ EndCall(o, "idle") /\ Emit(o, "declined", t.with)
        /\ UNCHANGED <<presenceVars, stray, calls>>

\* getUserMedia answers, and the offer or the answer is made and sent.  The microphone
\* takes the place of the last one, which stays on.
SetUpEnds(o, i) ==
    LET t == setUps[o][i]
        usable == Open(o, t.pc) /\ (t.kind = "accept" => page[o].offer # "none")
    IN  /\ t.pc # 0
        /\ usable
        /\ setUps' = [setUps EXCEPT ![o] = RemoveAt(@, i)]
        /\ stray' = [stray EXCEPT ![o] = @ \/ page[o].mic]
        /\ raced' = [raced EXCEPT ![o] = @ \/ page[o].mic]
        /\ \/ /\ t.kind = "start"
              /\ Show(o, [page[o] EXCEPT !.mic = TRUE, !.offer = "own"])
              /\ Invite(o, t.with)
              /\ UNCHANGED pcs
           \/ /\ t.kind = "accept"
              /\ Show(o, [page[o] EXCEPT !.mic = TRUE, !.offer = "none", !.phase = "connected"])
              /\ Emit(o, "answer", t.with) /\ UNCHANGED calls
              /\ pcs' = [pcs EXCEPT ![o] = {IF p.id = t.pc THEN [p EXCEPT !.state = "set"] ELSE p :
                                            p \in @}]
        /\ UNCHANGED <<presenceVars, timers>>

\* The notice "Call ended" is over.
TimerFires(o) ==
    /\ timers[o] > 0
    /\ timers' = [timers EXCEPT ![o] = @ - 1]
    /\ Show(o, [page[o] EXCEPT !.phase = "idle"])
    /\ raced' = [raced EXCEPT ![o] = @ \/ page[o].phase \notin {"idle", "ended"}]
    /\ UNCHANGED <<presenceVars, pcs, setUps, stray, inbox, calls>>
-----------------------------------------------------------------------------
\* The next event for the page, and what stays in its inbox.
Heads(o, kinds) == inbox[o] # <<>> /\ Head(inbox[o]).kind \in kinds

From(o) == Head(inbox[o]).from

Rest(o) == [inbox EXCEPT ![o] = Tail(@)]

\* A call comes in, whatever the page is doing.
OnIncoming(o) ==
    /\ Heads(o, {"incoming"})
    /\ Show(o, [page[o] EXCEPT !.phase = "ringing", !.rung = TRUE, !.peer = From(o),
                               !.incoming = From(o)])
    /\ inbox' = Rest(o)
    /\ UNCHANGED <<presenceVars, pcs, setUps, stray, timers, calls, raced>>

\* The other page rings: an offer that waits is sent.
OnRinging(o) ==
    /\ Heads(o, {"ringing"})
    /\ Show(o, [page[o] EXCEPT !.rung = TRUE, !.peer = From(o), !.offer = "none"])
    /\ IF page[o].offer = "none" THEN inbox' = Rest(o)
                                 ELSE EmitAfter(o, "offer", From(o), Rest(o))
    /\ UNCHANGED <<presenceVars, pcs, setUps, stray, timers, calls, raced>>

OnSignal(o) ==
    /\ Heads(o, {"offer", "answer"})
    /\ IF Head(inbox[o]).kind = "offer"
       THEN Show(o, [page[o] EXCEPT !.offer = "theirs"]) /\ UNCHANGED pcs
       ELSE /\ pcs' = [pcs EXCEPT ![o] = {IF p.id = page[o].pc /\ p.state = "new"
                                          THEN [p EXCEPT !.state = "set"] ELSE p : p \in @}]
            /\ UNCHANGED page
    /\ inbox' = Rest(o)
    /\ UNCHANGED <<presenceVars, setUps, stray, timers, calls, raced>>

\* The call is over, whichever call the event was about.
OnEnd(o) ==
    /\ \/ Heads(o, {"unavailable", "declined", "hangup"}) /\ EndCall(o, "ended")
       \/ Heads(o, {"cancelled"}) /\ EndCall(o, "idle")
    /\ inbox' = Rest(o)
    /\ UNCHANGED <<presenceVars, setUps, stray, calls>>

\* "call:peer-disconnected" is for the page in a call with that officer.
OnGone(o) ==
    /\ Heads(o, {"gone"})
    /\ IF page[o].peer = From(o) THEN EndCall(o, "ended")
                                 ELSE UNCHANGED <<page, pcs, timers, raced>>
    /\ inbox' = Rest(o)
    /\ UNCHANGED <<presenceVars, setUps, stray, calls>>

\* A candidate of a peer connection is sent to an officer without an entry (to any
\* other officer it changes nothing of what is modelled).
Trickle(o) ==
    /\ \E p \in pcs[o] : presence[p.with] = NoSocket
    /\ Joined(o)
    /\ inbox[o] = <<>>
    /\ inbox' = With(o, "unavailable", NoOfficer, inbox)
    /\ UNCHANGED <<presenceVars, pageVars, calls>>
-----------------------------------------------------------------------------
Answering(o, p) == \E q \in pcs[p.with] : q.with = o

\* Sound, from page to page.
PcConnects(o, p) ==
    /\ p \in pcs[o] /\ p.state = "set" /\ Answering(o, p)
    /\ pcs' = [pcs EXCEPT ![o] = (@ \ {p}) \cup {[p EXCEPT !.state = "up"]}]
    /\ Show(o, [page[o] EXCEPT !.phase = "connected"])
    /\ UNCHANGED <<presenceVars, setUps, stray, timers, inbox, calls, raced>>

\* Mutant: a failed connection is only logged.
PcFailsQuietly(o, p) ==
    /\ p \in pcs[o] /\ p.state # "new"
    /\ pcs' = [pcs EXCEPT ![o] = {q \in @ : q.id # p.id}]
    /\ UNCHANGED <<presenceVars, page, setUps, stray, timers, inbox, calls, raced>>

\* A peer connection fails, and with it the call the page shows by now.
PcFails(o, p) ==
    /\ p \in pcs[o] /\ p.state # "new"
    /\ pcs' = [pcs EXCEPT ![o] = {q \in @ : q.id \notin {p.id, page[o].pc}}]
    /\ Show(o, [IdlePage EXCEPT !.phase = "ended"])
    /\ timers' = [timers EXCEPT ![o] = IF @ < MaxTimers THEN @ + 1 ELSE @]
    /\ raced' = [raced EXCEPT ![o] = @ \/ Early(o)]
    /\ UNCHANGED <<presenceVars, setUps, stray, inbox, calls>>

\* The other end is gone: the connection will fail.
PcAlone(o) == \E p \in pcs[o] : ~Answering(o, p) /\ PcFails(o, p)
-----------------------------------------------------------------------------
Comes(o, s) == Connect(o, s) /\ UNCHANGED <<pageVars, inbox, calls>>

Settles(o, s) ==
    /\ Join(o, s) \/ NoticeEarly(o, s) \/ (line[o] # s /\ Refuse(o, s))
    /\ UNCHANGED <<pageVars, inbox, calls>>

\* What is on its way on the lost connection is lost with it.
Drops(o) ==
    /\ o \in Roaming
    /\ Lose(o) \/ \E s \in Sockets : line[o] = s /\ Refuse(o, s)
    /\ inbox' = [inbox EXCEPT ![o] = <<>>]
    /\ UNCHANGED <<pageVars, calls>>

\* The page is closed or loaded again.
Reload(o) ==
    /\ o \in Roaming
    /\ Lose(o)
    /\ page' = [page EXCEPT ![o] = IdlePage]
    /\ pcs' = [pcs EXCEPT ![o] = {}]
    /\ setUps' = [setUps EXCEPT ![o] = <<>>]
    /\ stray' = [stray EXCEPT ![o] = FALSE]
    /\ timers' = [timers EXCEPT ![o] = 0]
    /\ raced' = [raced EXCEPT ![o] = FALSE]
    /\ inbox' = [inbox EXCEPT ![o] = <<>>]
    /\ UNCHANGED calls

\* handleDisconnect tells the estate's officers.
Leaves(o, s) ==
    /\ Notice(o, s)
    /\ inbox' = [q \in Officers |->
                     IF Joined(q) THEN Append(inbox[q], [kind |-> "gone", from |-> o])
                                  ELSE inbox[q]]
    /\ UNCHANGED <<pageVars, calls>>

CallsNext ==
    \E o \in Officers :
        \/ AcceptCall(o) \/ DeclineCall(o) \/ HangUp(o) \/ TimerFires(o)
        \/ \E to \in Officers : StartCall(o, to)
        \/ \E i \in DOMAIN setUps[o] : MakePc(o, i) \/ SetUpEnds(o, i) \/ SetUpFails(o, i)
        \/ OnIncoming(o) \/ OnRinging(o) \/ OnSignal(o) \/ OnEnd(o) \/ OnGone(o) \/ Trickle(o)
        \/ \E p \in pcs[o] : PcConnects(o, p) \/ PcFails(o, p)
        \/ \E s \in Sockets : Comes(o, s) \/ Settles(o, s) \/ Leaves(o, s)
        \/ Drops(o) \/ Reload(o)

\* A peer connection without another end fails in the end: nothing else is assumed.
CallsSpec ==
    /\ CallsInit
    /\ [][CallsNext]_callsVars
    /\ \A o \in Officers : WF_callsVars(PcAlone(o))
-----------------------------------------------------------------------------
(* The microphone is on only while the page shows a call, unless a call    *)
(* ended or another one came while its set-up was under way                *)
(* (useCallManager.ts, cleanup).                                           *)
MicOnlyInCall ==
    \A o \in Officers :
        ((page[o].mic \/ stray[o]) /\ page[o].phase \in {"idle", "ended"}) => raced[o]

\* No other page has a connection to this one.
Alone(o) == \A q \in Officers : \A p \in pcs[q] : p.with # o

(* "the other party needs to be told the line went dead rather than sit    *)
(* there thinking they're still connected" (calls.gateway.ts).             *)
NobodyTalksAlone ==
    \A o \in Officers :
        (page[o].phase = "connected" /\ Alone(o)) ~> (page[o].phase # "connected" \/ ~Alone(o))
=============================================================================
