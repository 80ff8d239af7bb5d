--------------------------- MODULE OfficerPresence ---------------------------
(***************************************************************************)
(* Who is online, as the server's memory has it (calls.gateway.ts): one    *)
(* entry per officer, which is the socket of the last connection that      *)
(* finished its handshake.  The handshake awaits two reads; a connection   *)
(* the phone has lost is noticed later, often after the next one is up.    *)
(***************************************************************************)
CONSTANTS
    Officers,
    Sockets,        \* names for the sockets of one officer
    NoSocket

ASSUME PresenceAssumption == NoSocket \notin Sockets

VARIABLES
    handshake,  \* per officer and socket: "free", "joining", "lost" (closed while
                \* joining) or "joined"
    line,       \* the socket each officer's page is connected by
    presence,   \* the gateway's entry for each officer
    crossed     \* two events of an officer's sockets were handled out of order

presenceVars == <<handshake, line, presence, crossed>>

PresenceTypeOK ==
    /\ handshake \in [Officers -> [Sockets -> {"free", "joining", "lost", "joined"}]]
    /\ line \in [Officers -> Sockets \cup {NoSocket}]
    /\ presence \in [Officers -> Sockets \cup {NoSocket}]
    /\ crossed \in [Officers -> BOOLEAN]

PresenceInit ==
    /\ handshake = [o \in Officers |-> [s \in Sockets |-> "free"]]
    /\ line = [o \in Officers |-> NoSocket]
    /\ presence = [o \in Officers |-> NoSocket]
    /\ crossed = [o \in Officers |-> FALSE]

\* A name nothing refers to any more may stand for a new socket.
Unused(o, s) == handshake[o][s] = "free" /\ presence[o] # s

OnLine(o) == line[o] # NoSocket

Joined(o) == OnLine(o) /\ handshake[o][line[o]] = "joined"

\* What becomes of a socket that is past its handshake.
PastHandshake(state) == IF state = "lost" THEN "free" ELSE "joined"
-----------------------------------------------------------------------------
Connect(o, s) ==
    /\ ~OnLine(o)
    /\ Unused(o, s)
    /\ handshake' = [handshake EXCEPT ![o][s] = "joining"]
    /\ line' = [line EXCEPT ![o] = s]
    /\ UNCHANGED <<presence, crossed>>

\* Mutant: the first socket of an officer keeps the entry.
JoinFirstWins(o, s) ==
    /\ handshake[o][s] \in {"joining", "lost"}
    /\ handshake' = [handshake EXCEPT ![o][s] = PastHandshake(@)]
    /\ presence' = [presence EXCEPT ![o] = IF @ = NoSocket THEN s ELSE @]
    /\ crossed' = [crossed EXCEPT ![o] = line[o] # s]
    /\ UNCHANGED line

\* handleConnection, past its awaits: the entry is written even when the socket is
\* no longer the officer's line, or is closed already.
Join(o, s) ==
    /\ handshake[o][s] \in {"joining", "lost"}
    /\ handshake' = [handshake EXCEPT ![o][s] = PastHandshake(@)]
    /\ presence' = [presence EXCEPT ![o] = s]
    /\ crossed' = [crossed EXCEPT ![o] = line[o] # s]
    /\ UNCHANGED line

\* ... or refused: no session, not an active officer, a failed read.
Refuse(o, s) ==
    /\ handshake[o][s] \in {"joining", "lost"}
    /\ handshake' = [handshake EXCEPT ![o][s] = "free"]
    /\ line' = [line EXCEPT ![o] = IF @ = s THEN NoSocket ELSE @]
    /\ UNCHANGED <<presence, crossed>>

\* The phone loses its connection; the server does not know yet.
Lose(o) ==
    /\ OnLine(o)
    /\ line' = [line EXCEPT ![o] = NoSocket]
    /\ UNCHANGED <<handshake, presence, crossed>>

\* The close is noticed while handleConnection awaits: handleDisconnect finds no
\* officer on the socket and returns.
NoticeEarly(o, s) ==
    /\ handshake[o][s] = "joining"
    /\ line[o] # s
    /\ handshake' = [handshake EXCEPT ![o][s] = "lost"]
    /\ UNCHANGED <<line, presence, crossed>>

\* handleDisconnect: the officer's entry goes, whichever socket it names.
Notice(o, s) ==
    /\ handshake[o][s] = "joined"
    /\ line[o] # s
    /\ handshake' = [handshake EXCEPT ![o][s] = "free"]
    /\ presence' = [presence EXCEPT ![o] = NoSocket]
    /\ crossed' = [crossed EXCEPT ![o] = @ \/ presence[o] # s]
    /\ UNCHANGED line

PresenceNext ==
    \E o \in Officers :
        \/ Lose(o)
        \/ \E s \in Sockets : \/ Connect(o, s) \/ Join(o, s) \/ Refuse(o, s)
                              \/ NoticeEarly(o, s) \/ Notice(o, s)

PresenceSpec == PresenceInit /\ [][PresenceNext]_presenceVars
-----------------------------------------------------------------------------
\* No socket of the officer is joining, or closed and not noticed.
Settled(o) == \A s \in Sockets : handshake[o][s] # "free" => line[o] = s

(* An officer who is connected can be rung and messaged, through the       *)
(* socket in use, and one who is away is not listed (calls.gateway.ts):    *)
(* unless a socket joined or closed late, behind the officer's next one.   *)
PresenceRight ==
    \A o \in Officers : ~crossed[o] =>
        /\ Joined(o) => presence[o] = line[o]
        /\ (Settled(o) /\ ~OnLine(o)) => presence[o] = NoSocket
=============================================================================
