---------------------------- MODULE VoiceGuidance ----------------------------
(***************************************************************************)
(* Spoken directions to the gate (VoiceGuidance.tsx, voice-guidance.ts):   *)
(* which instruction a reading of the GPS makes it speak, when it asks for *)
(* another route, and the screen lock it holds meanwhile.                  *)
(*                                                                         *)
(* A route is its steps, each with the distances left at which one of its  *)
(* instructions is due.  A reading is how far the visitor is from the      *)
(* gate, from the line of each step and from the end of each step.         *)
(***************************************************************************)
EXTENDS Naturals, Sequences, FiniteSets

CONSTANTS
    Route,          \* per step, the distances of its instructions
    Readings,
    MaxLocks        \* screen locks asked for and not yet granted

ASSUME RouteAssumption ==
    /\ Route \in Seq(Seq(Nat)) /\ Route # <<>>
    /\ Readings \subseteq [gate: Nat, off: [DOMAIN Route -> Nat], left: [DOMAIN Route -> Nat]]
ASSUME MaxLocksAssumption == MaxLocks \in Nat

VARIABLES
    active,         \* guidance is on
    hasRoute,       \* routeRef: a route has been received
    step,           \* stepRef
    spoken,         \* spokenRef: instructions spoken or skipped on this route
    offCount,       \* offCountRef
    asking,         \* fetchingRef: the reading a route was asked for from, or none
    asked,          \* how lately: "now", "5 s" ago or more, "15 s" ago or more
    locks,          \* the lock in wakeRef, those asked for, those nobody will release
    spokenOrder     \* what was spoken on this route, in order

voiceVars == <<active, hasRoute, step, spoken, offCount, asking, asked, locks, spokenOrder>>

ARRIVED_WITHIN_M == 30
OFF_ROUTE_M == 60

Steps == DOMAIN Route

Instruction == {n \in Steps \X (1..10) : n[2] \in DOMAIN Route[n[1]]}

DistanceOf(n) == Route[n[1]][n[2]]

NotAsking == {}

VoiceTypeOK ==
    /\ {active, hasRoute} \subseteq BOOLEAN
    /\ step \in Steps
    /\ spoken \subseteq Instruction
    /\ offCount \in Nat
    /\ asking \subseteq Readings /\ Cardinality(asking) <= 1
    /\ asked \in {"now", "5 s", "15 s"}
    /\ locks \in [held: BOOLEAN, wanted: 0..MaxLocks, stray: BOOLEAN]
    /\ spokenOrder \in Seq(Instruction)

VoiceInit ==
    /\ active = FALSE
    /\ hasRoute = FALSE
    /\ step = 1
    /\ spoken = {}
    /\ offCount = 0
    /\ asking = NotAsking
    /\ asked = "15 s"
    /\ locks = [held |-> FALSE, wanted |-> 0, stray |-> FALSE]
    /\ spokenOrder = <<>>
-----------------------------------------------------------------------------
\* The step from `from' on whose line is nearest, the first of those.
locateOnRoute(r, from) ==
    CHOOSE i \in Steps :
        /\ i >= from
        /\ \A j \in Steps : j >= from => \/ r.off[i] < r.off[j]
                                         \/ r.off[i] = r.off[j] /\ i <= j

Due(r, i, before) ==
    {n \in Instruction \ before : n[1] = i /\ DistanceOf(n) >= r.left[i]}

\* Of the instructions that are due, the one for the shortest distance.
MostSpecific(due) ==
    CHOOSE n \in due : \A m \in due : DistanceOf(n) <= DistanceOf(m)

\* Mutant: only what was spoken is remembered.
SpokenOnly(due) == IF due = {} THEN {} ELSE {MostSpecific(due)}

\* pickAnnouncement: every due instruction counts as spoken.
Remembered(due) == due

Released == [locks EXCEPT !.held = FALSE]

AskFrom(r) == asking' = {r} /\ asked' = "now"

\* handleFix on a route: find the step and the readings in a row off its line
\* (counted up to two).
Locate(r, from, count) ==
    LET i == locateOnRoute(r, from)
    IN  /\ step' = i
        /\ offCount' = IF r.off[i] > OFF_ROUTE_M THEN (IF count = 0 THEN 1 ELSE 2) ELSE 0

\* ... and say what is due there.
Say(r, i, before, order) ==
    LET due == Due(r, i, before)
    IN  /\ spoken' = before \cup Remembered(due)
        /\ spokenOrder' = IF due = {} THEN order ELSE Append(order, MostSpecific(due))

\* arrive: said aloud, and the guidance is over.
ReachGate ==
    /\ active' = FALSE
    /\ locks' = Released
-----------------------------------------------------------------------------
\* "Start voice guidance".
StartVoice ==
    /\ ~active
    /\ locks.wanted < MaxLocks
    /\ active' = TRUE
    /\ hasRoute' = FALSE
    /\ step' = 1
    /\ spoken' = {}
    /\ offCount' = 0
    /\ locks' = [locks EXCEPT !.wanted = @ + 1]
    /\ spokenOrder' = <<>>
    /\ UNCHANGED <<asking, asked>>

\* A reading accurate to 100 m: without a route one is asked for, on a route it is
\* followed, and after two readings off the line another one is asked for.
VoiceFix(r) ==
    /\ active
    /\ r.gate > ARRIVED_WITHIN_M
    /\ IF ~hasRoute
       THEN /\ IF asking = NotAsking /\ asked # "now" THEN AskFrom(r)
                                                     ELSE UNCHANGED <<asking, asked>>
            /\ UNCHANGED <<step, spoken, offCount, spokenOrder>>
       ELSE /\ Locate(r, step, offCount)
            /\ IF offCount' = 2 /\ asking = NotAsking /\ asked = "15 s"
               THEN AskFrom(r) /\ UNCHANGED <<spoken, spokenOrder>>
               ELSE Say(r, step', spoken, spokenOrder) /\ UNCHANGED <<asking, asked>>
    /\ UNCHANGED <<active, hasRoute, locks>>

\* A reading, or the map, says the visitor is at the gate.
VoiceArrives ==
    /\ active
    /\ ReachGate
    /\ UNCHANGED <<hasRoute, step, spoken, offCount, asking, asked, spokenOrder>>

\* The route arrives, for a guidance that may be over by now, and is followed from
\* where it was asked for.
RouteArrives ==
    /\ asking # NotAsking
    /\ asking' = NotAsking
    /\ hasRoute' = TRUE
    /\ UNCHANGED asked
    /\ LET r == CHOOSE x \in asking : TRUE
       IN  IF r.gate <= ARRIVED_WITHIN_M
           THEN /\ ReachGate
                /\ step' = 1 /\ spoken' = {} /\ offCount' = 0 /\ spokenOrder' = <<>>
           ELSE /\ Locate(r, 1, 0)
                /\ Say(r, step', {}, <<>>)
                /\ UNCHANGED <<active, locks>>

RouteFails ==
    /\ asking # NotAsking
    /\ asking' = NotAsking
    /\ hasRoute' = FALSE
    /\ UNCHANGED <<active, step, spoken, offCount, asked, locks, spokenOrder>>

\* "Stop", the page is left, or the shared feed ends.
StopVoice ==
    /\ active
    /\ active' = FALSE
    /\ locks' = Released
    /\ UNCHANGED <<hasRoute, step, spoken, offCount, asking, asked, spokenOrder>>

\* acquireWakeLock resolves, with a lock or with null, in place of the lock before.
LockAnswered(granted) ==
    /\ locks.wanted > 0
    /\ locks' = [held |-> granted, wanted |-> locks.wanted - 1,
                 stray |-> locks.stray \/ locks.held \/ (granted /\ ~active)]
    /\ UNCHANGED <<active, hasRoute, step, spoken, offCount, asking, asked, spokenOrder>>

\* The phone releases every lock of a hidden page; once visible it asks again.
PageHidden ==
    /\ locks' = [locks EXCEPT !.held = FALSE, !.stray = FALSE]
    /\ UNCHANGED <<active, hasRoute, step, spoken, offCount, asking, asked, spokenOrder>>

PageVisible ==
    /\ active
    /\ locks.wanted < MaxLocks
    /\ locks' = [locks EXCEPT !.wanted = @ + 1]
    /\ UNCHANGED <<active, hasRoute, step, spoken, offCount, asking, asked, spokenOrder>>

SecondsPass ==
    /\ asked' = IF asked = "now" THEN "5 s" ELSE "15 s"
    /\ UNCHANGED <<active, hasRoute, step, spoken, offCount, asking, locks, spokenOrder>>

VoiceNext ==
    \/ StartVoice \/ StopVoice \/ VoiceArrives \/ RouteArrives \/ RouteFails
    \/ \E r \in Readings : VoiceFix(r)
    \/ \E granted \in BOOLEAN : LockAnswered(granted)
    \/ PageHidden \/ PageVisible \/ SecondsPass

VoiceSpec == VoiceInit /\ [][VoiceNext]_voiceVars
-----------------------------------------------------------------------------
(* "An older, vaguer one is skipped, not repeated" and the guidance never  *)
(* goes back a step (voice-guidance.ts): on one route, what is spoken is   *)
(* for a later step than before, or for the same step and a shorter        *)
(* distance.                                                               *)
NeverVaguer ==
    \A i, j \in DOMAIN spokenOrder : i < j =>
        LET n == spokenOrder[i]
            m == spokenOrder[j]
        IN  n[1] < m[1] \/ (n[1] = m[1] /\ DistanceOf(m) < DistanceOf(n))

(* The screen is not kept on by a guidance that is over, unless the lock   *)
(* was granted after the end, or a second one took the first one's place.  *)
LockReleased == (~active /\ locks.held) => locks.stray
=============================================================================
