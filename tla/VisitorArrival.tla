--------------------------- MODULE VisitorArrival ----------------------------
(***************************************************************************)
(* A visitor on the way: the page that guides them and, if they choose,    *)
(* reports where they are (useVisitorNavigation.ts, ShareLiveLocation.tsx, *)
(* NavigationScreen.tsx); the position kept with the pass                  *)
(* (live-location.ts); and the notice of the arrival                       *)
(* (arrival-alerts.service.ts).                                            *)
(*                                                                         *)
(* What the page sends may reach the server late, in another order, or     *)
(* never, and each request reads the pass before it writes.  The line of   *)
(* the route is left out; a position is stored or not.                     *)
(***************************************************************************)
EXTENDS Naturals, Sequences, FiniteSets

CONSTANTS
    Posts,          \* requests of the page under way at once
    Fixes,          \* readings of the GPS: distance from the gate and accuracy
    Radius,         \* arrivalRadiusMeters of the estate
    NoReading

ASSUME FixesAssumption ==
    /\ Fixes \subseteq [distance: Nat, accuracy: Nat]
    /\ NoReading \notin Fixes
    /\ Radius \in Nat

VARIABLES
    phone,          \* the page: its phase and what its refs hold
    sharing,        \* the visitor lets the host follow
    post,           \* requests of the page, each with what it has read
    passLive,       \* the pass is ACTIVE or PENDING and has not run out
    spot,           \* the pass's row: a position is stored, the arrival is
    hostTold,       \* notices of the arrival to the host in the last half hour
    heard,          \* the last readings since the guidance was started
    rushed,         \* two reports of an arrival were handled at once
    leftBehind      \* a request to delete the position never came, or came too soon

arrivalVars == <<phone, sharing, post, passLive, spot, hostTold, heard, rushed, leftBehind>>

POOR_ACCURACY_M == 100
ARRIVAL_CONFIRMATIONS == 2
MAX_SHARE_ACCURACY_M == 200

Arrival == {"weak-gps", "far", "near", "arrived"}

PhoneRow == [phase: {"closed", "idle", "locating", "navigating", "arrived"},
             watching: BOOLEAN, streak: 0..ARRIVAL_CONFIRMATIONS, byHand: BOOLEAN,
             problem: {"none", "permission-denied", "no-signal"},
             reading: Fixes \cup {NoReading}]

Quiet == [kind |-> "none", step |-> "idle", live |-> FALSE]

PostRow == [kind: {"none", "position", "stop", "arrived"}, live: BOOLEAN,
            step: {"idle", "sent", "read", "refused", "look", "tell"}]

ArrivalTypeOK ==
    /\ phone \in PhoneRow
    /\ sharing \in BOOLEAN
    /\ post \in [Posts -> PostRow]
    /\ passLive \in BOOLEAN
    /\ spot \in [stored: BOOLEAN, arrived: BOOLEAN]
    /\ hostTold \in Nat
    /\ heard \in Seq(Arrival)
    /\ rushed \in BOOLEAN
    /\ leftBehind \in BOOLEAN

ClosedPage == [phase |-> "closed", watching |-> FALSE, streak |-> 0, byHand |-> FALSE,
               problem |-> "none", reading |-> NoReading]

ArrivalInit ==
    /\ phone = ClosedPage
    /\ sharing = FALSE
    /\ post = [p \in Posts |-> Quiet]
    /\ passLive = TRUE
    /\ spot = [stored |-> FALSE, arrived |-> FALSE]
    /\ hostTold = 0
    /\ heard = <<>>
    /\ rushed = FALSE
    /\ leftBehind = FALSE
-----------------------------------------------------------------------------
evaluateArrival(fix) ==
    CASE fix.accuracy > POOR_ACCURACY_M -> "weak-gps"
      [] fix.accuracy <= POOR_ACCURACY_M /\ fix.distance <= Radius -> "arrived"
      [] fix.accuracy <= POOR_ACCURACY_M /\ fix.distance \in (Radius + 1)..(3 * Radius) -> "near"
      [] OTHER -> "far"

\* Requests that are to delete the position and have not yet.
Deleting == {p \in Posts : post[p].kind \in {"stop", "arrived"} /\ post[p].step \in {"sent", "read"}}

\* Requests under way at once are at most Posts.
Sending(kind) ==
    \E p \in Posts : /\ post[p] = Quiet
                     /\ post' = [post EXCEPT ![p] = [Quiet EXCEPT !.kind = kind, !.step = "sent"]]

\* What the page does once its phase has changed: an arrival ends the sharing and
\* is reported, a guidance that cannot go on ends it too.
PhaseEffect(phase) ==
    IF sharing /\ phase \in {"arrived", "idle"}
    THEN sharing' = FALSE /\ Sending(IF phase = "arrived" THEN "arrived" ELSE "stop")
    ELSE UNCHANGED <<sharing, post>>

Started == [phone EXCEPT !.phase = "locating", !.watching = TRUE, !.streak = 0,
                         !.byHand = FALSE, !.problem = "none"]

\* The page opens on a live pass (getEntranceForInvitation) and starts at once.
OpenNavigation ==
    /\ phone.phase = "closed"
    /\ passLive
    /\ phone' = Started
    /\ heard' = <<>>
    /\ UNCHANGED <<sharing, post, passLive, spot, hostTold, rushed, leftBehind>>

\* "Try again", "Navigate again".
StartNavigation ==
    /\ phone.phase \in {"idle", "arrived"}
    /\ phone' = Started
    /\ heard' = <<>>
    /\ UNCHANGED <<sharing, post, passLive, spot, hostTold, rushed, leftBehind>>

LastTwo(s) == IF Len(s) <= 2 THEN s ELSE SubSeq(s, Len(s) - 1, Len(s))

\* Mutant: readings away from the gate do not break the streak.
HandleFixCounting(fix) ==
    /\ phone.watching
    /\ phone.problem # "permission-denied"
    /\ LET state  == evaluateArrival(fix)
           streak == IF state = "arrived" THEN phone.streak + 1 ELSE phone.streak
           phase  == IF streak >= ARRIVAL_CONFIRMATIONS THEN "arrived" ELSE "navigating"
       IN  /\ phone' = [phone EXCEPT !.phase = phase, !.streak = streak, !.problem = "none",
                                     !.reading = fix, !.watching = phase # "arrived"]
           /\ heard' = LastTwo(Append(heard, state))
           /\ PhaseEffect(phase)
    /\ UNCHANGED <<passLive, spot, hostTold, rushed, leftBehind>>

HandleFix(fix) ==
    /\ phone.watching
    /\ phone.problem # "permission-denied"
    /\ LET state  == evaluateArrival(fix)
           streak == IF state = "arrived" THEN phone.streak + 1 ELSE 0
           phase  == IF streak >= ARRIVAL_CONFIRMATIONS THEN "arrived" ELSE "navigating"
       IN  /\ phone' = [phone EXCEPT !.phase = phase, !.streak = streak, !.problem = "none",
                                     !.reading = fix, !.watching = phase # "arrived"]
           /\ heard' = LastTwo(Append(heard, state))
           /\ PhaseEffect(phase)
    /\ UNCHANGED <<passLive, spot, hostTold, rushed, leftBehind>>

\* handleError: no permission ends the guidance, a bad signal does not.
HandleError ==
    /\ phone.watching
    /\ \/ /\ phone.problem # "permission-denied"
          /\ phone' = [phone EXCEPT !.problem = "permission-denied", !.phase = "idle"]
          /\ PhaseEffect("idle")
       \/ /\ phone.problem = "none"
          /\ phone' = [phone EXCEPT !.problem = "no-signal"]
          /\ UNCHANGED <<sharing, post>>
    /\ UNCHANGED <<passLive, spot, hostTold, heard, rushed, leftBehind>>

\* "I'm at the gate".
ConfirmArrivedManually ==
    /\ phone.phase \in {"locating", "navigating"}
    /\ phone' = [phone EXCEPT !.phase = "arrived", !.watching = FALSE, !.byHand = TRUE]
    /\ PhaseEffect("arrived")
    /\ UNCHANGED <<passLive, spot, hostTold, heard, rushed, leftBehind>>

\* The page is left: nothing is sent.
LeavePage ==
    /\ phone.phase # "closed"
    /\ phone' = ClosedPage
    /\ sharing' = FALSE
    /\ heard' = <<>>
    /\ leftBehind' = (leftBehind \/ sharing)
    /\ UNCHANGED <<post, passLive, spot, hostTold, rushed>>
-----------------------------------------------------------------------------
\* startSharing, which starts the guidance if it is not running.
StartSharing ==
    /\ phone.phase # "closed"
    /\ ~sharing
    /\ sharing' = TRUE
    /\ IF phone.phase \in {"idle", "arrived"}
       THEN phone' = Started /\ heard' = <<>>
       ELSE UNCHANGED <<phone, heard>>
    /\ leftBehind' = FALSE
    /\ UNCHANGED <<post, passLive, spot, hostTold, rushed>>

\* stopSharing.
StopSharing ==
    /\ sharing
    /\ sharing' = FALSE
    /\ Sending("stop")
    /\ UNCHANGED <<phone, passLive, spot, hostTold, heard, rushed, leftBehind>>

\* sendPosition: on the first reading, then on the timer.
SendPosition ==
    /\ sharing
    /\ phone.reading # NoReading
    /\ phone.reading.accuracy <= MAX_SHARE_ACCURACY_M
    /\ Sending("position")
    /\ UNCHANGED <<phone, sharing, passLive, spot, hostTold, heard, rushed, leftBehind>>

\* 410: the page stops sharing.
PositionRefused(p) ==
    /\ post[p].step = "refused"
    /\ post' = [post EXCEPT ![p] = Quiet]
    /\ sharing' = FALSE
    /\ leftBehind' = (leftBehind \/ (sharing /\ spot.stored))
    /\ UNCHANGED <<phone, passLive, spot, hostTold, heard, rushed>>

\* A request that does not arrive, or its handler stops.
LosePost(p) ==
    /\ post[p] # Quiet
    /\ post' = [post EXCEPT ![p] = Quiet]
    /\ leftBehind' = (leftBehind \/ p \in Deleting)
    /\ UNCHANGED <<phone, sharing, passLive, spot, hostTold, heard, rushed>>
-----------------------------------------------------------------------------
\* saveLivePosition and markLiveArrived find the pass by its token.
FindByToken(p) ==
    /\ post[p].step = "sent"
    /\ post[p].kind \in {"position", "arrived"}
    /\ post' = [post EXCEPT ![p].step = "read", ![p].live = passLive]
    /\ UNCHANGED <<phone, sharing, passLive, spot, hostTold, heard, rushed, leftBehind>>

SaveLivePosition(p) ==
    /\ post[p].step = "read"
    /\ post[p].kind = "position"
    /\ IF post[p].live
       THEN /\ spot' = [stored |-> TRUE, arrived |-> FALSE]
            /\ post' = [post EXCEPT ![p] = Quiet]
            /\ leftBehind' = (leftBehind \/ (~sharing /\ Deleting = {}))
       ELSE /\ spot' = [spot EXCEPT !.stored = FALSE]
            /\ post' = [post EXCEPT ![p].step = "refused"]
            /\ UNCHANGED leftBehind
    /\ UNCHANGED <<phone, sharing, passLive, hostTold, heard, rushed>>

\* Mutant: the arrival is written and the position stays.
MarkLiveArrivedOnly(p) ==
    /\ post[p].step = "read"
    /\ post[p].kind = "arrived"
    /\ spot' = [spot EXCEPT !.arrived = @ \/ post[p].live]
    /\ post' = [post EXCEPT ![p].step = "look"]
    /\ UNCHANGED <<phone, sharing, passLive, hostTold, heard, rushed, leftBehind>>

\* The position is deleted; the arrival is remembered if the pass was live.  From
\* here on the report no longer deletes, so a position written now will stay.
MarkLiveArrived(p) ==
    /\ post[p].step = "read"
    /\ post[p].kind = "arrived"
    /\ spot' = [stored |-> FALSE, arrived |-> spot.arrived \/ post[p].live]
    /\ post' = [post EXCEPT ![p].step = "look"]
    /\ UNCHANGED <<phone, sharing, passLive, hostTold, heard, rushed, leftBehind>>

StopLiveSharing(p) ==
    /\ post[p].step = "sent"
    /\ post[p].kind = "stop"
    /\ spot' = [spot EXCEPT !.stored = FALSE]
    /\ post' = [post EXCEPT ![p] = Quiet]
    /\ UNCHANGED <<phone, sharing, passLive, hostTold, heard, rushed, leftBehind>>

\* Mutant: the notices of the last half hour are not looked for.
NotifyHostAgain(p) ==
    /\ post[p].step = "look"
    /\ post' = [post EXCEPT ![p] = IF spot.arrived THEN [@ EXCEPT !.step = "tell"] ELSE Quiet]
    /\ rushed' = (rushed \/ \E q \in Posts : post[q].step = "tell")
    /\ UNCHANGED <<phone, sharing, passLive, spot, hostTold, heard, leftBehind>>

\* notifyHostOfArrival: nothing to tell if no arrival is recorded, or it was told.
NotifyHostOfArrival(p) ==
    /\ post[p].step = "look"
    /\ post' = [post EXCEPT ![p] = IF spot.arrived /\ hostTold = 0
                                   THEN [@ EXCEPT !.step = "tell"] ELSE Quiet]
    /\ rushed' = (rushed \/ \E q \in Posts : post[q].step = "tell")
    /\ UNCHANGED <<phone, sharing, passLive, spot, hostTold, heard, leftBehind>>

TellHost(p) ==
    /\ post[p].step = "tell"
    /\ hostTold' = hostTold + 1
    /\ post' = [post EXCEPT ![p] = Quiet]
    /\ UNCHANGED <<phone, sharing, passLive, spot, heard, rushed, leftBehind>>

\* getLiveForResident deletes a position it finds with a pass that is over.
HostLooks ==
    /\ ~passLive
    /\ spot.stored
    /\ spot' = [spot EXCEPT !.stored = FALSE]
    /\ UNCHANGED <<phone, sharing, post, passLive, hostTold, heard, rushed, leftBehind>>

\* The pass is used, revoked or runs out; an extension may bring it back.
SetPassLive ==
    /\ passLive' = ~passLive
    /\ UNCHANGED <<phone, sharing, post, spot, hostTold, heard, rushed, leftBehind>>

\* Half an hour later.
NoticesAge ==
    /\ hostTold > 0
    /\ \A p \in Posts : post[p].step # "tell"
    /\ hostTold' = 0
    /\ rushed' = FALSE
    /\ UNCHANGED <<phone, sharing, post, passLive, spot, heard, leftBehind>>

ArrivalNext ==
    \/ OpenNavigation \/ StartNavigation \/ HandleError \/ ConfirmArrivedManually \/ LeavePage
    \/ \E fix \in Fixes : HandleFix(fix)
    \/ StartSharing \/ StopSharing \/ SendPosition
    \/ \E p \in Posts :
         \/ PositionRefused(p) \/ LosePost(p) \/ FindByToken(p)
         \/ SaveLivePosition(p) \/ MarkLiveArrived(p) \/ StopLiveSharing(p)
         \/ NotifyHostOfArrival(p) \/ TellHost(p)
    \/ HostLooks \/ SetPassLive \/ NoticesAge

ArrivalSpec == ArrivalInit /\ [][ArrivalNext]_arrivalVars
-----------------------------------------------------------------------------
(* "A single GPS jump near the gate can't trigger it" (geo.ts): a page     *)
(* that says the visitor has arrived was told so by the visitor, or by two *)
(* readings in a row since the guidance was started.                       *)
ArrivalConfirmed ==
    phone.phase = "arrived" => phone.byHand \/ heard = <<"arrived", "arrived">>

(* "Cleared when the visitor stops, arrives, or the invitation ends"       *)
(* (live-location.ts): once the sharing is over and the page's requests    *)
(* are handled, no position is stored, unless the page was left while      *)
(* sharing, a request to delete was lost, or a position overtook it.       *)
NothingLeftBehind ==
    (~sharing /\ spot.stored /\ \A p \in Posts : post[p] = Quiet) => leftBehind

(* The host is told of an arrival once in half an hour, unless two reports *)
(* were past the look for an earlier notice at the same time.              *)
HostToldOnce == hostTold > 1 => rushed
=============================================================================
