--------------------------- MODULE EmergencyAlerts ---------------------------
(***************************************************************************)
(* The emergency button of a resident and the staff who answer it          *)
(* (emergency.service.ts, EmergencyButton.tsx, alert-recipients.ts and the *)
(* bell rows of notifications.service.ts).                                 *)
(*                                                                         *)
(* One resident, who may press on several devices.  `raise' looks for the  *)
(* same emergency, creates the alert, and tells the staff: three steps     *)
(* between which other requests run and the server may stop.  A dispatch   *)
(* never throws: if the rows cannot be written nobody hears of it.         *)
(***************************************************************************)
EXTENDS Naturals, Sequences, FiniteSets

CONSTANTS
    Alerts,         \* rows of EmergencyAlert there may be
    Staff,          \* security officers and administrators of the estate
    Devices,        \* where the resident has the button
    Unclaimed       \* no officer, no alert

ASSUME UnclaimedAssumption == Unclaimed \notin Alerts \cup Staff \cup Devices

VARIABLES
    emergency,      \* EmergencyAlert rows
    onDuty,         \* staff whose accounts are ACTIVE
    told,           \* alerts some officer has a bell entry for
    bell,           \* per alert, the notices the resident got, in order
    button,         \* each device: the press under way, or what it shows
    responder,      \* each officer: the answer whose notice is not sent yet
    passedBy        \* pairs of alerts, one created behind the other's look

emergencyVars == <<emergency, onDuty, told, bell, button, responder, passedBy>>

Live == {"OPEN", "ACKNOWLEDGED"}

EmergencyRow == [status: {"NONE", "RESOLVED"} \cup Live, fresh: BOOLEAN,
                 acknowledgedBy: Staff \cup {Unclaimed},
                 resolvedBy: Staff \cup Devices \cup {Unclaimed}]

\* What the button shows, the alert in question while it is told of or found
\* again, and the alerts created since the press looked for one.
ButtonRow == [shows: {"ready", "creating", "telling", "told", "nobody", "duplicate", "error"},
              alert: Alerts \cup {Unclaimed}, missed: SUBSET Alerts]

Notice == [type: {"EMERGENCY_ACKNOWLEDGED", "EMERGENCY_RESOLVED"},
           alert: Alerts, by: Staff]

EmergencyTypeOK ==
    /\ emergency \in [Alerts -> EmergencyRow]
    /\ onDuty \subseteq Staff
    /\ told \subseteq Alerts
    /\ bell \in [Alerts -> Seq(Notice)]
    /\ button \in [Devices -> ButtonRow]
    /\ responder \in [Staff -> Notice \cup {Unclaimed}]
    /\ \A pair \in passedBy : pair \subseteq Alerts

EmergencyInit ==
    /\ emergency = [a \in Alerts |-> [status |-> "NONE", fresh |-> FALSE,
                                      acknowledgedBy |-> Unclaimed, resolvedBy |-> Unclaimed]]
    /\ onDuty = Staff
    /\ told = {}
    /\ bell = [a \in Alerts |-> <<>>]
    /\ button = [d \in Devices |-> [shows |-> "ready", alert |-> Unclaimed, missed |-> {}]]
    /\ responder = [s \in Staff |-> Unclaimed]
    /\ passedBy = {}
-----------------------------------------------------------------------------
Pressing(d) == button[d].shows \in {"creating", "telling"}

Answer(d, shows, a) ==
    button' = [button EXCEPT ![d] = [shows |-> shows, alert |-> a, missed |-> {}]]

\* Mutant: an alert somebody has answered is no longer looked for.
RaiseOverAcknowledged(d) ==
    /\ ~Pressing(d)
    /\ ~\E a \in Alerts : emergency[a].status = "OPEN" /\ emergency[a].fresh
    /\ Answer(d, "creating", Unclaimed)
    /\ UNCHANGED <<emergency, onDuty, told, bell, responder, passedBy>>

\* raise: the same emergency was raised in the last ten minutes, or it is new.
Raise(d) ==
    /\ ~Pressing(d)
    /\ LET same == {a \in Alerts : emergency[a].status \in Live /\ emergency[a].fresh}
       IN  IF same # {} THEN \E a \in same : Answer(d, "duplicate", a)
           ELSE Answer(d, "creating", Unclaimed)
    /\ UNCHANGED <<emergency, onDuty, told, bell, responder, passedBy>>

CreateAlert(d, a) ==
    /\ button[d].shows = "creating"
    /\ emergency[a].status = "NONE"
    /\ emergency' = [emergency EXCEPT ![a].status = "OPEN", ![a].fresh = TRUE]
    /\ passedBy' = passedBy \cup {{a, b} : b \in button[d].missed}
    /\ button' = [e \in Devices |->
                    CASE e = d -> [shows |-> "telling", alert |-> a, missed |-> {}]
                      [] e # d /\ button[e].shows = "creating" ->
                           [button[e] EXCEPT !.missed = @ \cup {a}]
                      [] OTHER -> button[e]]
    /\ UNCHANGED <<onDuty, told, bell, responder>>

\* findRecipientUserIds and dispatchMany.  The count the resident is shown is
\* that of the recipients, whether or not the entries could be written.
TellStaff(d) ==
    /\ button[d].shows = "telling"
    /\ \/ /\ onDuty # {}
          /\ told' = told \cup {button[d].alert}
       \/ UNCHANGED told
    /\ Answer(d, IF onDuty = {} THEN "nobody" ELSE "told", Unclaimed)
    /\ UNCHANGED <<emergency, onDuty, bell, responder, passedBy>>

\* A statement fails, the server stops, or its reply is lost: the button says to
\* call the estate's security instead.
RaiseFails(d) ==
    /\ button[d].shows \notin {"ready", "error"}
    /\ Answer(d, "error", Unclaimed)
    /\ UNCHANGED <<emergency, onDuty, told, bell, responder, passedBy>>
-----------------------------------------------------------------------------
\* Mutant: everyone who taps "I'm responding" is announced to the resident.
AcknowledgeByAll(s, a) ==
    /\ s \in onDuty
    /\ responder[s] = Unclaimed
    /\ emergency[a].status \in Live
    /\ emergency' = [emergency EXCEPT ![a].status = "ACKNOWLEDGED", ![a].acknowledgedBy = s]
    /\ responder' = [responder EXCEPT ![s] = [type |-> "EMERGENCY_ACKNOWLEDGED",
                                              alert |-> a, by |-> s]]
    /\ UNCHANGED <<onDuty, told, bell, button, passedBy>>

\* The update takes an open alert only; who comes later is shown it and told no one.
Acknowledge(s, a) ==
    /\ s \in onDuty
    /\ responder[s] = Unclaimed
    /\ emergency[a].status = "OPEN"
    /\ emergency' = [emergency EXCEPT ![a].status = "ACKNOWLEDGED", ![a].acknowledgedBy = s]
    /\ responder' = [responder EXCEPT ![s] = [type |-> "EMERGENCY_ACKNOWLEDGED",
                                              alert |-> a, by |-> s]]
    /\ UNCHANGED <<onDuty, told, bell, button, passedBy>>

Resolve(s, a) ==
    /\ s \in onDuty
    /\ responder[s] = Unclaimed
    /\ emergency[a].status \in Live
    /\ emergency' = [emergency EXCEPT ![a].status = "RESOLVED", ![a].resolvedBy = s]
    /\ responder' = [responder EXCEPT ![s] = [type |-> "EMERGENCY_RESOLVED",
                                              alert |-> a, by |-> s]]
    /\ UNCHANGED <<onDuty, told, bell, button, passedBy>>

\* "I'm safe, close this": the resident's own alert, and no notice to themselves.
ResolveOwn(d, a) ==
    /\ ~Pressing(d)
    /\ emergency[a].status \in Live
    /\ emergency' = [emergency EXCEPT ![a].status = "RESOLVED", ![a].resolvedBy = d]
    /\ UNCHANGED <<onDuty, told, bell, button, responder, passedBy>>

\* dispatch after the update, which may fail or never be reached.
TellResident(s) ==
    /\ responder[s] # Unclaimed
    /\ LET n == responder[s]
       IN  bell' \in {bell, [bell EXCEPT ![n.alert] = Append(@, n)]}
    /\ responder' = [responder EXCEPT ![s] = Unclaimed]
    /\ UNCHANGED <<emergency, onDuty, told, button, passedBy>>
-----------------------------------------------------------------------------
\* Ten minutes have passed.
AlertAges(a) ==
    /\ emergency[a].fresh
    /\ emergency' = [emergency EXCEPT ![a].fresh = FALSE]
    /\ UNCHANGED <<onDuty, told, bell, button, responder, passedBy>>

\* An officer's account is suspended, or made active again.
SetOnDuty(s) ==
    /\ onDuty' \in {onDuty \cup {s}, onDuty \ {s}}
    /\ UNCHANGED <<emergency, told, bell, button, responder, passedBy>>

EmergencyNext ==
    \/ \E d \in Devices :
         \/ Raise(d) \/ TellStaff(d) \/ RaiseFails(d)
         \/ \E a \in Alerts : CreateAlert(d, a) \/ ResolveOwn(d, a)
    \/ \E s \in Staff :
         \/ TellResident(s) \/ SetOnDuty(s)
         \/ \E a \in Alerts : Acknowledge(s, a) \/ Resolve(s, a)
    \/ \E a \in Alerts : AlertAges(a)

EmergencySpec == EmergencyInit /\ [][EmergencyNext]_emergencyVars
-----------------------------------------------------------------------------
(* "Pressing the button twice must not alarm everyone twice"               *)
(* (emergency.service.ts): two alerts that are both live and recent were   *)
(* raised by presses each of which looked before the other's alert was     *)
(* there.                                                                  *)
NoSecondAlarm ==
    \A a, b \in Alerts :
        (/\ a # b
         /\ emergency[a].status \in Live /\ emergency[a].fresh
         /\ emergency[b].status \in Live /\ emergency[b].fresh) => {a, b} \in passedBy

Said(type, a) == {i \in 1..Len(bell[a]) : bell[a][i].type = type}

(* "Tell the resident help is coming - once, only for the person who       *)
(* actually claimed it": the bell names the one who holds the alert, once; *)
(* a closing is announced once and only if staff closed it; and help is    *)
(* announced after the closing only if two officers acted.                 *)
HelpToldOnce ==
    \A a \in Alerts :
        /\ Cardinality(Said("EMERGENCY_ACKNOWLEDGED", a)) <= 1
        /\ Cardinality(Said("EMERGENCY_RESOLVED", a)) <= 1
        /\ \A i \in Said("EMERGENCY_ACKNOWLEDGED", a) : bell[a][i].by = emergency[a].acknowledgedBy
        /\ \A i \in Said("EMERGENCY_RESOLVED", a) : bell[a][i].by = emergency[a].resolvedBy
        /\ \A i \in Said("EMERGENCY_ACKNOWLEDGED", a), j \in Said("EMERGENCY_RESOLVED", a) :
             j < i => bell[a][i].by # bell[a][j].by
=============================================================================
