----------------------------- MODULE PolledScreens -----------------------------
(***************************************************************************)
(* The screens that ask again every few seconds: a person's bell           *)
(* (useNotifications.ts) and the staff's emergencies                       *)
(* (useEmergencyAlerts.ts, AlertsCenter.tsx, EmergencyList.tsx).  A row    *)
(* only ever moves up: a notification appears and is read, an alert is     *)
(* raised, answered, closed.  Answers arrive in any order and each         *)
(* replaces the whole list.                                                *)
(***************************************************************************)
EXTENDS Naturals

CONSTANTS
    Rows,           \* rows each screen may list
    Asks            \* names for the lists a screen may be waiting for at once


VARIABLES
    screen,         \* "bell" or "alarms": nothing passes between the two
    level,          \* each row on the server
    shown,          \* what the screen has of it
    ask,            \* the lists asked for, and what the server answered
    tap,            \* the row's own request under way
    visible         \* whether the page with the alarms is

pollVars == <<screen, level, shown, ask, tap, visible>>

Bell == screen = "bell"

\* none, unread, read; none, OPEN, ACKNOWLEDGED, RESOLVED.
Top == IF Bell THEN 2 ELSE 3

Listing == [Rows -> 0..3]

Unasked == [stage |-> "none", got |-> [r \in Rows |-> 0]]

NoTap == [stage |-> "none", row |-> CHOOSE r \in Rows : TRUE, to |-> 0]

ScreensTypeOK ==
    /\ screen \in {"bell", "alarms"}
    /\ level \in Listing
    /\ shown \in Listing
    /\ ask \in [Asks -> [stage: {"none", "asked", "answered"}, got: Listing]]
    /\ tap \in [stage: {"none", "asked", "done"}, row: Rows, to: 0..3]
    /\ visible \in BOOLEAN

ScreensInit ==
    /\ screen \in {"bell", "alarms"}
    /\ level = [r \in Rows |-> 0]
    /\ shown = level
    /\ ask = [a \in Asks |-> Unasked]
    /\ tap = NoTap
    /\ visible = TRUE

\* The request is sent by the name that is free, if any.
Asking ==
    LET free == {a \in Asks : ask[a].stage = "none"} IN
    ask' = IF free = {} THEN ask
           ELSE [ask EXCEPT ![CHOOSE a \in free : TRUE] = [Unasked EXCEPT !.stage = "asked"]]
-----------------------------------------------------------------------------
\* The server dispatches, or another of the staff, or the person's other device, acts.
Advance(r) ==
    /\ level[r] < Top
    /\ level' = [level EXCEPT ![r] = @ + 1]
    /\ UNCHANGED <<screen, shown, ask, tap, visible>>

\* The interval: the alarms stay quiet on a page that is hidden.
Poll ==
    /\ Bell \/ visible
    /\ \E a \in Asks : ask[a].stage = "none"
    /\ Asking
    /\ UNCHANGED <<screen, level, shown, tap, visible>>

\* listForUser, list
Answer(a) ==
    /\ ask[a].stage = "asked"
    /\ ask' = [ask EXCEPT ![a] = [stage |-> "answered", got |-> level]]
    /\ UNCHANGED <<screen, level, shown, tap, visible>>

Refreshed(a) ==
    /\ ask[a].stage = "answered"
    /\ shown' = ask[a].got
    /\ ask' = [ask EXCEPT ![a] = Unasked]
    /\ UNCHANGED <<screen, level, tap, visible>>

RefreshFails(a) ==
    /\ ask[a].stage # "none"
    /\ ask' = [ask EXCEPT ![a] = Unasked]
    /\ UNCHANGED <<screen, level, shown, tap, visible>>

\* markRead, markAllRead: the bell shows the row read before the server knows.
MarkRead(r) ==
    /\ Bell /\ shown[r] = 1 /\ tap.stage = "none"
    /\ shown' = [shown EXCEPT ![r] = 2]
    /\ tap' = [stage |-> "asked", row |-> r, to |-> 2]
    /\ UNCHANGED <<screen, level, ask, visible>>

\* act: "I'm responding", or "Mark resolved".
Act(r, to) ==
    /\ ~Bell
    /\ \/ shown[r] = 1 /\ to = 2
       \/ shown[r] \in {1, 2} /\ to = 3
    /\ tap.stage = "none"
    /\ tap' = [stage |-> "asked", row |-> r, to |-> to]
    /\ UNCHANGED <<screen, level, shown, ask, visible>>

\* The server moves the row, unless it is there or past it, and answers with the row.
Done ==
    LET r == tap.row   now == IF level[r] < tap.to THEN tap.to ELSE level[r] IN
    /\ tap.stage = "asked"
    /\ level' = [level EXCEPT ![r] = now]
    /\ tap' = [stage |-> "done", row |-> r, to |-> now]
    /\ UNCHANGED <<screen, shown, ask, visible>>

\* upsert: the alert answered replaces the one on the screen.
Upserted ==
    /\ tap.stage = "done"
    /\ shown' = IF ~Bell THEN [shown EXCEPT ![tap.row] = tap.to] ELSE shown
    /\ tap' = NoTap
    /\ UNCHANGED <<screen, level, ask, visible>>

\* The bell asks for the list again; the emergencies show the error.
TapFails ==
    /\ tap.stage # "none"
    /\ tap' = NoTap
    /\ IF Bell THEN Asking ELSE UNCHANGED ask
    /\ UNCHANGED <<screen, level, shown, visible>>

Hide ==
    /\ visible
    /\ visible' = FALSE
    /\ UNCHANGED <<screen, level, shown, ask, tap>>

\* Mutant: the interval's next turn is soon enough.
RevealOnly ==
    /\ ~visible
    /\ visible' = TRUE
    /\ UNCHANGED <<screen, level, shown, ask, tap>>

\* visibilitychange asks at once.
Reveal ==
    /\ ~visible
    /\ visible' = TRUE
    /\ IF Bell THEN UNCHANGED ask ELSE Asking
    /\ UNCHANGED <<screen, level, shown, tap>>

ScreensNext ==
    \/ Hide \/ Reveal \/ Poll \/ Done \/ Upserted \/ TapFails
    \/ \E r \in Rows : Advance(r) \/ MarkRead(r) \/ \E to \in 2..3 : Act(r, to)
    \/ \E a \in Asks : Answer(a) \/ Refreshed(a) \/ RefreshFails(a)

\* The interval keeps firing, and requests are not lost for ever.
ScreensFairness ==
    /\ WF_pollVars(Poll) /\ WF_pollVars(Upserted)
    /\ \A a \in Asks : SF_pollVars(Answer(a)) /\ SF_pollVars(Refreshed(a))

ScreensSpec == ScreensInit /\ [][ScreensNext]_pollVars /\ ScreensFairness
-----------------------------------------------------------------------------
(* "A failed request just gets corrected on the next poll"                 *)
(* (useNotifications): what is settled on the server stays settled on the  *)
(* screen from some point on, whatever answers were late or lost.  A page  *)
(* of alarms that is hidden for good is owed nothing.                      *)
ScreensCatchUp ==
    ([]<>visible) =>
        \A r \in Rows : [](level[r] = Top => <>[](shown[r] = Top))
=============================================================================
