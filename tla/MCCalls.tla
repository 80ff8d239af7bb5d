------------------------------ MODULE MCCalls ------------------------------
(***************************************************************************)
(* Calls between two officers, the connections of one officer by itself,   *)
(* and the screens that ask again: each for itself, as in MCServices.      *)
(***************************************************************************)
EXTENDS Calls, PolledScreens

CONSTANTS s1, s2

VARIABLE part

MCVars == <<part, callsVars, pollVars>>

MCInit ==
    /\ part \in {"calls", "presence", "screens"}
    /\ CallsInit
    /\ ScreensInit /\ (part = "screens" \/ screen = "bell")

MCNext ==
    /\ UNCHANGED part
    /\ IF part = "calls" THEN CallsNext
       ELSE /\ UNCHANGED <<page, pcs, setUps, stray, timers, inbox, calls, raced>>
            /\ IF part = "presence" THEN PresenceNext ELSE UNCHANGED presenceVars
    /\ IF part = "screens" THEN ScreensNext ELSE UNCHANGED pollVars

\* The fairness of the parts, each while it runs.
MCSpec ==
    /\ MCInit
    /\ [][MCNext]_MCVars
    /\ \A o \in Officers : WF_callsVars(part = "calls" /\ PcAlone(o))
    /\ WF_pollVars(part = "screens" /\ Poll) /\ WF_pollVars(part = "screens" /\ Upserted)
    /\ \A k \in Asks : /\ SF_pollVars(part = "screens" /\ Answer(k))
                      /\ SF_pollVars(part = "screens" /\ Refreshed(k))

\* In a call an officer has one socket at a time, noticed before the next one; inboxes are
\* short, and what follows a set-up that was overtaken is not followed further.
FewCalls ==
    \A o \in Officers :
        /\ handshake[o][s2] = "free"
        /\ Len(inbox[o]) <= 2 /\ ~raced[o]
        /\ \A q \in Officers \ {o} : Len(inbox[o]) + Len(inbox[q]) <= 3
        /\ calls = 2 => Joined(o)

Few == part = "calls" => FewCalls
=============================================================================
