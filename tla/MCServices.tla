----------------------------- MODULE MCServices -----------------------------
(***************************************************************************)
(* Services that share nothing but the database and a session, each for    *)
(* itself on a small instance: `part' says which of them runs, and the     *)
(* others stand still.                                                     *)
(***************************************************************************)
EXTENDS Signup, Directory, EmergencyAlerts, VisitorArrival, PushDevices, NoticeBoard

\* Things of a part's first to fourth kind: so the parts share their symmetries.
CONSTANTS a1, a2, b1, b2, c1, c2, s1, s2, m1, m2

VARIABLE part

servicesVars ==
    <<part, signupVars, directoryVars, emergencyVars, arrivalVars, pushVars, boardVars>>

Parts == {"signup", "directory", "pressing", "answering", "arrival", "push", "board"}

MCSelections == {{a1, a2}, {b1, b2}, {c1, c2}}

\* A word in two spellings, and with a blank.
MCSpellings ==
    {[word |-> "a", upper |-> FALSE, blank |-> FALSE],
     [word |-> "a", upper |-> TRUE, blank |-> FALSE],
     [word |-> "a", upper |-> FALSE, blank |-> TRUE]}

\* Inside the radius, near it, and far off with a rough reading.
MCFixes == {[distance |-> 20, accuracy |-> 10], [distance |-> 120, accuracy |-> 10],
            [distance |-> 500, accuracy |-> 250]}

MCInit ==
    /\ part \in Parts
    /\ SignupInit /\ EmergencyInit /\ ArrivalInit /\ PushInit /\ BoardInit
    /\ DirectoryInit /\ (part = "directory" \/ inUse = {a1, a2})

\* While presses on two devices are followed, only one officer answers and residents are
\* not told; while two officers answer, only one device is pressed.
OneOfficer == responder'[s2] = Unclaimed /\ s2 \in onDuty' /\ bell' = bell
OneDevice == button'[m2] = button[m2]

MCNext ==
    /\ UNCHANGED part
    /\ IF part = "signup" THEN SignupNext ELSE UNCHANGED signupVars
    /\ IF part = "directory" THEN DirectoryNext ELSE UNCHANGED directoryVars
    /\ IF part \in {"pressing", "answering"}
       THEN EmergencyNext /\ (IF part = "pressing" THEN OneOfficer ELSE OneDevice)
       ELSE UNCHANGED emergencyVars
    /\ IF part = "arrival" THEN ArrivalNext ELSE UNCHANGED arrivalVars
    /\ IF part = "push" THEN PushNext ELSE UNCHANGED pushVars
    /\ IF part = "board" THEN BoardNext ELSE UNCHANGED boardVars

MCSpec == MCInit /\ [][MCNext]_servicesVars

\* One alert is answered by two officers, or two alerts are raised, the first first.
FewAlerts ==
    /\ part = "answering" => emergency[a2].status = "NONE"
    /\ emergency[a2].status # "NONE" => emergency[a1].status # "NONE"

\* The first request is used first; what the properties excuse is not followed further.
FewPosts ==
    /\ post[a2] # Quiet => post[a1] # Quiet
    /\ ~rushed /\ ~leftBehind

\* a2 signs in on one browser only.
FewBrowsers == user[b1] # a2 /\ undone = {}

Few == FewAlerts /\ FewPosts /\ FewBrowsers
=============================================================================
