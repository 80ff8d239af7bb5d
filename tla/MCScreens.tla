----------------------------- MODULE MCScreens -----------------------------
(***************************************************************************)
(* Screens and what they show of the server, each for itself on a small    *)
(* instance, as in MCServices.                                             *)
(***************************************************************************)
EXTENDS Messages, VoiceGuidance, EstateLocation, AdminLists, EstateForms, InvitePanel

\* Things of a part's first and second kind.
CONSTANTS a1, a2, b1, b2

VARIABLE part

screensVars ==
    <<part, messagesVars, voiceVars, locationVars, listVars, formVars, panelVars>>

Parts == {"messages", "voice", "location", "lists", "forms", "panel"}

\* A first route with three steps and, after leaving it, one with two.
MCRoute == <<<<400, 200, 50>>, <<100, 40>>>>

MCReadings ==
    {[gate |-> 20, off |-> <<500, 5>>, left |-> <<90, 20>>],
     [gate |-> 900, off |-> <<5, 300>>, left |-> <<300, 800>>],
     [gate |-> 600, off |-> <<5, 40>>, left |-> <<45, 400>>],
     [gate |-> 500, off |-> <<90, 90>>, left |-> <<150, 300>>],
     [gate |-> 100, off |-> <<300, 5>>, left |-> <<300, 90>>]}

MCInit ==
    /\ part \in Parts
    /\ MessagesInit /\ VoiceInit /\ LocationInit /\ PanelInit
    /\ ListInit /\ (part = "lists" \/ stored = [r \in ListRows |-> Gone])
    /\ FormsInit /\ (part = "forms" \/ (row = Blank /\ page = "rules"))

MCNext ==
    /\ UNCHANGED part
    /\ IF part = "messages" THEN MessagesNext ELSE UNCHANGED messagesVars
    /\ IF part = "voice" THEN VoiceNext ELSE UNCHANGED voiceVars
    /\ IF part = "location" THEN LocationNext ELSE UNCHANGED locationVars
    /\ IF part = "lists" THEN ListNext ELSE UNCHANGED listVars
    /\ IF part = "forms" THEN FormsNext ELSE UNCHANGED formVars
    /\ IF part = "panel" THEN PanelNext ELSE UNCHANGED panelVars

MCSpec == MCInit /\ [][MCNext]_screensVars

\* a1 is connected and its thread is at rest while a2 has its thread open, which a2 has
\* whenever a1 has; only a1 has a draft.
FewMessages ==
    /\ a1 \in reached /\ device[a2].draft = NoText /\ Len(saved) <= 2
    /\ device[a1].at = "list" => device[a2].at = "list"
    /\ device[a2].at = "list" \/ (device[a1].loading = "done" /\ ~marks[a1])

\* An edit and a dialog are not open at once, nor any while two lists are on their way;
\* at most one row need not be right.
FewLists ==
    /\ pendingRemoval = Gone \/ edit.row = Gone
    /\ Cardinality(unshown) <= 1
    /\ Len(lists) = 2 => edit.row = Gone /\ pendingRemoval = Gone /\ changes = {}

\* Two resends and one list at once, a reason asked for only when none is under way.
FewResends ==
    /\ Cardinality(resends) <= 2 /\ awaited + Cardinality(answers) <= 1
    /\ invite[a2].link <= 2
    /\ cancelingId # Unnamed => resends = {}

Few == (part = "messages" => FewMessages) /\ FewLists /\ FewResends
=============================================================================
