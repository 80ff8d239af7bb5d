------------------------------ MODULE NoticeBoard ------------------------------
(***************************************************************************)
(* Estate notices and security alerts: an author posts one                 *)
(* (announcements.service.ts), everyone else gets a bell entry             *)
(* (dispatchMany), and each author's panel (NoticesPanel.tsx) loads the    *)
(* list once and then edits its own copy of it.                            *)
(***************************************************************************)
EXTENDS Naturals, FiniteSets

CONSTANTS
    Authors,
    Wordings,       \* what they may write, each once
    Unwritten

ASSUME NoticesAssumption == Unwritten \notin Wordings

\* The same words may be posted twice; a notice is its words and which time it is.
Notices == Wordings \X {1, 2}

VARIABLES
    notice,         \* Announcement rows, and those deleted
    belled,         \* notices everyone else has a bell entry for
    panel,          \* each author's page
    request,        \* the post or the delete each author is waiting for
    written,        \* the words used
    unsure          \* words whose post was saved though its author was told it failed

boardVars == <<notice, belled, panel, request, written, unsure>>

Request == [op: {"none", "post", "delete"},
            stage: {"asked", "created", "answered", "failed"},
            item: Notices \cup {<<Unwritten, 1>>}]

NoRequest == [op |-> "none", stage |-> "asked", item |-> <<Unwritten, 1>>]

\* `load' as the page's own request; the words in the form, and the notice the
\* author is asked to confirm the deletion of.
Panel == [load: {"asked", "answered", "done"}, got: SUBSET Notices, items: SUBSET Notices,
          words: Wordings \cup {Unwritten}, confirming: BOOLEAN]

BoardTypeOK ==
    /\ notice \in [Notices -> {"none", "up", "deleted"}]
    /\ belled \subseteq Notices
    /\ panel \in [Authors -> Panel]
    /\ request \in [Authors -> Request]
    /\ written \subseteq Wordings
    /\ unsure \subseteq written

BoardInit ==
    /\ notice = [n \in Notices |-> "none"]
    /\ belled = {}
    /\ panel = [a \in Authors |-> [load |-> "asked", got |-> {}, items |-> {},
                                   words |-> Unwritten, confirming |-> FALSE]]
    /\ request = [a \in Authors |-> NoRequest]
    /\ written = {}
    /\ unsure = {}

Up == {n \in Notices : notice[n] = "up"}
Posting(a) == request[a].op # "none"
-----------------------------------------------------------------------------
\* list
ListNotices(a) ==
    /\ panel[a].load = "asked"
    /\ panel' = [panel EXCEPT ![a].load = "answered", ![a].got = Up]
    /\ UNCHANGED <<notice, belled, request, written, unsure>>

\* load: the list replaces the page's items, or fails and leaves them.
Load(a) ==
    /\ panel[a].load = "answered"
    /\ panel' = [panel EXCEPT ![a].load = "done", ![a].items = panel[a].got, ![a].got = {}]
    /\ UNCHANGED <<notice, belled, request, written, unsure>>

ReadFails(a) ==
    /\ panel[a].load # "done"
    /\ panel' = [panel EXCEPT ![a].load = "done", ![a].got = {}]
    /\ UNCHANGED <<notice, belled, request, written, unsure>>

Compose(a, w) ==
    /\ panel[a].words = Unwritten /\ w \notin written
    /\ panel' = [panel EXCEPT ![a].words = w]
    /\ written' = written \cup {w}
    /\ UNCHANGED <<notice, belled, request, unsure>>

\* submit asks for confirmation; cancelling it leaves the form.
Submit(a) ==
    /\ panel[a].words # Unwritten
    /\ panel[a].confirming => ~Posting(a)
    /\ panel' = [panel EXCEPT ![a].confirming = ~@]
    /\ UNCHANGED <<notice, belled, request, written, unsure>>

\* send, once confirmed.
Send(a) ==
    /\ panel[a].confirming /\ ~Posting(a)
    /\ request' = [request EXCEPT ![a] = [op |-> "post", stage |-> "asked",
                                          item |-> <<panel[a].words, 1>>]]
    /\ UNCHANGED <<notice, belled, panel, written, unsure>>

\* create
Create(a) ==
    LET w == request[a].item[1]   n == <<w, IF notice[<<w, 1>>] = "none" THEN 1 ELSE 2>> IN
    /\ request[a].op = "post" /\ request[a].stage = "asked"
    /\ notice[n] = "none"
    /\ notice' = [notice EXCEPT ![n] = "up"]
    /\ request' = [request EXCEPT ![a].stage = "created", ![a].item = n]
    /\ UNCHANGED <<belled, panel, written, unsure>>

\* dispatchMany writes every recipient's entry at once, or logs that it could not.
DispatchMany(a) ==
    /\ request[a].stage = "created"
    /\ belled' \in {belled, belled \cup {request[a].item}}
    /\ request' = [request EXCEPT ![a].stage = "answered"]
    /\ UNCHANGED <<notice, panel, written, unsure>>

\* remove
Delete(a) ==
    LET n == request[a].item IN
    /\ request[a].op = "delete" /\ request[a].stage = "asked"
    /\ notice' = [notice EXCEPT ![n] = "deleted"]
    /\ request' = [request EXCEPT ![a].stage = IF notice[n] = "up" THEN "answered" ELSE "failed"]
    /\ UNCHANGED <<belled, panel, written, unsure>>

\* The server stops, or the answer is lost.
RequestFails(a) ==
    /\ Posting(a) /\ request[a].stage # "failed"
    /\ request' = [request EXCEPT ![a].stage = "failed"]
    /\ unsure' = IF request[a].op = "post" /\ request[a].stage # "asked"
                 THEN unsure \cup {request[a].item[1]} ELSE unsure
    /\ UNCHANGED <<notice, belled, panel, written>>

\* Mutant: the form stays as it is.
PostedKeepingForm(a) ==
    /\ request[a].op = "post" /\ request[a].stage = "answered"
    /\ panel' = [panel EXCEPT ![a].items = @ \cup {request[a].item}]
    /\ request' = [request EXCEPT ![a] = NoRequest]
    /\ UNCHANGED <<notice, belled, written, unsure>>

\* The notice goes on top of the list and the form is emptied.
Posted(a) ==
    /\ request[a].op = "post" /\ request[a].stage = "answered"
    /\ panel' = [panel EXCEPT ![a].items = @ \cup {request[a].item},
                              ![a].words = Unwritten, ![a].confirming = FALSE]
    /\ request' = [request EXCEPT ![a] = NoRequest]
    /\ UNCHANGED <<notice, belled, written, unsure>>

\* "Could not send. Try again.": the form keeps the words.
NotPosted(a) ==
    /\ request[a].op = "post" /\ request[a].stage = "failed"
    /\ panel' = [panel EXCEPT ![a].confirming = FALSE]
    /\ request' = [request EXCEPT ![a] = NoRequest]
    /\ UNCHANGED <<notice, belled, written, unsure>>

\* remove, once confirmed: one request at a time, as both dialogs cover the page.
RemoveNotice(a, n) ==
    /\ n \in panel[a].items
    /\ ~Posting(a) /\ ~panel[a].confirming
    /\ request' = [request EXCEPT ![a] = [op |-> "delete", stage |-> "asked", item |-> n]]
    /\ UNCHANGED <<notice, belled, panel, written, unsure>>

\* Deleted, the notice leaves the list; refused (another author was first), it stays.
Removed(a) ==
    /\ request[a].op = "delete" /\ request[a].stage \in {"answered", "failed"}
    /\ panel' = [panel EXCEPT ![a].items = IF request[a].stage = "answered"
                                           THEN @ \ {request[a].item} ELSE @]
    /\ request' = [request EXCEPT ![a] = NoRequest]
    /\ UNCHANGED <<notice, belled, written, unsure>>

BoardNext ==
    \E a \in Authors :
        \/ ListNotices(a) \/ Load(a) \/ ReadFails(a)
        \/ \E w \in Wordings : Compose(a, w)
        \/ Submit(a) \/ Send(a) \/ Create(a) \/ DispatchMany(a) \/ Posted(a) \/ NotPosted(a)
        \/ \E n \in Notices : RemoveNotice(a, n)
        \/ Delete(a) \/ Removed(a) \/ RequestFails(a)

BoardSpec == BoardInit /\ [][BoardNext]_boardVars
-----------------------------------------------------------------------------
(* The same words are posted twice only by an author who was told that the *)
(* post failed after it was saved (announcements.service.ts create: the    *)
(* notice is saved before anyone is told, and the answer comes last).      *)
PostedOnce ==
    \A w \in Wordings : notice[<<w, 2>>] # "none" => w \in unsure
=============================================================================
