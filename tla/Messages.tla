------------------------------- MODULE Messages -------------------------------
(***************************************************************************)
(* One conversation between two officers: the saved messages               *)
(* (messages.service.ts), the socket that pushes a new one to whoever is   *)
(* connected, and each officer's phone, on the list of officers or in the  *)
(* thread (useMessaging.ts, the call pages).  A message is its place in    *)
(* the saved order.  Conversations are shorter than a page of history.     *)
(***************************************************************************)
EXTENDS Naturals, Sequences, FiniteSets, Functions

CONSTANTS
    Writers,        \* the two officers
    Texts,          \* what they may write, each once
    NoText,
    MaxMessages     \* bound on the messages saved, those sent twice included

ASSUME WritersAssumption == /\ \E v, w \in Writers : v # w /\ Writers = {v, w}
                            /\ NoText \notin Texts

VARIABLES
    saved,          \* OfficerMessage rows, in order
    readAt,         \* those marked read
    reached,        \* officers the gateway has a socket for
    news,           \* per officer, messages pushed and not yet handled
    device,         \* each officer's page
    marks,          \* per officer, whether a "read" request is under way
    sending,        \* per officer, the message being sent
    typed,          \* texts written so far
    overtyped,      \* texts given up, or typed over when an earlier one came back
    slipped         \* per officer, messages the page had no chance to show

messagesVars == <<saved, readAt, reached, news, device, marks, sending, typed,
                  overtyped, slipped>>

Saved == [text: Texts, from: Writers]

\* `loading' is where the page's own request is: "asked", "answered" (with what the
\* server read), "done" or "failed"; `has' is the thread's messages, or the unread
\* ones the list counts.
DeviceRow == [at: {"list", "thread"}, loading: {"asked", "answered", "done", "failed"},
              got: SUBSET Nat, has: SUBSET Nat, draft: Texts \cup {NoText}]

Post == [stage: {"none", "asked", "saved", "failed", "left"}, text: Texts \cup {NoText}, id: Nat]

NoPost == [stage |-> "none", text |-> NoText, id |-> 0]

MessagesTypeOK ==
    /\ saved \in Seq(Saved)
    /\ readAt \subseteq DOMAIN saved
    /\ reached \subseteq Writers
    /\ news \in [Writers -> Seq(Nat)]
    /\ device \in [Writers -> DeviceRow]
    /\ marks \in [Writers -> BOOLEAN]
    /\ sending \in [Writers -> Post]
    /\ typed \subseteq Texts
    /\ overtyped \subseteq typed
    /\ slipped \in [Writers -> SUBSET Nat]

\* A page that has just opened.
Opened(at) == [at |-> at, loading |-> "asked", got |-> {}, has |-> {}, draft |-> NoText]

MessagesInit ==
    /\ saved = <<>>
    /\ readAt = {}
    /\ reached = Writers
    /\ news = [w \in Writers |-> <<>>]
    /\ device = [w \in Writers |-> Opened("list")]
    /\ marks = [w \in Writers |-> FALSE]
    /\ sending = [w \in Writers |-> NoPost]
    /\ typed = {}
    /\ overtyped = {}
    /\ slipped = [w \in Writers |-> {}]

Other(w) == CHOOSE v \in Writers : v # w
To(w) == {m \in DOMAIN saved : saved[m].from # w}

\* listThreadSummaries: the unread messages of the row; getThread: all of them.
UnreadFor(w) == To(w) \ readAt
ThreadOf == DOMAIN saved
-----------------------------------------------------------------------------
Write(w, t) ==
    /\ device[w].at = "thread" /\ device[w].draft = NoText
    /\ t \notin typed
    /\ typed' = typed \cup {t}
    /\ device' = [device EXCEPT ![w].draft = t]
    /\ UNCHANGED <<saved, readAt, reached, news, marks, sending, overtyped, slipped>>

\* handleSend: the box is emptied before the request is sent.
HandleSend(w) ==
    /\ device[w].draft # NoText
    /\ sending[w].stage = "none"
    /\ Len(saved) < MaxMessages
    /\ sending' = [sending EXCEPT ![w] = [stage |-> "asked", text |-> device[w].draft, id |-> 0]]
    /\ device' = [device EXCEPT ![w].draft = NoText]
    /\ UNCHANGED <<saved, readAt, reached, news, marks, typed, overtyped, slipped>>

\* sendMessage: save, then push to the recipient's socket if there is one.
SendMessage(w) ==
    LET id == Len(saved) + 1   to == Other(w) IN
    /\ sending[w].stage \in {"asked", "left"}
    /\ saved' = Append(saved, [text |-> sending[w].text, from |-> w])
    /\ IF to \in reached
       THEN /\ news' = [news EXCEPT ![to] = Append(@, id)]
            /\ slipped' = [slipped EXCEPT ![w] = @ \cup {id}]
       ELSE /\ slipped' = [v \in Writers |-> slipped[v] \cup {id}]
            /\ UNCHANGED news
    /\ sending' = [sending EXCEPT ![w] = IF @.stage = "left" THEN NoPost
                                   ELSE [@ EXCEPT !.stage = "saved", !.id = id]]
    /\ UNCHANGED <<readAt, reached, device, marks, typed, overtyped>>

\* Refused (the other officer is no longer active), or an answer that never came.
SendFails(w) ==
    /\ sending[w].stage \in {"asked", "saved", "left"}
    /\ sending' = [sending EXCEPT ![w] = IF @.stage = "left" THEN NoPost
                                   ELSE [@ EXCEPT !.stage = "failed"]]
    /\ UNCHANGED <<saved, readAt, reached, news, device, marks, typed, overtyped, slipped>>

\* The answer is appended to the thread, if the page that sent it is still there.
SendSettles(w) ==
    /\ sending[w].stage = "saved"
    /\ sending' = [sending EXCEPT ![w] = NoPost]
    /\ device' = [device EXCEPT ![w].has = @ \cup {sending[w].id}]
    /\ slipped' = [slipped EXCEPT ![w] = @ \ {sending[w].id}]
    /\ UNCHANGED <<saved, readAt, reached, news, marks, typed, overtyped>>

\* Mutant: the failure is only logged.
SendFailsQuietly(w) ==
    /\ sending[w].stage = "failed"
    /\ sending' = [sending EXCEPT ![w] = NoPost]
    /\ UNCHANGED <<saved, readAt, reached, news, device, marks, typed, overtyped, slipped>>

\* A failed send puts its text back, over what was typed meanwhile.
DraftBack(w) ==
    /\ sending[w].stage = "failed"
    /\ sending' = [sending EXCEPT ![w] = NoPost]
    /\ device' = [device EXCEPT ![w].draft = sending[w].text]
    /\ overtyped' = overtyped \cup ({device[w].draft} \ {NoText})
    /\ UNCHANGED <<saved, readAt, reached, news, marks, typed, slipped>>

\* Going to the thread, or back: the page before is dropped with its draft, its
\* answers, and the outcome of its send; opening a thread marks it read.
Open(w, at) ==
    /\ device[w].at # at
    /\ device' = [device EXCEPT ![w] = Opened(at)]
    /\ marks' = [marks EXCEPT ![w] = @ \/ at = "thread"]
    /\ sending' = [sending EXCEPT ![w] = IF @.stage \in {"asked", "left"}
                                   THEN [@ EXCEPT !.stage = "left"] ELSE NoPost]
    /\ overtyped' = overtyped \cup ({device[w].draft, sending[w].text} \ {NoText})
    /\ UNCHANGED <<saved, readAt, reached, news, typed, slipped>>

PageRead(w) ==
    /\ device[w].loading = "asked"
    /\ device' = [device EXCEPT ![w].loading = "answered",
                              ![w].got = IF device[w].at = "list" THEN UnreadFor(w)
                                                                    ELSE ThreadOf]
    /\ UNCHANGED <<saved, readAt, reached, news, marks, sending, typed, overtyped, slipped>>

\* The answer replaces whatever the socket brought to a thread meanwhile.
PageShows(w) ==
    /\ device[w].loading = "answered"
    /\ device' = [device EXCEPT ![w].loading = "done", ![w].has = device[w].got, ![w].got = {}]
    /\ slipped' = [slipped EXCEPT ![w] = (@ \cup device[w].has) \ device[w].got]
    /\ UNCHANGED <<saved, readAt, reached, news, marks, sending, typed, overtyped>>

PageFails(w) ==
    /\ device[w].loading \in {"asked", "answered"}
    /\ device' = [device EXCEPT ![w].loading = "failed", ![w].got = {}]
    /\ slipped' = [slipped EXCEPT ![w] = @ \cup DOMAIN saved]
    /\ UNCHANGED <<saved, readAt, reached, news, marks, sending, typed, overtyped>>

\* Mutant: the list takes no notice of a message while its rows are there.
HandleNewInThread(w) ==
    /\ news[w] # <<>>
    /\ news' = [news EXCEPT ![w] = Tail(@)]
    /\ device' = [device EXCEPT ![w].has = IF device[w].at = "thread"
                                         THEN @ \cup {Head(news[w])} ELSE @]
    /\ marks' = [marks EXCEPT ![w] = @ \/ device[w].at = "thread"]
    /\ UNCHANGED <<saved, readAt, reached, sending, typed, overtyped, slipped>>

\* handleNew: a thread appends the message and marks it read; the list counts it,
\* once it has its rows.
HandleNew(w) ==
    LET page == device[w]   id == Head(news[w])
        counted == page.at = "thread" \/ page.loading = "done"  IN
    /\ news[w] # <<>>
    /\ news' = [news EXCEPT ![w] = Tail(@)]
    /\ device' = [device EXCEPT ![w].has = IF counted THEN @ \cup {id} ELSE @]
    /\ slipped' = [slipped EXCEPT ![w] = IF counted THEN @ \ {id} ELSE @ \cup {id}]
    /\ marks' = [marks EXCEPT ![w] = @ \/ page.at = "thread"]
    /\ UNCHANGED <<saved, readAt, reached, sending, typed, overtyped>>

\* markThreadRead, or the request is lost.
MarkThreadRead(w) ==
    /\ marks[w]
    /\ marks' = [marks EXCEPT ![w] = FALSE]
    /\ readAt' \in {readAt, readAt \cup To(w)}
    /\ UNCHANGED <<saved, reached, news, device, sending, typed, overtyped, slipped>>

LineDrops(w) ==
    /\ w \in reached
    /\ reached' = reached \ {w}
    /\ slipped' = [slipped EXCEPT ![w] = @ \cup Range(news[w])]
    /\ news' = [news EXCEPT ![w] = <<>>]
    /\ UNCHANGED <<saved, readAt, device, marks, sending, typed, overtyped>>

\* A socket that is back does not make the page ask again.
LineIsBack(w) ==
    /\ w \notin reached
    /\ reached' = reached \cup {w}
    /\ UNCHANGED <<saved, readAt, news, device, marks, sending, typed, overtyped, slipped>>

MessagesNext ==
    \E w \in Writers :
        \/ \E t \in Texts : Write(w, t)
        \/ \E at \in {"list", "thread"} : Open(w, at)
        \/ HandleSend(w) \/ SendMessage(w) \/ SendFails(w) \/ SendSettles(w) \/ DraftBack(w)
        \/ PageRead(w) \/ PageShows(w) \/ PageFails(w)
        \/ HandleNew(w) \/ MarkThreadRead(w) \/ LineDrops(w) \/ LineIsBack(w)

MessagesSpec == MessagesInit /\ [][MessagesNext]_messagesVars
-----------------------------------------------------------------------------
(* What an officer wrote is saved, on its way, or back in the box          *)
(* (ThreadPage.handleSend: "put the draft back rather than silently losing *)
(* it"), unless the officer left the page or typed over it.                *)
WrittenIsKept ==
    \A t \in typed \ overtyped :
        \/ \E m \in DOMAIN saved : saved[m].text = t
        \/ \E w \in Writers : t \in {device[w].draft, sending[w].text}

(* A page at rest has every message it should: the thread all of them, the *)
(* list every unread one.  The exceptions are those that met the page's    *)
(* own answer, a failed request, or a socket that was down                 *)
(* (useThread, useThreadSummaries).                                        *)
NothingMissed ==
    \A w \in Writers :
        (device[w].loading \in {"done", "failed"} /\ news[w] = <<>> /\ sending[w].stage = "none") =>
            (IF device[w].at = "thread" THEN DOMAIN saved ELSE To(w) \ readAt)
                \subseteq device[w].has \cup slipped[w]
=============================================================================
