---------------------------- MODULE NoticesProofs -----------------------------
(***************************************************************************)
(* What holds of the notice board, of the visitor on the way and of the    *)
(* phones that are told, for any number of authors, requests and browsers. *)
(***************************************************************************)
EXTENDS NoticeBoard, VisitorArrival, PushDevices, TLAPS, SequenceTheorems
-----------------------------------------------------------------------------
(* The notice board.                                                       *)

Loads == {"asked", "answered", "done"}

\* What the actions do to a page.
LEMMA PanelLoaded ==
    ASSUME NEW row \in Panel
    PROVE  LET r == [row EXCEPT !.load = "done", !.items = row.got, !.got = {}]
           IN  r \in Panel /\ r.got = {} /\ r.items = row.got /\ r.words = row.words
               /\ r.confirming = row.confirming
<1>. DEFINE r == [row EXCEPT !.load = "done", !.items = row.got, !.got = {}]
<1>1. "done" \in Loads /\ {} \in SUBSET Notices
  BY DEF Loads
<1>2. r \in Panel
  BY <1>1, Zenon DEF Panel, Loads
<1>3. r.got = {}
  BY Zenon DEF Panel
<1>4. r.items = row.got
  BY Zenon DEF Panel
<1>5. r.words = row.words
  BY Zenon DEF Panel
<1>6. r.confirming = row.confirming
  BY Zenon DEF Panel
<1>. QED
  BY <1>2, <1>3, <1>4, <1>5, <1>6

LEMMA PanelWritten ==
    ASSUME NEW row \in Panel, NEW words \in Wordings \cup {Unwritten}
    PROVE  LET r == [row EXCEPT !.words = words]
           IN  r \in Panel /\ r.got = row.got /\ r.items = row.items /\ r.words = words
               /\ r.confirming = row.confirming
<1>. DEFINE r == [row EXCEPT !.words = words]
<1>1. r \in Panel
  BY Zenon DEF Panel
<1>2. r.got = row.got
  BY Zenon DEF Panel
<1>3. r.items = row.items
  BY Zenon DEF Panel
<1>4. r.words = words
  BY Zenon DEF Panel
<1>5. r.confirming = row.confirming
  BY Zenon DEF Panel
<1>. QED
  BY <1>1, <1>2, <1>3, <1>4, <1>5

LEMMA PanelConfirms ==
    ASSUME NEW row \in Panel, NEW c \in BOOLEAN
    PROVE  LET r == [row EXCEPT !.confirming = c]
           IN  r \in Panel /\ r.got = row.got /\ r.items = row.items /\ r.words = row.words
               /\ r.confirming = c
<1>. DEFINE r == [row EXCEPT !.confirming = c]
<1>1. r \in Panel
  BY Zenon DEF Panel
<1>2. r.got = row.got
  BY Zenon DEF Panel
<1>3. r.items = row.items
  BY Zenon DEF Panel
<1>4. r.words = row.words
  BY Zenon DEF Panel
<1>5. r.confirming = c
  BY Zenon DEF Panel
<1>. QED
  BY <1>1, <1>2, <1>3, <1>4, <1>5

LEMMA PanelItems ==
    ASSUME NEW row \in Panel, NEW items \in SUBSET Notices
    PROVE  LET r == [row EXCEPT !.items = items]
           IN  r \in Panel /\ r.got = row.got /\ r.items = items /\ r.words = row.words
               /\ r.confirming = row.confirming
<1>. DEFINE r == [row EXCEPT !.items = items]
<1>1. r \in Panel
  BY Zenon DEF Panel
<1>2. r.got = row.got
  BY Zenon DEF Panel
<1>3. r.items = items
  BY Zenon DEF Panel
<1>4. r.words = row.words
  BY Zenon DEF Panel
<1>5. r.confirming = row.confirming
  BY Zenon DEF Panel
<1>. QED
  BY <1>1, <1>2, <1>3, <1>4, <1>5

LEMMA PanelPosted ==
    ASSUME NEW row \in Panel, NEW items \in SUBSET Notices
    PROVE  LET r == [row EXCEPT !.items = items, !.words = Unwritten, !.confirming = FALSE]
           IN  r \in Panel /\ r.got = row.got /\ r.items = items /\ r.words = Unwritten
               /\ r.confirming = FALSE
<1>. DEFINE r == [row EXCEPT !.items = items, !.words = Unwritten, !.confirming = FALSE]
<1>1. Unwritten \in Wordings \cup {Unwritten} /\ FALSE \in BOOLEAN
  OBVIOUS
<1>2. r \in Panel
  BY <1>1, Zenon DEF Panel
<1>3. r.got = row.got
  BY Zenon DEF Panel
<1>4. r.items = items
  BY Zenon DEF Panel
<1>5. r.words = Unwritten
  BY Zenon DEF Panel
<1>6. r.confirming = FALSE
  BY Zenon DEF Panel
<1>. QED
  BY <1>2, <1>3, <1>4, <1>5, <1>6
-----------------------------------------------------------------------------
Exists(n) == notice[n] # "none"

\* A post that is saved, and whose author is not told yet.
InHand(a) == request[a].op = "post" /\ request[a].stage \in {"created", "answered"}

\* What an author's page lists is there; what they post is in their form; and words in a
\* form that were posted are in hand, or their author was told that the post failed.
AuthorFits(a) ==
    /\ panel[a].words \in written \cup {Unwritten}
    /\ panel[a].confirming => panel[a].words # Unwritten
    /\ \A n \in panel[a].got \cup panel[a].items : Exists(n)
    /\ request[a].op = "post" =>
         panel[a].words # Unwritten /\ request[a].item[1] = panel[a].words
    /\ InHand(a) \/ request[a].op = "delete" =>
         request[a].item \in Notices /\ Exists(request[a].item)
    /\ request[a].stage = "created" => request[a].op = "post"
    /\ panel[a].words # Unwritten =>
         (Exists(<<panel[a].words, 1>>) => panel[a].words \in unsure \/ InHand(a))

\* No two forms hold the same words, and only words that were used are posted.
WordsApart ==
    /\ \A a, b \in Authors : a # b /\ panel[a].words # Unwritten => panel[a].words # panel[b].words
    /\ \A n \in Notices : Exists(n) => n[1] \in written

BoardFits ==
    /\ notice \in [Notices -> {"none", "up", "deleted"}]
    /\ panel \in [Authors -> Panel]
    /\ request \in [Authors -> Request]
    /\ written \subseteq Wordings

BoardInv == BoardFits /\ WordsApart /\ PostedOnce /\ \A a \in Authors : AuthorFits(a)

LEMMA PanelParts ==
    ASSUME NEW row \in Panel
    PROVE  /\ row.got \in SUBSET Notices /\ row.items \in SUBSET Notices
           /\ row.words \in Wordings \cup {Unwritten}
<1>1. row.got \in SUBSET Notices
  BY Zenon DEF Panel
<1>2. row.items \in SUBSET Notices
  BY Zenon DEF Panel
<1>3. row.words \in Wordings \cup {Unwritten}
  BY Zenon DEF Panel
<1>. QED
  BY <1>1, <1>2, <1>3

LEMMA BoardInitial == BoardInit => BoardInv
<1>. SUFFICES ASSUME BoardInit PROVE BoardInv
  OBVIOUS
<1>. DEFINE row == [load |-> "asked", got |-> {}, items |-> {},
                    words |-> Unwritten, confirming |-> FALSE]
<1>1. "asked" \in Loads /\ {} \in SUBSET Notices /\ Unwritten \in Wordings \cup {Unwritten}
      /\ FALSE \in BOOLEAN
  BY DEF Loads
<1>2. row \in Panel
  BY <1>1, Zenon DEF Panel, Loads
<1>3. row.got = {} /\ row.items = {} /\ row.words = Unwritten
  OBVIOUS
<1>4. panel = [a \in Authors |-> row]
  BY DEF BoardInit
<1>. HIDE DEF row
<1>5. NoRequest \in Request /\ NoRequest.op = "none" /\ NoRequest.stage = "asked"
  BY DEF NoRequest, Request
<1>6. BoardFits
  BY <1>2, <1>4, <1>5 DEF BoardFits, BoardInit
<1>7. \A n \in Notices : ~Exists(n)
  BY DEF BoardInit, Exists
<1>8. WordsApart /\ PostedOnce
  BY <1>3, <1>4, <1>7 DEF WordsApart, PostedOnce, Exists, Notices
<1>9. ASSUME NEW a \in Authors PROVE AuthorFits(a)
  BY <1>3, <1>4, <1>5 DEF AuthorFits, InHand, BoardInit
<1>. QED
  BY <1>6, <1>8, <1>9 DEF BoardInv

\* An author whose page and request stay, while no notice vanishes and none of their words
\* is posted.
LEMMA AuthorKept ==
    ASSUME BoardInv, NEW b \in Authors, panel'[b] = panel[b], request'[b] = request[b],
           written \subseteq written', unsure \subseteq unsure',
           \A n \in Notices : Exists(n) => Exists(n)',
           \A n \in Notices : Exists(n)' /\ ~Exists(n) => n[1] # panel[b].words
    PROVE  AuthorFits(b)'
<1>1. AuthorFits(b)
  BY DEF BoardInv
<1>2. /\ panel[b].got \in SUBSET Notices /\ panel[b].items \in SUBSET Notices
      /\ panel[b].words \in Wordings \cup {Unwritten}
  BY PanelParts DEF BoardInv, BoardFits
<1>3. InHand(b)' <=> InHand(b)
  BY DEF InHand
<1>4. \A n \in panel'[b].got \cup panel'[b].items : Exists(n)'
  BY <1>1, <1>2 DEF AuthorFits
<1>5. InHand(b)' \/ request'[b].op = "delete" =>
         request'[b].item \in Notices /\ Exists(request[b].item)'
  BY <1>1, <1>3 DEF AuthorFits
<1>6. panel'[b].words # Unwritten =>
         (Exists(<<panel[b].words, 1>>)' => panel'[b].words \in unsure' \/ InHand(b)')
  <2>. SUFFICES ASSUME panel[b].words # Unwritten, Exists(<<panel[b].words, 1>>)'
                PROVE  panel[b].words \in unsure' \/ InHand(b)
    BY <1>3
  <2>. DEFINE n == <<panel[b].words, 1>>
  <2>1. n \in Notices /\ n[1] = panel[b].words
    BY <1>2 DEF Notices
  <2>2. Exists(n)
    BY <2>1
  <2>. QED
    BY <1>1, <2>2 DEF AuthorFits
<1>. QED
  BY <1>1, <1>4, <1>5, <1>6 DEF AuthorFits

\* One author acts: what is new on the board is theirs, and so are the words they take.
LEMMA AuthorMoves ==
    ASSUME BoardInv, NEW a \in Authors, BoardFits', AuthorFits(a)',
           \A b \in Authors \ {a} : panel'[b] = panel[b] /\ request'[b] = request[b],
           written \subseteq written', unsure \subseteq unsure',
           \/ panel'[a].words \in {panel[a].words, Unwritten}
           \/ panel'[a].words \notin written,
           \A n \in Notices : Exists(n) => Exists(n)',
           \A n \in Notices : Exists(n)' /\ ~Exists(n) =>
              /\ panel[a].words # Unwritten /\ n[1] = panel[a].words
              /\ n[2] = 2 => n[1] \in unsure'
    PROVE  BoardInv'
<1>1. \A b \in Authors : AuthorFits(b) /\ panel[b].words \in written \cup {Unwritten}
  BY DEF BoardInv, AuthorFits
<1>2. \A b \in Authors : AuthorFits(b)'
  <2>. SUFFICES ASSUME NEW b \in Authors \ {a} PROVE AuthorFits(b)'
    OBVIOUS
  <2>1. \A n \in Notices : Exists(n)' /\ ~Exists(n) => n[1] # panel[b].words
    BY DEF BoardInv, WordsApart
  <2>. QED
    BY <2>1, AuthorKept
<1>3. \A b, c \in Authors : b # c /\ panel'[b].words # Unwritten => panel'[b].words # panel'[c].words
  BY <1>1 DEF BoardInv, WordsApart
<1>4. \A n \in Notices : Exists(n)' => n[1] \in written'
  BY <1>1 DEF BoardInv, WordsApart
<1>5. PostedOnce'
  <2>. SUFFICES ASSUME NEW w \in Wordings, Exists(<<w, 2>>)' PROVE w \in unsure'
    BY DEF PostedOnce, Exists
  <2>. DEFINE n == <<w, 2>>
  <2>1. n \in Notices /\ n[1] = w /\ n[2] = 2
    BY DEF Notices
  <2>2. CASE Exists(n)
    BY <2>2 DEF BoardInv, PostedOnce, Exists
  <2>3. CASE ~Exists(n)
    BY <2>1, <2>3
  <2>. QED
    BY <2>2, <2>3
<1>. QED
  BY <1>2, <1>3, <1>4, <1>5 DEF BoardInv, WordsApart

\* A page changes and the board and the requests do not: what it lists stays within what it
\* had, unless it loads what is up.
LEMMA PageMoves ==
    ASSUME BoardInv, NEW a \in Authors, NEW r \in Panel, panel' = [panel EXCEPT ![a] = r],
           UNCHANGED <<notice, request, unsure>>, written \subseteq written', written' \subseteq Wordings,
           \A n \in r.got \cup r.items : Exists(n), r.confirming => r.words # Unwritten,
           \/ r.words = panel[a].words
           \/ r.words \in written' \ written /\ request[a].op # "post" /\ r.words # Unwritten
    PROVE  BoardInv'
<1>1. /\ panel' \in [Authors -> Panel] /\ panel'[a] = r
      /\ \A b \in Authors \ {a} : panel'[b] = panel[b]
  BY DEF BoardInv, BoardFits
<1>2. \A n : Exists(n)' <=> Exists(n)
  BY DEF Exists
<1>3. BoardFits'
  BY <1>1 DEF BoardInv, BoardFits
<1>4. AuthorFits(a) /\ (InHand(a)' <=> InHand(a))
  BY DEF BoardInv, InHand
<1>5. r.words \in Wordings \cup {Unwritten}
  BY PanelParts
<1>6. CASE r.words = panel[a].words
  <2>1. AuthorFits(a)'
    BY <1>1, <1>2, <1>4, <1>6 DEF AuthorFits
  <2>. QED
    BY <1>1, <1>2, <1>3, <1>6, <2>1, AuthorMoves
<1>7. CASE r.words \in written' \ written /\ request[a].op # "post" /\ r.words # Unwritten
  <2>1. ~Exists(<<r.words, 1>>)
    <3>1. <<r.words, 1>> \in Notices /\ <<r.words, 1>>[1] = r.words
      BY <1>5, <1>7 DEF Notices
    <3>. QED
      BY <1>7, <3>1 DEF BoardInv, WordsApart
  <2>2. AuthorFits(a)'
    BY <1>1, <1>2, <1>4, <1>7, <2>1 DEF AuthorFits
  <2>. QED
    BY <1>1, <1>2, <1>3, <1>7, <2>2, AuthorMoves
<1>. QED
  BY <1>6, <1>7

LEMMA BoardPageStep ==
    ASSUME BoardInv, NEW a \in Authors,
           \/ ListNotices(a) \/ Load(a) \/ ReadFails(a) \/ Submit(a)
           \/ \E w \in Wordings : Compose(a, w)
    PROVE  BoardInv'
<1>. DEFINE row == panel[a]
<1>1. row \in Panel /\ panel \in [Authors -> Panel]
  BY DEF BoardInv, BoardFits
<1>2. UNCHANGED <<notice, request, unsure>>
  BY DEF ListNotices, Load, ReadFails, Submit, Compose
<1>8. row.confirming => row.words # Unwritten
  BY DEF BoardInv, AuthorFits
<1>3. \A n \in row.got \cup row.items : Exists(n)
  BY DEF BoardInv, AuthorFits
<1>4. CASE ListNotices(a)
  <2>. DEFINE r == [row EXCEPT !.load = "answered", !.got = Up]
  <2>1. Up \in SUBSET Notices /\ (\A n \in Up : Exists(n)) /\ "answered" \in Loads
    BY DEF Up, Exists, Loads
  <2>2. r \in Panel /\ r.got = Up /\ r.items = row.items /\ r.words = row.words
        /\ r.confirming = row.confirming
    <3>1. r = [row EXCEPT !.load = "answered", !.got = Up]
      OBVIOUS
    <3>. HIDE DEF r, row
    <3>2. row \in Panel /\ "answered" \in Loads /\ Up \in SUBSET Notices
      BY <1>1, <2>1
    <3>3. r \in Panel
      BY <3>1, <3>2, Zenon DEF Panel, Loads
    <3>4. r.got = Up
      BY <3>1, <3>2, Zenon DEF Panel
    <3>5. r.items = row.items /\ r.words = row.words
      BY <3>1, <3>2, Zenon DEF Panel
    <3>6. r.confirming = row.confirming
      BY <3>1, <3>2, Zenon DEF Panel
    <3>. QED
      BY <3>3, <3>4, <3>5, <3>6
  <2>3. panel' = [panel EXCEPT ![a] = r]
    BY <1>1, <1>4, Zenon DEF ListNotices
  <2>. HIDE DEF r
  <2>4. written' = written
    BY <1>4 DEF ListNotices
  <2>5. \A n \in r.got \cup r.items : Exists(n)
    BY <1>3, <2>1, <2>2
  <2>. QED
    BY <1>2, <1>8, <2>2, <2>3, <2>4, <2>5, PageMoves DEF BoardInv, BoardFits
<1>9. CASE ReadFails(a)
  <2>. DEFINE r == [row EXCEPT !.load = "done", !.got = {}]
  <2>1. {} \in SUBSET Notices /\ (\A n \in {} : Exists(n)) /\ "done" \in Loads
    BY DEF Loads
  <2>2. r \in Panel /\ r.got = {} /\ r.items = row.items /\ r.words = row.words
        /\ r.confirming = row.confirming
    <3>1. r = [row EXCEPT !.load = "done", !.got = {}]
      OBVIOUS
    <3>. HIDE DEF r, row
    <3>2. row \in Panel /\ "done" \in Loads /\ {} \in SUBSET Notices
      BY <1>1, <2>1
    <3>3. r \in Panel
      BY <3>1, <3>2, Zenon DEF Panel, Loads
    <3>4. r.got = {}
      BY <3>1, <3>2, Zenon DEF Panel
    <3>5. r.items = row.items /\ r.words = row.words
      BY <3>1, <3>2, Zenon DEF Panel
    <3>6. r.confirming = row.confirming
      BY <3>1, <3>2, Zenon DEF Panel
    <3>. QED
      BY <3>3, <3>4, <3>5, <3>6
  <2>3. panel' = [panel EXCEPT ![a] = r]
    BY <1>1, <1>9, Zenon DEF ReadFails
  <2>. HIDE DEF r
  <2>4. written' = written
    BY <1>9 DEF ReadFails
  <2>5. \A n \in r.got \cup r.items : Exists(n)
    BY <1>3, <2>1, <2>2
  <2>. QED
    BY <1>2, <1>8, <2>2, <2>3, <2>4, <2>5, PageMoves DEF BoardInv, BoardFits
<1>5. CASE Load(a)
  <2>. DEFINE r == [row EXCEPT !.load = "done", !.items = row.got, !.got = {}]
  <2>1. r \in Panel /\ r.got = {} /\ r.items = row.got /\ r.words = row.words
        /\ r.confirming = row.confirming
    BY <1>1, PanelLoaded
  <2>2. panel' = [panel EXCEPT ![a] = r]
    BY <1>1, <1>5, Zenon DEF Load
  <2>. HIDE DEF r
  <2>3. written' = written
    BY <1>5 DEF Load
  <2>4. \A n \in r.got \cup r.items : Exists(n)
    BY <1>3, <2>1
  <2>. QED
    BY <1>2, <1>8, <2>1, <2>2, <2>3, <2>4, PageMoves DEF BoardInv, BoardFits
<1>6. CASE Submit(a)
  <2>. DEFINE c == ~row.confirming
              r == [row EXCEPT !.confirming = c]
  <2>1. c \in BOOLEAN
    OBVIOUS
  <2>2. r \in Panel /\ r.got = row.got /\ r.items = row.items /\ r.words = row.words
    <3>. HIDE DEF c
    <3>. QED
      BY <1>1, <2>1, PanelConfirms
  <2>3. panel' = [panel EXCEPT ![a] = r]
    BY <1>1, <1>6, Zenon DEF Submit
  <2>. HIDE DEF r, c
  <2>4. written' = written /\ row.words # Unwritten
    BY <1>6 DEF Submit
  <2>5. \A n \in r.got \cup r.items : Exists(n)
    BY <1>3, <2>2
  <2>. QED
    BY <1>2, <2>2, <2>3, <2>4, <2>5, PageMoves DEF BoardInv, BoardFits
<1>7. CASE \E w \in Wordings : Compose(a, w)
  <2>1. PICK w \in Wordings : Compose(a, w)
    BY <1>7
  <2>. DEFINE r == [row EXCEPT !.words = w]
  <2>2. r \in Panel /\ r.got = row.got /\ r.items = row.items /\ r.words = w
    BY <1>1, PanelWritten
  <2>3. panel' = [panel EXCEPT ![a] = r]
    BY <1>1, <2>1, Zenon DEF Compose
  <2>. HIDE DEF r
  <2>4. written' = written \cup {w} /\ w \notin written /\ row.words = Unwritten
    BY <2>1 DEF Compose
  <2>5. \A n \in r.got \cup r.items : Exists(n)
    BY <1>3, <2>2
  <2>6. request[a].op # "post" /\ w # Unwritten
    BY <2>4, NoticesAssumption DEF BoardInv, AuthorFits
  <2>. QED
    BY <1>2, <2>2, <2>3, <2>4, <2>5, <2>6, PageMoves DEF BoardInv, BoardFits
<1>. QED
  BY <1>4, <1>5, <1>6, <1>7, <1>9

\* A request moves on: the page stays, and what was in hand is still, or is unsure.
LEMMA RequestMoves ==
    ASSUME BoardInv, NEW a \in Authors, NEW q \in Request, request' = [request EXCEPT ![a] = q],
           UNCHANGED <<panel, written>>, unsure \subseteq unsure',
           notice' \in [Notices -> {"none", "up", "deleted"}],
           \A n \in Notices : Exists(n) => Exists(n)',
           \A n \in Notices : Exists(n)' /\ ~Exists(n) =>
              /\ panel[a].words # Unwritten /\ n[1] = panel[a].words
              /\ n[2] = 2 => n[1] \in unsure',
           q.op = "post" => panel[a].words # Unwritten /\ q.item[1] = panel[a].words,
           (q.op = "post" /\ q.stage \in {"created", "answered"}) \/ q.op = "delete" =>
              q.item \in Notices /\ Exists(q.item)',
           q.stage = "created" => q.op = "post",
           panel[a].words # Unwritten =>
              (Exists(<<panel[a].words, 1>>)' =>
                 panel[a].words \in unsure' \/ (q.op = "post" /\ q.stage \in {"created", "answered"}))
    PROVE  BoardInv'
<1>1. /\ request' \in [Authors -> Request] /\ request'[a] = q
      /\ \A b \in Authors \ {a} : request'[b] = request[b]
  BY DEF BoardInv, BoardFits
<1>2. BoardFits'
  BY <1>1 DEF BoardInv, BoardFits
<1>3. AuthorFits(a) /\ panel[a].got \in SUBSET Notices /\ panel[a].items \in SUBSET Notices
  BY PanelParts DEF BoardInv, BoardFits
<1>4. InHand(a)' <=> (q.op = "post" /\ q.stage \in {"created", "answered"})
  BY <1>1 DEF InHand
<1>5. \A n \in panel'[a].got \cup panel'[a].items : Exists(n)'
  BY <1>3 DEF AuthorFits
<1>6. InHand(a)' \/ request'[a].op = "delete" =>
         request'[a].item \in Notices /\ Exists(request[a].item)'
  BY <1>1, <1>4
<1>7. panel'[a].words # Unwritten =>
         (Exists(<<panel[a].words, 1>>)' => panel'[a].words \in unsure' \/ InHand(a)')
  BY <1>4
<1>8. AuthorFits(a)'
  BY <1>1, <1>3, <1>5, <1>6, <1>7 DEF AuthorFits
<1>. QED
  BY <1>1, <1>2, <1>8, AuthorMoves

LEMMA RequestParts ==
    ASSUME NEW q \in Request
    PROVE  /\ q.op \in {"none", "post", "delete"}
           /\ q.stage \in {"asked", "created", "answered", "failed"}
           /\ q.item \in Notices \cup {<<Unwritten, 1>>}
  BY DEF Request

LEMMA SendStep == ASSUME BoardInv, NEW a \in Authors, Send(a) PROVE BoardInv'
<1>. DEFINE w == panel[a].words
            q == [op |-> "post", stage |-> "asked", item |-> <<w, 1>>]
<1>1. /\ request' = [request EXCEPT ![a] = q] /\ request[a].op = "none"
      /\ panel[a].confirming /\ UNCHANGED <<notice, panel, written, unsure>>
  BY RequestParts DEF Send, Posting
<1>2. w \in Wordings \cup {Unwritten} /\ AuthorFits(a)
  BY PanelParts DEF BoardInv, BoardFits
<1>3. w # Unwritten /\ (Exists(<<w, 1>>) => w \in unsure)
  BY <1>1, <1>2 DEF AuthorFits, InHand
<1>4. q \in Request /\ q.op = "post" /\ q.stage = "asked" /\ q.item[1] = w
  BY <1>2, <1>3 DEF Request, Notices
<1>. HIDE DEF q
<1>5. \A n : Exists(n)' <=> Exists(n)
  BY <1>1 DEF Exists
<1>. QED
  BY <1>1, <1>3, <1>4, <1>5, RequestMoves DEF BoardInv, BoardFits

\* The same words posted again were posted by an author who was told of a failure.
LEMMA CreateStep == ASSUME BoardInv, NEW a \in Authors, Create(a) PROVE BoardInv'
<1>. DEFINE w == request[a].item[1]
            n == <<w, IF notice[<<w, 1>>] = "none" THEN 1 ELSE 2>>
            q == [request[a] EXCEPT !.stage = "created", !.item = n]
<1>1. /\ request[a].op = "post" /\ request[a].stage = "asked" /\ ~Exists(n)
      /\ notice' = [notice EXCEPT ![n] = "up"] /\ UNCHANGED <<panel, written, unsure>>
  BY DEF Create, Exists
<1>2. AuthorFits(a) /\ request[a] \in Request /\ panel[a].words \in Wordings \cup {Unwritten}
  BY PanelParts DEF BoardInv, BoardFits
<1>3. w = panel[a].words /\ w # Unwritten /\ w \in Wordings /\ ~InHand(a)
  BY <1>1, <1>2 DEF AuthorFits, InHand
<1>4. n \in Notices /\ n[1] = w /\ (n[2] = 2 => Exists(<<w, 1>>))
  BY <1>3 DEF Notices, Exists
<1>5. Exists(<<w, 1>>) => w \in unsure
  BY <1>2, <1>3 DEF AuthorFits
<1>. HIDE DEF n, w
<1>6. q \in Request /\ q.op = "post" /\ q.stage = "created" /\ q.item = n
  BY <1>1, <1>2, <1>4 DEF Request
<1>7. request' = [request EXCEPT ![a] = q]
  BY Zenon DEF Create, BoardInv, BoardFits, n, w
<1>. HIDE DEF q
<1>8. /\ notice' \in [Notices -> {"none", "up", "deleted"}] /\ notice'[n] = "up"
      /\ \A m \in Notices \ {n} : Exists(m)' <=> Exists(m)
  BY <1>1, <1>4 DEF BoardInv, BoardFits, Exists
<1>9. \A m : Exists(m)' <=> notice'[m] # "none"
  BY DEF Exists
<1>10. \A m \in Notices : Exists(m) => Exists(m)'
  BY <1>8, <1>9
<1>11. \A m \in Notices : Exists(m)' /\ ~Exists(m) =>
           /\ panel[a].words # Unwritten /\ m[1] = panel[a].words
           /\ m[2] = 2 => m[1] \in unsure'
  BY <1>1, <1>3, <1>4, <1>5, <1>8
<1>12. notice'[q.item] # "none" /\ q.item \in Notices /\ q.item[1] = panel[a].words
  BY <1>3, <1>4, <1>6, <1>8
<1>. QED
  BY <1>1, <1>3, <1>6, <1>7, <1>8, <1>9, <1>10, <1>11, <1>12, RequestMoves

LEMMA DispatchManyStep == ASSUME BoardInv, NEW a \in Authors, DispatchMany(a) PROVE BoardInv'
<1>. DEFINE q == [request[a] EXCEPT !.stage = "answered"]
<1>1. /\ request[a].stage = "created" /\ UNCHANGED <<notice, panel, written, unsure>>
      /\ request' = [request EXCEPT ![a] = q]
  BY DEF DispatchMany, BoardInv, BoardFits
<1>2. AuthorFits(a) /\ request[a] \in Request
  BY DEF BoardInv, BoardFits
<1>3. request[a].op = "post" /\ InHand(a)
  BY <1>1, <1>2 DEF AuthorFits, InHand
<1>4. q \in Request /\ q.op = "post" /\ q.stage = "answered" /\ q.item = request[a].item
  BY <1>2, <1>3 DEF Request
<1>. HIDE DEF q
<1>5. \A n : Exists(n)' <=> Exists(n)
  BY <1>1 DEF Exists
<1>. QED
  BY <1>1, <1>2, <1>3, <1>4, <1>5, RequestMoves DEF BoardInv, BoardFits, AuthorFits

\* A notice that is deleted was posted.
LEMMA DeleteNoticeStep == ASSUME BoardInv, NEW a \in Authors, Delete(a) PROVE BoardInv'
<1>. DEFINE stage == IF notice[request[a].item] = "up" THEN "answered" ELSE "failed"
            q == [request[a] EXCEPT !.stage = stage]
<1>1. /\ request[a].op = "delete" /\ UNCHANGED <<panel, written, unsure>>
      /\ notice' = [notice EXCEPT ![request[a].item] = "deleted"]
      /\ request' = [request EXCEPT ![a] = q]
  BY DEF Delete, BoardInv, BoardFits
<1>2. AuthorFits(a) /\ request[a] \in Request
  BY DEF BoardInv, BoardFits
<1>3. request[a].item \in Notices /\ Exists(request[a].item) /\ ~InHand(a)
  BY <1>1, <1>2 DEF AuthorFits, InHand
<1>4. stage \in {"answered", "failed"}
  OBVIOUS
<1>. HIDE DEF stage
<1>5. q \in Request /\ q.op = "delete" /\ q.stage = stage /\ q.item = request[a].item
  BY <1>1, <1>2, <1>4 DEF Request
<1>. HIDE DEF q
<1>6. /\ notice' \in [Notices -> {"none", "up", "deleted"}]
      /\ \A m \in Notices : notice'[m] # "none" <=> Exists(m)
  BY <1>1, <1>3 DEF BoardInv, BoardFits, Exists
<1>7. \A m : Exists(m)' <=> notice'[m] # "none"
  BY DEF Exists
<1>8. notice'[q.item] # "none" /\ q.item \in Notices
  BY <1>3, <1>5, <1>6
<1>9. panel[a].words # Unwritten => (Exists(<<panel[a].words, 1>>)' => panel[a].words \in unsure')
  <2>. SUFFICES ASSUME panel[a].words # Unwritten, notice'[<<panel[a].words, 1>>] # "none"
                PROVE  panel[a].words \in unsure
    BY <1>1 DEF Exists
  <2>1. panel[a].words \in Wordings
    BY PanelParts DEF BoardInv, BoardFits
  <2>2. <<panel[a].words, 1>> \in Notices
    BY <2>1 DEF Notices
  <2>. QED
    BY <1>2, <1>3, <1>6, <2>2 DEF AuthorFits
<1>. QED
  BY <1>1, <1>4, <1>5, <1>6, <1>7, <1>8, <1>9, RequestMoves

\* A failure after the notice was saved leaves the author unsure.
LEMMA RequestFailsStep == ASSUME BoardInv, NEW a \in Authors, RequestFails(a) PROVE BoardInv'
<1>. DEFINE q == [request[a] EXCEPT !.stage = "failed"]
<1>1. /\ request[a].op # "none" /\ UNCHANGED <<notice, panel, written>>
      /\ request' = [request EXCEPT ![a] = q]
      /\ unsure' = IF request[a].op = "post" /\ request[a].stage # "asked"
                   THEN unsure \cup {request[a].item[1]} ELSE unsure
      /\ request[a].stage # "failed"
  BY DEF RequestFails, Posting, BoardInv, BoardFits
<1>2. AuthorFits(a) /\ request[a] \in Request
  BY DEF BoardInv, BoardFits
<1>3. q \in Request /\ q.op = request[a].op /\ q.stage = "failed" /\ q.item = request[a].item
  BY <1>2 DEF Request
<1>. HIDE DEF q
<1>4. \A n : Exists(n)' <=> Exists(n)
  BY <1>1 DEF Exists
<1>5. panel[a].words # Unwritten => (Exists(<<panel[a].words, 1>>)' => panel[a].words \in unsure')
  <2>. SUFFICES ASSUME panel[a].words # Unwritten, Exists(<<panel[a].words, 1>>)
                PROVE  panel[a].words \in unsure'
    BY <1>1 DEF Exists
  <2>. QED
    BY <1>1, <1>2 DEF AuthorFits, InHand
<1>6. q.op = "delete" => q.item \in Notices /\ Exists(request[a].item)
  BY <1>2, <1>3 DEF AuthorFits
<1>7. unsure \subseteq unsure'
  BY <1>1
<1>8. q.op = "post" => panel[a].words # Unwritten /\ q.item[1] = panel[a].words
  BY <1>2, <1>3 DEF AuthorFits
<1>. QED
  BY <1>1, <1>3, <1>4, <1>5, <1>6, <1>7, <1>8, RequestMoves DEF BoardInv, BoardFits

LEMMA NothingAsked ==
    /\ NoRequest \in Request /\ NoRequest.op = "none" /\ NoRequest.stage = "asked"
  BY DEF NoRequest, Request

\* The author is told: the page changes and the request is over.
LEMMA ToldStep ==
    ASSUME BoardInv, NEW a \in Authors, NEW r \in Panel, panel' = [panel EXCEPT ![a] = r],
           request' = [request EXCEPT ![a] = NoRequest], UNCHANGED <<notice, written, unsure>>,
           \A n \in r.got \cup r.items : Exists(n), r.confirming => r.words # Unwritten,
           r.words = Unwritten \/ (r.words = panel[a].words /\ ~InHand(a))
    PROVE  BoardInv'
<1>1. /\ panel' \in [Authors -> Panel] /\ panel'[a] = r
      /\ request' \in [Authors -> Request] /\ request'[a] = NoRequest
      /\ \A b \in Authors \ {a} : panel'[b] = panel[b] /\ request'[b] = request[b]
  BY NothingAsked DEF BoardInv, BoardFits
<1>2. \A n : Exists(n)' <=> Exists(n)
  BY DEF Exists
<1>3. BoardFits' /\ AuthorFits(a)
  BY <1>1 DEF BoardInv, BoardFits
<1>4. request'[a].op = "none" /\ request'[a].stage = "asked" /\ ~InHand(a)'
  BY <1>1, NothingAsked DEF InHand
<1>5. panel'[a].words \in written' \cup {Unwritten}
  BY <1>1, <1>3 DEF AuthorFits
<1>6. panel'[a].words # Unwritten => (Exists(<<panel[a].words, 1>>)' => panel'[a].words \in unsure')
  BY <1>1, <1>2, <1>3 DEF AuthorFits
<1>7. panel'[a].words # Unwritten => panel'[a].words = panel[a].words
  BY <1>1
<1>8. AuthorFits(a)'
  <2>1. panel'[a].words # Unwritten =>
          (notice'[<<panel'[a].words, 1>>] # "none" => panel'[a].words \in unsure')
    BY <1>6, <1>7 DEF Exists
  <2>2. \A n \in panel'[a].got \cup panel'[a].items : Exists(n)'
    BY <1>1, <1>2
  <2>. QED
    BY <1>1, <1>4, <1>5, <2>1, <2>2 DEF AuthorFits, Exists
<1>. QED
  BY <1>1, <1>2, <1>3, <1>7, <1>8, AuthorMoves

LEMMA PostedStep ==
    ASSUME BoardInv, NEW a \in Authors, Posted(a) \/ NotPosted(a) \/ Removed(a)
    PROVE  BoardInv'
<1>. DEFINE row == panel[a]
            item == request[a].item
<1>1. row \in Panel /\ panel \in [Authors -> Panel] /\ AuthorFits(a) /\ row.items \in SUBSET Notices
  BY PanelParts DEF BoardInv, BoardFits
<1>2. /\ request' = [request EXCEPT ![a] = NoRequest] /\ UNCHANGED <<notice, written, unsure>>
  BY DEF Posted, NotPosted, Removed
<1>3. (\A n \in row.got \cup row.items : Exists(n)) /\ (row.confirming => row.words # Unwritten)
  BY <1>1 DEF AuthorFits
<1>4. CASE Posted(a)
  <2>. DEFINE items == row.items \cup {item}
              r == [row EXCEPT !.items = items, !.words = Unwritten, !.confirming = FALSE]
  <2>1. item \in Notices /\ Exists(item)
    BY <1>1, <1>4 DEF Posted, AuthorFits, InHand
  <2>2. items \in SUBSET Notices /\ \A n \in items : Exists(n)
    BY <1>1, <1>3, <2>1
  <2>3. panel' = [panel EXCEPT ![a] = r]
    BY <1>1, <1>4, Zenon DEF Posted
  <2>. HIDE DEF items
  <2>4. r \in Panel /\ r.got = row.got /\ r.items = items /\ r.words = Unwritten
        /\ r.confirming = FALSE
    BY <1>1, <2>2, PanelPosted
  <2>. HIDE DEF r
  <2>. QED
    BY <1>2, <1>3, <2>2, <2>3, <2>4, ToldStep
<1>5. CASE NotPosted(a)
  <2>. DEFINE r == [row EXCEPT !.confirming = FALSE]
  <2>1. panel' = [panel EXCEPT ![a] = r]
    BY <1>1, <1>5, Zenon DEF NotPosted
  <2>2. r \in Panel /\ r.got = row.got /\ r.items = row.items /\ r.words = row.words
        /\ r.confirming = FALSE
    BY <1>1, PanelConfirms
  <2>. HIDE DEF r
  <2>3. ~InHand(a)
    BY <1>5 DEF NotPosted, InHand
  <2>. QED
    BY <1>2, <1>3, <2>1, <2>2, <2>3, ToldStep
<1>6. CASE Removed(a)
  <2>. DEFINE items == IF request[a].stage = "answered" THEN row.items \ {item} ELSE row.items
              r == [row EXCEPT !.items = items]
  <2>1. panel' = [panel EXCEPT ![a] = r]
    BY <1>1, <1>6, Zenon DEF Removed
  <2>2. items \in SUBSET Notices /\ items \subseteq row.items
    BY <1>1
  <2>. HIDE DEF items
  <2>3. r \in Panel /\ r.got = row.got /\ r.items = items /\ r.words = row.words
        /\ r.confirming = row.confirming
    BY <1>1, <2>2, PanelItems
  <2>. HIDE DEF r
  <2>4. ~InHand(a)
    BY <1>6 DEF Removed, InHand
  <2>. QED
    BY <1>2, <1>3, <2>1, <2>2, <2>3, <2>4, ToldStep
<1>. QED
  BY <1>4, <1>5, <1>6

LEMMA RemoveNoticeStep ==
    ASSUME BoardInv, NEW a \in Authors, NEW n \in Notices, RemoveNotice(a, n)
    PROVE  BoardInv'
<1>. DEFINE q == [op |-> "delete", stage |-> "asked", item |-> n]
<1>1. /\ request' = [request EXCEPT ![a] = q] /\ request[a].op = "none"
      /\ n \in panel[a].items /\ UNCHANGED <<notice, panel, written, unsure>>
  BY RequestParts DEF RemoveNotice, Posting
<1>2. AuthorFits(a)
  BY DEF BoardInv
<1>3. q \in Request /\ q.op = "delete" /\ q.stage = "asked" /\ q.item = n
  BY DEF Request
<1>. HIDE DEF q
<1>4. \A m : Exists(m)' <=> Exists(m)
  BY <1>1 DEF Exists
<1>5. Exists(n) /\ ~InHand(a)
  BY <1>1, <1>2 DEF AuthorFits, InHand
<1>. QED
  BY <1>1, <1>2, <1>3, <1>4, <1>5, RequestMoves DEF BoardInv, BoardFits, AuthorFits

\* What the board keeps while any number of authors post, confirm and delete: a page that
\* holds a post holds the one request for it (NoticesPanel.tsx, announcements.service.ts).
THEOREM BoardInvariant == BoardSpec => []BoardInv
<1>1. ASSUME BoardInv, [BoardNext]_boardVars
      PROVE  BoardInv'
  <2>1. CASE \E a \in Authors : \/ ListNotices(a) \/ Load(a) \/ ReadFails(a) \/ Submit(a)
                               \/ \E w \in Wordings : Compose(a, w)
    BY <1>1, <2>1, BoardPageStep
  <2>2. CASE \E a \in Authors : Send(a) \/ Create(a) \/ DispatchMany(a)
    BY <1>1, <2>2, SendStep, CreateStep, DispatchManyStep
  <2>3. CASE \E a \in Authors : Posted(a) \/ NotPosted(a) \/ Removed(a)
    BY <1>1, <2>3, PostedStep
  <2>4. CASE \E a \in Authors : \/ Delete(a) \/ RequestFails(a)
                               \/ \E n \in Notices : RemoveNotice(a, n)
    BY <1>1, <2>4, DeleteNoticeStep, RequestFailsStep, RemoveNoticeStep
  <2>5. CASE UNCHANGED boardVars
    BY <1>1, <2>5 DEF boardVars, BoardInv, BoardFits, WordsApart, PostedOnce, AuthorFits, InHand,
                      Exists
  <2>. QED
    BY <1>1, <2>1, <2>2, <2>3, <2>4, <2>5 DEF BoardNext
<1>. QED
  BY <1>1, BoardInitial, PTL DEF BoardSpec

\* announcements.service.ts: the same words are posted twice only by an author who was told
\* that the post failed after it was saved.
THEOREM NothingPostedTwice == BoardSpec => []PostedOnce
<1>. QED
  BY BoardInvariant, PTL DEF BoardInv
-----------------------------------------------------------------------------
(* The visitor on the way.                                                 *)

Steps == {"idle", "sent", "read", "refused", "look", "tell"}
Kinds == {"none", "position", "stop", "arrived"}

LEMMA QuietRow == Quiet \in PostRow /\ Quiet.kind = "none" /\ Quiet.step = "idle"
<1>1. FALSE \in BOOLEAN /\ "none" \in Kinds /\ "idle" \in Steps
  BY DEF Steps, Kinds
<1>2. Quiet \in PostRow
  BY <1>1, Zenon DEF PostRow, Quiet, Steps, Kinds
<1>3. Quiet.kind = "none"
  BY DEF Quiet
<1>4. Quiet.step = "idle"
  BY DEF Quiet
<1>. QED
  BY <1>2, <1>3, <1>4

\* What becomes of a request's row.
LEMMA SentRow ==
    ASSUME NEW kind \in Kinds
    PROVE  LET r == [Quiet EXCEPT !.kind = kind, !.step = "sent"]
           IN  r \in PostRow /\ r.kind = kind /\ r.step = "sent"
<1>. DEFINE r == [Quiet EXCEPT !.kind = kind, !.step = "sent"]
<1>1. "sent" \in Steps
  BY DEF Steps
<1>2. r \in PostRow
  BY <1>1, QuietRow, Zenon DEF PostRow, Steps, Kinds
<1>3. r.kind = kind
  BY QuietRow, Zenon DEF PostRow
<1>4. r.step = "sent"
  BY QuietRow, Zenon DEF PostRow
<1>. QED
  BY <1>2, <1>3, <1>4

LEMMA MovedRow ==
    ASSUME NEW row \in PostRow, NEW step \in Steps
    PROVE  LET r == [row EXCEPT !.step = step]
           IN  r \in PostRow /\ r.kind = row.kind /\ r.step = step
<1>. DEFINE r == [row EXCEPT !.step = step]
<1>1. r \in PostRow
  BY Zenon DEF PostRow, Steps
<1>2. r.kind = row.kind
  BY Zenon DEF PostRow
<1>3. r.step = step
  BY Zenon DEF PostRow
<1>. QED
  BY <1>1, <1>2, <1>3

LEMMA ReadRow ==
    ASSUME NEW row \in PostRow, NEW live \in BOOLEAN
    PROVE  LET r == [row EXCEPT !.step = "read", !.live = live]
           IN  r \in PostRow /\ r.kind = row.kind /\ r.step = "read"
<1>. DEFINE r == [row EXCEPT !.step = "read", !.live = live]
<1>1. "read" \in Steps
  BY DEF Steps
<1>2. r \in PostRow
  BY <1>1, Zenon DEF PostRow, Steps
<1>3. r.kind = row.kind
  BY Zenon DEF PostRow
<1>4. r.step = "read"
  BY Zenon DEF PostRow
<1>. QED
  BY <1>2, <1>3, <1>4

Spot == [stored: BOOLEAN, arrived: BOOLEAN]

LEMMA ClearedSpot ==
    ASSUME NEW s \in Spot
    PROVE  LET c == [s EXCEPT !.stored = FALSE] IN c \in Spot /\ ~c.stored
<1>. DEFINE c == [s EXCEPT !.stored = FALSE]
<1>1. FALSE \in BOOLEAN
  OBVIOUS
<1>2. c \in Spot
  BY <1>1, Zenon DEF Spot
<1>3. ~c.stored
  BY Zenon DEF Spot
<1>. QED
  BY <1>2, <1>3

LEMMA MadeSpot ==
    ASSUME NEW x \in BOOLEAN, NEW y \in BOOLEAN
    PROVE  LET c == [stored |-> x, arrived |-> y] IN c \in Spot /\ c.stored = x
<1>. DEFINE c == [stored |-> x, arrived |-> y]
<1>1. c \in Spot
  BY Zenon DEF Spot
<1>2. c.stored = x
  BY Zenon
<1>. QED
  BY <1>1, <1>2

\* A request that is to delete the position and has not yet.
Deletes(r) == r.kind \in {"stop", "arrived"} /\ r.step \in {"sent", "read"}

RequestsFit ==
    /\ post \in [Posts -> PostRow] /\ spot \in Spot /\ hostTold \in Nat
    /\ sharing \in BOOLEAN /\ rushed \in BOOLEAN /\ leftBehind \in BOOLEAN
    /\ passLive \in BOOLEAN

\* Unless two looked at once, at most one request is about to tell, and then nobody has.
OneTells ==
    rushed \/ (/\ hostTold <= 1
               /\ \A p \in Posts : post[p].step = "tell" =>
                     hostTold = 0 /\ \A q \in Posts : post[q].step = "tell" => p = q)

\* A position that is stored without being shared will be deleted, or is known to stay.
WillBeDeleted ==
    sharing \/ leftBehind \/ ~spot.stored \/ \E p \in Posts : Deletes(post[p])

RequestsInv == RequestsFit /\ OneTells /\ WillBeDeleted

LEMMA RequestsInitial == ArrivalInit => RequestsInv
<1>. SUFFICES ASSUME ArrivalInit PROVE RequestsInv
  OBVIOUS
<1>1. post = [p \in Posts |-> Quiet] /\ hostTold = 0 /\ rushed = FALSE /\ leftBehind = FALSE
      /\ sharing = FALSE /\ passLive = TRUE
  BY DEF ArrivalInit
<1>2. spot \in Spot /\ spot.stored = FALSE
  BY MadeSpot DEF ArrivalInit
<1>3. RequestsFit
  BY <1>1, <1>2, QuietRow DEF RequestsFit
<1>4. OneTells
  BY <1>1, QuietRow DEF OneTells
<1>5. WillBeDeleted
  BY <1>2 DEF WillBeDeleted
<1>. QED
  BY <1>3, <1>4, <1>5 DEF RequestsInv

\* A request moves on without telling anyone.
LEMMA PostMoves ==
    ASSUME RequestsFit, OneTells, NEW p \in Posts, NEW r \in PostRow, r.step # "tell",
           post' = [post EXCEPT ![p] = r], UNCHANGED <<hostTold, rushed>>
    PROVE  /\ post' \in [Posts -> PostRow] /\ post'[p] = r
           /\ \A q \in Posts \ {p} : post'[q] = post[q]
           /\ OneTells'
<1>1. /\ post' \in [Posts -> PostRow] /\ post'[p] = r
      /\ \A q \in Posts \ {p} : post'[q] = post[q]
  BY DEF RequestsFit
<1>2. OneTells'
  BY <1>1 DEF OneTells
<1>. QED
  BY <1>1, <1>2

\* The page sends a request: a stop or an arrival will delete what is stored.
LEMMA SendingStep ==
    ASSUME RequestsInv, NEW kind \in Kinds, Sending(kind),
           sharing' \/ kind \in {"stop", "arrived"}, sharing' \in BOOLEAN,
           UNCHANGED <<passLive, spot, hostTold, rushed, leftBehind>>
    PROVE  RequestsInv'
<1>. DEFINE r == [Quiet EXCEPT !.kind = kind, !.step = "sent"]
<1>1. r \in PostRow /\ r.kind = kind /\ r.step = "sent"
  BY SentRow
<1>2. PICK p \in Posts : post' = [post EXCEPT ![p] = r]
  BY DEF Sending
<1>. HIDE DEF r
<1>3. post' \in [Posts -> PostRow] /\ post'[p] = r /\ OneTells'
  BY <1>1, <1>2, PostMoves DEF RequestsInv
<1>4. WillBeDeleted'
  BY <1>1, <1>3 DEF WillBeDeleted, Deletes
<1>. QED
  BY <1>3, <1>4 DEF RequestsInv, RequestsFit

LEMMA PhaseStep ==
    ASSUME RequestsInv, NEW phase, PhaseEffect(phase),
           UNCHANGED <<passLive, spot, hostTold, rushed, leftBehind>>
    PROVE  RequestsInv'
<1>1. CASE UNCHANGED <<sharing, post>>
  BY <1>1 DEF RequestsInv, RequestsFit, OneTells, WillBeDeleted
<1>2. CASE sharing' = FALSE /\ \E kind \in {"stop", "arrived"} : Sending(kind)
  BY <1>2, SendingStep DEF Kinds
<1>. QED
  BY <1>1, <1>2 DEF PhaseEffect

\* The visitor's page.
LEMMA VisitorPageStep ==
    ASSUME RequestsInv,
           \/ OpenNavigation \/ StartNavigation \/ HandleError \/ ConfirmArrivedManually
           \/ LeavePage \/ StartSharing \/ StopSharing \/ SendPosition
           \/ \E fix \in Fixes : HandleFix(fix)
    PROVE  RequestsInv'
<1>1. CASE OpenNavigation \/ StartNavigation
  BY <1>1 DEF OpenNavigation, StartNavigation, RequestsInv, RequestsFit, OneTells, WillBeDeleted
<1>2. CASE HandleError
  <2>1. UNCHANGED <<passLive, spot, hostTold, rushed, leftBehind>>
    BY <1>2 DEF HandleError
  <2>2. PhaseEffect("idle") \/ UNCHANGED <<sharing, post>>
    BY <1>2 DEF HandleError
  <2>3. CASE UNCHANGED <<sharing, post>>
    BY <2>1, <2>3 DEF RequestsInv, RequestsFit, OneTells, WillBeDeleted
  <2>. QED
    BY <2>1, <2>2, <2>3, PhaseStep
<1>3. CASE ConfirmArrivedManually
  BY <1>3, PhaseStep DEF ConfirmArrivedManually
<1>4. CASE \E fix \in Fixes : HandleFix(fix)
  <2>1. \E phase : PhaseEffect(phase)
    BY <1>4 DEF HandleFix
  <2>2. UNCHANGED <<passLive, spot, hostTold, rushed, leftBehind>>
    BY <1>4 DEF HandleFix
  <2>. QED
    BY <2>1, <2>2, PhaseStep
<1>5. CASE LeavePage
  <2>1. UNCHANGED <<post, passLive, spot, hostTold, rushed>> /\ sharing' = FALSE
        /\ leftBehind' = (leftBehind \/ sharing)
    BY <1>5 DEF LeavePage
  <2>. QED
    BY <2>1 DEF RequestsInv, RequestsFit, OneTells, WillBeDeleted
<1>6. CASE StartSharing
  <2>1. UNCHANGED <<post, passLive, spot, hostTold, rushed>> /\ sharing' = TRUE
        /\ leftBehind' = FALSE
    BY <1>6 DEF StartSharing
  <2>. QED
    BY <2>1 DEF RequestsInv, RequestsFit, OneTells, WillBeDeleted
<1>7. CASE StopSharing
  BY <1>7, SendingStep DEF StopSharing, Kinds
<1>8. CASE SendPosition
  BY <1>8, SendingStep DEF SendPosition, Kinds, RequestsInv, RequestsFit
<1>. QED
  BY <1>1, <1>2, <1>3, <1>4, <1>5, <1>6, <1>7, <1>8

\* A request is refused or lost: one that was to delete is counted.
LEMMA EndStep ==
    ASSUME RequestsInv, NEW p \in Posts, PositionRefused(p) \/ LosePost(p)
    PROVE  RequestsInv'
<1>1. /\ post' = [post EXCEPT ![p] = Quiet]
      /\ UNCHANGED <<passLive, spot, hostTold, rushed>>
  BY DEF PositionRefused, LosePost
<1>2. /\ post' \in [Posts -> PostRow]
      /\ \A q \in Posts \ {p} : post'[q] = post[q]
      /\ OneTells'
  BY <1>1, QuietRow, PostMoves DEF RequestsInv
<1>3. CASE PositionRefused(p)
  <2>1. /\ post[p].step = "refused" /\ sharing' = FALSE
        /\ leftBehind' = (leftBehind \/ (sharing /\ spot.stored))
    BY <1>3 DEF PositionRefused
  <2>2. ~Deletes(post[p])
    BY <2>1 DEF Deletes
  <2>3. WillBeDeleted'
    BY <1>1, <1>2, <2>1, <2>2 DEF RequestsInv, WillBeDeleted
  <2>. QED
    BY <1>1, <1>2, <2>1, <2>3 DEF RequestsInv, RequestsFit
<1>4. CASE LosePost(p)
  <2>1. sharing' = sharing /\ leftBehind' = (leftBehind \/ Deletes(post[p]))
    BY <1>4 DEF LosePost, Deleting, Deletes
  <2>2. WillBeDeleted'
    BY <1>1, <1>2, <2>1 DEF RequestsInv, WillBeDeleted
  <2>. QED
    BY <1>1, <1>2, <2>1, <2>2 DEF RequestsInv, RequestsFit
<1>. QED
  BY <1>3, <1>4

LEMMA FindByTokenStep ==
    ASSUME RequestsInv, NEW p \in Posts, FindByToken(p)
    PROVE  RequestsInv'
<1>. DEFINE r == [post[p] EXCEPT !.step = "read", !.live = passLive]
<1>1. post[p] \in PostRow /\ post[p].step = "sent"
  BY DEF RequestsInv, RequestsFit, FindByToken
<1>2. r \in PostRow /\ r.kind = post[p].kind /\ r.step = "read"
  BY <1>1, ReadRow DEF RequestsInv, RequestsFit
<1>3. post' = [post EXCEPT ![p] = r]
  BY Zenon DEF FindByToken, RequestsInv, RequestsFit
<1>. HIDE DEF r
<1>4. UNCHANGED <<sharing, passLive, spot, hostTold, rushed, leftBehind>>
  BY DEF FindByToken
<1>5. /\ post' \in [Posts -> PostRow] /\ post'[p] = r
      /\ \A q \in Posts \ {p} : post'[q] = post[q]
      /\ OneTells'
  BY <1>2, <1>3, <1>4, PostMoves DEF RequestsInv
<1>6. WillBeDeleted'
  BY <1>1, <1>2, <1>4, <1>5 DEF RequestsInv, WillBeDeleted, Deletes
<1>. QED
  BY <1>4, <1>5, <1>6 DEF RequestsInv, RequestsFit

\* A position is written: it stays if nobody shares it and nothing is to delete it.
LEMMA SaveStep ==
    ASSUME RequestsInv, NEW p \in Posts, SaveLivePosition(p)
    PROVE  RequestsInv'
<1>1. UNCHANGED <<sharing, passLive, hostTold, rushed>> /\ post[p].kind = "position"
      /\ post[p] \in PostRow /\ spot \in Spot
  BY DEF SaveLivePosition, RequestsInv, RequestsFit
<1>2. CASE post[p].live
  <2>1. /\ spot' = [stored |-> TRUE, arrived |-> FALSE]
        /\ post' = [post EXCEPT ![p] = Quiet]
        /\ leftBehind' = (leftBehind \/ (~sharing /\ Deleting = {}))
    BY <1>2 DEF SaveLivePosition
  <2>2. /\ post' \in [Posts -> PostRow]
        /\ \A q \in Posts \ {p} : post'[q] = post[q]
        /\ OneTells'
    BY <1>1, <2>1, QuietRow, PostMoves DEF RequestsInv
  <2>3. spot' \in Spot
    BY <2>1, MadeSpot
  <2>4. Deleting # {} => \E q \in Posts : Deletes(post'[q])
    BY <1>1, <2>2 DEF Deleting, Deletes
  <2>5. WillBeDeleted'
    BY <1>1, <2>1, <2>4 DEF WillBeDeleted, RequestsInv, RequestsFit
  <2>. QED
    BY <1>1, <2>1, <2>2, <2>3, <2>5 DEF RequestsInv, RequestsFit
<1>3. CASE ~post[p].live
  <2>. DEFINE r == [post[p] EXCEPT !.step = "refused"]
              c == [spot EXCEPT !.stored = FALSE]
  <2>1. r \in PostRow /\ r.step = "refused"
    BY <1>1, MovedRow DEF Steps
  <2>2. c \in Spot /\ ~c.stored
    BY <1>1, ClearedSpot
  <2>3. post' = [post EXCEPT ![p] = r] /\ spot' = c /\ leftBehind' = leftBehind
    BY <1>3, Zenon DEF SaveLivePosition, RequestsInv, RequestsFit
  <2>. HIDE DEF r, c
  <2>4. post' \in [Posts -> PostRow] /\ OneTells'
    BY <1>1, <2>1, <2>3, PostMoves DEF RequestsInv
  <2>. QED
    BY <1>1, <2>2, <2>3, <2>4 DEF RequestsInv, RequestsFit, WillBeDeleted
<1>. QED
  BY <1>2, <1>3

\* The position is deleted.
LEMMA DeletePositionStep ==
    ASSUME RequestsInv, NEW p \in Posts, MarkLiveArrived(p) \/ StopLiveSharing(p)
    PROVE  RequestsInv'
<1>1. UNCHANGED <<sharing, passLive, hostTold, rushed, leftBehind>>
      /\ post[p] \in PostRow /\ spot \in Spot
  BY DEF MarkLiveArrived, StopLiveSharing, RequestsInv, RequestsFit
<1>2. \E r \in PostRow : r.step # "tell" /\ post' = [post EXCEPT ![p] = r]
  <2>1. CASE MarkLiveArrived(p)
    <3>. DEFINE r == [post[p] EXCEPT !.step = "look"]
    <3>1. r \in PostRow /\ r.step = "look"
      BY <1>1, MovedRow DEF Steps
    <3>2. post' = [post EXCEPT ![p] = r]
      BY <2>1, Zenon DEF MarkLiveArrived, RequestsInv, RequestsFit
    <3>. HIDE DEF r
    <3>. QED
      BY <3>1, <3>2
  <2>2. CASE StopLiveSharing(p)
    BY <2>2, QuietRow DEF StopLiveSharing
  <2>. QED
    BY <2>1, <2>2
<1>3. post' \in [Posts -> PostRow] /\ OneTells'
  BY <1>1, <1>2, PostMoves DEF RequestsInv
<1>4. spot' \in Spot /\ ~spot'.stored
  <2>1. CASE MarkLiveArrived(p)
    <3>. DEFINE arrived == spot.arrived \/ post[p].live
    <3>1. arrived \in BOOLEAN /\ spot' = [stored |-> FALSE, arrived |-> arrived]
      BY <2>1 DEF MarkLiveArrived
    <3>. HIDE DEF arrived
    <3>. QED
      BY <3>1, MadeSpot
  <2>2. CASE StopLiveSharing(p)
    BY <1>1, <2>2, ClearedSpot DEF StopLiveSharing
  <2>. QED
    BY <2>1, <2>2
<1>. QED
  BY <1>1, <1>3, <1>4 DEF RequestsInv, RequestsFit, WillBeDeleted

\* A report looks: it will tell the host if no notice is there.
LEMMA NotifyStep ==
    ASSUME RequestsInv, NEW p \in Posts, NotifyHostOfArrival(p)
    PROVE  RequestsInv'
<1>. DEFINE told == \E q \in Posts : post[q].step = "tell"
<1>1. /\ post[p].step = "look" /\ post[p] \in PostRow
      /\ UNCHANGED <<sharing, passLive, spot, hostTold, leftBehind>>
      /\ rushed' = (rushed \/ told)
  BY DEF NotifyHostOfArrival, RequestsInv, RequestsFit
<1>2. ~Deletes(post[p])
  BY <1>1 DEF Deletes
<1>. DEFINE r == [post[p] EXCEPT !.step = "tell"]
<1>3. r \in PostRow /\ r.step = "tell"
  BY <1>1, MovedRow DEF Steps
<1>4. \/ post' = [post EXCEPT ![p] = r] /\ hostTold = 0
      \/ post' = [post EXCEPT ![p] = Quiet]
  <2>1. CASE spot.arrived /\ hostTold = 0
    BY <2>1, Zenon DEF NotifyHostOfArrival, RequestsInv, RequestsFit
  <2>2. CASE ~(spot.arrived /\ hostTold = 0)
    BY <2>2, Zenon DEF NotifyHostOfArrival
  <2>. QED
    BY <2>1, <2>2
<1>. HIDE DEF r
<1>5. /\ post' \in [Posts -> PostRow]
      /\ \A q \in Posts \ {p} : post'[q] = post[q]
      /\ post'[p].step = "tell" => hostTold = 0
  BY <1>3, <1>4, QuietRow DEF RequestsInv, RequestsFit
<1>6. OneTells'
  <2>1. CASE rushed'
    BY <2>1 DEF OneTells
  <2>2. CASE ~rushed'
    <3>1. ~rushed /\ ~told
      BY <1>1, <2>2
    <3>. HIDE DEF told
    <3>2. \A q \in Posts \ {p} : post'[q].step # "tell"
      BY <1>5, <3>1 DEF told
    <3>. QED
      BY <1>1, <1>5, <3>1, <3>2 DEF RequestsInv, OneTells
  <2>. QED
    BY <2>1, <2>2
<1>7. WillBeDeleted'
  BY <1>1, <1>2, <1>5 DEF RequestsInv, WillBeDeleted
<1>. QED
  BY <1>1, <1>5, <1>6, <1>7 DEF RequestsInv, RequestsFit

LEMMA TellStep ==
    ASSUME RequestsInv, NEW p \in Posts, TellHost(p)
    PROVE  RequestsInv'
<1>1. /\ post[p].step = "tell" /\ hostTold' = hostTold + 1
      /\ post' = [post EXCEPT ![p] = Quiet]
      /\ UNCHANGED <<sharing, passLive, spot, rushed, leftBehind>>
  BY DEF TellHost
<1>2. /\ post' \in [Posts -> PostRow] /\ post'[p].step = "idle"
      /\ \A q \in Posts \ {p} : post'[q] = post[q]
  BY <1>1, QuietRow DEF RequestsInv, RequestsFit
<1>3. ~Deletes(post[p])
  BY <1>1 DEF Deletes
<1>4. OneTells'
  BY <1>1, <1>2 DEF RequestsInv, RequestsFit, OneTells
<1>5. WillBeDeleted'
  BY <1>1, <1>2, <1>3 DEF RequestsInv, WillBeDeleted
<1>. QED
  BY <1>1, <1>2, <1>4, <1>5 DEF RequestsInv, RequestsFit

\* The host looks, the pass ends or comes back, half an hour goes by.
LEMMA OutsideStep ==
    ASSUME RequestsInv, HostLooks \/ SetPassLive \/ NoticesAge \/ UNCHANGED arrivalVars
    PROVE  RequestsInv'
<1>1. CASE HostLooks
  <2>1. spot' = [spot EXCEPT !.stored = FALSE]
        /\ UNCHANGED <<sharing, post, passLive, hostTold, rushed, leftBehind>>
    BY <1>1 DEF HostLooks
  <2>2. spot' \in Spot /\ ~spot'.stored
    BY <2>1, ClearedSpot DEF RequestsInv, RequestsFit
  <2>. QED
    BY <2>1, <2>2 DEF RequestsInv, RequestsFit, OneTells, WillBeDeleted
<1>2. CASE SetPassLive
  BY <1>2 DEF SetPassLive, RequestsInv, RequestsFit, OneTells, WillBeDeleted
<1>3. CASE NoticesAge
  <2>1. /\ hostTold' = 0 /\ rushed' = FALSE /\ \A p \in Posts : post[p].step # "tell"
        /\ UNCHANGED <<sharing, post, passLive, spot, leftBehind>>
    BY <1>3 DEF NoticesAge
  <2>2. OneTells'
    BY <2>1 DEF OneTells
  <2>. QED
    BY <2>1, <2>2 DEF RequestsInv, RequestsFit, WillBeDeleted
<1>4. CASE UNCHANGED arrivalVars
  BY <1>4 DEF arrivalVars, RequestsInv, RequestsFit, OneTells, WillBeDeleted
<1>. QED
  BY <1>1, <1>2, <1>3, <1>4

\* What the visitor's requests keep while any number of them run on the server: one of them
\* tells the host, and a position that outlives its page is about to be deleted (live-location.ts).
THEOREM RequestsInvariant == ArrivalSpec => []RequestsInv
<1>1. ASSUME RequestsInv, [ArrivalNext]_arrivalVars
      PROVE  RequestsInv'
  <2>1. CASE \/ OpenNavigation \/ StartNavigation \/ HandleError \/ ConfirmArrivedManually
             \/ LeavePage \/ StartSharing \/ StopSharing \/ SendPosition
             \/ \E fix \in Fixes : HandleFix(fix)
    BY <1>1, <2>1, VisitorPageStep
  <2>2. CASE \E p \in Posts : PositionRefused(p) \/ LosePost(p) \/ FindByToken(p)
    BY <1>1, <2>2, EndStep, FindByTokenStep
  <2>3. CASE \E p \in Posts : SaveLivePosition(p) \/ MarkLiveArrived(p) \/ StopLiveSharing(p)
    BY <1>1, <2>3, SaveStep, DeletePositionStep
  <2>4. CASE \E p \in Posts : NotifyHostOfArrival(p) \/ TellHost(p)
    BY <1>1, <2>4, NotifyStep, TellStep
  <2>5. CASE HostLooks \/ SetPassLive \/ NoticesAge \/ UNCHANGED arrivalVars
    BY <1>1, <2>5, OutsideStep
  <2>. QED
    BY <1>1, <2>1, <2>2, <2>3, <2>4, <2>5 DEF ArrivalNext
<1>. QED
  BY <1>1, RequestsInitial, PTL DEF ArrivalSpec

\* arrival-alerts.service.ts: the host hears of an arrival once in half an hour, unless two
\* reports looked for the earlier notice at the same time.
THEOREM ArrivalToldOnce == ArrivalSpec => []HostToldOnce
<1>1. RequestsInv => HostToldOnce
  BY DEF RequestsInv, RequestsFit, OneTells, HostToldOnce
<1>. QED
  BY <1>1, RequestsInvariant, PTL

\* live-location.ts: "Cleared when the visitor stops, arrives, or the invitation ends", once
\* the requests of the page are handled and none was lost or overtaken.
THEOREM PositionCleared == ArrivalSpec => []NothingLeftBehind
<1>1. RequestsInv => NothingLeftBehind
  <2>. SUFFICES ASSUME RequestsInv, ~sharing, spot.stored, \A p \in Posts : post[p] = Quiet
                PROVE  leftBehind
    BY DEF NothingLeftBehind
  <2>1. \A p \in Posts : ~Deletes(post[p])
    BY QuietRow DEF Deletes
  <2>. QED
    BY <2>1 DEF RequestsInv, WillBeDeleted
<1>. QED
  BY <1>1, RequestsInvariant, PTL
-----------------------------------------------------------------------------
\* The streak counts readings at the gate, of which the last was just heard; a page that
\* has arrived no longer listens.
PageFits ==
    /\ phone \in PhoneRow /\ heard \in Seq(Arrival) /\ Len(heard) <= 2
    /\ phone.watching => phone.phase # "arrived" /\ phone.streak < 2
    /\ phone.watching /\ phone.streak = 1 => heard # <<>> /\ heard[Len(heard)] = "arrived"

PageInv == PageFits /\ ArrivalConfirmed

Phases == {"closed", "idle", "locating", "navigating", "arrived"}
Problems == {"none", "permission-denied", "no-signal"}
Streaks == 0..ARRIVAL_CONFIRMATIONS
Readings == Fixes \cup {NoReading}

LEMMA StartedRow ==
    ASSUME phone \in PhoneRow
    PROVE  Started \in PhoneRow /\ Started.phase = "locating" /\ Started.streak = 0
<1>1. /\ "locating" \in Phases /\ TRUE \in BOOLEAN /\ 0 \in Streaks /\ FALSE \in BOOLEAN
      /\ "none" \in Problems
  BY DEF Phases, Streaks, Problems, ARRIVAL_CONFIRMATIONS
<1>2. Started \in PhoneRow
  BY <1>1, Zenon DEF Started, PhoneRow, Phases, Streaks, Problems
<1>3. Started.phase = "locating"
  BY Zenon DEF Started, PhoneRow
<1>4. Started.streak = 0
  BY Zenon DEF Started, PhoneRow
<1>. QED
  BY <1>2, <1>3, <1>4

LEMMA ClosedRow ==
    /\ ClosedPage \in PhoneRow /\ ClosedPage.phase = "closed"
    /\ ClosedPage.watching = FALSE /\ ClosedPage.byHand = FALSE
<1>1. /\ "closed" \in Phases /\ FALSE \in BOOLEAN /\ 0 \in Streaks /\ "none" \in Problems
      /\ NoReading \in Readings
  BY DEF Phases, Streaks, Problems, Readings, ARRIVAL_CONFIRMATIONS
<1>2. ClosedPage \in PhoneRow
  BY <1>1, Zenon DEF ClosedPage, PhoneRow, Phases, Streaks, Problems, Readings
<1>3. ClosedPage.phase = "closed"
  BY Zenon DEF ClosedPage
<1>4. ClosedPage.watching = FALSE
  BY Zenon DEF ClosedPage
<1>5. ClosedPage.byHand = FALSE
  BY Zenon DEF ClosedPage
<1>. QED
  BY <1>2, <1>3, <1>4, <1>5

LEMMA PageInitial == ArrivalInit => PageInv
<1>. SUFFICES ASSUME ArrivalInit PROVE PageInv
  OBVIOUS
<1>1. phone = ClosedPage /\ heard = <<>>
  BY DEF ArrivalInit
<1>. QED
  BY <1>1, ClosedRow DEF PageInv, PageFits, ArrivalConfirmed

\* A page that has not arrived, with a streak that is nothing yet.
LEMMA PageStarts ==
    ASSUME phone' \in PhoneRow, heard' = <<>>, phone'.phase # "arrived",
           phone'.watching => phone'.streak = 0
    PROVE  PageInv'
  BY DEF PageInv, PageFits, ArrivalConfirmed

LEMMA PageOpens ==
    ASSUME PageInv,
           \/ phone' = Started /\ heard' = <<>>
           \/ phone' = ClosedPage /\ heard' = <<>>
    PROVE  PageInv'
  BY StartedRow, ClosedRow, PageStarts DEF PageInv, PageFits

LEMMA PageKept == ASSUME PageInv, UNCHANGED <<phone, heard>> PROVE PageInv'
  BY DEF PageInv, PageFits, ArrivalConfirmed

LEMMA ArrivalStates == \A fix : evaluateArrival(fix) \in Arrival
  BY DEF evaluateArrival, Arrival

LEMMA Pair ==
    ASSUME NEW u \in Seq(Arrival), Len(u) = 2
    PROVE  u = <<u[1], u[2]>>
  OBVIOUS

LEMMA NotEmpty ==
    ASSUME NEW u \in Seq(Arrival), Len(u) # 0
    PROVE  u # <<>>
  OBVIOUS

\* The last two of what was heard, when the last is a reading at the gate.
LEMMA TwoInARow ==
    ASSUME NEW s \in Seq(Arrival), Len(s) <= 2, NEW x \in Arrival,
           NEW t, t = LastTwo(Append(s, x))
    PROVE  /\ t \in Seq(Arrival) /\ Len(t) <= 2 /\ t # <<>> /\ t[Len(t)] = x
           /\ (s # <<>> /\ s[Len(s)] = "arrived" /\ x = "arrived") => t = <<"arrived", "arrived">>
<1>. DEFINE u == Append(s, x)
            n == Len(s)
<1>1. u \in Seq(Arrival) /\ Len(u) = n + 1 /\ u[n + 1] = x /\ n \in Nat /\ n <= 2
      /\ \A i \in 1..n : u[i] = s[i]
  OBVIOUS
<1>2. t = IF Len(u) <= 2 THEN u ELSE SubSeq(u, Len(u) - 1, Len(u))
  BY DEF LastTwo
<1>3. n = 0 => s = <<>>
  OBVIOUS
<1>. HIDE DEF u, n
<1>4. CASE n = 0
  <2>1. Len(u) = 1 /\ u[1] = x
    BY <1>1, <1>4
  <2>2. t = u
    BY <1>2, <2>1
  <2>3. t # <<>> /\ t \in Seq(Arrival)
    BY <1>1, <2>1, <2>2, NotEmpty
  <2>4. Len(t) = 1 /\ t[Len(t)] = x
    BY <2>1, <2>2
  <2>5. s = <<>>
    BY <1>3, <1>4
  <2>. QED
    BY <2>3, <2>4, <2>5
<1>5. CASE n = 1
  <2>1. Len(u) = 2 /\ u[1] = s[1] /\ u[2] = x
    BY <1>1, <1>5
  <2>2. t = u
    BY <1>2, <2>1
  <2>3. t = <<t[1], t[2]>> /\ t # <<>> /\ t \in Seq(Arrival) /\ Len(t) = 2 /\ t[2] = x
    BY <1>1, <2>1, <2>2, Pair, NotEmpty
  <2>4. (s[n] = "arrived" /\ x = "arrived") => t = <<"arrived", "arrived">>
    BY <1>5, <2>1, <2>2, <2>3
  <2>. QED
    BY <2>3, <2>4 DEF n
<1>6. CASE n = 2
  <2>1. Len(u) = 3 /\ u[2] = s[2] /\ u[3] = x
    BY <1>1, <1>6
  <2>2. t = SubSeq(u, 2, 3)
    BY <1>2, <2>1
  <2>3. \A i \in 2..3 : u[i] \in Arrival
    BY <1>1, <2>1, ElementOfSeq
  <2>4. t \in Seq(Arrival) /\ Len(t) = 2 /\ \A i \in 1..2 : t[i] = u[i + 1]
    BY <2>2, <2>3, SubSeqProperties
  <2>5. t = <<t[1], t[2]>> /\ t # <<>> /\ t[1] = s[2] /\ t[2] = x
    BY <2>1, <2>4, Pair, NotEmpty
  <2>6. (s[n] = "arrived" /\ x = "arrived") => t = <<"arrived", "arrived">>
    BY <1>6, <2>5
  <2>. QED
    BY <2>4, <2>5, <2>6 DEF n
<1>. QED
  BY <1>1, <1>4, <1>5, <1>6

\* A reading: the second one in a row at the gate ends the guidance.
LEMMA HandleFixStep ==
    ASSUME PageInv, NEW fix \in Fixes, HandleFix(fix)
    PROVE  PageInv'
<1>. DEFINE state  == evaluateArrival(fix)
            streak == IF state = "arrived" THEN phone.streak + 1 ELSE 0
            phase  == IF streak >= ARRIVAL_CONFIRMATIONS THEN "arrived" ELSE "navigating"
            goes   == phase # "arrived"
            new    == [phone EXCEPT !.phase = phase, !.streak = streak, !.problem = "none",
                                    !.reading = fix, !.watching = goes]
<1>1. phone.watching /\ phone \in PhoneRow /\ phone.streak \in {0, 1}
  BY DEF HandleFix, PageInv, PageFits, PhoneRow, ARRIVAL_CONFIRMATIONS
<1>2. phone' = new /\ heard' = LastTwo(Append(heard, state))
  BY Zenon DEF HandleFix
<1>3. state \in Arrival
  BY ArrivalStates
<1>. HIDE DEF state
<1>4. /\ streak \in Streaks /\ phase \in Phases /\ "none" \in Problems /\ fix \in Readings
      /\ goes \in BOOLEAN
  BY <1>1 DEF Streaks, Phases, Problems, Readings, ARRIVAL_CONFIRMATIONS
<1>5. /\ phase = "arrived" => state = "arrived" /\ phone.streak = 1
      /\ phase # "arrived" => streak = 0 \/ (streak = 1 /\ state = "arrived")
  <2>1. CASE state = "arrived" /\ phone.streak = 1
    BY <2>1 DEF ARRIVAL_CONFIRMATIONS
  <2>2. CASE state = "arrived" /\ phone.streak = 0
    BY <2>2 DEF ARRIVAL_CONFIRMATIONS
  <2>3. CASE state # "arrived"
    BY <2>3 DEF ARRIVAL_CONFIRMATIONS
  <2>. QED
    BY <1>1, <2>1, <2>2, <2>3
<1>. HIDE DEF streak, phase, goes
<1>6. new \in PhoneRow
  BY <1>1, <1>4, Zenon DEF PhoneRow, Streaks, Phases, Problems, Readings
<1>7. new.phase = phase
  BY <1>1, Zenon DEF PhoneRow
<1>8. new.streak = streak
  BY <1>1, Zenon DEF PhoneRow
<1>9. new.watching = goes
  BY <1>1, Zenon DEF PhoneRow
<1>. HIDE DEF new
<1>10. /\ heard' \in Seq(Arrival) /\ Len(heard') <= 2 /\ heard' # <<>>
       /\ heard'[Len(heard')] = state
       /\ (heard # <<>> /\ heard[Len(heard)] = "arrived" /\ state = "arrived") =>
             heard' = <<"arrived", "arrived">>
  BY <1>2, <1>3, TwoInARow DEF PageInv, PageFits
<1>11. PageFits'
  <2>1. phone'.watching => phase # "arrived"
    BY <1>2, <1>9 DEF goes
  <2>2. phone'.phase = phase /\ phone'.streak = streak
    BY <1>2, <1>7, <1>8
  <2>. QED
    BY <1>2, <1>5, <1>6, <1>10, <2>1, <2>2 DEF PageFits
<1>12. ArrivalConfirmed'
  BY <1>1, <1>2, <1>5, <1>7, <1>10 DEF PageInv, PageFits, ArrivalConfirmed
<1>. QED
  BY <1>11, <1>12 DEF PageInv

LEMMA HandleErrorStep == ASSUME PageInv, HandleError PROVE PageInv'
<1>1. phone \in PhoneRow /\ phone.watching /\ heard' = heard
  BY DEF PageInv, PageFits, HandleError
<1>2. CASE phone' = [phone EXCEPT !.problem = "permission-denied", !.phase = "idle"]
  <2>. DEFINE new == [phone EXCEPT !.problem = "permission-denied", !.phase = "idle"]
  <2>1. "permission-denied" \in Problems /\ "idle" \in Phases
    BY DEF Problems, Phases
  <2>2. new \in PhoneRow
    BY <1>1, <2>1, Zenon DEF PhoneRow, Problems, Phases
  <2>3. new.phase = "idle"
    BY <1>1, Zenon DEF PhoneRow
  <2>4. new.streak = phone.streak
    BY <1>1, Zenon DEF PhoneRow
  <2>5. new.watching = phone.watching
    BY <1>1, Zenon DEF PhoneRow
  <2>6. phone' = new
    BY <1>2
  <2>. HIDE DEF new
  <2>. QED
    BY <1>1, <2>2, <2>3, <2>4, <2>5, <2>6 DEF PageInv, PageFits, ArrivalConfirmed
<1>3. CASE phone' = [phone EXCEPT !.problem = "no-signal"]
  <2>. DEFINE new == [phone EXCEPT !.problem = "no-signal"]
  <2>1. "no-signal" \in Problems
    BY DEF Problems
  <2>2. new \in PhoneRow
    BY <1>1, <2>1, Zenon DEF PhoneRow, Problems
  <2>3. new.phase = phone.phase
    BY <1>1, Zenon DEF PhoneRow
  <2>4. new.streak = phone.streak
    BY <1>1, Zenon DEF PhoneRow
  <2>5. new.watching = phone.watching
    BY <1>1, Zenon DEF PhoneRow
  <2>6. phone' = new
    BY <1>3
  <2>. HIDE DEF new
  <2>. QED
    BY <1>1, <2>2, <2>3, <2>4, <2>5, <2>6 DEF PageInv, PageFits, ArrivalConfirmed
<1>. QED
  BY <1>2, <1>3 DEF HandleError

LEMMA ConfirmStep == ASSUME PageInv, ConfirmArrivedManually PROVE PageInv'
<1>. DEFINE new == [phone EXCEPT !.phase = "arrived", !.watching = FALSE, !.byHand = TRUE]
<1>1. phone \in PhoneRow /\ phone' = new /\ heard' = heard
  BY DEF PageInv, PageFits, ConfirmArrivedManually
<1>2. "arrived" \in Phases /\ TRUE \in BOOLEAN /\ FALSE \in BOOLEAN
  BY DEF Phases
<1>3. new \in PhoneRow
  BY <1>1, <1>2, Zenon DEF PhoneRow, Phases
<1>4. new.watching = FALSE
  BY <1>1, Zenon DEF PhoneRow
<1>5. new.byHand = TRUE
  BY <1>1, Zenon DEF PhoneRow
<1>. HIDE DEF new
<1>. QED
  BY <1>1, <1>3, <1>4, <1>5 DEF PageInv, PageFits, ArrivalConfirmed

\* What the visitor's page keeps at every reading: the streak is of readings it really heard
\* (hooks/useVisitorNavigation.ts).
THEOREM PageInvariant == ArrivalSpec => []PageInv
<1>1. ASSUME PageInv, [ArrivalNext]_arrivalVars
      PROVE  PageInv'
  <2>1. CASE \/ OpenNavigation \/ StartNavigation \/ LeavePage \/ StartSharing
    <3>1. \/ phone' = Started /\ heard' = <<>>
          \/ phone' = ClosedPage /\ heard' = <<>>
          \/ UNCHANGED <<phone, heard>>
      BY <2>1 DEF OpenNavigation, StartNavigation, LeavePage, StartSharing
    <3>. QED
      BY <1>1, <3>1, PageOpens, PageKept
  <2>2. CASE HandleError \/ ConfirmArrivedManually \/ \E fix \in Fixes : HandleFix(fix)
    BY <1>1, <2>2, HandleErrorStep, ConfirmStep, HandleFixStep
  <2>3. CASE StopSharing \/ SendPosition \/ HostLooks \/ SetPassLive \/ NoticesAge
    BY <1>1, <2>3, PageKept DEF StopSharing, SendPosition, HostLooks, SetPassLive, NoticesAge
  <2>4. CASE \E p \in Posts : \/ PositionRefused(p) \/ LosePost(p) \/ FindByToken(p)
                              \/ SaveLivePosition(p) \/ MarkLiveArrived(p) \/ StopLiveSharing(p)
                              \/ NotifyHostOfArrival(p) \/ TellHost(p)
    <3>1. UNCHANGED <<phone, heard>>
      BY <2>4 DEF PositionRefused, LosePost, FindByToken, SaveLivePosition, MarkLiveArrived,
                  StopLiveSharing, NotifyHostOfArrival, TellHost
    <3>. QED
      BY <1>1, <3>1, PageKept
  <2>5. CASE UNCHANGED arrivalVars
    BY <1>1, <2>5, PageKept DEF arrivalVars
  <2>. QED
    BY <1>1, <2>1, <2>2, <2>3, <2>4, <2>5 DEF ArrivalNext
<1>. QED
  BY <1>1, PageInitial, PTL DEF ArrivalSpec

\* geo.ts: "A single GPS jump near the gate can't trigger it".
THEOREM NoArrivalByOneReading == ArrivalSpec => []ArrivalConfirmed
<1>. QED
  BY PageInvariant, PTL DEF PageInv
-----------------------------------------------------------------------------
(* The phones.  A browser has an endpoint of its own, and its row is for   *)
(* whoever is signed in, or a registration that says so is on its way.     *)

Toggles == {"loading", "off", "on", "enabling", "disabling"}
PostStages == {"asked", "upserted", "counted"}

\* A registration, whichever rows it picked: the prover knows nothing of SelectSeq.
IsPost(r) ==
    /\ r = [by |-> r.by, endpoint |-> r.endpoint, as |-> r.as, quiet |-> r.quiet,
            stage |-> r.stage, out |-> r.out]
    /\ r.by \in Browsers /\ r.endpoint \in Endpoints /\ r.as \in People
    /\ r.quiet \in BOOLEAN /\ r.stage \in PostStages

PushState ==
    /\ user \in [Browsers -> People \cup {Nobody}]
    /\ subscription \in [Browsers -> Endpoints \cup {Nobody}]
    /\ owner \in [Endpoints -> People \cup {Nobody}]
    /\ toggle \in [Browsers -> Toggles]
    /\ \A r \in posts : IsPost(r)

\* No two browsers hold one endpoint.
SubscribedOnce ==
    \A b, c \in Browsers :
        (subscription[b] = subscription[c] /\ subscription[b] # Nobody) => b = c

ShowsASubscription ==
    \A b \in Browsers :
        /\ toggle[b] \in {"on", "enabling", "disabling"} => subscription[b] # Nobody
        /\ user[b] = Nobody => toggle[b] = "loading"

\* What a registration under way is for.  A page that waits does nothing else.
OfItsBrowser(r) ==
    /\ \A b \in Browsers : subscription[b] = r.endpoint => b = r.by
    /\ ~r.quiet => /\ toggle[r.by] = "enabling"
                   /\ r.as = user[r.by]
                   /\ r.endpoint = subscription[r.by]

WaitsForOne ==
    \A r, s \in posts : (~r.quiet /\ ~s.quiet /\ r.by = s.by) => r = s

\* Whom a browser's row is for is who is signed in, or a registration that says so has
\* still to be applied.
OwnedOrAsked(b) ==
    (b \notin undone /\ toggle[b] \in {"on", "enabling"}) =>
        \/ owner[subscription[b]] = user[b]
        \/ \E r \in posts : /\ r.by = b /\ r.as = user[b] /\ r.endpoint = subscription[b]
                            /\ r.stage = "asked"

PushInv ==
    /\ PushState
    /\ SubscribedOnce
    /\ ShowsASubscription
    /\ \A r \in posts : OfItsBrowser(r)
    /\ WaitsForOne
    /\ \A b \in Browsers : OwnedOrAsked(b)

\* What a registration becomes.
Staged(r, s) == [r EXCEPT !.stage = s]
Upserted(r) == Staged(r, "upserted")
Picked(r, o) == [r EXCEPT !.stage = "counted", !.out = o]

LEMMA UpsertedIsPost ==
    ASSUME NEW r, IsPost(r)
    PROVE  /\ IsPost(Upserted(r))
           /\ Upserted(r).by = r.by /\ Upserted(r).endpoint = r.endpoint
           /\ Upserted(r).as = r.as /\ Upserted(r).quiet = r.quiet
           /\ Upserted(r).stage = "upserted"
<1> DEFINE u == [by |-> r.by, endpoint |-> r.endpoint, as |-> r.as, quiet |-> r.quiet,
                 stage |-> "upserted", out |-> r.out]
<1>1. Upserted(r) = u
    BY DEF IsPost, Upserted, Staged
<1> QED
    BY <1>1 DEF IsPost, PostStages

LEMMA PickedIsPost ==
    ASSUME NEW r, NEW o, IsPost(r)
    PROVE  /\ IsPost(Picked(r, o))
           /\ Picked(r, o).by = r.by /\ Picked(r, o).endpoint = r.endpoint
           /\ Picked(r, o).as = r.as /\ Picked(r, o).quiet = r.quiet
           /\ Picked(r, o).stage = "counted"
<1> DEFINE u == [by |-> r.by, endpoint |-> r.endpoint, as |-> r.as, quiet |-> r.quiet,
                 stage |-> "counted", out |-> o]
<1> DEFINE s == Staged(r, "counted")
<1>1. s = [by |-> r.by, endpoint |-> r.endpoint, as |-> r.as, quiet |-> r.quiet,
           stage |-> "counted", out |-> r.out]
    BY DEF IsPost, Staged
<1>2. [s EXCEPT !.out = o] = u
    BY <1>1
<1>3. Picked(r, o) = u
    BY <1>2 DEF Picked, Staged
<1> QED
    BY <1>3 DEF IsPost, PostStages

\* Signing in and out leave the page to be read again.
LEMMA SignInStep ==
    ASSUME PushInv, NEW b \in Browsers, NEW p \in People, SignIn(b, p)
    PROVE  PushInv'
<1> USE DEF SignIn, PushInv, PushState, Toggles
<1>1. /\ user' \in [Browsers -> People \cup {Nobody}] /\ user'[b] = p
      /\ \A c \in Browsers \ {b} : user'[c] = user[c]
    OBVIOUS
<1>2. /\ toggle' \in [Browsers -> Toggles] /\ toggle'[b] = "loading"
      /\ \A c \in Browsers \ {b} : toggle'[c] = toggle[c]
    OBVIOUS
<1>3. \A r \in posts : ~r.quiet => r.by # b
    BY DEF OfItsBrowser, ShowsASubscription
<1>4. PushState' /\ SubscribedOnce' /\ WaitsForOne'
    BY <1>1, <1>2 DEF SubscribedOnce, WaitsForOne, IsPost
<1>5. ShowsASubscription'
    BY <1>1, <1>2, PushAssumption DEF ShowsASubscription
<1>6. \A r \in posts' : OfItsBrowser(r)'
    BY <1>1, <1>2, <1>3 DEF OfItsBrowser, IsPost
<1>7. \A c \in Browsers : OwnedOrAsked(c)'
    BY <1>1, <1>2 DEF OwnedOrAsked
<1> QED
    BY <1>4, <1>5, <1>6, <1>7

LEMMA SignOutStep ==
    ASSUME PushInv, NEW b \in Browsers, SignOut(b)
    PROVE  PushInv'
<1> USE DEF SignOut, PushInv, PushState, Toggles
<1>1. /\ user' \in [Browsers -> People \cup {Nobody}]
      /\ \A c \in Browsers \ {b} : user'[c] = user[c]
    OBVIOUS
<1>2. /\ toggle' \in [Browsers -> Toggles] /\ toggle'[b] = "loading"
      /\ \A c \in Browsers \ {b} : toggle'[c] = toggle[c]
    OBVIOUS
<1>3. \A r \in posts : ~r.quiet => r.by # b
    BY DEF OfItsBrowser
<1>4. PushState' /\ SubscribedOnce' /\ WaitsForOne'
    BY <1>1, <1>2 DEF SubscribedOnce, WaitsForOne, IsPost
<1>5. ShowsASubscription'
    BY <1>1, <1>2, PushAssumption DEF ShowsASubscription
<1>6. \A r \in posts' : OfItsBrowser(r)'
    BY <1>1, <1>2, <1>3 DEF OfItsBrowser, IsPost
<1>7. \A c \in Browsers : OwnedOrAsked(c)'
    BY <1>1, <1>2 DEF OwnedOrAsked
<1> QED
    BY <1>4, <1>5, <1>6, <1>7

\* The post a page adds, told apart by its fields.
LEMMA Registered ==
    ASSUME NEW b \in Browsers, NEW e \in Endpoints, NEW q \in BOOLEAN,
           user[b] \in People, Register(b, e, q)
    PROVE  \E r : /\ posts' = posts \cup {r} /\ IsPost(r)
                  /\ r.by = b /\ r.endpoint = e /\ r.as = user[b] /\ r.quiet = q
                  /\ r.stage = "asked"
<1> DEFINE r == [by |-> b, endpoint |-> e, as |-> user[b], quiet |-> q,
                 stage |-> "asked", out |-> {}]
<1>1. posts' = posts \cup {r}
    BY DEF Register
<1>2. /\ r.by = b /\ r.endpoint = e /\ r.as = user[b] /\ r.quiet = q
      /\ r.stage = "asked" /\ r.out = {}
    OBVIOUS
<1>3. IsPost(r)
    BY <1>2 DEF IsPost, PostStages
<1> HIDE DEF r
<1> WITNESS r
<1> QED
    BY <1>1, <1>2, <1>3

LEMMA ReadPushStateStep ==
    ASSUME PushInv, NEW b \in Browsers, ReadPushState(b)
    PROVE  PushInv'
<1> USE DEF PushInv, PushState, Toggles
<1>u. user[b] \in People /\ subscription[b] \in Endpoints \cup {Nobody}
    BY DEF ReadPushState
<1>k. UNCHANGED <<user, subscription, owner, createdAt, undone>>
    BY DEF ReadPushState
<1>3. \A r \in posts : ~r.quiet => r.by # b
    BY DEF OfItsBrowser, ReadPushState
<1>1. CASE subscription[b] = Nobody
    <2>1. /\ toggle' \in [Browsers -> Toggles] /\ toggle'[b] = "off"
          /\ \A c \in Browsers \ {b} : toggle'[c] = toggle[c]
          /\ posts' = posts
        BY <1>1 DEF ReadPushState
    <2>2. PushState' /\ SubscribedOnce' /\ WaitsForOne'
        BY <1>k, <2>1 DEF SubscribedOnce, WaitsForOne, IsPost
    <2>3. ShowsASubscription'
        BY <1>k, <1>u, <2>1, PushAssumption DEF ShowsASubscription
    <2>4. \A r \in posts' : OfItsBrowser(r)'
        BY <1>k, <1>3, <2>1 DEF OfItsBrowser, IsPost
    <2>5. \A c \in Browsers : OwnedOrAsked(c)'
        BY <1>k, <2>1 DEF OwnedOrAsked
    <2> QED
        BY <2>2, <2>3, <2>4, <2>5
<1>2. CASE subscription[b] # Nobody
    <2>1. /\ toggle' \in [Browsers -> Toggles] /\ toggle'[b] = "on"
          /\ \A c \in Browsers \ {b} : toggle'[c] = toggle[c]
          /\ Register(b, subscription[b], TRUE)
        BY <1>2 DEF ReadPushState
    <2>2. PICK r : /\ posts' = posts \cup {r} /\ IsPost(r)
                   /\ r.by = b /\ r.endpoint = subscription[b] /\ r.as = user[b] /\ r.quiet = TRUE
                   /\ r.stage = "asked"
        <3>1. PICK e \in Endpoints : subscription[b] = e
            BY <1>2, <1>u
        <3>2. Register(b, e, TRUE)
            BY <2>1, <3>1
        <3>3. \E r : /\ posts' = posts \cup {r} /\ IsPost(r)
                     /\ r.by = b /\ r.endpoint = e /\ r.as = user[b] /\ r.quiet = TRUE
                     /\ r.stage = "asked"
            BY <1>u, <3>2, Registered
        <3> QED
            BY <3>1, <3>3
    <2>3. PushState'
        BY <1>k, <2>1, <2>2 DEF IsPost
    <2>4. SubscribedOnce' /\ ShowsASubscription'
        BY <1>k, <1>2, <1>u, <2>1, PushAssumption DEF SubscribedOnce, ShowsASubscription
    <2>5. WaitsForOne'
        BY <2>2 DEF WaitsForOne
    <2>6. OfItsBrowser(r)'
        BY <1>k, <1>2, <2>2 DEF OfItsBrowser, SubscribedOnce
    <2>7. \A s \in posts : OfItsBrowser(s)'
        BY <1>k, <1>3, <2>1 DEF OfItsBrowser, IsPost
    <2>8. OwnedOrAsked(b)'
        BY <1>k, <2>2 DEF OwnedOrAsked
    <2>9. \A c \in Browsers \ {b} : OwnedOrAsked(c)'
        BY <1>k, <2>1, <2>2 DEF OwnedOrAsked
    <2> QED
        BY <2>2, <2>3, <2>4, <2>5, <2>6, <2>7, <2>8, <2>9
<1> QED
    BY <1>1, <1>2

LEMMA EnablePushStep ==
    ASSUME PushInv, NEW b \in Browsers, NEW e \in Endpoints, EnablePush(b, e)
    PROVE  PushInv'
<1> USE DEF PushInv, PushState, Toggles
<1>k. UNCHANGED <<user, owner, createdAt, undone>>
    BY DEF EnablePush
<1>u. user[b] \in People
    BY DEF EnablePush, ShowsASubscription
<1>1. /\ toggle' \in [Browsers -> Toggles] /\ toggle'[b] = "enabling"
      /\ \A c \in Browsers \ {b} : toggle'[c] = toggle[c]
      /\ subscription' \in [Browsers -> Endpoints \cup {Nobody}] /\ subscription'[b] = e
      /\ \A c \in Browsers \ {b} : subscription'[c] = subscription[c]
    BY DEF EnablePush
<1>2. PICK r : /\ posts' = posts \cup {r} /\ IsPost(r)
               /\ r.by = b /\ r.endpoint = e /\ r.as = user[b] /\ r.quiet = FALSE
               /\ r.stage = "asked"
    <2>1. Register(b, e, FALSE)
        BY DEF EnablePush
    <2> QED
        BY <1>u, <2>1, Registered
<1>3. \A s \in posts : ~s.quiet => s.by # b
    BY DEF OfItsBrowser, EnablePush
<1>4. \A c \in Browsers \ {b} : subscription[c] # e
    BY DEF EnablePush, Unheld, SubscribedOnce
<1>5. \A s \in posts : s.endpoint = e => s.by = b
    BY DEF EnablePush, Unheld, OfItsBrowser
<1>6. PushState'
    BY <1>k, <1>1, <1>2 DEF IsPost
<1>7. SubscribedOnce'
    BY <1>1, <1>4 DEF SubscribedOnce
<1>8. ShowsASubscription'
    BY <1>k, <1>u, <1>1, PushAssumption DEF ShowsASubscription
<1>9. WaitsForOne'
    BY <1>2, <1>3 DEF WaitsForOne
<1>10. OfItsBrowser(r)'
    BY <1>k, <1>1, <1>2, <1>4 DEF OfItsBrowser
<1>11. \A s \in posts : OfItsBrowser(s)'
    BY <1>k, <1>1, <1>3, <1>5 DEF OfItsBrowser, IsPost
<1>12. OwnedOrAsked(b)'
    BY <1>k, <1>1, <1>2 DEF OwnedOrAsked
<1>13. \A c \in Browsers \ {b} : OwnedOrAsked(c)'
    BY <1>k, <1>1, <1>2 DEF OwnedOrAsked
<1> QED
    BY <1>2, <1>6, <1>7, <1>8, <1>9, <1>10, <1>11, <1>12, <1>13

\* The row now says what the registration says; whose browser it is not is excused.
LEMMA UpsertStep ==
    ASSUME PushInv, NEW r \in posts, Upsert(r)
    PROVE  PushInv'
<1> USE DEF PushInv, PushState
<1> DEFINE u == Upserted(r)
<1>k. UNCHANGED <<user, subscription, toggle>>
    BY DEF Upsert
<1>1. posts' = (posts \ {r}) \cup {u}
    BY DEF Upsert, Upserted, Staged
<1>2. /\ IsPost(u) /\ u.by = r.by /\ u.endpoint = r.endpoint /\ u.as = r.as
      /\ u.quiet = r.quiet /\ u.stage = "upserted"
    BY UpsertedIsPost
<1> HIDE DEF u
<1>3. /\ owner' \in [Endpoints -> People \cup {Nobody}] /\ owner'[r.endpoint] = r.as
      /\ \A e \in Endpoints \ {r.endpoint} : owner'[e] = owner[e]
    BY DEF Upsert, IsPost
<1>4. PushState' /\ SubscribedOnce' /\ ShowsASubscription'
    BY <1>k, <1>1, <1>2, <1>3 DEF SubscribedOnce, ShowsASubscription, IsPost
<1>5. WaitsForOne'
    BY <1>1, <1>2 DEF WaitsForOne
<1>6. \A s \in posts' : OfItsBrowser(s)'
    <2>1. OfItsBrowser(u)'
        BY <1>k, <1>2 DEF OfItsBrowser
    <2>2. \A s \in posts : OfItsBrowser(s)'
        BY <1>k DEF OfItsBrowser
    <2> QED
        BY <1>1, <2>1, <2>2
<1>7. ASSUME NEW b \in Browsers PROVE OwnedOrAsked(b)'
    <2> SUFFICES ASSUME b \notin undone', toggle[b] \in {"on", "enabling"}
                 PROVE  \/ owner'[subscription[b]] = user[b]
                        \/ \E s \in posts' : /\ s.by = b /\ s.as = user[b]
                                             /\ s.endpoint = subscription[b]
                                             /\ s.stage = "asked"
        BY <1>k DEF OwnedOrAsked
    <2>1. CASE subscription[b] = r.endpoint
        <3>1. b = r.by
            BY <2>1 DEF OfItsBrowser
        <3>2. b \in Holders(r.endpoint)
            BY <2>1 DEF Holders
        <3>3. user[b] = r.as
            BY <3>1, <3>2 DEF Upsert
        <3> QED
            BY <1>3, <2>1, <3>3
    <2>2. CASE subscription[b] # r.endpoint
        <3>1. b \notin undone
            BY <2>2 DEF Upsert, Holders
        <3>2. subscription[b] \in Endpoints
            BY DEF ShowsASubscription
        <3> QED
            BY <1>1, <1>3, <2>2, <3>1, <3>2 DEF OwnedOrAsked
    <2> QED
        BY <2>1, <2>2
<1> QED
    BY <1>4, <1>5, <1>6, <1>7

LEMMA CountDevicesStep ==
    ASSUME PushInv, NEW r \in posts, CountDevices(r)
    PROVE  PushInv'
<1> USE DEF PushInv, PushState
<1>k. UNCHANGED <<user, subscription, owner, toggle, undone>> /\ r.stage = "upserted"
    BY DEF CountDevices
<1>1. PICK u : /\ posts' = (posts \ {r}) \cup {u}
               /\ IsPost(u) /\ u.by = r.by /\ u.endpoint = r.endpoint /\ u.as = r.as
               /\ u.quiet = r.quiet /\ u.stage = "counted"
    <2>1. \E o : posts' = (posts \ {r}) \cup {Picked(r, o)}
        BY DEF CountDevices, Picked
    <2> QED
        BY <2>1, PickedIsPost
<1>4. PushState' /\ SubscribedOnce' /\ ShowsASubscription'
    BY <1>k, <1>1 DEF SubscribedOnce, ShowsASubscription, IsPost
<1>5. WaitsForOne'
    BY <1>1 DEF WaitsForOne
<1>6. \A s \in posts' : OfItsBrowser(s)'
    <2>1. OfItsBrowser(u)'
        BY <1>k, <1>1 DEF OfItsBrowser
    <2>2. \A s \in posts : OfItsBrowser(s)'
        BY <1>k DEF OfItsBrowser
    <2> QED
        BY <1>1, <2>1, <2>2
<1>7. \A b \in Browsers : OwnedOrAsked(b)'
    BY <1>k, <1>1 DEF OwnedOrAsked
<1> QED
    BY <1>4, <1>5, <1>6, <1>7

\* Whoever holds a row that is deleted is excused; a page that waited shows it.
LEMMA TrimDevicesStep ==
    ASSUME PushInv, NEW r \in posts, TrimDevices(r)
    PROVE  PushInv'
<1> USE DEF PushInv, PushState, Toggles
<1>k. UNCHANGED <<user, subscription>> /\ posts' = posts \ {r} /\ r.stage = "counted"
    BY DEF TrimDevices
<1>0. IsPost(r) /\ OfItsBrowser(r)
    OBVIOUS
<1>1. /\ owner' \in [Endpoints -> People \cup {Nobody}]
      /\ \A e \in Endpoints : e \notin r.out => owner'[e] = owner[e]
    BY DEF TrimDevices, DeleteRows
<1>2. /\ toggle' \in [Browsers -> Toggles]
      /\ \A c \in Browsers \ {r.by} : toggle'[c] = toggle[c]
      /\ r.quiet => toggle'[r.by] = toggle[r.by]
      /\ ~r.quiet => toggle'[r.by] = "on"
    BY <1>0 DEF TrimDevices, IsPost
<1>3. PushState' /\ SubscribedOnce'
    BY <1>k, <1>1, <1>2 DEF SubscribedOnce, IsPost
<1>4. ShowsASubscription'
    BY <1>k, <1>0, <1>2 DEF ShowsASubscription, OfItsBrowser
<1>5. WaitsForOne'
    BY <1>k DEF WaitsForOne
<1>6. ASSUME NEW s \in posts' PROVE OfItsBrowser(s)'
    <2>1. ~s.quiet => toggle'[s.by] = toggle[s.by]
        BY <1>k, <1>0, <1>2 DEF WaitsForOne, IsPost
    <2> QED
        BY <1>k, <2>1 DEF OfItsBrowser
<1>7. ASSUME NEW b \in Browsers PROVE OwnedOrAsked(b)'
    <2> SUFFICES ASSUME b \notin undone', toggle'[b] \in {"on", "enabling"}
                 PROVE  \/ owner'[subscription[b]] = user[b]
                        \/ \E s \in posts' : /\ s.by = b /\ s.as = user[b]
                                             /\ s.endpoint = subscription[b]
                                             /\ s.stage = "asked"
        BY <1>k DEF OwnedOrAsked
    <2>1. toggle[b] \in {"on", "enabling"}
        BY <1>0, <1>2 DEF OfItsBrowser
    <2>2. b \notin undone /\ subscription[b] \notin r.out
        BY DEF TrimDevices, Holders
    <2>3. subscription[b] \in Endpoints
        BY <2>1 DEF ShowsASubscription
    <2> QED
        BY <1>k, <1>1, <2>1, <2>2, <2>3 DEF OwnedOrAsked
<1> QED
    BY <1>3, <1>4, <1>5, <1>6, <1>7

LEMMA RegisterFailsStep ==
    ASSUME PushInv, NEW r \in posts, RegisterFails(r)
    PROVE  PushInv'
<1> USE DEF PushInv, PushState, Toggles
<1>k. /\ UNCHANGED <<user, subscription, owner>> /\ posts' = posts \ {r}
      /\ undone' = undone \cup Holders(r.endpoint)
    BY DEF RegisterFails
<1>0. IsPost(r) /\ OfItsBrowser(r)
    OBVIOUS
<1>2. /\ toggle' \in [Browsers -> Toggles]
      /\ \A c \in Browsers \ {r.by} : toggle'[c] = toggle[c]
      /\ r.quiet => toggle'[r.by] = toggle[r.by]
      /\ ~r.quiet => toggle'[r.by] = "off"
    BY <1>0 DEF RegisterFails, IsPost
<1>3. PushState' /\ SubscribedOnce'
    BY <1>k, <1>2 DEF SubscribedOnce, IsPost
<1>4. ShowsASubscription'
    BY <1>k, <1>0, <1>2 DEF ShowsASubscription, OfItsBrowser
<1>5. WaitsForOne'
    BY <1>k DEF WaitsForOne
<1>6. ASSUME NEW s \in posts' PROVE OfItsBrowser(s)'
    <2>1. ~s.quiet => toggle'[s.by] = toggle[s.by]
        BY <1>k, <1>0, <1>2 DEF WaitsForOne, IsPost
    <2> QED
        BY <1>k, <2>1 DEF OfItsBrowser
<1>7. ASSUME NEW b \in Browsers PROVE OwnedOrAsked(b)'
    <2> SUFFICES ASSUME b \notin undone', toggle'[b] \in {"on", "enabling"}
                 PROVE  \/ owner[subscription[b]] = user[b]
                        \/ \E s \in posts' : /\ s.by = b /\ s.as = user[b]
                                             /\ s.endpoint = subscription[b]
                                             /\ s.stage = "asked"
        BY <1>k DEF OwnedOrAsked
    <2>1. toggle[b] \in {"on", "enabling"}
        BY <1>0, <1>2 DEF OfItsBrowser
    <2>2. b \notin undone /\ subscription[b] # r.endpoint
        BY <1>k DEF Holders
    <2> QED
        BY <1>k, <2>1, <2>2 DEF OwnedOrAsked
<1> QED
    BY <1>3, <1>4, <1>5, <1>6, <1>7

LEMMA DisablePushStep ==
    ASSUME PushInv, NEW b \in Browsers, DisablePush(b)
    PROVE  PushInv'
<1> USE DEF DisablePush, PushInv, PushState, Toggles
<1>1. /\ toggle' \in [Browsers -> Toggles] /\ toggle'[b] = "disabling"
      /\ \A c \in Browsers \ {b} : toggle'[c] = toggle[c]
    OBVIOUS
<1>2. \A r \in posts : ~r.quiet => r.by # b
    BY DEF OfItsBrowser
<1>3. PushState' /\ SubscribedOnce' /\ WaitsForOne'
    BY <1>1 DEF SubscribedOnce, WaitsForOne, IsPost
<1>4. ShowsASubscription'
    BY <1>1 DEF ShowsASubscription
<1>5. \A r \in posts' : OfItsBrowser(r)'
    BY <1>1, <1>2 DEF OfItsBrowser, IsPost
<1>6. \A c \in Browsers : OwnedOrAsked(c)'
    BY <1>1 DEF OwnedOrAsked
<1> QED
    BY <1>3, <1>4, <1>5, <1>6

\* Only the row of the endpoint that is given up may go.
LEMMA UnsubscribeStep ==
    ASSUME PushInv, NEW b \in Browsers, Unsubscribe(b)
    PROVE  PushInv'
<1> USE DEF PushInv, PushState, Toggles
<1>k. UNCHANGED <<user, posts, undone>> /\ toggle[b] = "disabling"
    BY DEF Unsubscribe
<1>1. /\ toggle' \in [Browsers -> Toggles] /\ toggle'[b] = "off"
      /\ \A c \in Browsers \ {b} : toggle'[c] = toggle[c]
      /\ subscription' \in [Browsers -> Endpoints \cup {Nobody}] /\ subscription'[b] = Nobody
      /\ \A c \in Browsers \ {b} : subscription'[c] = subscription[c]
    BY DEF Unsubscribe
<1>2. /\ owner' \in [Endpoints -> People \cup {Nobody}]
      /\ \A e \in Endpoints : e # subscription[b] => owner'[e] = owner[e]
    BY DEF Unsubscribe, DeleteRows
<1>3. \A r \in posts : ~r.quiet => r.by # b
    BY <1>k DEF OfItsBrowser
<1>4. PushState' /\ WaitsForOne'
    BY <1>k, <1>1, <1>2 DEF WaitsForOne, IsPost
<1>5. SubscribedOnce'
    BY <1>1 DEF SubscribedOnce
<1>6. ShowsASubscription'
    BY <1>k, <1>1 DEF ShowsASubscription
<1>7. \A r \in posts' : OfItsBrowser(r)'
    BY <1>k, <1>1, <1>3, PushAssumption DEF OfItsBrowser, IsPost
<1>8. ASSUME NEW c \in Browsers \ {b} PROVE OwnedOrAsked(c)'
    <2>1. toggle[c] \in {"on", "enabling"} =>
              /\ subscription[c] \in Endpoints
              /\ subscription[c] # subscription[b]
        BY DEF ShowsASubscription, SubscribedOnce
    <2> QED
        BY <1>k, <1>1, <1>2, <2>1 DEF OwnedOrAsked
<1>9. OwnedOrAsked(b)'
    BY <1>1 DEF OwnedOrAsked
<1> QED
    BY <1>4, <1>5, <1>6, <1>7, <1>8, <1>9

LEMMA SendFindsGoneStep ==
    ASSUME PushInv, NEW e \in Endpoints, SendFindsGone(e)
    PROVE  PushInv'
<1> USE DEF PushInv, PushState, Toggles
<1>k. UNCHANGED <<user, subscription, toggle, posts, undone>>
    BY DEF SendFindsGone
<1>1. /\ owner' \in [Endpoints -> People \cup {Nobody}]
      /\ \A f \in Endpoints : f # e => owner'[f] = owner[f]
    BY DEF SendFindsGone, DeleteRows
<1>2. \A b \in Browsers : subscription[b] # e
    BY DEF SendFindsGone, Holders
<1>3. PushState' /\ SubscribedOnce' /\ ShowsASubscription' /\ WaitsForOne'
    BY <1>k, <1>1 DEF SubscribedOnce, ShowsASubscription, WaitsForOne, IsPost
<1>4. \A r \in posts' : OfItsBrowser(r)'
    BY <1>k DEF OfItsBrowser
<1>5. ASSUME NEW b \in Browsers PROVE OwnedOrAsked(b)'
    <2>1. toggle[b] \in {"on", "enabling"} => subscription[b] \in Endpoints
        BY DEF ShowsASubscription
    <2> QED
        BY <1>k, <1>1, <1>2, <2>1 DEF OwnedOrAsked
<1> QED
    BY <1>3, <1>4, <1>5

\* A browser has an endpoint of its own, a page that says notifications are on or being
\* turned on has one and, unless it is excused, its row is for who is signed in or a
\* registration that says so is still to be applied (push.service.ts, usePushStatus.ts).
THEOREM DevicesInvariant == PushSpec => []PushInv
<1>1. PushInit => PushInv
    BY DEF PushInit, PushInv, PushState, Toggles, SubscribedOnce, ShowsASubscription,
           OfItsBrowser, WaitsForOne, OwnedOrAsked
<1>2. ASSUME PushInv, PushNext PROVE PushInv'
    <2>1. CASE \E b \in Browsers, p \in People : SignIn(b, p)
        BY <1>2, <2>1, SignInStep
    <2>2. CASE \E b \in Browsers : SignOut(b)
        BY <1>2, <2>2, SignOutStep
    <2>3. CASE \E b \in Browsers : ReadPushState(b)
        BY <1>2, <2>3, ReadPushStateStep
    <2>4. CASE \E b \in Browsers, e \in Endpoints : EnablePush(b, e)
        BY <1>2, <2>4, EnablePushStep
    <2>5. CASE \E b \in Browsers : DisablePush(b)
        BY <1>2, <2>5, DisablePushStep
    <2>6. CASE \E b \in Browsers : Unsubscribe(b)
        BY <1>2, <2>6, UnsubscribeStep
    <2>7. CASE \E r \in posts : Upsert(r)
        BY <1>2, <2>7, UpsertStep
    <2>8. CASE \E r \in posts : CountDevices(r)
        BY <1>2, <2>8, CountDevicesStep
    <2>9. CASE \E r \in posts : TrimDevices(r)
        BY <1>2, <2>9, TrimDevicesStep
    <2>10. CASE \E r \in posts : RegisterFails(r)
        BY <1>2, <2>10, RegisterFailsStep
    <2>11. CASE \E e \in Endpoints : SendFindsGone(e)
        BY <1>2, <2>11, SendFindsGoneStep
    <2> QED
        BY <1>2, <2>1, <2>2, <2>3, <2>4, <2>5, <2>6, <2>7, <2>8, <2>9, <2>10, <2>11
        DEF PushNext
<1>3. PushInv /\ UNCHANGED pushVars => PushInv'
    BY DEF pushVars, PushInv, PushState, IsPost, SubscribedOnce, ShowsASubscription,
           OfItsBrowser, WaitsForOne, OwnedOrAsked
<1> QED
    BY <1>1, <1>2, <1>3, PTL DEF PushSpec

\* Where a page says notifications are on and nothing is under way, they are for the
\* person signed in, whatever browsers, people and limits there are.
THEOREM OnIsForWhoIsSignedIn == PushSpec => []OnMeansOn
<1>1. PushInv => OnMeansOn
    BY DEF PushInv, OwnedOrAsked, OnMeansOn
<1> QED
    BY <1>1, DevicesInvariant, PTL
=============================================================================
