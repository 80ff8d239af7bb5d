---------------------------- MODULE ScreensProofs ----------------------------
(* Proofs about screens, each a module of its own, for every value of their  *)
(* constants.                                                                *)
EXTENDS EstateForms, InvitePanel, EstateLocation, VoiceGuidance, AdminLists, Messages,
        TLAPS, WellFoundedInduction

-----------------------------------------------------------------------------
(* EstateForms.  What the page has received last is what the row holds but   *)
(* for the fields in apart, and what nobody touched in the form is what was  *)
(* received.                                                                 *)

\* The answer of the load, on its way, and what was received before it.
LoadIsRow ==
    /\ load.stage \in {"asked", "answered"} => put.stage = "none" /\ overwrote = {}
    /\ load.stage = "answered" => \A f \in Fields \ apart : load.got[f] = row[f]

\* What was received, or is about to be: the reply to a save that is done.
SeenIsRow ==
    /\ load.stage \in {"shown", "failed"} /\ put.stage # "done" =>
          \A f \in Fields \ apart : seen[f] = row[f]
    /\ put.stage = "done" => \A f \in Fields \ put.missed : put.sent[f] = row[f]
    /\ put.stage = "sent" => \A f \in Fields \ put.touched : put.sent[f] = seen[f]

FormIsSeen ==
    /\ form.open => /\ load.stage \in {"shown", "failed"}
                    /\ \A f \in Fields \ form.touched : form.values[f] = seen[f]
    /\ load.stage \in {"asked", "answered"} => form.values = seen

FormsInv == FormsTypeOK /\ UntouchedKept /\ LoadIsRow /\ SeenIsRow /\ FormIsSeen

LEMMA BlankIsSettings == Blank \in Settings
  BY DefaultAssumption DEF Blank, Settings

LEMMA FormsInitial == FormsInit => FormsInv
<1>. SUFFICES ASSUME FormsInit PROVE FormsInv
  OBVIOUS
<1>1. FormsTypeOK
  BY BlankIsSettings, Zenon DEF FormsInit, FormsTypeOK, NoPut
<1>2. UntouchedKept /\ LoadIsRow /\ SeenIsRow /\ FormIsSeen
  BY DEF FormsInit, UntouchedKept, LoadIsRow, SeenIsRow, FormIsSeen, NoPut
<1>. QED
  BY <1>1, <1>2 DEF FormsInv

LEMMA AnswerLoadStep == ASSUME FormsInv, AnswerLoad PROVE FormsInv'
<1>1. load' = [stage |-> "answered", got |-> row] /\ load.stage = "asked"
      /\ row' = row /\ page' = page /\ seen' = seen /\ form' = form /\ put' = put
      /\ apart' = apart /\ overwrote' = overwrote
  BY DEF AnswerLoad
<1>2. FormsTypeOK'
  BY <1>1 DEF FormsInv, FormsTypeOK
<1>3. (UntouchedKept /\ LoadIsRow /\ SeenIsRow)'
  BY <1>1 DEF FormsInv, UntouchedKept, LoadIsRow, SeenIsRow
<1>4. FormIsSeen'
  BY <1>1 DEF FormsInv, FormIsSeen
<1>. QED
  BY <1>2, <1>3, <1>4 DEF FormsInv

LEMMA LoadShownStep == ASSUME FormsInv, LoadShown PROVE FormsInv'
<1>1. /\ load.stage = "answered" /\ load' = [load EXCEPT !.stage = "shown"] /\ seen' = load.got
      /\ row' = row /\ page' = page /\ put' = put /\ apart' = apart /\ overwrote' = overwrote
  BY DEF LoadShown
<1>2. load' \in [stage: {"asked", "answered", "shown", "failed"}, got: Settings]
      /\ load'.stage = "shown"
  BY <1>1 DEF FormsInv, FormsTypeOK
<1>3. form' = [open |-> TRUE, values |-> load.got, touched |-> {}] \/ (form' = form /\ ~form.open)
  BY <1>1, Zenon DEF LoadShown, FormsInv, FormIsSeen
<1>4. load.got \in Settings
  BY DEF FormsInv, FormsTypeOK
<1>5. form' \in [open: BOOLEAN, values: Settings, touched: SUBSET Fields]
  <2>1. {} \in SUBSET Fields /\ TRUE \in BOOLEAN
    OBVIOUS
  <2>2. [open |-> TRUE, values |-> load.got, touched |-> {}]
          \in [open: BOOLEAN, values: Settings, touched: SUBSET Fields]
    BY <1>4, <2>1, Zenon
  <2>. QED
    BY <1>3, <2>2, Zenon DEF FormsInv, FormsTypeOK
<1>6. FormsTypeOK'
  BY <1>1, <1>2, <1>4, <1>5, Zenon DEF FormsInv, FormsTypeOK
<1>7. (UntouchedKept /\ LoadIsRow /\ SeenIsRow)'
  BY <1>1, <1>2 DEF FormsInv, UntouchedKept, LoadIsRow, SeenIsRow
<1>8. FormIsSeen'
  BY <1>1, <1>2, <1>3 DEF FormIsSeen
<1>. QED
  BY <1>6, <1>7, <1>8 DEF FormsInv

LEMMA LoadFailedStep == ASSUME FormsInv, LoadFailed PROVE FormsInv'
<1>1. /\ load.stage \in {"asked", "answered"} /\ load' = [load EXCEPT !.stage = "failed"]
      /\ row' = row /\ page' = page /\ seen' = seen /\ put' = put /\ overwrote' = overwrote
      /\ form' = [form EXCEPT !.open = (page = "rules")]
      /\ apart' = Fields
  BY DEF LoadFailed
<1>2. load' \in [stage: {"asked", "answered", "shown", "failed"}, got: Settings]
      /\ load'.stage = "failed"
  BY <1>1 DEF FormsInv, FormsTypeOK
<1>3. form' \in [open: BOOLEAN, values: Settings, touched: SUBSET Fields]
  <2>1. (page = "rules") \in BOOLEAN
    OBVIOUS
  <2>. QED
    BY <1>1, <2>1, Zenon DEF FormsInv, FormsTypeOK
<1>4. FormsTypeOK'
  BY <1>1, <1>2, <1>3, Zenon DEF FormsInv, FormsTypeOK
<1>5. (UntouchedKept /\ LoadIsRow /\ SeenIsRow)'
  BY <1>1, <1>2 DEF FormsInv, FormsTypeOK, UntouchedKept, LoadIsRow, SeenIsRow
<1>6. FormIsSeen'
  <2>1. form'.values = form.values
    BY <1>1 DEF FormsInv, FormsTypeOK
  <2>2. form.values = seen
    BY <1>1 DEF FormsInv, FormIsSeen
  <2>. QED
    BY <1>1, <1>2, <2>1, <2>2 DEF FormIsSeen
<1>. QED
  BY <1>4, <1>5, <1>6 DEF FormsInv

LEMMA StartEditingStep == ASSUME FormsInv, StartEditingSettings PROVE FormsInv'
<1>1. /\ load.stage = "shown"
      /\ form' = [open |-> ~form.open, values |-> seen, touched |-> {}]
      /\ row' = row /\ page' = page /\ load' = load /\ seen' = seen /\ put' = put
      /\ apart' = apart /\ overwrote' = overwrote
  BY DEF StartEditingSettings
<1>2. form' \in [open: BOOLEAN, values: Settings, touched: SUBSET Fields]
  <2>1. {} \in SUBSET Fields /\ (~form.open) \in BOOLEAN /\ seen \in Settings
    BY DEF FormsInv, FormsTypeOK
  <2>. QED
    BY <1>1, <2>1, Zenon
<1>3. FormsTypeOK'
  BY <1>1, <1>2, Zenon DEF FormsInv, FormsTypeOK
<1>4. (UntouchedKept /\ LoadIsRow /\ SeenIsRow)'
  BY <1>1 DEF FormsInv, UntouchedKept, LoadIsRow, SeenIsRow
<1>5. FormIsSeen'
  <2>1. form'.values = seen /\ form'.touched = {}
    BY <1>1, Zenon
  <2>. QED
    BY <1>1, <2>1 DEF FormIsSeen
<1>. QED
  BY <1>3, <1>4, <1>5 DEF FormsInv

LEMMA TypeStep ==
    ASSUME FormsInv, NEW f \in Fields, NEW v \in Values, Type(f, v)
    PROVE  FormsInv'
<1>1. /\ form.open
      /\ form' = [form EXCEPT !.values[f] = v, !.touched = @ \cup {f}]
      /\ row' = row /\ page' = page /\ load' = load /\ seen' = seen /\ put' = put
      /\ apart' = apart /\ overwrote' = overwrote
  BY DEF Type
<1>2. /\ form'.values = [form.values EXCEPT ![f] = v]
      /\ form'.touched = form.touched \cup {f}
      /\ form' \in [open: BOOLEAN, values: Settings, touched: SUBSET Fields]
  <2>1. form \in [open: BOOLEAN, values: Settings, touched: SUBSET Fields]
    BY DEF FormsInv, FormsTypeOK
  <2>2. /\ [form.values EXCEPT ![f] = v] \in Settings
        /\ form.touched \cup {f} \in SUBSET Fields
    BY <2>1 DEF Settings
  <2>. QED
    BY <1>1, <2>1, <2>2, Zenon
<1>3. FormsTypeOK'
  BY <1>1, <1>2, Zenon DEF FormsInv, FormsTypeOK
<1>4. (UntouchedKept /\ LoadIsRow /\ SeenIsRow)'
  BY <1>1 DEF FormsInv, UntouchedKept, LoadIsRow, SeenIsRow
<1>5. FormIsSeen'
  <2>1. load.stage \in {"shown", "failed"}
        /\ \A g \in Fields \ form.touched : form.values[g] = seen[g]
    BY <1>1 DEF FormsInv, FormIsSeen
  <2>2. form.values \in Settings
    BY DEF FormsInv, FormsTypeOK
  <2>. QED
    BY <1>1, <1>2, <2>1, <2>2 DEF FormIsSeen, Settings
<1>. QED
  BY <1>3, <1>4, <1>5 DEF FormsInv

LEMMA SubmitFormStep == ASSUME FormsInv, SubmitForm PROVE FormsInv'
<1>1. /\ form.open /\ put.stage = "none"
      /\ put' = [stage |-> "sent", sent |-> form.values, touched |-> form.touched, missed |-> {}]
      /\ row' = row /\ page' = page /\ load' = load /\ seen' = seen /\ form' = form
      /\ apart' = apart /\ overwrote' = overwrote
  BY DEF SubmitForm
<1>2. form.values \in Settings /\ form.touched \subseteq Fields
  BY DEF FormsInv, FormsTypeOK
<1>3. FormsTypeOK'
  BY <1>1, <1>2 DEF FormsInv, FormsTypeOK
<1>4. load.stage \in {"shown", "failed"}
      /\ \A f \in Fields \ form.touched : form.values[f] = seen[f]
  BY <1>1 DEF FormsInv, FormIsSeen
<1>5. (UntouchedKept /\ LoadIsRow /\ SeenIsRow)'
  BY <1>1, <1>4 DEF FormsInv, UntouchedKept, LoadIsRow, SeenIsRow
<1>6. FormIsSeen'
  BY <1>1 DEF FormsInv, FormIsSeen
<1>. QED
  BY <1>3, <1>5, <1>6 DEF FormsInv

\* What is written over is what was not received: untouched fields were sent as received.
LEMMA UpdateSettingsStep == ASSUME FormsInv, UpdateSettings PROVE FormsInv'
<1>1. /\ put.stage = "sent" /\ row' = put.sent
      /\ overwrote' = {f \in Fields \ put.touched : row[f] # put.sent[f]}
      /\ put' = [put EXCEPT !.stage = "done"]
      /\ page' = page /\ load' = load /\ seen' = seen /\ form' = form /\ apart' = apart
  BY DEF UpdateSettings
<1>2. /\ put' \in [stage: {"none", "sent", "done"}, sent: Settings, touched: SUBSET Fields,
                   missed: SUBSET Fields]
      /\ put'.stage = "done" /\ put'.sent = put.sent /\ put.sent \in Settings
  BY <1>1 DEF FormsInv, FormsTypeOK
<1>3. FormsTypeOK'
  BY <1>1, <1>2 DEF FormsInv, FormsTypeOK
<1>4. load.stage \in {"shown", "failed"}
  BY <1>1 DEF FormsInv, FormsTypeOK, LoadIsRow
<1>5. \A f \in Fields \ put.touched : f \notin apart => row[f] = put.sent[f]
  BY <1>1, <1>4 DEF FormsInv, SeenIsRow
<1>6. (UntouchedKept /\ LoadIsRow /\ SeenIsRow)'
  BY <1>1, <1>2, <1>4, <1>5 DEF UntouchedKept, LoadIsRow, SeenIsRow
<1>7. FormIsSeen'
  BY <1>1 DEF FormsInv, FormIsSeen
<1>. QED
  BY <1>3, <1>6, <1>7 DEF FormsInv

LEMMA SaveAnsweredStep == ASSUME FormsInv, SaveAnswered PROVE FormsInv'
<1>1. /\ put.stage = "done" /\ seen' = put.sent
      /\ form' = [open |-> page = "rules", touched |-> {},
                  values |-> IF page = "rules" THEN put.sent ELSE form.values]
      /\ put' = NoPut /\ apart' = put.missed /\ overwrote' = {}
      /\ row' = row /\ page' = page /\ load' = load
  BY DEF SaveAnswered
<1>2. /\ put.sent \in Settings /\ put.missed \subseteq Fields /\ form.values \in Settings
      /\ load.stage \in {"shown", "failed"}
  BY <1>1 DEF FormsInv, FormsTypeOK, LoadIsRow
<1>3. form' \in [open: BOOLEAN, values: Settings, touched: SUBSET Fields]
  <2>1. /\ {} \in SUBSET Fields /\ (page = "rules") \in BOOLEAN
        /\ (IF page = "rules" THEN put.sent ELSE form.values) \in Settings
    BY <1>2
  <2>. QED
    BY <1>1, <2>1, Zenon
<1>4. put' \in [stage: {"none", "sent", "done"}, sent: Settings, touched: SUBSET Fields,
                missed: SUBSET Fields] /\ put'.stage = "none"
  BY <1>1, BlankIsSettings DEF NoPut
<1>5. FormsTypeOK'
  BY <1>1, <1>2, <1>3, <1>4, Zenon DEF FormsInv, FormsTypeOK
<1>6. (UntouchedKept /\ LoadIsRow /\ SeenIsRow)'
  BY <1>1, <1>2, <1>4 DEF FormsInv, UntouchedKept, LoadIsRow, SeenIsRow
<1>7. FormIsSeen'
  <2>1. form'.touched = {} /\ (form'.open => form'.values = put.sent)
    BY <1>1, Zenon
  <2>. QED
    BY <1>1, <1>2, <2>1 DEF FormIsSeen
<1>. QED
  BY <1>5, <1>6, <1>7 DEF FormsInv

LEMMA SubmitFailedStep == ASSUME FormsInv, SubmitFailed PROVE FormsInv'
<1>1. /\ put.stage # "none" /\ put' = NoPut /\ overwrote' = {}
      /\ apart' = IF put.stage = "done" THEN Fields ELSE apart
      /\ row' = row /\ page' = page /\ load' = load /\ seen' = seen /\ form' = form
  BY DEF SubmitFailed
<1>2. put' \in [stage: {"none", "sent", "done"}, sent: Settings, touched: SUBSET Fields,
                missed: SUBSET Fields] /\ put'.stage = "none"
  BY <1>1, BlankIsSettings DEF NoPut
<1>3. FormsTypeOK'
  BY <1>1, <1>2 DEF FormsInv, FormsTypeOK
<1>4. (UntouchedKept /\ LoadIsRow /\ SeenIsRow)'
  BY <1>1, <1>2 DEF FormsInv, FormsTypeOK, UntouchedKept, LoadIsRow, SeenIsRow
<1>5. FormIsSeen'
  BY <1>1 DEF FormsInv, FormIsSeen
<1>. QED
  BY <1>3, <1>4, <1>5 DEF FormsInv

LEMMA SavedElsewhereStep ==
    ASSUME FormsInv, NEW f \in Fields, NEW v \in Values, SavedElsewhere(f, v)
    PROVE  FormsInv'
<1>1. /\ row' = [row EXCEPT ![f] = v]
      /\ apart' = IF load.stage = "asked" THEN apart ELSE apart \cup {f}
      /\ put' = IF put.stage = "done" THEN [put EXCEPT !.missed = @ \cup {f}] ELSE put
      /\ page' = page /\ load' = load /\ seen' = seen /\ form' = form /\ overwrote' = overwrote
  BY DEF SavedElsewhere
<1>2. row' \in Settings /\ \A g \in Fields \ {f} : row'[g] = row[g]
  BY <1>1 DEF FormsInv, FormsTypeOK, Settings
<1>3. /\ put' \in [stage: {"none", "sent", "done"}, sent: Settings, touched: SUBSET Fields,
                   missed: SUBSET Fields]
      /\ put'.stage = put.stage /\ put'.sent = put.sent /\ put'.touched = put.touched
      /\ put.missed \subseteq put'.missed /\ (put.stage = "done" => f \in put'.missed)
  BY <1>1 DEF FormsInv, FormsTypeOK
<1>4. FormsTypeOK'
  BY <1>1, <1>2, <1>3 DEF FormsInv, FormsTypeOK
<1>5. apart \subseteq apart' /\ (load.stage # "asked" => f \in apart')
  BY <1>1
<1>6. (UntouchedKept /\ LoadIsRow)'
  BY <1>1, <1>2, <1>3, <1>5 DEF FormsInv, UntouchedKept, LoadIsRow
<1>7. SeenIsRow'
  BY <1>1, <1>2, <1>3, <1>5 DEF FormsInv, SeenIsRow
<1>8. FormIsSeen'
  BY <1>1 DEF FormsInv, FormIsSeen
<1>. QED
  BY <1>4, <1>6, <1>7, <1>8 DEF FormsInv

\* What an estate's form keeps while it loads, is edited and is saved: what it shows and did
\* not touch is what it was told (pass-rules/page.tsx, estate/page.tsx).
THEOREM FormsInvariant == FormsSpec => []FormsInv
<1>1. ASSUME FormsInv, [FormsNext]_formVars
      PROVE  FormsInv'
  <2>1. CASE AnswerLoad \/ LoadShown \/ LoadFailed \/ StartEditingSettings
    BY <1>1, <2>1, AnswerLoadStep, LoadShownStep, LoadFailedStep, StartEditingStep
  <2>2. CASE \E f \in Fields, v \in Values : Type(f, v) \/ SavedElsewhere(f, v)
    BY <1>1, <2>2, TypeStep, SavedElsewhereStep
  <2>3. CASE SubmitForm \/ UpdateSettings \/ SaveAnswered \/ SubmitFailed
    BY <1>1, <2>3, SubmitFormStep, UpdateSettingsStep, SaveAnsweredStep, SubmitFailedStep
  <2>4. CASE UNCHANGED formVars
    BY <1>1, <2>4 DEF formVars, FormsInv, FormsTypeOK, UntouchedKept, LoadIsRow, SeenIsRow,
                      FormIsSeen
  <2>. QED
    BY <1>1, <2>1, <2>2, <2>3, <2>4 DEF FormsNext
<1>. QED
  BY <1>1, FormsInitial, PTL DEF FormsSpec

\* pass-rules/page.tsx, estate/page.tsx: a save that sends every field changes a field
\* nobody touched only when the page did not have what another administrator wrote.
THEOREM UntouchedFieldsKept == FormsSpec => []UntouchedKept
<1>. QED
  BY FormsInvariant, PTL DEF FormsInv

-----------------------------------------------------------------------------
(* InvitePanel.  While nothing happened behind the panel, an invitation has  *)
(* one resend under way at most; none of its links is shown until the server *)
(* has made the new one, and the one made is its newest.                     *)

Request == [invite: Invites, stage: {"sent", "made", "refused"}, link: LinkNumbers]

ResendsFit ==
    \A q \in resends : q.invite \notin remade =>
        /\ \A o \in resends : o.invite = q.invite => o = q
        /\ q.stage = "sent" => fallbackLinks[q.invite] = 0
        /\ q.stage = "made" => q.link = invite[q.invite].link

PanelInv == PanelTypeOK /\ LinkShownIsNewest /\ ResendsFit

LEMMA PanelInitial == PanelInit => PanelInv
<1>. SUFFICES ASSUME PanelInit PROVE PanelInv
  OBVIOUS
<1>1. PanelTypeOK
  BY MaxAssumption DEF PanelInit, PanelTypeOK, Sendable, LinkNumbers
<1>2. LinkShownIsNewest /\ ResendsFit
  BY DEF PanelInit, LinkShownIsNewest, ResendsFit
<1>. QED
  BY <1>1, <1>2 DEF PanelInv

\* What the two properties read is unchanged, but for the status of an invitation.
LEMMA LinksKept ==
    ASSUME PanelInv, UNCHANGED <<fallbackLinks, resends, remade>>,
           \A i \in Invites : invite'[i].link = invite[i].link
    PROVE  LinkShownIsNewest' /\ ResendsFit'
<1>1. \A q \in resends : q.invite \in Invites
  BY DEF PanelInv, PanelTypeOK
<1>. QED
  BY <1>1 DEF PanelInv, LinkShownIsNewest, ResendsFit

LEMMA ListStep ==
    ASSUME PanelInv, Refresh \/ ListInvites \/ \E l \in answers : SetInvites(l)
    PROVE  PanelInv'
<1>1. UNCHANGED <<invite, fallbackLinks, resendingId, resends, cancelingId, cancelling, remade>>
  BY DEF Refresh, ListInvites, SetInvites
<1>2. awaited' \in 0..MaxLoads
  BY MaxAssumption DEF Refresh, LoadInvites, ListInvites, SetInvites, PanelInv, PanelTypeOK
<1>3. invites' \subseteq Invites /\ answers' \subseteq SUBSET Invites
  <2>1. Listed \subseteq Invites
    BY DEF Listed
  <2>. QED
    BY <2>1 DEF Refresh, ListInvites, SetInvites, PanelInv, PanelTypeOK
<1>4. PanelTypeOK'
  BY <1>1, <1>2, <1>3 DEF PanelInv, PanelTypeOK
<1>. QED
  BY <1>1, <1>4, LinksKept DEF PanelInv

LEMMA ResendStep == ASSUME PanelInv, NEW i \in Invites, Resend(i) PROVE PanelInv'
<1>. DEFINE new == [invite |-> i, stage |-> "sent", link |-> 0]
<1>1. /\ resendingId' = i /\ resends' = resends \cup {new}
      /\ fallbackLinks' = [fallbackLinks EXCEPT ![i] = 0]
      /\ remade' = IF \E q \in resends : q.invite = i THEN remade \cup {i} ELSE remade \ {i}
      /\ invite' = invite /\ invites' = invites /\ awaited' = awaited /\ answers' = answers
      /\ cancelingId' = cancelingId /\ cancelling' = cancelling
  BY DEF Resend
<1>2. new \in Request /\ new.invite = i /\ new.stage = "sent"
  BY MaxAssumption DEF Request, LinkNumbers
<1>. HIDE DEF new
<1>3. /\ fallbackLinks' \in [Invites -> LinkNumbers] /\ fallbackLinks'[i] = 0
      /\ \A j \in Invites \ {i} : fallbackLinks'[j] = fallbackLinks[j]
  BY <1>1, MaxAssumption DEF PanelInv, PanelTypeOK, LinkNumbers
<1>4. PanelTypeOK'
  BY <1>1, <1>2, <1>3 DEF PanelInv, PanelTypeOK, Request
<1>5. /\ i \notin remade' => ~\E q \in resends : q.invite = i
      /\ \A j \in Invites \ {i} : j \in remade' <=> j \in remade
  BY <1>1
<1>6. LinkShownIsNewest'
  BY <1>1, <1>3, <1>5 DEF PanelInv, LinkShownIsNewest
<1>7. ResendsFit'
  <2>1. SUFFICES ASSUME NEW q \in resends', q.invite \notin remade'
                 PROVE  /\ \A o \in resends' : o.invite = q.invite => o = q
                        /\ q.stage = "sent" => fallbackLinks'[q.invite] = 0
                        /\ q.stage = "made" => q.link = invite[q.invite].link
    BY <1>1 DEF ResendsFit
  <2>2. CASE q.invite = i
    <3>1. \A o \in resends' : o.invite = i => o = new
      BY <1>1, <1>5, <2>1, <2>2
    <3>. QED
      BY <1>2, <1>3, <2>2, <3>1
  <2>3. CASE q.invite # i
    <3>1. q \in resends /\ q.invite \in Invites \ {i} /\ q.invite \notin remade
      BY <1>1, <1>2, <1>5, <2>1, <2>3 DEF PanelInv, PanelTypeOK
    <3>2. \A o \in resends' : o.invite = q.invite => o \in resends
      BY <1>1, <1>2, <2>3
    <3>. QED
      BY <1>3, <3>1, <3>2 DEF PanelInv, ResendsFit
  <2>. QED
    BY <2>2, <2>3
<1>. QED
  BY <1>4, <1>6, <1>7 DEF PanelInv

\* A request that is answered stays the only one of its invitation.
LEMMA ResendInviteStep == ASSUME PanelInv, NEW q \in resends, ResendInvite(q) PROVE PanelInv'
<1>1. /\ q.stage = "sent" /\ q \in Request /\ q.invite \in Invites
      /\ UNCHANGED <<invites, awaited, answers, fallbackLinks, resendingId, cancelingId,
                     cancelling, remade>>
  BY DEF ResendInvite, PanelInv, PanelTypeOK, Request
<1>2. PICK new \in Request :
        /\ new.invite = q.invite /\ new.stage \in {"made", "refused"}
        /\ resends' = (resends \ {q}) \cup {new}
        /\ invite' \in [Invites -> [status: Sendable \cup {"USED"}, link: LinkNumbers]]
        /\ new.stage = "made" => new.link = invite'[q.invite].link
        /\ \A j \in Invites \ {q.invite} : invite'[j] = invite[j]
        /\ new.stage = "refused" => invite' = invite
  <2>1. CASE invite[q.invite].status = "USED"
    <3>. DEFINE new == [q EXCEPT !.stage = "refused"]
    <3>1. new \in Request /\ new.invite = q.invite /\ new.stage = "refused"
      BY <1>1 DEF Request
    <3>2. resends' = (resends \ {q}) \cup {new} /\ invite' = invite
      BY <2>1 DEF ResendInvite
    <3>. HIDE DEF new
    <3>. QED
      BY <3>1, <3>2 DEF PanelInv, PanelTypeOK
  <2>2. CASE invite[q.invite].status # "USED"
    <3>. DEFINE n == invite[q.invite].link + 1
                new == [q EXCEPT !.stage = "made", !.link = n]
    <3>1. n \in LinkNumbers
      BY <1>1, <2>2, MaxAssumption DEF ResendInvite, PanelInv, PanelTypeOK, LinkNumbers
    <3>2. new \in Request /\ new.invite = q.invite /\ new.stage = "made" /\ new.link = n
      BY <1>1, <3>1 DEF Request
    <3>3. /\ resends' = (resends \ {q}) \cup {new}
          /\ invite' = [invite EXCEPT ![q.invite] = [status |-> "PENDING", link |-> n]]
      BY <2>2 DEF ResendInvite
    <3>. HIDE DEF new, n
    <3>4. /\ invite' \in [Invites -> [status: Sendable \cup {"USED"}, link: LinkNumbers]]
          /\ invite'[q.invite].link = n
          /\ \A j \in Invites \ {q.invite} : invite'[j] = invite[j]
      BY <1>1, <3>1, <3>3 DEF PanelInv, PanelTypeOK, Sendable
    <3>. QED
      BY <3>2, <3>3, <3>4
  <2>. QED
    BY <2>1, <2>2
<1>3. PanelTypeOK'
  BY <1>1, <1>2 DEF PanelInv, PanelTypeOK, Request
<1>4. q.invite \notin remade => /\ fallbackLinks[q.invite] = 0
                               /\ \A o \in resends : o.invite = q.invite => o = q
  BY <1>1 DEF PanelInv, ResendsFit
<1>5. LinkShownIsNewest'
  BY <1>1, <1>2, <1>4 DEF PanelInv, LinkShownIsNewest
<1>6. ResendsFit'
  <2>1. SUFFICES ASSUME NEW r \in resends', r.invite \notin remade
                 PROVE  /\ \A o \in resends' : o.invite = r.invite => o = r
                        /\ r.stage = "sent" => fallbackLinks[r.invite] = 0
                        /\ r.stage = "made" => r.link = invite'[r.invite].link
    BY <1>1 DEF ResendsFit
  <2>2. CASE r.invite = q.invite
    <3>1. \A o \in resends' : o.invite = q.invite => o = new
      BY <1>2, <1>4, <2>1, <2>2
    <3>. QED
      BY <1>2, <2>1, <2>2, <3>1
  <2>3. CASE r.invite # q.invite
    <3>1. r \in resends /\ r.invite \in Invites \ {q.invite}
      BY <1>2, <2>1, <2>3 DEF PanelInv, PanelTypeOK
    <3>2. \A o \in resends' : o.invite = r.invite => o \in resends
      BY <1>2, <2>3
    <3>. QED
      BY <1>2, <2>1, <3>1, <3>2 DEF PanelInv, ResendsFit
  <2>. QED
    BY <2>2, <2>3
<1>. QED
  BY <1>3, <1>5, <1>6 DEF PanelInv

LEMMA ResentStep ==
    ASSUME PanelInv, NEW q \in resends, Resent(q) \/ ResendFailed(q)
    PROVE  PanelInv'
<1>1. /\ q \in Request /\ q.invite \in Invites /\ q.link \in LinkNumbers
      /\ resends' = resends \ {q} /\ resendingId' = Unnamed
      /\ UNCHANGED <<invite, invites, answers, cancelingId, cancelling, remade>>
  BY DEF Resent, ResendFailed, PanelInv, PanelTypeOK, Request
<1>2. \/ UNCHANGED fallbackLinks
      \/ q.stage = "made" /\ fallbackLinks' = [fallbackLinks EXCEPT ![q.invite] = q.link]
  BY DEF Resent, ResendFailed
<1>3. awaited' \in 0..MaxLoads
  BY MaxAssumption DEF Resent, ResendFailed, LoadInvites, PanelInv, PanelTypeOK
<1>4. /\ fallbackLinks' \in [Invites -> LinkNumbers]
      /\ \A j \in Invites \ {q.invite} : fallbackLinks'[j] = fallbackLinks[j]
      /\ \/ fallbackLinks'[q.invite] = fallbackLinks[q.invite]
         \/ q.stage = "made" /\ fallbackLinks'[q.invite] = q.link
  BY <1>1, <1>2 DEF PanelInv, PanelTypeOK
<1>5. PanelTypeOK'
  BY <1>1, <1>3, <1>4 DEF PanelInv, PanelTypeOK
<1>6. q.invite \notin remade =>
        /\ \A o \in resends' : o.invite # q.invite
        /\ q.stage = "made" => q.link = invite[q.invite].link
  BY <1>1 DEF PanelInv, ResendsFit
<1>7. LinkShownIsNewest'
  BY <1>1, <1>4, <1>6 DEF PanelInv, LinkShownIsNewest
<1>8. ResendsFit'
  <2>1. SUFFICES ASSUME NEW r \in resends', r.invite \notin remade
                 PROVE  /\ \A o \in resends' : o.invite = r.invite => o = r
                        /\ r.stage = "sent" => fallbackLinks'[r.invite] = 0
                        /\ r.stage = "made" => r.link = invite[r.invite].link
    BY <1>1 DEF ResendsFit
  <2>2. r \in resends /\ r.invite \in Invites \ {q.invite}
    BY <1>1, <1>6, <2>1 DEF PanelInv, PanelTypeOK
  <2>. QED
    BY <1>1, <1>4, <2>1, <2>2 DEF PanelInv, ResendsFit
<1>. QED
  BY <1>5, <1>7, <1>8 DEF PanelInv

LEMMA CancelStep ==
    ASSUME PanelInv,
           \/ \E i \in Invites : StartCancel(i) \/ Elapses(i)
           \/ ConfirmCancel \/ Cancelled \/ CancelFails
    PROVE  PanelInv'
<1>1. UNCHANGED <<invites, answers, fallbackLinks, resendingId, resends, remade>>
  BY DEF StartCancel, Elapses, ConfirmCancel, Cancelled, CancelFails
<1>2. /\ awaited' \in 0..MaxLoads
      /\ cancelingId' \in Invites \cup {Unnamed} /\ cancelling' \in Invites \cup {Unnamed}
  BY MaxAssumption DEF StartCancel, Elapses, ConfirmCancel, Cancelled, CancelFails, LoadInvites,
                       PanelInv, PanelTypeOK
<1>3. invite' = invite \/ \E i \in Invites : \E s \in {"REVOKED", "USED", "EXPIRED"} :
                              invite' = [invite EXCEPT ![i].status = s]
  BY DEF StartCancel, Elapses, ConfirmCancel, Cancelled, CancelFails, PanelInv, PanelTypeOK
<1>4. /\ invite' \in [Invites -> [status: Sendable \cup {"USED"}, link: LinkNumbers]]
      /\ \A i \in Invites : invite'[i].link = invite[i].link
  BY <1>3 DEF PanelInv, PanelTypeOK, Sendable
<1>5. PanelTypeOK'
  BY <1>1, <1>2, <1>4 DEF PanelInv, PanelTypeOK
<1>. QED
  BY <1>1, <1>4, <1>5, LinksKept DEF PanelInv

LEMMA ResentElsewhereStep ==
    ASSUME PanelInv, NEW i \in Invites, ResentElsewhere(i)
    PROVE  PanelInv'
<1>1. /\ invite[i].link < MaxLinks
      /\ invite' = [invite EXCEPT ![i] = [status |-> "PENDING", link |-> @.link + 1]]
      /\ remade' = remade \cup {i}
      /\ UNCHANGED <<invites, awaited, answers, fallbackLinks, resendingId, resends,
                     cancelingId, cancelling>>
  BY DEF ResentElsewhere
<1>2. invite[i].link + 1 \in LinkNumbers
  BY <1>1, MaxAssumption DEF PanelInv, PanelTypeOK, LinkNumbers
<1>3. /\ invite' \in [Invites -> [status: Sendable \cup {"USED"}, link: LinkNumbers]]
      /\ \A j \in Invites \ {i} : invite'[j] = invite[j]
  BY <1>1, <1>2 DEF PanelInv, PanelTypeOK, Sendable
<1>4. PanelTypeOK'
  BY <1>1, <1>3 DEF PanelInv, PanelTypeOK
<1>5. LinkShownIsNewest'
  BY <1>1, <1>3 DEF PanelInv, LinkShownIsNewest
<1>6. ResendsFit'
  <2>1. \A q \in resends : q.invite \in Invites
    BY DEF PanelInv, PanelTypeOK
  <2>. QED
    BY <1>1, <1>3, <2>1 DEF PanelInv, ResendsFit
<1>. QED
  BY <1>4, <1>5, <1>6 DEF PanelInv

\* What the invite panel keeps while any number of resends run: the link it shows is the last
\* one it was given for the invite (PendingInvitesPanel.tsx).
THEOREM PanelInvariant == PanelSpec => []PanelInv
<1>1. ASSUME PanelInv, [PanelNext]_panelVars
      PROVE  PanelInv'
  <2>1. CASE Refresh \/ ListInvites \/ \E l \in answers : SetInvites(l)
    BY <1>1, <2>1, ListStep
  <2>2. CASE \E i \in Invites : Resend(i)
    BY <1>1, <2>2, ResendStep
  <2>3. CASE \E i \in Invites : ResentElsewhere(i)
    BY <1>1, <2>3, ResentElsewhereStep
  <2>4. CASE \E q \in resends : ResendInvite(q) \/ Resent(q) \/ ResendFailed(q)
    BY <1>1, <2>4, ResendInviteStep, ResentStep
  <2>5. CASE \/ \E i \in Invites : StartCancel(i) \/ Elapses(i)
             \/ ConfirmCancel \/ Cancelled \/ CancelFails
    BY <1>1, <2>5, CancelStep
  <2>6. CASE UNCHANGED panelVars
    <3>1. /\ UNCHANGED <<invite, invites, awaited, answers, fallbackLinks>>
          /\ UNCHANGED <<resendingId, resends, cancelingId, cancelling, remade>>
      BY <2>6 DEF panelVars
    <3>2. PanelTypeOK'
      BY <1>1, <3>1 DEF PanelInv, PanelTypeOK
    <3>. QED
      BY <1>1, <3>1, <3>2, LinksKept DEF PanelInv
  <2>. QED
    BY <1>1, <2>1, <2>2, <2>3, <2>4, <2>5, <2>6 DEF PanelNext
<1>. QED
  BY <1>1, PanelInitial, PTL DEF PanelSpec

\* PendingInvitesPanel.tsx: a link the panel shows is the one that works, unless another
\* link was made behind the panel.
THEOREM ShownLinkWorks == PanelSpec => []LinkShownIsNewest
<1>. QED
  BY PanelInvariant, PTL DEF PanelInv

-----------------------------------------------------------------------------
(* EstateLocation.  The best reading is the finest one heard.                *)

EditorType == [pin: Places, gate: Places, route: Places, from: [{"pin", "gate"} -> Measured]]

BestIsFinest ==
    /\ locating.target = "none" => locating.best = {}
    /\ locating.best = {} => locating.finest = 0
    /\ \A b \in locating.best : locating.best = {b} /\ b.accuracy = locating.finest

LocationInv == LocationTypeOK /\ RouteFitsGate /\ PinsAreFine /\ BestIsFinest

\* One pin is put where it is asked for and the other stays; a gate takes the route with it.
LEMMA PlacedFits ==
    ASSUME LocationTypeOK, NEW which \in {"pin", "gate"}, NEW at \in Points,
           NEW measured \in Measured
    PROVE  /\ Placed(which, at, measured) \in EditorType
           /\ which = "gate" => Placed(which, at, measured).route = Unset
           /\ which = "pin" => /\ Placed(which, at, measured).route = editor.route
                               /\ Placed(which, at, measured).gate = editor.gate
           /\ Placed(which, at, measured).from[which] = measured
           /\ \A p \in {"pin", "gate"} \ {which} :
                Placed(which, at, measured).from[p] = editor.from[p]
<1>. DEFINE e == Placed(which, at, measured)
            from == [editor.from EXCEPT ![which] = measured]
<1>1. editor \in EditorType
  BY DEF LocationTypeOK, EditorType
<1>2. editor.from \in [{"pin", "gate"} -> Measured] /\ from \in [{"pin", "gate"} -> Measured]
  BY <1>1 DEF EditorType
<1>3. at \in Places /\ Unset \in Places
  BY DEF Places
<1>4. CASE which = "pin"
  <2>1. e = [editor EXCEPT !.pin = at, !.from = from, !.route = editor.route]
    BY <1>1, <1>4 DEF Placed, EditorType
  <2>. HIDE DEF from
  <2>2. e \in EditorType /\ e.route = editor.route /\ e.gate = editor.gate /\ e.from = from
    BY <1>1, <1>2, <1>3, <2>1 DEF EditorType
  <2>. QED
    BY <1>2, <1>4, <2>2 DEF from
<1>5. CASE which = "gate"
  <2>1. e = [editor EXCEPT !.gate = at, !.from = from, !.route = Unset]
    BY <1>1, <1>5 DEF Placed, EditorType
  <2>. HIDE DEF from
  <2>2. e \in EditorType /\ e.route = Unset /\ e.from = from
    BY <1>1, <1>2, <1>3, <2>1 DEF EditorType
  <2>. QED
    BY <1>2, <1>5, <2>2 DEF from
<1>. QED
  BY <1>4, <1>5

LEMMA NoPinsFit == NoPins \in Pins /\ NotMeasured \in Measured /\ Unset \in Places
  BY DEF NoPins, Pins, Places, NotMeasured, Measured

\* An editor just opened.
EditorOpened == [pin |-> Unset, gate |-> Unset, route |-> Unset,
           from |-> [p \in {"pin", "gate"} |-> NotMeasured]]

LEMMA OpenedFits ==
    EditorOpened \in EditorType /\ EditorOpened.route = Unset
      /\ \A p \in {"pin", "gate"} : EditorOpened.from[p] = NotMeasured
  BY NoPinsFit DEF EditorOpened, EditorType

LEMMA LocationInitial == LocationInit => LocationInv
<1>. SUFFICES ASSUME LocationInit PROVE LocationInv
  OBVIOUS
<1>1. editor = EditorOpened /\ locating = NotLocating
  BY DEF LocationInit, EditorOpened
<1>2. LocationTypeOK
  <2>1. editor \in EditorType
    BY <1>1, OpenedFits
  <2>2. locating \in [target: {"none", "pin", "gate"}, finest: Accuracies \cup {0},
                      best: SUBSET Reading]
    BY <1>1 DEF NotLocating
  <2>3. /\ estate \in Pins /\ routing \in Places /\ saving \in Pins /\ outdated \in BOOLEAN
        /\ loading \in [stage: {"asked", "answered", "done", "failed"}, got: Pins]
    BY NoPinsFit DEF LocationInit
  <2>. QED
    BY <2>1, <2>2, <2>3 DEF LocationTypeOK, EditorType
<1>3. RouteFitsGate /\ BestIsFinest
  BY <1>1, OpenedFits DEF RouteFitsGate, BestIsFinest, NotLocating
<1>4. PinsAreFine
  BY <1>1, OpenedFits
     DEF PinsAreFine, NotMeasured, MAX_ACCURACY_GATE_M, MAX_ACCURACY_ESTATE_M
<1>. QED
  BY <1>2, <1>3, <1>4 DEF LocationInv

\* A step that leaves the editor alone.
LEMMA EditorKept ==
    ASSUME LocationInv, UNCHANGED <<editor, outdated>>
    PROVE  RouteFitsGate' /\ PinsAreFine'
  BY DEF LocationInv, RouteFitsGate, PinsAreFine

LEMMA LoadStep ==
    ASSUME LocationInv, GetLocation \/ LoadFails \/ SaveFails \/ Save \/ PreviewRoute
    PROVE  LocationInv'
<1>1. UNCHANGED <<estate, editor, locating, outdated>>
  BY DEF GetLocation, LoadFails, SaveFails, Save, PreviewRoute
<1>2. loading' \in [stage: {"asked", "answered", "done", "failed"}, got: Pins]
  BY NoPinsFit DEF GetLocation, LoadFails, SaveFails, Save, PreviewRoute, LocationInv,
                   LocationTypeOK
<1>3. routing' \in Places /\ saving' \in Pins
  BY NoPinsFit DEF GetLocation, LoadFails, SaveFails, Save, PreviewRoute, LocationInv,
                   LocationTypeOK, Pins
<1>4. LocationTypeOK'
  BY <1>1, <1>2, <1>3 DEF LocationInv, LocationTypeOK
<1>. QED
  BY <1>1, <1>4, EditorKept DEF LocationInv, BestIsFinest

LEMMA LoadedStep == ASSUME LocationInv, Loaded PROVE LocationInv'
<1>. DEFINE got == loading.got
            pin == IF got.pin # Unset THEN got.pin ELSE editor.pin
            gate == IF got.gate # Unset THEN got.gate ELSE editor.gate
            from == [p \in {"pin", "gate"} |->
                        IF got[p] # Unset THEN NotMeasured ELSE editor.from[p]]
<1>1. /\ loading' = [stage |-> "done", got |-> NoPins]
      /\ editor' = [editor EXCEPT !.pin = pin, !.gate = gate, !.from = from]
      /\ outdated' = (outdated \/ editor.route \notin {Unset, editor'.gate})
      /\ UNCHANGED <<estate, locating, routing, saving>>
  BY DEF Loaded, LocationInv, LocationTypeOK
<1>2. /\ editor \in EditorType /\ got \in Pins /\ pin \in Places /\ gate \in Places
      /\ from \in [{"pin", "gate"} -> Measured]
  BY NoPinsFit DEF LocationInv, LocationTypeOK, EditorType, Pins
<1>3. \A p \in {"pin", "gate"} : from[p] \in {NotMeasured, editor.from[p]}
  OBVIOUS
<1>. HIDE DEF from, pin, gate, got
<1>4. editor' \in EditorType /\ editor'.route = editor.route /\ editor'.from = from
  BY <1>1, <1>2 DEF EditorType
<1>5. LocationTypeOK'
  BY <1>1, <1>4, NoPinsFit DEF LocationInv, LocationTypeOK, EditorType
<1>6. RouteFitsGate'
  BY <1>1, <1>4 DEF RouteFitsGate
<1>7. PinsAreFine'
  BY <1>3, <1>4 DEF LocationInv, PinsAreFine, NotMeasured, MAX_ACCURACY_GATE_M,
                    MAX_ACCURACY_ESTATE_M
<1>. QED
  BY <1>1, <1>5, <1>6, <1>7 DEF LocationInv, BestIsFinest

\* A pin is put with a reading fine enough for it, or by hand.
LEMMA PlacedIsFine ==
    ASSUME LocationInv, NEW which \in {"pin", "gate"}, NEW at \in Points,
           NEW measured \in Measured, measured.used = measured.finest,
           measured.used <= (IF which = "gate" THEN MAX_ACCURACY_GATE_M
                                               ELSE MAX_ACCURACY_ESTATE_M),
           editor' = Placed(which, at, measured), outdated' = Cleared(which)
    PROVE  editor' \in EditorType /\ outdated' \in BOOLEAN /\ RouteFitsGate' /\ PinsAreFine'
<1>1. /\ editor' \in EditorType
      /\ which = "gate" => editor'.route = Unset
      /\ which = "pin" => editor'.route = editor.route /\ editor'.gate = editor.gate
      /\ editor'.from[which] = measured
      /\ \A p \in {"pin", "gate"} \ {which} : editor'.from[p] = editor.from[p]
  BY PlacedFits DEF LocationInv
<1>2. RouteFitsGate'
  BY <1>1 DEF LocationInv, RouteFitsGate, Cleared
<1>3. PinsAreFine'
  BY <1>1 DEF LocationInv, PinsAreFine
<1>4. outdated' \in BOOLEAN
  BY DEF Cleared
<1>. QED
  BY <1>1, <1>2, <1>3, <1>4

LEMMA PlaceStep ==
    ASSUME LocationInv, NEW which \in {"pin", "gate"}, NEW at \in Points, Place(which, at)
    PROVE  LocationInv'
<1>1. /\ UNCHANGED <<estate, loading, locating, routing, saving>>
      /\ editor' = Placed(which, at, NotMeasured) /\ outdated' = Cleared(which)
  BY DEF Place
<1>2. NotMeasured \in Measured /\ NotMeasured.used = 0 /\ NotMeasured.finest = 0
  BY NoPinsFit DEF NotMeasured
<1>3. editor' \in EditorType /\ outdated' \in BOOLEAN /\ RouteFitsGate' /\ PinsAreFine'
  BY <1>1, <1>2, PlacedIsFine DEF MAX_ACCURACY_GATE_M, MAX_ACCURACY_ESTATE_M
<1>4. LocationTypeOK'
  BY <1>1, <1>3 DEF LocationInv, LocationTypeOK, EditorType
<1>. QED
  BY <1>1, <1>3, <1>4 DEF LocationInv, BestIsFinest

LEMMA SetPinHereStep ==
    ASSUME LocationInv, NEW at \in Points, SetPinHere(at)
    PROVE  LocationInv'
<1>. DEFINE placed == Placed("pin", at, NotMeasured)
<1>1. /\ UNCHANGED <<estate, loading, locating, routing, saving>>
      /\ editor' = [placed EXCEPT !.route = Unset] /\ outdated' = FALSE
  BY DEF SetPinHere
<1>2. /\ placed \in EditorType /\ placed.from["pin"] = NotMeasured
      /\ placed.from["gate"] = editor.from["gate"]
  BY PlacedFits, NoPinsFit DEF LocationInv
<1>. HIDE DEF placed
<1>3. editor' \in EditorType /\ editor'.route = Unset /\ editor'.from = placed.from
  BY <1>1, <1>2, NoPinsFit DEF EditorType
<1>4. LocationTypeOK'
  BY <1>1, <1>3 DEF LocationInv, LocationTypeOK, EditorType
<1>5. RouteFitsGate'
  BY <1>3 DEF RouteFitsGate
<1>6. PinsAreFine'
  BY <1>2, <1>3 DEF LocationInv, PinsAreFine, NotMeasured, MAX_ACCURACY_GATE_M,
                    MAX_ACCURACY_ESTATE_M
<1>. QED
  BY <1>1, <1>4, <1>5, <1>6 DEF LocationInv, BestIsFinest

\* A reading finer than the best is the finest of all, and the best from then on.
LEMMA HearStep ==
    ASSUME LocationInv, NEW reading \in Reading, Hear(reading)
    PROVE  LocationInv'
<1>. DEFINE best == IF \A b \in locating.best : reading.accuracy < b.accuracy THEN {reading}
                                                                         ELSE locating.best
            finest == Finer(locating.finest, reading)
<1>1. /\ \A b \in locating.best : b.accuracy > GoodEnough
      /\ locating' = [locating EXCEPT !.finest = finest, !.best = best]
      /\ UNCHANGED <<estate, editor, loading, routing, saving, outdated>>
      /\ locating.target # "none"
  BY DEF Hear, LocationInv, LocationTypeOK
<1>2. /\ finest \in Accuracies \cup {0} /\ best \in SUBSET Reading
      /\ reading.accuracy \in Nat
      /\ \A b \in locating.best : b.accuracy \in Nat
  BY LocationAssumption DEF LocationInv, LocationTypeOK, Finer, Reading
<1>3. /\ best = {} => finest = 0
      /\ \A b \in best : best = {b} /\ b.accuracy = finest
  <2>1. CASE locating.best = {}
    BY <2>1 DEF LocationInv, BestIsFinest, Finer
  <2>2. CASE locating.best # {}
    <3>1. PICK b \in locating.best :
            locating.best = {b} /\ b.accuracy = locating.finest /\ b.accuracy > 20
      BY <1>1, <2>2 DEF LocationInv, BestIsFinest, GoodEnough
    <3>2. b.accuracy \in Nat /\ reading.accuracy \in Nat
      BY <1>2, <3>1
    <3>. QED
      BY <3>1, <3>2 DEF Finer
  <2>. QED
    BY <2>1, <2>2
<1>. HIDE DEF best, finest
<1>4. /\ locating' \in [target: {"none", "pin", "gate"}, finest: Accuracies \cup {0},
                        best: SUBSET Reading]
      /\ locating'.best = best /\ locating'.finest = finest /\ locating'.target # "none"
  BY <1>1, <1>2 DEF LocationInv, LocationTypeOK
<1>5. LocationTypeOK'
  BY <1>1, <1>4 DEF LocationInv, LocationTypeOK
<1>6. BestIsFinest'
  BY <1>3, <1>4 DEF BestIsFinest
<1>. QED
  BY <1>1, <1>5, <1>6, EditorKept DEF LocationInv

LEMMA LocatingStep ==
    ASSUME LocationInv, NoFix \/ \E which \in {"pin", "gate"} : CaptureFromDevice(which)
    PROVE  LocationInv'
<1>1. UNCHANGED <<estate, editor, loading, routing, saving, outdated>>
  BY DEF NoFix, CaptureFromDevice
<1>2. /\ locating' \in [target: {"none", "pin", "gate"}, finest: Accuracies \cup {0},
                        best: SUBSET Reading]
      /\ locating'.best = {} /\ locating'.finest = 0
  BY DEF NoFix, CaptureFromDevice, NotLocating
<1>3. LocationTypeOK'
  BY <1>1, <1>2 DEF LocationInv, LocationTypeOK
<1>4. BestIsFinest'
  BY <1>2 DEF BestIsFinest
<1>. QED
  BY <1>1, <1>3, <1>4, EditorKept DEF LocationInv

LEMMA FixStep ==
    ASSUME LocationInv, NEW b \in Reading, Fix(b)
    PROVE  LocationInv'
<1>. DEFINE which == locating.target
            measured == [used |-> b.accuracy, finest |-> locating.finest]
<1>1. /\ b \in locating.best /\ locating' = NotLocating
      /\ UNCHANGED <<estate, loading, routing, saving>>
      /\ which \in {"pin", "gate"} /\ b.at \in Points /\ b.accuracy \in Nat
  BY LocationAssumption DEF Fix, LocationInv, LocationTypeOK, BestIsFinest, Reading
<1>2. /\ measured \in Measured /\ measured.used = measured.finest
      /\ measured.used = b.accuracy
  BY <1>1 DEF LocationInv, LocationTypeOK, BestIsFinest, Measured, Reading
<1>3. \/ UNCHANGED <<editor, outdated>>
      \/ /\ editor' = Placed(which, b.at, measured) /\ outdated' = Cleared(which)
         /\ b.accuracy <= (IF which = "gate" THEN MAX_ACCURACY_GATE_M
                                             ELSE MAX_ACCURACY_ESTATE_M)
  BY <1>1 DEF Fix, MAX_ACCURACY_GATE_M, MAX_ACCURACY_ESTATE_M
<1>. HIDE DEF which, measured
<1>4. editor' \in EditorType /\ outdated' \in BOOLEAN /\ RouteFitsGate' /\ PinsAreFine'
  <2>1. CASE UNCHANGED <<editor, outdated>>
    BY <2>1, EditorKept DEF LocationInv, LocationTypeOK, EditorType
  <2>2. CASE ~UNCHANGED <<editor, outdated>>
    BY <1>1, <1>2, <1>3, <2>2, PlacedIsFine
  <2>. QED
    BY <2>1, <2>2
<1>5. LocationTypeOK'
  BY <1>1, <1>4 DEF LocationInv, LocationTypeOK, EditorType, NotLocating
<1>6. BestIsFinest'
  BY <1>1 DEF BestIsFinest, NotLocating
<1>. QED
  BY <1>4, <1>5, <1>6 DEF LocationInv

LEMMA RoutedStep == ASSUME LocationInv, Routed PROVE LocationInv'
<1>1. /\ routing' = Unset /\ UNCHANGED <<estate, loading, locating, saving>>
      /\ editor \in EditorType /\ routing \in Places
  BY DEF Routed, LocationInv, LocationTypeOK, EditorType
<1>2. PICK route \in {routing, Unset} :
        /\ editor' = [editor EXCEPT !.route = route]
        /\ outdated' = (route # Unset /\ route # editor.gate)
  BY <1>1 DEF Routed
<1>3. /\ editor' \in EditorType /\ editor'.from = editor.from
      /\ editor'.route = route /\ editor'.gate = editor.gate
  BY <1>1, <1>2, NoPinsFit DEF EditorType
<1>4. LocationTypeOK'
  BY <1>1, <1>2, <1>3, NoPinsFit DEF LocationInv, LocationTypeOK, EditorType
<1>5. RouteFitsGate' /\ PinsAreFine'
  BY <1>2, <1>3 DEF LocationInv, RouteFitsGate, PinsAreFine
<1>. QED
  BY <1>1, <1>4, <1>5 DEF LocationInv, BestIsFinest

LEMMA UpdateLocationStep == ASSUME LocationInv, UpdateLocation PROVE LocationInv'
<1>1. /\ editor' = EditorOpened /\ locating' = NotLocating /\ routing' = Unset /\ outdated' = FALSE
      /\ loading' = [stage |-> "asked", got |-> NoPins]
      /\ estate' = saving /\ saving' = NoPins
  BY DEF UpdateLocation, EditorOpened
<1>2. LocationTypeOK'
  BY <1>1, NoPinsFit, OpenedFits DEF LocationInv, LocationTypeOK, EditorType, NotLocating
<1>3. RouteFitsGate' /\ BestIsFinest'
  BY <1>1, OpenedFits DEF RouteFitsGate, BestIsFinest, NotLocating
<1>4. PinsAreFine'
  BY <1>1, OpenedFits
     DEF PinsAreFine, NotMeasured, MAX_ACCURACY_GATE_M, MAX_ACCURACY_ESTATE_M
<1>. QED
  BY <1>2, <1>3, <1>4 DEF LocationInv

\* What the location editor keeps: each pin is at least as fine as the place it was moved
\* from, and the route is the gate's (LocationEditor.tsx).
THEOREM LocationInvariant == LocationSpec => []LocationInv
<1>1. ASSUME LocationInv, [LocationNext]_locationVars
      PROVE  LocationInv'
  <2>1. CASE GetLocation \/ LoadFails \/ SaveFails \/ Save \/ PreviewRoute
    BY <1>1, <2>1, LoadStep
  <2>2. CASE Loaded \/ Routed \/ UpdateLocation
    BY <1>1, <2>2, LoadedStep, RoutedStep, UpdateLocationStep
  <2>3. CASE \/ \E which \in {"pin", "gate"}, at \in Points : Place(which, at)
             \/ \E at \in Points : SetPinHere(at)
    BY <1>1, <2>3, PlaceStep, SetPinHereStep
  <2>4. CASE NoFix \/ \E which \in {"pin", "gate"} : CaptureFromDevice(which)
    BY <1>1, <2>4, LocatingStep
  <2>5. CASE \E reading \in Reading : Hear(reading) \/ Fix(reading)
    BY <1>1, <2>5, HearStep, FixStep
  <2>6. CASE UNCHANGED locationVars
    <3>1. /\ UNCHANGED <<estate, editor, loading, locating>>
          /\ UNCHANGED <<routing, saving, outdated>>
      BY <2>6 DEF locationVars
    <3>2. LocationTypeOK' /\ BestIsFinest'
      BY <1>1, <3>1 DEF LocationInv, LocationTypeOK, BestIsFinest
    <3>. QED
      BY <1>1, <3>1, <3>2, EditorKept DEF LocationInv
  <2>. QED
    BY <1>1, <2>1, <2>2, <2>3, <2>4, <2>5, <2>6 DEF LocationNext
<1>. QED
  BY <1>1, LocationInitial, PTL DEF LocationSpec

\* LocationEditor.tsx: "Any change to the gate makes an earlier route preview stale".
THEOREM RouteLeadsToGate == LocationSpec => []RouteFitsGate
<1>. QED
  BY LocationInvariant, PTL DEF LocationInv

\* device-location.ts, LocationEditor.tsx: a pin from the device is set with the best of the
\* readings heard, which is fine enough for it, whenever the next ones arrive.
THEOREM DevicePinsAreFine == LocationSpec => []PinsAreFine
<1>. QED
  BY LocationInvariant, PTL DEF LocationInv

-----------------------------------------------------------------------------
(* VoiceGuidance.  The steps only go forward, and of each step what is left  *)
(* to speak is nearer than what was spoken.                                  *)

\* A set of numbers has a least one.
LEMMA LeastNat == ASSUME NEW S \in SUBSET Nat, S # {} PROVE \E m \in S : \A n \in S : m <= n
<1>1. PICK m \in S : \A n \in S : ~(<<n, m>> \in OpToRel(<, Nat))
  BY NatLessThanWellFounded, WFMin, Zenon
<1>2. \A n \in S : n \in Nat /\ m \in Nat /\ ~(n < m)
  BY <1>1 DEF OpToRel
<1>. QED
  BY <1>2

LEMMA RouteShape ==
    /\ Steps = 1..Len(Route) /\ Len(Route) \in Nat \ {0} /\ 1 \in Steps
    /\ \A i \in Steps : Route[i] \in Seq(Nat)
    /\ \A n \in Instruction : n[1] \in Steps /\ DistanceOf(n) \in Nat
    /\ \A r \in Readings, i \in Steps : r.off[i] \in Nat /\ r.left[i] \in Nat
<1>1. Route \in Seq(Seq(Nat)) /\ Route # <<>>
  BY RouteAssumption
<1>2. /\ Steps = 1..Len(Route) /\ Len(Route) \in Nat \ {0} /\ 1 \in Steps
      /\ \A i \in Steps : Route[i] \in Seq(Nat)
  BY <1>1 DEF Steps
<1>3. ASSUME NEW n \in Instruction PROVE n[1] \in Steps /\ DistanceOf(n) \in Nat
  BY <1>2 DEF Instruction, DistanceOf
<1>4. \A r \in Readings, i \in Steps : r.off[i] \in Nat /\ r.left[i] \in Nat
  BY RouteAssumption DEF Steps
<1>. QED
  BY <1>2, <1>3, <1>4

\* The step a reading is found on is on the route, and never before the one looked from.
LEMMA Located ==
    ASSUME NEW r \in Readings, NEW from \in Steps
    PROVE  locateOnRoute(r, from) \in Steps /\ locateOnRoute(r, from) >= from
<1>. DEFINE ahead == {i \in Steps : i >= from}
            offs == {r.off[i] : i \in ahead}
<1>1. from \in ahead /\ ahead \subseteq Nat /\ \A i \in Steps : r.off[i] \in Nat
  BY RouteShape
<1>2. PICK v \in offs : \A w \in offs : v <= w
  BY <1>1, LeastNat
<1>. DEFINE nearest == {i \in ahead : r.off[i] = v}
<1>3. PICK i \in nearest : \A j \in nearest : i <= j
  <2>1. nearest # {} /\ nearest \in SUBSET Nat
    BY <1>1, <1>2
  <2>. HIDE DEF nearest
  <2>. QED
    BY <2>1, LeastNat
<1>4. /\ i \in Steps /\ i >= from
      /\ \A j \in Steps : j >= from => \/ r.off[i] < r.off[j]
                                       \/ r.off[i] = r.off[j] /\ i <= j
  BY <1>1, <1>2, <1>3
<1>. QED
  BY <1>4 DEF locateOnRoute

LEMMA MostSpecificIsDue ==
    ASSUME NEW due \in SUBSET Instruction, due # {}
    PROVE  /\ MostSpecific(due) \in due
           /\ \A m \in due : DistanceOf(MostSpecific(due)) <= DistanceOf(m)
<1>. DEFINE distances == {DistanceOf(n) : n \in due}
<1>1. distances # {} /\ distances \in SUBSET Nat
  BY RouteShape
<1>2. PICK v \in distances : \A w \in distances : v <= w
  BY <1>1, LeastNat
<1>3. \E n \in due : \A m \in due : DistanceOf(n) <= DistanceOf(m)
  BY <1>2
<1>. QED
  BY <1>3 DEF MostSpecific

\* What is spoken or skipped up to step i, and in which order: of a step, whatever is due
\* before something spoken is spoken or skipped as well.
SpokenFits(said, order, i) ==
    /\ said \subseteq Instruction /\ order \in Seq(Instruction)
    /\ \A k \in DOMAIN order : order[k] \in said /\ order[k][1] <= i
    /\ \A n \in said, m \in Instruction :
          m[1] = n[1] /\ DistanceOf(m) >= DistanceOf(n) => m \in said
    /\ \A k, j \in DOMAIN order : k < j =>
          \/ order[k][1] < order[j][1]
          \/ order[k][1] = order[j][1] /\ DistanceOf(order[j]) < DistanceOf(order[k])

VoiceInv ==
    /\ step \in Steps
    /\ asking \subseteq Readings
    /\ SpokenFits(spoken, spokenOrder, step)

LEMMA NothingSpokenFits == ASSUME NEW i \in Steps PROVE SpokenFits({}, <<>>, i)
  BY DEF SpokenFits

LEMMA LaterStepFits ==
    ASSUME NEW said, NEW order, NEW i \in Steps, NEW j \in Steps, i <= j,
           SpokenFits(said, order, i)
    PROVE  SpokenFits(said, order, j)
<1>1. \A k \in DOMAIN order : order[k] \in Instruction /\ order[k][1] <= i
  BY DEF SpokenFits
<1>2. \A k \in DOMAIN order : order[k][1] <= j
  BY <1>1, RouteShape
<1>. QED
  BY <1>2 DEF SpokenFits

\* Whatever is due is remembered, and the nearest of it spoken: it is nearer than all that
\* was spoken on its step.
LEMMA SayFits ==
    ASSUME NEW r \in Readings, NEW i \in Steps, NEW said, NEW order,
           SpokenFits(said, order, i), Say(r, i, said, order)
    PROVE  SpokenFits(spoken', spokenOrder', i)
<1>. DEFINE due == Due(r, i, said)
            new == MostSpecific(due)
<1>1. /\ due \in SUBSET Instruction /\ spoken' = said \cup due
      /\ spokenOrder' = IF due = {} THEN order ELSE Append(order, new)
  BY DEF Say, Due, Remembered
<1>2. \A n \in due : n \notin said /\ n[1] = i /\ DistanceOf(n) >= r.left[i]
  BY DEF Due
<1>3. \A m \in Instruction : m[1] = i /\ DistanceOf(m) >= r.left[i] => m \in said \cup due
  BY DEF Due
<1>4. /\ said \subseteq Instruction /\ order \in Seq(Instruction)
      /\ \A k \in DOMAIN order : order[k] \in said /\ order[k][1] <= i
      /\ \A n \in said, m \in Instruction :
            m[1] = n[1] /\ DistanceOf(m) >= DistanceOf(n) => m \in said
      /\ \A k, j \in DOMAIN order : k < j =>
            \/ order[k][1] < order[j][1]
            \/ order[k][1] = order[j][1] /\ DistanceOf(order[j]) < DistanceOf(order[k])
  BY DEF SpokenFits
<1>5. CASE due = {}
  BY <1>1, <1>5 DEF SpokenFits
<1>6. CASE due # {}
  <2>1. new \in due
    BY <1>1, <1>6, MostSpecificIsDue
  <2>2. /\ new \in Instruction /\ new \notin said /\ new[1] = i
        /\ DistanceOf(new) \in Nat /\ r.left[i] \in Nat /\ i \in Nat
    BY <1>1, <1>2, <2>1, RouteShape
  <2>. HIDE DEF due, new
  <2>3. spokenOrder' = Append(order, new) /\ spoken' = said \cup due
    BY <1>1, <1>6
  <2>. DEFINE n == Len(order)
              longer == spokenOrder'
  <2>4. /\ n \in Nat /\ DOMAIN order = 1..n /\ DOMAIN longer = 1..(n + 1)
        /\ longer \in Seq(Instruction) /\ longer[n + 1] = new
        /\ \A k \in 1..n : longer[k] = order[k] /\ order[k] \in Instruction
    BY <1>4, <2>2, <2>3
  <2>5. \A k \in DOMAIN longer : longer[k] \in spoken' /\ longer[k][1] <= i
    BY <1>4, <2>1, <2>2, <2>3, <2>4
  <2>6. ASSUME NEW o \in spoken', NEW m \in Instruction,
               m[1] = o[1], DistanceOf(m) >= DistanceOf(o)
        PROVE  m \in spoken'
    <3>1. CASE o \in said
      BY <1>4, <2>3, <2>6, <3>1
    <3>2. CASE o \in due
      <4>1. DistanceOf(m) \in Nat /\ DistanceOf(o) \in Nat
        BY <1>1, <3>2, RouteShape
      <4>. QED
        BY <1>2, <1>3, <2>2, <2>3, <2>6, <3>2, <4>1
    <3>. QED
      BY <2>3, <3>1, <3>2
  <2>7. ASSUME NEW k \in 1..n
        PROVE  \/ order[k][1] < i
               \/ order[k][1] = i /\ DistanceOf(new) < DistanceOf(order[k])
    <3>1. /\ order[k] \in said /\ order[k] \in Instruction /\ order[k][1] <= i
          /\ order[k][1] \in Nat /\ DistanceOf(order[k]) \in Nat
      BY <1>4, <2>4, <2>7, RouteShape
    <3>2. CASE order[k][1] = i
      <4>1. ~(DistanceOf(new) >= DistanceOf(order[k]))
        BY <1>4, <2>2, <3>1, <3>2
      <4>. QED
        BY <2>2, <3>1, <3>2, <4>1
    <3>. QED
      BY <2>2, <3>1, <3>2
  <2>8. ASSUME NEW k \in DOMAIN longer, NEW j \in DOMAIN longer, k < j
        PROVE  \/ longer[k][1] < longer[j][1]
               \/ longer[k][1] = longer[j][1] /\ DistanceOf(longer[j]) < DistanceOf(longer[k])
    <3>1. k \in 1..n /\ longer[k] = order[k]
      BY <2>4, <2>8
    <3>2. CASE j = n + 1
      BY <2>2, <2>4, <2>7, <3>1, <3>2
    <3>3. CASE j # n + 1
      <4>1. j \in 1..n /\ longer[j] = order[j]
        BY <2>4, <2>8, <3>3
      <4>. QED
        BY <1>4, <2>4, <2>8, <3>1, <4>1
    <3>. QED
      BY <3>2, <3>3
  <2>9. spoken' \subseteq Instruction
    BY <1>1, <1>4, <2>3
  <2>. QED
    BY <2>4, <2>5, <2>6, <2>8, <2>9 DEF SpokenFits
<1>. QED
  BY <1>5, <1>6

LEMMA VoiceFixStep == ASSUME VoiceInv, NEW r \in Readings, VoiceFix(r) PROVE VoiceInv'
<1>1. asking' \subseteq Readings
  BY DEF VoiceFix, AskFrom, VoiceInv
<1>2. CASE ~hasRoute
  <2>1. UNCHANGED <<step, spoken, spokenOrder>>
    BY <1>2 DEF VoiceFix
  <2>. QED
    BY <1>1, <2>1 DEF VoiceInv
<1>3. CASE hasRoute
  <2>1. step' = locateOnRoute(r, step)
    BY <1>3 DEF VoiceFix, Locate
  <2>2. step' \in Steps /\ step' >= step
    BY <2>1, Located DEF VoiceInv
  <2>3. SpokenFits(spoken, spokenOrder, step')
    BY <2>2, LaterStepFits, RouteShape DEF VoiceInv
  <2>4. UNCHANGED <<spoken, spokenOrder>> \/ Say(r, step', spoken, spokenOrder)
    BY <1>3 DEF VoiceFix
  <2>5. SpokenFits(spoken', spokenOrder', step')
    BY <2>2, <2>3, <2>4, SayFits
  <2>. QED
    BY <1>1, <2>2, <2>5 DEF VoiceInv
<1>. QED
  BY <1>2, <1>3

LEMMA RouteArrivesStep == ASSUME VoiceInv, RouteArrives PROVE VoiceInv'
<1>. DEFINE r == CHOOSE x \in asking : TRUE
<1>1. r \in Readings /\ asking' = {}
  BY DEF RouteArrives, VoiceInv, NotAsking
<1>. HIDE DEF r
<1>2. CASE step' = 1 /\ spoken' = {} /\ spokenOrder' = <<>>
  BY <1>1, <1>2, NothingSpokenFits, RouteShape DEF VoiceInv
<1>3. CASE Locate(r, 1, 0) /\ Say(r, step', {}, <<>>)
  <2>1. step' \in Steps
    BY <1>1, <1>3, Located, RouteShape DEF Locate
  <2>2. SpokenFits(spoken', spokenOrder', step')
    BY <1>1, <1>3, <2>1, NothingSpokenFits, SayFits
  <2>. QED
    BY <1>1, <2>1, <2>2 DEF VoiceInv
<1>. QED
  BY <1>2, <1>3 DEF RouteArrives, r

\* What the voice of the navigation keeps: what was said of each step, in the order said
\* (VoiceGuidance.tsx).
THEOREM VoiceInvariant == VoiceSpec => []VoiceInv
<1>1. VoiceInit => VoiceInv
  BY NothingSpokenFits, RouteShape DEF VoiceInit, VoiceInv, NotAsking
<1>2. ASSUME VoiceInv, [VoiceNext]_voiceVars
      PROVE  VoiceInv'
  <2>1. CASE \E r \in Readings : VoiceFix(r)
    BY <1>2, <2>1, VoiceFixStep
  <2>2. CASE RouteArrives
    BY <1>2, <2>2, RouteArrivesStep
  <2>3. CASE StartVoice
    BY <1>2, <2>3, NothingSpokenFits, RouteShape DEF StartVoice, VoiceInv
  <2>4. CASE \/ RouteFails \/ StopVoice \/ VoiceArrives \/ PageHidden \/ PageVisible
             \/ SecondsPass \/ \E granted \in BOOLEAN : LockAnswered(granted)
    <3>1. UNCHANGED <<step, spoken, spokenOrder>> /\ asking' \in {asking, {}}
      BY <2>4 DEF RouteFails, StopVoice, VoiceArrives, PageHidden, PageVisible, SecondsPass,
                  LockAnswered, NotAsking
    <3>. QED
      BY <1>2, <3>1 DEF VoiceInv
  <2>5. CASE UNCHANGED voiceVars
    BY <1>2, <2>5 DEF voiceVars, VoiceInv
  <2>. QED
    BY <1>2, <2>1, <2>2, <2>3, <2>4, <2>5 DEF VoiceNext
<1>. QED
  BY <1>1, <1>2, PTL DEF VoiceSpec

\* voice-guidance.ts: "an older, vaguer one is skipped, not repeated", for every route and
\* every order of readings.
THEOREM GuidanceNeverVaguer == VoiceSpec => []NeverVaguer
<1>1. VoiceInv => NeverVaguer
  BY DEF VoiceInv, SpokenFits, NeverVaguer
<1>. QED
  BY <1>1, VoiceInvariant, PTL

\* The screen lock: whichever way the guidance ends, the lock it holds goes with it.
Locks == [held: BOOLEAN, wanted: 0..MaxLocks, stray: BOOLEAN]

LocksInv == locks \in Locks /\ active \in BOOLEAN /\ LockReleased

LEMMA LocksStep == ASSUME LocksInv, [VoiceNext]_voiceVars PROVE LocksInv'
<1>1. locks \in Locks /\ active \in BOOLEAN /\ LockReleased
  BY DEF LocksInv
<1>2. locks.wanted \in 0..MaxLocks /\ locks.held \in BOOLEAN /\ locks.stray \in BOOLEAN
  BY <1>1, Zenon DEF Locks
<1>3. CASE StartVoice \/ PageVisible
  <2>1. /\ active' = TRUE /\ locks.wanted < MaxLocks
        /\ locks' = [locks EXCEPT !.wanted = locks.wanted + 1]
    BY <1>3 DEF StartVoice, PageVisible
  <2>2. locks.wanted + 1 \in 0..MaxLocks
    BY <1>2, <2>1, MaxLocksAssumption
  <2>3. locks' \in Locks
    BY <1>1, <2>1, <2>2, Zenon DEF Locks
  <2>. QED
    BY <2>1, <2>3 DEF LocksInv, LockReleased
<1>4. CASE active' = FALSE /\ locks' = Released
  <2>1. locks' \in Locks /\ locks'.held = FALSE
    BY <1>1, <1>4, Zenon DEF Locks, Released
  <2>. QED
    BY <1>4, <2>1 DEF LocksInv, LockReleased
<1>5. CASE PageHidden
  <2>1. active' = active /\ locks' = [locks EXCEPT !.held = FALSE, !.stray = FALSE]
    BY <1>5 DEF PageHidden
  <2>2. locks' \in Locks /\ locks'.held = FALSE
    BY <1>1, <2>1, Zenon DEF Locks
  <2>. QED
    BY <1>1, <2>1, <2>2 DEF LocksInv, LockReleased
<1>6. CASE \E granted \in BOOLEAN : LockAnswered(granted)
  <2>1. PICK granted \in BOOLEAN : LockAnswered(granted)
    BY <1>6
  <2>. DEFINE stray == locks.stray \/ locks.held \/ (granted /\ ~active)
  <2>2. /\ locks' = [held |-> granted, wanted |-> locks.wanted - 1, stray |-> stray]
        /\ locks.wanted > 0 /\ active' = active
    BY <2>1 DEF LockAnswered
  <2>3. locks.wanted - 1 \in 0..MaxLocks
    BY <1>2, <2>2, MaxLocksAssumption
  <2>4. stray \in BOOLEAN /\ (granted /\ ~active => stray)
    OBVIOUS
  <2>. HIDE DEF stray
  <2>5. locks' \in Locks /\ locks'.held = granted /\ locks'.stray = stray
    BY <2>2, <2>3, <2>4, Zenon DEF Locks
  <2>. QED
    BY <1>1, <2>2, <2>4, <2>5, Zenon DEF LocksInv, LockReleased
<1>7. CASE UNCHANGED <<active, locks>>
  BY <1>1, <1>7 DEF LocksInv, LockReleased
<1>8. CASE VoiceArrives \/ StopVoice \/ RouteArrives \/ RouteFails \/ SecondsPass
           \/ (\E r \in Readings : VoiceFix(r)) \/ UNCHANGED voiceVars
  <2>1. UNCHANGED <<active, locks>> \/ (active' = FALSE /\ locks' = Released)
    BY <1>8 DEF VoiceArrives, StopVoice, ReachGate, RouteArrives, RouteFails, SecondsPass,
                VoiceFix, voiceVars
  <2>. QED
    BY <1>4, <1>7, <2>1
<1>. QED
  BY <1>3, <1>5, <1>6, <1>8 DEF VoiceNext

\* VoiceGuidance.tsx: no way to end the guidance keeps the screen on, but for a lock granted
\* after the end, or one whose place a second one took.
THEOREM ScreenLockReleased == VoiceSpec => []LockReleased
<1>1. VoiceInit => LocksInv
  <2>1. 0 \in 0..MaxLocks /\ FALSE \in BOOLEAN
    BY MaxLocksAssumption
  <2>2. [held |-> FALSE, wanted |-> 0, stray |-> FALSE] \in Locks
    BY <2>1, Zenon DEF Locks
  <2>3. SUFFICES ASSUME VoiceInit PROVE LocksInv
    OBVIOUS
  <2>4. locks = [held |-> FALSE, wanted |-> 0, stray |-> FALSE] /\ active = FALSE
    BY <2>3 DEF VoiceInit
  <2>5. locks \in Locks
    BY <2>2, <2>4
  <2>6. locks.held = FALSE
    BY <2>4, Zenon
  <2>. QED
    BY <2>4, <2>5, <2>6 DEF LocksInv, LockReleased
<1>2. LocksInv => LockReleased
  BY DEF LocksInv
<1>. QED
  BY <1>1, <1>2, LocksStep, PTL DEF VoiceSpec
-----------------------------------------------------------------------------
(* AdminLists.  The list asked for last is right, or the one on the screen   *)
(* if none is awaited, but for rows that are excused or asked for again.     *)

\* Row r of a list is the estate's, is excused, or the page is about to ask again.
RowRight(list, excused, r) ==
    \/ list[r] = stored[r]
    \/ r \in excused
    \/ \E c \in changes : c.stage = "done" /\ c.row = r

\* A list that was read is right, unless a later one came before it.
ListRight(l) ==
    (l.stage = "answered" /\ ~l.late) => \A r \in ListRows : RowRight(l.got, l.missed, r)

\* What the screen will show in the end: the list asked for last, or the one shown.
LastRight ==
    /\ lists = <<>> => \A r \in ListRows : RowRight(shown, unshown, r)
    /\ lists # <<>> => ListRight(lists[Len(lists)])

ListsInv == ListTypeOK /\ LastRight

-----------------------------------------------------------------------------
\* What happens to a list that was asked for.
Behind(l) == [l EXCEPT !.late = TRUE]
Misses(l, r) == [l EXCEPT !.missed = @ \cup {r}]
ReadAs(l, f) == [l EXCEPT !.stage = "answered", !.got = f]
Marked(c, s) == [c EXCEPT !.stage = s]

LEMMA BehindIs ==
    ASSUME NEW l \in Asked
    PROVE  Behind(l) \in Asked /\ Behind(l).late
BY DEF Behind, Asked

LEMMA MissesIs ==
    ASSUME NEW l \in Asked, NEW r \in ListRows
    PROVE  /\ Misses(l, r) \in Asked
           /\ Misses(l, r).stage = l.stage /\ Misses(l, r).got = l.got
           /\ Misses(l, r).late = l.late /\ Misses(l, r).missed = l.missed \cup {r}
BY DEF Misses, Asked

LEMMA ReadAsIs ==
    ASSUME NEW l \in Asked, NEW f \in List
    PROVE  ReadAs(l, f) \in Asked /\ ReadAs(l, f).got = f
BY DEF ReadAs, Asked

LEMMA NewListIs == NewList \in Asked /\ NewList.stage = "asked"
BY DEF NewList, Asked, List

LEMMA MarkedIs ==
    ASSUME NEW c \in Change, NEW s \in {"sent", "done", "refused"}
    PROVE  /\ Marked(c, s) \in Change /\ Marked(c, s).row = c.row
           /\ Marked(c, s).stage = s
BY DEF Marked, Change

\* A list that leaves the queue: the last one now is the last one before, or behind.
LEMMA WithoutListIs ==
    ASSUME lists \in Seq(Asked), NEW i \in DOMAIN lists, WithoutList(i)
    PROVE  /\ lists' \in Seq(Asked)
           /\ Len(lists') = Len(lists) - 1
           /\ Len(lists) = 1 => (i = 1 /\ lists' = <<>>)
           /\ Len(lists) > 1 =>
                  /\ lists' # <<>>
                  /\ \/ lists'[Len(lists')] = lists[Len(lists)]
                     \/ lists'[Len(lists')].late
<1> DEFINE n == Len(lists)
           q == [j \in 1..n - 1 |-> IF j < i THEN Behind(lists[j]) ELSE lists[j + 1]]
<1>1. n \in Nat \ {0} /\ i \in 1..n
    OBVIOUS
<1>2. lists' = q
    BY DEF WithoutList, Behind
<1>3. ASSUME NEW j \in 1..n - 1
      PROVE  (IF j < i THEN Behind(lists[j]) ELSE lists[j + 1]) \in Asked
    <2>1. lists[j] \in Asked /\ lists[j + 1] \in Asked
        BY <1>1
    <2> QED
        BY <2>1, BehindIs
<1>4. q \in Seq(Asked) /\ Len(q) = n - 1
    BY <1>1, <1>3
<1>5. ASSUME n > 1 PROVE q[n - 1] = lists[n] \/ q[n - 1].late
    <2>1. n - 1 \in 1..n - 1 /\ lists[n - 1] \in Asked
        BY <1>1, <1>5
    <2>2. q[n - 1] = IF n - 1 < i THEN Behind(lists[n - 1]) ELSE lists[n]
        BY <1>1, <2>1
    <2> QED
        BY <2>1, <2>2, BehindIs
<1> HIDE DEF q
<1> QED
    BY <1>1, <1>2, <1>4, <1>5

LEMMA MissingIs ==
    ASSUME lists \in Seq(Asked), NEW r \in ListRows, Missing(r)
    PROVE  /\ lists' \in Seq(Asked)
           /\ Len(lists') = Len(lists)
           /\ \A i \in DOMAIN lists :
                  /\ lists'[i].stage = lists[i].stage /\ lists'[i].got = lists[i].got
                  /\ lists'[i].late = lists[i].late
                  /\ lists[i].stage = "answered" =>
                         lists'[i].missed = lists[i].missed \cup {r}
<1> DEFINE q == [i \in DOMAIN lists |-> IF lists[i].stage = "answered"
                                        THEN Misses(lists[i], r) ELSE lists[i]]
<1>1. lists' = q
    BY DEF Missing, Misses
<1>2. \A i \in DOMAIN lists : lists[i] \in Asked
    OBVIOUS
<1>3. \A i \in DOMAIN lists :
          (IF lists[i].stage = "answered" THEN Misses(lists[i], r) ELSE lists[i]) \in Asked
    BY <1>2, MissesIs
<1>4. q \in Seq(Asked) /\ Len(q) = Len(lists)
    BY <1>3
<1>5. \A i \in DOMAIN lists : q[i] = IF lists[i].stage = "answered"
                                     THEN Misses(lists[i], r) ELSE lists[i]
    OBVIOUS
<1> HIDE DEF q
<1> QED
    BY <1>1, <1>2, <1>4, <1>5, MissesIs

LEMMA LoadListIs ==
    ASSUME lists \in Seq(Asked), LoadList
    PROVE  /\ lists' \in Seq(Asked) /\ lists' # <<>>
           /\ lists'[Len(lists')].stage = "asked"
BY NewListIs DEF LoadList

\* The last list of the queue is one of those that were asked for.
LEMMA LastIsAsked ==
    ASSUME lists \in Seq(Asked), lists # <<>>
    PROVE  Len(lists) \in DOMAIN lists /\ lists[Len(lists)] \in Asked
OBVIOUS
-----------------------------------------------------------------------------
LEMMA AnswerListStep ==
    ASSUME ListsInv, NEW i, AnswerList(i)
    PROVE  ListsInv'
<1> USE DEF ListsInv, ListTypeOK
<1>k. /\ UNCHANGED <<stored, shown, edit, pendingRemoval, rowBusy, removalBusy, changes,
                     unshown>>
      /\ i \in DOMAIN lists
    BY DEF AnswerList
<1>1. /\ lists' = [lists EXCEPT ![i] = ReadAs(lists[i], stored)]
    BY DEF AnswerList, ReadAs
<1>2. lists[i] \in Asked /\ ReadAs(lists[i], stored) \in Asked
      /\ ReadAs(lists[i], stored).got = stored
    BY <1>k, ReadAsIs
<1>3. /\ lists' \in Seq(Asked) /\ Len(lists') = Len(lists)
      /\ lists'[i] = ReadAs(lists[i], stored)
      /\ \A j \in DOMAIN lists : j # i => lists'[j] = lists[j]
    BY <1>k, <1>1, <1>2
<1>4. ListTypeOK'
    BY <1>k, <1>3
<1>5. lists # <<>> /\ lists' # <<>>
    BY <1>k, <1>3
<1>6. ListRight(lists[Len(lists)])'
    BY <1>k, <1>2, <1>3, <1>5, LastIsAsked DEF LastRight, ListRight, RowRight
<1> QED
    BY <1>4, <1>5, <1>6 DEF LastRight

LEMMA ListArrivesStep ==
    ASSUME ListsInv, NEW i, ListArrives(i)
    PROVE  ListsInv'
<1> USE DEF ListsInv, ListTypeOK
<1>k. /\ UNCHANGED <<stored, edit, pendingRemoval, rowBusy, removalBusy, changes>>
      /\ i \in DOMAIN lists /\ lists[i].stage = "answered" /\ shown' = lists[i].got
      /\ unshown' = IF lists[i].late THEN ListRows ELSE lists[i].missed
      /\ WithoutList(i)
    BY DEF ListArrives
<1>1. lists[i] \in Asked
    BY <1>k
<1>2. /\ lists' \in Seq(Asked)
      /\ Len(lists) = 1 => (i = 1 /\ lists' = <<>>)
      /\ Len(lists) > 1 => /\ lists' # <<>>
                           /\ \/ lists'[Len(lists')] = lists[Len(lists)]
                              \/ lists'[Len(lists')].late
    BY <1>k, WithoutListIs
<1>3. ListTypeOK'
    BY <1>k, <1>1, <1>2 DEF Asked
<1>4. Len(lists) \in Nat \ {0} /\ lists # <<>>
    BY <1>k
<1>5. CASE Len(lists) = 1
    <2>1. lists' = <<>> /\ ListRight(lists[i])
        BY <1>2, <1>4, <1>5 DEF LastRight
    <2>2. \A r \in ListRows : RowRight(shown, unshown, r)'
        BY <1>k, <2>1 DEF ListRight, RowRight
    <2> QED
        BY <1>3, <2>1, <2>2 DEF LastRight
<1>6. CASE Len(lists) > 1
    <2>1. ListRight(lists[Len(lists)])'
        BY <1>k, <1>2, <1>4, <1>6 DEF LastRight, ListRight, RowRight
    <2> QED
        BY <1>2, <1>3, <1>6, <2>1 DEF LastRight
<1>7. Len(lists) = 1 \/ Len(lists) > 1
    BY <1>4
<1> HIDE DEF ListsInv, ListTypeOK
<1> QED
    BY <1>5, <1>6, <1>7

LEMMA ListFailsStep ==
    ASSUME ListsInv, NEW i, ListFails(i)
    PROVE  ListsInv'
<1> USE DEF ListsInv, ListTypeOK
<1>k. /\ UNCHANGED <<stored, shown, edit, pendingRemoval, rowBusy, removalBusy, changes>>
      /\ i \in DOMAIN lists /\ unshown' = ListRows /\ WithoutList(i)
    BY DEF ListFails
<1>2. /\ lists' \in Seq(Asked)
      /\ Len(lists) = 1 => (i = 1 /\ lists' = <<>>)
      /\ Len(lists) > 1 => /\ lists' # <<>>
                           /\ \/ lists'[Len(lists')] = lists[Len(lists)]
                              \/ lists'[Len(lists')].late
    BY <1>k, WithoutListIs
<1>3. ListTypeOK'
    BY <1>k, <1>2
<1>4. Len(lists) \in Nat \ {0} /\ lists # <<>>
    BY <1>k
<1>5. lists' = <<>> => \A r \in ListRows : RowRight(shown, unshown, r)'
    BY <1>k DEF RowRight
<1>6. ASSUME lists' # <<>> PROVE ListRight(lists[Len(lists)])'
    <2>1. Len(lists) > 1
        <3> HIDE DEF ListsInv, ListTypeOK
        <3>1. Len(lists) = 1 \/ Len(lists) > 1
            BY <1>4
        <3> QED
            BY <1>2, <1>6, <3>1
    <2> QED
        BY <1>k, <1>2, <1>4, <2>1 DEF LastRight, ListRight, RowRight
<1> QED
    BY <1>3, <1>5, <1>6 DEF LastRight

\* What the page opens, types and closes leaves rows, lists and requests alone.
LEMMA PageOnlyStep ==
    ASSUME ListsInv, UNCHANGED <<stored, shown, lists, unshown>>, ListTypeOK',
           \A c \in changes : c.stage = "done" => c \in changes'
    PROVE  ListsInv'
<1>1. LastRight'
    BY DEF ListsInv, LastRight, ListRight, RowRight
<1> QED
    BY <1>1 DEF ListsInv

LEMMA SendChangeIs ==
    ASSUME changes \subseteq Change, NEW k \in {"create", "save", "remove"},
           NEW r \in ListRows, NEW name \in Names \cup {Gone}, SendChange(k, r, name)
    PROVE  changes' \subseteq Change /\ changes \subseteq changes'
BY DEF SendChange, Change

LEMMA PageSteps ==
    ASSUME ListsInv,
           \/ \E r \in ListRows, name \in Names : StartEdit(r, name) \/ CreateRow(r, name)
           \/ \E r \in ListRows : RequestRemove(r)
           \/ CancelEdit \/ SaveEdit \/ DismissRemoval \/ ConfirmRemove
    PROVE  ListsInv'
<1> USE DEF ListsInv, ListTypeOK
<1>1. ASSUME NEW r \in ListRows, NEW name \in Names, StartEdit(r, name) PROVE ListsInv'
    BY <1>1, PageOnlyStep DEF StartEdit
<1>2. ASSUME NEW r \in ListRows, NEW name \in Names, CreateRow(r, name) PROVE ListsInv'
    <2>1. changes' \subseteq Change /\ changes \subseteq changes'
        BY <1>2, SendChangeIs DEF CreateRow
    <2> QED
        BY <1>2, <2>1, PageOnlyStep DEF CreateRow
<1>3. ASSUME NEW r \in ListRows, RequestRemove(r) PROVE ListsInv'
    BY <1>3, PageOnlyStep DEF RequestRemove
<1>4. ASSUME CancelEdit PROVE ListsInv'
    BY <1>4, PageOnlyStep DEF CancelEdit, NoEdit
<1>5. ASSUME SaveEdit PROVE ListsInv'
    <2>1. edit.row \in ListRows /\ edit.typed \in Names \cup {Gone}
        BY <1>5 DEF SaveEdit
    <2>2. changes' \subseteq Change /\ changes \subseteq changes'
        BY <1>5, <2>1, SendChangeIs DEF SaveEdit
    <2> QED
        BY <1>5, <2>1, <2>2, PageOnlyStep DEF SaveEdit
<1>6. ASSUME DismissRemoval PROVE ListsInv'
    BY <1>6, PageOnlyStep DEF DismissRemoval
<1>7. ASSUME ConfirmRemove PROVE ListsInv'
    <2>1. pendingRemoval \in ListRows
        BY <1>7 DEF ConfirmRemove
    <2>2. changes' \subseteq Change /\ changes \subseteq changes'
        BY <1>7, <2>1, SendChangeIs DEF ConfirmRemove
    <2> QED
        BY <1>7, <2>2, PageOnlyStep DEF ConfirmRemove
<1> HIDE DEF ListsInv, ListTypeOK
<1> QED
    BY <1>1, <1>2, <1>3, <1>4, <1>5, <1>6, <1>7

\* A row that changes is one the page is about to ask for again.
LEMMA ApplyStep ==
    ASSUME ListsInv, NEW c \in changes, Apply(c)
    PROVE  ListsInv'
<1> USE DEF ListsInv, ListTypeOK
<1>k. UNCHANGED <<shown, edit, pendingRemoval, rowBusy, removalBusy, lists, unshown>>
      /\ c.stage = "sent" /\ c \in Change /\ c.row \in ListRows
      /\ c.name \in Names \cup {Gone}
    BY DEF Apply, Change
<1>1. CASE stored' = stored /\ changes' = (changes \ {c}) \cup {Marked(c, "refused")}
    <2>1. Marked(c, "refused") \in Change
        BY <1>k, MarkedIs
    <2>2. ListTypeOK'
        BY <1>k, <1>1, <2>1
    <2> QED
        BY <1>k, <1>1, <2>2, PageOnlyStep
<1>2. CASE /\ stored' = [stored EXCEPT ![c.row] = c.name]
           /\ changes' = (changes \ {c}) \cup {Marked(c, "done")}
    <2>1. /\ Marked(c, "done") \in Change /\ Marked(c, "done").row = c.row
          /\ Marked(c, "done").stage = "done"
        BY <1>k, MarkedIs
    <2>2. /\ stored' \in List /\ \A r \in ListRows \ {c.row} : stored'[r] = stored[r]
        BY <1>k, <1>2 DEF List
    <2>3. ListTypeOK'
        BY <1>k, <1>2, <2>1, <2>2
    <2>4. ASSUME NEW list, NEW excused, NEW r \in ListRows, RowRight(list, excused, r)
          PROVE  \/ list[r] = stored'[r]
                 \/ r \in excused
                 \/ \E d \in changes' : d.stage = "done" /\ d.row = r
        BY <1>k, <1>2, <2>1, <2>2, <2>4 DEF RowRight
    <2>r. LastRight /\ UNCHANGED <<shown, lists, unshown>>
        BY <1>k
    <2> HIDE DEF ListsInv, ListTypeOK
    <2>5. ASSUME lists' = <<>>, NEW r \in ListRows PROVE RowRight(shown, unshown, r)'
        <3>1. RowRight(shown, unshown, r)
            BY <2>r, <2>5 DEF LastRight
        <3> QED
            BY <2>r, <2>4, <3>1 DEF RowRight
    <2>6. ASSUME lists' # <<>> PROVE ListRight(lists[Len(lists)])'
        <3> DEFINE l == lists[Len(lists)]
        <3>1. l' = l /\ ListRight(l)
            BY <2>r, <2>6 DEF LastRight
        <3> HIDE DEF l
        <3>2. ASSUME l.stage = "answered", ~l.late, NEW r \in ListRows
              PROVE  RowRight(l.got, l.missed, r)'
            <4>1. RowRight(l.got, l.missed, r)
                BY <3>1, <3>2 DEF ListRight
            <4> QED
                BY <3>1, <2>4, <4>1 DEF RowRight
        <3>3. ListRight(l)'
            BY <3>1, <3>2 DEF ListRight
        <3> QED
            BY <3>3 DEF l
    <2> QED
        BY <2>3, <2>5, <2>6 DEF LastRight, ListsInv
<1> QED
    BY <1>1, <1>2 DEF Apply, Marked

LEMMA SucceededStep ==
    ASSUME ListsInv, NEW c \in changes, Succeeded(c)
    PROVE  ListsInv'
<1> USE DEF ListsInv, ListTypeOK
<1>1. /\ lists' \in Seq(Asked) /\ lists' # <<>>
      /\ lists'[Len(lists')].stage = "asked"
    BY LoadListIs DEF Succeeded
<1>2. ListTypeOK'
    BY <1>1 DEF Succeeded, Closes, Enables, NoEdit
<1>3. ListRight(lists[Len(lists)])'
    BY <1>1 DEF ListRight
<1> QED
    BY <1>1, <1>2, <1>3 DEF LastRight

\* A change whose answer is lost, or another administrator's, is excused everywhere.
LEMMA ExcusedStep ==
    ASSUME ListsInv, NEW r \in ListRows,
           shown' = shown, unshown' = unshown \cup {r}, Missing(r),
           \A s \in ListRows \ {r} : stored'[s] = stored[s],
           \A c \in changes : c.row # r => c \in changes',
           changes' \subseteq changes, ListTypeOK'
    PROVE  ListsInv'
<1>1. /\ Len(lists') = Len(lists)
      /\ \A i \in DOMAIN lists :
             /\ lists'[i].stage = lists[i].stage /\ lists'[i].got = lists[i].got
             /\ lists'[i].late = lists[i].late
             /\ lists[i].stage = "answered" => lists'[i].missed = lists[i].missed \cup {r}
    BY MissingIs DEF ListsInv, ListTypeOK
<1>2. ASSUME NEW list, NEW excused, NEW s \in ListRows, RowRight(list, excused, s)
      PROVE  \/ list[s] = stored'[s]
             \/ s \in excused \cup {r}
             \/ \E d \in changes' : d.stage = "done" /\ d.row = s
    BY <1>2 DEF RowRight
<1>3. lists' = <<>> <=> lists = <<>>
    BY <1>1 DEF ListsInv, ListTypeOK
<1>4. lists' = <<>> => \A s \in ListRows : RowRight(shown, unshown, s)'
    BY <1>2, <1>3 DEF ListsInv, LastRight, RowRight
<1>5. lists # <<>> => Len(lists) \in DOMAIN lists
    BY LastIsAsked DEF ListsInv, ListTypeOK
<1>6. lists' # <<>> => ListRight(lists[Len(lists)])'
    BY <1>1, <1>2, <1>3, <1>5 DEF ListsInv, LastRight, ListRight, RowRight
<1> QED
    BY <1>4, <1>6 DEF ListsInv, LastRight

LEMMA FailedStep ==
    ASSUME ListsInv, NEW c \in changes, Failed(c)
    PROVE  ListsInv'
<1> USE DEF ListsInv, ListTypeOK
<1>1. c.row \in ListRows
    BY DEF Change
<1>2. /\ UNCHANGED <<stored, shown, edit, pendingRemoval>> /\ changes' = changes \ {c}
      /\ rowBusy' \in ListRows \cup {Gone} /\ removalBusy' \in BOOLEAN
    BY DEF Failed, Enables
<1>3. CASE c.stage = "done"
    <2>1. unshown' = unshown \cup {c.row} /\ Missing(c.row)
        BY <1>3 DEF Failed
    <2>2. lists' \in Seq(Asked)
        BY <1>1, <2>1, MissingIs
    <2>3. ListTypeOK'
        BY <1>1, <1>2, <2>1, <2>2
    <2> HIDE DEF ListTypeOK
    <2> QED
        BY <1>1, <1>2, <2>1, <2>3, ExcusedStep
<1>4. CASE c.stage # "done"
    <2>1. UNCHANGED <<unshown, lists>>
        BY <1>4 DEF Failed
    <2>2. ListTypeOK'
        BY <1>2, <2>1
    <2> HIDE DEF ListTypeOK
    <2> QED
        BY <1>2, <1>4, <2>1, <2>2, PageOnlyStep
<1> QED
    BY <1>3, <1>4

LEMMA ElsewhereStep ==
    ASSUME ListsInv, NEW r \in ListRows, NEW name \in Names \cup {Gone}, Elsewhere(r, name)
    PROVE  ListsInv'
<1> USE DEF ListsInv, ListTypeOK
<1>1. /\ UNCHANGED <<shown, edit, pendingRemoval, rowBusy, removalBusy, changes>>
      /\ unshown' = unshown \cup {r} /\ Missing(r)
    BY DEF Elsewhere
<1>2. stored' \in List /\ \A s \in ListRows \ {r} : stored'[s] = stored[s]
    BY DEF Elsewhere, List
<1>3. lists' \in Seq(Asked)
    BY <1>1, MissingIs
<1>4. ListTypeOK'
    BY <1>1, <1>2, <1>3
<1> HIDE DEF ListTypeOK
<1> QED
    BY <1>1, <1>2, <1>4, ExcusedStep

\* The list asked for last, or the one on the screen if none is awaited, has the
\* estate's rows, but for the excused ones and those the page is about to ask for
\* again; a list that comes behind a later one is known to (the three page.tsx).
THEOREM ListsInvariant == ListSpec => []ListsInv
<1>1. ListInit => ListsInv
    <2> SUFFICES ASSUME ListInit PROVE ListsInv
        OBVIOUS
    <2>1. lists \in Seq(Asked) /\ lists # <<>> /\ lists[Len(lists)].stage = "asked"
        BY NewListIs DEF ListInit
    <2>2. ListTypeOK
        BY <2>1 DEF ListInit, ListTypeOK, List, NoEdit
    <2> QED
        BY <2>1, <2>2 DEF ListsInv, LastRight, ListRight
<1>2. ASSUME ListsInv, ListNext PROVE ListsInv'
    <2>1. CASE \E i \in 1..MaxLists : AnswerList(i)
        BY <1>2, <2>1, AnswerListStep
    <2>2. CASE \E i \in 1..MaxLists : ListArrives(i)
        BY <1>2, <2>2, ListArrivesStep
    <2>3. CASE \E i \in 1..MaxLists : ListFails(i)
        BY <1>2, <2>3, ListFailsStep
    <2>4. CASE \/ \E r \in ListRows, name \in Names : StartEdit(r, name) \/ CreateRow(r, name)
               \/ \E r \in ListRows : RequestRemove(r)
               \/ CancelEdit \/ SaveEdit \/ DismissRemoval \/ ConfirmRemove
        BY <1>2, <2>4, PageSteps
    <2>5. CASE \E r \in ListRows, name \in Names \cup {Gone} : Elsewhere(r, name)
        BY <1>2, <2>5, ElsewhereStep
    <2>6. CASE \E c \in changes : Apply(c)
        BY <1>2, <2>6, ApplyStep
    <2>7. CASE \E c \in changes : Succeeded(c)
        BY <1>2, <2>7, SucceededStep
    <2>8. CASE \E c \in changes : Failed(c)
        BY <1>2, <2>8, FailedStep
    <2> QED
        BY <1>2, <2>1, <2>2, <2>3, <2>4, <2>5, <2>6, <2>7, <2>8 DEF ListNext
<1>3. ListsInv /\ UNCHANGED listVars => ListsInv'
    BY DEF listVars, ListsInv, ListTypeOK, LastRight, ListRight, RowRight
<1> QED
    BY <1>1, <1>2, <1>3, PTL DEF ListSpec

\* With nothing under way an administrator's list is the estate's but for the excused
\* rows, for every number of rows, lists and changes.
THEOREM ScreenIsTheEstate == ListSpec => []OwnChangesShown
<1>1. ListsInv => OwnChangesShown
    BY DEF ListsInv, LastRight, RowRight, OwnChangesShown
<1> QED
    BY <1>1, ListsInvariant, PTL
-----------------------------------------------------------------------------
(* Messages.  What a page owes its officer is on it, on its way or excused   *)
(* once its own request was answered.                                        *)

\* What an officer's request in hand is about.
PostFits(w) ==
    LET p == sending[w] IN
    /\ p.stage = "none" <=> p.text = NoText
    /\ p.text \in typed \cup {NoText}
    /\ device[w].draft \in typed \cup {NoText}
    /\ p.stage = "left" => p.text \in overtyped
    /\ p.stage = "saved" => p.id \in DOMAIN saved /\ saved[p.id].text = p.text

Owed(w) == IF device[w].at = "thread" THEN DOMAIN saved ELSE To(w) \ readAt

\* What a page owes and was answered without is there, excused or on its way.
Covered(w) ==
    /\ device[w].loading # "asked" =>
           Owed(w) \subseteq device[w].has \cup device[w].got \cup slipped[w] \cup Range(news[w])
    /\ device[w].loading \in {"done", "failed"} => device[w].got = {}

MessagesInv ==
    /\ MessagesTypeOK
    /\ WrittenIsKept
    /\ \A w \in Writers : PostFits(w) /\ Covered(w)

-----------------------------------------------------------------------------
LEMMA RangeOfAppend ==
    ASSUME NEW S, NEW s \in Seq(S), NEW e
    PROVE  Range(Append(s, e)) = Range(s) \cup {e}
<1>1. /\ DOMAIN Append(s, e) = 1..Len(s) + 1
      /\ \A i \in 1..Len(s) : Append(s, e)[i] = s[i]
      /\ Append(s, e)[Len(s) + 1] = e
      /\ DOMAIN s = 1..Len(s) /\ Len(s) \in Nat
    OBVIOUS
<1>2. \A i \in 1..Len(s) + 1 : i \in 1..Len(s) \/ i = Len(s) + 1
    BY <1>1
<1>3. Len(s) + 1 \in 1..Len(s) + 1 /\ \A i \in 1..Len(s) : i \in 1..Len(s) + 1
    BY <1>1
<1> QED
    BY <1>1, <1>2, <1>3 DEF Range

LEMMA RangeOfTail ==
    ASSUME NEW S, NEW s \in Seq(S), s # <<>>
    PROVE  Range(s) = Range(Tail(s)) \cup {Head(s)}
<1> DEFINE n == Len(s)
<1>1. /\ n \in Nat \ {0} /\ DOMAIN s = 1..n
      /\ DOMAIN Tail(s) = 1..n - 1
      /\ \A i \in 1..n - 1 : Tail(s)[i] = s[i + 1]
      /\ Head(s) = s[1]
    OBVIOUS
<1>2. /\ \A i \in 1..n - 1 : i + 1 \in 1..n
      /\ \A i \in 1..n : i = 1 \/ (i - 1 \in 1..n - 1 /\ (i - 1) + 1 = i)
      /\ 1 \in 1..n
    BY <1>1
<1> HIDE DEF n
<1>3. \A x \in Range(s) : x \in Range(Tail(s)) \cup {Head(s)}
    <2> SUFFICES ASSUME NEW i \in 1..n PROVE s[i] \in Range(Tail(s)) \cup {Head(s)}
        BY <1>1 DEF Range
    <2>1. CASE i = 1
        BY <1>1, <2>1
    <2>2. CASE i - 1 \in 1..n - 1 /\ (i - 1) + 1 = i
        <3>1. Tail(s)[i - 1] = s[i]
            BY <1>1, <2>2
        <3> QED
            BY <1>1, <2>2, <3>1 DEF Range
    <2> QED
        BY <1>2, <2>1, <2>2
<1>4. \A x \in Range(Tail(s)) : x \in Range(s)
    BY <1>1, <1>2 DEF Range
<1>5. Head(s) \in Range(s)
    BY <1>1, <1>2 DEF Range
<1> QED
    BY <1>3, <1>4, <1>5

LEMMA OnlyTwo ==
    ASSUME NEW w \in Writers
    PROVE  /\ Other(w) \in Writers \ {w}
           /\ \A v \in Writers : v = w \/ v = Other(w)
BY WritersAssumption DEF Other
-----------------------------------------------------------------------------
\* A page whose own request has moved on, and one that shows its answer.
PageLoaded(d, l, g) == [[d EXCEPT !.loading = l] EXCEPT !.got = g]
Showing(d) == [[[d EXCEPT !.loading = "done"] EXCEPT !.has = d.got] EXCEPT !.got = {}]

LEMMA LoadedIs ==
    ASSUME NEW d \in DeviceRow, NEW l \in {"asked", "answered", "done", "failed"},
           NEW g \in SUBSET Nat
    PROVE  /\ PageLoaded(d, l, g) \in DeviceRow
           /\ PageLoaded(d, l, g).at = d.at /\ PageLoaded(d, l, g).loading = l
           /\ PageLoaded(d, l, g).got = g /\ PageLoaded(d, l, g).has = d.has
           /\ PageLoaded(d, l, g).draft = d.draft
<1> DEFINE e == [at |-> d.at, loading |-> l, got |-> d.got, has |-> d.has, draft |-> d.draft]
           f == [at |-> d.at, loading |-> l, got |-> g, has |-> d.has, draft |-> d.draft]
<1>1. [d EXCEPT !.loading = l] = e
    BY DEF DeviceRow
<1>2. [e EXCEPT !.got = g] = f
    OBVIOUS
<1>3. PageLoaded(d, l, g) = f
    BY <1>1, <1>2 DEF PageLoaded
<1> QED
    BY <1>3 DEF DeviceRow

LEMMA ShowingIs ==
    ASSUME NEW d \in DeviceRow
    PROVE  /\ Showing(d) \in DeviceRow
           /\ Showing(d).at = d.at /\ Showing(d).loading = "done"
           /\ Showing(d).got = {} /\ Showing(d).has = d.got
           /\ Showing(d).draft = d.draft
<1> DEFINE e == [at |-> d.at, loading |-> "done", got |-> d.got, has |-> d.has,
                 draft |-> d.draft]
           f == [at |-> d.at, loading |-> "done", got |-> d.got, has |-> d.got,
                 draft |-> d.draft]
           g == [at |-> d.at, loading |-> "done", got |-> {}, has |-> d.got,
                 draft |-> d.draft]
<1>1. [d EXCEPT !.loading = "done"] = e
    BY DEF DeviceRow
<1>2. [e EXCEPT !.has = d.got] = f
    OBVIOUS
<1>3. [f EXCEPT !.got = {}] = g
    OBVIOUS
<1>4. Showing(d) = g
    BY <1>1, <1>2, <1>3 DEF Showing
<1> QED
    BY <1>4 DEF DeviceRow

\* A message that is saved before its page hears of it.
Stored(p, id) == [stage |-> "saved", text |-> p.text, id |-> id]

LEMMA StoredIs ==
    ASSUME NEW p \in Post, NEW id \in Nat
    PROVE  /\ Stored(p, id) \in Post
           /\ [[p EXCEPT !.stage = "saved"] EXCEPT !.id = id] = Stored(p, id)
<1> DEFINE e == [stage |-> "saved", text |-> p.text, id |-> p.id]
<1>1. [p EXCEPT !.stage = "saved"] = e
    BY DEF Post
<1>2. [e EXCEPT !.id = id] = Stored(p, id)
    BY DEF Stored
<1>3. Stored(p, id) \in Post
    BY DEF Stored, Post
<1> HIDE DEF e
<1> QED
    BY <1>1, <1>2, <1>3
-----------------------------------------------------------------------------
\* An officer the step is not about.
LEMMA Unmoved ==
    ASSUME MessagesInv, NEW v \in Writers,
           sending'[v] = sending[v], device'[v] = device[v], news'[v] = news[v],
           slipped'[v] = slipped[v], saved' = saved, readAt \subseteq readAt',
           typed \subseteq typed', overtyped \subseteq overtyped'
    PROVE  (PostFits(v) /\ Covered(v))'
BY DEF MessagesInv, PostFits, Covered, Owed, To

\* A request in hand the step is not about.
LEMMA PostUnmoved ==
    ASSUME MessagesInv, NEW w \in Writers,
           sending'[w] = sending[w], device'[w].draft = device[w].draft, saved' = saved,
           typed \subseteq typed', overtyped \subseteq overtyped'
    PROVE  PostFits(w)'
BY DEF MessagesInv, PostFits

\* A step that touches nothing written.
LEMMA WrittenUnmoved ==
    ASSUME MessagesInv, saved' = saved, typed' = typed, overtyped' = overtyped,
           \A w \in Writers : /\ sending'[w].text = sending[w].text
                              /\ device'[w].draft = device[w].draft
    PROVE  WrittenIsKept'
BY DEF MessagesInv, WrittenIsKept

\* A page that is told something, or shows it.
LEMMA PageStep ==
    ASSUME MessagesInv, NEW w \in Writers,
           UNCHANGED <<saved, sending, typed, overtyped, reached>>,
           readAt' \subseteq DOMAIN saved, readAt \subseteq readAt',
           news' \in [Writers -> Seq(Nat)], device' \in [Writers -> DeviceRow],
           marks' \in [Writers -> BOOLEAN], slipped' \in [Writers -> SUBSET Nat],
           device'[w].draft = device[w].draft,
           \A v \in Writers \ {w} : /\ news'[v] = news[v] /\ device'[v] = device[v]
                                    /\ slipped'[v] = slipped[v],
           Covered(w)'
    PROVE  MessagesInv'
<1>1. MessagesTypeOK'
    BY DEF MessagesInv, MessagesTypeOK
<1>2. WrittenIsKept'
    BY WrittenUnmoved
<1>3. PostFits(w)'
    BY PostUnmoved
<1>4. \A v \in Writers \ {w} : (PostFits(v) /\ Covered(v))'
    BY Unmoved
<1> QED
    BY <1>1, <1>2, <1>3, <1>4 DEF MessagesInv

LEMMA PageReadStep ==
    ASSUME MessagesInv, NEW w \in Writers, PageRead(w)
    PROVE  MessagesInv'
<1> USE DEF PageRead
<1> DEFINE got == IF device[w].at = "list" THEN UnreadFor(w) ELSE ThreadOf
<1>t. MessagesTypeOK
    BY DEF MessagesInv
<1>1. got \subseteq Nat /\ got = Owed(w)
    BY <1>t DEF MessagesTypeOK, DeviceRow, Owed, UnreadFor, ThreadOf, To
<1>2. device' = [device EXCEPT ![w] = PageLoaded(device[w], "answered", got)]
    BY <1>t DEF MessagesTypeOK, PageLoaded
<1> HIDE DEF got
<1>3. /\ device' \in [Writers -> DeviceRow]
      /\ device'[w].at = device[w].at /\ device'[w].loading = "answered"
      /\ device'[w].got = got /\ device'[w].has = device[w].has
      /\ device'[w].draft = device[w].draft
      /\ \A v \in Writers \ {w} : device'[v] = device[v]
    <2>1. device[w] \in DeviceRow /\ got \in SUBSET Nat
        BY <1>t, <1>1 DEF MessagesTypeOK
    <2> DEFINE e == PageLoaded(device[w], "answered", got)
    <2>2. /\ e \in DeviceRow
          /\ e.at = device[w].at /\ e.loading = "answered" /\ e.got = got
          /\ e.has = device[w].has /\ e.draft = device[w].draft
        BY <2>1, LoadedIs
    <2>3. device' = [device EXCEPT ![w] = e]
        BY <1>2
    <2> HIDE DEF e
    <2> QED
        BY <1>t, <2>2, <2>3 DEF MessagesTypeOK
<1>4. Covered(w)'
    BY <1>1, <1>3 DEF Covered, Owed, To
<1> QED
    BY <1>t, <1>3, <1>4, PageStep DEF MessagesTypeOK

LEMMA PageShowsStep ==
    ASSUME MessagesInv, NEW w \in Writers, PageShows(w)
    PROVE  MessagesInv'
<1> USE DEF PageShows
<1>t. MessagesTypeOK
    BY DEF MessagesInv
<1>2. device' = [device EXCEPT ![w] = Showing(device[w])]
    BY <1>t DEF MessagesTypeOK, Showing
<1>3. /\ device' \in [Writers -> DeviceRow]
      /\ device'[w].at = device[w].at /\ device'[w].loading = "done"
      /\ device'[w].got = {} /\ device'[w].has = device[w].got
      /\ device'[w].draft = device[w].draft
      /\ \A v \in Writers \ {w} : device'[v] = device[v]
    <2>1. device[w] \in DeviceRow
        BY <1>t DEF MessagesTypeOK
    <2> DEFINE e == Showing(device[w])
    <2>2. /\ e \in DeviceRow
          /\ e.at = device[w].at /\ e.loading = "done" /\ e.got = {}
          /\ e.has = device[w].got /\ e.draft = device[w].draft
        BY <2>1, ShowingIs
    <2>3. device' = [device EXCEPT ![w] = e]
        BY <1>2
    <2> HIDE DEF e
    <2> QED
        BY <1>t, <2>2, <2>3 DEF MessagesTypeOK
<1>4. /\ slipped' \in [Writers -> SUBSET Nat]
      /\ slipped'[w] = (slipped[w] \cup device[w].has) \ device[w].got
      /\ \A v \in Writers \ {w} : slipped'[v] = slipped[v]
    BY <1>t DEF MessagesTypeOK, DeviceRow
<1>5. Covered(w)'
    BY <1>3, <1>4 DEF MessagesInv, Covered, Owed, To
<1> QED
    BY <1>t, <1>3, <1>4, <1>5, PageStep DEF MessagesTypeOK

LEMMA PageFailsStep ==
    ASSUME MessagesInv, NEW w \in Writers, PageFails(w)
    PROVE  MessagesInv'
<1> USE DEF PageFails
<1>t. MessagesTypeOK
    BY DEF MessagesInv
<1>2. device' = [device EXCEPT ![w] = PageLoaded(device[w], "failed", {})]
    BY <1>t DEF MessagesTypeOK, PageLoaded
<1>3. /\ device' \in [Writers -> DeviceRow]
      /\ device'[w].at = device[w].at /\ device'[w].got = {}
      /\ device'[w].draft = device[w].draft
      /\ \A v \in Writers \ {w} : device'[v] = device[v]
    <2>1. device[w] \in DeviceRow /\ {} \in SUBSET Nat
        BY <1>t DEF MessagesTypeOK
    <2> DEFINE e == PageLoaded(device[w], "failed", {})
    <2>2. /\ e \in DeviceRow
          /\ e.at = device[w].at /\ e.loading = "failed" /\ e.got = {}
          /\ e.has = device[w].has /\ e.draft = device[w].draft
        BY <2>1, LoadedIs
    <2>3. device' = [device EXCEPT ![w] = e]
        BY <1>2
    <2> HIDE DEF e
    <2> QED
        BY <1>t, <2>2, <2>3 DEF MessagesTypeOK
<1>4. /\ slipped' \in [Writers -> SUBSET Nat]
      /\ slipped'[w] = slipped[w] \cup DOMAIN saved
      /\ \A v \in Writers \ {w} : slipped'[v] = slipped[v]
    BY <1>t DEF MessagesTypeOK
<1>5. Covered(w)'
    BY <1>3, <1>4 DEF MessagesInv, Covered, Owed, To
<1> QED
    BY <1>t, <1>3, <1>4, <1>5, PageStep DEF MessagesTypeOK

LEMMA HandleNewStep ==
    ASSUME MessagesInv, NEW w \in Writers, HandleNew(w)
    PROVE  MessagesInv'
<1> DEFINE id == Head(news[w])
           counted == device[w].at = "thread" \/ device[w].loading = "done"
<1>t. MessagesTypeOK
    BY DEF MessagesInv
<1>0. /\ UNCHANGED <<saved, readAt, reached, sending, typed, overtyped>> /\ news[w] # <<>>
      /\ news[w] \in Seq(Nat)
    BY <1>t DEF HandleNew, MessagesTypeOK
<1>1. id \in Nat /\ Tail(news[w]) \in Seq(Nat)
    BY <1>0
<1>2. /\ news' \in [Writers -> Seq(Nat)] /\ news'[w] = Tail(news[w])
      /\ \A v \in Writers \ {w} : news'[v] = news[v]
    BY <1>t, <1>1 DEF HandleNew, MessagesTypeOK
<1>3. /\ marks' \in [Writers -> BOOLEAN]
    BY <1>t DEF HandleNew, MessagesTypeOK
<1>4. /\ device' = [device EXCEPT ![w].has = IF counted THEN @ \cup {id} ELSE @]
      /\ slipped' = [slipped EXCEPT ![w] = IF counted THEN @ \ {id} ELSE @ \cup {id}]
    BY DEF HandleNew
<1>5. Range(news[w]) = Range(Tail(news[w])) \cup {id}
    BY <1>0, RangeOfTail
<1> HIDE DEF id, counted
<1>6. /\ device' \in [Writers -> DeviceRow]
      /\ device'[w].at = device[w].at /\ device'[w].loading = device[w].loading
      /\ device'[w].got = device[w].got /\ device'[w].draft = device[w].draft
      /\ device'[w].has = IF counted THEN device[w].has \cup {id} ELSE device[w].has
      /\ \A v \in Writers \ {w} : device'[v] = device[v]
    BY <1>t, <1>1, <1>4 DEF MessagesTypeOK, DeviceRow
<1>7. /\ slipped' \in [Writers -> SUBSET Nat]
      /\ slipped'[w] = IF counted THEN slipped[w] \ {id} ELSE slipped[w] \cup {id}
      /\ \A v \in Writers \ {w} : slipped'[v] = slipped[v]
    BY <1>t, <1>1, <1>4 DEF MessagesTypeOK
<1>8. Covered(w)'
    BY <1>0, <1>2, <1>5, <1>6, <1>7 DEF MessagesInv, Covered, Owed, To
<1> QED
    BY <1>t, <1>0, <1>2, <1>3, <1>6, <1>7, <1>8, PageStep DEF MessagesTypeOK

LEMMA MarkThreadReadStep ==
    ASSUME MessagesInv, NEW w \in Writers, MarkThreadRead(w)
    PROVE  MessagesInv'
<1>t. MessagesTypeOK
    BY DEF MessagesInv
<1>1. /\ UNCHANGED <<saved, reached, news, device, sending, typed, overtyped, slipped>>
      /\ readAt \subseteq readAt' /\ readAt' \subseteq DOMAIN saved
      /\ marks' \in [Writers -> BOOLEAN]
    BY <1>t DEF MarkThreadRead, MessagesTypeOK, To
<1>2. Covered(w)'
    BY <1>1, Unmoved
<1> QED
    BY <1>t, <1>1, <1>2, PageStep DEF MessagesTypeOK

LEMMA LineDropsStep ==
    ASSUME MessagesInv, NEW w \in Writers, LineDrops(w)
    PROVE  MessagesInv'
<1>t. MessagesTypeOK
    BY DEF MessagesInv
<1>1. UNCHANGED <<saved, readAt, device, marks, sending, typed, overtyped>>
      /\ reached' \subseteq Writers
    BY <1>t DEF LineDrops, MessagesTypeOK
<1>2. Range(news[w]) \subseteq Nat
    BY <1>t DEF Range, MessagesTypeOK
<1>3. /\ news' \in [Writers -> Seq(Nat)] /\ news'[w] = <<>>
      /\ \A v \in Writers \ {w} : news'[v] = news[v]
    BY <1>t DEF LineDrops, MessagesTypeOK
<1>4. /\ slipped' \in [Writers -> SUBSET Nat]
      /\ slipped'[w] = slipped[w] \cup Range(news[w])
      /\ \A v \in Writers \ {w} : slipped'[v] = slipped[v]
    BY <1>t, <1>2 DEF LineDrops, MessagesTypeOK
<1>5. Covered(w)'
    BY <1>1, <1>3, <1>4 DEF MessagesInv, Covered, Owed, To
<1>6. PostFits(w)' /\ WrittenIsKept'
    BY <1>1, PostUnmoved, WrittenUnmoved
<1>7. \A v \in Writers \ {w} : (PostFits(v) /\ Covered(v))'
    BY <1>1, <1>3, <1>4, Unmoved
<1>8. MessagesTypeOK'
    BY <1>t, <1>1, <1>3, <1>4 DEF MessagesTypeOK
<1> QED
    BY <1>5, <1>6, <1>7, <1>8 DEF MessagesInv

LEMMA LineIsBackStep ==
    ASSUME MessagesInv, NEW w \in Writers, LineIsBack(w)
    PROVE  MessagesInv'
<1> USE DEF LineIsBack
<1>1. MessagesTypeOK'
    BY DEF MessagesInv, MessagesTypeOK
<1>2. \A v \in Writers : (PostFits(v) /\ Covered(v))'
    BY Unmoved
<1>3. WrittenIsKept'
    BY WrittenUnmoved
<1> QED
    BY <1>1, <1>2, <1>3 DEF MessagesInv
-----------------------------------------------------------------------------
LEMMA WriteStep ==
    ASSUME MessagesInv, NEW w \in Writers, NEW t \in Texts, Write(w, t)
    PROVE  MessagesInv'
<1>t. MessagesTypeOK
    BY DEF MessagesInv
<1>0. /\ UNCHANGED <<saved, readAt, reached, news, marks, sending, overtyped, slipped>>
      /\ typed' = typed \cup {t} /\ device[w].draft = NoText
    BY DEF Write
<1>1. /\ device' \in [Writers -> DeviceRow]
      /\ device'[w].at = device[w].at /\ device'[w].loading = device[w].loading
      /\ device'[w].got = device[w].got /\ device'[w].has = device[w].has
      /\ device'[w].draft = t
      /\ \A v \in Writers \ {w} : device'[v] = device[v]
    BY <1>t DEF Write, MessagesTypeOK, DeviceRow
<1>2. MessagesTypeOK'
    BY <1>t, <1>0, <1>1 DEF MessagesTypeOK
<1>3. WrittenIsKept'
    <2> SUFFICES ASSUME NEW u \in typed' \ overtyped'
                 PROVE  \/ \E m \in DOMAIN saved : saved[m].text = u
                        \/ \E v \in Writers : u \in {device'[v].draft, sending[v].text}
        BY <1>0 DEF WrittenIsKept
    <2>1. CASE u = t
        BY <1>1, <2>1
    <2>2. CASE u # t
        <3>1. u \in typed \ overtyped /\ u # NoText
            BY <1>t, <1>0, <2>2, WritersAssumption DEF MessagesTypeOK
        <3> QED
            BY <1>0, <1>1, <3>1 DEF MessagesInv, WrittenIsKept
    <2> QED
        BY <2>1, <2>2
<1>4. PostFits(w)'
    BY <1>0, <1>1 DEF MessagesInv, PostFits
<1>5. Covered(w)'
    BY <1>0, <1>1 DEF MessagesInv, Covered, Owed, To
<1>6. \A v \in Writers \ {w} : (PostFits(v) /\ Covered(v))'
    BY <1>0, <1>1, Unmoved
<1> QED
    BY <1>2, <1>3, <1>4, <1>5, <1>6 DEF MessagesInv

LEMMA HandleSendStep ==
    ASSUME MessagesInv, NEW w \in Writers, HandleSend(w)
    PROVE  MessagesInv'
<1>t. MessagesTypeOK
    BY DEF MessagesInv
<1>0. /\ UNCHANGED <<saved, readAt, reached, news, marks, typed, overtyped, slipped>>
      /\ device[w].draft # NoText /\ sending[w].stage = "none"
      /\ device[w].draft \in Texts
    BY <1>t DEF HandleSend, MessagesTypeOK, DeviceRow
<1>1. /\ device' \in [Writers -> DeviceRow]
      /\ device'[w].at = device[w].at /\ device'[w].loading = device[w].loading
      /\ device'[w].got = device[w].got /\ device'[w].has = device[w].has
      /\ device'[w].draft = NoText
      /\ \A v \in Writers \ {w} : device'[v] = device[v]
    BY <1>t DEF HandleSend, MessagesTypeOK, DeviceRow
<1>2. /\ sending' \in [Writers -> Post]
      /\ sending'[w].stage = "asked" /\ sending'[w].text = device[w].draft
      /\ \A v \in Writers \ {w} : sending'[v] = sending[v]
    BY <1>t, <1>0 DEF HandleSend, MessagesTypeOK, Post
<1>3. MessagesTypeOK'
    BY <1>t, <1>0, <1>1, <1>2 DEF MessagesTypeOK
<1>4. sending[w].text = NoText
    BY <1>0 DEF MessagesInv, PostFits
<1>5. WrittenIsKept'
    <2> SUFFICES ASSUME NEW u \in typed \ overtyped
                 PROVE  \/ \E m \in DOMAIN saved : saved[m].text = u
                        \/ \E v \in Writers : u \in {device'[v].draft, sending'[v].text}
        BY <1>0 DEF WrittenIsKept
    <2>1. u # NoText
        BY <1>t, WritersAssumption DEF MessagesTypeOK
    <2> QED
        BY <1>1, <1>2, <1>4, <2>1 DEF MessagesInv, WrittenIsKept
<1>6. PostFits(w)'
    BY <1>0, <1>1, <1>2 DEF MessagesInv, PostFits
<1>7. Covered(w)'
    BY <1>0, <1>1 DEF MessagesInv, Covered, Owed, To
<1>8. \A v \in Writers \ {w} : (PostFits(v) /\ Covered(v))'
    BY <1>0, <1>1, <1>2, Unmoved
<1> QED
    BY <1>3, <1>5, <1>6, <1>7, <1>8 DEF MessagesInv

\* The line that is added is on its way to the other page or excused, and excused for
\* the page that wrote it until its answer is there.
LEMMA SendMessageStep ==
    ASSUME MessagesInv, NEW w \in Writers, SendMessage(w)
    PROVE  MessagesInv'
<1> DEFINE id == Len(saved) + 1   to == Other(w)
           line == [text |-> sending[w].text, from |-> w]
<1>t. MessagesTypeOK
    BY DEF MessagesInv
<1>0. /\ UNCHANGED <<readAt, reached, device, marks, typed, overtyped>>
      /\ sending[w].stage \in {"asked", "left"}
    BY DEF SendMessage
<1>1. sending[w].text \in Texts /\ line \in Saved
    BY <1>t, <1>0 DEF MessagesInv, PostFits, MessagesTypeOK, Post, Saved
<1>2. /\ saved' \in Seq(Saved) /\ id \in Nat
      /\ DOMAIN saved' = DOMAIN saved \cup {id} /\ id \notin DOMAIN saved
      /\ saved'[id] = line
      /\ \A m \in DOMAIN saved : saved'[m] = saved[m]
    BY <1>t, <1>1 DEF SendMessage, MessagesTypeOK
<1>3. to \in Writers \ {w} /\ \A v \in Writers : v = w \/ v = to
    BY OnlyTwo
<1>4. /\ sending' \in [Writers -> Post]
      /\ \A v \in Writers \ {w} : sending'[v] = sending[v]
      /\ sending[w].stage = "left" => sending'[w] = NoPost
      /\ sending[w].stage # "left" => /\ sending'[w].stage = "saved"
                                      /\ sending'[w].text = sending[w].text
                                      /\ sending'[w].id = id
    <2> DEFINE post == IF sending[w].stage = "left" THEN NoPost
                       ELSE [[sending[w] EXCEPT !.stage = "saved"] EXCEPT !.id = id]
    <2>1. sending' = [sending EXCEPT ![w] = post]
        BY <1>t DEF SendMessage, MessagesTypeOK
    <2>2. /\ post \in Post
          /\ sending[w].stage = "left" => post = NoPost
          /\ sending[w].stage # "left" => /\ post.stage = "saved"
                                          /\ post.text = sending[w].text /\ post.id = id
        <3>1. sending[w] \in Post
            BY <1>t DEF MessagesTypeOK
        <3>2. Stored(sending[w], id) \in Post
              /\ post = IF sending[w].stage = "left" THEN NoPost ELSE Stored(sending[w], id)
            BY <1>2, <3>1, StoredIs
        <3>3. NoPost \in Post
            BY DEF NoPost, Post
        <3> HIDE DEF post
        <3> QED
            BY <3>2, <3>3 DEF Stored
    <2> HIDE DEF post
    <2> QED
        BY <1>t, <2>1, <2>2 DEF MessagesTypeOK
<1>5. /\ news' \in [Writers -> Seq(Nat)] /\ slipped' \in [Writers -> SUBSET Nat]
      /\ \A v \in Writers : /\ Range(news[v]) \subseteq Range(news'[v])
                            /\ slipped[v] \subseteq slipped'[v]
                            /\ id \in slipped'[v] \/ id \in Range(news'[v])
    <2>1. news[to] \in Seq(Nat)
        BY <1>t, <1>3 DEF MessagesTypeOK
    <2>2. CASE to \in reached
        <3>1. /\ news' = [news EXCEPT ![to] = Append(@, id)]
              /\ slipped' = [slipped EXCEPT ![w] = @ \cup {id}]
            BY <2>2 DEF SendMessage
        <3>2. Range(Append(news[to], id)) = Range(news[to]) \cup {id}
            BY <2>1, RangeOfAppend
        <3>3. Append(news[to], id) \in Seq(Nat)
            BY <1>2, <2>1
        <3> HIDE DEF id, to
        <3> QED
            BY <1>t, <1>2, <1>3, <3>1, <3>2, <3>3 DEF MessagesTypeOK
    <2>3. CASE to \notin reached
        <3>1. /\ news' = news
              /\ slipped' = [v \in Writers |-> slipped[v] \cup {id}]
            BY <2>3 DEF SendMessage
        <3> HIDE DEF id, to
        <3> QED
            BY <1>t, <1>2, <3>1 DEF MessagesTypeOK
    <2> QED
        BY <2>2, <2>3
<1> HIDE DEF id, to
<1>6. MessagesTypeOK'
    BY <1>t, <1>0, <1>2, <1>4, <1>5 DEF MessagesTypeOK
<1>7. line.text = sending[w].text
    OBVIOUS
<1> HIDE DEF line
<1>8. WrittenIsKept'
    <2> SUFFICES ASSUME NEW u \in typed \ overtyped
                 PROVE  \/ \E m \in DOMAIN saved' : saved'[m].text = u
                        \/ \E v \in Writers : u \in {device[v].draft, sending'[v].text}
        BY <1>0 DEF WrittenIsKept
    <2>1. CASE u = sending[w].text
        BY <1>2, <1>7, <2>1
    <2>2. CASE u # sending[w].text
        BY <1>2, <1>4, <2>2 DEF MessagesInv, WrittenIsKept
    <2> QED
        BY <2>1, <2>2
<1>9. \A v \in Writers \ {w} : PostFits(v)'
    BY <1>0, <1>2, <1>4 DEF MessagesInv, PostFits
<1>10. PostFits(w)'
    BY <1>0, <1>2, <1>4, <1>7, WritersAssumption, <1>1 DEF MessagesInv, PostFits, NoPost
<1>11. ASSUME NEW v \in Writers PROVE Covered(v)'
    <2>1. Owed(v)' \subseteq Owed(v) \cup {id}
        BY <1>0, <1>2 DEF Owed, To
    <2> QED
        BY <1>0, <1>5, <2>1 DEF MessagesInv, Covered
<1> QED
    BY <1>6, <1>8, <1>9, <1>10, <1>11 DEF MessagesInv
\* Refused, lost, answered, or given back: what was typed stays saved, in hand or in a
\* box.
LEMMA PostMoves ==
    ASSUME MessagesInv, NEW w \in Writers,
           UNCHANGED <<saved, readAt, reached, news, device, marks, typed, overtyped, slipped>>,
           sending' \in [Writers -> Post],
           \A v \in Writers \ {w} : sending'[v] = sending[v],
           \/ sending'[w] = NoPost /\ sending[w].stage = "left"
           \/ /\ sending'[w].stage = "failed" /\ sending[w].stage # "none"
              /\ sending'[w].text = sending[w].text
    PROVE  MessagesInv'
<1>t. MessagesTypeOK
    BY DEF MessagesInv
<1>1. MessagesTypeOK'
    BY <1>t DEF MessagesTypeOK
<1>2. WrittenIsKept'
    BY DEF MessagesInv, WrittenIsKept, PostFits
<1>3. PostFits(w)'
    BY WritersAssumption DEF MessagesInv, PostFits, NoPost
<1>4. Covered(w)'
    BY DEF MessagesInv, Covered, Owed, To
<1>5. \A v \in Writers \ {w} : (PostFits(v) /\ Covered(v))'
    BY Unmoved
<1> QED
    BY <1>1, <1>2, <1>3, <1>4, <1>5 DEF MessagesInv

LEMMA SendFailsStep ==
    ASSUME MessagesInv, NEW w \in Writers, SendFails(w)
    PROVE  MessagesInv'
<1> DEFINE post == IF sending[w].stage = "left" THEN NoPost
                   ELSE [sending[w] EXCEPT !.stage = "failed"]
<1>t. MessagesTypeOK
    BY DEF MessagesInv
<1>1. sending' = [sending EXCEPT ![w] = post]
    BY DEF SendFails
<1>2. /\ post \in Post
      /\ sending[w].stage = "left" => post = NoPost
      /\ sending[w].stage # "left" => post.stage = "failed" /\ post.text = sending[w].text
    BY <1>t DEF MessagesTypeOK, Post, NoPost
<1> HIDE DEF post
<1>3. /\ sending' \in [Writers -> Post] /\ sending'[w] = post
      /\ \A v \in Writers \ {w} : sending'[v] = sending[v]
    BY <1>t, <1>1, <1>2 DEF MessagesTypeOK
<1>4. /\ UNCHANGED <<saved, readAt, reached, news, device, marks, typed, overtyped, slipped>>
      /\ sending[w].stage # "none"
    BY DEF SendFails
<1> QED
    BY <1>2, <1>3, <1>4, PostMoves

LEMMA SendSettlesStep ==
    ASSUME MessagesInv, NEW w \in Writers, SendSettles(w)
    PROVE  MessagesInv'
<1> DEFINE id == sending[w].id
<1>t. MessagesTypeOK
    BY DEF MessagesInv
<1>0. /\ UNCHANGED <<saved, readAt, reached, news, marks, typed, overtyped>>
      /\ sending[w].stage = "saved"
    BY DEF SendSettles
<1>1. /\ id \in DOMAIN saved /\ saved[id].text = sending[w].text /\ id \in Nat
    BY <1>t, <1>0 DEF MessagesInv, PostFits, MessagesTypeOK, Post
<1>2. /\ sending' \in [Writers -> Post] /\ sending'[w] = NoPost
      /\ \A v \in Writers \ {w} : sending'[v] = sending[v]
    BY <1>t DEF SendSettles, MessagesTypeOK, NoPost, Post
<1>3. /\ device' = [device EXCEPT ![w].has = @ \cup {id}]
      /\ slipped' = [slipped EXCEPT ![w] = @ \ {id}]
    BY DEF SendSettles
<1> HIDE DEF id
<1>4. /\ device' \in [Writers -> DeviceRow]
      /\ device'[w].at = device[w].at /\ device'[w].loading = device[w].loading
      /\ device'[w].got = device[w].got /\ device'[w].has = device[w].has \cup {id}
      /\ device'[w].draft = device[w].draft
      /\ \A v \in Writers \ {w} : device'[v] = device[v]
    BY <1>t, <1>1, <1>3 DEF MessagesTypeOK, DeviceRow
<1>5. /\ slipped' \in [Writers -> SUBSET Nat] /\ slipped'[w] = slipped[w] \ {id}
      /\ \A v \in Writers \ {w} : slipped'[v] = slipped[v]
    BY <1>t, <1>3 DEF MessagesTypeOK
<1>6. MessagesTypeOK'
    BY <1>t, <1>0, <1>2, <1>4, <1>5 DEF MessagesTypeOK
<1>7. WrittenIsKept'
    <2> SUFFICES ASSUME NEW u \in typed \ overtyped
                 PROVE  \/ \E m \in DOMAIN saved : saved[m].text = u
                        \/ \E v \in Writers : u \in {device'[v].draft, sending'[v].text}
        BY <1>0 DEF WrittenIsKept
    <2>1. CASE u = sending[w].text
        BY <1>1, <2>1
    <2>2. CASE u # sending[w].text
        BY <1>2, <1>4, <2>2 DEF MessagesInv, WrittenIsKept
    <2> QED
        BY <2>1, <2>2
<1>8. PostFits(w)'
    BY <1>0, <1>2, <1>4 DEF MessagesInv, PostFits, NoPost
<1>9. Covered(w)'
    BY <1>0, <1>4, <1>5 DEF MessagesInv, Covered, Owed, To
<1>10. \A v \in Writers \ {w} : (PostFits(v) /\ Covered(v))'
    BY <1>0, <1>2, <1>4, <1>5, Unmoved
<1> QED
    BY <1>6, <1>7, <1>8, <1>9, <1>10 DEF MessagesInv

LEMMA DraftBackStep ==
    ASSUME MessagesInv, NEW w \in Writers, DraftBack(w)
    PROVE  MessagesInv'
<1>t. MessagesTypeOK
    BY DEF MessagesInv
<1>0. /\ UNCHANGED <<saved, readAt, reached, news, marks, typed, slipped>>
      /\ sending[w].stage = "failed"
      /\ overtyped' = overtyped \cup ({device[w].draft} \ {NoText})
    BY DEF DraftBack
<1>1. sending[w].text \in typed \cup {NoText} /\ device[w].draft \in typed \cup {NoText}
      /\ sending[w].text \in Texts \cup {NoText}
    BY <1>t DEF MessagesInv, PostFits, MessagesTypeOK
<1>2. /\ sending' \in [Writers -> Post] /\ sending'[w] = NoPost
      /\ \A v \in Writers \ {w} : sending'[v] = sending[v]
    BY <1>t DEF DraftBack, MessagesTypeOK, NoPost, Post
<1>3. /\ device' \in [Writers -> DeviceRow]
      /\ device'[w].at = device[w].at /\ device'[w].loading = device[w].loading
      /\ device'[w].got = device[w].got /\ device'[w].has = device[w].has
      /\ device'[w].draft = sending[w].text
      /\ \A v \in Writers \ {w} : device'[v] = device[v]
    BY <1>t, <1>1 DEF DraftBack, MessagesTypeOK, DeviceRow
<1>4. MessagesTypeOK'
    BY <1>t, <1>0, <1>1, <1>2, <1>3 DEF MessagesTypeOK
<1>5. WrittenIsKept'
    <2> SUFFICES ASSUME NEW u \in typed \ overtyped'
                 PROVE  \/ \E m \in DOMAIN saved : saved[m].text = u
                        \/ \E v \in Writers : u \in {device'[v].draft, sending'[v].text}
        BY <1>0 DEF WrittenIsKept
    <2>1. u \in typed \ overtyped /\ u # NoText /\ u # device[w].draft
        BY <1>t, <1>0, WritersAssumption DEF MessagesTypeOK
    <2>2. \/ \E m \in DOMAIN saved : saved[m].text = u
          \/ \E v \in Writers : u \in {device[v].draft, sending[v].text}
        BY <2>1 DEF MessagesInv, WrittenIsKept
    <2> QED
        BY <1>2, <1>3, <2>1, <2>2
<1>6. PostFits(w)'
    BY <1>0, <1>1, <1>2, <1>3 DEF MessagesInv, PostFits, NoPost
<1>7. Covered(w)'
    BY <1>0, <1>3 DEF MessagesInv, Covered, Owed, To
<1>8. \A v \in Writers \ {w} : (PostFits(v) /\ Covered(v))'
    BY <1>0, <1>2, <1>3, Unmoved
<1> QED
    BY <1>4, <1>5, <1>6, <1>7, <1>8 DEF MessagesInv

\* A page that is left takes its draft and the outcome of its request with it.
LEMMA OpenStep ==
    ASSUME MessagesInv, NEW w \in Writers, NEW at \in {"list", "thread"}, Open(w, at)
    PROVE  MessagesInv'
<1> DEFINE post == IF sending[w].stage \in {"asked", "left"}
                   THEN [sending[w] EXCEPT !.stage = "left"] ELSE NoPost
<1>t. MessagesTypeOK
    BY DEF MessagesInv
<1>0. /\ UNCHANGED <<saved, readAt, reached, news, typed, slipped>>
      /\ overtyped' = overtyped \cup ({device[w].draft, sending[w].text} \ {NoText})
      /\ marks' \in [Writers -> BOOLEAN]
    BY <1>t DEF Open, MessagesTypeOK
<1>1. sending[w].text \in typed \cup {NoText} /\ device[w].draft \in typed \cup {NoText}
    BY DEF MessagesInv, PostFits
<1>2. sending' = [sending EXCEPT ![w] = post]
    BY DEF Open
<1>3. /\ post \in Post
      /\ post = NoPost \/ (post.stage = "left" /\ post.text = sending[w].text
                           /\ sending[w].stage # "none")
    BY <1>t DEF MessagesTypeOK, Post, NoPost
<1> HIDE DEF post
<1>4. /\ sending' \in [Writers -> Post] /\ sending'[w] = post
      /\ \A v \in Writers \ {w} : sending'[v] = sending[v]
    BY <1>t, <1>2, <1>3 DEF MessagesTypeOK
<1>5. /\ device' \in [Writers -> DeviceRow]
      /\ device'[w].loading = "asked" /\ device'[w].draft = NoText
      /\ \A v \in Writers \ {w} : device'[v] = device[v]
    BY <1>t DEF Open, Opened, MessagesTypeOK, DeviceRow
<1>6. MessagesTypeOK'
    BY <1>t, <1>0, <1>1, <1>4, <1>5 DEF MessagesTypeOK
<1>7. WrittenIsKept'
    <2> SUFFICES ASSUME NEW u \in typed \ overtyped'
                 PROVE  \/ \E m \in DOMAIN saved : saved[m].text = u
                        \/ \E v \in Writers : u \in {device'[v].draft, sending'[v].text}
        BY <1>0 DEF WrittenIsKept
    <2>1. /\ u \in typed \ overtyped /\ u # device[w].draft /\ u # sending[w].text
        BY <1>t, <1>0, WritersAssumption DEF MessagesTypeOK
    <2> QED
        BY <1>4, <1>5, <2>1 DEF MessagesInv, WrittenIsKept
<1>8. PostFits(w)'
    <2>1. sending[w].stage # "none" => sending[w].text # NoText
        BY DEF MessagesInv, PostFits
    <2> QED
        BY <1>0, <1>1, <1>3, <1>4, <1>5, <2>1 DEF PostFits, NoPost
<1>9. Covered(w)'
    BY <1>5 DEF Covered
<1>10. \A v \in Writers \ {w} : (PostFits(v) /\ Covered(v))'
    BY <1>0, <1>4, <1>5, Unmoved
<1> QED
    BY <1>6, <1>7, <1>8, <1>9, <1>10 DEF MessagesInv
-----------------------------------------------------------------------------
\* A message a page owes its officer is on it, on its way or excused from the moment the
\* page's own request was answered, and what was typed is saved, in a request's hands or
\* in a box (messages.service.ts, useMessaging.ts).
THEOREM MessagesInvariant == MessagesSpec => []MessagesInv
<1>1. MessagesInit => MessagesInv
    <2> SUFFICES ASSUME MessagesInit PROVE MessagesInv
        OBVIOUS
    <2>1. MessagesTypeOK
        BY DEF MessagesInit, MessagesTypeOK, Opened, DeviceRow, Post, NoPost
    <2> QED
        BY <2>1 DEF MessagesInit, MessagesInv, WrittenIsKept, PostFits, Covered, Opened, NoPost
<1>2. ASSUME MessagesInv, MessagesNext PROVE MessagesInv'
    <2>1. PICK w \in Writers :
              \/ \E t \in Texts : Write(w, t)
              \/ \E at \in {"list", "thread"} : Open(w, at)
              \/ HandleSend(w) \/ SendMessage(w) \/ SendFails(w) \/ SendSettles(w)
              \/ DraftBack(w) \/ PageRead(w) \/ PageShows(w) \/ PageFails(w)
              \/ HandleNew(w) \/ MarkThreadRead(w) \/ LineDrops(w) \/ LineIsBack(w)
        BY <1>2 DEF MessagesNext
    <2> QED
        BY <1>2, <2>1, WriteStep, OpenStep, HandleSendStep, SendMessageStep, SendFailsStep,
           SendSettlesStep, DraftBackStep, PageReadStep, PageShowsStep, PageFailsStep,
           HandleNewStep, MarkThreadReadStep, LineDropsStep, LineIsBackStep
<1>3. MessagesInv /\ UNCHANGED messagesVars => MessagesInv'
    BY DEF messagesVars, MessagesInv, MessagesTypeOK, WrittenIsKept, PostFits, Covered, Owed,
           To
<1> QED
    BY <1>1, <1>2, <1>3, PTL DEF MessagesSpec

\* Nothing an officer wrote is lost but by leaving the page or typing over it.
THEOREM NothingWrittenIsLost == MessagesSpec => []WrittenIsKept
<1>1. MessagesInv => WrittenIsKept
    BY DEF MessagesInv
<1> QED
    BY <1>1, MessagesInvariant, PTL

\* A page at rest has every message it should but the excused ones.
THEOREM NothingIsMissed == MessagesSpec => []NothingMissed
<1>1. MessagesInv => NothingMissed
    <2> SUFFICES ASSUME MessagesInv, NEW w \in Writers,
                        device[w].loading \in {"done", "failed"}, news[w] = <<>>
                 PROVE  Owed(w) \subseteq device[w].has \cup slipped[w]
        BY DEF NothingMissed, Owed
    <2> QED
        BY DEF MessagesInv, Covered, Range
<1> QED
    BY <1>1, MessagesInvariant, PTL
=============================================================================
