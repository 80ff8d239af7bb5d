----------------------------- MODULE EstateForms -----------------------------
(***************************************************************************)
(* The two forms with the estate's own settings: the pass rules            *)
(* (pass-rules/page.tsx, invitation-extensions.service.ts updateRules) and *)
(* the estate's name and address (estate/page.tsx, updateEstate).          *)
(*                                                                         *)
(* Both send every field, those the administrator did not touch as well.   *)
(* The rules are a form from the start, with values of its own until they  *)
(* are loaded, or for good if they cannot be; the details are copied into  *)
(* a form when it is opened, from what was loaded.                         *)
(***************************************************************************)
EXTENDS FiniteSets

CONSTANTS
    Fields,     \* of the form
    Values,     \* a field may have
    Default     \* what useState gives the form of the rules

ASSUME DefaultAssumption == Default \in Values

VARIABLES
    row,        \* the estate's row
    page,       \* which of the two
    load,       \* how far the load is, and what it read
    seen,       \* the last values received
    form,       \* what the inputs hold, and which of them were touched
    put,        \* the save under way
    apart,      \* fields in which the row may differ from what was received
    overwrote   \* fields the last save changed that nobody had touched

formVars == <<row, page, load, seen, form, put, apart, overwrote>>

Settings == [Fields -> Values]
Blank == [f \in Fields |-> Default]
NoPut == [stage |-> "none", sent |-> Blank, touched |-> {}, missed |-> {}]

FormsTypeOK ==
    /\ row \in Settings
    /\ page \in {"rules", "details"}
    /\ load \in [stage: {"asked", "answered", "shown", "failed"}, got: Settings]
    /\ seen \in Settings
    /\ form \in [open: BOOLEAN, values: Settings, touched: SUBSET Fields]
    /\ put \in [stage: {"none", "sent", "done"}, sent: Settings, touched: SUBSET Fields,
                missed: SUBSET Fields]
    /\ apart \subseteq Fields /\ overwrote \subseteq Fields

FormsInit ==
    /\ row \in Settings
    /\ page \in {"rules", "details"}
    /\ load = [stage |-> "asked", got |-> Blank]
    /\ seen = Blank
    /\ form = [open |-> FALSE, values |-> Blank, touched |-> {}]
    /\ put = NoPut
    /\ apart = {} /\ overwrote = {}
-----------------------------------------------------------------------------
AnswerLoad ==
    /\ load.stage = "asked"
    /\ load' = [stage |-> "answered", got |-> row]
    /\ UNCHANGED <<row, page, seen, form, put, apart, overwrote>>

\* apply, and the end of `loading', which shows the form of the rules.
LoadShown ==
    /\ load.stage = "answered"
    /\ load' = [load EXCEPT !.stage = "shown"]
    /\ seen' = load.got
    /\ form' = IF page = "rules" THEN [open |-> TRUE, values |-> load.got, touched |-> {}] ELSE form
    /\ UNCHANGED <<row, page, put, apart, overwrote>>

\* The form of the rules is shown all the same; the details stay away.
LoadFailed ==
    /\ load.stage \in {"asked", "answered"}
    /\ load' = [load EXCEPT !.stage = "failed"]
    /\ form' = [form EXCEPT !.open = (page = "rules")]
    /\ apart' = Fields
    /\ UNCHANGED <<row, page, seen, put, overwrote>>

\* startEditingSettings, and the cancelling of it.
StartEditingSettings ==
    /\ page = "details" /\ load.stage = "shown"
    /\ form' = [open |-> ~form.open, values |-> seen, touched |-> {}]
    /\ UNCHANGED <<row, page, load, seen, put, apart, overwrote>>

Type(f, v) ==
    /\ form.open
    /\ form' = [form EXCEPT !.values[f] = v, !.touched = @ \cup {f}]
    /\ UNCHANGED <<row, page, load, seen, put, apart, overwrote>>

\* Mutant: the form can be sent before the rules are there.
SubmitWhileLoading ==
    /\ put.stage = "none"
    /\ put' = [stage |-> "sent", sent |-> form.values, touched |-> form.touched, missed |-> {}]
    /\ UNCHANGED <<row, page, load, seen, form, apart, overwrote>>

\* handleSubmit, saveSettings: all the fields are sent.
SubmitForm ==
    /\ form.open
    /\ put.stage = "none"
    /\ put' = [stage |-> "sent", sent |-> form.values, touched |-> form.touched, missed |-> {}]
    /\ UNCHANGED <<row, page, load, seen, form, apart, overwrote>>

\* The server writes them.
UpdateSettings ==
    /\ put.stage = "sent"
    /\ row' = put.sent
    /\ overwrote' = {f \in Fields \ put.touched : row[f] # put.sent[f]}
    /\ put' = [put EXCEPT !.stage = "done"]
    /\ UNCHANGED <<page, load, seen, form, apart>>

\* The reply is put into the form, over what was typed meanwhile, or closes it.
SaveAnswered ==
    /\ put.stage = "done"
    /\ seen' = put.sent
    /\ form' = [open |-> page = "rules", touched |-> {},
                values |-> IF page = "rules" THEN put.sent ELSE form.values]
    /\ put' = NoPut
    /\ apart' = put.missed /\ overwrote' = {}
    /\ UNCHANGED <<row, page, load>>

\* Refused, or the answer is lost.
SubmitFailed ==
    /\ put.stage # "none"
    /\ put' = NoPut
    /\ apart' = IF put.stage = "done" THEN Fields ELSE apart
    /\ overwrote' = {}
    /\ UNCHANGED <<row, page, load, seen, form>>

\* Another administrator saves.
SavedElsewhere(f, v) ==
    /\ row' = [row EXCEPT ![f] = v]
    /\ apart' = IF load.stage = "asked" THEN apart ELSE apart \cup {f}
    /\ put' = IF put.stage = "done" THEN [put EXCEPT !.missed = @ \cup {f}] ELSE put
    /\ UNCHANGED <<page, load, seen, form, overwrote>>

FormsNext ==
    \/ AnswerLoad \/ LoadShown \/ LoadFailed \/ StartEditingSettings
    \/ \E f \in Fields, v \in Values : Type(f, v) \/ SavedElsewhere(f, v)
    \/ SubmitForm \/ UpdateSettings \/ SaveAnswered \/ SubmitFailed

FormsSpec == FormsInit /\ [][FormsNext]_formVars
-----------------------------------------------------------------------------
(* A save changes what the administrator changed (both pages send every    *)
(* field): a field nobody touched keeps its value, unless another          *)
(* administrator changed it since it was received, or the page never       *)
(* received it or not the answer to its last save.                         *)
UntouchedKept == overwrote \subseteq apart
=============================================================================
