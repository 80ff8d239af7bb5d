----------------------------- MODULE AdminLists -----------------------------
(***************************************************************************)
(* The administrator's list pages: residents, buildings and apartments,    *)
(* security officers (the three page.tsx, their create forms and           *)
(* ConfirmPasswordDialog.tsx), against the rows of one estate.             *)
(*                                                                         *)
(* Each page works alike: a form that creates, a name that can be edited   *)
(* in the row, a dialog that removes, and after each of them the list is   *)
(* asked for again.  Nothing stops the administrator from starting the     *)
(* next change while the answer to the last one is awaited, and lists are  *)
(* put on the screen in the order in which they arrive.                    *)
(***************************************************************************)
EXTENDS Naturals, Sequences, FiniteSets, SequencesExt

CONSTANTS
    ListRows,       \* rows there may be
    Names,          \* names a row may have
    Gone,           \* no row, no name
    MaxLists,       \* lists asked for at once
    MaxChanges      \* changes under way at once

ASSUME AbsentAssumption == Gone \notin ListRows \cup Names

VARIABLES
    stored,         \* the name of each row in the database
    shown,          \* the list on the screen
    edit,           \* editingId, and the name typed there
    pendingRemoval, \* the row the dialog is open for
    rowBusy,        \* the row whose buttons are disabled
    removalBusy,    \* the dialog's buttons are disabled
    changes,        \* the page's own requests under way
    lists,          \* the lists asked for and not there yet, oldest first
    unshown         \* rows the screen need not be right about

listVars == <<stored, shown, edit, pendingRemoval, rowBusy, removalBusy, changes, lists,
              unshown>>

List == [ListRows -> Names \cup {Gone}]
Change == [kind: {"create", "save", "remove"}, row: ListRows, name: Names \cup {Gone},
           stage: {"sent", "done", "refused"}]
Asked == [stage: {"asked", "answered"}, got: List, missed: SUBSET ListRows, late: BOOLEAN]
NewList == [stage |-> "asked", got |-> [r \in ListRows |-> Gone], missed |-> {}, late |-> FALSE]

NoEdit == [row |-> Gone, typed |-> Gone]

ListTypeOK ==
    /\ stored \in List
    /\ shown \in List
    /\ edit \in [row: ListRows \cup {Gone}, typed: Names \cup {Gone}]
    /\ pendingRemoval \in ListRows \cup {Gone}
    /\ rowBusy \in ListRows \cup {Gone}
    /\ removalBusy \in BOOLEAN
    /\ changes \subseteq Change
    /\ lists \in Seq(Asked)
    /\ unshown \subseteq ListRows

ListInit ==
    /\ stored \in List
    /\ shown = [r \in ListRows |-> Gone]
    /\ edit = NoEdit
    /\ pendingRemoval = Gone
    /\ rowBusy = Gone
    /\ removalBusy = FALSE
    /\ changes = {}
    /\ lists = <<NewList>>
    /\ unshown = {}

\* load(): the list is asked for again.
LoadList ==
    /\ Len(lists) < MaxLists
    /\ lists' = Append(lists, NewList)

\* Lists already read do not have this change.
Missing(r) ==
    lists' = [i \in DOMAIN lists |->
                 IF lists[i].stage = "answered" THEN [lists[i] EXCEPT !.missed = @ \cup {r}]
                 ELSE lists[i]]

\* A list has come or failed; those asked for before it are behind.
WithoutList(i) ==
    lists' = [j \in 1..Len(lists) - 1 |->
                 IF j < i THEN [lists[j] EXCEPT !.late = TRUE] ELSE lists[j + 1]]

Creating == \E c \in changes : c.kind = "create"

SendChange(kind, r, name) ==
    /\ Cardinality(changes) < MaxChanges
    /\ changes' = changes \cup {[kind |-> kind, row |-> r, name |-> name, stage |-> "sent"]}
-----------------------------------------------------------------------------
\* The server reads the list.
AnswerList(i) ==
    /\ i \in DOMAIN lists
    /\ lists[i].stage = "asked"
    /\ lists' = [lists EXCEPT ![i].stage = "answered", ![i].got = stored]
    /\ UNCHANGED <<stored, shown, edit, pendingRemoval, rowBusy, removalBusy, changes,
                   unshown>>

\* setResidents, setBuildings, setOfficers: whatever list arrives is shown.
ListArrives(i) ==
    /\ i \in DOMAIN lists
    /\ lists[i].stage = "answered"
    /\ shown' = lists[i].got
    /\ unshown' = IF lists[i].late THEN ListRows ELSE lists[i].missed
    /\ WithoutList(i)
    /\ UNCHANGED <<stored, edit, pendingRemoval, rowBusy, removalBusy, changes>>

\* "Could not load": the old list stays.
ListFails(i) ==
    /\ i \in DOMAIN lists
    /\ WithoutList(i)
    /\ unshown' = ListRows
    /\ UNCHANGED <<stored, shown, edit, pendingRemoval, rowBusy, removalBusy, changes>>
-----------------------------------------------------------------------------
\* startEdit, and what is typed into the row; an edit of another row is given up.
StartEdit(r, name) ==
    /\ shown[r] # Gone
    /\ edit' = [row |-> r, typed |-> name]
    /\ UNCHANGED <<stored, shown, pendingRemoval, rowBusy, removalBusy, changes, lists,
                   unshown>>

CancelEdit ==
    /\ edit.row # Gone
    /\ edit' = NoEdit
    /\ UNCHANGED <<stored, shown, pendingRemoval, rowBusy, removalBusy, changes, lists,
                   unshown>>

\* saveEdit sends what is typed; only this row's button is disabled, until another
\* row's save takes rowBusy over.
SaveEdit ==
    /\ edit.row \notin {Gone, rowBusy}
    /\ SendChange("save", edit.row, edit.typed)
    /\ rowBusy' = edit.row
    /\ UNCHANGED <<stored, shown, edit, pendingRemoval, removalBusy, lists, unshown>>

\* handleSubmit of the create form.
CreateRow(r, name) ==
    /\ ~Creating
    /\ stored[r] = Gone
    /\ SendChange("create", r, name)
    /\ UNCHANGED <<stored, shown, edit, pendingRemoval, rowBusy, removalBusy, lists, unshown>>

RequestRemove(r) ==
    /\ shown[r] # Gone
    /\ edit.row # r /\ rowBusy # r
    /\ pendingRemoval = Gone
    /\ pendingRemoval' = r
    /\ UNCHANGED <<stored, shown, edit, rowBusy, removalBusy, changes, lists, unshown>>

\* Cancel, or a click beside the dialog, which closes it even while it is busy.
DismissRemoval ==
    /\ pendingRemoval # Gone
    /\ pendingRemoval' = Gone
    /\ UNCHANGED <<stored, shown, edit, rowBusy, removalBusy, changes, lists, unshown>>

ConfirmRemove ==
    /\ pendingRemoval # Gone
    /\ ~removalBusy
    /\ SendChange("remove", pendingRemoval, Gone)
    /\ removalBusy' = TRUE
    /\ UNCHANGED <<stored, shown, edit, pendingRemoval, rowBusy, lists, unshown>>
-----------------------------------------------------------------------------
\* The server carries the change out.
Apply(c) ==
    /\ c \in changes
    /\ c.stage = "sent"
    /\ IF c.kind = "create" \/ stored[c.row] # Gone
       THEN /\ stored' = [stored EXCEPT ![c.row] = c.name]
            /\ changes' = (changes \ {c}) \cup {[c EXCEPT !.stage = "done"]}
       ELSE /\ changes' = (changes \ {c}) \cup {[c EXCEPT !.stage = "refused"]}
            /\ UNCHANGED stored
    /\ UNCHANGED <<shown, edit, pendingRemoval, rowBusy, removalBusy, lists, unshown>>

\* What the end of a request closes and enables again.
Closes(c) ==
    /\ edit' = IF c.kind = "save" THEN NoEdit ELSE edit
    /\ pendingRemoval' = IF c.kind = "remove" THEN Gone ELSE pendingRemoval

Enables(c) ==
    /\ rowBusy' = IF c.kind = "save" THEN Gone ELSE rowBusy
    /\ removalBusy' = (removalBusy /\ c.kind # "remove")

\* Mutant: the page changes nothing on the screen after a save.
SucceededQuietly(c) ==
    /\ c \in changes /\ c.stage = "done"
    /\ changes' = changes \ {c}
    /\ Closes(c) /\ Enables(c)
    /\ IF c.kind = "save" THEN UNCHANGED lists ELSE LoadList
    /\ UNCHANGED <<stored, shown, unshown>>

\* The form, the row or the dialog is closed, whichever row it is open for by now, and
\* the list is asked for again.
Succeeded(c) ==
    /\ c \in changes /\ c.stage = "done"
    /\ changes' = changes \ {c}
    /\ Closes(c) /\ Enables(c)
    /\ LoadList
    /\ UNCHANGED <<stored, shown, unshown>>

\* Refused, or never answered, carried out or not: the error is shown and what was
\* open stays open.
Failed(c) ==
    /\ c \in changes
    /\ changes' = changes \ {c}
    /\ Enables(c)
    /\ IF c.stage = "done" THEN unshown' = unshown \cup {c.row} /\ Missing(c.row)
       ELSE UNCHANGED <<unshown, lists>>
    /\ UNCHANGED <<stored, shown, edit, pendingRemoval>>

\* Another administrator creates, renames or removes a row.
Elsewhere(r, name) ==
    /\ stored[r] # name
    /\ ~\E c \in changes : c.kind = "create" /\ c.row = r
    /\ stored' = [stored EXCEPT ![r] = name]
    /\ unshown' = unshown \cup {r}
    /\ Missing(r)
    /\ UNCHANGED <<shown, edit, pendingRemoval, rowBusy, removalBusy, changes>>

ListNext ==
    \/ \E i \in 1..MaxLists : AnswerList(i) \/ ListArrives(i) \/ ListFails(i)
    \/ \E r \in ListRows : RequestRemove(r)
    \/ \E r \in ListRows, name \in Names : StartEdit(r, name) \/ CreateRow(r, name)
    \/ \E r \in ListRows, name \in Names \cup {Gone} : Elsewhere(r, name)
    \/ CancelEdit \/ SaveEdit \/ DismissRemoval \/ ConfirmRemove
    \/ \E c \in changes : Apply(c) \/ Succeeded(c) \/ Failed(c)

ListSpec == ListInit /\ [][ListNext]_listVars
-----------------------------------------------------------------------------
(* "onCreated={load}", load() after every change (the pages): with nothing *)
(* under way the list on the screen is the estate's, but for rows another  *)
(* administrator changed since it was read, changes whose answer was lost, *)
(* lists that failed, and lists that came behind a later one.              *)
OwnChangesShown ==
    (changes = {} /\ lists = <<>>) =>
        \A r \in ListRows : shown[r] = stored[r] \/ r \in unshown
=============================================================================
