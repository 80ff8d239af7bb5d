---------------------------- MODULE ServicesProofs ----------------------------
(***************************************************************************)
(* What holds of signing up, of the directory and of the emergency button, *)
(* for any number of visitors, links, clerks, devices and alerts.          *)
(***************************************************************************)
EXTENDS Signup, Directory, EmergencyAlerts, TLAPS, FiniteSetTheorems

(* Signup                                                                  *)
Statuses == {"NONE", "PENDING", "SUPERSEDED", "VERIFIED", "DELETED"}

\* A row whose status changes is otherwise the same.
LEMMA StatusChange ==
    ASSUME NEW row \in PendingRow, NEW s \in Statuses
    PROVE  LET new == [row EXCEPT !.status = s]
           IN  /\ new \in PendingRow /\ new.status = s /\ new.address = row.address
               /\ new.recent = row.recent /\ new.phone = row.phone
<1>. DEFINE new == [row EXCEPT !.status = s]
<1>1. new \in PendingRow
  BY Zenon DEF PendingRow, Statuses
<1>2. new.status = s /\ new.address = row.address
  BY DEF PendingRow
<1>3. new.recent = row.recent
  BY Zenon DEF PendingRow
<1>4. new.phone = row.phone
  BY Zenon DEF PendingRow
<1>. QED
  BY <1>1, <1>2, <1>3, <1>4

LEMMA VisitorShape ==
    ASSUME NEW s \in VisitorStep
    PROVE  /\ s.step \in {"idle", "supersede", "create", "claim"}
           /\ s.step \in {"supersede", "create"} => s.address \in Addresses
           /\ s.step = "claim" => s.link \in Links
<1>1. s.step \in {"idle", "supersede", "create", "claim"}
  BY DEF VisitorStep, Idle
<1>2. s.step \in {"supersede", "create"} => s.address \in Addresses
  BY DEF VisitorStep, Idle
<1>3. s.step = "claim" => s.link \in Links
  BY DEF VisitorStep, Idle
<1>. QED
  BY <1>1, <1>2, <1>3

\* A link that has made an estate is used up, and its address belongs to an account.
MadeIsUsed ==
    \A l \in Links : estates[l] > 0 =>
        /\ estates[l] = 1
        /\ pending[l].status \in {"VERIFIED", "DELETED"}
        /\ pending[l].address \in accounts

OneEach ==
    \A l, m \in Links :
        l # m /\ estates[l] > 0 /\ estates[m] > 0 => pending[l].address # pending[m].address

\* Submissions for an address that did not meet another one: one at a time, and past its
\* first statement no link is left.
OneSubmits ==
    \A v, w \in Visitors :
        \/ v = w
        \/ visitor[v].step \notin {"supersede", "create"}
        \/ visitor[w].step \notin {"supersede", "create"}
        \/ visitor[v].address # visitor[w].address
        \/ visitor[v].address \in overlap

NoneIsLeft ==
    \A v \in Visitors, l \in Links :
        visitor[v].step = "create" /\ pending[l].status = "PENDING" =>
            \/ pending[l].address # visitor[v].address
            \/ visitor[v].address \in overlap

AddressGiven == \A l \in Links : pending[l].status = "PENDING" => pending[l].address \in Addresses

SignupInv ==
    /\ SignupTypeOK /\ AddressGiven
    /\ MadeIsUsed /\ OneEach
    /\ OneLiveLink /\ OneSubmits /\ NoneIsLeft

LEMMA SignupInitial == SignupInit => SignupInv
<1>. SUFFICES ASSUME SignupInit PROVE SignupInv
  OBVIOUS
<1>1. SignupTypeOK
  <2>. DEFINE row == [status |-> "NONE", address |-> Nowhere, phone |-> FALSE, recent |-> FALSE]
  <2>1. row \in PendingRow
    <3>1. "NONE" \in Statuses /\ Nowhere \in Addresses \cup {Nowhere} /\ FALSE \in BOOLEAN
      BY DEF Statuses
    <3>. QED
      BY <3>1, Zenon DEF PendingRow, Statuses
  <2>2. Idle \in VisitorStep
    BY DEF VisitorStep
  <2>. HIDE DEF row
  <2>3. pending = [l \in Links |-> row]
    BY DEF SignupInit, row
  <2>. QED
    BY <2>1, <2>2, <2>3 DEF SignupInit, SignupTypeOK
<1>2. MadeIsUsed /\ OneEach /\ OneSubmits /\ NoneIsLeft
  BY DEF SignupInit, MadeIsUsed, OneEach, OneSubmits, NoneIsLeft, Idle
<1>3. AddressGiven /\ OneLiveLink
  <2>1. \A l \in Links : pending[l].status = "NONE"
    BY DEF SignupInit
  <2>. QED
    BY <2>1 DEF AddressGiven, OneLiveLink
<1>. QED
  BY <1>1, <1>2, <1>3 DEF SignupInv

\* Rows that keep their address and only ever leave PENDING do no harm.
LEMMA RowsOnlyDie ==
    ASSUME SignupInv, UNCHANGED estates, accounts \subseteq accounts', overlap \subseteq overlap',
           \A l \in Links :
              /\ pending'[l].address = pending[l].address
              /\ pending'[l].status = "PENDING" => pending[l].status = "PENDING"
              /\ pending[l].status \in {"VERIFIED", "DELETED"} =>
                     pending'[l].status \in {"VERIFIED", "DELETED"}
    PROVE  AddressGiven' /\ MadeIsUsed' /\ OneEach' /\ OneLiveLink'
<1>1. AddressGiven' /\ MadeIsUsed' /\ OneEach'
  BY DEF SignupInv, AddressGiven, MadeIsUsed, OneEach
<1>2. OneLiveLink'
  BY DEF SignupInv, OneLiveLink
<1>. QED
  BY <1>1, <1>2

\* A visitor who is no longer submitting, or only reads, leaves the others as they are.
LEMMA VisitorLeaves ==
    ASSUME SignupInv, NEW v \in Visitors, NEW s \in VisitorStep, s.step \in {"idle", "claim"},
           visitor' = [visitor EXCEPT ![v] = s], overlap \subseteq overlap',
           \A l \in Links :
              /\ pending'[l].address = pending[l].address
              /\ pending'[l].status = "PENDING" => pending[l].status = "PENDING"
    PROVE  visitor' \in [Visitors -> VisitorStep] /\ OneSubmits' /\ NoneIsLeft'
<1>1. /\ visitor'[v] = s /\ \A w \in Visitors \ {v} : visitor'[w] = visitor[w]
      /\ visitor' \in [Visitors -> VisitorStep]
  BY DEF SignupInv, SignupTypeOK
<1>2. OneSubmits'
  BY <1>1 DEF SignupInv, OneSubmits
<1>3. NoneIsLeft'
  BY <1>1 DEF SignupInv, NoneIsLeft
<1>. QED
  BY <1>1, <1>2, <1>3

LEMMA StartSignupStep ==
    ASSUME SignupInv, NEW v \in Visitors, NEW e \in Addresses, StartSignup(v, e)
    PROVE  SignupInv'
<1>1. /\ visitor[v] = Idle /\ UNCHANGED <<stale, accounts, phoneTaken, estates>>
      /\ overlap \subseteq overlap'
  BY DEF StartSignup
<1>2. PICK old \in SUBSET stale :
        pending' = [l \in Links |-> IF l \in old THEN [pending[l] EXCEPT !.status = "DELETED"]
                                    ELSE pending[l]]
  BY DEF StartSignup
<1>3. /\ pending' \in [Links -> PendingRow]
      /\ \A l \in Links : /\ pending'[l].address = pending[l].address
                          /\ pending'[l].status \in {pending[l].status, "DELETED"}
  <2>1. \A l \in Links : pending[l] \in PendingRow
    BY DEF SignupInv, SignupTypeOK
  <2>2. ASSUME NEW l \in Links
        PROVE  /\ pending'[l] \in PendingRow /\ pending'[l].address = pending[l].address
               /\ pending'[l].status \in {pending[l].status, "DELETED"}
    BY <1>2, <2>1, StatusChange DEF Statuses
  <2>. QED
    BY <1>2, <2>2
<1>4. AddressGiven' /\ MadeIsUsed' /\ OneEach' /\ OneLiveLink'
  BY <1>1, <1>3, RowsOnlyDie
<1>5. CASE UNCHANGED <<visitor, overlap>>
  <2>1. SignupTypeOK'
    BY <1>1, <1>3, <1>5 DEF SignupInv, SignupTypeOK
  <2>2. OneSubmits' /\ NoneIsLeft'
    BY <1>3, <1>5 DEF SignupInv, OneSubmits, NoneIsLeft
  <2>. QED
    BY <1>4, <2>1, <2>2 DEF SignupInv
<1>6. CASE /\ visitor' = [visitor EXCEPT ![v] = [step |-> "supersede", address |-> e]]
           /\ overlap' = overlap \cup (IF Submitting(e) = {} THEN {} ELSE {e})
  <2>. DEFINE s == [step |-> "supersede", address |-> e]
  <2>1. s \in VisitorStep /\ s.step = "supersede" /\ s.address = e
    BY DEF VisitorStep
  <2>. HIDE DEF s
  <2>2. /\ visitor'[v] = s /\ \A w \in Visitors \ {v} : visitor'[w] = visitor[w]
        /\ visitor' \in [Visitors -> VisitorStep]
    BY <1>6, <2>1 DEF SignupInv, SignupTypeOK, s
  <2>3. overlap' \subseteq Addresses
    BY <1>6 DEF SignupInv, SignupTypeOK
  <2>4. SignupTypeOK'
    BY <1>1, <1>3, <2>2, <2>3 DEF SignupInv, SignupTypeOK
  <2>5. \A w \in Visitors : visitor[w].step \in {"supersede", "create"} /\ visitor[w].address = e
                              => e \in overlap'
    BY <1>6 DEF Submitting
  <2>6. OneSubmits'
    BY <1>1, <2>1, <2>2, <2>5 DEF SignupInv, OneSubmits
  <2>7. NoneIsLeft'
    BY <1>1, <1>3, <2>1, <2>2 DEF SignupInv, NoneIsLeft
  <2>. QED
    BY <1>4, <2>4, <2>6, <2>7 DEF SignupInv
<1>. QED
  BY <1>5, <1>6 DEF StartSignup

LEMMA SupersedeStep ==
    ASSUME SignupInv, NEW v \in Visitors, SupersedePending(v)
    PROVE  SignupInv'
<1>. DEFINE e == visitor[v].address
<1>1. /\ visitor[v].step = "supersede" /\ e \in Addresses
      /\ UNCHANGED <<stale, accounts, phoneTaken, estates, overlap>>
      /\ visitor[v] \in VisitorStep
  BY VisitorShape DEF SupersedePending, SignupInv, SignupTypeOK
<1>2. pending' = [l \in Links |-> IF Waiting(l, e) THEN [pending[l] EXCEPT !.status = "SUPERSEDED"]
                                  ELSE pending[l]]
  BY DEF SupersedePending
<1>3. /\ pending' \in [Links -> PendingRow]
      /\ \A l \in Links : /\ pending'[l].address = pending[l].address
                          /\ pending'[l].status = "PENDING" =>
                                pending[l].status = "PENDING" /\ pending[l].address # e
                          /\ pending[l].status \in {"VERIFIED", "DELETED"} =>
                                pending'[l].status = pending[l].status
  <2>1. \A l \in Links : pending[l] \in PendingRow
    BY DEF SignupInv, SignupTypeOK
  <2>2. ASSUME NEW l \in Links
        PROVE  /\ pending'[l] \in PendingRow /\ pending'[l].address = pending[l].address
               /\ pending'[l].status = "PENDING" =>
                     pending[l].status = "PENDING" /\ pending[l].address # e
               /\ pending[l].status \in {"VERIFIED", "DELETED"} =>
                     pending'[l].status = pending[l].status
    <3>1. CASE Waiting(l, e)
      BY <1>2, <2>1, <3>1, StatusChange DEF Statuses, Waiting
    <3>2. CASE ~Waiting(l, e)
      BY <1>2, <2>1, <3>2 DEF Waiting
    <3>. QED
      BY <3>1, <3>2
  <2>. QED
    BY <1>2, <2>2
<1>4. AddressGiven' /\ MadeIsUsed' /\ OneEach' /\ OneLiveLink'
  BY <1>1, <1>3, RowsOnlyDie
<1>. DEFINE s == [visitor[v] EXCEPT !.step = "create"]
<1>5. s \in VisitorStep /\ s.step = "create" /\ s.address = e
  BY <1>1 DEF VisitorStep, Idle
<1>6. visitor' = [visitor EXCEPT ![v] = s]
  BY DEF SupersedePending
<1>. HIDE DEF s, e
<1>7. /\ visitor'[v] = s /\ \A w \in Visitors \ {v} : visitor'[w] = visitor[w]
      /\ visitor' \in [Visitors -> VisitorStep]
  BY <1>5, <1>6 DEF SignupInv, SignupTypeOK
<1>8. SignupTypeOK'
  BY <1>1, <1>3, <1>7 DEF SignupInv, SignupTypeOK
<1>9. OneSubmits'
  BY <1>1, <1>5, <1>7 DEF SignupInv, OneSubmits, e
<1>10. NoneIsLeft'
  BY <1>1, <1>3, <1>5, <1>7 DEF SignupInv, NoneIsLeft
<1>. QED
  BY <1>4, <1>8, <1>9, <1>10 DEF SignupInv

LEMMA CreatePendingStep ==
    ASSUME SignupInv, NEW v \in Visitors, NEW l \in Links, CreatePending(v, l)
    PROVE  SignupInv'
<1>. DEFINE e == visitor[v].address
<1>1. /\ visitor[v].step = "create" /\ e \in Addresses /\ pending[l].status = "NONE"
      /\ UNCHANGED <<stale, accounts, phoneTaken, estates, overlap>>
      /\ visitor' = [visitor EXCEPT ![v] = Idle]
  BY VisitorShape DEF CreatePending, SignupInv, SignupTypeOK
<1>2. PICK phone \in BOOLEAN :
        pending' = [pending EXCEPT ![l] = [status |-> "PENDING", phone |-> phone,
                                           address |-> e, recent |-> TRUE]]
  BY DEF CreatePending
<1>. DEFINE row == [status |-> "PENDING", phone |-> phone, address |-> e, recent |-> TRUE]
<1>3. row \in PendingRow
  <2>1. /\ "PENDING" \in Statuses /\ phone \in BOOLEAN /\ e \in Addresses \cup {Nowhere}
        /\ TRUE \in BOOLEAN
    BY <1>1 DEF Statuses
  <2>. QED
    BY <2>1, Zenon DEF PendingRow, Statuses
<1>4. row.status = "PENDING" /\ row.address = e
  OBVIOUS
<1>5. pending' = [pending EXCEPT ![l] = row]
  BY <1>2
<1>. HIDE DEF row, e
<1>6. /\ pending' \in [Links -> PendingRow] /\ pending'[l] = row
      /\ \A m \in Links \ {l} : pending'[m] = pending[m]
  BY <1>3, <1>5 DEF SignupInv, SignupTypeOK
<1>7. /\ visitor'[v] = Idle /\ \A w \in Visitors \ {v} : visitor'[w] = visitor[w]
      /\ visitor' \in [Visitors -> VisitorStep]
  BY <1>1 DEF SignupInv, SignupTypeOK, VisitorStep
<1>8. SignupTypeOK'
  BY <1>1, <1>6, <1>7 DEF SignupInv, SignupTypeOK
<1>9. estates[l] = 0
  BY <1>1 DEF SignupInv, SignupTypeOK, MadeIsUsed
<1>10. AddressGiven' /\ MadeIsUsed' /\ OneEach'
  BY <1>1, <1>4, <1>6, <1>9 DEF SignupInv, AddressGiven, MadeIsUsed, OneEach
<1>11. e \in overlap \/ \A m \in Links : pending[m].status = "PENDING" => pending[m].address # e
  BY <1>1 DEF SignupInv, NoneIsLeft, e
<1>12. OneLiveLink'
  <2>1. SUFFICES ASSUME NEW m \in Links, NEW k \in Links, m # k,
                        pending'[m].status = "PENDING", pending'[k].status = "PENDING",
                        pending'[m].address = pending'[k].address
                 PROVE  pending'[m].address \in overlap
    BY <1>1 DEF OneLiveLink
  <2>2. CASE m = l
    BY <1>4, <1>6, <1>11, <2>1, <2>2
  <2>3. CASE k = l
    BY <1>4, <1>6, <1>11, <2>1, <2>3
  <2>4. CASE m # l /\ k # l
    BY <1>6, <2>1, <2>4 DEF SignupInv, OneLiveLink
  <2>. QED
    BY <2>2, <2>3, <2>4
<1>13. OneSubmits'
  BY <1>1, <1>7 DEF SignupInv, OneSubmits, Idle
<1>14. NoneIsLeft'
  <2>1. SUFFICES ASSUME NEW w \in Visitors, NEW m \in Links, visitor'[w].step = "create",
                        pending'[m].status = "PENDING",
                        pending'[m].address = visitor'[w].address
                 PROVE  visitor'[w].address \in overlap
    BY <1>1 DEF NoneIsLeft
  <2>2. w # v /\ visitor'[w] = visitor[w]
    BY <1>7, <2>1 DEF Idle
  <2>3. CASE m = l
    BY <1>1, <1>4, <1>6, <2>1, <2>2, <2>3 DEF SignupInv, OneSubmits, e
  <2>4. CASE m # l
    BY <1>6, <2>1, <2>2, <2>4 DEF SignupInv, NoneIsLeft
  <2>. QED
    BY <2>3, <2>4
<1>. QED
  BY <1>8, <1>10, <1>12, <1>13, <1>14 DEF SignupInv

LEMMA IdleFits == Idle \in VisitorStep /\ Idle.step = "idle"
  BY DEF VisitorStep, Idle

LEMMA ReadStep ==
    ASSUME SignupInv, NEW v \in Visitors,
           ClaimRefused(v) \/ SignupFails(v) \/ \E l \in Links : CompleteSignupRead(v, l)
    PROVE  SignupInv'
<1>1. UNCHANGED <<pending, stale, accounts, phoneTaken, estates, overlap>>
  BY DEF ClaimRefused, SignupFails, CompleteSignupRead
<1>2. PICK s \in VisitorStep : s.step \in {"idle", "claim"} /\ visitor' = [visitor EXCEPT ![v] = s]
  <2>1. CASE ClaimRefused(v) \/ SignupFails(v)
    BY <2>1, IdleFits DEF ClaimRefused, SignupFails
  <2>2. CASE \E l \in Links : CompleteSignupRead(v, l)
    <3>1. PICK l \in Links : CompleteSignupRead(v, l)
      BY <2>2
    <3>. DEFINE phone == pending[l].phone /\ ~phoneTaken
                s == [step |-> "claim", link |-> l, phone |-> phone]
    <3>2. phone \in BOOLEAN
      OBVIOUS
    <3>. HIDE DEF phone
    <3>3. s \in [step: {"claim"}, link: Links, phone: BOOLEAN]
      <4>1. "claim" \in {"claim"}
        OBVIOUS
      <4>. QED
        BY <3>2, <4>1, Zenon
    <3>4. s \in VisitorStep /\ s.step = "claim"
      BY <3>3 DEF VisitorStep
    <3>5. visitor' = [visitor EXCEPT ![v] = s]
      BY <3>1 DEF CompleteSignupRead, phone
    <3>. QED
      BY <3>4, <3>5
  <2>. QED
    BY <2>1, <2>2
<1>3. visitor' \in [Visitors -> VisitorStep] /\ OneSubmits' /\ NoneIsLeft'
  BY <1>1, <1>2, VisitorLeaves
<1>4. AddressGiven' /\ MadeIsUsed' /\ OneEach' /\ OneLiveLink'
  BY <1>1, RowsOnlyDie
<1>5. SignupTypeOK'
  BY <1>1, <1>3 DEF SignupInv, SignupTypeOK
<1>. QED
  BY <1>3, <1>4, <1>5 DEF SignupInv

\* The address had no account, so none of its links has made an estate.
LEMMA CompleteSignupStep ==
    ASSUME SignupInv, NEW v \in Visitors, CompleteSignup(v)
    PROVE  SignupInv'
<1>. DEFINE l == visitor[v].link
            e == pending[l].address
<1>1. /\ visitor[v].step = "claim" /\ l \in Links
      /\ pending[l].status = "PENDING" /\ e \notin accounts
      /\ pending' = [pending EXCEPT ![l].status = "VERIFIED"]
      /\ accounts' = accounts \cup {e}
      /\ estates' = [estates EXCEPT ![l] = @ + 1]
      /\ visitor' = [visitor EXCEPT ![v] = Idle]
      /\ UNCHANGED <<stale, overlap>>
  BY VisitorShape DEF CompleteSignup, Claimable, SignupInv, SignupTypeOK
<1>2. phoneTaken' \in BOOLEAN
  BY DEF CompleteSignup
<1>. HIDE DEF l
<1>3. pending[l] \in PendingRow
  BY <1>1 DEF SignupInv, SignupTypeOK
<1>4. e \in Addresses /\ estates[l] \in Nat
  BY <1>1 DEF SignupInv, SignupTypeOK, AddressGiven
<1>. DEFINE row == [pending[l] EXCEPT !.status = "VERIFIED"]
<1>5. row \in PendingRow /\ row.status = "VERIFIED" /\ row.address = e
  BY <1>3, StatusChange DEF Statuses
<1>6. pending' = [pending EXCEPT ![l] = row]
  BY <1>1 DEF SignupInv, SignupTypeOK
<1>. HIDE DEF row, e
<1>7. /\ pending' \in [Links -> PendingRow] /\ pending'[l] = row
      /\ \A m \in Links \ {l} : pending'[m] = pending[m]
  BY <1>1, <1>5, <1>6 DEF SignupInv, SignupTypeOK
<1>15. pending'[l].status = "VERIFIED" /\ pending'[l].address = e
  BY <1>5, <1>7
<1>16. l \in Links /\ accounts' = accounts \cup {e} /\ overlap' = overlap
       /\ visitor' = [visitor EXCEPT ![v] = Idle]
  BY <1>1, Zenon
<1>8. estates[l] = 0 /\ estates'[l] = 1 /\ estates' \in [Links -> Nat]
      /\ \A m \in Links \ {l} : estates'[m] = estates[m]
  BY <1>1, <1>4 DEF SignupInv, SignupTypeOK, MadeIsUsed
<1>9. MadeIsUsed'
  <2>1. SUFFICES ASSUME NEW m \in Links, estates'[m] > 0
                 PROVE  /\ estates'[m] = 1
                        /\ pending'[m].status \in {"VERIFIED", "DELETED"}
                        /\ pending'[m].address \in accounts'
    BY DEF MadeIsUsed
  <2>2. CASE m = l
    <3>1. estates'[m] = 1
      BY <1>8, <2>2
    <3>2. pending'[m].status = "VERIFIED" /\ pending'[m].address \in accounts'
      BY <1>15, <1>16, <2>2
    <3>. QED
      BY <3>1, <3>2
  <2>3. CASE m # l
    BY <1>1, <1>7, <1>8, <2>1, <2>3 DEF SignupInv, MadeIsUsed
  <2>. QED
    BY <2>2, <2>3
<1>10. OneEach'
  <2>1. SUFFICES ASSUME NEW m \in Links, NEW k \in Links, m # k,
                        estates'[m] > 0, estates'[k] > 0
                 PROVE  pending'[m].address # pending'[k].address
    BY DEF OneEach
  <2>2. \A j \in Links \ {l} : estates'[j] > 0 => pending'[j].address # e
    BY <1>1, <1>7, <1>8 DEF SignupInv, MadeIsUsed
  <2>3. CASE m = l \/ k = l
    BY <1>5, <1>7, <2>1, <2>2, <2>3
  <2>4. CASE m # l /\ k # l
    BY <1>7, <1>8, <2>1, <2>4 DEF SignupInv, OneEach
  <2>. QED
    BY <2>3, <2>4
<1>11. \A m \in Links : /\ pending'[m].address = pending[m].address
                        /\ pending'[m].status = "PENDING" => pending[m].status = "PENDING"
  BY <1>5, <1>7 DEF e
<1>12. AddressGiven' /\ OneLiveLink'
  BY <1>1, <1>11 DEF SignupInv, AddressGiven, OneLiveLink
<1>13. visitor' \in [Visitors -> VisitorStep] /\ OneSubmits' /\ NoneIsLeft'
  <2>1. Idle \in VisitorStep /\ Idle.step \in {"idle", "claim"}
    BY IdleFits
  <2>2. visitor' = [visitor EXCEPT ![v] = Idle] /\ overlap \subseteq overlap'
    BY <1>16
  <2>. QED
    BY <1>11, <2>1, <2>2, VisitorLeaves
<1>14. SignupTypeOK'
  BY <1>1, <1>2, <1>4, <1>7, <1>8, <1>13 DEF SignupInv, SignupTypeOK
<1>. QED
  BY <1>9, <1>10, <1>12, <1>13, <1>14 DEF SignupInv

LEMMA LinkAgesStep ==
    ASSUME SignupInv, NEW l \in Links, LinkAges(l)
    PROVE  SignupInv'
<1>1. /\ UNCHANGED <<accounts, phoneTaken, visitor, estates, overlap>>
      /\ stale' \subseteq Links
      /\ UNCHANGED pending \/ pending' = [pending EXCEPT ![l].recent = FALSE]
  BY DEF LinkAges, SignupInv, SignupTypeOK
<1>2. /\ pending' \in [Links -> PendingRow]
      /\ \A m \in Links : /\ pending'[m].address = pending[m].address
                          /\ pending'[m].status = pending[m].status
  <2>1. CASE UNCHANGED pending
    BY <2>1 DEF SignupInv, SignupTypeOK
  <2>2. CASE pending' = [pending EXCEPT ![l].recent = FALSE]
    <3>. DEFINE row == [pending[l] EXCEPT !.recent = FALSE]
    <3>1. pending[l] \in PendingRow
      BY DEF SignupInv, SignupTypeOK
    <3>2. row \in PendingRow
      BY <3>1, Zenon DEF PendingRow
    <3>3. row.address = pending[l].address /\ row.status = pending[l].status
      BY <3>1 DEF PendingRow
    <3>4. pending' = [pending EXCEPT ![l] = row]
      BY <2>2 DEF SignupInv, SignupTypeOK
    <3>. HIDE DEF row
    <3>. QED
      BY <3>2, <3>3, <3>4 DEF SignupInv, SignupTypeOK
  <2>. QED
    BY <1>1, <2>1, <2>2
<1>3. AddressGiven' /\ MadeIsUsed' /\ OneEach' /\ OneLiveLink'
  BY <1>1, <1>2, RowsOnlyDie
<1>4. OneSubmits' /\ NoneIsLeft'
  BY <1>1, <1>2 DEF SignupInv, OneSubmits, NoneIsLeft
<1>5. SignupTypeOK'
  BY <1>1, <1>2 DEF SignupInv, SignupTypeOK
<1>. QED
  BY <1>3, <1>4, <1>5 DEF SignupInv

\* What signing up keeps, whatever links are live and whichever submissions and clicks are
\* under way: a used link's address is taken, and no two estates share one (signup.service.ts).
THEOREM SignupInvariant == SignupSpec => []SignupInv
<1>1. ASSUME SignupInv, [SignupNext]_signupVars
      PROVE  SignupInv'
  <2>1. CASE \E v \in Visitors, e \in Addresses : StartSignup(v, e)
    BY <1>1, <2>1, StartSignupStep
  <2>2. CASE \E v \in Visitors : SupersedePending(v) \/ CompleteSignup(v)
    BY <1>1, <2>2, SupersedeStep, CompleteSignupStep
  <2>3. CASE \E v \in Visitors, l \in Links : CreatePending(v, l)
    BY <1>1, <2>3, CreatePendingStep
  <2>4. CASE \E v \in Visitors : \/ ClaimRefused(v) \/ SignupFails(v)
                                 \/ \E l \in Links : CompleteSignupRead(v, l)
    BY <1>1, <2>4, ReadStep
  <2>5. CASE \E l \in Links : LinkAges(l)
    BY <1>1, <2>5, LinkAgesStep
  <2>6. CASE OtherAccount \/ UNCHANGED signupVars
    <3>1. /\ UNCHANGED <<pending, stale, visitor, estates, overlap>>
          /\ accounts \subseteq accounts' /\ accounts' \subseteq Addresses /\ phoneTaken' \in BOOLEAN
      BY <1>1, <2>6 DEF OtherAccount, signupVars, SignupInv, SignupTypeOK
    <3>2. AddressGiven' /\ MadeIsUsed' /\ OneEach' /\ OneLiveLink'
      BY <1>1, <3>1, RowsOnlyDie
    <3>3. SignupTypeOK' /\ OneSubmits' /\ NoneIsLeft'
      BY <1>1, <3>1 DEF SignupInv, SignupTypeOK, OneSubmits, NoneIsLeft
    <3>. QED
      BY <3>2, <3>3 DEF SignupInv
  <2>. QED
    BY <1>1, <2>1, <2>2, <2>3, <2>4, <2>5, <2>6 DEF SignupNext
<1>. QED
  BY <1>1, SignupInitial, PTL DEF SignupSpec

\* signup.service.ts: "a double-click or replay can never create a second estate".
THEOREM NoSecondEstate == SignupSpec => []OneEstatePerAddress
<1>1. SignupInv => OneEstatePerAddress
  BY DEF SignupInv, SignupTypeOK, MadeIsUsed, OneEach, OneEstatePerAddress
<1>. QED
  BY <1>1, SignupInvariant, PTL

\* signup.service.ts: "one live pending signup per email", but for submissions handled at once.
THEOREM LinksSuperseded == SignupSpec => []OneLiveLink
<1>. QED
  BY SignupInvariant, PTL DEF SignupInv

-----------------------------------------------------------------------------
(* Directory                                                               *)
\* A name keeps its word when it is stored, and a building's has no blank.
LEMMA StoredWord ==
    ASSUME NEW x \in Rows, NEW n \in Spellings
    PROVE  /\ Stored(x, n) \in Typed /\ Stored(x, n).word = n.word
           /\ x \in Buildings => ~Stored(x, n).blank
<1>1. n \in Typed
  BY SpellingsAssumption
<1>2. Trim(n) \in Typed
  BY <1>1, FALSE \in BOOLEAN, Zenon DEF Typed, Trim
<1>3. Trim(n).word = n.word
  BY <1>1 DEF Typed, Trim
<1>4. ~Trim(n).blank
  BY <1>1, Zenon DEF Typed, Trim
<1>. QED
  BY <1>1, <1>2, <1>3, <1>4 DEF Stored

LEMMA ClerkShape ==
    ASSUME NEW s \in ClerkStep, s # Free
    PROVE  /\ s.step \in {"create", "update"} /\ s.row \in Rows
           /\ s.name \in Spellings /\ s.scope \in Scopes
  BY DEF ClerkStep, Free

\* Two rows of buildings or of flats that would bear one name in one place.
Together(x, y) == x # y /\ SameRegister(x, y)

LEMMA TogetherSwaps == \A x, y : Together(x, y) => Together(y, x)
  BY DEF Together, SameRegister

BuildingsTrimmed == \A b \in Buildings : Exists(b) => ~register[b].name.blank

\* What a clerk is about to write clashes only with rows named since the look, with rows
\* the row has been let clash with before, and with a flat typed with a blank.
ClerkKnows ==
    \A c \in Clerks : clerk[c] # Free =>
        \A y \in Buildings \cup Flats :
            (/\ Together(clerk[c].row, y) /\ Exists(y)
             /\ register[y].scope = clerk[c].scope
             /\ register[y].name.word = clerk[c].name.word)
              => \/ y \in unchecked[c]
                 \/ {clerk[c].row, y} \in overlooked
                 \/ register[y].name.blank

DirectoryInv == DirectoryTypeOK /\ BuildingsTrimmed /\ ClerkKnows /\ NamesApart

Blank == [name |-> Absent, scope |-> Absent]

LEMMA BlankRow == Blank \in Row /\ Blank.name = Absent
  BY DEF Blank, Row

LEMMA DirectoryInitial == DirectoryInit => DirectoryInv
<1>. SUFFICES ASSUME DirectoryInit PROVE DirectoryInv
  OBVIOUS
<1>1. register = [x \in Rows |-> Blank]
  BY DEF DirectoryInit, Blank
<1>2. \A x \in Rows : ~Exists(x)
  BY <1>1, BlankRow DEF Exists
<1>3. DirectoryTypeOK
  <2>1. clerk \in [Clerks -> ClerkStep]
    BY DEF DirectoryInit, ClerkStep
  <2>. QED
    BY <1>1, <2>1, BlankRow DEF DirectoryInit, DirectoryTypeOK
<1>4. BuildingsTrimmed /\ NamesApart
  BY <1>2 DEF BuildingsTrimmed, NamesApart, Rows
<1>5. ClerkKnows
  BY DEF DirectoryInit, ClerkKnows
<1>. QED
  BY <1>3, <1>4, <1>5 DEF DirectoryInv

\* A row that is looked at.
LEMMA InUse == DirectoryTypeOK => inUse \subseteq Rows
  BY RegistersAssumption DEF DirectoryTypeOK, Rows

LEMMA CheckNameStep ==
    ASSUME DirectoryInv, NEW c \in Clerks, NEW x \in Rows, NEW n \in Spellings, NEW scope \in Scopes,
           CheckName(c, x, n, scope)
    PROVE  DirectoryInv'
<1>. USE DEF DirectoryInv
<1>. DEFINE s == [step |-> IF Exists(x) THEN "update" ELSE "create",
                  row |-> x, name |-> n, scope |-> scope]
<1>1. /\ clerk' = [clerk EXCEPT ![c] = s] /\ unchecked' = [unchecked EXCEPT ![c] = {}]
      /\ (Exists(x) /\ x \notin Flats) => scope = register[x].scope
      /\ Unchanged(x, n) \/ IsFree(x, n, scope)
      /\ UNCHANGED <<inUse, register, gone, overlooked>>
  BY DEF CheckName, Begin
<1>2. s \in ClerkStep /\ s.row = x /\ s.name = n /\ s.scope = scope
  BY DEF ClerkStep
<1>. HIDE DEF s
<1>3. /\ clerk' \in [Clerks -> ClerkStep] /\ clerk'[c] = s
      /\ \A d \in Clerks \ {c} : clerk'[d] = clerk[d]
  BY <1>1, <1>2 DEF DirectoryTypeOK
<1>4. /\ unchecked' \in [Clerks -> SUBSET Rows] /\ unchecked'[c] = {}
      /\ \A d \in Clerks \ {c} : unchecked'[d] = unchecked[d]
  BY <1>1 DEF DirectoryTypeOK
<1>5. DirectoryTypeOK'
  BY <1>1, <1>3, <1>4 DEF DirectoryTypeOK
<1>6. (BuildingsTrimmed /\ NamesApart)'
  BY <1>1 DEF BuildingsTrimmed, NamesApart, Exists
<1>7. ASSUME NEW y \in Buildings \cup Flats, Together(x, y), Exists(y),
             register[y].scope = scope, register[y].name.word = n.word
      PROVE  {x, y} \in overlooked \/ register[y].name.blank
  <2>1. x \in Buildings \cup Flats /\ (x \in Buildings <=> y \in Buildings) /\ x \notin Officers
        /\ y \in Rows
    BY <1>7, RegistersAssumption DEF Together, SameRegister, Rows
  <2>2. CASE Unchanged(x, n)
    <3>1. x \in Buildings /\ Exists(x) /\ register[x].name.word = n.word
          /\ register[x].scope = scope
      BY <1>1, <2>1, <2>2, RegistersAssumption DEF Unchanged
    <3>2. {x, y} \in overlooked \/ register[x].name.blank \/ register[y].name.blank
      BY <1>7, <2>1, <3>1 DEF NamesApart, Together
    <3>. QED
      BY <3>1, <3>2 DEF BuildingsTrimmed
  <2>3. CASE IsFree(x, n, scope)
    BY <1>7, <2>1, <2>3 DEF IsFree, Scoped, Together, SameRegister, Resembles
  <2>. QED
    BY <1>1, <2>2, <2>3
<1>8. ClerkKnows'
  <2>1. SUFFICES ASSUME NEW d \in Clerks, clerk'[d] # Free, NEW y \in Buildings \cup Flats,
                        Together(clerk'[d].row, y), Exists(y)',
                        register'[y].scope = clerk'[d].scope,
                        register'[y].name.word = clerk'[d].name.word
                 PROVE  \/ y \in unchecked'[d] \/ {clerk'[d].row, y} \in overlooked'
                        \/ register'[y].name.blank
    BY DEF ClerkKnows, Together, SameRegister
  <2>2. Exists(y) /\ register' = register /\ overlooked' = overlooked
    BY <1>1, <2>1 DEF Exists
  <2>3. CASE d = c
    BY <1>2, <1>3, <1>7, <2>1, <2>2, <2>3
  <2>4. CASE d # c
    BY <1>3, <1>4, <2>1, <2>2, <2>4 DEF ClerkKnows
  <2>. QED
    BY <2>3, <2>4
<1>. QED
  BY <1>5, <1>6, <1>8

\* The new name clashes with no row the clerk had seen; the others are noted, for this
\* clerk's pairs and for the clerks who have looked already.
LEMMA WriteNameStep ==
    ASSUME DirectoryInv, NEW c \in Clerks, WriteName(c)
    PROVE  DirectoryInv'
<1>. USE DEF DirectoryInv
<1>. DEFINE x == clerk[c].row
            name == Stored(x, clerk[c].name)
            row == [name |-> name, scope |-> clerk[c].scope]
<1>1. /\ clerk[c] # Free
      /\ register' = [register EXCEPT ![x] = row]
      /\ overlooked' = overlooked \cup {{x, y} : y \in unchecked[c]}
      /\ clerk' = [clerk EXCEPT ![c] = Free]
      /\ unchecked' = [d \in Clerks |-> IF d = c THEN {} ELSE unchecked[d] \cup {x}]
      /\ UNCHANGED <<inUse, gone>>
  BY DEF WriteName
<1>2. x \in Rows /\ clerk[c].name \in Spellings /\ clerk[c].scope \in Scopes
  BY <1>1, ClerkShape DEF DirectoryTypeOK
<1>3. name \in Typed /\ name.word = clerk[c].name.word /\ (x \in Buildings => ~name.blank)
  BY <1>2, StoredWord
<1>4. row \in Row /\ row.name = name /\ row.scope = clerk[c].scope
  BY <1>2, <1>3 DEF Row
<1>. HIDE DEF row, name, x
<1>5. /\ register' \in [Rows -> Row] /\ register'[x] = row
      /\ \A y \in Rows \ {x} : register'[y] = register[y]
  BY <1>1, <1>2, <1>4 DEF DirectoryTypeOK
<1>6. /\ clerk' \in [Clerks -> ClerkStep] /\ clerk'[c] = Free
      /\ \A d \in Clerks \ {c} : clerk'[d] = clerk[d]
  BY <1>1 DEF DirectoryTypeOK, ClerkStep
<1>7. /\ unchecked' \in [Clerks -> SUBSET Rows] /\ unchecked'[c] = {}
      /\ \A d \in Clerks \ {c} : unchecked'[d] = unchecked[d] \cup {x}
  BY <1>1, <1>2 DEF DirectoryTypeOK
<1>8. /\ overlooked \subseteq overlooked' /\ \A y \in unchecked[c] : {x, y} \in overlooked'
      /\ \A pair \in overlooked' : pair \subseteq Rows
  BY <1>1, <1>2 DEF DirectoryTypeOK
<1>9. DirectoryTypeOK'
  BY <1>1, <1>5, <1>6, <1>7, <1>8 DEF DirectoryTypeOK
<1>10. \A y \in Rows \ {x} : Exists(y)' <=> Exists(y)
  BY <1>5 DEF Exists
<1>11. BuildingsTrimmed'
  <2>1. SUFFICES ASSUME NEW b \in Buildings, Exists(b)'
                 PROVE  ~register'[b].name.blank
    BY DEF BuildingsTrimmed
  <2>2. b \in Rows
    BY DEF Rows
  <2>3. CASE b = x
    BY <1>3, <1>4, <1>5, <2>3
  <2>4. CASE b # x
    BY <1>5, <1>10, <2>1, <2>2, <2>4 DEF BuildingsTrimmed
  <2>. QED
    BY <2>3, <2>4
<1>12. ASSUME NEW y \in Buildings \cup Flats, Together(x, y), Exists(y)',
              register'[y].scope = row.scope, register'[y].name.word = name.word
       PROVE  {x, y} \in overlooked' \/ register'[y].name.blank
  <2>1. y \in Rows /\ y # x /\ register'[y] = register[y] /\ Exists(y)
    BY <1>5, <1>10, <1>12 DEF Rows, Together
  <2>2. \/ y \in unchecked[c] \/ {x, y} \in overlooked \/ register[y].name.blank
    BY <1>1, <1>3, <1>4, <1>12, <2>1 DEF ClerkKnows, x
  <2>. QED
    BY <1>8, <2>1, <2>2
<1>13. NamesApart'
  <2>1. SUFFICES ASSUME NEW y \in Buildings \cup Flats, NEW z \in Buildings \cup Flats,
                        y # z, SameRegister(y, z), Exists(y)', Exists(z)',
                        register'[y].scope = register'[z].scope,
                        register'[y].name.word = register'[z].name.word
                 PROVE  \/ {y, z} \in overlooked'
                        \/ register'[y].name.blank \/ register'[z].name.blank
    BY DEF NamesApart, SameRegister
  <2>2. Together(y, z) /\ Together(z, y) /\ {y, z} = {z, y} /\ y \in Rows /\ z \in Rows
    BY <2>1, TogetherSwaps DEF Together, Rows
  <2>3. CASE y = x
    BY <1>4, <1>5, <1>12, <2>1, <2>2, <2>3
  <2>4. CASE z = x
    BY <1>4, <1>5, <1>12, <2>1, <2>2, <2>4
  <2>5. CASE y # x /\ z # x
    BY <1>5, <1>8, <1>10, <2>1, <2>2, <2>5 DEF NamesApart
  <2>. QED
    BY <2>3, <2>4, <2>5
<1>14. ClerkKnows'
  <2>1. SUFFICES ASSUME NEW d \in Clerks, clerk'[d] # Free, NEW y \in Buildings \cup Flats,
                        Together(clerk'[d].row, y), Exists(y)',
                        register'[y].scope = clerk'[d].scope,
                        register'[y].name.word = clerk'[d].name.word,
                        y \notin unchecked'[d]
                 PROVE  {clerk'[d].row, y} \in overlooked' \/ register'[y].name.blank
    BY DEF ClerkKnows, Together, SameRegister
  <2>2. d # c /\ clerk'[d] = clerk[d] /\ y # x /\ y \notin unchecked[d] /\ y \in Rows
    BY <1>6, <1>7, <2>1 DEF Rows
  <2>3. register'[y] = register[y] /\ Exists(y)
    BY <1>5, <1>10, <2>1, <2>2
  <2>4. {clerk[d].row, y} \in overlooked \/ register[y].name.blank
    BY <2>1, <2>2, <2>3 DEF ClerkKnows
  <2>. QED
    BY <1>8, <2>2, <2>3, <2>4
<1>. QED
  BY <1>9, <1>11, <1>13, <1>14

\* A row that goes clashes with nothing.
LEMMA DeleteBuildingStep ==
    ASSUME DirectoryInv, NEW b \in Buildings, DeleteBuilding(b)
    PROVE  DirectoryInv'
<1>. USE DEF DirectoryInv
<1>1. register' = [register EXCEPT ![b] = Blank] /\ UNCHANGED <<inUse, gone, clerk, unchecked, overlooked>>
  BY DEF DeleteBuilding, Blank
<1>2. /\ register' \in [Rows -> Row] /\ register'[b] = Blank
      /\ \A y \in Rows \ {b} : register'[y] = register[y]
  BY <1>1, BlankRow DEF DirectoryTypeOK, Rows
<1>3. \A y \in Rows : Exists(y)' => y # b /\ Exists(y)
  BY <1>2, BlankRow DEF Exists
<1>4. DirectoryTypeOK'
  BY <1>1, <1>2 DEF DirectoryTypeOK
<1>5. BuildingsTrimmed'
  BY <1>2, <1>3 DEF BuildingsTrimmed, Rows
<1>6. NamesApart'
  <2>1. SUFFICES ASSUME NEW y \in Buildings \cup Flats, NEW z \in Buildings \cup Flats,
                        y # z, SameRegister(y, z), Exists(y)', Exists(z)',
                        register'[y].scope = register'[z].scope,
                        register'[y].name.word = register'[z].name.word
                 PROVE  \/ {y, z} \in overlooked'
                        \/ register'[y].name.blank \/ register'[z].name.blank
    BY DEF NamesApart, SameRegister
  <2>2. y \in Rows /\ z \in Rows
    BY DEF Rows
  <2>3. register'[y] = register[y] /\ register'[z] = register[z] /\ Exists(y) /\ Exists(z)
    BY <1>2, <1>3, <2>1, <2>2
  <2>. QED
    BY <1>1, <2>1, <2>3 DEF NamesApart
<1>7. ClerkKnows'
  <2>1. SUFFICES ASSUME NEW d \in Clerks, clerk[d] # Free, NEW y \in Buildings \cup Flats,
                        Together(clerk[d].row, y), Exists(y)',
                        register'[y].scope = clerk[d].scope,
                        register'[y].name.word = clerk[d].name.word
                 PROVE  \/ y \in unchecked[d] \/ {clerk[d].row, y} \in overlooked
                        \/ register'[y].name.blank
    BY <1>1 DEF ClerkKnows, Together, SameRegister
  <2>2. y \in Rows
    BY DEF Rows
  <2>3. register'[y] = register[y] /\ Exists(y)
    BY <1>2, <1>3, <2>1, <2>2
  <2>. QED
    BY <2>1, <2>3 DEF ClerkKnows
<1>. QED
  BY <1>4, <1>5, <1>6, <1>7

LEMMA NamesKept ==
    ASSUME DirectoryInv, UNCHANGED <<inUse, register, unchecked, overlooked>>, gone' \subseteq Officers,
           clerk' \in [Clerks -> ClerkStep],
           \A d \in Clerks : clerk'[d] = clerk[d] \/ clerk'[d] = Free
    PROVE  DirectoryInv'
<1>1. DirectoryTypeOK'
  BY DEF DirectoryInv, DirectoryTypeOK
<1>2. (BuildingsTrimmed /\ NamesApart)'
  BY DEF DirectoryInv, BuildingsTrimmed, NamesApart, Exists
<1>3. ClerkKnows'
  BY DEF DirectoryInv, ClerkKnows, Together, SameRegister, Exists
<1>. QED
  BY <1>1, <1>2, <1>3 DEF DirectoryInv

\* What the directory keeps, with any number of clerks between the check of a name and the
\* write: what each knows of the names is right but for the overlaps it met (administration.service.ts).
THEOREM DirectoryInvariant == DirectorySpec => []DirectoryInv
<1>1. ASSUME DirectoryInv, [DirectoryNext]_directoryVars
      PROVE  DirectoryInv'
  <2>. inUse \subseteq Rows
    BY <1>1, InUse DEF DirectoryInv
  <2>1. CASE \E c \in Clerks, x \in inUse, n \in Spellings, scope \in Scopes :
                CheckName(c, x, n, scope)
    BY <1>1, <2>1, CheckNameStep
  <2>2. CASE \E c \in Clerks : WriteName(c)
    BY <1>1, <2>2, WriteNameStep
  <2>3. CASE \E b \in Buildings \cap inUse : DeleteBuilding(b)
    BY <1>1, <2>3, DeleteBuildingStep
  <2>4. CASE \E c \in Clerks : ClerkFails(c)
    BY <1>1, <2>4, NamesKept DEF ClerkFails, DirectoryInv, DirectoryTypeOK, ClerkStep
  <2>5. CASE (\E o \in Officers \cap inUse : SetOfficerStatus(o)) \/ UNCHANGED directoryVars
    BY <1>1, <2>5, NamesKept DEF SetOfficerStatus, directoryVars, DirectoryInv, DirectoryTypeOK
  <2>. QED
    BY <1>1, <2>1, <2>2, <2>3, <2>4, <2>5 DEF DirectoryNext
<1>. QED
  BY <1>1, DirectoryInitial, PTL DEF DirectorySpec

\* administration.service.ts: "`Block B' and `block b ' can't both exist in one estate",
\* but for names written behind the check and flats typed with a blank.
THEOREM NamesDiffer == DirectorySpec => []NamesApart
<1>. QED
  BY DirectoryInvariant, PTL DEF DirectoryInv

-----------------------------------------------------------------------------
(* Emergency alerts                                                        *)
AlertStatuses == {"NONE", "RESOLVED"} \cup Live

\* What the actions do to the row of an alert.
LEMMA Answered ==
    ASSUME NEW row \in EmergencyRow, NEW s \in Staff, NEW st \in AlertStatuses
    PROVE  LET new == [row EXCEPT !.status = st, !.acknowledgedBy = s]
           IN  /\ new \in EmergencyRow /\ new.status = st /\ new.fresh = row.fresh
               /\ new.acknowledgedBy = s
<1>. DEFINE new == [row EXCEPT !.status = st, !.acknowledgedBy = s]
<1>1. s \in Staff \cup {Unclaimed}
  OBVIOUS
<1>2. new \in EmergencyRow
  BY <1>1, Zenon DEF EmergencyRow, AlertStatuses
<1>3. new.status = st
  BY Zenon DEF EmergencyRow
<1>4. new.fresh = row.fresh
  BY Zenon DEF EmergencyRow
<1>5. new.acknowledgedBy = s
  BY Zenon DEF EmergencyRow
<1>. QED
  BY <1>2, <1>3, <1>4, <1>5

LEMMA Closed ==
    ASSUME NEW row \in EmergencyRow, NEW s \in Staff \cup Devices
    PROVE  LET new == [row EXCEPT !.status = "RESOLVED", !.resolvedBy = s]
           IN  /\ new \in EmergencyRow /\ new.status = "RESOLVED"
               /\ new.resolvedBy = s /\ new.acknowledgedBy = row.acknowledgedBy
<1>. DEFINE new == [row EXCEPT !.status = "RESOLVED", !.resolvedBy = s]
<1>1. s \in Staff \cup Devices \cup {Unclaimed} /\ "RESOLVED" \in AlertStatuses
  BY DEF AlertStatuses
<1>2. new \in EmergencyRow
  BY <1>1, Zenon DEF EmergencyRow, AlertStatuses
<1>3. new.status = "RESOLVED" /\ new.resolvedBy = s
  BY Zenon DEF EmergencyRow
<1>4. new.acknowledgedBy = row.acknowledgedBy
  BY Zenon DEF EmergencyRow
<1>. QED
  BY <1>2, <1>3, <1>4

LEMMA Aged ==
    ASSUME NEW row \in EmergencyRow, NEW fresh \in BOOLEAN
    PROVE  LET new == [row EXCEPT !.fresh = fresh]
           IN  /\ new \in EmergencyRow /\ new.fresh = fresh /\ new.status = row.status
               /\ new.acknowledgedBy = row.acknowledgedBy /\ new.resolvedBy = row.resolvedBy
<1>. DEFINE new == [row EXCEPT !.fresh = fresh]
<1>1. new \in EmergencyRow
  BY Zenon DEF EmergencyRow
<1>2. new.fresh = fresh
  BY Zenon DEF EmergencyRow
<1>3. new.status = row.status
  BY Zenon DEF EmergencyRow
<1>4. new.acknowledgedBy = row.acknowledgedBy
  BY Zenon DEF EmergencyRow
<1>5. new.resolvedBy = row.resolvedBy
  BY Zenon DEF EmergencyRow
<1>. QED
  BY <1>1, <1>2, <1>3, <1>4, <1>5

LEMMA Opened ==
    ASSUME NEW row \in EmergencyRow
    PROVE  LET new == [row EXCEPT !.status = "OPEN", !.fresh = TRUE]
           IN  new \in EmergencyRow
<1>. DEFINE new == [row EXCEPT !.status = "OPEN", !.fresh = TRUE]
<1>1. "OPEN" \in AlertStatuses /\ TRUE \in BOOLEAN
  BY DEF AlertStatuses, Live
<1>. QED
  BY <1>1, Zenon DEF EmergencyRow, AlertStatuses

\* An alert a press would find again.
Findable(a) == emergency[a].status \in Live /\ emergency[a].fresh

\* What a press that found nothing has not seen was created since it looked.
PressKnows ==
    \A d \in Devices : button[d].shows = "creating" =>
        \A a \in Alerts : Findable(a) => a \in button[d].missed

RowsFit == button \in [Devices -> ButtonRow] /\ emergency \in [Alerts -> EmergencyRow]

EmergencyInv == RowsFit /\ PressKnows /\ NoSecondAlarm

LEMMA EmergencyInitial == EmergencyInit => EmergencyInv
<1>. SUFFICES ASSUME EmergencyInit PROVE EmergencyInv
  OBVIOUS
<1>1. \A a \in Alerts : emergency[a].status = "NONE"
  BY DEF EmergencyInit
<1>2. NoSecondAlarm /\ PressKnows
  BY <1>1 DEF NoSecondAlarm, PressKnows, Findable, Live
<1>3. button \in [Devices -> ButtonRow]
  BY DEF EmergencyInit, ButtonRow
<1>4. emergency \in [Alerts -> EmergencyRow]
  <2>. DEFINE row == [status |-> "NONE", fresh |-> FALSE,
                      acknowledgedBy |-> Unclaimed, resolvedBy |-> Unclaimed]
  <2>1. "NONE" \in AlertStatuses /\ FALSE \in BOOLEAN /\ Unclaimed \in Staff \cup {Unclaimed}
        /\ Unclaimed \in Staff \cup Devices \cup {Unclaimed}
    BY DEF AlertStatuses
  <2>2. row \in EmergencyRow
    BY <2>1, Zenon DEF EmergencyRow, AlertStatuses
  <2>3. emergency = [a \in Alerts |-> row]
    BY DEF EmergencyInit
  <2>. HIDE DEF row
  <2>. QED
    BY <2>2, <2>3
<1>. QED
  BY <1>2, <1>3, <1>4 DEF EmergencyInv, RowsFit

\* A button shows an answer, and no alert is touched.
LEMMA ButtonChange ==
    ASSUME EmergencyInv, NEW d \in Devices, NEW a \in Alerts \cup {Unclaimed},
           NEW shows \in {"ready", "telling", "told", "nobody", "duplicate", "error"},
           Answer(d, shows, a), UNCHANGED <<emergency, passedBy>>
    PROVE  EmergencyInv'
<1>. DEFINE row == [shows |-> shows, alert |-> a, missed |-> {}]
<1>1. row \in ButtonRow /\ row.shows # "creating" /\ button' = [button EXCEPT ![d] = row]
  BY DEF ButtonRow, Answer
<1>. HIDE DEF row
<1>2. /\ button' \in [Devices -> ButtonRow] /\ button'[d] = row
      /\ \A e \in Devices \ {d} : button'[e] = button[e]
  BY <1>1 DEF EmergencyInv, RowsFit
<1>3. \A b \in Alerts : Findable(b)' <=> Findable(b)
  BY DEF Findable
<1>4. PressKnows'
  BY <1>1, <1>2, <1>3 DEF EmergencyInv, PressKnows
<1>5. NoSecondAlarm'
  BY DEF EmergencyInv, NoSecondAlarm
<1>. QED
  BY <1>2, <1>4, <1>5 DEF EmergencyInv, RowsFit

\* An alert is answered, closed or grows old: none becomes one a press would find.
LEMMA AlertChange ==
    ASSUME EmergencyInv, UNCHANGED <<button, passedBy>>, NEW a \in Alerts,
           NEW new \in EmergencyRow, emergency' = [emergency EXCEPT ![a] = new],
           new.status \in Live /\ new.fresh => Findable(a)
    PROVE  EmergencyInv'
<1>1. /\ emergency' \in [Alerts -> EmergencyRow] /\ emergency'[a] = new
      /\ \A b \in Alerts \ {a} : emergency'[b] = emergency[b]
  BY DEF EmergencyInv, RowsFit
<1>2. \A b \in Alerts : Findable(b)' => Findable(b)
  BY <1>1 DEF Findable
<1>3. PressKnows'
  BY <1>2 DEF EmergencyInv, PressKnows
<1>4. NoSecondAlarm'
  BY <1>2 DEF EmergencyInv, NoSecondAlarm, Findable
<1>. QED
  BY <1>1, <1>3, <1>4 DEF EmergencyInv, RowsFit

\* A press looks: it finds an alert, or there is none.
LEMMA RaiseStep ==
    ASSUME EmergencyInv, NEW d \in Devices, Raise(d)
    PROVE  EmergencyInv'
<1>. DEFINE same == {a \in Alerts : Findable(a)}
<1>1. UNCHANGED <<emergency, passedBy>>
  BY DEF Raise
<1>2. CASE same # {}
  <2>1. PICK a \in same : Answer(d, "duplicate", a)
    BY <1>2 DEF Raise, Findable
  <2>. QED
    BY <1>1, <2>1, ButtonChange
<1>3. CASE same = {}
  <2>. DEFINE row == [shows |-> "creating", alert |-> Unclaimed, missed |-> {}]
  <2>1. row \in ButtonRow /\ button' = [button EXCEPT ![d] = row]
    BY <1>3 DEF Raise, Findable, Answer, ButtonRow
  <2>. HIDE DEF row
  <2>2. button' \in [Devices -> ButtonRow]
    BY <2>1 DEF EmergencyInv, RowsFit
  <2>3. \A a \in Alerts : ~Findable(a)'
    BY <1>1, <1>3 DEF Findable
  <2>4. PressKnows' /\ NoSecondAlarm'
    BY <2>3 DEF PressKnows, NoSecondAlarm, Findable
  <2>. QED
    BY <1>1, <2>2, <2>4 DEF EmergencyInv, RowsFit
<1>. QED
  BY <1>2, <1>3

\* The new alert is paired with those its press missed, and is missed by the others'.
LEMMA CreateAlertStep ==
    ASSUME EmergencyInv, NEW d \in Devices, NEW a \in Alerts, CreateAlert(d, a)
    PROVE  EmergencyInv'
<1>1. button[d].shows = "creating" /\ emergency[a].status = "NONE"
  BY DEF CreateAlert
<1>. DEFINE new == [emergency[a] EXCEPT !.status = "OPEN", !.fresh = TRUE]
<1>2. new \in EmergencyRow
  BY Opened DEF EmergencyInv, RowsFit
<1>3. emergency' = [emergency EXCEPT ![a] = new]
  BY Zenon DEF CreateAlert, EmergencyInv, RowsFit
<1>. HIDE DEF new
<1>4. /\ emergency' \in [Alerts -> EmergencyRow]
      /\ \A b \in Alerts \ {a} : emergency'[b] = emergency[b]
  BY <1>2, <1>3 DEF EmergencyInv, RowsFit
<1>5. \A b \in Alerts \ {a} : Findable(b)' => Findable(b)
  BY <1>4 DEF Findable
<1>6. \A e \in Devices : button[e] \in ButtonRow /\ button[e].missed \in SUBSET Alerts
  BY DEF EmergencyInv, RowsFit, ButtonRow
<1>7. \A e \in Devices :
        /\ button'[e] \in ButtonRow
        /\ button'[e].shows = "creating" =>
              button[e].shows = "creating" /\ button'[e].missed = button[e].missed \cup {a}
  <2>. TAKE e \in Devices
  <2>1. button'[e] = CASE e = d -> [shows |-> "telling", alert |-> a, missed |-> {}]
                      [] e # d /\ button[e].shows = "creating" ->
                           [button[e] EXCEPT !.missed = @ \cup {a}]
                      [] OTHER -> button[e]
    BY DEF CreateAlert
  <2>2. CASE e = d
    BY <2>1, <2>2 DEF ButtonRow
  <2>3. CASE e # d /\ button[e].shows = "creating"
    BY <1>6, <2>1, <2>3 DEF ButtonRow
  <2>4. CASE e # d /\ button[e].shows # "creating"
    BY <1>6, <2>1, <2>4
  <2>. QED
    BY <2>2, <2>3, <2>4
<1>8. button' \in [Devices -> ButtonRow]
  <2>1. DOMAIN button' = Devices /\ button' = [e \in DOMAIN button' |-> button'[e]]
    BY DEF CreateAlert
  <2>. QED
    BY <1>7, <2>1
<1>9. passedBy' = passedBy \cup {{a, b} : b \in button[d].missed}
  BY DEF CreateAlert
<1>10. PressKnows'
  <2>1. SUFFICES ASSUME NEW e \in Devices, button'[e].shows = "creating",
                        NEW b \in Alerts, Findable(b)'
                 PROVE  b \in button'[e].missed
    BY DEF PressKnows
  <2>2. b = a \/ b \in button[e].missed
    BY <1>5, <1>7, <2>1 DEF EmergencyInv, PressKnows
  <2>. QED
    BY <1>7, <2>1, <2>2
<1>11. NoSecondAlarm'
  <2>1. SUFFICES ASSUME NEW b \in Alerts, NEW c \in Alerts, b # c, Findable(b)', Findable(c)'
                 PROVE  {b, c} \in passedBy'
    BY DEF NoSecondAlarm, Findable
  <2>2. \A x \in Alerts \ {a} : Findable(x)' => {a, x} \in passedBy'
    BY <1>1, <1>5, <1>9 DEF EmergencyInv, PressKnows
  <2>3. CASE b = a \/ c = a
    <3>1. {b, c} = {c, b}
      OBVIOUS
    <3>. QED
      BY <2>1, <2>2, <2>3, <3>1
  <2>4. CASE b # a /\ c # a
    BY <1>5, <1>9, <2>1, <2>4 DEF EmergencyInv, NoSecondAlarm, Findable
  <2>. QED
    BY <2>3, <2>4
<1>. QED
  BY <1>4, <1>8, <1>10, <1>11 DEF EmergencyInv, RowsFit

LEMMA AnswerStep ==
    ASSUME EmergencyInv, NEW a \in Alerts,
           \/ \E s \in Staff : Acknowledge(s, a) \/ Resolve(s, a)
           \/ \E d \in Devices : ResolveOwn(d, a)
           \/ AlertAges(a)
    PROVE  EmergencyInv'
<1>. DEFINE row == emergency[a]
<1>1. row \in EmergencyRow
  BY DEF EmergencyInv, RowsFit
<1>2. UNCHANGED <<button, passedBy>>
  BY DEF Acknowledge, Resolve, ResolveOwn, AlertAges
<1>3. ASSUME NEW s \in Staff, Acknowledge(s, a) PROVE EmergencyInv'
  <2>. DEFINE new == [row EXCEPT !.status = "ACKNOWLEDGED", !.acknowledgedBy = s]
  <2>1. new \in EmergencyRow /\ new.fresh = row.fresh
    BY <1>1, Answered DEF AlertStatuses, Live
  <2>2. emergency' = [emergency EXCEPT ![a] = new] /\ row.status = "OPEN"
    BY <1>3, Zenon DEF Acknowledge, EmergencyInv, RowsFit
  <2>. HIDE DEF new
  <2>3. new.fresh => Findable(a)
    BY <2>1, <2>2 DEF Findable, Live
  <2>. QED
    BY <1>2, <2>1, <2>2, <2>3, AlertChange
<1>4. ASSUME NEW s \in Staff \cup Devices,
             emergency' = [emergency EXCEPT ![a].status = "RESOLVED", ![a].resolvedBy = s]
      PROVE  EmergencyInv'
  <2>. DEFINE new == [row EXCEPT !.status = "RESOLVED", !.resolvedBy = s]
  <2>1. new \in EmergencyRow /\ new.status = "RESOLVED"
    BY <1>1, Closed
  <2>2. emergency' = [emergency EXCEPT ![a] = new]
    BY <1>4, Zenon DEF EmergencyInv, RowsFit
  <2>. HIDE DEF new
  <2>3. new.status \notin Live
    BY <2>1 DEF Live
  <2>. QED
    BY <1>2, <2>1, <2>2, <2>3, AlertChange
<1>5. ASSUME AlertAges(a) PROVE EmergencyInv'
  <2>. DEFINE new == [row EXCEPT !.fresh = FALSE]
  <2>1. new \in EmergencyRow /\ ~new.fresh
    BY <1>1, Aged
  <2>2. emergency' = [emergency EXCEPT ![a] = new]
    BY <1>5, Zenon DEF AlertAges, EmergencyInv, RowsFit
  <2>. HIDE DEF new
  <2>. QED
    BY <1>2, <2>1, <2>2, AlertChange
<1>. QED
  BY <1>3, <1>4, <1>5 DEF Resolve, ResolveOwn

LEMMA TellStep ==
    ASSUME EmergencyInv, NEW d \in Devices, TellStaff(d) \/ RaiseFails(d)
    PROVE  EmergencyInv'
<1>1. UNCHANGED <<emergency, passedBy>>
  BY DEF TellStaff, RaiseFails
<1>2. \E shows \in {"told", "nobody", "error"} : Answer(d, shows, Unclaimed)
  BY DEF TellStaff, RaiseFails
<1>. QED
  BY <1>1, <1>2, ButtonChange

\* What the emergency button keeps, with any number of presses and answers under way: a press
\* that saw no open alert is of an alert that is not open, or overlapped (emergency.service.ts).
THEOREM EmergencyInvariant == EmergencySpec => []EmergencyInv
<1>1. ASSUME EmergencyInv, [EmergencyNext]_emergencyVars
      PROVE  EmergencyInv'
  <2>1. CASE \E d \in Devices : Raise(d) \/ TellStaff(d) \/ RaiseFails(d)
    BY <1>1, <2>1, RaiseStep, TellStep
  <2>2. CASE \E d \in Devices, a \in Alerts : CreateAlert(d, a)
    BY <1>1, <2>2, CreateAlertStep
  <2>3. CASE \E a \in Alerts : \/ \E s \in Staff : Acknowledge(s, a) \/ Resolve(s, a)
                               \/ \E d \in Devices : ResolveOwn(d, a)
                               \/ AlertAges(a)
    BY <1>1, <2>3, AnswerStep
  <2>4. CASE (\E s \in Staff : TellResident(s) \/ SetOnDuty(s)) \/ UNCHANGED emergencyVars
    <3>1. UNCHANGED <<emergency, button, passedBy>>
      BY <2>4 DEF TellResident, SetOnDuty, emergencyVars
    <3>. QED
      BY <1>1, <3>1 DEF EmergencyInv, RowsFit, PressKnows, NoSecondAlarm, Findable
  <2>. QED
    BY <1>1, <2>1, <2>2, <2>3, <2>4 DEF EmergencyNext
<1>. QED
  BY <1>1, EmergencyInitial, PTL DEF EmergencySpec

\* emergency.service.ts: "Pressing the button twice must not alarm everyone twice", unless
\* each press looked before the other's alert was there.
THEOREM AlarmedOnce == EmergencySpec => []NoSecondAlarm
<1>. QED
  BY EmergencyInvariant, PTL DEF EmergencyInv
-----------------------------------------------------------------------------
(* Who is told of an emergency, once.                                        *)

Ack == "EMERGENCY_ACKNOWLEDGED"
Res == "EMERGENCY_RESOLVED"

\* A notice not sent yet is of the officer who claimed or closed the alert, and the first of
\* its kind; who still has the claim to tell has not told of the closing.
ResponderFits(s) ==
    responder[s] # Unclaimed =>
        LET n == responder[s]
            row == emergency[n.alert]
        IN  /\ n.by = s
            /\ Said(n.type, n.alert) = {}
            /\ n.type = Ack => /\ row.status \in {"ACKNOWLEDGED", "RESOLVED"}
                               /\ row.acknowledgedBy = s
                               /\ \A j \in Said(Res, n.alert) : bell[n.alert][j].by # s
            /\ n.type = Res => row.status = "RESOLVED" /\ row.resolvedBy = s

\* What the bell says of an alert is so, and is said once.
BellFits(a) ==
    /\ \A i \in Said(Ack, a) : /\ emergency[a].status \in {"ACKNOWLEDGED", "RESOLVED"}
                               /\ bell[a][i].by = emergency[a].acknowledgedBy
    /\ \A i \in Said(Res, a) : /\ emergency[a].status = "RESOLVED"
                               /\ bell[a][i].by = emergency[a].resolvedBy
    /\ \A type \in {Ack, Res} : \A i, j \in Said(type, a) : i = j
    /\ \A i \in Said(Ack, a), j \in Said(Res, a) : j < i => bell[a][i].by # bell[a][j].by

HelpInv ==
    /\ EmergencyInv
    /\ bell \in [Alerts -> Seq(Notice)] /\ responder \in [Staff -> Notice \cup {Unclaimed}]
    /\ \A s \in Staff : ResponderFits(s)
    /\ \A a \in Alerts : BellFits(a)

LEMMA HelpInitial == EmergencyInit => HelpInv
<1>. SUFFICES ASSUME EmergencyInit PROVE HelpInv
  OBVIOUS
<1>1. /\ EmergencyInv /\ bell \in [Alerts -> Seq(Notice)]
      /\ responder \in [Staff -> Notice \cup {Unclaimed}]
  BY EmergencyInitial DEF EmergencyInit
<1>2. \A a \in Alerts, type \in {Ack, Res} : Said(type, a) = {}
  BY DEF EmergencyInit, Said
<1>3. \A s \in Staff : ResponderFits(s)
  BY DEF EmergencyInit, ResponderFits
<1>4. \A a \in Alerts : BellFits(a)
  BY <1>2 DEF BellFits
<1>. QED
  BY <1>1, <1>3, <1>4 DEF HelpInv

\* The row of an alert changes: a claim and a closing stay as they are.
LEMMA ClaimStays ==
    ASSUME HelpInv, bell' = bell, NEW a \in Alerts, NEW new \in EmergencyRow,
           emergency' = [emergency EXCEPT ![a] = new],
           emergency[a].status \in {"ACKNOWLEDGED", "RESOLVED"} =>
              /\ new.status \in {"ACKNOWLEDGED", "RESOLVED"}
              /\ new.acknowledgedBy = emergency[a].acknowledgedBy,
           emergency[a].status = "RESOLVED" =>
              new.status = "RESOLVED" /\ new.resolvedBy = emergency[a].resolvedBy
    PROVE  /\ \A b \in Alerts : BellFits(b)'
           /\ \A s \in Staff : responder'[s] = responder[s] => ResponderFits(s)'
<1>1. /\ emergency'[a] = new /\ \A b \in Alerts \ {a} : emergency'[b] = emergency[b]
  BY DEF HelpInv, EmergencyInv, RowsFit
<1>2. \A b \in Alerts :
        /\ emergency[b].status \in {"ACKNOWLEDGED", "RESOLVED"} =>
              /\ emergency'[b].status \in {"ACKNOWLEDGED", "RESOLVED"}
              /\ emergency'[b].acknowledgedBy = emergency[b].acknowledgedBy
        /\ emergency[b].status = "RESOLVED" =>
              emergency'[b].status = "RESOLVED" /\ emergency'[b].resolvedBy = emergency[b].resolvedBy
  BY <1>1
<1>3. \A b \in Alerts : BellFits(b)'
  BY <1>2 DEF HelpInv, BellFits, Said
<1>4. ASSUME NEW s \in Staff, responder'[s] = responder[s] PROVE ResponderFits(s)'
  <2>1. responder[s] # Unclaimed => responder[s].alert \in Alerts
    BY DEF HelpInv, Notice
  <2>. QED
    BY <1>2, <1>4, <2>1 DEF HelpInv, ResponderFits, Said
<1>. QED
  BY <1>3, <1>4

\* A step of the button: the bell, the claims and the notices are left alone.
LEMMA HelpAlone ==
    ASSUME HelpInv, UNCHANGED <<emergency, bell, responder>>, EmergencyInv'
    PROVE  HelpInv'
<1>1. \A s \in Staff : ResponderFits(s)'
  BY DEF HelpInv, ResponderFits, Said
<1>2. ASSUME NEW a \in Alerts PROVE BellFits(a)'
  <2>1. BellFits(a) /\ \A type : Said(type, a)' = Said(type, a)
    BY DEF HelpInv, Said
  <2>. QED
    BY <2>1 DEF BellFits
<1>. QED
  BY <1>1, <1>2 DEF HelpInv

\* Nobody answers: the alert is created, grows old, or is closed by the resident.
LEMMA UnansweredStep ==
    ASSUME HelpInv, EmergencyInv', NEW a \in Alerts,
           (\E d \in Devices : CreateAlert(d, a) \/ ResolveOwn(d, a)) \/ AlertAges(a)
    PROVE  HelpInv'
<1>1. UNCHANGED <<bell, responder>>
  BY DEF CreateAlert, ResolveOwn, AlertAges
<1>. DEFINE row == emergency[a]
<1>2. row \in EmergencyRow
  BY DEF HelpInv, EmergencyInv, RowsFit
<1>3. \E new \in EmergencyRow :
        /\ emergency' = [emergency EXCEPT ![a] = new]
        /\ row.status \in {"ACKNOWLEDGED", "RESOLVED"} =>
              /\ new.status \in {"ACKNOWLEDGED", "RESOLVED"}
              /\ new.acknowledgedBy = row.acknowledgedBy
        /\ row.status = "RESOLVED" => new.status = "RESOLVED" /\ new.resolvedBy = row.resolvedBy
  <2>1. CASE \E d \in Devices : CreateAlert(d, a)
    <3>. DEFINE new == [row EXCEPT !.status = "OPEN", !.fresh = TRUE]
    <3>1. new \in EmergencyRow
      BY <1>2, Opened
    <3>2. emergency' = [emergency EXCEPT ![a] = new] /\ row.status = "NONE"
      BY <2>1, Zenon DEF CreateAlert, HelpInv, EmergencyInv, RowsFit
    <3>. HIDE DEF new
    <3>. QED
      BY <3>1, <3>2
  <2>2. CASE \E d \in Devices : ResolveOwn(d, a)
    <3>1. PICK d \in Devices : ResolveOwn(d, a)
      BY <2>2
    <3>. DEFINE new == [row EXCEPT !.status = "RESOLVED", !.resolvedBy = d]
    <3>2. new \in EmergencyRow /\ new.status = "RESOLVED" /\ new.acknowledgedBy = row.acknowledgedBy
      BY <1>2, Closed
    <3>3. emergency' = [emergency EXCEPT ![a] = new] /\ row.status \in Live
      BY <3>1, Zenon DEF ResolveOwn, HelpInv, EmergencyInv, RowsFit
    <3>. HIDE DEF new
    <3>. QED
      BY <3>2, <3>3 DEF Live
  <2>3. CASE AlertAges(a)
    <3>. DEFINE new == [row EXCEPT !.fresh = FALSE]
    <3>1. /\ new \in EmergencyRow /\ new.status = row.status
          /\ new.acknowledgedBy = row.acknowledgedBy /\ new.resolvedBy = row.resolvedBy
      BY <1>2, Aged
    <3>2. emergency' = [emergency EXCEPT ![a] = new]
      BY <2>3, Zenon DEF AlertAges, HelpInv, EmergencyInv, RowsFit
    <3>. HIDE DEF new
    <3>. QED
      BY <3>1, <3>2
  <2>. QED
    BY <2>1, <2>2, <2>3
<1>4. /\ \A b \in Alerts : BellFits(b)'
      /\ \A s \in Staff : responder'[s] = responder[s] => ResponderFits(s)'
  BY <1>1, <1>3, ClaimStays
<1>. QED
  BY <1>1, <1>4 DEF HelpInv

\* An officer claims an open alert, or closes a live one, and is about to tell of it.
LEMMA AnsweredStep ==
    ASSUME HelpInv, EmergencyInv', NEW a \in Alerts, NEW s \in Staff,
           Acknowledge(s, a) \/ Resolve(s, a)
    PROVE  HelpInv'
<1>. DEFINE row == emergency[a]
<1>1. row \in EmergencyRow /\ BellFits(a)
  BY DEF HelpInv, EmergencyInv, RowsFit
<1>2. \E new \in EmergencyRow, n \in Notice :
        /\ emergency' = [emergency EXCEPT ![a] = new]
        /\ responder' = [responder EXCEPT ![s] = n]
        /\ n.by = s /\ n.alert = a
        /\ \/ /\ n.type = Ack /\ row.status = "OPEN"
              /\ new.status = "ACKNOWLEDGED" /\ new.acknowledgedBy = s
           \/ /\ n.type = Res /\ row.status \in Live /\ new.status = "RESOLVED"
              /\ new.resolvedBy = s /\ new.acknowledgedBy = row.acknowledgedBy
  <2>1. CASE Acknowledge(s, a)
    <3>. DEFINE new == [row EXCEPT !.status = "ACKNOWLEDGED", !.acknowledgedBy = s]
                n == [type |-> Ack, alert |-> a, by |-> s]
    <3>1. new \in EmergencyRow /\ new.status = "ACKNOWLEDGED" /\ new.acknowledgedBy = s
      <4>1. new \in EmergencyRow
        BY <1>1, Answered DEF AlertStatuses, Live
      <4>2. new.status = "ACKNOWLEDGED"
        BY <1>1, Zenon DEF EmergencyRow
      <4>3. new.acknowledgedBy = s
        BY <1>1, Zenon DEF EmergencyRow
      <4>. QED
        BY <4>1, <4>2, <4>3
    <3>2. emergency' = [emergency EXCEPT ![a] = new] /\ row.status = "OPEN"
      BY <2>1, Zenon DEF Acknowledge, HelpInv, EmergencyInv, RowsFit
    <3>3. n \in Notice /\ n.type = Ack /\ n.by = s /\ n.alert = a
      BY DEF Notice, Ack
    <3>4. responder' = [responder EXCEPT ![s] = n]
      BY <2>1 DEF Acknowledge, Ack
    <3>. HIDE DEF new, n
    <3>. QED
      BY <3>1, <3>2, <3>3, <3>4
  <2>2. CASE Resolve(s, a)
    <3>. DEFINE new == [row EXCEPT !.status = "RESOLVED", !.resolvedBy = s]
                n == [type |-> Res, alert |-> a, by |-> s]
    <3>1. /\ new \in EmergencyRow /\ new.status = "RESOLVED" /\ new.resolvedBy = s
          /\ new.acknowledgedBy = row.acknowledgedBy
      BY <1>1, Closed
    <3>2. emergency' = [emergency EXCEPT ![a] = new] /\ row.status \in Live
      BY <2>2, Zenon DEF Resolve, HelpInv, EmergencyInv, RowsFit
    <3>3. n \in Notice /\ n.type = Res /\ n.by = s /\ n.alert = a
      BY DEF Notice, Res
    <3>4. responder' = [responder EXCEPT ![s] = n]
      BY <2>2 DEF Resolve, Res
    <3>. HIDE DEF new, n
    <3>. QED
      BY <3>1, <3>2, <3>3, <3>4
  <2>. QED
    BY <2>1, <2>2
<1>3. PICK new \in EmergencyRow, n \in Notice :
        /\ emergency' = [emergency EXCEPT ![a] = new]
        /\ responder' = [responder EXCEPT ![s] = n]
        /\ n.by = s /\ n.alert = a
        /\ \/ /\ n.type = Ack /\ row.status = "OPEN"
              /\ new.status = "ACKNOWLEDGED" /\ new.acknowledgedBy = s
           \/ /\ n.type = Res /\ row.status \in Live /\ new.status = "RESOLVED"
              /\ new.resolvedBy = s /\ new.acknowledgedBy = row.acknowledgedBy
  BY <1>2
<1>4. bell' = bell
  BY DEF Acknowledge, Resolve
<1>5. /\ responder' \in [Staff -> Notice \cup {Unclaimed}] /\ responder'[s] = n
      /\ \A r \in Staff \ {s} : responder'[r] = responder[r]
      /\ emergency'[a] = new
  BY <1>3 DEF HelpInv, EmergencyInv, RowsFit
<1>6. /\ row.status \in {"ACKNOWLEDGED", "RESOLVED"} =>
              /\ new.status \in {"ACKNOWLEDGED", "RESOLVED"}
              /\ new.acknowledgedBy = row.acknowledgedBy
      /\ row.status # "RESOLVED"
  BY <1>3 DEF Live
<1>7. /\ \A b \in Alerts : BellFits(b)'
      /\ \A r \in Staff : responder'[r] = responder[r] => ResponderFits(r)'
  BY <1>3, <1>4, <1>6, ClaimStays
<1>8. ResponderFits(s)'
  <2>1. n.type = Ack => Said(Ack, a) = {} /\ Said(Res, a) = {}
    BY <1>1, <1>3 DEF BellFits, Ack, Res
  <2>2. n.type = Res => Said(Res, a) = {}
    BY <1>1, <1>6 DEF BellFits
  <2>3. n.type \in {Ack, Res} /\ Ack # Res
    BY DEF Notice, Ack, Res
  <2>. QED
    BY <1>3, <1>4, <1>5, <2>1, <2>2, <2>3 DEF ResponderFits, Said
<1>. QED
  BY <1>4, <1>5, <1>7, <1>8 DEF HelpInv

\* The notice reaches the resident's bell, or is lost.
LEMMA TellResidentStep ==
    ASSUME HelpInv, EmergencyInv', NEW s \in Staff, TellResident(s)
    PROVE  HelpInv'
<1>1. /\ emergency' = emergency /\ responder[s] # Unclaimed
      /\ responder' = [responder EXCEPT ![s] = Unclaimed]
  BY DEF TellResident
<1>2. /\ responder' \in [Staff -> Notice \cup {Unclaimed}] /\ responder'[s] = Unclaimed
      /\ \A r \in Staff \ {s} : responder'[r] = responder[r]
  BY <1>1 DEF HelpInv
<1>3. PICK n \in Notice : n = responder[s]
  BY <1>1 DEF HelpInv
<1>4. n.alert \in Alerts /\ n.by \in Staff /\ n.type \in {Ack, Res}
  BY DEF Notice, Ack, Res
<1>5. CASE bell' = bell
  <2>1. \A r \in Staff : ResponderFits(r)'
    BY <1>1, <1>2, <1>5 DEF HelpInv, ResponderFits, Said
  <2>2. \A a \in Alerts : BellFits(a)'
    BY <1>1, <1>5 DEF HelpInv, BellFits, Said
  <2>. QED
    BY <1>2, <1>5, <2>1, <2>2 DEF HelpInv
<1>6. CASE bell' = [bell EXCEPT ![n.alert] = Append(@, n)]
  <2>. DEFINE c == n.alert
              len == Len(bell[c])
  <2>1. /\ bell[c] \in Seq(Notice) /\ len \in Nat
        /\ bell' \in [Alerts -> Seq(Notice)] /\ bell'[c] = Append(bell[c], n)
        /\ \A a \in Alerts \ {c} : bell'[a] = bell[a]
    BY <1>4, <1>6 DEF HelpInv
  <2>2. /\ Len(bell'[c]) = len + 1 /\ bell'[c][len + 1] = n
        /\ \A i \in 1..len : bell'[c][i] = bell[c][i]
    BY <2>1
  <2>3. \A type : Said(type, c)' = IF type = n.type THEN Said(type, c) \cup {len + 1}
                                   ELSE Said(type, c)
    BY <2>1, <2>2 DEF Said
  <2>4. \A type : \A a \in Alerts \ {c} : Said(type, a)' = Said(type, a)
    BY <2>1 DEF Said
  <2>5. \A type : Said(type, c) \subseteq 1..len
    BY DEF Said
  <2>6. ResponderFits(s) /\ BellFits(c)
    BY <1>4 DEF HelpInv
  <2>7. ASSUME NEW a \in Alerts PROVE BellFits(a)'
    <3>1. CASE a # c
      BY <1>1, <2>1, <2>4, <2>7, <3>1 DEF HelpInv, BellFits
    <3>2. CASE a = c
      <4>. DEFINE row == emergency[c]
      <4>1. /\ Said(n.type, c)' = {len + 1} /\ n.by = s
            /\ \A type : type # n.type => Said(type, c)' = Said(type, c)
        BY <1>1, <1>3, <2>3, <2>6 DEF ResponderFits
      <4>2. CASE n.type = Ack
        <5>1. /\ row.status \in {"ACKNOWLEDGED", "RESOLVED"} /\ row.acknowledgedBy = s
              /\ \A j \in Said(Res, c) : bell[c][j].by # s
          BY <1>1, <1>3, <2>6, <4>2 DEF ResponderFits
        <5>2. Said(Ack, c)' = {len + 1} /\ Said(Res, c)' = Said(Res, c)
          BY <4>1, <4>2 DEF Ack, Res
        <5>3. \A j \in Said(Res, c) : bell'[c][j] = bell[c][j]
          BY <2>2, <2>5
        <5>. QED
          BY <1>1, <2>2, <2>6, <3>2, <4>1, <5>1, <5>2, <5>3 DEF BellFits
      <4>3. CASE n.type = Res
        <5>1. row.status = "RESOLVED" /\ row.resolvedBy = s
          BY <1>1, <1>3, <2>6, <4>3 DEF ResponderFits
        <5>2. Said(Res, c)' = {len + 1} /\ Said(Ack, c)' = Said(Ack, c)
          BY <4>1, <4>3 DEF Ack, Res
        <5>3. \A j \in Said(Ack, c) : bell'[c][j] = bell[c][j] /\ ~(len + 1 < j)
          BY <2>1, <2>2, <2>5
        <5>. QED
          BY <1>1, <2>2, <2>6, <3>2, <4>1, <5>1, <5>2, <5>3 DEF BellFits
      <4>. QED
        BY <1>4, <4>2, <4>3
    <3>. QED
      BY <3>1, <3>2
  <2>8. ASSUME NEW r \in Staff PROVE ResponderFits(r)'
    <3>. SUFFICES ASSUME r # s, responder[r] # Unclaimed PROVE ResponderFits(r)'
      BY <1>2 DEF ResponderFits
    <3>1. PICK m \in Notice : m = responder[r]
      BY <2>8 DEF HelpInv
    <3>2. responder'[r] = m /\ ResponderFits(r)
      BY <1>2, <2>8, <3>1 DEF HelpInv
    <3>3. m.alert \in Alerts /\ m.type \in {Ack, Res}
      BY DEF Notice, Ack, Res
    <3>4. CASE m.alert # c
      BY <1>1, <2>1, <2>4, <3>1, <3>2, <3>3, <3>4 DEF ResponderFits
    <3>5. CASE m.alert = c
      <4>1. m.type # n.type
        BY <1>1, <1>3, <1>4, <2>6, <3>1, <3>2, <3>3, <3>5 DEF ResponderFits
      <4>2. Said(m.type, c)' = Said(m.type, c)
        BY <2>3, <4>1
      <4>3. m.type = Ack => \A j \in Said(Res, c)' : bell'[c][j].by # r
        <5>. SUFFICES ASSUME m.type = Ack, NEW j \in Said(Res, c)' PROVE bell'[c][j].by # r
          OBVIOUS
        <5>1. n.type = Res /\ Said(Res, c)' = Said(Res, c) \cup {len + 1}
          BY <1>4, <2>3, <4>1
        <5>2. n.by = s /\ \A i \in Said(Res, c) : bell[c][i].by # r
          BY <1>1, <1>3, <2>6, <3>1, <3>2, <3>5 DEF ResponderFits
        <5>3. CASE j = len + 1
          BY <2>2, <5>2, <5>3
        <5>4. CASE j \in Said(Res, c)
          BY <2>2, <2>5, <5>2, <5>4
        <5>. QED
          BY <5>1, <5>3, <5>4
      <4>. QED
        BY <1>1, <3>1, <3>2, <3>5, <4>2, <4>3 DEF ResponderFits
    <3>. QED
      BY <3>4, <3>5
  <2>. QED
    BY <1>2, <2>1, <2>7, <2>8 DEF HelpInv
<1>. QED
  BY <1>3, <1>5, <1>6 DEF TellResident

(* What is on the bell, and what is about to be told, fits the rows of the    *)
(* alerts, however many officers answer at once (emergency.service.ts).       *)
THEOREM HelpInvariant == EmergencySpec => []HelpInv
<1>1. ASSUME HelpInv, EmergencyInv', [EmergencyNext]_emergencyVars
      PROVE  HelpInv'
  <2>1. CASE \/ \E d \in Devices : Raise(d) \/ TellStaff(d) \/ RaiseFails(d)
             \/ \E s \in Staff : SetOnDuty(s)
             \/ UNCHANGED emergencyVars
    <3>1. UNCHANGED <<emergency, bell, responder>>
      BY <2>1 DEF Raise, TellStaff, RaiseFails, SetOnDuty, emergencyVars
    <3>. QED
      BY <1>1, <3>1, HelpAlone
  <2>2. CASE \E a \in Alerts : \/ \E d \in Devices : CreateAlert(d, a) \/ ResolveOwn(d, a)
                               \/ AlertAges(a)
    BY <1>1, <2>2, UnansweredStep
  <2>3. CASE \E s \in Staff, a \in Alerts : Acknowledge(s, a) \/ Resolve(s, a)
    BY <1>1, <2>3, AnsweredStep
  <2>4. CASE \E s \in Staff : TellResident(s)
    BY <1>1, <2>4, TellResidentStep
  <2>. QED
    BY <1>1, <2>1, <2>2, <2>3, <2>4 DEF EmergencyNext
<1>2. EmergencySpec => []EmergencyInv
  BY EmergencyInvariant
<1>. QED
  BY <1>1, <1>2, HelpInitial, PTL DEF EmergencySpec

(* emergency.service.ts: "Tell the resident help is coming - once, only for   *)
(* the person who actually claimed it", for any number of officers, alerts    *)
(* and devices.                                                               *)
THEOREM HelpIsToldOnce == EmergencySpec => []HelpToldOnce
<1>1. ASSUME HelpInv PROVE HelpToldOnce
  <2>. SUFFICES ASSUME NEW a \in Alerts
                PROVE  \A type \in {Ack, Res} : Cardinality(Said(type, a)) <= 1
    BY <1>1 DEF HelpInv, BellFits, HelpToldOnce, Ack, Res
  <2>1. ASSUME NEW type \in {Ack, Res} PROVE Cardinality(Said(type, a)) <= 1
    <3>1. \A i, j \in Said(type, a) : i = j
      BY <1>1, <2>1 DEF HelpInv, BellFits
    <3>2. CASE Said(type, a) = {}
      BY <3>2, FS_EmptySet
    <3>3. CASE \E i : i \in Said(type, a)
      <4>1. PICK i : i \in Said(type, a)
        BY <3>3
      <4>2. Said(type, a) = {i}
        BY <3>1, <4>1
      <4>. QED
        <5>1. Cardinality({i}) = 1
          BY FS_Singleton
        <5>. QED
          BY <4>2, <5>1
    <3>. QED
      BY <3>2, <3>3
  <2>. QED
    BY <2>1
<1>. QED
  BY <1>1, HelpInvariant, PTL
=============================================================================
