------------------------------- MODULE Signup -------------------------------
(***************************************************************************)
(* An estate signs itself up (signup.service.ts): a pending row with a     *)
(* link in an e-mail, then an estate and its administrator's account.      *)
(*                                                                         *)
(* Each await of startSignup and completeSignup that matters is a step;    *)
(* the transaction of completeSignup locks the pending row with its first  *)
(* statement and is one.  The week after which an expired row is deleted   *)
(* is not counted: any row that has expired may be deleted.                *)
(***************************************************************************)
EXTENDS Naturals, FiniteSets

CONSTANTS
    Links,          \* pending rows, each with its link
    Addresses,      \* e-mail addresses that sign up
    Visitors,       \* requests under way at once
    Nowhere         \* no address

ASSUME NowhereAssumption == Nowhere \notin Addresses

VARIABLES
    pending,        \* PendingSignup rows
    stale,          \* links past expiresAt
    accounts,       \* addresses that have a user row
    phoneTaken,     \* the telephone number given is another account's
    visitor,        \* what each request is about to do, with what it has read
    estates,        \* how many estates a link has made
    overlap         \* addresses for which two submissions were handled at once

signupVars == <<pending, stale, accounts, phoneTaken, visitor, estates, overlap>>

PendingRow == [status: {"NONE", "PENDING", "SUPERSEDED", "VERIFIED", "DELETED"},
               address: Addresses \cup {Nowhere}, phone: BOOLEAN, recent: BOOLEAN]

Idle == [step |-> "idle"]

VisitorStep ==
    {Idle} \cup [step: {"supersede", "create"}, address: Addresses]
           \cup [step: {"claim"}, link: Links, phone: BOOLEAN]

SignupTypeOK ==
    /\ pending \in [Links -> PendingRow]
    /\ stale \subseteq Links
    /\ accounts \subseteq Addresses
    /\ phoneTaken \in BOOLEAN
    /\ visitor \in [Visitors -> VisitorStep]
    /\ estates \in [Links -> Nat]
    /\ overlap \subseteq Addresses

SignupInit ==
    /\ pending = [l \in Links |-> [status |-> "NONE", address |-> Nowhere,
                                   phone |-> FALSE, recent |-> FALSE]]
    /\ stale = {}
    /\ accounts = {}
    /\ phoneTaken = FALSE
    /\ visitor = [v \in Visitors |-> Idle]
    /\ estates = [l \in Links |-> 0]
    /\ overlap = {}
-----------------------------------------------------------------------------
Waiting(l, e) == pending[l].address = e /\ pending[l].status = "PENDING"

\* Submissions for the address that are past their checks.
Submitting(e) == {v \in Visitors : visitor[v].step \in {"supersede", "create"}
                                     /\ visitor[v].address = e}

\* startSignup: old rows are cleared away; an address with an account, or with
\* a link sent a moment ago, is answered as if a link had been sent.
StartSignup(v, e) ==
    /\ visitor[v] = Idle
    /\ \E old \in SUBSET stale :
         pending' = [l \in Links |-> IF l \in old THEN [pending[l] EXCEPT !.status = "DELETED"]
                                     ELSE pending[l]]
    /\ IF e \in accounts \/ \E l \in Links : Waiting(l, e)' /\ pending[l].recent
       THEN UNCHANGED <<visitor, overlap>>
       ELSE /\ visitor' = [visitor EXCEPT ![v] = [step |-> "supersede", address |-> e]]
            /\ overlap' = overlap \cup (IF Submitting(e) = {} THEN {} ELSE {e})
    /\ UNCHANGED <<stale, accounts, phoneTaken, estates>>

\* Mutant: the earlier links stay alive.
SupersedeNothing(v) ==
    /\ visitor[v].step = "supersede"
    /\ visitor' = [visitor EXCEPT ![v].step = "create"]
    /\ UNCHANGED <<pending, stale, accounts, phoneTaken, estates, overlap>>

\* A fresh submission kills the link of any earlier one.
SupersedePending(v) ==
    /\ visitor[v].step = "supersede"
    /\ pending' = [l \in Links |-> IF Waiting(l, visitor[v].address)
                                   THEN [pending[l] EXCEPT !.status = "SUPERSEDED"]
                                   ELSE pending[l]]
    /\ visitor' = [visitor EXCEPT ![v].step = "create"]
    /\ UNCHANGED <<stale, accounts, phoneTaken, estates, overlap>>

CreatePending(v, l) ==
    /\ visitor[v].step = "create"
    /\ pending[l].status = "NONE"
    /\ \E phone \in BOOLEAN :
         pending' = [pending EXCEPT ![l] = [status |-> "PENDING", phone |-> phone,
                                            address |-> visitor[v].address, recent |-> TRUE]]
    /\ visitor' = [visitor EXCEPT ![v] = Idle]
    /\ UNCHANGED <<stale, accounts, phoneTaken, estates, overlap>>

\* completeSignup: the link is live; a number that is taken is dropped.
CompleteSignupRead(v, l) ==
    /\ visitor[v] = Idle
    /\ pending[l].status = "PENDING"
    /\ l \notin stale
    /\ visitor' = [visitor EXCEPT ![v] = [step |-> "claim", link |-> l,
                                          phone |-> pending[l].phone /\ ~phoneTaken]]
    /\ UNCHANGED <<pending, stale, accounts, phoneTaken, estates, overlap>>

\* What the transaction could do now.
Claimable(v) ==
    LET l == visitor[v].link
    IN  /\ pending[l].status = "PENDING"
        /\ l \notin stale
        /\ pending[l].address \notin accounts
        /\ visitor[v].phone => ~phoneTaken

\* The row is claimed or dead by now, or the address or the number belongs to an
\* account: the transaction is rolled back and the row stays as it is.
ClaimRefused(v) ==
    /\ visitor[v].step = "claim"
    /\ ~Claimable(v)
    /\ visitor' = [visitor EXCEPT ![v] = Idle]
    /\ UNCHANGED <<pending, stale, accounts, phoneTaken, estates, overlap>>

\* Mutant: the claim looks for the row and not for its status.
CompleteSignupAnyway(v) ==
    /\ visitor[v].step = "claim"
    /\ LET l == visitor[v].link
       IN  /\ pending' = [pending EXCEPT ![l].status = "VERIFIED"]
           /\ accounts' = accounts \cup {pending[l].address}
           /\ estates' = [estates EXCEPT ![l] = @ + 1]
    /\ visitor' = [visitor EXCEPT ![v] = Idle]
    /\ UNCHANGED <<stale, phoneTaken, overlap>>

\* The claim, the estate and its administrator's account.
CompleteSignup(v) ==
    /\ visitor[v].step = "claim"
    /\ Claimable(v)
    /\ LET l == visitor[v].link
       IN  /\ pending' = [pending EXCEPT ![l].status = "VERIFIED"]
           /\ accounts' = accounts \cup {pending[l].address}
           /\ estates' = [estates EXCEPT ![l] = @ + 1]
           /\ phoneTaken' = (phoneTaken \/ visitor[v].phone)
    /\ visitor' = [visitor EXCEPT ![v] = Idle]
    /\ UNCHANGED <<stale, overlap>>

\* A request stops between two statements.
SignupFails(v) ==
    /\ visitor[v] # Idle
    /\ visitor' = [visitor EXCEPT ![v] = Idle]
    /\ UNCHANGED <<pending, stale, accounts, phoneTaken, estates, overlap>>

\* Time: the cooldown of a link ends, later the link runs out.
LinkAges(l) ==
    /\ pending[l].status # "NONE"
    /\ \/ pending[l].recent
          /\ pending' = [pending EXCEPT ![l].recent = FALSE]
          /\ UNCHANGED stale
       \/ ~pending[l].recent
          /\ l \notin stale
          /\ stale' = stale \cup {l}
          /\ UNCHANGED pending
    /\ UNCHANGED <<accounts, phoneTaken, visitor, estates, overlap>>

\* Another account comes to have the address (a resident's) or the number.
OtherAccount ==
    /\ \/ \E e \in Addresses : accounts' = accounts \cup {e} /\ UNCHANGED phoneTaken
       \/ phoneTaken' = TRUE /\ UNCHANGED accounts
    /\ UNCHANGED <<pending, stale, visitor, estates, overlap>>

SignupNext ==
    \/ \E v \in Visitors :
         \/ \E e \in Addresses : StartSignup(v, e)
         \/ SupersedePending(v)
         \/ \E l \in Links : CreatePending(v, l) \/ CompleteSignupRead(v, l)
         \/ ClaimRefused(v) \/ CompleteSignup(v) \/ SignupFails(v)
    \/ \E l \in Links : LinkAges(l)
    \/ OtherAccount

SignupSpec == SignupInit /\ [][SignupNext]_signupVars
-----------------------------------------------------------------------------
(* "A double-click or replay can never create a second estate"             *)
(* (signup.service.ts): an address makes one estate, whichever of its      *)
(* links are opened, however often and at once.                            *)
OneEstatePerAddress ==
    \A l, m \in Links :
        /\ estates[l] <= 1
        /\ (l # m /\ estates[l] > 0 /\ estates[m] > 0) => pending[l].address # pending[m].address

(* "One live pending signup per email" (signup.service.ts), except after   *)
(* two submissions for the address that were handled at once.              *)
OneLiveLink ==
    \A l, m \in Links :
        (l # m /\ pending[l].status = "PENDING" /\ pending[m].status = "PENDING")
          => pending[l].address # pending[m].address \/ pending[l].address \in overlap
=============================================================================
