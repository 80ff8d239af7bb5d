----------------------------- MODULE Residency -----------------------------
(***************************************************************************)
(* Who lives where: the administrator's buildings, apartments and          *)
(* residents (administration.service.ts) and the invitations by which a    *)
(* resident makes an account (resident-invites.service.ts).                *)
(*                                                                         *)
(* The database is PostgreSQL at READ COMMITTED.  A handler whose writes   *)
(* depend on what it read before is two or three steps; a handler that     *)
(* only relies on a foreign key or a unique column is one.  A person is an *)
(* e-mail address: the column is unique, so a person has one user row at   *)
(* most, and it is never deleted.                                          *)
(***************************************************************************)
EXTENDS Naturals, FiniteSets

CONSTANTS
    Persons, Apartments, Buildings, Invites,
    Admins,         \* requests the server may be working on at once
    Nobody,         \* no apartment, no building, no person
    MaxReinstated   \* bound on removed residents made ACTIVE again

ASSUME NobodyAssumption == Nobody \notin Apartments \cup Buildings \cup Persons
ASSUME MaxReinstatedAssumption == MaxReinstated \in Nat

VARIABLES
    buildings,      \* building rows
    apartment,      \* apartment rows; building = Nobody where there is none
    person,         \* the user row, and the apartment of the resident profile
    invite,
    expired,        \* invites past their expiresAt
    admin,          \* what each request is about to do, with what it has read
    unseen,         \* per request, apartments that changed since it looked
    offBook,        \* apartments whose status need not be right
    madeBy,         \* accounts made through each invite
    reinstated

residencyVars == <<buildings, apartment, person, invite, expired, admin, unseen,
                   offBook, madeBy, reinstated>>

homes == <<buildings, apartment, person, offBook, reinstated>>
-----------------------------------------------------------------------------
ApartmentRow == [building: Buildings \cup {Nobody}, status: {"VACANT", "OCCUPIED"}]

\* CURRENT: ACTIVE or SUSPENDED, which nothing here tells apart.
PersonRow == [user: {"NONE", "CURRENT", "REMOVED"}, home: Apartments \cup {Nobody}]

\* GONE: deleted together with the apartment.
InviteRow == [status: {"NONE", "PENDING", "USED", "REVOKED", "GONE"},
              home: Apartments \cup {Nobody}, person: Persons \cup {Nobody}]

Free == [step |-> "idle"]

AdminStep ==
    {Free}
      \cup [step: {"supersede", "insert"}, home: Apartments, person: Persons]
      \cup [step: {"resend", "cancel", "complete"}, invite: Invites]
      \cup [step: {"remove"}, person: Persons, from: Apartments]
      \cup [step: {"move"}, person: Persons, from: Apartments, to: Apartments]
      \cup [step: {"commit"}, person: Persons, from: Apartments,
            to: Apartments \cup {Nobody}, left: BOOLEAN, joined: BOOLEAN]
      \cup [step: {"demolish"}, building: Buildings]

ResidencyTypeOK ==
    /\ buildings \subseteq Buildings
    /\ apartment \in [Apartments -> ApartmentRow]
    /\ person \in [Persons -> PersonRow]
    /\ invite \in [Invites -> InviteRow]
    /\ expired \subseteq Invites
    /\ admin \in [Admins -> AdminStep]
    /\ unseen \in [Admins -> SUBSET Apartments]
    /\ offBook \subseteq Apartments
    /\ madeBy \in [Invites -> Nat]
    /\ reinstated \in Nat

ResidencyInit ==
    /\ buildings = Buildings
    /\ apartment = [a \in Apartments |-> [building |-> Nobody, status |-> "VACANT"]]
    /\ person = [p \in Persons |-> [user |-> "NONE", home |-> Nobody]]
    /\ invite = [i \in Invites |-> [status |-> "NONE", home |-> Nobody, person |-> Nobody]]
    /\ expired = {}
    /\ admin = [r \in Admins |-> Free]
    /\ unseen = [r \in Admins |-> {}]
    /\ offBook = {}
    /\ madeBy = [i \in Invites |-> 0]
    /\ reinstated = 0
-----------------------------------------------------------------------------
Stands(a) == apartment[a].building # Nobody

\* A resident who has not been removed; one who is suspended still lives there.
Lives(p, a) == person[p].home = a /\ person[p].user = "CURRENT"

Inhabited(a) == \E p \in Persons : Lives(p, a)

\* The count of recomputeApartmentOccupancy, which leaves one person out.
OthersIn(p, a) == \E q \in Persons \ {p} : Lives(q, a)

Status(occupied) == IF occupied THEN "OCCUPIED" ELSE "VACANT"

\* A request goes to its next step, having looked at the database just now.
Look(r, step) ==
    /\ admin' = [admin EXCEPT ![r] = step]
    /\ unseen' = [unseen EXCEPT ![r] = offBook]

\* A request is done; what it changed escapes those that looked before.
Done(r, changed) ==
    /\ admin' = [admin EXCEPT ![r] = Free]
    /\ unseen' = [s \in Admins |-> IF s = r THEN {} ELSE unseen[s] \cup changed]
-----------------------------------------------------------------------------
(* Buildings and apartments. *)

\* A duplicate name is refused; the building must exist.
CreateApartment(r, a) ==
    /\ admin[r] = Free
    /\ ~Stands(a)
    /\ \E b \in buildings :
         apartment' = [apartment EXCEPT ![a] = [building |-> b, status |-> "VACANT"]]
    /\ Done(r, {a})
    /\ UNCHANGED <<buildings, person, invite, expired, offBook, madeBy, reinstated>>

UpdateApartment(r, a) ==
    /\ admin[r] = Free
    /\ Stands(a)
    /\ \E b \in buildings : apartment' = [apartment EXCEPT ![a].building = b]
    /\ Done(r, {a})
    /\ UNCHANGED <<buildings, person, invite, expired, offBook, madeBy, reinstated>>

\* Mutant: the apartments are not counted.
RemoveBuildingUncounted(r, b) ==
    /\ admin[r] = Free
    /\ b \in buildings
    /\ admin' = [admin EXCEPT ![r] = [step |-> "demolish", building |-> b]]
    /\ unseen' = [unseen EXCEPT ![r] = {}]
    /\ UNCHANGED <<homes, invite, expired, madeBy>>

RemoveBuildingRead(r, b) ==
    /\ admin[r] = Free
    /\ b \in buildings
    /\ \A a \in Apartments : apartment[a].building # b
    /\ admin' = [admin EXCEPT ![r] = [step |-> "demolish", building |-> b]]
    /\ unseen' = [unseen EXCEPT ![r] = {}]
    /\ UNCHANGED <<homes, invite, expired, madeBy>>

\* The delete cascades to apartments, resident profiles and invites.
RemoveBuilding(r) ==
    /\ admin[r].step = "demolish"
    /\ admin[r].building \in buildings
    /\ LET gone == {a \in Apartments : apartment[a].building = admin[r].building}
       IN  /\ buildings' = buildings \ {admin[r].building}
           /\ apartment' = [a \in Apartments |->
                IF a \in gone THEN [building |-> Nobody, status |-> "VACANT"]
                              ELSE apartment[a]]
           /\ person' = [p \in Persons |->
                IF person[p].home \in gone THEN [person[p] EXCEPT !.home = Nobody]
                                           ELSE person[p]]
           /\ invite' = [i \in Invites |->
                IF invite[i].home \in gone
                THEN [invite[i] EXCEPT !.status = "GONE"]
                ELSE invite[i]]
           /\ offBook' = offBook \ gone
           /\ Done(r, gone)
    /\ UNCHANGED <<expired, madeBy, reinstated>>
-----------------------------------------------------------------------------
(* Residents. *)

\* A user for a new e-mail, a profile and the status, in one transaction.
CreateResident(r, p, a) ==
    /\ admin[r] = Free
    /\ Stands(a)
    /\ person[p].user = "NONE"
    /\ person' = [person EXCEPT ![p] = [user |-> "CURRENT", home |-> a]]
    /\ apartment' = [apartment EXCEPT ![a].status = "OCCUPIED"]
    /\ offBook' = offBook \ {a}
    /\ Done(r, {a})
    /\ UNCHANGED <<buildings, invite, expired, madeBy, reinstated>>

\* removeResident and updateResident read the profile first.
RemoveResidentRead(r, p) ==
    /\ admin[r] = Free
    /\ person[p].home # Nobody
    /\ Look(r, [step |-> "remove", person |-> p, from |-> person[p].home])
    /\ UNCHANGED <<homes, invite, expired, madeBy>>

UpdateResidentRead(r, p, to) ==
    /\ admin[r] = Free
    /\ person[p].home # Nobody
    /\ Stands(to)
    /\ Look(r, [step |-> "move", person |-> p, from |-> person[p].home, to |-> to])
    /\ UNCHANGED <<homes, invite, expired, madeBy>>

\* The row a transaction has updated is locked until it commits.
Locked(p, moving) ==
    \E s \in Admins : /\ admin[s].step = "commit"
                      /\ admin[s].person = p
                      /\ (admin[s].to # Nobody) = moving

\* The transaction has updated the user (or the profile) and counts: it sees
\* its own update and what others have committed.
RemoveResidentCount(r) ==
    /\ admin[r].step = "remove"
    /\ LET p == admin[r].person
       IN  /\ ~Locked(p, FALSE)
           /\ Look(r, [step |-> "commit", person |-> p, from |-> admin[r].from,
                       to |-> Nobody, left |-> OthersIn(p, admin[r].from),
                       joined |-> FALSE])
    /\ UNCHANGED <<homes, invite, expired, madeBy>>

UpdateResidentCount(r) ==
    /\ admin[r].step = "move"
    /\ LET p == admin[r].person
           to == admin[r].to
       IN  /\ to # admin[r].from
           /\ person[p].home # Nobody
           /\ ~Locked(p, TRUE)
           /\ Look(r, [step |-> "commit", person |-> p, from |-> admin[r].from,
                       to |-> to, left |-> OthersIn(p, admin[r].from),
                       joined |-> OthersIn(p, to) \/ person[p].user # "REMOVED"])
    /\ UNCHANGED <<homes, invite, expired, madeBy>>

\* An update of the name or the phone also writes the apartment it has read,
\* and counts nothing.
RenameResident(r) ==
    /\ admin[r].step = "move"
    /\ LET p == admin[r].person
           home == person[p].home
           moved == IF home = admin[r].to THEN {} ELSE {home, admin[r].to}
       IN  /\ admin[r].to = admin[r].from
           /\ home # Nobody
           /\ Stands(admin[r].to)
           /\ ~Locked(p, TRUE)
           /\ person' = [person EXCEPT ![p].home = admin[r].to]
           /\ offBook' = offBook \cup moved
           /\ Done(r, moved)
    /\ UNCHANGED <<buildings, apartment, invite, expired, madeBy, reinstated>>

\* Mutant: only the apartment moved to is counted again.
RecomputeTarget(r) ==
    [a \in Apartments |->
        IF a = admin[r].to THEN [apartment[a] EXCEPT !.status = Status(admin[r].joined)]
        ELSE IF a = admin[r].from /\ admin[r].to = Nobody
        THEN [apartment[a] EXCEPT !.status = Status(admin[r].left)]
        ELSE apartment[a]]

\* What the transaction writes to the apartments it has counted.
Recompute(r) ==
    [a \in Apartments |->
        IF a = admin[r].to THEN [apartment[a] EXCEPT !.status = Status(admin[r].joined)]
        ELSE IF a = admin[r].from THEN [apartment[a] EXCEPT !.status = Status(admin[r].left)]
        ELSE apartment[a]]

\* Where open transactions are about to take a person.
Targets(p) ==
    {a \in Apartments : \E s \in Admins : /\ admin[s].step = "commit"
                                         /\ admin[s].person = p
                                         /\ admin[s].to = a}

\* An apartment the person has left behind the transaction's back, or one whose
\* residents have changed since it counted, need not have the right status now.
MissedBy(r) ==
    LET counted == {admin[r].from, admin[r].to} \ {Nobody}
    IN  (counted \cap unseen[r]) \cup ({person[admin[r].person].home} \ (counted \cup {Nobody}))

CommitResident(r) ==
    /\ admin[r].step = "commit"
    /\ LET p == admin[r].person
           counted == {admin[r].from, admin[r].to} \ {Nobody}
       IN  /\ \A a \in counted : Stands(a)
           /\ IF admin[r].to = Nobody
              THEN person' = [person EXCEPT ![p].user = "REMOVED"]
              ELSE /\ person[p].home # Nobody
                   /\ person' = [person EXCEPT ![p].home = admin[r].to]
           /\ apartment' = Recompute(r)
           /\ offBook' = (offBook \ counted) \cup MissedBy(r)
           /\ Done(r, counted \cup ({person[p].home} \ {Nobody}) \cup Targets(p))
    /\ UNCHANGED <<buildings, invite, expired, madeBy, reinstated>>

\* ACTIVE or SUSPENDED is written by id, even for a resident removed before;
\* no apartment is looked at.
UpdateResidentStatus(r, p) ==
    /\ admin[r] = Free
    /\ reinstated < MaxReinstated
    /\ person[p].home # Nobody
    /\ person[p].user = "REMOVED"
    /\ ~Locked(p, FALSE)
    /\ person' = [person EXCEPT ![p].user = "CURRENT"]
    /\ reinstated' = reinstated + 1
    /\ offBook' = offBook \cup {person[p].home}
    /\ Done(r, {person[p].home} \cup Targets(p))
    /\ UNCHANGED <<buildings, apartment, invite, expired, madeBy>>
-----------------------------------------------------------------------------
(* Invitations of residents. *)

CreateInviteRead(r, p, a) ==
    /\ admin[r] = Free
    /\ Stands(a)
    /\ apartment[a].status # "OCCUPIED"
    /\ person[p].user = "NONE"
    /\ Look(r, [step |-> "supersede", home |-> a, person |-> p])
    /\ UNCHANGED <<homes, invite, expired, madeBy>>

\* Pending invites to the apartment are superseded.
CreateInviteSupersede(r) ==
    /\ admin[r].step = "supersede"
    /\ invite' = [i \in Invites |->
         IF invite[i].home = admin[r].home /\ invite[i].status = "PENDING"
         THEN [invite[i] EXCEPT !.status = "REVOKED"] ELSE invite[i]]
    /\ admin' = [admin EXCEPT ![r].step = "insert"]
    /\ UNCHANGED <<homes, expired, unseen, madeBy>>

CreateInviteInsert(r, i) ==
    /\ admin[r].step = "insert"
    /\ Stands(admin[r].home)
    /\ invite[i].status = "NONE"
    /\ invite' = [invite EXCEPT ![i] = [status |-> "PENDING", home |-> admin[r].home,
                                        person |-> admin[r].person]]
    /\ expired' = expired \ {i}
    /\ Done(r, {})
    /\ UNCHANGED <<homes, madeBy>>

ResendInviteRead(r, i) ==
    /\ admin[r] = Free
    /\ invite[i].status \in {"PENDING", "REVOKED"}
    /\ Look(r, [step |-> "resend", invite |-> i])
    /\ UNCHANGED <<homes, invite, expired, madeBy>>

\* A new token, a new expiry and PENDING, whatever the invite has become.
ResendInvite(r) ==
    /\ admin[r].step = "resend"
    /\ LET i == admin[r].invite
       IN  /\ invite[i].status # "GONE"
           /\ invite' = [invite EXCEPT ![i].status = "PENDING"]
           /\ expired' = expired \ {i}
    /\ Done(r, {})
    /\ UNCHANGED <<homes, madeBy>>

CancelInviteRead(r, i) ==
    /\ admin[r] = Free
    /\ invite[i].status = "PENDING"
    /\ Look(r, [step |-> "cancel", invite |-> i])
    /\ UNCHANGED <<homes, invite, expired, madeBy>>

CancelInvite(r) ==
    /\ admin[r].step = "cancel"
    /\ LET i == admin[r].invite
       IN  /\ invite[i].status # "GONE"
           /\ invite' = [invite EXCEPT ![i].status = "REVOKED"]
    /\ Done(r, {})
    /\ UNCHANGED <<homes, expired, madeBy>>

InviteExpires(i) ==
    /\ invite[i].status = "PENDING"
    /\ i \notin expired
    /\ expired' = expired \cup {i}
    /\ UNCHANGED <<homes, invite, admin, unseen, madeBy>>

\* Mutant: occupancy was checked when the invite was made.
CompleteInviteUnchecked(r, i) ==
    /\ admin[r] = Free
    /\ invite[i].status = "PENDING"
    /\ i \notin expired
    /\ Look(r, [step |-> "complete", invite |-> i])
    /\ UNCHANGED <<homes, invite, expired, madeBy>>

\* The link is live and the apartment free.
CompleteInviteRead(r, i) ==
    /\ admin[r] = Free
    /\ invite[i].status = "PENDING"
    /\ i \notin expired
    /\ apartment[invite[i].home].status # "OCCUPIED"
    /\ Look(r, [step |-> "complete", invite |-> i])
    /\ UNCHANGED <<homes, invite, expired, madeBy>>

\* Mutant: an account that is already there is taken over.
CompleteInviteUpsert(r) ==
    /\ admin[r].step = "complete"
    /\ LET i == admin[r].invite
           a == invite[i].home
       IN  /\ invite[i].status # "GONE"
           /\ person' = [person EXCEPT ![invite[i].person] = [user |-> "CURRENT", home |-> a]]
           /\ apartment' = [apartment EXCEPT ![a].status = "OCCUPIED"]
           /\ invite' = [invite EXCEPT ![i].status = "USED"]
           /\ madeBy' = [madeBy EXCEPT ![i] = @ + 1]
           /\ offBook' = offBook \ {a}
           /\ Done(r, {a})
    /\ UNCHANGED <<buildings, expired, reinstated>>

\* After the password has been hashed: the account, the profile, the status and
\* the invite in one transaction, which fails if the e-mail has an account.
CompleteInvite(r) ==
    /\ admin[r].step = "complete"
    /\ LET i == admin[r].invite
           a == invite[i].home
       IN  /\ invite[i].status # "GONE"
           /\ person[invite[i].person].user = "NONE"
           /\ person' = [person EXCEPT ![invite[i].person] = [user |-> "CURRENT", home |-> a]]
           /\ apartment' = [apartment EXCEPT ![a].status = "OCCUPIED"]
           /\ invite' = [invite EXCEPT ![i].status = "USED"]
           /\ madeBy' = [madeBy EXCEPT ![i] = @ + 1]
           /\ offBook' = offBook \ {a}
           /\ Done(r, {a})
    /\ UNCHANGED <<buildings, expired, reinstated>>

\* A statement fails (a row is gone, an e-mail is taken, a deadlock), or the
\* server stops: nothing of an open transaction remains.
AdminFails(r) ==
    /\ admin[r] # Free
    /\ Done(r, {})
    /\ UNCHANGED <<homes, invite, expired, madeBy>>

ResidencyNext ==
    \/ \E r \in Admins :
         \/ \E a \in Apartments : CreateApartment(r, a) \/ UpdateApartment(r, a)
         \/ \E b \in Buildings : RemoveBuildingRead(r, b)
         \/ RemoveBuilding(r)
         \/ \E p \in Persons :
              \/ RemoveResidentRead(r, p) \/ UpdateResidentStatus(r, p)
              \/ \E a \in Apartments : \/ CreateResident(r, p, a)
                                       \/ UpdateResidentRead(r, p, a)
                                       \/ CreateInviteRead(r, p, a)
         \/ RemoveResidentCount(r) \/ UpdateResidentCount(r) \/ RenameResident(r)
         \/ CommitResident(r)
         \/ CreateInviteSupersede(r) \/ ResendInvite(r) \/ CancelInvite(r)
         \/ \E i \in Invites : \/ CreateInviteInsert(r, i) \/ ResendInviteRead(r, i)
                               \/ CancelInviteRead(r, i) \/ CompleteInviteRead(r, i)
         \/ CompleteInvite(r) \/ AdminFails(r)
    \/ \E i \in Invites : InviteExpires(i)

ResidencySpec == ResidencyInit /\ [][ResidencyNext]_residencyVars
-----------------------------------------------------------------------------
(* Properties. *)

(* "An apartment is OCCUPIED if any resident still assigned to it hasn't   *)
(* been removed" (administration.service.ts), and VACANT otherwise, but    *)
(* for three cases: a removed resident was made ACTIVE again, a count was  *)
(* written after another request had changed who lives there, or an update *)
(* of a name put back the apartment that a move had just replaced.         *)
OccupancyRight ==
    \A a \in Apartments \ offBook :
        Stands(a) => (apartment[a].status = "OCCUPIED" <=> Inhabited(a))

(* An invite makes one account at most, whichever administrators resend or *)
(* cancel it while its link is being used: the e-mail is unique.           *)
InviteMakesOneAccount == \A i \in Invites : madeBy[i] <= 1

(* An invite gives an apartment to a second household only if somebody     *)
(* else moved in after the occupancy was read (completeInvite), or the     *)
(* status that was read was one of those OccupancyRight excepts.           *)
SecondHouseholdOnlyByRace ==
    [][\A r \in Admins :
         (admin[r].step = "complete" /\ madeBy' # madeBy /\ admin'[r] = Free)
           => LET a == invite[admin[r].invite].home
              IN  Inhabited(a) => a \in unseen[r]]_residencyVars

(* A resident's profile is never deleted but together with an apartment    *)
(* that came into its building after removeBuilding had counted none.      *)
HomesKept ==
    [][\A p \in Persons :
         (person[p].home # Nobody /\ person'[p].home = Nobody)
           => \E r \in Admins : /\ admin[r].step = "demolish" /\ admin'[r] = Free
                                /\ person[p].home \in unseen[r]]_residencyVars
=============================================================================
