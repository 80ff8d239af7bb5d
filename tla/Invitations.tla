---------------------------- MODULE Invitations ----------------------------
(***************************************************************************)
(* Visitor passes and the handlers that change them.  The database is      *)
(* PostgreSQL at READ COMMITTED; a handler is a Node.js async function     *)
(* that awaits every statement, so each statement is a step of its own and *)
(* statements of other handlers run in between.  A transaction that has    *)
(* updated a row holds the row's lock until it ends.                       *)
(*                                                                         *)
(* Handlers: create, public lookup, revoke (invitations.service.ts), scan  *)
(* (verification.service.ts), entry and exit (entry-exit.service.ts),      *)
(* extend (invitation-extensions.service.ts) and the periodic expiry sweep *)
(* (invitation-expiry.service.ts).                                         *)
(***************************************************************************)
EXTENDS ExtensionRules, FiniteSets

CONSTANTS
    Ids,            \* invitation ids
    Requests,       \* requests the server may be working on at once
    Visits,         \* visit ids; bounds the visits of a behaviour
    Policies,       \* the entry policies passes are created with
    Windows,        \* <<validFrom, validUntil>> pairs passes are created with
    Amounts,        \* minutes a resident may ask for
    Rules,          \* the estate's extension rules
    NotifyWithin,   \* NOTIFY_WITHIN_MS
    Batch,          \* BATCH, rows one sweep reads
    MaxTime,        \* bound on the clock
    MaxLookups,     \* bound on the expiry notices sent by lookups
    MaxFaults,      \* bound on restarts and failed sweeps
    NoRequest,
    NoVisit

ASSUME PoliciesAssumption == Policies \subseteq {"ONE_TIME", "MULTI_ENTRY"}
ASSUME WindowsAssumption == Windows \subseteq {w \in Nat \X Nat : w[1] < w[2]}
ASSUME AmountsAssumption == Amounts \subseteq Int
ASSUME RulesAssumption == Rules \in RuleSet
ASSUME BoundsAssumption ==
    {NotifyWithin, Batch, MaxTime, MaxLookups, MaxFaults} \subseteq Nat
ASSUME NoRequestAssumption == NoRequest \notin Requests
ASSUME NoVisitAssumption ==
    NoVisit \notin [inv: Ids, inside: BOOLEAN]

VARIABLES
    now,            \* the server's clock
    invitation,     \* committed rows
    lock,           \* the request whose open transaction has updated the row
    visit,          \* committed visit rows
    request,        \* what each request is about to do, with what it has read
    sweep,          \* the expiry job: `running', its own `now', rows left to do
    counts,         \* per pass, how often what happened to it
    revoked,        \* passes a resident has revoked
    overwritten,    \* passes whose USED or REVOKED a late lazy expiry replaced
    faults

\* What the program does not keep.
history == <<counts, revoked, overwritten>>

vars == <<now, invitation, lock, visit, request, sweep, history, faults>>
-----------------------------------------------------------------------------
Status == {"NONE", "ACTIVE", "USED", "EXPIRED", "REVOKED"}

Row == [status: Status, policy: {"ONE_TIME", "MULTI_ENTRY"},
        validFrom: Nat, validUntil: Nat]

VisitRow == [inv: Ids, inside: BOOLEAN]

Idle == [step |-> "idle"]

Step ==
    {Idle}
      \cup [step: {"expire", "entryUpdate", "entryCheck", "entryInsert"}, inv: Ids]
      \cup [step: {"extend"}, inv: Ids, readUntil: Nat, newUntil: Nat,
            reactivate: BOOLEAN]
      \cup [step: {"exit"}, visit: Visits]

Sweep ==
    [running: {FALSE}] \cup
    [running: {TRUE}, found: BOOLEAN, now: Nat, todo: SUBSET Ids]

SweepIdle == [running |-> FALSE]

\* entries: committed entries; activations: times the row was set ACTIVE;
\* swept / told: INVITATION_EXPIRED notices sent by the sweep / by a lookup.
Counts == [entries: Nat, activations: Nat, swept: Nat, told: Nat]

Types ==
    /\ now \in Nat
    /\ invitation \in [Ids -> Row]
    /\ lock \in [Ids -> Requests \cup {NoRequest}]
    /\ visit \in [Visits -> VisitRow \cup {NoVisit}]
    /\ request \in [Requests -> Step]
    /\ sweep \in Sweep
    /\ counts \in [Ids -> Counts]
    /\ revoked \subseteq Ids
    /\ overwritten \subseteq Ids
    /\ faults \in Nat

\* A visit about to be closed is in the table.
ExitsExist ==
    \A r \in Requests : request[r].step = "exit" => visit[request[r].visit] # NoVisit

TypeOK == Types /\ ExitsExist

Init ==
    /\ now = 0
    /\ invitation = [i \in Ids |-> [status |-> "NONE", policy |-> "ONE_TIME",
                                    validFrom |-> 0, validUntil |-> 0]]
    /\ lock = [i \in Ids |-> NoRequest]
    /\ visit = [v \in Visits |-> NoVisit]
    /\ request = [r \in Requests |-> Idle]
    /\ sweep = SweepIdle
    /\ counts = [i \in Ids |-> [entries |-> 0, activations |-> 0, swept |-> 0, told |-> 0]]
    /\ revoked = {}
    /\ overwritten = {}
    /\ faults = 0
-----------------------------------------------------------------------------
Exists(i) == invitation[i].status # "NONE"

\* validUntil < now, as every handler compares them.
RunOut(i) == invitation[i].validUntil < now

OpenVisits(i) == {v \in Visits : visit[v] # NoVisit /\ visit[v].inv = i /\ visit[v].inside}

\* An update of a row waits for the transaction that has already updated it.
Unlocked(i) == lock[i] = NoRequest

Begin(r, step) == /\ request[r] = Idle
                  /\ request' = [request EXCEPT ![r] = step]

Reply(r) == request' = [request EXCEPT ![r] = Idle]
-----------------------------------------------------------------------------
CreateInvitation(i) ==
    /\ ~Exists(i)
    /\ \E policy \in Policies, w \in Windows :
         invitation' = [invitation EXCEPT ![i] =
            [status |-> "ACTIVE", policy |-> policy,
             validFrom |-> w[1], validUntil |-> w[2]]]
    /\ counts' = [counts EXCEPT ![i].activations = @ + 1]
    /\ UNCHANGED <<now, lock, visit, request, sweep, revoked, overwritten, faults>>

\* Revoke writes whatever the status is; what it reads only decides whose pass it is.
Revoke(i) ==
    /\ Exists(i)
    /\ Unlocked(i)
    /\ invitation' = [invitation EXCEPT ![i].status = "REVOKED"]
    /\ revoked' = revoked \cup {i}
    /\ UNCHANGED <<now, lock, visit, request, sweep, counts, overwritten, faults>>

\* What the officer is shown for a scanned or typed pass.
Verdict(i) ==
    IF ~Exists(i) THEN "NOT_FOUND"
    ELSE IF invitation[i].status = "REVOKED" THEN "REVOKED"
    ELSE IF invitation[i].policy = "ONE_TIME" /\ invitation[i].status = "USED"
         THEN "ALREADY_USED"
    ELSE IF RunOut(i) THEN "EXPIRED"
    ELSE IF invitation[i].validFrom > now THEN "NOT_YET_VALID"
    ELSE "VALID"

\* A scan that finds a run-out pass not yet marked will mark it.
VerifyRead(r, i) ==
    /\ Verdict(i) = "EXPIRED"
    /\ invitation[i].status # "EXPIRED"
    /\ counts[i].told < MaxLookups
    /\ Begin(r, [step |-> "expire", inv |-> i])
    /\ UNCHANGED <<now, invitation, lock, visit, sweep, history, faults>>

\* The visitor opens the link; a pass already marked EXPIRED is marked again.
PublicLookupRead(r, i) ==
    /\ Exists(i)
    /\ invitation[i].status \notin {"REVOKED", "USED"}
    /\ RunOut(i)
    /\ counts[i].told < MaxLookups
    /\ Begin(r, [step |-> "expire", inv |-> i])
    /\ UNCHANGED <<now, invitation, lock, visit, sweep, history, faults>>

\* The lazy expiry: an update by id alone, then the notice to the resident.
LazyExpire(r) ==
    /\ request[r].step = "expire"
    /\ LET i == request[r].inv
       IN  /\ Unlocked(i)
           /\ invitation' = [invitation EXCEPT ![i].status = "EXPIRED"]
           /\ counts' = [counts EXCEPT ![i].told = @ + 1]
           /\ overwritten' = IF invitation[i].status \in {"USED", "REVOKED"}
                             THEN overwritten \cup {i} ELSE overwritten
    /\ Reply(r)
    /\ UNCHANGED <<now, lock, visit, sweep, revoked, faults>>
-----------------------------------------------------------------------------
ExtendRead(r, i) ==
    /\ Exists(i)
    /\ \E minutes \in Amounts :
         /\ EvaluateExtension(invitation[i], Rules, minutes, now) = "OK"
         /\ Begin(r, [step |-> "extend", inv |-> i,
                      readUntil |-> invitation[i].validUntil,
                      newUntil |-> NewValidUntil(invitation[i], minutes, now),
                      reactivate |-> invitation[i].status = "EXPIRED"])
    /\ UNCHANGED <<now, invitation, lock, visit, sweep, history, faults>>

\* Mutant: the update looks at the expiry alone.
MatchesExpiryOnly(r) == invitation[request[r].inv].validUntil = request[r].readUntil

\* The where clause: the expiry is the one that was read and the pass has not
\* been revoked.
ExtendMatches(r) ==
    /\ invitation[request[r].inv].validUntil = request[r].readUntil
    /\ invitation[request[r].inv].status # "REVOKED"

\* The conditional update; when no row matches the resident gets a conflict.
ExtendWrite(r) ==
    /\ request[r].step = "extend"
    /\ LET i == request[r].inv
       IN  /\ Unlocked(i)
           /\ IF ExtendMatches(r)
              THEN /\ invitation' = [invitation EXCEPT
                        ![i].validUntil = request[r].newUntil,
                        ![i].status = IF request[r].reactivate THEN "ACTIVE" ELSE @]
                   /\ counts' = [counts EXCEPT ![i].activations =
                        IF request[r].reactivate THEN @ + 1 ELSE @]
              ELSE UNCHANGED <<invitation, counts>>
    /\ Reply(r)
    /\ UNCHANGED <<now, lock, visit, sweep, revoked, overwritten, faults>>
-----------------------------------------------------------------------------
\* A visit id is kept for every entry under way (model bound).
RoomForVisit ==
    Cardinality({r \in Requests : request[r].step \in {"entryUpdate", "entryCheck", "entryInsert"}})
      < Cardinality({v \in Visits : visit[v] = NoVisit})

EntryRead(r, i) ==
    /\ RoomForVisit
    /\ Exists(i)
    /\ invitation[i].status # "REVOKED"
    /\ ~RunOut(i)
    /\ Begin(r, [step |-> IF invitation[i].policy = "ONE_TIME"
                          THEN "entryUpdate" ELSE "entryCheck",
                 inv |-> i])
    /\ UNCHANGED <<now, invitation, lock, visit, sweep, history, faults>>

\* Mutants: the status is only looked at, or not looked at.
EntryLooksOnly(r) ==
    /\ request[r].step = "entryUpdate"
    /\ invitation[request[r].inv].status = "ACTIVE"
    /\ request' = [request EXCEPT ![r].step = "entryCheck"]
    /\ UNCHANGED <<now, invitation, lock, visit, sweep, history, faults>>

EntryAnyStatus(r) ==
    /\ request[r].step = "entryUpdate"
    /\ Unlocked(request[r].inv)
    /\ lock' = [lock EXCEPT ![request[r].inv] = r]
    /\ request' = [request EXCEPT ![r].step = "entryCheck"]
    /\ UNCHANGED <<now, invitation, visit, sweep, history, faults>>

\* updateMany ... where status = ACTIVE: takes the row's lock, or loses.
EntryUpdate(r) ==
    /\ request[r].step = "entryUpdate"
    /\ LET i == request[r].inv
       IN  /\ Unlocked(i)
           /\ IF invitation[i].status = "ACTIVE"
              THEN /\ lock' = [lock EXCEPT ![i] = r]
                   /\ request' = [request EXCEPT ![r].step = "entryCheck"]
              ELSE Reply(r) /\ UNCHANGED lock
    /\ UNCHANGED <<now, invitation, visit, sweep, history, faults>>

\* Is the visitor recorded as inside?  If so the transaction is rolled back.
EntryCheck(r) ==
    /\ request[r].step = "entryCheck"
    /\ LET i == request[r].inv
       IN  IF OpenVisits(i) = {}
           THEN /\ request' = [request EXCEPT ![r].step = "entryInsert"]
                /\ UNCHANGED lock
           ELSE /\ Reply(r)
                /\ lock' = [lock EXCEPT ![i] = IF @ = r THEN NoRequest ELSE @]
    /\ UNCHANGED <<now, invitation, visit, sweep, history, faults>>

\* The visit and its events are inserted and the transaction commits.
EntryCommit(r) ==
    /\ request[r].step = "entryInsert"
    /\ LET i == request[r].inv
       IN  /\ \E v \in Visits :
                /\ visit[v] = NoVisit
                /\ visit' = [visit EXCEPT ![v] = [inv |-> i, inside |-> TRUE]]
           /\ IF lock[i] = r
              THEN invitation' = [invitation EXCEPT ![i].status = "USED"]
              ELSE UNCHANGED invitation
           /\ lock' = [lock EXCEPT ![i] = IF @ = r THEN NoRequest ELSE @]
           /\ counts' = [counts EXCEPT ![i].entries = @ + 1]
    /\ Reply(r)
    /\ UNCHANGED <<now, sweep, revoked, overwritten, faults>>

ExitRead(r, v) ==
    /\ visit[v] # NoVisit
    /\ visit[v].inside
    /\ Begin(r, [step |-> "exit", visit |-> v])
    /\ UNCHANGED <<now, invitation, lock, visit, sweep, history, faults>>

\* exitedAt is set by visit id alone and one EXIT event is written.
ExitWrite(r) ==
    /\ request[r].step = "exit"
    /\ visit' = [visit EXCEPT ![request[r].visit].inside = FALSE]
    /\ Reply(r)
    /\ UNCHANGED <<now, invitation, lock, sweep, history, faults>>
-----------------------------------------------------------------------------
\* `running' is set, and passes that ran out long ago are marked in one update.
SweepStart ==
    LET longGone == {i \in Ids : /\ invitation[i].status = "ACTIVE"
                                 /\ invitation[i].validUntil < now - NotifyWithin}
    IN  /\ ~sweep.running
        /\ \A i \in longGone : Unlocked(i)
        /\ sweep' = [running |-> TRUE, found |-> FALSE, now |-> now, todo |-> {}]
        /\ invitation' = [i \in Ids |-> IF i \in longGone
                            THEN [invitation[i] EXCEPT !.status = "EXPIRED"]
                            ELSE invitation[i]]
        /\ UNCHANGED <<now, lock, visit, request, history, faults>>

Due(i) == invitation[i].status = "ACTIVE" /\ invitation[i].validUntil < sweep.now

SweepFind ==
    /\ sweep.running
    /\ ~sweep.found
    /\ \E found \in SUBSET {i \in Ids : Due(i)} :
         /\ \/ found = {i \in Ids : Due(i)} /\ Cardinality(found) <= Batch
            \/ Cardinality(found) = Batch
         /\ sweep' = [sweep EXCEPT !.found = TRUE, !.todo = found]
    /\ UNCHANGED <<now, invitation, lock, visit, request, history, faults>>

\* One row of the batch: marked if it still qualifies, and only then is the
\* resident told.
SweepRow ==
    /\ sweep.running
    /\ \E i \in sweep.todo :
         /\ Unlocked(i)
         /\ sweep' = [sweep EXCEPT !.todo = @ \ {i}]
         /\ IF Due(i)
            THEN /\ invitation' = [invitation EXCEPT ![i].status = "EXPIRED"]
                 /\ counts' = [counts EXCEPT ![i].swept = @ + 1]
            ELSE UNCHANGED <<invitation, counts>>
    /\ UNCHANGED <<now, lock, visit, request, revoked, overwritten, faults>>

\* Mutant: `running' is left set when the rows are done.
SweepNeverEnds == FALSE /\ UNCHANGED vars

SweepEnd ==
    /\ sweep.running
    /\ sweep.found
    /\ sweep.todo = {}
    /\ sweep' = SweepIdle
    /\ UNCHANGED <<now, invitation, lock, visit, request, history, faults>>

\* A statement of the sweep fails: it is logged and `running' is cleared.
SweepFail ==
    /\ sweep.running
    /\ faults < MaxFaults
    /\ faults' = faults + 1
    /\ sweep' = SweepIdle
    /\ UNCHANGED <<now, invitation, lock, visit, request, history>>

\* A statement of a request fails: its transaction, if any, is rolled back.
RequestFail(r) ==
    /\ request[r] # Idle
    /\ faults < MaxFaults
    /\ faults' = faults + 1
    /\ lock' = [i \in Ids |-> IF lock[i] = r THEN NoRequest ELSE lock[i]]
    /\ Reply(r)
    /\ UNCHANGED <<now, invitation, visit, sweep, history>>

\* The process restarts: open transactions roll back, nothing in memory survives.
Restart ==
    /\ faults < MaxFaults
    /\ faults' = faults + 1
    /\ request' = [r \in Requests |-> Idle]
    /\ lock' = [i \in Ids |-> NoRequest]
    /\ sweep' = SweepIdle
    /\ UNCHANGED <<now, invitation, visit, history>>

Tick ==
    /\ now < MaxTime
    /\ now' = now + 1
    /\ UNCHANGED <<invitation, lock, visit, request, sweep, history, faults>>
-----------------------------------------------------------------------------
Handler(r) ==
    \/ \E i \in Ids : VerifyRead(r, i) \/ PublicLookupRead(r, i)
                        \/ ExtendRead(r, i) \/ EntryRead(r, i)
    \/ \E v \in Visits : ExitRead(r, v)

Continue(r) ==
    LazyExpire(r) \/ ExtendWrite(r) \/ EntryUpdate(r) \/ EntryCheck(r)
      \/ EntryCommit(r) \/ ExitWrite(r)

SweepStep == SweepStart \/ SweepFind \/ SweepRow \/ SweepEnd

Next ==
    \/ \E i \in Ids : CreateInvitation(i) \/ Revoke(i)
    \/ \E r \in Requests : Handler(r) \/ Continue(r) \/ RequestFail(r)
    \/ SweepStep \/ SweepFail \/ Restart \/ Tick

Spec == Init /\ [][Next]_vars

\* The interval timer keeps starting sweeps and awaited statements return;
\* nothing obliges people to act, a fault to strike or the clock to pass the bound.
FairSpec == /\ Spec
            /\ WF_vars(SweepStep)
            /\ \A r \in Requests : WF_vars(Continue(r))
-----------------------------------------------------------------------------
OneTime(i) == invitation[i].policy = "ONE_TIME"

\* A one-time pass admits its visitor once ("two concurrent requests racing on
\* the same invitation can't both succeed").
OneTimeOnce == \A i \in Ids : OneTime(i) => counts[i].entries <= 1

\* However requests, sweeps, faults and restarts interleave, only a late lazy
\* expiry can let a one-time pass be used twice.  It needs the conditional
\* entry update, and the extension's update to notice that a pass it read as
\* EXPIRED has since been reactivated.
OneTimeUnlessOverwritten ==
    \A i \in Ids : OneTime(i) /\ i \notin overwritten => counts[i].entries <= 1

\* Even then each entry uses up one activation: creation or a reactivation by
\* the resident (the entry's conditional update).
OneEntryPerActivation ==
    \A i \in Ids : OneTime(i) => counts[i].entries <= counts[i].activations

\* The visitor of a one-time pass is never recorded as inside twice: the row
\* lock taken before the check for an open visit serialises the entries.
OneTimeOneInside ==
    \A i \in Ids : OneTime(i) => Cardinality(OpenVisits(i)) <= 1

\* Only a late lazy expiry undoes a revocation; extensions, entries and sweeps
\* that began before it cannot.
RevocationFinalUnlessOverwritten ==
    \A i \in Ids : i \in revoked /\ i \notin overwritten
                      => invitation[i].status = "REVOKED"

\* A one-time entry under way when its pass is revoked does not go through:
\* nobody is admitted on a revoked one-time pass (unless overwritten).
NoEntryOnceRevoked ==
    [][\A i \in Ids :
         OneTime(i) /\ i \in revoked /\ i \notin overwritten
           => counts'[i].entries = counts[i].entries]_vars

\* An extension never takes time away, whatever other extension it races with
\* (the update by id and old expiry).
NeverShortened ==
    [][\A i \in Ids :
         Exists(i) => invitation'[i].validUntil >= invitation[i].validUntil]_vars

\* Extensions together never stretch a pass over the estate's total.
WithinTotal ==
    \A i \in Ids : Exists(i) =>
      \/ <<invitation[i].validFrom, invitation[i].validUntil>> \in Windows
      \/ invitation[i].validUntil - invitation[i].validFrom <= Rules.maxTotal

\* The sweep tells the resident at most once for each time the pass was live.
SweepTellsOnce == \A i \in Ids : counts[i].swept <= counts[i].activations

\* A pass whose time has run out does not stay active: the sweep marks it
\* whether or not anyone touches it.
RunOutIsMarked ==
    \A i \in Ids :
      (invitation[i].status = "ACTIVE" /\ RunOut(i))
        ~> (invitation[i].status # "ACTIVE" \/ ~RunOut(i))

\* Every one-time pass keeps the promise of GatePass: credit is an active row
\* and the visitor is inside while a visit is open.
Promise == INSTANCE GatePass WITH
    credit <- {i \in Ids : OneTime(i) /\ invitation[i].status = "ACTIVE"},
    inside <- {i \in Ids : OneTime(i) /\ OpenVisits(i) # {}}

KeepsPromise == Promise!Spec
-----------------------------------------------------------------------------
\* The inductive invariant, one named part for each reason the promises hold.

InEntry(r) == request[r].step \in {"entryUpdate", "entryCheck", "entryInsert"}

\* A row is locked by an entry on it that has found it ACTIVE, and while it is
\* locked nothing changes it.
LockedRowsActive ==
    \A i \in Ids : lock[i] # NoRequest =>
      /\ request[lock[i]].step \in {"entryCheck", "entryInsert"}
      /\ request[lock[i]].inv = i
      /\ OneTime(i)
      /\ invitation[i].status = "ACTIVE"

\* Past its update, an entry on a one-time pass holds the lock, and when it is
\* about to insert nobody is inside.
EntriesLocked ==
    \A r \in Requests : InEntry(r) =>
      /\ Exists(request[r].inv)
      /\ request[r].step = "entryUpdate" => OneTime(request[r].inv)
      /\ request[r].step # "entryUpdate" /\ OneTime(request[r].inv)
           => lock[request[r].inv] = r
      /\ request[r].step = "entryInsert" /\ OneTime(request[r].inv)
           => OpenVisits(request[r].inv) = {}

\* An extension under way would lengthen the pass; one that read EXPIRED and
\* still matches finds a pass that has not been live since.
ExtensionsFresh ==
    \A r \in Requests : request[r].step = "extend" =>
      LET i == request[r].inv
      IN  /\ Exists(i)
          /\ request[r].readUntil <= invitation[i].validUntil
          /\ request[r].readUntil < request[r].newUntil
          /\ request[r].newUntil - invitation[i].validFrom <= Rules.maxTotal
          /\ request[r].reactivate /\ request[r].readUntil = invitation[i].validUntil
               => invitation[i].status \in {"EXPIRED", "REVOKED"}

ExpiriesExist ==
    \A r \in Requests : request[r].step = "expire" => Exists(request[r].inv)

Live(i) == IF invitation[i].status = "ACTIVE" THEN 1 ELSE 0

\* Every activation is used up once: by an entry, by the sweep or not yet.
Accounts ==
    \A i \in Ids :
      (IF OneTime(i) THEN counts[i].entries ELSE 0) + counts[i].swept + Live(i)
        <= counts[i].activations

NothingBeforeCreation ==
    \A i \in Ids : ~Exists(i) =>
      /\ counts[i].entries = 0
      /\ counts[i].swept = 0
      /\ i \notin revoked
      /\ OpenVisits(i) = {}

UsedOrRevokedOnceEntered ==
    \A i \in Ids : OneTime(i) /\ i \notin overwritten =>
      \/ counts[i].entries = 0
      \/ counts[i].entries = 1 /\ invitation[i].status \in {"USED", "REVOKED"}

AtMostOneOpen ==
    \A i \in Ids : OneTime(i) =>
      \A v, w \in Visits : v \in OpenVisits(i) /\ w \in OpenVisits(i) => v = w

IInv ==
    /\ TypeOK
    /\ LockedRowsActive
    /\ EntriesLocked
    /\ ExtensionsFresh
    /\ ExpiriesExist
    /\ Accounts
    /\ NothingBeforeCreation
    /\ UsedOrRevokedOnceEntered
    /\ AtMostOneOpen
    /\ RevocationFinalUnlessOverwritten
    /\ WithinTotal
=============================================================================
