------------------------- MODULE InvitationsProofs -------------------------
(* Proofs about Invitations, for every value of its constants. *)
EXTENDS Invitations, FiniteSetTheorems, TLAPS

\* An accepted extension ends later than the pass did and later than now, and
\* keeps the pass within the estate's total.
LEMMA AcceptedExtension ==
    ASSUME NEW target \in Row, NEW minutes \in Int, NEW t \in Nat,
           EvaluateExtension(target, Rules, minutes, t) = "OK"
    PROVE  LET end == NewValidUntil(target, minutes, t)
           IN  /\ end \in Nat
               /\ target.validUntil < end
               /\ t < end
               /\ end - target.validFrom <= Rules.maxTotal
<1>1. minutes >= 1
  BY DEF EvaluateExtension, InvalidAmount
<1>2. target.validUntil \in Nat /\ target.validFrom \in Nat
  BY DEF Row
<1>3. NewValidUntil(target, minutes, t) - target.validFrom <= Rules.maxTotal
  <2>1. ~TooLongTotal(target, Rules, NewValidUntil(target, minutes, t))
    BY DEF EvaluateExtension
  <2>2. Rules.maxTotal \in Nat
    BY RulesAssumption DEF RuleSet
  <2>3. NewValidUntil(target, minutes, t) \in Int
    BY <1>2 DEF NewValidUntil
  <2>. QED
    BY <2>1, <2>2, <2>3, <1>2 DEF TooLongTotal
<1>4. /\ NewValidUntil(target, minutes, t) \in Nat
      /\ target.validUntil < NewValidUntil(target, minutes, t)
      /\ t < NewValidUntil(target, minutes, t)
  BY <1>1, <1>2 DEF NewValidUntil
<1>. QED
  BY <1>3, <1>4

\* What a request can be about, by its step.
LEMMA StepShape ==
    ASSUME TypeOK, NEW r \in Requests
    PROVE  /\ request[r] \in Step
           /\ (request[r].step \in {"expire", "entryUpdate", "entryCheck", "entryInsert"})
                => /\ request[r] \in [step: {"expire", "entryUpdate", "entryCheck", "entryInsert"}, inv: Ids]
                   /\ request[r].inv \in Ids
           /\ (request[r].step = "extend") =>
                /\ request[r].inv \in Ids
                /\ request[r].readUntil \in Nat
                /\ request[r].newUntil \in Nat
                /\ request[r].reactivate \in BOOLEAN
           /\ (request[r].step = "exit") => request[r].visit \in Visits
BY DEF TypeOK, Types, Step, Idle

LEMMA TypeInit == Init => TypeOK
BY DEF Init, TypeOK, Types, ExitsExist, Idle, Row, Status, Step, Sweep, SweepIdle, Counts

LEMMA VisitsStay ==
    ASSUME Types, Next, NEW v \in Visits, visit[v] # NoVisit
    PROVE  visit'[v] # NoVisit
<1>1. ASSUME NEW r \in Requests, EntryCommit(r) PROVE visit'[v] # NoVisit
  BY <1>1 DEF EntryCommit, Types
<1>2. ASSUME NEW r \in Requests, ExitWrite(r) PROVE visit'[v] # NoVisit
  <2>1. visit[v] \in VisitRow
    BY DEF Types
  <2>2. visit'[v] \in VisitRow
    BY <1>2, <2>1 DEF ExitWrite, Types, VisitRow
  <2>. QED
    BY <2>2, NoVisitAssumption DEF VisitRow
<1>3. CASE UNCHANGED visit
  BY <1>3
<1>. QED
  BY <1>1, <1>2, <1>3 DEF Next, Handler, Continue, SweepStep, CreateInvitation, Revoke,
     VerifyRead, PublicLookupRead, LazyExpire, ExtendRead, ExtendWrite, EntryRead,
     EntryUpdate, EntryCheck, ExitRead, RequestFail, SweepStart, SweepFind, SweepRow,
     SweepEnd, SweepFail, Restart, Tick

LEMMA OnlyExitReadExits ==
    ASSUME TypeOK, Next, NEW s \in Requests, request'[s].step = "exit"
    PROVE  request'[s] = request[s] \/ visit[request'[s].visit] # NoVisit
<1> USE DEF TypeOK
<1>1. CASE UNCHANGED request
  BY <1>1
<1>2. ASSUME NEW r \in Requests, NEW i \in Ids,
             VerifyRead(r, i) \/ PublicLookupRead(r, i) \/ ExtendRead(r, i) \/ EntryRead(r, i)
      PROVE  request'[s] = request[s]
  BY <1>2 DEF VerifyRead, PublicLookupRead, ExtendRead, EntryRead, Begin, Types
<1>3. ASSUME NEW r \in Requests, NEW v \in Visits, ExitRead(r, v)
      PROVE  request'[s] = request[s] \/ visit[request'[s].visit] # NoVisit
  BY <1>3 DEF ExitRead, Begin, Types
<1>4. ASSUME NEW r \in Requests, Continue(r) \/ RequestFail(r)
      PROVE  request'[s] = request[s]
  <2>1. CASE EntryUpdate(r)
    BY <2>1, StepShape DEF EntryUpdate, Reply, Types, Idle
  <2>2. CASE EntryCheck(r)
    BY <2>2, StepShape DEF EntryCheck, Reply, Types, Idle
  <2>3. CASE LazyExpire(r) \/ ExtendWrite(r) \/ EntryCommit(r) \/ ExitWrite(r) \/ RequestFail(r)
    BY <2>3 DEF LazyExpire, ExtendWrite, EntryCommit, ExitWrite, RequestFail, Reply, Types, Idle
  <2>. QED
    BY <1>4, <2>1, <2>2, <2>3 DEF Continue
<1>5. CASE Restart
  BY <1>5 DEF Restart, Idle
<1>. QED
  BY <1>1, <1>2, <1>3, <1>4, <1>5 DEF Next, Handler, SweepStep, CreateInvitation, Revoke,
     SweepStart, SweepFind, SweepRow, SweepEnd, SweepFail, Tick

LEMMA TypeKept == TypeOK /\ [Next]_vars => TypeOK'
<1> SUFFICES ASSUME TypeOK, [Next]_vars PROVE TypeOK'
  OBVIOUS
<1> USE DEF TypeOK, Types, history
<1>1. ASSUME NEW i \in Ids, CreateInvitation(i) PROVE Types'
  BY <1>1, PoliciesAssumption, WindowsAssumption DEF CreateInvitation, Row, Status, Counts
<1>2. ASSUME NEW i \in Ids, Revoke(i) PROVE Types'
  <2>1. invitation' \in [Ids -> Row]
    BY <1>2 DEF Revoke, Row, Status
  <2>2. counts' \in [Ids -> Counts]
    BY <1>2 DEF Revoke, Counts
  <2>. QED
    BY <1>2, <2>1, <2>2 DEF Revoke
<1>3. ASSUME NEW r \in Requests, NEW i \in Ids, VerifyRead(r, i) PROVE Types'
  BY <1>3 DEF VerifyRead, Begin, Step
<1>4. ASSUME NEW r \in Requests, NEW i \in Ids, PublicLookupRead(r, i) PROVE Types'
  BY <1>4 DEF PublicLookupRead, Begin, Step
<1>5. ASSUME NEW r \in Requests, LazyExpire(r) PROVE Types'
  <2>1. request[r].inv \in Ids
    BY <1>5, StepShape DEF LazyExpire
  <2>2. invitation' \in [Ids -> Row]
    BY <1>5, <2>1 DEF LazyExpire, Row, Status
  <2>3. counts' \in [Ids -> Counts]
    BY <1>5, <2>1 DEF LazyExpire, Counts
  <2>4. request' \in [Requests -> Step]
    BY <1>5 DEF LazyExpire, Reply, Step
  <2>. QED
    BY <1>5, <2>2, <2>3, <2>4 DEF LazyExpire
<1>6. ASSUME NEW r \in Requests, NEW i \in Ids, ExtendRead(r, i) PROVE Types'
  BY <1>6, AcceptedExtension, AmountsAssumption DEF ExtendRead, Begin, Step, Row
<1>7. ASSUME NEW r \in Requests, ExtendWrite(r) PROVE Types'
  <2>1. request[r].inv \in Ids /\ request[r].newUntil \in Nat
    BY <1>7, StepShape DEF ExtendWrite
  <2>2. invitation' \in [Ids -> Row]
    BY <1>7, <2>1 DEF ExtendWrite, Row, Status
  <2>3. counts' \in [Ids -> Counts]
    BY <1>7, <2>1 DEF ExtendWrite, Counts
  <2>4. request' \in [Requests -> Step]
    BY <1>7 DEF ExtendWrite, Reply, Step
  <2>. QED
    BY <1>7, <2>2, <2>3, <2>4 DEF ExtendWrite
<1>8. ASSUME NEW r \in Requests, NEW i \in Ids, EntryRead(r, i) PROVE Types'
  BY <1>8 DEF EntryRead, Begin, Step
<1>9. ASSUME NEW r \in Requests, EntryUpdate(r) PROVE Types'
  BY <1>9, StepShape DEF EntryUpdate, Reply, Step
<1>10. ASSUME NEW r \in Requests, EntryCheck(r) PROVE Types'
  BY <1>10, StepShape DEF EntryCheck, Reply, Step
<1>11. ASSUME NEW r \in Requests, EntryCommit(r) PROVE Types'
  <2>1. request[r].inv \in Ids
    BY <1>11, StepShape DEF EntryCommit
  <2>2. invitation' \in [Ids -> Row]
    <3>1. PICK i \in Ids : \/ invitation' = [invitation EXCEPT ![i].status = "USED"]
                           \/ UNCHANGED invitation
      BY <1>11, <2>1 DEF EntryCommit
    <3>. QED
      BY <3>1 DEF Row, Status
  <2>3. counts' \in [Ids -> Counts]
    <3>1. PICK i \in Ids : counts' = [counts EXCEPT ![i].entries = @ + 1]
      BY <1>11, <2>1 DEF EntryCommit
    <3>. QED
      BY <3>1 DEF Counts
  <2>4. request' \in [Requests -> Step]
    BY <1>11 DEF EntryCommit, Reply, Step
  <2>5. visit' \in [Visits -> VisitRow \cup {NoVisit}]
    BY <1>11, <2>1 DEF EntryCommit, VisitRow
  <2>6. lock' \in [Ids -> Requests \cup {NoRequest}]
    BY <1>11, <2>1 DEF EntryCommit
  <2>. QED
    BY <1>11, <2>2, <2>3, <2>4, <2>5, <2>6 DEF EntryCommit
<1>12. ASSUME NEW r \in Requests, NEW v \in Visits, ExitRead(r, v) PROVE Types'
  BY <1>12 DEF ExitRead, Begin, Step
<1>13. ASSUME NEW r \in Requests, ExitWrite(r) PROVE Types'
  <2>1. request[r].visit \in Visits
    BY <1>13, StepShape DEF ExitWrite
  <2>2. request' \in [Requests -> Step]
    BY <1>13 DEF ExitWrite, Reply, Step
  <2>3. visit' \in [Visits -> VisitRow \cup {NoVisit}]
    <3>1. visit[request[r].visit] \in VisitRow
      BY <1>13, <2>1 DEF ExitsExist, ExitWrite
    <3>. QED
      BY <1>13, <2>1, <3>1 DEF ExitWrite, VisitRow
  <2>. QED
    BY <1>13, <2>2, <2>3 DEF ExitWrite
<1>14. ASSUME SweepStep PROVE Types'
  <2>1. CASE SweepStart
    BY <2>1 DEF SweepStart, Sweep, Row, Status
  <2>2. CASE SweepFind
    BY <2>2 DEF SweepFind, Sweep
  <2>3. CASE SweepRow
    <3>1. PICK i \in Ids : sweep' = [sweep EXCEPT !.todo = @ \ {i}] /\
             \/ /\ invitation' = [invitation EXCEPT ![i].status = "EXPIRED"]
                /\ counts' = [counts EXCEPT ![i].swept = @ + 1]
             \/ UNCHANGED <<invitation, counts>>
      BY <2>3 DEF SweepRow, Sweep
    <3>2. invitation' \in [Ids -> Row]
      BY <3>1 DEF Row, Status
    <3>3. counts' \in [Ids -> Counts]
      BY <3>1 DEF Counts
    <3>4. sweep' \in Sweep
      BY <2>3, <3>1 DEF SweepRow, Sweep
    <3>. QED
      BY <2>3, <3>2, <3>3, <3>4 DEF SweepRow
  <2>4. CASE SweepEnd
    BY <2>4 DEF SweepEnd, Sweep, SweepIdle
  <2>. QED
    BY <1>14, <2>1, <2>2, <2>3, <2>4 DEF SweepStep
<1>15. ASSUME SweepFail \/ Restart \/ Tick PROVE Types'
  <2>1. CASE SweepFail
    BY <2>1 DEF SweepFail, Sweep, SweepIdle
  <2>2. CASE Restart
    BY <2>2 DEF Restart, Sweep, SweepIdle, Step
  <2>3. CASE Tick
    BY <2>3 DEF Tick
  <2>. QED
    BY <1>15, <2>1, <2>2, <2>3
<1>16. ASSUME NEW r \in Requests, RequestFail(r) PROVE Types'
  BY <1>16 DEF RequestFail, Reply, Step
<1>17. CASE UNCHANGED vars
  BY <1>17 DEF vars, history, ExitsExist
<1>18. ASSUME Next PROVE Types'
  BY <1>1, <1>2, <1>3, <1>4, <1>5, <1>6, <1>7, <1>8, <1>9, <1>10, <1>11, <1>12,
     <1>13, <1>14, <1>15, <1>16, <1>18 DEF Next, Handler, Continue
<1>19. ASSUME Next PROVE ExitsExist'
  <2> SUFFICES ASSUME NEW s \in Requests, request'[s].step = "exit"
               PROVE  visit'[request'[s].visit] # NoVisit
    BY DEF ExitsExist
  <2>1. visit[request'[s].visit] # NoVisit
    BY <1>19, OnlyExitReadExits DEF ExitsExist
  <2>2. request'[s].visit \in Visits
    BY <1>18, <1>19 DEF Step, Idle
  <2>. QED
    BY <1>19, <2>1, <2>2, VisitsStay
<1>. QED
  BY <1>17, <1>18, <1>19 DEF TypeOK

\* Every variable keeps its type, and a visit about to be closed is in the table.
THEOREM TypeCorrect == Spec => []TypeOK
BY TypeInit, TypeKept, PTL DEF Spec
-----------------------------------------------------------------------------
\* The inductive invariant: a lemma for each kind of step.

\* The parts that speak of rows and visits only.
RowParts ==
    /\ Accounts
    /\ NothingBeforeCreation
    /\ UsedOrRevokedOnceEntered
    /\ AtMostOneOpen
    /\ RevocationFinalUnlessOverwritten
    /\ WithinTotal

\* The parts that speak of requests under way.
RequestParts ==
    /\ LockedRowsActive
    /\ EntriesLocked
    /\ ExtensionsFresh
    /\ ExpiriesExist

LEMMA RowsKept ==
    ASSUME IInv, UNCHANGED <<invitation, visit, counts, revoked, overwritten>>
    PROVE  RowParts'
<1>1. \A i \in Ids : /\ OpenVisits(i)' = OpenVisits(i)
                     /\ Exists(i)' <=> Exists(i)
                     /\ OneTime(i)' <=> OneTime(i)
                     /\ Live(i)' = Live(i)
  BY DEF OpenVisits, Exists, OneTime, Live
<1>. QED
  BY <1>1 DEF IInv, RowParts, Accounts, NothingBeforeCreation, UsedOrRevokedOnceEntered,
     AtMostOneOpen, RevocationFinalUnlessOverwritten, WithinTotal

LEMMA LazyExpireKeeps ==
    ASSUME IInv, NEW r \in Requests, LazyExpire(r), TypeOK'
    PROVE  IInv'
<1> DEFINE i == request[r].inv
<1>1. i \in Ids /\ Exists(i) /\ Unlocked(i)
  BY StepShape DEF LazyExpire, IInv, ExpiriesExist
<1>2. \A j \in Ids :
        /\ invitation'[j].status = IF j = i THEN "EXPIRED" ELSE invitation[j].status
        /\ invitation'[j].policy = invitation[j].policy
        /\ invitation'[j].validFrom = invitation[j].validFrom
        /\ invitation'[j].validUntil = invitation[j].validUntil
  BY <1>1 DEF LazyExpire, IInv, TypeOK, Types, Row
<1>3. \A j \in Ids :
        /\ counts'[j].entries = counts[j].entries
        /\ counts'[j].activations = counts[j].activations
        /\ counts'[j].swept = counts[j].swept
  BY <1>1 DEF LazyExpire, IInv, TypeOK, Types, Counts
<1>4. revoked' = revoked /\ \A j \in Ids :
        (j \in overwritten') <=> j \in overwritten \/ (j = i /\ invitation[j].status \in {"USED", "REVOKED"})
  BY <1>1 DEF LazyExpire
<1>5. \A s \in Requests : request'[s] = IF s = r THEN Idle ELSE request[s]
  BY DEF LazyExpire, Reply, IInv, TypeOK, Types
<1>6. UNCHANGED <<lock, visit>>
  BY DEF LazyExpire
<1>7. \A j \in Ids : OpenVisits(j)' = OpenVisits(j)
  BY <1>6 DEF OpenVisits
<1>. HIDE DEF i
<1>8. \A j \in Ids : /\ Exists(j)' <=> Exists(j)
                     /\ OneTime(j)' <=> OneTime(j)
  BY <1>1, <1>2 DEF Exists, OneTime
<1>9. /\ TypeOK /\ LockedRowsActive /\ EntriesLocked /\ ExtensionsFresh /\ ExpiriesExist
      /\ Accounts /\ NothingBeforeCreation /\ UsedOrRevokedOnceEntered /\ AtMostOneOpen
      /\ RevocationFinalUnlessOverwritten /\ WithinTotal
  BY DEF IInv
<1>10. LockedRowsActive'
  BY <1>1, <1>2, <1>5, <1>6, <1>8, <1>9, StepShape DEF LockedRowsActive, Unlocked, Idle, LazyExpire, TypeOK, Types
<1>11. EntriesLocked'
  BY <1>1, <1>5, <1>6, <1>7, <1>8, <1>9, StepShape DEF EntriesLocked, InEntry, Idle
<1>12. ExtensionsFresh'
  BY <1>1, <1>2, <1>5, <1>8, <1>9, StepShape DEF ExtensionsFresh, Idle
<1>13. ExpiriesExist'
  BY <1>5, <1>8, <1>9, StepShape DEF ExpiriesExist, Idle
<1>14. Accounts'
  BY <1>1, <1>2, <1>3, <1>8, <1>9 DEF Accounts, Live, TypeOK, Types, Counts
<1>15. NothingBeforeCreation'
  BY <1>3, <1>4, <1>7, <1>8, <1>9 DEF NothingBeforeCreation
<1>16. UsedOrRevokedOnceEntered'
  BY <1>2, <1>3, <1>4, <1>8, <1>9 DEF UsedOrRevokedOnceEntered
<1>17. AtMostOneOpen'
  BY <1>7, <1>8, <1>9 DEF AtMostOneOpen
<1>18. RevocationFinalUnlessOverwritten'
  BY <1>2, <1>3, <1>4, <1>8, <1>9 DEF RevocationFinalUnlessOverwritten
<1>19. WithinTotal'
  BY <1>2, <1>8, <1>9 DEF WithinTotal
<1>. QED
  BY <1>10, <1>11, <1>12, <1>13, <1>14, <1>15, <1>16, <1>17, <1>18, <1>19 DEF IInv

\* A request that begins by reading: nothing but its own step changes.
LEMMA ReadsKeep ==
    ASSUME IInv, NEW r \in Requests, NEW i \in Ids, TypeOK',
           VerifyRead(r, i) \/ PublicLookupRead(r, i) \/ ExtendRead(r, i) \/ EntryRead(r, i)
    PROVE  IInv'
<1>1. UNCHANGED <<invitation, lock, visit, counts, revoked, overwritten>>
  BY DEF VerifyRead, PublicLookupRead, ExtendRead, EntryRead, history
<1>2. Exists(i) /\ request[r] = Idle
  BY DEF VerifyRead, Verdict, PublicLookupRead, ExtendRead, EntryRead, Begin, Exists
<1>3. \A s \in Requests : s # r => request'[s] = request[s]
  BY DEF VerifyRead, PublicLookupRead, ExtendRead, EntryRead, Begin, IInv, TypeOK, Types
<1>4. request'[r].inv = i
  BY DEF VerifyRead, PublicLookupRead, ExtendRead, EntryRead, Begin, IInv, TypeOK, Types
<1>5. /\ request'[r].step \in {"expire", "extend", "entryUpdate", "entryCheck"}
      /\ request'[r].step = "entryUpdate" => OneTime(i)
      /\ request'[r].step = "entryCheck" => ~OneTime(i)
  BY DEF VerifyRead, PublicLookupRead, ExtendRead, EntryRead, Begin, IInv, TypeOK, Types, OneTime
<1>6. request'[r].step = "extend" =>
        /\ request'[r].readUntil = invitation[i].validUntil
        /\ request'[r].readUntil < request'[r].newUntil
        /\ request'[r].newUntil - invitation[i].validFrom <= Rules.maxTotal
        /\ request'[r].reactivate => invitation[i].status = "EXPIRED"
  <2>1. CASE ExtendRead(r, i)
    <3>1. PICK minutes \in Amounts :
            /\ EvaluateExtension(invitation[i], Rules, minutes, now) = "OK"
            /\ request'[r] = [step |-> "extend", inv |-> i,
                             readUntil |-> invitation[i].validUntil,
                             newUntil |-> NewValidUntil(invitation[i], minutes, now),
                             reactivate |-> invitation[i].status = "EXPIRED"]
      BY <2>1 DEF ExtendRead, Begin, IInv, TypeOK, Types
    <3>2. minutes \in Int /\ invitation[i] \in Row /\ now \in Nat
      BY AmountsAssumption DEF IInv, TypeOK, Types
    <3>3. /\ invitation[i].validUntil < NewValidUntil(invitation[i], minutes, now)
          /\ NewValidUntil(invitation[i], minutes, now) - invitation[i].validFrom <= Rules.maxTotal
      BY <3>1, <3>2, AcceptedExtension
    <3>4. /\ request'[r].readUntil = invitation[i].validUntil
          /\ request'[r].newUntil = NewValidUntil(invitation[i], minutes, now)
      BY <3>1
    <3>5. request'[r].reactivate => invitation[i].status = "EXPIRED"
      <4>1. request'[r].reactivate = (invitation[i].status = "EXPIRED")
        BY <3>1
      <4>. QED
        BY <4>1
    <3>. QED
      BY <3>3, <3>4, <3>5
  <2>2. CASE VerifyRead(r, i) \/ PublicLookupRead(r, i) \/ EntryRead(r, i)
    BY <2>2 DEF VerifyRead, PublicLookupRead, EntryRead, Begin, IInv, TypeOK, Types
  <2>. QED
    BY <2>1, <2>2
<1>7. \A j \in Ids : /\ OpenVisits(j)' = OpenVisits(j)
                     /\ Exists(j)' <=> Exists(j)
                     /\ OneTime(j)' <=> OneTime(j)
  BY <1>1 DEF OpenVisits, Exists, OneTime
<1>8. LockedRowsActive'
  BY <1>1, <1>2, <1>3, <1>7 DEF LockedRowsActive, IInv, Idle, TypeOK, Types
<1>9. EntriesLocked'
  BY <1>1, <1>2, <1>3, <1>4, <1>5, <1>7, StepShape DEF EntriesLocked, IInv, InEntry
<1>10. ExtensionsFresh'
  BY <1>1, <1>2, <1>3, <1>4, <1>6, <1>7, StepShape DEF ExtensionsFresh, IInv, TypeOK, Types, Row
<1>11. ExpiriesExist'
  BY <1>2, <1>3, <1>4, <1>7, StepShape DEF ExpiriesExist, IInv
<1>12. RowParts'
  BY <1>1, RowsKept
<1>. QED
  BY <1>8, <1>9, <1>10, <1>11, <1>12 DEF IInv, RowParts

LEMMA ExtendWriteKeeps ==
    ASSUME IInv, NEW r \in Requests, ExtendWrite(r), TypeOK'
    PROVE  IInv'
<1> DEFINE i == request[r].inv
           reactivate == request[r].reactivate
           until == request[r].newUntil
<1>1. /\ i \in Ids /\ Exists(i) /\ Unlocked(i)
      /\ until \in Nat
  BY StepShape DEF ExtendWrite, IInv, ExtensionsFresh
<1>2. \A s \in Requests : request'[s] = IF s = r THEN Idle ELSE request[s]
  BY DEF ExtendWrite, Reply, IInv, TypeOK, Types
<1>3. UNCHANGED <<lock, visit, revoked, overwritten>>
  BY DEF ExtendWrite
<1>4. \A j \in Ids : OpenVisits(j)' = OpenVisits(j)
  BY <1>3 DEF OpenVisits
<1>5. /\ TypeOK /\ LockedRowsActive /\ EntriesLocked /\ ExtensionsFresh /\ ExpiriesExist
      /\ Accounts /\ NothingBeforeCreation /\ UsedOrRevokedOnceEntered /\ AtMostOneOpen
      /\ RevocationFinalUnlessOverwritten /\ WithinTotal
  BY DEF IInv
<1>6. CASE ~ExtendMatches(r)
  <2>1. UNCHANGED <<invitation, counts>>
    BY <1>6 DEF ExtendWrite
  <2>2. \A j \in Ids : /\ Exists(j)' <=> Exists(j)
                       /\ OneTime(j)' <=> OneTime(j)
    BY <2>1 DEF Exists, OneTime
  <2>3. LockedRowsActive'
    BY <1>1, <1>2, <1>3, <1>5, <2>1, <2>2 DEF LockedRowsActive, ExtendWrite, Idle, TypeOK, Types
  <2>4. EntriesLocked' /\ ExpiriesExist'
    BY <1>2, <1>3, <1>4, <1>5, <2>2, StepShape DEF EntriesLocked, ExpiriesExist, InEntry, Idle
  <2>5. ExtensionsFresh'
    BY <1>2, <1>5, <2>1, <2>2, StepShape DEF ExtensionsFresh, Idle
  <2>6. RowParts'
    BY <1>3, <2>1, RowsKept
  <2>. QED
    BY <2>3, <2>4, <2>5, <2>6 DEF IInv, RowParts
<1>7. CASE ExtendMatches(r)
  <2>1. \A j \in Ids :
          /\ invitation'[j].status = IF j = i /\ reactivate THEN "ACTIVE" ELSE invitation[j].status
          /\ invitation'[j].policy = invitation[j].policy
          /\ invitation'[j].validFrom = invitation[j].validFrom
          /\ invitation'[j].validUntil = IF j = i THEN until ELSE invitation[j].validUntil
    BY <1>1, <1>7 DEF ExtendWrite, IInv, TypeOK, Types, Row
  <2>2. \A j \in Ids :
          /\ counts'[j].entries = counts[j].entries
          /\ counts'[j].swept = counts[j].swept
          /\ counts'[j].activations = IF j = i /\ reactivate THEN counts[j].activations + 1
                                      ELSE counts[j].activations
    BY <1>1, <1>7 DEF ExtendWrite, IInv, TypeOK, Types, Counts
  <2>3. /\ invitation[i].validUntil < until
        /\ until - invitation[i].validFrom <= Rules.maxTotal
        /\ invitation[i].status # "REVOKED"
        /\ reactivate => invitation[i].status = "EXPIRED"
    BY <1>1, <1>5, <1>7 DEF ExtendMatches, ExtensionsFresh, ExtendWrite
  <2>. HIDE DEF i, reactivate, until
  <2>4. \A j \in Ids : /\ Exists(j)' <=> Exists(j)
                       /\ OneTime(j)' <=> OneTime(j)
    BY <1>1, <2>1 DEF Exists, OneTime
  <2>5. LockedRowsActive'
    BY <1>1, <1>2, <1>3, <1>5, <2>1, <2>4, StepShape DEF LockedRowsActive, Unlocked, ExtendWrite, Idle, TypeOK, Types
  <2>6. EntriesLocked' /\ ExpiriesExist'
    BY <1>2, <1>3, <1>4, <1>5, <2>4, StepShape DEF EntriesLocked, ExpiriesExist, InEntry, Idle
  <2>7. ExtensionsFresh'
    BY <1>1, <1>2, <1>5, <2>1, <2>3, <2>4, StepShape DEF ExtensionsFresh, Idle, TypeOK, Types, Row
  <2>8. Accounts'
    BY <1>1, <1>5, <2>1, <2>2, <2>3, <2>4 DEF Accounts, Live, TypeOK, Types, Counts
  <2>9. NothingBeforeCreation'
    BY <1>3, <1>4, <1>5, <2>2, <2>4 DEF NothingBeforeCreation
  <2>10. UsedOrRevokedOnceEntered'
    BY <1>3, <1>5, <2>1, <2>2, <2>3, <2>4 DEF UsedOrRevokedOnceEntered
  <2>11. AtMostOneOpen'
    BY <1>4, <1>5, <2>4 DEF AtMostOneOpen
  <2>12. RevocationFinalUnlessOverwritten'
    BY <1>3, <1>5, <2>1, <2>3 DEF RevocationFinalUnlessOverwritten
  <2>13. WithinTotal'
    BY <1>5, <2>1, <2>3, <2>4 DEF WithinTotal
  <2>. QED
    BY <2>5, <2>6, <2>7, <2>8, <2>9, <2>10, <2>11, <2>12, <2>13 DEF IInv
<1>. QED
  BY <1>6, <1>7

LEMMA EntryUpdateKeeps ==
    ASSUME IInv, NEW r \in Requests, EntryUpdate(r), TypeOK'
    PROVE  IInv'
<1> DEFINE i == request[r].inv
<1>1. i \in Ids /\ Exists(i) /\ Unlocked(i) /\ OneTime(i) /\ request[r].step = "entryUpdate"
  BY StepShape DEF EntryUpdate, IInv, EntriesLocked, InEntry
<1>2. UNCHANGED <<invitation, visit, counts, revoked, overwritten>>
  BY DEF EntryUpdate, history
<1>3. \A j \in Ids : /\ OpenVisits(j)' = OpenVisits(j)
                     /\ Exists(j)' <=> Exists(j)
                     /\ OneTime(j)' <=> OneTime(j)
  BY <1>2 DEF OpenVisits, Exists, OneTime
<1>4. \A s \in Requests : s # r => request'[s] = request[s]
  BY DEF EntryUpdate, Reply, IInv, TypeOK, Types
<1>5. \/ /\ invitation[i].status = "ACTIVE"
         /\ \A j \in Ids : lock'[j] = IF j = i THEN r ELSE lock[j]
         /\ request'[r].step = "entryCheck" /\ request'[r].inv = i
      \/ UNCHANGED lock /\ request'[r] = Idle
  BY <1>1, StepShape DEF EntryUpdate, Reply, IInv, TypeOK, Types
<1>. HIDE DEF i
<1>6. /\ TypeOK /\ LockedRowsActive /\ EntriesLocked /\ ExtensionsFresh /\ ExpiriesExist
  BY DEF IInv
<1>7. LockedRowsActive'
  BY <1>1, <1>2, <1>3, <1>4, <1>5, <1>6, NoRequestAssumption DEF LockedRowsActive, TypeOK, Types
<1>8. EntriesLocked'
  BY <1>1, <1>3, <1>4, <1>5, <1>6, StepShape, NoRequestAssumption DEF EntriesLocked, InEntry, Idle, Unlocked
<1>9. ExtensionsFresh' /\ ExpiriesExist'
  BY <1>2, <1>3, <1>4, <1>5, <1>6, StepShape DEF ExtensionsFresh, ExpiriesExist, Idle
<1>10. RowParts'
  BY <1>2, RowsKept
<1>. QED
  BY <1>7, <1>8, <1>9, <1>10 DEF IInv, RowParts

LEMMA EntryCheckKeeps ==
    ASSUME IInv, NEW r \in Requests, EntryCheck(r), TypeOK'
    PROVE  IInv'
<1> DEFINE i == request[r].inv
<1>1. /\ i \in Ids /\ Exists(i) /\ request[r].step = "entryCheck" /\ request[r].inv = i
      /\ OneTime(i) => lock[i] = r
  BY StepShape DEF EntryCheck, IInv, EntriesLocked, InEntry
<1>2. UNCHANGED <<invitation, visit, counts, revoked, overwritten>>
  BY DEF EntryCheck, history
<1>3. \A j \in Ids : /\ OpenVisits(j)' = OpenVisits(j)
                     /\ Exists(j)' <=> Exists(j)
                     /\ OneTime(j)' <=> OneTime(j)
  BY <1>2 DEF OpenVisits, Exists, OneTime
<1>4. \A s \in Requests : s # r => request'[s] = request[s]
  BY DEF EntryCheck, Reply, IInv, TypeOK, Types
<1>5. \/ /\ OpenVisits(i) = {}
         /\ UNCHANGED lock
         /\ request'[r].step = "entryInsert" /\ request'[r].inv = i
      \/ /\ \A j \in Ids : lock'[j] = IF j = i /\ lock[j] = r THEN NoRequest ELSE lock[j]
         /\ request'[r] = Idle
  BY <1>1, StepShape DEF EntryCheck, Reply, IInv, TypeOK, Types
<1>. HIDE DEF i
<1>6. /\ TypeOK /\ LockedRowsActive /\ EntriesLocked /\ ExtensionsFresh /\ ExpiriesExist
  BY DEF IInv
<1>7. LockedRowsActive'
  <2>1. ASSUME NEW j \in Ids, lock'[j] # NoRequest
        PROVE  /\ lock'[j] = lock[j] /\ lock[j] \in Requests
               /\ lock[j] = r => j = i /\ request'[r].step = "entryInsert"
    BY <1>1, <1>5, <1>6, <2>1, NoRequestAssumption DEF LockedRowsActive, TypeOK, Types
  <2>. QED
    BY <1>1, <1>2, <1>3, <1>4, <1>5, <1>6, <2>1 DEF LockedRowsActive, Idle
<1>8. EntriesLocked'
  BY <1>1, <1>3, <1>4, <1>5, <1>6, StepShape, NoRequestAssumption DEF EntriesLocked, InEntry, Idle
<1>9. ExtensionsFresh' /\ ExpiriesExist'
  BY <1>2, <1>3, <1>4, <1>5, <1>6, StepShape DEF ExtensionsFresh, ExpiriesExist, Idle
<1>10. RowParts'
  BY <1>2, RowsKept
<1>. QED
  BY <1>7, <1>8, <1>9, <1>10 DEF IInv, RowParts

LEMMA EntryCommitKeeps ==
    ASSUME IInv, NEW r \in Requests, EntryCommit(r), TypeOK'
    PROVE  IInv'
<1> DEFINE i == request[r].inv
<1>1. /\ i \in Ids /\ Exists(i) /\ request[r].step = "entryInsert" /\ request[r].inv = i
      /\ OneTime(i) => lock[i] = r /\ OpenVisits(i) = {}
      /\ lock[i] = r => OneTime(i) /\ invitation[i].status = "ACTIVE"
  <2>1. i \in Ids /\ request[r].step = "entryInsert" /\ request[r].inv = i
    BY StepShape DEF EntryCommit, IInv
  <2>2. Exists(i) /\ (OneTime(i) => lock[i] = r /\ OpenVisits(i) = {})
    BY <2>1 DEF IInv, EntriesLocked, InEntry
  <2>3. lock[i] = r => OneTime(i) /\ invitation[i].status = "ACTIVE"
    BY <2>1, NoRequestAssumption DEF IInv, LockedRowsActive
  <2>. QED
    BY <2>1, <2>2, <2>3
<1>2. PICK v \in Visits : visit[v] = NoVisit /\
        visit' = [visit EXCEPT ![v] = [inv |-> i, inside |-> TRUE]]
  BY DEF EntryCommit
<1>3. \A j \in Ids :
        /\ invitation'[j].status = IF j = i /\ lock[i] = r THEN "USED" ELSE invitation[j].status
        /\ invitation'[j].policy = invitation[j].policy
        /\ invitation'[j].validFrom = invitation[j].validFrom
        /\ invitation'[j].validUntil = invitation[j].validUntil
  <2>1. CASE lock[i] = r
    BY <1>1, <2>1 DEF EntryCommit, IInv, TypeOK, Types, Row
  <2>2. CASE lock[i] # r
    BY <2>2 DEF EntryCommit
  <2>. QED
    BY <2>1, <2>2
<1>4. \A j \in Ids :
        /\ counts'[j].entries = IF j = i THEN counts[j].entries + 1 ELSE counts[j].entries
        /\ counts'[j].swept = counts[j].swept
        /\ counts'[j].activations = counts[j].activations
  BY <1>1 DEF EntryCommit, IInv, TypeOK, Types, Counts
<1>5. \A s \in Requests : request'[s] = IF s = r THEN Idle ELSE request[s]
  BY DEF EntryCommit, Reply, IInv, TypeOK, Types
<1>6. \A j \in Ids : lock'[j] = IF j = i /\ lock[j] = r THEN NoRequest ELSE lock[j]
  BY <1>1 DEF EntryCommit, IInv, TypeOK, Types
<1>7. UNCHANGED <<revoked, overwritten>>
  BY DEF EntryCommit
<1>8. \A j \in Ids : OpenVisits(j)' = IF j = i THEN OpenVisits(j) \cup {v} ELSE OpenVisits(j)
  <2>1. \A w \in Visits : visit'[w] = IF w = v THEN [inv |-> i, inside |-> TRUE] ELSE visit[w]
    BY <1>2 DEF IInv, TypeOK, Types
  <2>. HIDE DEF i
  <2>2. [inv |-> i, inside |-> TRUE] # NoVisit
    <3>1. i \in Ids /\ TRUE \in BOOLEAN /\ 0 \in Nat
      BY <1>1
    <3>2. [inv |-> i, inside |-> TRUE] \in [inv: Ids, inside: BOOLEAN]
      BY <3>1, Zenon
    <3>. QED
      BY <3>2, NoVisitAssumption, Zenon
  <2>3. \A j \in Ids, w \in Visits : w \in OpenVisits(j)' <=> w \in OpenVisits(j) \/ (w = v /\ j = i)
    BY <1>2, <2>1, <2>2 DEF OpenVisits
  <2>4. \A j \in Ids : OpenVisits(j) \subseteq Visits /\ OpenVisits(j)' \subseteq Visits
    BY DEF OpenVisits
  <2>. QED
    BY <2>3, <2>4
<1>. HIDE DEF i
<1>9. \A j \in Ids : /\ Exists(j)' <=> Exists(j)
                     /\ OneTime(j)' <=> OneTime(j)
  BY <1>1, <1>3 DEF Exists, OneTime
<1>10. /\ TypeOK /\ LockedRowsActive /\ EntriesLocked /\ ExtensionsFresh /\ ExpiriesExist
       /\ Accounts /\ NothingBeforeCreation /\ UsedOrRevokedOnceEntered /\ AtMostOneOpen
       /\ RevocationFinalUnlessOverwritten /\ WithinTotal
  BY DEF IInv
<1>11. LockedRowsActive'
  <2>1. ASSUME NEW j \in Ids, lock'[j] # NoRequest
        PROVE  lock'[j] = lock[j] /\ lock[j] \in Requests /\ lock[j] # r /\ (j = i => lock[i] # r)
    BY <1>1, <1>6, <1>10, <2>1 DEF LockedRowsActive, TypeOK, Types
  <2>. QED
    BY <1>1, <1>3, <1>5, <1>6, <1>9, <1>10, <2>1 DEF LockedRowsActive
<1>12. EntriesLocked'
  BY <1>1, <1>5, <1>6, <1>8, <1>9, <1>10, StepShape DEF EntriesLocked, InEntry, Idle
<1>13. ExtensionsFresh'
  BY <1>1, <1>3, <1>5, <1>9, <1>10, StepShape DEF ExtensionsFresh, Idle
<1>14. ExpiriesExist'
  BY <1>5, <1>9, <1>10, StepShape DEF ExpiriesExist, Idle
<1>15. Accounts'
  BY <1>1, <1>3, <1>4, <1>9, <1>10 DEF Accounts, Live, TypeOK, Types, Counts
<1>16. NothingBeforeCreation'
  BY <1>1, <1>4, <1>7, <1>8, <1>9, <1>10 DEF NothingBeforeCreation
<1>17. UsedOrRevokedOnceEntered'
  BY <1>1, <1>3, <1>4, <1>7, <1>9, <1>10 DEF UsedOrRevokedOnceEntered, TypeOK, Types, Counts
<1>18. AtMostOneOpen'
  BY <1>1, <1>8, <1>9, <1>10 DEF AtMostOneOpen
<1>19. RevocationFinalUnlessOverwritten'
  BY <1>1, <1>3, <1>7, <1>10 DEF RevocationFinalUnlessOverwritten
<1>20. WithinTotal'
  BY <1>3, <1>9, <1>10 DEF WithinTotal
<1>. QED
  BY <1>11, <1>12, <1>13, <1>14, <1>15, <1>16, <1>17, <1>18, <1>19, <1>20 DEF IInv

\* A pass marked EXPIRED by the sweep.
LEMMA SweepRowKeeps ==
    ASSUME IInv, SweepRow, TypeOK'
    PROVE  IInv'
<1>1. PICK i \in Ids : Unlocked(i) /\
        \/ /\ invitation[i].status = "ACTIVE"
           /\ invitation' = [invitation EXCEPT ![i].status = "EXPIRED"]
           /\ counts' = [counts EXCEPT ![i].swept = @ + 1]
        \/ UNCHANGED <<invitation, counts>>
  BY DEF SweepRow, Due, IInv, TypeOK, Types, Sweep
<1>2. UNCHANGED <<lock, visit, request, revoked, overwritten>>
  BY DEF SweepRow
<1>3. CASE UNCHANGED <<invitation, counts>>
  <2>1. \A j \in Ids : /\ OpenVisits(j)' = OpenVisits(j)
                       /\ Exists(j)' <=> Exists(j)
                       /\ OneTime(j)' <=> OneTime(j)
    BY <1>2, <1>3 DEF OpenVisits, Exists, OneTime
  <2>2. RequestParts'
    BY <1>2, <1>3, <2>1, StepShape DEF IInv, RequestParts, LockedRowsActive, EntriesLocked, ExtensionsFresh, ExpiriesExist, InEntry, TypeOK, Types
  <2>3. RowParts'
    BY <1>2, <1>3, RowsKept
  <2>. QED
    BY <2>2, <2>3 DEF IInv, RowParts, RequestParts
<1>4. CASE /\ invitation[i].status = "ACTIVE"
           /\ invitation' = [invitation EXCEPT ![i].status = "EXPIRED"]
           /\ counts' = [counts EXCEPT ![i].swept = @ + 1]
  <2>1. \A j \in Ids :
          /\ invitation'[j].status = IF j = i THEN "EXPIRED" ELSE invitation[j].status
          /\ invitation'[j].policy = invitation[j].policy
          /\ invitation'[j].validFrom = invitation[j].validFrom
          /\ invitation'[j].validUntil = invitation[j].validUntil
    BY <1>4 DEF IInv, TypeOK, Types, Row
  <2>2. \A j \in Ids :
          /\ counts'[j].entries = counts[j].entries
          /\ counts'[j].activations = counts[j].activations
          /\ counts'[j].swept = IF j = i THEN counts[j].swept + 1 ELSE counts[j].swept
    BY <1>4 DEF IInv, TypeOK, Types, Counts
  <2>3. \A j \in Ids : /\ OpenVisits(j)' = OpenVisits(j)
                       /\ Exists(j)' <=> Exists(j)
                       /\ OneTime(j)' <=> OneTime(j)
    BY <1>2, <1>4, <2>1 DEF OpenVisits, Exists, OneTime
  <2>4. /\ TypeOK /\ LockedRowsActive /\ EntriesLocked /\ ExtensionsFresh /\ ExpiriesExist
        /\ Accounts /\ NothingBeforeCreation /\ UsedOrRevokedOnceEntered /\ AtMostOneOpen
        /\ RevocationFinalUnlessOverwritten /\ WithinTotal
    BY DEF IInv
  <2>5. LockedRowsActive'
    BY <1>1, <1>2, <2>1, <2>3, <2>4 DEF LockedRowsActive, Unlocked
  <2>6. EntriesLocked' /\ ExpiriesExist'
    BY <1>2, <2>3, <2>4, StepShape DEF EntriesLocked, ExpiriesExist, InEntry
  <2>7. ExtensionsFresh'
    BY <1>2, <2>1, <2>3, <2>4, StepShape DEF ExtensionsFresh
  <2>8. Accounts'
    BY <1>4, <2>1, <2>2, <2>3, <2>4 DEF Accounts, Live, TypeOK, Types, Counts
  <2>9. NothingBeforeCreation'
    BY <1>2, <1>4, <2>2, <2>3, <2>4 DEF NothingBeforeCreation, Exists
  <2>10. UsedOrRevokedOnceEntered'
    BY <1>2, <1>4, <2>1, <2>2, <2>3, <2>4 DEF UsedOrRevokedOnceEntered
  <2>11. AtMostOneOpen'
    BY <2>3, <2>4 DEF AtMostOneOpen
  <2>12. RevocationFinalUnlessOverwritten'
    BY <1>2, <1>4, <2>1, <2>4 DEF RevocationFinalUnlessOverwritten
  <2>13. WithinTotal'
    BY <2>1, <2>3, <2>4 DEF WithinTotal
  <2>. QED
    BY <2>4, <2>5, <2>6, <2>7, <2>8, <2>9, <2>10, <2>11, <2>12, <2>13 DEF IInv
<1>. QED
  BY <1>1, <1>3, <1>4

LEMMA SweepStartKeeps ==
    ASSUME IInv, SweepStart, TypeOK'
    PROVE  IInv'
<1>1. \A j \in Ids :
        /\ \/ invitation'[j].status = invitation[j].status
           \/ lock[j] = NoRequest /\ invitation[j].status = "ACTIVE" /\ invitation'[j].status = "EXPIRED"
        /\ invitation'[j].policy = invitation[j].policy
        /\ invitation'[j].validFrom = invitation[j].validFrom
        /\ invitation'[j].validUntil = invitation[j].validUntil
  BY DEF SweepStart, Unlocked, IInv, TypeOK, Types, Row
<1>2. UNCHANGED <<lock, visit, request, counts, revoked, overwritten>>
  BY DEF SweepStart, history
<1>3. \A j \in Ids : /\ OpenVisits(j)' = OpenVisits(j)
                     /\ Exists(j)' <=> Exists(j)
                     /\ OneTime(j)' <=> OneTime(j)
  BY <1>1, <1>2 DEF OpenVisits, Exists, OneTime
<1>4. /\ TypeOK /\ LockedRowsActive /\ EntriesLocked /\ ExtensionsFresh /\ ExpiriesExist
      /\ Accounts /\ NothingBeforeCreation /\ UsedOrRevokedOnceEntered /\ AtMostOneOpen
      /\ RevocationFinalUnlessOverwritten /\ WithinTotal
  BY DEF IInv
<1>5. LockedRowsActive'
  BY <1>1, <1>2, <1>3, <1>4 DEF LockedRowsActive
<1>6. EntriesLocked' /\ ExpiriesExist'
  BY <1>2, <1>3, <1>4, StepShape DEF EntriesLocked, ExpiriesExist, InEntry
<1>7. ExtensionsFresh'
  BY <1>1, <1>2, <1>3, <1>4, StepShape DEF ExtensionsFresh
<1>8. Accounts'
  BY <1>1, <1>2, <1>3, <1>4 DEF Accounts, Live, TypeOK, Types, Counts
<1>9. NothingBeforeCreation' /\ AtMostOneOpen'
  BY <1>2, <1>3, <1>4 DEF NothingBeforeCreation, AtMostOneOpen
<1>10. UsedOrRevokedOnceEntered' /\ RevocationFinalUnlessOverwritten'
  BY <1>1, <1>2, <1>3, <1>4 DEF UsedOrRevokedOnceEntered, RevocationFinalUnlessOverwritten
<1>11. WithinTotal'
  BY <1>1, <1>3, <1>4 DEF WithinTotal
<1>. QED
  BY <1>4, <1>5, <1>6, <1>7, <1>8, <1>9, <1>10, <1>11 DEF IInv

LEMMA CreateKeeps ==
    ASSUME IInv, NEW i \in Ids, CreateInvitation(i), TypeOK'
    PROVE  IInv'
<1>1. PICK policy \in Policies, w \in Windows :
        invitation' = [invitation EXCEPT ![i] =
            [status |-> "ACTIVE", policy |-> policy, validFrom |-> w[1], validUntil |-> w[2]]]
  BY DEF CreateInvitation
<1>2. w \in Nat \X Nat
  BY WindowsAssumption
<1>3. /\ invitation'[i].status = "ACTIVE"
      /\ invitation'[i].validFrom = w[1] /\ invitation'[i].validUntil = w[2]
      /\ \A j \in Ids : j # i => invitation'[j] = invitation[j]
  BY <1>1 DEF IInv, TypeOK, Types
<1>4. \A j \in Ids :
        /\ counts'[j].entries = counts[j].entries
        /\ counts'[j].swept = counts[j].swept
        /\ counts'[j].activations = IF j = i THEN counts[j].activations + 1 ELSE counts[j].activations
  BY DEF CreateInvitation, IInv, TypeOK, Types, Counts
<1>5. ~Exists(i) /\ UNCHANGED <<lock, visit, request, revoked, overwritten>>
  BY DEF CreateInvitation
<1>6. \A j \in Ids : /\ OpenVisits(j)' = OpenVisits(j)
                     /\ j # i => (Exists(j)' <=> Exists(j)) /\ (OneTime(j)' <=> OneTime(j))
                     /\ Exists(j) => Exists(j)' /\ j # i
                     /\ Exists(i)'
  BY <1>3, <1>5 DEF OpenVisits, Exists, OneTime
<1>7. /\ TypeOK /\ LockedRowsActive /\ EntriesLocked /\ ExtensionsFresh /\ ExpiriesExist
      /\ Accounts /\ NothingBeforeCreation /\ UsedOrRevokedOnceEntered /\ AtMostOneOpen
      /\ RevocationFinalUnlessOverwritten /\ WithinTotal
  BY DEF IInv
<1>8. /\ counts[i].entries = 0 /\ counts[i].swept = 0 /\ i \notin revoked
      /\ OpenVisits(i) = {} /\ lock[i] = NoRequest
  BY <1>5, <1>7 DEF NothingBeforeCreation, LockedRowsActive, Exists
<1>9. LockedRowsActive'
  BY <1>3, <1>5, <1>6, <1>7, <1>8 DEF LockedRowsActive
<1>10. EntriesLocked' /\ ExpiriesExist'
  BY <1>5, <1>6, <1>7, StepShape DEF EntriesLocked, ExpiriesExist, InEntry
<1>11. ExtensionsFresh'
  BY <1>3, <1>5, <1>6, <1>7, StepShape DEF ExtensionsFresh
<1>12. Accounts'
  BY <1>3, <1>4, <1>6, <1>7, <1>8 DEF Accounts, Live, TypeOK, Types, Counts
<1>13. NothingBeforeCreation' /\ UsedOrRevokedOnceEntered' /\ RevocationFinalUnlessOverwritten'
  BY <1>3, <1>4, <1>5, <1>6, <1>7, <1>8 DEF NothingBeforeCreation, UsedOrRevokedOnceEntered, RevocationFinalUnlessOverwritten
<1>14. AtMostOneOpen'
  BY <1>6, <1>7, <1>8 DEF AtMostOneOpen
<1>15. WithinTotal'
  <2>1. <<w[1], w[2]>> \in Windows
    BY <1>2
  <2>. QED
    BY <1>3, <1>6, <1>7, <2>1 DEF WithinTotal
<1>. QED
  BY <1>7, <1>9, <1>10, <1>11, <1>12, <1>13, <1>14, <1>15 DEF IInv

LEMMA RevokeKeeps ==
    ASSUME IInv, NEW i \in Ids, Revoke(i), TypeOK'
    PROVE  IInv'
<1>1. \A j \in Ids :
        /\ invitation'[j].status = IF j = i THEN "REVOKED" ELSE invitation[j].status
        /\ invitation'[j].policy = invitation[j].policy
        /\ invitation'[j].validFrom = invitation[j].validFrom
        /\ invitation'[j].validUntil = invitation[j].validUntil
  BY DEF Revoke, IInv, TypeOK, Types, Row
<1>2. UNCHANGED <<lock, visit, request, counts, overwritten>>
  BY DEF Revoke
<1>3. Exists(i) /\ Unlocked(i) /\ revoked' = revoked \cup {i}
  BY DEF Revoke
<1>4. \A j \in Ids : /\ OpenVisits(j)' = OpenVisits(j)
                     /\ Exists(j)' <=> Exists(j)
                     /\ OneTime(j)' <=> OneTime(j)
  BY <1>1, <1>2, <1>3 DEF OpenVisits, Exists, OneTime
<1>5. /\ TypeOK /\ LockedRowsActive /\ EntriesLocked /\ ExtensionsFresh /\ ExpiriesExist
      /\ Accounts /\ NothingBeforeCreation /\ UsedOrRevokedOnceEntered /\ AtMostOneOpen
      /\ RevocationFinalUnlessOverwritten /\ WithinTotal
  BY DEF IInv
<1>6. LockedRowsActive'
  BY <1>1, <1>2, <1>3, <1>4, <1>5 DEF LockedRowsActive, Unlocked
<1>7. EntriesLocked' /\ ExpiriesExist'
  BY <1>2, <1>4, <1>5, StepShape DEF EntriesLocked, ExpiriesExist, InEntry
<1>8. ExtensionsFresh'
  BY <1>1, <1>2, <1>4, <1>5, StepShape DEF ExtensionsFresh
<1>9. Accounts'
  BY <1>1, <1>2, <1>4, <1>5 DEF Accounts, Live, TypeOK, Types, Counts
<1>10. NothingBeforeCreation' /\ AtMostOneOpen'
  BY <1>2, <1>3, <1>4, <1>5 DEF NothingBeforeCreation, AtMostOneOpen
<1>11. UsedOrRevokedOnceEntered' /\ RevocationFinalUnlessOverwritten'
  BY <1>1, <1>2, <1>3, <1>4, <1>5 DEF UsedOrRevokedOnceEntered, RevocationFinalUnlessOverwritten
<1>12. WithinTotal'
  BY <1>1, <1>4, <1>5 DEF WithinTotal
<1>. QED
  BY <1>5, <1>6, <1>7, <1>8, <1>9, <1>10, <1>11, <1>12 DEF IInv

\* Steps that only start, drop or leave alone requests that hold no row.
LEMMA OthersKeep ==
    ASSUME IInv, TypeOK',
           UNCHANGED <<invitation, visit, counts, revoked, overwritten>>,
           \A s \in Requests :
             \/ request'[s] = request[s] /\ \A j \in Ids : lock[j] = s => lock'[j] = s
             \/ request'[s].step \in {"idle", "exit"} /\ \A j \in Ids : lock'[j] # s,
           \A j \in Ids : lock'[j] \in {lock[j], NoRequest}
    PROVE  IInv'
<1>1. \A j \in Ids : /\ OpenVisits(j)' = OpenVisits(j)
                     /\ Exists(j)' <=> Exists(j)
                     /\ OneTime(j)' <=> OneTime(j)
  BY DEF OpenVisits, Exists, OneTime
<1>2. /\ TypeOK /\ LockedRowsActive /\ EntriesLocked /\ ExtensionsFresh /\ ExpiriesExist
  BY DEF IInv
<1>3. LockedRowsActive'
  <2>1. ASSUME NEW j \in Ids, lock'[j] # NoRequest
        PROVE  lock'[j] = lock[j] /\ lock[j] \in Requests /\ request'[lock[j]] = request[lock[j]]
    BY <2>1, <1>2 DEF TypeOK, Types
  <2>. QED
    BY <1>1, <1>2, <2>1 DEF LockedRowsActive
<1>4. EntriesLocked'
  BY <1>1, <1>2, StepShape DEF EntriesLocked, InEntry
<1>5. ExtensionsFresh' /\ ExpiriesExist'
  BY <1>1, <1>2, StepShape DEF ExtensionsFresh, ExpiriesExist
<1>6. RowParts'
  BY RowsKept
<1>. QED
  BY <1>3, <1>4, <1>5, <1>6 DEF IInv, RowParts

\* A visit is closed.
LEMMA ExitWriteKeeps ==
    ASSUME IInv, NEW r \in Requests, ExitWrite(r), TypeOK'
    PROVE  IInv'
<1>1. request[r].step = "exit" /\ request[r].visit \in Visits /\ visit[request[r].visit] \in VisitRow
  BY StepShape DEF ExitWrite, IInv, TypeOK, Types, ExitsExist
<1>2. UNCHANGED <<invitation, lock, counts, revoked, overwritten>>
  BY DEF ExitWrite, history
<1>3. \A s \in Requests : request'[s] = IF s = r THEN Idle ELSE request[s]
  BY DEF ExitWrite, Reply, IInv, TypeOK, Types
<1>4. \A w \in Visits : visit'[w].inv = visit[w].inv
                        /\ (w # request[r].visit => visit'[w] = visit[w])
  BY <1>1 DEF ExitWrite, IInv, TypeOK, Types, VisitRow
<1>5. \A j \in Ids : /\ OpenVisits(j)' \subseteq OpenVisits(j)
                     /\ Exists(j)' <=> Exists(j)
                     /\ OneTime(j)' <=> OneTime(j)
                     /\ Live(j)' = Live(j)
  <2>1. visit'[request[r].visit].inside = FALSE
    BY <1>1 DEF ExitWrite, IInv, TypeOK, Types, VisitRow
  <2>. QED
    BY <1>2, <1>4, <2>1 DEF OpenVisits, Exists, OneTime, Live
<1>6. /\ TypeOK /\ LockedRowsActive /\ EntriesLocked /\ ExtensionsFresh /\ ExpiriesExist
      /\ Accounts /\ NothingBeforeCreation /\ UsedOrRevokedOnceEntered /\ AtMostOneOpen
      /\ RevocationFinalUnlessOverwritten /\ WithinTotal
  BY DEF IInv
<1>7. LockedRowsActive'
  BY <1>1, <1>2, <1>3, <1>5, <1>6 DEF LockedRowsActive, TypeOK, Types
<1>8. EntriesLocked'
  BY <1>2, <1>3, <1>5, <1>6, StepShape DEF EntriesLocked, InEntry, Idle
<1>9. ExtensionsFresh' /\ ExpiriesExist'
  BY <1>2, <1>3, <1>5, <1>6, StepShape DEF ExtensionsFresh, ExpiriesExist, Idle
<1>10. Accounts' /\ UsedOrRevokedOnceEntered' /\ RevocationFinalUnlessOverwritten' /\ WithinTotal'
  BY <1>2, <1>5, <1>6 DEF Accounts, UsedOrRevokedOnceEntered, RevocationFinalUnlessOverwritten, WithinTotal
<1>11. NothingBeforeCreation' /\ AtMostOneOpen'
  BY <1>2, <1>5, <1>6 DEF NothingBeforeCreation, AtMostOneOpen
<1>. QED
  BY <1>6, <1>7, <1>8, <1>9, <1>10, <1>11 DEF IInv

LEMMA Inductive == IInv /\ [Next]_vars => IInv'
<1> SUFFICES ASSUME IInv, [Next]_vars PROVE IInv'
  OBVIOUS
<1>1. TypeOK'
  BY TypeKept DEF IInv
<1>2. LockedRowsActive /\ TypeOK /\ Types
  BY DEF IInv, TypeOK
<1>3. CASE UNCHANGED vars
  BY <1>1, <1>2, <1>3, OthersKeep DEF vars, history, Types
<1>4. ASSUME NEW i \in Ids, CreateInvitation(i) \/ Revoke(i) PROVE IInv'
  BY <1>1, <1>4, CreateKeeps, RevokeKeeps
<1>5. ASSUME NEW r \in Requests, NEW i \in Ids,
             VerifyRead(r, i) \/ PublicLookupRead(r, i) \/ ExtendRead(r, i) \/ EntryRead(r, i)
      PROVE  IInv'
  BY <1>1, <1>5, ReadsKeep
<1>6. ASSUME NEW r \in Requests, NEW v \in Visits, ExitRead(r, v) PROVE IInv'
  <2>1. /\ request[r] = Idle /\ request'[r].step = "exit"
        /\ \A s \in Requests : s # r => request'[s] = request[s]
        /\ UNCHANGED <<invitation, lock, visit, counts, revoked, overwritten>>
    BY <1>2, <1>6 DEF ExitRead, Begin, history, Types
  <2>2. \A j \in Ids : lock[j] # r
    BY <1>2, <2>1, NoRequestAssumption DEF LockedRowsActive, Idle
  <2>. QED
    BY <1>1, <2>1, <2>2, OthersKeep
<1>7. ASSUME NEW r \in Requests, Continue(r) PROVE IInv'
  BY <1>1, <1>7, LazyExpireKeeps, ExtendWriteKeeps, EntryUpdateKeeps, EntryCheckKeeps,
     EntryCommitKeeps, ExitWriteKeeps DEF Continue
<1>8. ASSUME NEW r \in Requests, RequestFail(r) PROVE IInv'
  <2>1. /\ UNCHANGED <<invitation, visit, counts, revoked, overwritten>>
        /\ \A s \in Requests : request'[s] = IF s = r THEN Idle ELSE request[s]
        /\ \A j \in Ids : lock'[j] = IF lock[j] = r THEN NoRequest ELSE lock[j]
    BY <1>2, <1>8 DEF RequestFail, Reply, history, Types
  <2>. QED
    BY <1>1, <2>1, OthersKeep, NoRequestAssumption DEF Idle
<1>9. CASE Restart
  <2>1. /\ UNCHANGED <<invitation, visit, counts, revoked, overwritten>>
        /\ \A s \in Requests : request'[s] = Idle
        /\ \A j \in Ids : lock'[j] = NoRequest
    BY <1>9 DEF Restart, history
  <2>. QED
    BY <1>1, <2>1, OthersKeep, NoRequestAssumption DEF Idle
<1>10. CASE SweepStep
  <2>1. CASE SweepFind \/ SweepEnd
    BY <1>1, <1>2, <2>1, OthersKeep DEF SweepFind, SweepEnd, history, Types
  <2>. QED
    BY <1>1, <1>10, <2>1, SweepStartKeeps, SweepRowKeeps DEF SweepStep
<1>11. CASE SweepFail \/ Tick
  BY <1>1, <1>2, <1>11, OthersKeep DEF SweepFail, Tick, history, Types
<1>. QED
  BY <1>3, <1>4, <1>5, <1>6, <1>7, <1>8, <1>9, <1>10, <1>11 DEF Next, Handler

\* The inductive invariant holds throughout.
THEOREM InductiveInvariant == Spec => []IInv
<1>1. Init => IInv
  <2> SUFFICES ASSUME Init PROVE IInv
    OBVIOUS
  <2>1. TypeOK
    BY TypeInit
  <2>2. /\ \A i \in Ids : /\ ~Exists(i) /\ Live(i) = 0 /\ OneTime(i) /\ lock[i] = NoRequest
                          /\ counts[i] = [entries |-> 0, activations |-> 0, swept |-> 0, told |-> 0]
                          /\ OpenVisits(i) = {} /\ i \notin revoked
        /\ \A r \in Requests : request[r].step = "idle"
    BY DEF Init, Exists, Live, OneTime, OpenVisits, Idle
  <2>3. /\ LockedRowsActive /\ EntriesLocked /\ ExtensionsFresh /\ ExpiriesExist
        /\ NothingBeforeCreation /\ UsedOrRevokedOnceEntered /\ AtMostOneOpen
        /\ RevocationFinalUnlessOverwritten /\ WithinTotal
    BY <2>2 DEF LockedRowsActive, EntriesLocked, ExtensionsFresh, ExpiriesExist, InEntry,
       NothingBeforeCreation, UsedOrRevokedOnceEntered, AtMostOneOpen,
       RevocationFinalUnlessOverwritten, WithinTotal
  <2>4. Accounts
    BY <2>2 DEF Accounts
  <2>. QED
    BY <2>1, <2>3, <2>4 DEF IInv
<1>. QED
  BY <1>1, Inductive, PTL DEF Spec

-----------------------------------------------------------------------------
\* What follows.

\* Unless a late lazy expiry replaces USED, a one-time pass admits once.
THEOREM AdmitsOnce == Spec => []OneTimeUnlessOverwritten
<1>1. IInv => OneTimeUnlessOverwritten
  BY DEF IInv, UsedOrRevokedOnceEntered, OneTimeUnlessOverwritten
<1>. QED
  BY <1>1, InductiveInvariant, PTL

\* Each entry on a one-time pass uses up one activation.
THEOREM EntriesArePaidFor == Spec => []OneEntryPerActivation
<1>1. IInv => OneEntryPerActivation
  BY DEF IInv, TypeOK, Types, Counts, Accounts, Live, OneEntryPerActivation
<1>. QED
  BY <1>1, InductiveInvariant, PTL

\* The visitor of a one-time pass is never recorded as inside twice.
THEOREM InsideOnce == Spec => []OneTimeOneInside
<1>1. IInv => OneTimeOneInside
  <2> SUFFICES ASSUME AtMostOneOpen, NEW i \in Ids, OneTime(i)
               PROVE  Cardinality(OpenVisits(i)) <= 1
    BY DEF IInv, OneTimeOneInside
  <2>1. CASE OpenVisits(i) = {}
    BY <2>1, FS_EmptySet
  <2>2. CASE OpenVisits(i) # {}
    <3>1. PICK v : v \in OpenVisits(i)
      BY <2>2
    <3>2. OpenVisits(i) = {v}
      BY <3>1 DEF AtMostOneOpen, OpenVisits
    <3>3. Cardinality(OpenVisits(i)) = 1
      BY <3>2, FS_Singleton
    <3>. QED
      BY <3>3
  <2>. QED
    BY <2>1, <2>2
<1>. QED
  BY <1>1, InductiveInvariant, PTL

\* Only a late lazy expiry undoes a revocation.
THEOREM RevocationLasts == Spec => []RevocationFinalUnlessOverwritten
<1>1. IInv => RevocationFinalUnlessOverwritten
  BY DEF IInv
<1>. QED
  BY <1>1, InductiveInvariant, PTL

\* No pass is stretched over the estate's total.
THEOREM TotalRespected == Spec => []WithinTotal
<1>1. IInv => WithinTotal
  BY DEF IInv
<1>. QED
  BY <1>1, InductiveInvariant, PTL

\* The sweep tells the resident at most once for each activation.
THEOREM ToldBySweepOnce == Spec => []SweepTellsOnce
<1>1. IInv => SweepTellsOnce
  BY DEF IInv, TypeOK, Types, Counts, Accounts, Live, SweepTellsOnce
<1>. QED
  BY <1>1, InductiveInvariant, PTL

\* Entries are counted by the commit of an entry only.
LEMMA OnlyCommitsCount ==
    ASSUME TypeOK, [Next]_vars, NEW i \in Ids, counts'[i].entries # counts[i].entries
    PROVE  \E r \in Requests : EntryCommit(r) /\ request[r].inv = i
<1>1. ASSUME NEW j \in Ids, CreateInvitation(j) PROVE counts'[i].entries = counts[i].entries
  BY <1>1 DEF CreateInvitation, TypeOK, Types, Counts
<1>2. ASSUME NEW r \in Requests, LazyExpire(r) PROVE counts'[i].entries = counts[i].entries
  BY <1>2 DEF LazyExpire, TypeOK, Types, Counts
<1>3. ASSUME NEW r \in Requests, ExtendWrite(r) PROVE counts'[i].entries = counts[i].entries
  BY <1>3 DEF ExtendWrite, TypeOK, Types, Counts
<1>4. ASSUME SweepRow PROVE counts'[i].entries = counts[i].entries
  BY <1>4 DEF SweepRow, TypeOK, Types, Counts
<1>5. ASSUME NEW r \in Requests, EntryCommit(r) PROVE request[r].inv = i
  BY <1>5, StepShape DEF EntryCommit, TypeOK, Types, Counts
<1>. QED
  BY <1>1, <1>2, <1>3, <1>4, <1>5 DEF vars, history, Next, Handler, Continue, SweepStep, Revoke,
     VerifyRead, PublicLookupRead, ExtendRead, EntryRead, EntryUpdate, EntryCheck, ExitRead,
     ExitWrite, RequestFail, SweepStart, SweepFind, SweepEnd, SweepFail, Restart, Tick

\* Nobody is admitted on a revoked one-time pass.
THEOREM RevokedAdmitsNobody == Spec => NoEntryOnceRevoked
<1>1. ASSUME IInv, [Next]_vars, NEW i \in Ids, OneTime(i), i \in revoked, i \notin overwritten
      PROVE  counts'[i].entries = counts[i].entries
  <2>1. SUFFICES ASSUME NEW r \in Requests, EntryCommit(r), request[r].inv = i PROVE FALSE
    BY <1>1, OnlyCommitsCount DEF IInv
  <2>2. lock[i] = r
    BY <1>1, <2>1 DEF IInv, EntriesLocked, InEntry, EntryCommit
  <2>3. invitation[i].status = "ACTIVE"
    BY <2>2, <1>1, NoRequestAssumption DEF IInv, LockedRowsActive
  <2>. QED
    BY <1>1, <2>3 DEF IInv, RevocationFinalUnlessOverwritten
<1>2. IInv /\ [Next]_vars =>
        [\A i \in Ids : OneTime(i) /\ i \in revoked /\ i \notin overwritten
            => counts'[i].entries = counts[i].entries]_vars
  BY <1>1
<1>. QED
  BY <1>2, InductiveInvariant, PTL DEF Spec, NoEntryOnceRevoked

\* The expiry of an existing pass is moved by an extension only.
LEMMA OnlyExtensionsMove ==
    ASSUME TypeOK, [Next]_vars, NEW i \in Ids, Exists(i),
           invitation'[i].validUntil # invitation[i].validUntil
    PROVE  \E r \in Requests : ExtendWrite(r)
<1>1. ASSUME NEW j \in Ids, CreateInvitation(j)
      PROVE  invitation'[i].validUntil = invitation[i].validUntil
  BY <1>1 DEF CreateInvitation, TypeOK, Types
<1>2. ASSUME NEW j \in Ids, Revoke(j)
      PROVE  invitation'[i].validUntil = invitation[i].validUntil
  BY <1>2 DEF Revoke, TypeOK, Types, Row
<1>3. ASSUME NEW r \in Requests, LazyExpire(r)
      PROVE  invitation'[i].validUntil = invitation[i].validUntil
  BY <1>3 DEF LazyExpire, TypeOK, Types, Row
<1>4. ASSUME NEW r \in Requests, EntryCommit(r)
      PROVE  invitation'[i].validUntil = invitation[i].validUntil
  BY <1>4 DEF EntryCommit, TypeOK, Types, Row
<1>5. ASSUME SweepStart \/ SweepRow
      PROVE  invitation'[i].validUntil = invitation[i].validUntil
  BY <1>5 DEF SweepStart, SweepRow, TypeOK, Types, Row
<1>. QED
  BY <1>1, <1>2, <1>3, <1>4, <1>5 DEF vars, history, Next, Handler, Continue, SweepStep,
     VerifyRead, PublicLookupRead, ExtendRead, EntryRead, EntryUpdate, EntryCheck, ExitRead,
     ExitWrite, RequestFail, SweepFind, SweepEnd, SweepFail, Restart, Tick

\* An extension never takes time away.
THEOREM OnlyLengthened == Spec => NeverShortened
<1>1. ASSUME IInv, [Next]_vars, NEW i \in Ids, Exists(i)
      PROVE  invitation'[i].validUntil >= invitation[i].validUntil
  <2>1. TypeOK /\ invitation[i].validUntil \in Nat
    BY <1>1 DEF IInv, TypeOK, Types, Row
  <2>2. CASE invitation'[i].validUntil = invitation[i].validUntil
    BY <2>1, <2>2
  <2>3. ASSUME NEW r \in Requests, ExtendWrite(r)
        PROVE  invitation'[i].validUntil >= invitation[i].validUntil
    <3>1. request[r].inv \in Ids /\ request[r].newUntil \in Nat /\ request[r].step = "extend"
      BY <2>1, <2>3, StepShape DEF ExtendWrite
    <3>2. ExtendMatches(r) => request[r].newUntil > invitation[request[r].inv].validUntil
      BY <1>1, <3>1 DEF IInv, ExtensionsFresh, ExtendMatches
    <3>3. invitation'[i].validUntil =
            IF i = request[r].inv /\ ExtendMatches(r) THEN request[r].newUntil
            ELSE invitation[i].validUntil
      <4>1. CASE ExtendMatches(r)
        BY <2>1, <2>3, <3>1, <4>1 DEF ExtendWrite, TypeOK, Types, Row
      <4>2. CASE ~ExtendMatches(r)
        BY <2>3, <4>2 DEF ExtendWrite
      <4>. QED
        BY <4>1, <4>2
    <3>. QED
      BY <2>1, <3>1, <3>2, <3>3
  <2>. QED
    BY <1>1, <2>1, <2>2, <2>3, OnlyExtensionsMove
<1>2. IInv /\ [Next]_vars =>
        [\A i \in Ids : Exists(i) => invitation'[i].validUntil >= invitation[i].validUntil]_vars
  BY <1>1
<1>. QED
  BY <1>2, InductiveInvariant, PTL DEF Spec, NeverShortened

-----------------------------------------------------------------------------
\* The refinement of GatePass.

Credit == {i \in Ids : OneTime(i) /\ invitation[i].status = "ACTIVE"}
Inside == {i \in Ids : OneTime(i) /\ OpenVisits(i) # {}}

\* What each kind of step does to the two sets.
LEMMA PromiseForms ==
    ASSUME \/ UNCHANGED <<Credit, Inside>>
           \/ Credit' \subseteq Credit /\ UNCHANGED Inside
           \/ \E i \in Ids :
                \/ Credit' = Credit \cup {i} /\ UNCHANGED Inside
                \/ Inside' = Inside \ {i} /\ UNCHANGED Credit
                \/ /\ i \in Credit
                   /\ i \notin Inside
                   /\ Credit' = Credit \ {i}
                   /\ Inside' = Inside \cup {i}
    PROVE  Promise!Next \/ UNCHANGED Promise!pass
BY DEF Credit, Inside, Promise!Next, Promise!Grant, Promise!Admit, Promise!Leave,
   Promise!Withdraw, Promise!pass

\* A pass is created: a one-time pass is granted its credit.
LEMMA CreateGrants ==
    ASSUME IInv, NEW i \in Ids, CreateInvitation(i)
    PROVE  (UNCHANGED Credit \/ Credit' = Credit \cup {i}) /\ UNCHANGED Inside
<1>1. /\ \A j \in Ids : j # i => invitation'[j] = invitation[j]
      /\ invitation'[i].status = "ACTIVE"
      /\ invitation[i].status = "NONE" /\ OpenVisits(i) = {}
      /\ UNCHANGED visit
  BY DEF CreateInvitation, Exists, NothingBeforeCreation, IInv, TypeOK, Types
<1>2. \A j \in Ids : OpenVisits(j)' = OpenVisits(j)
  BY <1>1 DEF OpenVisits
<1>. QED
  BY <1>1, <1>2 DEF Credit, Inside, OneTime

\* Marking passes EXPIRED or REVOKED withdraws their credit.
LEMMA MarkingWithdraws ==
    ASSUME UNCHANGED visit,
           \A j \in Ids : /\ invitation'[j].policy = invitation[j].policy
                          /\ \/ invitation'[j].status = invitation[j].status
                             \/ invitation'[j].status # "ACTIVE"
    PROVE  Credit' \subseteq Credit /\ UNCHANGED Inside
BY DEF Credit, Inside, OneTime, OpenVisits

LEMMA ExtensionGrants ==
    ASSUME IInv, NEW r \in Requests, ExtendWrite(r)
    PROVE  /\ UNCHANGED Inside
           /\ \/ UNCHANGED Credit
              \/ \E i \in Ids : Credit' = Credit \cup {i}
<1> DEFINE i == request[r].inv
           reactivate == request[r].reactivate
<1>1. i \in Ids /\ UNCHANGED visit
  BY StepShape DEF ExtendWrite, IInv
<1>2. CASE ~ExtendMatches(r)
  BY <1>1, <1>2 DEF ExtendWrite, Credit, Inside, OneTime, OpenVisits
<1>3. CASE ExtendMatches(r)
  <2>1. \A j \in Ids :
          /\ invitation'[j].status = IF j = i /\ reactivate THEN "ACTIVE" ELSE invitation[j].status
          /\ invitation'[j].policy = invitation[j].policy
    BY <1>1, <1>3 DEF ExtendWrite, IInv, TypeOK, Types, Row
  <2>. HIDE DEF i, reactivate
  <2>2. UNCHANGED Inside
    BY <1>1, <2>1 DEF Inside, OneTime, OpenVisits
  <2>3. UNCHANGED Credit \/ Credit' = Credit \cup {i}
    BY <1>1, <2>1 DEF Credit, OneTime
  <2>. QED
    BY <1>1, <2>2, <2>3
<1>. QED
  BY <1>2, <1>3

\* The inserted visit is open.
LEMMA EntryOpens ==
    ASSUME IInv, NEW r \in Requests, EntryCommit(r), NEW i \in Ids, request[r].inv = i
    PROVE  /\ \A j \in Ids : j # i => OpenVisits(j)' = OpenVisits(j)
           /\ OpenVisits(i)' # {}
<1>1. PICK v \in Visits : visit[v] = NoVisit /\
        visit' = [visit EXCEPT ![v] = [inv |-> i, inside |-> TRUE]]
  BY DEF EntryCommit
<1>2. \A w \in Visits : visit'[w] = IF w = v THEN [inv |-> i, inside |-> TRUE] ELSE visit[w]
  BY <1>1 DEF IInv, TypeOK, Types
<1>3. [inv |-> i, inside |-> TRUE] # NoVisit
  <2>1. TRUE \in BOOLEAN /\ 0 \in Nat
    OBVIOUS
  <2>2. [inv |-> i, inside |-> TRUE] \in [inv: Ids, inside: BOOLEAN]
    BY <2>1, Zenon
  <2>. QED
    BY <2>2, NoVisitAssumption, Zenon
<1>4. visit'[v] # NoVisit /\ visit'[v].inv = i /\ visit'[v].inside
  BY <1>2, <1>3
<1>5. v \in OpenVisits(i)'
  BY <1>1, <1>4 DEF OpenVisits
<1>6. ASSUME NEW j \in Ids, j # i PROVE OpenVisits(j)' = OpenVisits(j)
  BY <1>1, <1>2, <1>4, <1>6 DEF OpenVisits
<1>. QED
  BY <1>5, <1>6

LEMMA EntryAdmits ==
    ASSUME IInv, NEW r \in Requests, EntryCommit(r)
    PROVE  \/ UNCHANGED <<Credit, Inside>>
           \/ \E i \in Ids : /\ i \in Credit
                             /\ i \notin Inside
                             /\ Credit' = Credit \ {i}
                             /\ Inside' = Inside \cup {i}
<1>1. PICK i \in Ids : request[r].inv = i /\ request[r].step = "entryInsert"
  BY StepShape DEF EntryCommit, IInv
<1>2. /\ OneTime(i) => lock[i] = r /\ OpenVisits(i) = {}
      /\ lock[i] = r => OneTime(i) /\ invitation[i].status = "ACTIVE"
  <2>1. OneTime(i) => lock[i] = r /\ OpenVisits(i) = {}
    BY <1>1 DEF IInv, EntriesLocked, InEntry
  <2>2. lock[i] = r => OneTime(i) /\ invitation[i].status = "ACTIVE"
    BY <1>1, NoRequestAssumption DEF IInv, LockedRowsActive
  <2>. QED
    BY <2>1, <2>2
<1>3. \A j \in Ids : /\ invitation'[j].status = IF j = i /\ OneTime(i) THEN "USED" ELSE invitation[j].status
                     /\ invitation'[j].policy = invitation[j].policy
  BY <1>1, <1>2 DEF EntryCommit, IInv, TypeOK, Types, Row
<1>4. /\ \A j \in Ids : j # i => OpenVisits(j)' = OpenVisits(j)
      /\ OpenVisits(i)' # {}
  BY <1>1, EntryOpens
<1>5. CASE OneTime(i)
  <2>1. i \in Credit /\ i \notin Inside
    BY <1>2, <1>5 DEF Credit, Inside
  <2>2. Credit' = Credit \ {i}
    BY <1>3, <1>5 DEF Credit, OneTime
  <2>3. Inside' = Inside \cup {i}
    BY <1>3, <1>4, <1>5 DEF Inside, OneTime
  <2>. QED
    BY <2>1, <2>2, <2>3
<1>6. CASE ~OneTime(i)
  BY <1>3, <1>4, <1>6 DEF Credit, Inside, OneTime
<1>. QED
  BY <1>5, <1>6

LEMMA ExitLeaves ==
    ASSUME IInv, NEW r \in Requests, ExitWrite(r)
    PROVE  /\ UNCHANGED Credit
           /\ \/ UNCHANGED Inside
              \/ \E i \in Ids : Inside' = Inside \ {i}
<1>1. /\ request[r].visit \in Visits /\ visit[request[r].visit] \in VisitRow
      /\ visit[request[r].visit].inv \in Ids
      /\ UNCHANGED invitation
  BY StepShape DEF ExitWrite, IInv, TypeOK, Types, ExitsExist, VisitRow
<1>2. PICK i \in Ids : i = visit[request[r].visit].inv
  BY <1>1
<1>3. \A w \in Visits : \/ visit'[w] = visit[w]
                        \/ visit[w].inv = i /\ visit'[w].inv = i
  BY <1>1, <1>2 DEF ExitWrite, IInv, TypeOK, Types, VisitRow
<1>4. \A j \in Ids : j # i => OpenVisits(j)' = OpenVisits(j)
  BY <1>3 DEF OpenVisits
<1>5. OpenVisits(i)' \subseteq OpenVisits(i)
  BY <1>1 DEF ExitWrite, OpenVisits, IInv, TypeOK, Types, VisitRow
<1>6. UNCHANGED Credit
  BY <1>1 DEF Credit, OneTime
<1>. QED
  BY <1>1, <1>4, <1>5, <1>6 DEF Inside, OneTime

LEMMA StepKeepsPromise ==
    ASSUME IInv, [Next]_vars
    PROVE  Promise!Next \/ UNCHANGED Promise!pass
<1>1. ASSUME NEW i \in Ids, CreateInvitation(i) PROVE Promise!Next \/ UNCHANGED Promise!pass
  BY <1>1, CreateGrants, PromiseForms
<1>2. ASSUME NEW i \in Ids, Revoke(i) PROVE Promise!Next \/ UNCHANGED Promise!pass
  <2>1. Credit' \subseteq Credit /\ UNCHANGED Inside
    BY <1>2, MarkingWithdraws DEF Revoke, IInv, TypeOK, Types, Row
  <2>. QED
    BY <2>1, PromiseForms
<1>3. ASSUME NEW r \in Requests, LazyExpire(r) PROVE Promise!Next \/ UNCHANGED Promise!pass
  <2>1. Credit' \subseteq Credit /\ UNCHANGED Inside
    BY <1>3, MarkingWithdraws DEF LazyExpire, IInv, TypeOK, Types, Row
  <2>. QED
    BY <2>1, PromiseForms
<1>4. ASSUME NEW r \in Requests, ExtendWrite(r) PROVE Promise!Next \/ UNCHANGED Promise!pass
  BY <1>4, ExtensionGrants, PromiseForms
<1>5. ASSUME NEW r \in Requests, EntryCommit(r) PROVE Promise!Next \/ UNCHANGED Promise!pass
  BY <1>5, EntryAdmits, PromiseForms
<1>6. ASSUME NEW r \in Requests, ExitWrite(r) PROVE Promise!Next \/ UNCHANGED Promise!pass
  BY <1>6, ExitLeaves, PromiseForms
<1>7. CASE SweepStart
  <2>1. Credit' \subseteq Credit /\ UNCHANGED Inside
    BY <1>7, MarkingWithdraws DEF SweepStart, IInv, TypeOK, Types, Row
  <2>. QED
    BY <2>1, PromiseForms
<1>8. CASE SweepRow
  <2>1. Credit' \subseteq Credit /\ UNCHANGED Inside
    BY <1>8, MarkingWithdraws DEF SweepRow, IInv, TypeOK, Types, Row
  <2>. QED
    BY <2>1, PromiseForms
<1>9. CASE UNCHANGED <<invitation, visit>>
  <2>1. UNCHANGED <<Credit, Inside>>
    BY <1>9 DEF Credit, Inside, OneTime, OpenVisits
  <2>. QED
    BY <2>1, PromiseForms
<1>. QED
  BY <1>1, <1>2, <1>3, <1>4, <1>5, <1>6, <1>7, <1>8, <1>9 DEF vars, history, Next, Handler,
     Continue, SweepStep, VerifyRead, PublicLookupRead, ExtendRead, EntryRead, EntryUpdate,
     EntryCheck, ExitRead, RequestFail, SweepFind, SweepEnd, SweepFail, Restart, Tick

\* Every behaviour of the handlers is one of the abstract pass.
THEOREM PromiseKept == Spec => KeepsPromise
<1>1. Init => Promise!Init
  BY DEF Init, Promise!Init, OneTime, OpenVisits
<1>2. IInv /\ [Next]_vars => [Promise!Next]_(Promise!pass)
  BY StepKeepsPromise
<1>. QED
  BY <1>1, <1>2, InductiveInvariant, PTL DEF Spec, KeepsPromise, Promise!Spec
=============================================================================
