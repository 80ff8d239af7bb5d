----------------------- MODULE RecurringPassesProofs -----------------------
(* Proofs about RecurringPasses, for every value of its constants. *)
EXTENDS RecurringPasses, TLAPS

LEMMA DateIsNat == ASSUME NEW t \in Nat PROVE Date(t) \in Nat
  BY DayLengthAssumption DEF Date

\* What a request may be.
LEMMA StepShape ==
    ASSUME NEW s \in Step
    PROVE  /\ s.step \in {"idle", "last", "write", "link", "fresh"}
           /\ s.step \in {"last", "write"} =>
                s.pass \in Passes /\ s.asked \in Nat /\ s.verdict \in {"ALLOWED", "DENIED"}
           /\ s.step = "write" => s.saw \in Nat
           /\ s.step \in {"link", "fresh"} => s.pass \in Passes /\ s.device \in Devices
  BY DEF Step, Idle

LEMMA InitialState == Init => IInv
<1>. SUFFICES ASSUME Init PROVE IInv
  OBVIOUS
<1>1. TypeOK
  <2>1. NoRow \in Row
    BY DayLengthAssumption DEF NoRow, Row, Status, Minutes, Weekdays
  <2>2. Idle \in Step
    BY DEF Step
  <2>. QED
    BY <2>1, <2>2 DEF Init, TypeOK
<1>2. ServedIsLinked /\ PendingIsApart /\ AskedBefore
  BY DEF Init, ServedIsLinked, PendingIsApart, AskedBefore, Idle
<1>3. Alternates /\ DayBeginsWithIn /\ NotTwiceAtOnce
  BY DEF Init, Alternates, DayBeginsWithIn, NotTwiceAtOnce
<1>4. OnePhoneUntilReset /\ AtMostMaxDays
  BY DEF Init, OnePhoneUntilReset, AtMostMaxDays, Exists, NoRow
<1>. QED
  BY <1>1, <1>2, <1>3, <1>4 DEF IInv

-----------------------------------------------------------------------------
\* What does not read the rows of the passes.

LEMMA ScansKept ==
    ASSUME IInv, UNCHANGED scans
    PROVE  Alternates' /\ DayBeginsWithIn' /\ NotTwiceAtOnce'
<1>1. Alternates'
  BY DEF IInv, Alternates, Undisturbed
<1>2. DayBeginsWithIn'
  BY DEF IInv, DayBeginsWithIn, Undisturbed
<1>3. NotTwiceAtOnce'
  BY DEF IInv, NotTwiceAtOnce, Undisturbed
<1>. QED
  BY <1>1, <1>2, <1>3

LEMMA PagesKept ==
    ASSUME IInv, UNCHANGED <<phone, resets, served>>
    PROVE  ServedIsLinked' /\ OnePhoneUntilReset'
  BY DEF IInv, ServedIsLinked, OnePhoneUntilReset

LEMMA RowsKept ==
    ASSUME IInv, UNCHANGED pass
    PROVE  AtMostMaxDays'
  BY DEF IInv, AtMostMaxDays, Exists

LEMMA RequestsKept ==
    ASSUME IInv, UNCHANGED <<now, scans, request>>
    PROVE  PendingIsApart' /\ AskedBefore'
  BY DEF IInv, PendingIsApart, AskedBefore

-----------------------------------------------------------------------------
\* The resident.

\* A change of the rows is harmless if it keeps them rows of at most MaxDays
\* days.
LEMMA RowChange ==
    ASSUME IInv, UNCHANGED Others,
           NEW p \in Passes, NEW row \in Row,
           pass' = [pass EXCEPT ![p] = row],
           exceptions' \in [Passes -> SUBSET Exception],
           row.status # "NONE" => row.until - row.from + 1 <= MaxDays
    PROVE  IInv'
<1>1. TypeOK'
  BY DEF IInv, TypeOK, Others
<1>2. AtMostMaxDays'
  BY DEF IInv, TypeOK, AtMostMaxDays, Exists
<1>3. UNCHANGED <<now, scans, request, phone, resets, served>>
  BY DEF Others
<1>. QED
  BY <1>1, <1>2, <1>3, ScansKept, PagesKept, RequestsKept DEF IInv

LEMMA CreateStep ==
    ASSUME IInv, NEW p \in Passes, Create(p)
    PROVE  IInv'
<1>1. PICK s \in Schedules :
        /\ ValidSchedule(s)
        /\ pass' = [pass EXCEPT ![p] =
              [status |-> "ACTIVE", days |-> s.days, start |-> s.start, end |-> s.end,
               grace |-> s.grace, from |-> s.from, until |-> s.until]]
  BY DEF Create
<1>. DEFINE row == [status |-> "ACTIVE", days |-> s.days, start |-> s.start, end |-> s.end,
                    grace |-> s.grace, from |-> s.from, until |-> s.until]
<1>2. s \in Schedule
  BY SchedulesAssumption
<1>3. row \in Row
  BY <1>2 DEF Schedule, Row, Status
<1>4. row.until - row.from + 1 <= MaxDays
  BY <1>1 DEF ValidSchedule
<1>5. exceptions' \in [Passes -> SUBSET Exception]
  BY DEF Create, IInv, TypeOK
<1>6. UNCHANGED Others
  BY DEF Create
<1>. HIDE DEF row
<1>7. pass' = [pass EXCEPT ![p] = row]
  BY <1>1 DEF row
<1>. QED
  BY <1>3, <1>4, <1>5, <1>6, <1>7, RowChange

LEMMA StatusStep ==
    ASSUME IInv, NEW p \in Passes, Pause(p) \/ Resume(p) \/ Revoke(p)
    PROVE  IInv'
<1>1. PICK to \in {"PAUSED", "ACTIVE", "REVOKED"} :
        /\ pass[p].status # "NONE"
        /\ pass' = [pass EXCEPT ![p].status = to]
        /\ UNCHANGED <<exceptions, Others>>
  BY DEF Pause, Resume, Revoke, SetStatus
<1>. DEFINE row == [pass[p] EXCEPT !.status = to]
<1>2. pass[p] \in Row
  BY DEF IInv, TypeOK
<1>3. row \in Row /\ row.until = pass[p].until /\ row.from = pass[p].from
  BY <1>2 DEF Row, Status
<1>4. row.until - row.from + 1 <= MaxDays
  BY <1>1, <1>3 DEF IInv, AtMostMaxDays, Exists
<1>5. pass' = [pass EXCEPT ![p] = row]
  BY <1>1 DEF IInv, TypeOK
<1>6. exceptions' \in [Passes -> SUBSET Exception] /\ UNCHANGED Others
  BY <1>1 DEF IInv, TypeOK
<1>. HIDE DEF row
<1>. QED
  BY <1>3, <1>4, <1>5, <1>6, RowChange

LEMMA RenewStep ==
    ASSUME IInv, NEW p \in Passes, Renew(p)
    PROVE  IInv'
<1>1. PICK days \in RenewDays :
        /\ days <= MaxDays
        /\ pass' = [pass EXCEPT ![p].from = Date(now), ![p].until = Date(now) + days - 1]
  BY DEF Renew
<1>. DEFINE row == [pass[p] EXCEPT !.from = Date(now), !.until = Date(now) + days - 1]
<1>2. pass[p] \in Row /\ days \in Nat \ {0} /\ Date(now) \in Nat
  BY DateIsNat, RenewDaysAssumption DEF IInv, TypeOK
<1>3. row \in Row /\ row.until = Date(now) + days - 1 /\ row.from = Date(now)
  <2>1. Date(now) + days - 1 \in Nat
    BY <1>2
  <2>. QED
    BY <1>2, <2>1 DEF Row
<1>4. row.until - row.from + 1 <= MaxDays
  BY <1>1, <1>2, <1>3, RuleBoundsAssumption
<1>5. pass' = [pass EXCEPT ![p] = row]
  BY <1>1 DEF IInv, TypeOK
<1>6. exceptions' \in [Passes -> SUBSET Exception] /\ UNCHANGED Others
  BY DEF Renew, IInv, TypeOK
<1>. HIDE DEF row
<1>. QED
  BY <1>3, <1>4, <1>5, <1>6, RowChange

LEMMA ExceptionStep ==
    ASSUME IInv, NEW p \in Passes, SkipDay(p) \/ AddExtraDay(p) \/ RemoveException(p)
    PROVE  IInv'
<1>1. UNCHANGED <<pass, Others>>
  BY DEF SkipDay, AddExtraDay, RemoveException
<1>2. \A d \in OpenDates(p) : d \in Nat
  BY DEF OpenDates, IInv, TypeOK, Row
<1>3. exceptions' \in [Passes -> SUBSET Exception]
  <2>1. CASE SkipDay(p)
    <3>1. PICK d \in OpenDates(p) :
            SetException(p, [date |-> d, type |-> "SKIP", hours |-> NoHours])
      BY <2>1 DEF SkipDay
    <3>2. [date |-> d, type |-> "SKIP", hours |-> NoHours] \in Exception
      BY <1>2 DEF Exception
    <3>. QED
      BY <3>1, <3>2 DEF SetException, IInv, TypeOK
  <2>2. CASE AddExtraDay(p)
    <3>1. PICK d \in OpenDates(p), h \in ExtraHours :
            SetException(p, [date |-> d, type |-> "EXTRA", hours |-> h])
      BY <2>2 DEF AddExtraDay
    <3>2. [date |-> d, type |-> "EXTRA", hours |-> h] \in Exception
      BY <1>2, ExtraHoursAssumption DEF Exception
    <3>. QED
      BY <3>1, <3>2 DEF SetException, IInv, TypeOK
  <2>3. CASE RemoveException(p)
    BY <2>3 DEF RemoveException, IInv, TypeOK
  <2>. QED
    BY <2>1, <2>2, <2>3
<1>4. pass[p] \in Row /\ pass' = [pass EXCEPT ![p] = pass[p]]
  BY <1>1 DEF IInv, TypeOK
<1>5. pass[p].status # "NONE" => pass[p].until - pass[p].from + 1 <= MaxDays
  BY DEF IInv, AtMostMaxDays, Exists
<1>. QED
  BY <1>1, <1>3, <1>4, <1>5, RowChange

LEMMA ResetStep ==
    ASSUME IInv, NEW p \in Passes, ResetPhone(p)
    PROVE  IInv'
<1>1. UNCHANGED <<now, pass, exceptions, scans, request, served>>
  BY DEF ResetPhone
<1>2. /\ resets' \in [Passes -> Nat] /\ phone' \in [Passes -> Devices \cup {NoPhone}]
      /\ resets'[p] = resets[p] + 1
      /\ \A q \in Passes \ {p} : resets'[q] = resets[q] /\ phone'[q] = phone[q]
  BY DEF ResetPhone, IInv, TypeOK
<1>3. TypeOK'
  BY <1>1, <1>2 DEF IInv, TypeOK
<1>4. ServedIsLinked'
  <2>1. SUFFICES ASSUME NEW q \in Passes, NEW s \in served[q]
                 PROVE  /\ s.resets <= resets'[q]
                        /\ s.resets = resets'[q] => phone'[q] = s.device
    BY <1>1 DEF ServedIsLinked
  <2>2. /\ s.resets <= resets[q]
        /\ s.resets = resets[q] => phone[q] = s.device
        /\ s.resets \in Nat /\ resets[q] \in Nat
    BY DEF IInv, TypeOK, ServedIsLinked
  <2>. QED
    BY <1>2, <2>2
<1>5. OnePhoneUntilReset'
  BY <1>1 DEF IInv, OnePhoneUntilReset
<1>. QED
  BY <1>1, <1>3, <1>4, <1>5, ScansKept, RowsKept, RequestsKept DEF IInv

-----------------------------------------------------------------------------
\* The pass page.

\* The page is shown to the linked phone, or nothing is shown at all; a phone is
\* linked only where none was, so none was served since the last reset.
LEMMA Shown ==
    ASSUME IInv, NEW p \in Passes, NEW d \in Devices,
           resets' = resets,
           \/ phone[p] = d /\ phone' = phone
           \/ phone[p] = NoPhone /\ phone' = [phone EXCEPT ![p] = d],
           Show(p, d) \/ UNCHANGED served
    PROVE  /\ served' \in [Passes -> SUBSET [resets: Nat, device: Devices]]
           /\ phone' \in [Passes -> Devices \cup {NoPhone}]
           /\ ServedIsLinked' /\ OnePhoneUntilReset'
<1>. DEFINE new == [resets |-> resets[p], device |-> d]
<1>1. /\ phone'[p] = d
      /\ \A q \in Passes \ {p} : phone'[q] = phone[q]
      /\ phone' \in [Passes -> Devices \cup {NoPhone}]
  BY DEF IInv, TypeOK
<1>2. /\ new \in [resets: Nat, device: Devices]
      /\ new.resets = resets[p] /\ new.device = d
  BY DEF IInv, TypeOK
<1>. HIDE DEF new
<1>3. /\ served'[p] \subseteq served[p] \cup {new}
      /\ \A q \in Passes \ {p} : served'[q] = served[q]
      /\ served' \in [Passes -> SUBSET [resets: Nat, device: Devices]]
  <2>1. CASE Show(p, d)
    <3>1. served' = [served EXCEPT ![p] = served[p] \cup {new}]
      BY <2>1 DEF Show, new
    <3>. QED
      BY <1>2, <3>1 DEF IInv, TypeOK
  <2>2. CASE UNCHANGED served
    BY <2>2 DEF IInv, TypeOK
  <2>. QED
    BY <2>1, <2>2
<1>4. \A s \in served[p] : s.resets \in Nat /\ s.resets <= resets[p] /\
        (s.resets = resets[p] => s.device = d)
  <2>1. SUFFICES ASSUME NEW s \in served[p]
                 PROVE  s.resets \in Nat /\ s.resets <= resets[p] /\
                          (s.resets = resets[p] => s.device = d)
    OBVIOUS
  <2>2. s.device \in Devices /\ s.resets \in Nat
    BY <2>1 DEF IInv, TypeOK
  <2>3. s.resets <= resets[p] /\ (s.resets = resets[p] => phone[p] = s.device)
    BY <2>1 DEF IInv, ServedIsLinked
  <2>. QED
    BY <2>2, <2>3, NoPhoneAssumption
<1>5. resets[p] \in Nat
  BY DEF IInv, TypeOK
<1>6. ServedIsLinked'
  <2>1. SUFFICES ASSUME NEW q \in Passes, NEW s \in served'[q]
                 PROVE  s.resets <= resets[q] /\ (s.resets = resets[q] => phone'[q] = s.device)
    BY DEF ServedIsLinked
  <2>2. CASE q = p
    BY <1>1, <1>2, <1>3, <1>4, <1>5, <2>1, <2>2
  <2>3. CASE q # p
    BY <1>1, <1>3, <2>1, <2>3 DEF IInv, ServedIsLinked
  <2>. QED
    BY <2>2, <2>3
<1>7. OnePhoneUntilReset'
  <2>1. SUFFICES ASSUME NEW q \in Passes, NEW s \in served'[q], NEW u \in served'[q],
                        s.resets = u.resets
                 PROVE  s = u
    BY DEF OnePhoneUntilReset
  <2>2. CASE q # p
    BY <1>3, <2>1, <2>2 DEF IInv, OnePhoneUntilReset
  <2>3. CASE q = p /\ s \in served[p] /\ u \in served[p]
    BY <2>1, <2>3 DEF IInv, OnePhoneUntilReset
  <2>4. CASE q = p /\ ~(s \in served[p] /\ u \in served[p])
    <3>1. s.resets = resets[p] /\ u.resets = resets[p]
      BY <1>2, <1>3, <2>1, <2>4
    <3>2. s.device = d /\ u.device = d
      BY <1>2, <1>3, <1>4, <2>1, <2>4, <3>1
    <3>3. s \in [resets: Nat, device: Devices] /\ u \in [resets: Nat, device: Devices]
      BY <1>3, <2>1
    <3>. QED
      BY <2>1, <3>2, <3>3
  <2>. QED
    BY <2>1, <2>2, <2>3, <2>4
<1>. QED
  BY <1>1, <1>3, <1>6, <1>7

\* A request that becomes a page load, or idle, leaves the scans under way alone.
LEMMA PageRequest ==
    ASSUME IInv, UNCHANGED <<now, scans>>,
           NEW r \in Requests, NEW s \in Step, s.step \in {"idle", "link", "fresh"},
           request' = [request EXCEPT ![r] = s]
    PROVE  request' \in [Requests -> Step] /\ PendingIsApart' /\ AskedBefore'
<1>1. /\ request'[r] = s
      /\ \A q \in Requests \ {r} : request'[q] = request[q]
      /\ request' \in [Requests -> Step]
  BY DEF IInv, TypeOK
<1>2. PendingIsApart'
  BY <1>1 DEF IInv, PendingIsApart
<1>3. AskedBefore'
  BY <1>1 DEF IInv, AskedBefore
<1>. QED
  BY <1>1, <1>2, <1>3

LEMMA IdleIsStep == Idle \in Step /\ Idle.step = "idle"
  BY DEF Step, Idle

LEMMA ViewReadStep ==
    ASSUME IInv, NEW r \in Requests, NEW p \in Passes, NEW d \in Devices, ViewRead(r, p, d)
    PROVE  IInv'
<1>1. UNCHANGED <<now, pass, exceptions, phone, scans, resets>>
  BY DEF ViewRead
<1>2. CASE phone[p] = NoPhone /\ UNCHANGED served
           /\ Begin(r, [step |-> "link", pass |-> p, device |-> d])
  <2>. DEFINE s == [step |-> "link", pass |-> p, device |-> d]
  <2>1. s \in Step /\ s.step = "link" /\ request' = [request EXCEPT ![r] = s]
    BY <1>2 DEF Step, Begin, Goto
  <2>. HIDE DEF s
  <2>2. request' \in [Requests -> Step] /\ PendingIsApart' /\ AskedBefore'
    BY <1>1, <2>1, PageRequest
  <2>3. TypeOK'
    BY <1>1, <1>2, <2>2 DEF IInv, TypeOK
  <2>. QED
    BY <1>1, <1>2, <2>2, <2>3, ScansKept, PagesKept, RowsKept DEF IInv
<1>3. CASE phone[p] = d /\ Show(p, d) /\ UNCHANGED request
  <2>1. /\ served' \in [Passes -> SUBSET [resets: Nat, device: Devices]]
        /\ ServedIsLinked' /\ OnePhoneUntilReset'
    BY <1>1, <1>3, Shown
  <2>2. TypeOK'
    BY <1>1, <1>3, <2>1 DEF IInv, TypeOK
  <2>. QED
    BY <1>1, <1>3, <2>1, <2>2, ScansKept, RowsKept, RequestsKept DEF IInv
<1>. QED
  BY <1>2, <1>3 DEF ViewRead

LEMMA ViewLinkStep ==
    ASSUME IInv, NEW r \in Requests, ViewLink(r)
    PROVE  IInv'
<1>. DEFINE p == request[r].pass
            d == request[r].device
<1>1. p \in Passes /\ d \in Devices
  BY StepShape DEF ViewLink, IInv, TypeOK
<1>2. UNCHANGED <<now, pass, exceptions, scans, resets>>
  BY DEF ViewLink
<1>3. CASE phone[p] = NoPhone /\ phone' = [phone EXCEPT ![p] = d] /\ Show(p, d) /\ Goto(r, Idle)
  <2>. HIDE DEF p, d
  <2>1. /\ served' \in [Passes -> SUBSET [resets: Nat, device: Devices]]
        /\ phone' \in [Passes -> Devices \cup {NoPhone}]
        /\ ServedIsLinked' /\ OnePhoneUntilReset'
    BY <1>1, <1>2, <1>3, Shown
  <2>2. request' \in [Requests -> Step] /\ PendingIsApart' /\ AskedBefore'
    BY <1>2, <1>3, IdleIsStep, PageRequest DEF Goto
  <2>3. TypeOK'
    BY <1>2, <2>1, <2>2 DEF IInv, TypeOK
  <2>. QED
    BY <1>2, <2>1, <2>2, <2>3, ScansKept, RowsKept DEF IInv
<1>4. CASE /\ Goto(r, [step |-> "fresh", pass |-> p, device |-> d])
           /\ UNCHANGED <<phone, served>>
  <2>. DEFINE s == [step |-> "fresh", pass |-> p, device |-> d]
  <2>1. s \in Step /\ s.step = "fresh" /\ request' = [request EXCEPT ![r] = s]
    BY <1>1, <1>4 DEF Step, Goto
  <2>. HIDE DEF s
  <2>2. request' \in [Requests -> Step] /\ PendingIsApart' /\ AskedBefore'
    BY <1>2, <2>1, PageRequest
  <2>3. TypeOK'
    BY <1>2, <1>4, <2>2 DEF IInv, TypeOK
  <2>. QED
    BY <1>2, <1>4, <2>2, <2>3, ScansKept, PagesKept, RowsKept DEF IInv
<1>. QED
  BY <1>3, <1>4 DEF ViewLink

LEMMA ViewFreshStep ==
    ASSUME IInv, NEW r \in Requests, ViewFresh(r)
    PROVE  IInv'
<1>. DEFINE p == request[r].pass
            d == request[r].device
<1>1. p \in Passes /\ d \in Devices
  BY StepShape DEF ViewFresh, IInv, TypeOK
<1>2. UNCHANGED <<now, pass, exceptions, phone, scans, resets>> /\ Goto(r, Idle)
  BY DEF ViewFresh
<1>3. request' \in [Requests -> Step] /\ PendingIsApart' /\ AskedBefore'
  BY <1>2, IdleIsStep, PageRequest DEF Goto
<1>4. /\ served' \in [Passes -> SUBSET [resets: Nat, device: Devices]]
      /\ ServedIsLinked' /\ OnePhoneUntilReset'
  <2>1. CASE phone[p] = d /\ Show(p, d)
    BY <1>1, <1>2, <2>1, Shown
  <2>2. CASE UNCHANGED served
    BY <1>2, <2>2, PagesKept DEF IInv, TypeOK
  <2>. QED
    BY <2>1, <2>2 DEF ViewFresh
<1>5. TypeOK'
  BY <1>2, <1>3, <1>4 DEF IInv, TypeOK
<1>. QED
  BY <1>2, <1>3, <1>4, <1>5, ScansKept, RowsKept DEF IInv

-----------------------------------------------------------------------------
\* The gate.

\* A scan under way that was decided from the scans as they are.
LEMMA ScanRequest ==
    ASSUME IInv, UNCHANGED <<now, pass, exceptions, phone, scans, resets, served>>,
           NEW r \in Requests, NEW s \in Step,
           request' = [request EXCEPT ![r] = s],
           s.step = "last" => s.asked <= now,
           s.step = "write" =>
             /\ s.saw <= Len(scans[s.pass])
             /\ s.asked <= now
             /\ s.saw > 0 => s.asked - scans[s.pass][s.saw].at >= DuplicateWindow
    PROVE  IInv'
<1>1. /\ request'[r] = s
      /\ \A q \in Requests \ {r} : request'[q] = request[q]
      /\ request' \in [Requests -> Step]
  BY DEF IInv, TypeOK
<1>2. TypeOK'
  BY <1>1 DEF IInv, TypeOK
<1>3. PendingIsApart'
  <2>1. SUFFICES ASSUME NEW q \in Requests, request'[q].step = "write"
                 PROVE  /\ request'[q].saw <= Len(scans[request'[q].pass])
                        /\ request'[q].asked <= now
                        /\ request'[q].saw > 0 =>
                             request'[q].asked - scans[request'[q].pass][request'[q].saw].at
                               >= DuplicateWindow
    BY DEF PendingIsApart
  <2>2. CASE q = r
    BY <1>1, <2>1, <2>2
  <2>3. CASE q # r
    BY <1>1, <2>1, <2>3 DEF IInv, PendingIsApart
  <2>. QED
    BY <2>2, <2>3
<1>4. AskedBefore'
  BY <1>1 DEF IInv, AskedBefore
<1>. QED
  BY <1>2, <1>3, <1>4, ScansKept, PagesKept, RowsKept DEF IInv

LEMMA ScanReadStep ==
    ASSUME IInv, NEW r \in Requests, NEW p \in Passes, ScanRead(r, p)
    PROVE  IInv'
<1>1. PICK verdict \in {"ALLOWED", "DENIED"} :
        request' = [request EXCEPT ![r] = [step |-> "last", pass |-> p, asked |-> now,
                                           verdict |-> verdict]]
  BY DEF ScanRead, Begin, Goto
<1>. DEFINE s == [step |-> "last", pass |-> p, asked |-> now, verdict |-> verdict]
<1>2. s \in Step /\ s.step = "last" /\ s.asked = now /\ now \in Nat
  BY DEF Step, IInv, TypeOK
<1>3. UNCHANGED <<now, pass, exceptions, phone, scans, resets, served>>
  BY DEF ScanRead
<1>4. request' = [request EXCEPT ![r] = s]
  BY <1>1
<1>. HIDE DEF s
<1>5. s.asked <= now /\ s.step # "write"
  BY <1>2
<1>. QED
  BY <1>2, <1>3, <1>4, <1>5, ScanRequest

LEMMA ScanLastStep ==
    ASSUME IInv, NEW r \in Requests, ScanLast(r)
    PROVE  IInv'
<1>. DEFINE p == request[r].pass
            asked == request[r].asked
<1>1. /\ p \in Passes /\ asked \in Nat /\ request[r].verdict \in {"ALLOWED", "DENIED"}
      /\ asked <= now
      /\ scans[p] \in Seq(Scan)
  BY StepShape DEF ScanLast, IInv, TypeOK, AskedBefore
<1>2. UNCHANGED <<now, pass, exceptions, phone, scans, resets, served>>
  BY DEF ScanLast
<1>3. CASE Duplicate(p, asked)
  BY <1>2, <1>3, IdleIsStep, ScanRequest DEF ScanLast, Goto
<1>4. CASE ~Duplicate(p, asked)
  <2>. DEFINE s == [step |-> "write", pass |-> p, asked |-> asked,
                    verdict |-> request[r].verdict, saw |-> Len(scans[p])]
  <2>1. /\ s \in Step /\ s.step = "write" /\ s.pass = p /\ s.asked = asked
        /\ s.saw = Len(scans[p])
    BY <1>1 DEF Step
  <2>2. s.saw > 0 => s.asked - scans[p][s.saw].at >= DuplicateWindow
    <3>1. SUFFICES ASSUME Len(scans[p]) > 0
                   PROVE  asked - scans[p][Len(scans[p])].at >= DuplicateWindow
      BY <2>1
    <3>2. scans[p] # <<>>
      BY <3>1
    <3>3. scans[p][Len(scans[p])].at \in Nat
      <4>1. Len(scans[p]) \in 1 .. Len(scans[p])
        BY <1>1, <3>1
      <4>2. scans[p][Len(scans[p])] \in Scan
        BY <1>1, <4>1
      <4>. QED
        BY <4>2 DEF Scan
    <3>. QED
      BY <1>1, <1>4, <3>2, <3>3, BoundsAssumption DEF Duplicate
  <2>3. request' = [request EXCEPT ![r] = s]
    BY <1>4 DEF ScanLast, Goto
  <2>4. /\ s.step # "last"
        /\ s.saw <= Len(scans[s.pass])
        /\ s.asked <= now
        /\ s.saw > 0 => s.asked - scans[s.pass][s.saw].at >= DuplicateWindow
    <3>. HIDE DEF s, p, asked
    <3>. QED
      BY <1>1, <2>1, <2>2
  <2>. HIDE DEF s, p, asked
  <2>. QED
    BY <1>2, <2>1, <2>3, <2>4, ScanRequest
<1>. QED
  BY <1>3, <1>4

\* An allowed scan is written: an arrival or an exit by the last of the scans it
\* was decided from, and far enough from that one.
LEMMA ScanAdded ==
    ASSUME IInv, UNCHANGED now,
           NEW p \in Passes, NEW new \in Scan,
           scans' = [scans EXCEPT ![p] = Append(scans[p], new)],
           new.at = now, new.asked <= now, new.saw <= Len(scans[p]),
           new.dir = Direction(p, new.saw, new.asked),
           new.saw > 0 => new.asked - scans[p][new.saw].at >= DuplicateWindow
    PROVE  scans' \in [Passes -> Seq(Scan)] /\ Alternates' /\ DayBeginsWithIn' /\ NotTwiceAtOnce'
<1>. DEFINE n == Len(scans[p])
<1>1. scans[p] \in Seq(Scan) /\ n \in Nat
  BY DEF IInv, TypeOK
<1>2. /\ scans'[p] = Append(scans[p], new)
      /\ \A q \in Passes \ {p} : scans'[q] = scans[q]
      /\ scans' \in [Passes -> Seq(Scan)]
  BY <1>1 DEF IInv, TypeOK
<1>3. /\ Len(scans'[p]) = n + 1
      /\ scans'[p][n + 1] = new
      /\ \A k \in 1 .. n : scans'[p][k] = scans[p][k] /\ scans[p][k] \in Scan
  BY <1>1, <1>2
<1>. HIDE DEF n
<1>4. new.at \in Nat /\ new.asked \in Nat /\ new.saw \in Nat /\ now \in Nat
  BY DEF Scan, IInv, TypeOK
<1>5. \A k \in 1 .. n : scans[p][k].at \in Nat /\ scans[p][k].dir \in {"IN", "OUT"}
                          /\ Date(scans[p][k].at) \in Nat
  BY <1>3, DateIsNat DEF Scan
<1>6. Date(new.asked) \in Nat
  BY <1>4, DateIsNat
<1>7. n = Len(scans[p])
  BY DEF n
<1>8. Alternates'
  <2>1. SUFFICES ASSUME NEW q \in Passes, NEW k \in 2 .. Len(scans'[q]),
                        scans'[q][k].saw = k - 1,
                        Date(scans'[q][k - 1].at) = Date(scans'[q][k].asked)
                 PROVE  scans'[q][k].dir # scans'[q][k - 1].dir
    BY DEF Alternates, Undisturbed, Date
  <2>2. CASE q # p
    BY <1>2, <2>1, <2>2 DEF IInv, Alternates, Undisturbed
  <2>3. CASE q = p /\ k <= n
    <3>1. k \in 2 .. Len(scans[p]) /\ k \in 1 .. n /\ k - 1 \in 1 .. n
      BY <1>1, <1>7, <2>3
    <3>2. scans'[p][k] = scans[p][k] /\ scans'[p][k - 1] = scans[p][k - 1]
      BY <1>3, <3>1
    <3>. QED
      BY <2>1, <2>3, <3>1, <3>2 DEF IInv, Alternates, Undisturbed
  <2>4. CASE q = p /\ k = n + 1
    <3>1. n \in 1 .. n /\ k - 1 = n /\ scans'[p][n] = scans[p][n] /\ scans'[p][k] = new
      BY <1>1, <1>3, <2>1, <2>4
    <3>2. new.saw = n /\ Date(scans[p][n].at) = Date(new.asked)
      BY <2>1, <2>4, <3>1
    <3>3. Date(scans[p][n].at) >= Date(new.asked) /\ n > 0
      BY <1>5, <1>6, <3>1, <3>2
    <3>4. new.dir = IF scans[p][n].dir = "IN" THEN "OUT" ELSE "IN"
      BY <3>2, <3>3 DEF Direction
    <3>5. new.dir # scans[p][n].dir
      BY <3>4
    <3>. QED
      BY <2>4, <3>1, <3>5
  <2>. QED
    BY <1>1, <1>3, <2>1, <2>2, <2>3, <2>4
<1>9. DayBeginsWithIn'
  <2>1. SUFFICES ASSUME NEW q \in Passes, NEW k \in 1 .. Len(scans'[q]),
                        scans'[q][k].saw = k - 1,
                        k > 1 => Date(scans'[q][k - 1].at) < Date(scans'[q][k].asked)
                 PROVE  scans'[q][k].dir = "IN"
    BY DEF DayBeginsWithIn, Undisturbed, Date
  <2>2. CASE q # p
    BY <1>2, <2>1, <2>2 DEF IInv, DayBeginsWithIn, Undisturbed
  <2>3. CASE q = p /\ k <= n
    <3>1. k \in 1 .. Len(scans[p]) /\ k \in 1 .. n /\ (k > 1 => k - 1 \in 1 .. n)
      BY <1>1, <1>7, <2>3
    <3>2. scans'[p][k] = scans[p][k] /\ (k > 1 => scans'[p][k - 1] = scans[p][k - 1])
      BY <1>3, <3>1
    <3>. QED
      BY <2>1, <2>3, <3>1, <3>2 DEF IInv, DayBeginsWithIn, Undisturbed
  <2>4. CASE q = p /\ k = n + 1
    <3>1. new.saw = n /\ scans'[p][k] = new
      BY <1>1, <1>3, <2>1, <2>4
    <3>2. CASE n = 0
      BY <1>4, <2>4, <3>1, <3>2 DEF Direction
    <3>3. CASE n > 0
      <4>1. n \in 1 .. n /\ k - 1 = n /\ scans'[p][n] = scans[p][n]
        BY <1>1, <1>3, <2>4, <3>3
      <4>2. Date(scans[p][n].at) < Date(new.asked)
        BY <1>1, <2>1, <2>4, <3>1, <3>3, <4>1
      <4>3. ~(Date(scans[p][n].at) >= Date(new.asked))
        BY <1>5, <1>6, <4>1, <4>2
      <4>. QED
        BY <2>4, <3>1, <4>3 DEF Direction
    <3>. QED
      BY <1>1, <3>2, <3>3
  <2>. QED
    BY <1>1, <1>3, <2>1, <2>2, <2>3, <2>4
<1>10. NotTwiceAtOnce'
  <2>1. SUFFICES ASSUME NEW q \in Passes, NEW k \in 2 .. Len(scans'[q]),
                        scans'[q][k].saw = k - 1
                 PROVE  scans'[q][k].at - scans'[q][k - 1].at >= DuplicateWindow
    BY DEF NotTwiceAtOnce, Undisturbed
  <2>2. CASE q # p
    BY <1>2, <2>1, <2>2 DEF IInv, NotTwiceAtOnce, Undisturbed
  <2>3. CASE q = p /\ k <= n
    <3>1. k \in 2 .. Len(scans[p]) /\ k \in 1 .. n /\ k - 1 \in 1 .. n
      BY <1>1, <1>7, <2>3
    <3>2. scans'[p][k] = scans[p][k] /\ scans'[p][k - 1] = scans[p][k - 1]
      BY <1>3, <3>1
    <3>. QED
      BY <2>1, <2>3, <3>1, <3>2 DEF IInv, NotTwiceAtOnce, Undisturbed
  <2>4. CASE q = p /\ k = n + 1
    <3>1. n \in 1 .. n /\ k - 1 = n /\ scans'[p][n] = scans[p][n] /\ scans'[p][k] = new
      BY <1>1, <1>3, <2>1, <2>4
    <3>2. new.saw = n /\ new.asked - scans[p][n].at >= DuplicateWindow
      BY <2>1, <2>4, <3>1
    <3>3. new.at - scans[p][n].at >= DuplicateWindow
      <4>1. DuplicateWindow \in Nat /\ scans[p][n].at \in Nat
        BY <1>5, <3>1, BoundsAssumption
      <4>2. new.at - scans[p][n].at >= new.asked - scans[p][n].at
        BY <1>4, <4>1
      <4>. QED
        BY <1>4, <3>2, <4>1, <4>2
    <3>. QED
      BY <2>4, <3>1, <3>3
  <2>. QED
    BY <1>1, <1>3, <2>1, <2>2, <2>3, <2>4
<1>. QED
  BY <1>2, <1>8, <1>9, <1>10

LEMMA ScanWriteStep ==
    ASSUME IInv, NEW r \in Requests, ScanWrite(r)
    PROVE  IInv'
<1>. DEFINE p == request[r].pass
            asked == request[r].asked
            saw == request[r].saw
<1>1. UNCHANGED <<now, pass, exceptions, phone, resets, served>> /\ Goto(r, Idle)
  BY DEF ScanWrite
<1>2. /\ p \in Passes /\ asked \in Nat /\ saw \in Nat /\ now \in Nat
      /\ saw <= Len(scans[p])
      /\ asked <= now
      /\ saw > 0 => asked - scans[p][saw].at >= DuplicateWindow
  BY StepShape DEF ScanWrite, IInv, TypeOK, PendingIsApart
<1>3. CASE UNCHANGED scans
  <2>1. request' \in [Requests -> Step] /\ PendingIsApart' /\ AskedBefore'
    BY <1>1, <1>3, IdleIsStep, PageRequest DEF Goto
  <2>2. TypeOK'
    BY <1>1, <1>3, <2>1 DEF IInv, TypeOK
  <2>. QED
    BY <1>1, <1>3, <2>1, <2>2, ScansKept, PagesKept, RowsKept DEF IInv
<1>4. CASE scans' = [scans EXCEPT ![p] = Append(@,
             [dir |-> Direction(p, saw, asked), at |-> now, asked |-> asked, saw |-> saw])]
  <2>. DEFINE new == [dir |-> Direction(p, saw, asked), at |-> now, asked |-> asked,
                      saw |-> saw]
  <2>1. /\ new \in Scan
        /\ new.dir = Direction(p, saw, asked) /\ new.at = now /\ new.asked = asked
        /\ new.saw = saw
    <3>1. Direction(p, saw, asked) \in {"IN", "OUT"}
      BY DEF Direction
    <3>. QED
      BY <1>2, <3>1 DEF Scan
  <2>2. scans' = [scans EXCEPT ![p] = Append(scans[p], new)]
    BY <1>2, <1>4 DEF IInv, TypeOK
  <2>. HIDE DEF p, asked, saw, new
  <2>3. /\ scans' \in [Passes -> Seq(Scan)]
        /\ Alternates' /\ DayBeginsWithIn' /\ NotTwiceAtOnce'
    BY <1>1, <1>2, <2>1, <2>2, ScanAdded
  <2>4. /\ request'[r] = Idle
        /\ \A q \in Requests \ {r} : request'[q] = request[q]
        /\ request' \in [Requests -> Step]
    BY <1>1, IdleIsStep DEF Goto, IInv, TypeOK
  <2>5. \A q \in Passes :
          /\ scans[q] \in Seq(Scan)
          /\ Len(scans[q]) <= Len(scans'[q])
          /\ \A k \in 1 .. Len(scans[q]) : scans'[q][k] = scans[q][k]
    BY <1>2, <2>1, <2>2 DEF IInv, TypeOK
  <2>6. PendingIsApart'
    <3>1. SUFFICES ASSUME NEW q \in Requests, request'[q].step = "write"
                   PROVE  /\ request'[q].saw <= Len(scans'[request'[q].pass])
                          /\ request'[q].asked <= now
                          /\ request'[q].saw > 0 =>
                               request'[q].asked - scans'[request'[q].pass][request'[q].saw].at
                                 >= DuplicateWindow
      BY <1>1 DEF PendingIsApart
    <3>2. q # r /\ request'[q] = request[q]
      BY <2>4, <3>1, IdleIsStep
    <3>3. request[q].pass \in Passes /\ request[q].saw \in Nat
      BY <3>1, <3>2, StepShape DEF IInv, TypeOK
    <3>4. /\ request[q].saw <= Len(scans[request[q].pass])
          /\ request[q].asked <= now
          /\ request[q].saw > 0 =>
               request[q].asked - scans[request[q].pass][request[q].saw].at >= DuplicateWindow
      BY <3>1, <3>2 DEF IInv, PendingIsApart
    <3>5. Len(scans[request[q].pass]) \in Nat /\ Len(scans'[request[q].pass]) \in Nat
      BY <2>3, <2>5, <3>3
    <3>6. request[q].saw <= Len(scans'[request[q].pass])
      BY <2>5, <3>3, <3>4, <3>5
    <3>7. request[q].saw > 0 =>
            scans'[request[q].pass][request[q].saw] = scans[request[q].pass][request[q].saw]
      BY <2>5, <3>3, <3>4, <3>5
    <3>. QED
      BY <3>2, <3>4, <3>6, <3>7
  <2>7. AskedBefore'
    BY <1>1, <2>4, IdleIsStep DEF IInv, AskedBefore
  <2>8. TypeOK'
    BY <1>1, <2>3, <2>4 DEF IInv, TypeOK
  <2>. QED
    BY <1>1, <2>3, <2>6, <2>7, <2>8, PagesKept, RowsKept DEF IInv
<1>. QED
  BY <1>3, <1>4 DEF ScanWrite

-----------------------------------------------------------------------------
\* The process and the clock.

LEMMA RestartStep ==
    ASSUME IInv, Restart
    PROVE  IInv'
<1>1. UNCHANGED <<now, pass, exceptions, phone, scans, resets, served>>
  BY DEF Restart
<1>2. request' \in [Requests -> Step] /\ \A q \in Requests : request'[q] = Idle
  BY IdleIsStep DEF Restart
<1>3. TypeOK'
  BY <1>1, <1>2 DEF IInv, TypeOK
<1>4. PendingIsApart' /\ AskedBefore'
  BY <1>2, IdleIsStep DEF PendingIsApart, AskedBefore
<1>. QED
  BY <1>1, <1>3, <1>4, ScansKept, PagesKept, RowsKept DEF IInv

LEMMA TickStep ==
    ASSUME IInv, Tick
    PROVE  IInv'
<1>1. UNCHANGED <<pass, exceptions, phone, scans, request, resets, served>>
      /\ now \in Nat /\ now' = now + 1
  BY DEF Tick, IInv, TypeOK
<1>2. TypeOK'
  BY <1>1 DEF IInv, TypeOK
<1>3. \A q \in Requests : request[q].step \in {"last", "write"} => request[q].asked \in Nat
  BY StepShape DEF IInv, TypeOK
<1>4. PendingIsApart' /\ AskedBefore'
  BY <1>1, <1>3 DEF IInv, PendingIsApart, AskedBefore
<1>. QED
  BY <1>1, <1>2, <1>4, ScansKept, PagesKept, RowsKept DEF IInv

-----------------------------------------------------------------------------
\* The properties, and what they rest on, hold of every reachable state: scans
\* decided from one another alternate and stay apart, pages stay on one phone and
\* dates within bounds, whatever requests run at once.
THEOREM InductiveInvariant == Spec => []IInv
<1>1. ASSUME IInv, [Next]_vars
      PROVE  IInv'
  <2>1. CASE \E p \in Passes : Resident(p)
    BY <1>1, <2>1, CreateStep, StatusStep, RenewStep, ExceptionStep, ResetStep DEF Resident
  <2>2. CASE \E r \in Requests, p \in Passes, d \in Devices : ViewRead(r, p, d)
    BY <1>1, <2>2, ViewReadStep
  <2>3. CASE \E r \in Requests, p \in Passes : ScanRead(r, p)
    BY <1>1, <2>3, ScanReadStep
  <2>4. CASE \E r \in Requests : Continue(r)
    BY <1>1, <2>4, ViewLinkStep, ViewFreshStep, ScanLastStep, ScanWriteStep DEF Continue
  <2>5. CASE Restart \/ Tick
    BY <1>1, <2>5, RestartStep, TickStep
  <2>6. CASE UNCHANGED vars
    <3>1. UNCHANGED <<now, pass, exceptions, phone, scans, request, resets, served>>
      BY <2>6 DEF vars
    <3>2. TypeOK'
      BY <1>1, <3>1 DEF IInv, TypeOK
    <3>. QED
      BY <1>1, <3>1, <3>2, ScansKept, PagesKept, RowsKept, RequestsKept DEF IInv
  <2>. QED
    BY <1>1, <2>1, <2>2, <2>3, <2>4, <2>5, <2>6 DEF Next
<1>. QED
  BY <1>1, InitialState, PTL DEF Spec

\* recurring-scan.service.ts: out after in, in after out, within a day.
THEOREM ScansAlternate == Spec => []Alternates
<1>. QED
  BY InductiveInvariant, PTL DEF IInv

\* recurring-scan.service.ts: a visit left open on an earlier day does not turn
\* today's arrival into an exit.
THEOREM FirstScanArrives == Spec => []DayBeginsWithIn
<1>. QED
  BY InductiveInvariant, PTL DEF IInv

\* recurring-passes.service.ts, publicView: one phone between two resets.
THEOREM OnePhone == Spec => []OnePhoneUntilReset
<1>. QED
  BY InductiveInvariant, PTL DEF IInv

\* recurring-scan.service.ts, DUPLICATE_SCAN_SECONDS: a scan decided from the one before
\* it comes no sooner than the window after it.
THEOREM ScansApart == Spec => []NotTwiceAtOnce
<1>. QED
  BY InductiveInvariant, PTL DEF IInv

\* recurring-passes.service.ts, MAX_PASS_DAYS: neither the schedule a pass is created with
\* nor any renewal, one upon another, gives it more days.
THEOREM DatesBounded == Spec => []AtMostMaxDays
<1>. QED
  BY InductiveInvariant, PTL DEF IInv

\* recurring-passes.service.ts, setStatus and renew: REVOKED is final.
THEOREM RevocationIsFinal == Spec => RevokedForGood
<1>1. ASSUME IInv, [Next]_vars
      PROVE  [\A p \in Passes : pass[p].status = "REVOKED" => pass'[p].status = "REVOKED"]_vars
  <2>1. SUFFICES ASSUME Next, NEW p \in Passes, pass[p].status = "REVOKED"
                 PROVE  pass'[p].status = "REVOKED"
    BY <1>1
  <2>2. CASE \E q \in Passes : Resident(q)
    <3>1. PICK q \in Passes : Resident(q)
      BY <2>2
    <3>2. CASE q # p
      <4>1. pass'[p] = pass[p]
        BY <1>1, <3>1, <3>2
           DEF Resident, Create, Pause, Resume, Revoke, SetStatus, Renew, SkipDay, AddExtraDay,
               RemoveException, ResetPhone, IInv, TypeOK
      <4>. QED
        BY <2>1, <4>1
    <3>3. CASE q = p
      <4>1. UNCHANGED pass
        BY <2>1, <3>1, <3>3
           DEF Resident, Create, Exists, Pause, Resume, Revoke, SetStatus, Renew, SkipDay,
               AddExtraDay, RemoveException, ResetPhone
      <4>. QED
        BY <2>1, <4>1
    <3>. QED
      BY <3>2, <3>3
  <2>3. CASE ~\E q \in Passes : Resident(q)
    <3>1. UNCHANGED pass
      BY <2>1, <2>3
         DEF Next, ViewRead, ScanRead, Continue, ViewLink, ViewFresh, ScanLast, ScanWrite,
             Restart, Tick
    <3>. QED
      BY <2>1, <3>1
  <2>. QED
    BY <2>2, <2>3
<1>. QED
  BY <1>1, InductiveInvariant, PTL DEF RevokedForGood, Spec
=============================================================================
