-------------------------- MODULE RecurringPasses --------------------------
(***************************************************************************)
(* Passes of regular visitors: the resident's changes to them              *)
(* (recurring-passes.service.ts), the person's pass page, which stays on   *)
(* the first phone that opened it, and the scans at the gate               *)
(* (recurring-scan.service.ts).  A scan and a page load await several      *)
(* statements, without a transaction around them; a change by the resident *)
(* is decided by one conditional update.                                   *)
(***************************************************************************)
EXTENDS RecurringRules, Sequences

CONSTANTS
    Passes,
    Devices,            \* phones
    Requests,           \* page loads and scans the server may be working on at once
    Schedules,          \* the schedules residents ask for, good or bad
    ExtraHours,         \* the hours they ask for on an extra day
    RenewDays,          \* the number of days they renew for
    Blocked,            \* passes of people the estate has blocked
    DuplicateWindow,    \* DUPLICATE_SCAN_SECONDS
    MaxTime,            \* bound on the clock
    MaxScans,           \* bound on the allowed scans of a pass
    MaxResets,          \* bound on the phone resets of a pass
    NoPhone

ASSUME SchedulesAssumption == Schedules \subseteq Schedule
ASSUME ExtraHoursAssumption == ExtraHours \subseteq Hours \cup {NoHours}
ASSUME RenewDaysAssumption == RenewDays \subseteq Nat \ {0}
ASSUME BoundsAssumption == {DuplicateWindow, MaxTime, MaxScans, MaxResets} \subseteq Nat
ASSUME NoPhoneAssumption == NoPhone \notin Devices

VARIABLES
    now,            \* the server's clock
    pass,           \* rows
    exceptions,     \* exception rows of each pass
    phone,          \* linkedDeviceHash
    scans,          \* allowed scans of each pass, oldest first
    request,        \* what each request is about to do, with what it has read
    resets,         \* how often the resident has reset the phone
    served          \* phones the page was shown on, between which resets

vars == <<now, pass, exceptions, phone, scans, request, resets, served>>
-----------------------------------------------------------------------------
\* EXPIRED is never stored: it is what is shown once the dates have passed.
Status == {"NONE", "ACTIVE", "PAUSED", "REVOKED"}

Row == [status: Status, days: SUBSET Weekdays, start: Minutes, end: Minutes, grace: Nat,
        from: Nat, until: Nat]

\* dir, and when; `asked' and `saw' are what the scan was decided from: the time
\* it began and the number of allowed scans it found.
Scan == [dir: {"IN", "OUT"}, at: Nat, asked: Nat, saw: Nat]

Idle == [step |-> "idle"]

Step ==
    {Idle}
      \cup [step: {"last"}, pass: Passes, asked: Nat, verdict: {"ALLOWED", "DENIED"}]
      \cup [step: {"write"}, pass: Passes, asked: Nat, verdict: {"ALLOWED", "DENIED"},
          saw: Nat]
      \cup [step: {"link", "fresh"}, pass: Passes, device: Devices]

TypeOK ==
    /\ now \in Nat
    /\ pass \in [Passes -> Row]
    /\ exceptions \in [Passes -> SUBSET Exception]
    /\ phone \in [Passes -> Devices \cup {NoPhone}]
    /\ scans \in [Passes -> Seq(Scan)]
    /\ request \in [Requests -> Step]
    /\ resets \in [Passes -> Nat]
    /\ served \in [Passes -> SUBSET [resets: Nat, device: Devices]]

NoRow == [status |-> "NONE", days |-> {}, start |-> 0, end |-> 0, grace |-> 0,
          from |-> 0, until |-> 0]

Init ==
    /\ now = 0
    /\ pass = [p \in Passes |-> NoRow]
    /\ exceptions = [p \in Passes |-> {}]
    /\ phone = [p \in Passes |-> NoPhone]
    /\ scans = [p \in Passes |-> <<>>]
    /\ request = [r \in Requests |-> Idle]
    /\ resets = [p \in Passes |-> 0]
    /\ served = [p \in Passes |-> {}]
-----------------------------------------------------------------------------
\* The resident.

Exists(p) == pass[p].status # "NONE"

Others == <<now, phone, scans, request, resets, served>>

Create(p) ==
    /\ ~Exists(p)
    /\ \E s \in Schedules :
         /\ ValidSchedule(s)
         /\ s.until >= Date(now)
         /\ pass' = [pass EXCEPT ![p] =
              [status |-> "ACTIVE", days |-> s.days, start |-> s.start, end |-> s.end,
               grace |-> s.grace, from |-> s.from, until |-> s.until]]
    /\ UNCHANGED <<exceptions, Others>>

SetStatus(p, from, to) ==
    /\ pass[p].status \in from
    /\ pass' = [pass EXCEPT ![p].status = to]
    /\ UNCHANGED <<exceptions, Others>>

Pause(p) == SetStatus(p, {"ACTIVE"}, "PAUSED")
Resume(p) == SetStatus(p, {"PAUSED"}, "ACTIVE")
Revoke(p) == SetStatus(p, {"ACTIVE", "PAUSED"}, "REVOKED")

\* A fresh window from today on.
Renew(p) ==
    /\ pass[p].status \in {"ACTIVE", "PAUSED"}
    /\ \E days \in RenewDays :
         /\ days <= MaxDays
         /\ pass' = [pass EXCEPT ![p].from = Date(now), ![p].until = Date(now) + days - 1]
    /\ UNCHANGED <<exceptions, Others>>

\* One exception row for each date.
SetException(p, e) ==
    exceptions' = [exceptions EXCEPT ![p] = {f \in @ : f.date # e.date} \cup {e}]

OpenDates(p) == {d \in pass[p].from .. pass[p].until : d >= Date(now)}

SkipDay(p) ==
    /\ Exists(p)
    /\ \E d \in OpenDates(p) :
         SetException(p, [date |-> d, type |-> "SKIP", hours |-> NoHours])
    /\ UNCHANGED <<pass, Others>>

AddExtraDay(p) ==
    /\ Exists(p)
    /\ \E d \in OpenDates(p), h \in ExtraHours :
         /\ h = NoHours \/ h.end > h.start
         /\ SetException(p, [date |-> d, type |-> "EXTRA", hours |-> h])
    /\ UNCHANGED <<pass, Others>>

RemoveException(p) ==
    /\ Exists(p)
    /\ \E e \in exceptions[p] :
         exceptions' = [exceptions EXCEPT ![p] = @ \ {e}]
    /\ UNCHANGED <<pass, Others>>

ResetPhone(p) ==
    /\ Exists(p)
    /\ resets[p] < MaxResets
    /\ resets' = [resets EXCEPT ![p] = @ + 1]
    /\ phone' = [phone EXCEPT ![p] = NoPhone]
    /\ UNCHANGED <<now, pass, exceptions, scans, request, served>>
-----------------------------------------------------------------------------
\* The pass page.

Goto(r, step) == request' = [request EXCEPT ![r] = step]

Begin(r, step) == request[r] = Idle /\ Goto(r, step)

Show(p, d) ==
    served' = [served EXCEPT ![p] = @ \cup {[resets |-> resets[p], device |-> d]}]

\* The phone the pass is linked to is shown the page, another is refused.
ViewRead(r, p, d) ==
    /\ Exists(p)
    /\ \/ /\ phone[p] = NoPhone
          /\ Begin(r, [step |-> "link", pass |-> p, device |-> d])
          /\ UNCHANGED served
       \/ /\ phone[p] = d
          /\ request[r] = Idle
          /\ Show(p, d)
          /\ UNCHANGED request
    /\ UNCHANGED <<now, pass, exceptions, phone, scans, resets>>

\* Mutant: the phone is written whether or not another came first.
ViewLinkAnyway(r) ==
    /\ request[r].step = "link"
    /\ phone' = [phone EXCEPT ![request[r].pass] = request[r].device]
    /\ Show(request[r].pass, request[r].device)
    /\ Goto(r, Idle)
    /\ UNCHANGED <<now, pass, exceptions, scans, resets>>

\* Linked only if still unlinked; otherwise the row is read once more.
ViewLink(r) ==
    /\ request[r].step = "link"
    /\ LET p == request[r].pass
           d == request[r].device
       IN  \/ /\ phone[p] = NoPhone
              /\ phone' = [phone EXCEPT ![p] = d]
              /\ Show(p, d)
              /\ Goto(r, Idle)
           \/ /\ phone[p] # NoPhone
              /\ Goto(r, [step |-> "fresh", pass |-> p, device |-> d])
              /\ UNCHANGED <<phone, served>>
    /\ UNCHANGED <<now, pass, exceptions, scans, resets>>

\* The same phone asked twice.
ViewFresh(r) ==
    /\ request[r].step = "fresh"
    /\ LET p == request[r].pass
           d == request[r].device
       IN  IF phone[p] = d THEN Show(p, d) ELSE UNCHANGED served
    /\ Goto(r, Idle)
    /\ UNCHANGED <<now, pass, exceptions, phone, scans, resets>>
-----------------------------------------------------------------------------
\* The gate.

\* The time of the scan, the pass and its exceptions; with them, and the code on
\* the phone, all but the direction is decided.
ScanRead(r, p) ==
    /\ Exists(p)
    /\ \E code \in {Date(now), Date(now) - 1, Date(now) - 2} :
         Begin(r, [step |-> "last", pass |-> p, asked |-> now,
                   verdict |-> IF EvaluateScan(pass[p], exceptions[p], p \in Blocked, code, now)
                                  = "ALLOWED" THEN "ALLOWED" ELSE "DENIED"])
    /\ UNCHANGED <<now, pass, exceptions, phone, scans, resets, served>>

\* Mutant: a second scan is a scan.
DuplicateNever(p, asked) == FALSE

\* The same person scanned twice in a row.
Duplicate(p, asked) ==
    scans[p] # <<>> /\ asked - scans[p][Len(scans[p])].at < DuplicateWindow

\* The last allowed scan; a duplicate ends here.
ScanLast(r) ==
    /\ request[r].step = "last"
    /\ LET p == request[r].pass
           asked == request[r].asked
       IN  Goto(r, IF Duplicate(p, asked) THEN Idle
                   ELSE [step |-> "write", pass |-> p, asked |-> asked,
                         verdict |-> request[r].verdict, saw |-> Len(scans[p])])
    /\ UNCHANGED <<now, pass, exceptions, phone, scans, resets, served>>

\* Mutant: only a visit of a later day counts.
DirectionForgetsToday(p, saw, asked) ==
    IF saw > 0 /\ scans[p][saw].dir = "IN" /\ Date(scans[p][saw].at) > Date(asked)
    THEN "OUT" ELSE "IN"

\* Out after in on the same day; a visit left open on an earlier day does not
\* count.
Direction(p, saw, asked) ==
    IF saw > 0 /\ scans[p][saw].dir = "IN" /\ Date(scans[p][saw].at) >= Date(asked)
    THEN "OUT" ELSE "IN"

\* The row of a denied scan plays no part in any decision.  The notices go out
\* with the row of an allowed one.
ScanWrite(r) ==
    /\ request[r].step = "write"
    /\ LET p == request[r].pass
           saw == request[r].saw
           asked == request[r].asked
       IN  \/ /\ request[r].verdict = "ALLOWED"
              /\ Len(scans[p]) < MaxScans
              /\ scans' = [scans EXCEPT ![p] = Append(@,
                   [dir |-> Direction(p, saw, asked), at |-> now, asked |-> asked,
                    saw |-> saw])]
           \/ /\ request[r].verdict = "DENIED"
              /\ UNCHANGED scans
    /\ Goto(r, Idle)
    /\ UNCHANGED <<now, pass, exceptions, phone, resets, served>>
-----------------------------------------------------------------------------
Restart ==
    /\ request' = [r \in Requests |-> Idle]
    /\ UNCHANGED <<now, pass, exceptions, phone, scans, resets, served>>

Tick ==
    /\ now < MaxTime
    /\ now' = now + 1
    /\ UNCHANGED <<pass, exceptions, phone, scans, request, resets, served>>

Resident(p) ==
    \/ Create(p) \/ Pause(p) \/ Resume(p) \/ Revoke(p) \/ Renew(p)
    \/ SkipDay(p) \/ AddExtraDay(p) \/ RemoveException(p) \/ ResetPhone(p)

Continue(r) == ViewLink(r) \/ ViewFresh(r) \/ ScanLast(r) \/ ScanWrite(r)

Next ==
    \/ \E p \in Passes : Resident(p)
    \/ \E r \in Requests, p \in Passes, d \in Devices : ViewRead(r, p, d)
    \/ \E r \in Requests, p \in Passes : ScanRead(r, p)
    \/ \E r \in Requests : Continue(r)
    \/ Restart
    \/ Tick

Spec == Init /\ [][Next]_vars
-----------------------------------------------------------------------------
\* A scan no other scan of the pass came between: it was decided from the scan
\* just before its own.
Undisturbed(p, k) == scans[p][k].saw = k - 1

\* In after out, out after in, within a day.
Alternates ==
    \A p \in Passes : \A k \in 2 .. Len(scans[p]) :
      /\ Undisturbed(p, k)
      /\ Date(scans[p][k - 1].at) = Date(scans[p][k].asked)
      => scans[p][k].dir # scans[p][k - 1].dir

\* The first scan of a day is an arrival, whatever was left open before.
DayBeginsWithIn ==
    \A p \in Passes : \A k \in 1 .. Len(scans[p]) :
      /\ Undisturbed(p, k)
      /\ k > 1 => Date(scans[p][k - 1].at) < Date(scans[p][k].asked)
      => scans[p][k].dir = "IN"

\* "The same person scanned twice in a row must not flip IN to OUT."
NotTwiceAtOnce ==
    \A p \in Passes : \A k \in 2 .. Len(scans[p]) :
      Undisturbed(p, k) => scans[p][k].at - scans[p][k - 1].at >= DuplicateWindow

\* "The first phone to open the link is remembered; any other phone is refused
\* until the resident resets it."
OnePhoneUntilReset ==
    \A p \in Passes : \A s, u \in served[p] : s.resets = u.resets => s = u

\* "A pass can last at most MAX_PASS_DAYS days. Renew it to continue."
AtMostMaxDays ==
    \A p \in Passes : Exists(p) => pass[p].until - pass[p].from + 1 <= MaxDays

\* No change and no renewal brings a revoked pass back.
RevokedForGood ==
    [][\A p \in Passes : pass[p].status = "REVOKED" => pass'[p].status = "REVOKED"]_vars
-----------------------------------------------------------------------------
\* What the properties rest on: a page is shown to the phone that is linked, and
\* a scan about to be written was decided from scans that are still there, none
\* of them within the duplicate window.

ServedIsLinked ==
    \A p \in Passes : \A s \in served[p] :
      s.resets <= resets[p] /\ (s.resets = resets[p] => phone[p] = s.device)

PendingIsApart ==
    \A r \in Requests : request[r].step = "write" =>
      LET p == request[r].pass
          saw == request[r].saw
          asked == request[r].asked
      IN  /\ saw <= Len(scans[p])
          /\ asked <= now
          /\ saw > 0 => asked - scans[p][saw].at >= DuplicateWindow

AskedBefore == \A r \in Requests : request[r].step = "last" => request[r].asked <= now

IInv ==
    /\ TypeOK
    /\ ServedIsLinked
    /\ PendingIsApart
    /\ AskedBefore
    /\ Alternates
    /\ DayBeginsWithIn
    /\ NotTwiceAtOnce
    /\ OnePhoneUntilReset
    /\ AtMostMaxDays
=============================================================================
