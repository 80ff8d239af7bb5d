--------------------------- MODULE RecurringRules ---------------------------
(***************************************************************************)
(* The rules of a recurring pass (recurring-passes/recurring-pass.rules.ts) *)
(* as pure operators.  Time is counted in abstract minutes on the estate's *)
(* clock; a date is a number of days.                                      *)
(***************************************************************************)
EXTENDS Integers, FiniteSets

CONSTANTS
    DayLength,      \* minutes in a day
    CodeGrace,      \* YESTERDAY_CODE_GRACE_MINUTES
    MaxDays,        \* MAX_PASS_DAYS
    MaxGrace,       \* the longest grace period of a schedule
    NoHours

ASSUME DayLengthAssumption == DayLength \in Nat \ {0}
ASSUME RuleBoundsAssumption ==
    CodeGrace \in Nat /\ MaxDays \in Nat \ {0} /\ MaxGrace \in Nat

Weekdays == 0 .. 6

\* localMoment
Date(t) == t \div DayLength
Minute(t) == t % DayLength
Weekday(t) == Date(t) % 7

Minutes == 0 .. DayLength - 1

Hours == [start: Minutes, end: Minutes]

\* An exception of one date; hours of its own only on an extra day.
Exception == [date: Nat, type: {"SKIP"}, hours: {NoHours}]
               \cup [date: Nat, type: {"EXTRA"}, hours: Hours \cup {NoHours}]

Schedule == [days: SUBSET Weekdays, start: Minutes, end: Minutes, grace: Nat,
             from: Nat, until: Nat]

\* validatePassSchedule finds nothing wrong.
ValidSchedule(s) ==
    /\ s.days # {}
    /\ s.end > s.start
    /\ s.grace <= MaxGrace
    /\ s.from <= s.until
    /\ s.until - s.from + 1 <= MaxDays

Today(exceptions, t, type) == {e \in exceptions : e.date = Date(t) /\ e.type = type}

HoursOf(row, exceptions, t) ==
    LET own == {e.hours : e \in Today(exceptions, t, "EXTRA")} \ {NoHours}
    IN  IF own = {} THEN [start |-> row.start, end |-> row.end]
        ELSE CHOOSE h \in own : TRUE

\* The code of a day is as good as its date.
CodeIsCurrent(code, t) ==
    code = Date(t) \/ (Minute(t) < CodeGrace /\ code = Date(t) - 1)

\* Checks 2 to 8, in their order; the first that fails names the answer.
Verdicts == {"PAUSED", "REVOKED", "EXPIRED", "SKIPPED", "NOT_SCHEDULED", "OUTSIDE_HOURS",
             "BLACKLISTED", "CODE_OUTDATED", "ALLOWED"}

EvaluateScan(row, exceptions, blacklisted, code, t) ==
    LET hours == HoursOf(row, exceptions, t)
    IN  IF row.status = "PAUSED" THEN "PAUSED"
        ELSE IF row.status = "REVOKED" THEN "REVOKED"
        ELSE IF Date(t) \notin row.from .. row.until THEN "EXPIRED"
        ELSE IF Today(exceptions, t, "SKIP") # {} THEN "SKIPPED"
        ELSE IF Today(exceptions, t, "EXTRA") = {} /\ Weekday(t) \notin row.days
             THEN "NOT_SCHEDULED"
        ELSE IF Minute(t) \notin hours.start - row.grace .. hours.end + row.grace
             THEN "OUTSIDE_HOURS"
        ELSE IF blacklisted THEN "BLACKLISTED"
        ELSE IF ~CodeIsCurrent(code, t) THEN "CODE_OUTDATED"
        ELSE "ALLOWED"
=============================================================================
