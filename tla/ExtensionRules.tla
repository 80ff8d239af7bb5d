--------------------------- MODULE ExtensionRules ---------------------------
(***************************************************************************)
(* The rules for extending a visitor pass, as pure operators: the function *)
(* evaluateExtension of invitation-extensions/extension.rules.ts.  Time is *)
(* counted in abstract minutes; a day has DayLength of them and the        *)
(* estate's clock shows `now % DayLength'.                                  *)
(***************************************************************************)
EXTENDS Integers

CONSTANTS
    DayLength,      \* minutes in a day
    LongExpired     \* LONG_EXPIRED_MINUTES

ASSUME DayLengthAssumption == DayLength \in Nat \ {0}
ASSUME LongExpiredAssumption == LongExpired \in Nat

\* The estate's settings.  The source keeps two nullable quiet hours; a null
\* one and two equal ones both mean "no quiet hours", so equality stands for both.
RuleSet ==
    [enabled: BOOLEAN, maxExtend: Nat, maxTotal: Nat,
     quietFrom: 0 .. DayLength - 1, quietTo: 0 .. DayLength - 1]

LocalMinute(t) == t % DayLength

\* A window such as 22:00-05:00 wraps past midnight.
InQuietHours(minute, from, to) ==
    /\ from # to
    /\ IF from < to THEN minute >= from /\ minute < to
                    ELSE minute >= from \/ minute < to

\* The new end counts from the later of the old end and now.
NewValidUntil(target, minutes, now) ==
    (IF target.validUntil > now THEN target.validUntil ELSE now) + minutes

InvalidAmount(minutes) == minutes < 1

\* Counted from the start of the pass.
TooLongTotal(target, rules, end) == end - target.validFrom > rules.maxTotal

QuietDenied(rules, end, now) ==
    \/ InQuietHours(LocalMinute(now), rules.quietFrom, rules.quietTo)
    \/ InQuietHours(LocalMinute(end), rules.quietFrom, rules.quietTo)

\* The checks run in a fixed order and the first failure names the answer.
EvaluateExtension(target, rules, minutes, now) ==
    LET end == NewValidUntil(target, minutes, now)
    IN  IF ~rules.enabled THEN "DISABLED"
        ELSE IF target.status = "REVOKED" THEN "REVOKED"
        ELSE IF target.policy = "ONE_TIME" /\ target.status = "USED" THEN "ALREADY_USED"
        ELSE IF now - target.validUntil > LongExpired THEN "EXPIRED_TOO_LONG"
        ELSE IF InvalidAmount(minutes) THEN "INVALID_AMOUNT"
        ELSE IF minutes > rules.maxExtend THEN "TOO_LONG_REQUEST"
        ELSE IF TooLongTotal(target, rules, end) THEN "TOO_LONG_TOTAL"
        ELSE IF QuietDenied(rules, end, now) THEN "QUIET_HOURS"
        ELSE "OK"
=============================================================================
