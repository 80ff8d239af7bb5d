------------------------- MODULE MCRecurringPasses -------------------------
(* Small instances of RecurringPasses for TLC. *)
EXTENDS RecurringPasses, TLC

Ask(start, end, until) ==
    [days |-> {0}, start |-> start, end |-> end, grace |-> 0, from |-> 0, until |-> until]

\* A good one, and one that is a day too long.
SomeSchedules == {Ask(0, 2, 0), Ask(0, 2, 1)}
OwnHours == {[start |-> 0, end |-> 1]}
Symmetric == Permutations(Requests) \cup Permutations(Devices)
=============================================================================
