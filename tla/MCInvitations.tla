--------------------------- MODULE MCInvitations ---------------------------
(* Small instances of Invitations for TLC. *)
EXTENDS Invitations, TLC

OneWindow == {<<0, 1>>}
SomeAmounts == {-9, 1, 2}
SomeRules == [enabled |-> TRUE, maxExtend |-> 2, maxTotal |-> 3,
              quietFrom |-> 0, quietTo |-> 0]
Symmetric == Permutations(Requests) \cup Permutations(Visits)
=============================================================================
