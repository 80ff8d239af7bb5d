---------------------------- MODULE MCResidency ----------------------------
(* An instance of Residency for TLC: two people and two apartments of one   *)
(* building, one invite, two requests at once.                              *)
EXTENDS Residency, TLC

Symmetric == Permutations(Admins) \cup Permutations(Apartments) \cup Permutations(Persons)
=============================================================================
