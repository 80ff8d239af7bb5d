------------------------------ MODULE GatePass ------------------------------
(***************************************************************************)
(* What a one-time pass promises, with nothing of how it is kept: a pass   *)
(* holds at most one admission at a time, letting its visitor in uses that *)
(* admission up, and nobody is let in who is already inside.               *)
(***************************************************************************)
CONSTANT Ids

VARIABLES
    credit,     \* passes that would let their visitor in
    inside      \* passes whose visitor is in the estate

pass == <<credit, inside>>

Init == credit = {} /\ inside = {}

Grant(i) == credit' = credit \cup {i} /\ UNCHANGED inside

Admit(i) ==
    /\ i \in credit
    /\ i \notin inside
    /\ credit' = credit \ {i}
    /\ inside' = inside \cup {i}

Leave(i) == inside' = inside \ {i} /\ UNCHANGED credit

\* Revocation and expiry; a sweep expires several passes at once.
Withdraw == credit' \in SUBSET credit /\ UNCHANGED inside

Next == (\E i \in Ids : Grant(i) \/ Admit(i) \/ Leave(i)) \/ Withdraw

Spec == Init /\ [][Next]_pass
=============================================================================
