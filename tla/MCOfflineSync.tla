--------------------------- MODULE MCOfflineSync ---------------------------
(* Small instances of OfflineSync for TLC. *)
EXTENDS OfflineSync, TLC

Symmetric ==
    Permutations(Devices) \cup Permutations(Events) \cup Permutations(Batches)
=============================================================================
