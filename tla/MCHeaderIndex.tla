---------------------------- MODULE MCHeaderIndex ----------------------------
(* Two branches that part after the first block: a shorter one of v1 blocks   *)
(* and a longer one that crosses the activation height, in passes of up to    *)
(* three headers and batches of one.                                          *)
EXTENDS HeaderIndex

MCBlocks == {"g", "c", "a2", "a3", "b2", "b3", "b4", "b5"}
MCParent ==
    [b \in MCBlocks \ {"g"} |->
        CASE b = "c" -> "g"
          [] b \in {"a2", "b2"} -> "c"
          [] b = "a3" -> "a2"
          [] b = "b3" -> "b2"
          [] b = "b4" -> "b3"
          [] b = "b5" -> "b4"]
BranchA == <<"g", "c", "a2", "a3">>
BranchB == <<"g", "c", "b2", "b3", "b4", "b5">>
MCChains ==
    {SubSeq(BranchA, 1, n) : n \in 1..4} \cup {SubSeq(BranchB, 1, n) : n \in 1..6}
=============================================================================
