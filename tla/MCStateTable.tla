--------------------------- MODULE MCStateTable ----------------------------
(***************************************************************************)
(* StateTable with few lines: five are enough for every case of splaying   *)
(* and of removal, with subtrees on both sides.                            *)
(***************************************************************************)
EXTENDS StateTable

FiveKeys == 1 .. 5
=============================================================================
