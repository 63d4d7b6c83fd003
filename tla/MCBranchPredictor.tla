------------------------- MODULE MCBranchPredictor -------------------------
(***************************************************************************)
(* BranchPredictor with two branches, which the address alone sends to      *)
(* different entries of the two and GSHARE sends to either. A branch may    *)
(* also jump to where the other one falls through.                         *)
(***************************************************************************)
EXTENDS BranchPredictor

LOCAL INSTANCE Bitwise

Branches == {8, 16}
Targets  == {12, 20, 64}
BitXor(x, y) == x ^^ y
=============================================================================
