------------------------------- MODULE MCCsim ------------------------------
(***************************************************************************)
(* csim and cache-p4 on a few lines: three of one set, to evict, and one of *)
(* another.                                                                *)
(***************************************************************************)
EXTENDS CsimAgainstP4

ThreeAndOne == {1, 3, 5, 0}
=============================================================================
