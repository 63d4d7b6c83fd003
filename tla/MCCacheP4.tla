----------------------------- MODULE MCCacheP4 -----------------------------
(***************************************************************************)
(* CacheP4 with two sets of one way, a victim cache of one line and lines   *)
(* of both sets that do not all fit.                                       *)
(***************************************************************************)
EXTENDS CacheP4

FourLines == 0 .. 3
=============================================================================
