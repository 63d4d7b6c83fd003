---------------------------- MODULE MCCacheArray ----------------------------
(***************************************************************************)
(* CacheArray on a few lines: enough of one set to fill its ways and the    *)
(* victim cache, and lines of the other set next to them.                  *)
(***************************************************************************)
EXTENDS CacheArray

OddLines == {1, 3, 5, 7}
FewLines == {1, 3, 5, 0}
=============================================================================
