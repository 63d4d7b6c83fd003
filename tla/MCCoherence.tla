---------------------------- MODULE MCCoherence ----------------------------
(***************************************************************************)
(* Coherence on small instances: two or three processors, one or two lines *)
(* and delays of a few ticks. What matters of a delay is whether another   *)
(* request can come in before it is over (at least two ticks) and that the *)
(* memory is slower than a transfer.                                       *)
(***************************************************************************)
EXTENDS Coherence

CONSTANTS a1, a2

OneLine  == {a1}
TwoLines == {a1, a2}
=============================================================================
