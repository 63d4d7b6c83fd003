--------------------------- MODULE MCProcessorP3 ---------------------------
(***************************************************************************)
(* ProcessorP3 with traces of operations on few registers.                 *)
(***************************************************************************)
EXTENDS ProcessorP3

CONSTANTS r0, r1

FirstRegs == {r0, r1}

Line(op, dest, src1, src2) == [op |-> op, dest_reg |-> dest, src_reg |-> <<src1, src2>>]

\* A chain through r1, an operation that reads register 0 for want of a source,
\* and one that is dropped.
Mixed ==
    {Line("ALU", r0, r1, r1), Line("ALU", r1, r1, NULL), Line("ALU_LONG", r1, r1, r0),
     Line("MEM_LOAD", NULL, r1, NULL)}
=============================================================================
