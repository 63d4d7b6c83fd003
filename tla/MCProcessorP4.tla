--------------------------- MODULE MCProcessorP4 ---------------------------
(***************************************************************************)
(* ProcessorP4 with traces of operations that write and read few registers.*)
(***************************************************************************)
EXTENDS ProcessorP4

CONSTANTS r1, r2

TwoRegs == {r1, r2}

Line(op, dest, srcs) == [op |-> op, dest_reg |-> dest, src_reg |-> srcs]

\* A chain through r1 with a result in r2, and every kind of operation.
Chains ==
    {Line("ALU", r1, {}), Line("ALU", r2, {r1, r2}), Line("ALU_LONG", r1, {r1}),
     Line("MEM_LOAD", NULL, {r1}), Line("MEM_STORE", r1, {}), Line("BRANCH", NULL, {r1})}
=============================================================================
