(* The pipeline of processor-p3, shared by two processors with any traces of up to three operations: its queues, numbered units and loops do what ProcessorP4 says of sets of operations, and everything that has entered is executed. *)
SPECIFICATION P3FairSpec
CONSTANTS
    processorCount = 2
    F = 3
    D = 1
    M = 1
    J = 2
    K = 1
    C = 1
    r0 = r0
    r1 = r1
    Reg <- FirstRegs
    Register0 = r0
    Ops <- Mixed
    TraceLength = 3
    NULL = NULL
CHECK_DEADLOCK FALSE
PROPERTIES
    ImplementsProcessorP4
    P3Finishes
