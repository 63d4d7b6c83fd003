(* The pipeline of processor-p4 with any trace of up to five operations, full queues and a single result bus: no wake-up is lost, each fired operation is in one place, an access waits for its own answer, and every trace is executed to its end. *)
SPECIFICATION PipelineSpec
CONSTANTS
    processorCount = 1
    F = 4
    D = 1
    M = 1
    J = 2
    K = 1
    C = 1
    r1 = r1
    r2 = r2
    Reg <- TwoRegs
    Ops <- Chains
    TraceLength = 5
    NULL = NULL
CHECK_DEADLOCK FALSE
INVARIANTS
    PipelineTypeOK
    EveryWaitIsLive
    FiredIsUnderWay
    AccessesAnswered
PROPERTIES
    PipelineFinishes
