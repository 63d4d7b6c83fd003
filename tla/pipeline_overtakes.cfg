(* An operation whose schedule queue has room overtakes an older one of the other kind in dispatch, and fires with the old value of the register that the older one is to write. *)
SPECIFICATION Spec
CONSTANTS
    processorCount = 1
    F = 4
    D = 1
    M = 1
    J = 2
    K = 1
    C = 1
    r1 = r1
    r2 = r2
    Reg <- TwoRegs
    Ops <- Chains
    TraceLength = 5
    NULL = NULL
CHECK_DEADLOCK FALSE
PROPERTIES
    OnlyIndependentFire
