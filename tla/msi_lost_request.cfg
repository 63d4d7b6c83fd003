(* A SHARED_STATE line of MSI that snoops a BUSRD falls through into the arm of INVALID_MODIFIED and waits for a request nobody sent. *)
SPECIFICATION Spec
CONSTANTS
    a1 = a1
    a2 = a2
    NULL = NULL
    Addr <- OneLine
    processorCount = 3
    CACHE_DELAY = 2
    CACHE_TRANSFER = 2
    DRAM_FETCH_TICKS = 3
    cs = "MSI"
INVARIANTS
    TransientHasRequest
