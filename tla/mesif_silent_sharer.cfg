(* Under MESIF a SHARED_STATE line stays silent on a read while the forwarder is waiting to upgrade, and the reader gets the line EXCLUSIVE. *)
SPECIFICATION Spec
CONSTANTS
    a1 = a1
    a2 = a2
    NULL = NULL
    Addr <- OneLine
    processorCount = 3
    CACHE_DELAY = 2
    CACHE_TRANSFER = 2
    DRAM_FETCH_TICKS = 3
    cs = "MESIF"
INVARIANTS
    SingleWriter
