(* The whole simulator, three processors with any traces of up to three operations, five in all, on two lines, under MI, MESI, MOESI and MESIF: each callback finds its access, at most one cache answers for a line, readers lose a line to writers only, and the run ends with nothing left over. *)
SPECIFICATION AnySpec
CONSTANTS
    a1 = a1
    a2 = a2
    NULL = NULL
    Addr <- TwoLines
    processorCount = 3
    CACHE_DELAY = 2
    CACHE_TRANSFER = 2
    DRAM_FETCH_TICKS = 3
    cs = "MESI"
    TraceLength = 3
    TotalOps = 5
    Schemes = {"MI", "MESI", "MOESI", "MESIF"}
CHECK_DEADLOCK FALSE
INVARIANTS
    SimTypeOK
    AllCallbackAssertionsHold
    OneRequestEach
    ParkedWhileLineWaits
    SingleOwner
PROPERTIES
    LostOnlyToWriter
    EndsQuietly
