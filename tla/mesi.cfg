(* Every order of requests, snoops and deliveries of three processors on one line under MESI: writers are exclusive, each waiting line has its one request, bus and memory stay in step, no assertion of the code fails, the line permissions are implemented, and what is asked for is served. *)
SPECIFICATION FairSpec
CONSTANTS
    a1 = a1
    a2 = a2
    NULL = NULL
    Addr <- OneLine
    processorCount = 3
    CACHE_DELAY = 2
    CACHE_TRANSFER = 2
    DRAM_FETCH_TICKS = 3
    cs = "MESI"
INVARIANTS
    TypeOK
    SingleWriter
    TransientHasRequest
    RequestMatchesWait
    MemoryServesBus
    AssertionsHold
PROPERTIES
    ImplementsRights
    BusServes
    QuietDrains
