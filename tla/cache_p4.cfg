(* The cache of cache-p4 on coherence (MI), bus and memory, with two accesses outstanding that may each take two lines and evict two: arrays, queue and coherence agree at every moment, every callback finds its request, and every access is answered. *)
SPECIFICATION P4Spec
CONSTANTS
    NULL = NULL
    Addr <- FourLines
    Line <- FourLines
    processorCount = 1
    CACHE_DELAY = 1
    CACHE_TRANSFER = 1
    DRAM_FETCH_TICKS = 1
    cs = "MI"
    S = 2
    E = 1
    victim_i = 1
    R = 3
    MaxOutstanding = 2
INVARIANTS
    P4TypeOK
    ArraysMatchCoherence
    StartedIsUnderWay
    QueueAssertionsHold
PROPERTIES
    RequestsServed
