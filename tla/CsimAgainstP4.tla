--------------------------- MODULE CsimAgainstP4 ---------------------------
(***************************************************************************)
(* csim.c and the arrays of cache-p4/cache.c on the same trace: cache-p4   *)
(* without victim cache and with LRU is csim, rewritten as a component.    *)
(***************************************************************************)
EXTENDS Csim

VARIABLES
    is_rrip, main, victim, result,      \* the state of cache-p4 (CacheArray)
    now                                 \* its time

bothVars == <<csimVars, is_rrip, main, victim, result, now>>

P4 == INSTANCE CacheArray WITH victim_i <- 0, R <- 1, iteration <- now

BothInit ==
    /\ CsimInit
    /\ P4!ArrayInit
    /\ ~is_rrip

\* cache-p4 accesses the line and its time goes on.
P4Access(a, isStore) ==
    LET answer == P4!Access(P4!Arrays, a, isStore, now)
    IN  /\ P4!Store(answer.arrays, now + 1)
        /\ result' = [res |-> answer.res, evicted |-> answer.evicted]

BothNext ==
    \/ \E a \in Line :
        \/ load(a) /\ P4Access(a, FALSE)
        \/ store(a) /\ P4Access(a, TRUE)
    \/ OtherOp /\ UNCHANGED <<is_rrip, main, victim, result, now>>

BothSpec == BothInit /\ [][BothNext]_bothVars

-----------------------------------------------------------------------------
\* The lines that cache-p4 holds dirty.
P4Dirty == P4!HeldWhere(TRUE)

\* Both hold the same lines in the same ways, equally dirty, and were last used in
\* the same order.
SameArrays ==
    \A s \in 0 .. S - 1, w \in 0 .. E - 1 :
        /\ cache[s][w].valid_bit = main[s][w].valid
        /\ cache[s][w].valid_bit =>
             /\ cache[s][w].tag = main[s][w].tag
             /\ cache[s][w].dirty_bit = main[s][w].dirty
             /\ \A t \in 0 .. S - 1, v \in 0 .. E - 1 :
                  cache[t][v].valid_bit =>
                    (cache[s][w].LRU_counter < cache[t][v].LRU_counter
                        <=> main[s][w].LRU < main[t][v].LRU)

\* cache-p4 answers an access as csim counts it, takes the same line out, and after
\* it both are in the same state.
SameAsP4 ==
    [][/\ SameArrays'
       /\ <<cache, stats>>' # <<cache, stats>> =>
            /\ result'.res = "HIT" <=> stats'.hits = stats.hits + 1
            /\ result'.res = "MISS_EVICT" <=> stats'.evictions = stats.evictions + 1
            /\ stats'.dirty_evictions = stats.dirty_evictions
                 + IF result'.evicted \cap P4Dirty = {} THEN 0 ELSE B]_bothVars
=============================================================================
