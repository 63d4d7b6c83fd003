-------------------------------- MODULE Csim -------------------------------
(***************************************************************************)
(* csim.c: a cache simulator of its own, from which the arrays of the cache *)
(* components were made. It runs a trace of loads and stores on S sets of E *)
(* ways with LRU and counts hits, misses, evictions, the dirty bytes in the *)
(* cache and the dirty bytes evicted.                                      *)
(*                                                                         *)
(* An address is the number of its line. The trace is any sequence of      *)
(* lines; one that does not parse ends it. The counters are 64 bits wide   *)
(* and count no further than the trace, or the cache, is long.             *)
(***************************************************************************)
EXTENDS Integers, FiniteSetsExt

CONSTANTS
    Line,               \* line numbers
    S, E, B,            \* sets, ways of a set, bytes of a line
    TraceLength         \* bound: lines of the trace

ASSUME CsimAssumption ==
    /\ Line \subseteq Nat
    /\ {S, E, B} \subseteq Nat \ {0}
    /\ TraceLength \in Nat

VARIABLES
    cache,              \* set -> way -> line
    stats,
    iteration           \* the line of the trace

csimVars == <<cache, stats, iteration>>

SetIndex(a) == a % S
TagOf(a)    == a \div S

CsimInit ==
    /\ cache = [s \in 0 .. S - 1 |-> [w \in 0 .. E - 1 |->
                   [valid_bit |-> FALSE, dirty_bit |-> FALSE, tag |-> 0, LRU_counter |-> 0]]]
    /\ stats = [hits |-> 0, misses |-> 0, evictions |-> 0, dirty_bytes |-> 0,
                dirty_evictions |-> 0]
    /\ iteration = 0

-----------------------------------------------------------------------------
Matching(a) ==
    {w \in 0 .. E - 1 : cache[SetIndex(a)][w].valid_bit /\ cache[SetIndex(a)][w].tag = TagOf(a)}

Invalid(a) == {w \in 0 .. E - 1 : ~cache[SetIndex(a)][w].valid_bit}

\* Slip: the counters are not compared.
FirstWay(a) == 0

\* The first line of the set with the smallest counter.
LRU_index(a) ==
    LET counter(w) == cache[SetIndex(a)][w].LRU_counter
    IN  Min({w \in 0 .. E - 1 : \A v \in 0 .. E - 1 : counter(w) <= counter(v)})

\* Way w of the set of a holds a from now on.
Holds(a, w, dirty) ==
    cache' = [cache EXCEPT ![SetIndex(a)][w] =
                [valid_bit |-> TRUE, dirty_bit |-> dirty, tag |-> TagOf(a),
                 LRU_counter |-> iteration]]

DirtyBytes(a, w) == IF cache[SetIndex(a)][w].dirty_bit THEN B ELSE 0

NextLine ==
    /\ iteration < TraceLength
    /\ iteration' = iteration + 1

LoadHit(a) ==
    /\ NextLine
    /\ Matching(a) # {}
    /\ LET w == Min(Matching(a)) IN Holds(a, w, cache[SetIndex(a)][w].dirty_bit)
    /\ stats' = [stats EXCEPT !.hits = @ + 1]

LoadMiss(a) ==
    /\ NextLine
    /\ Matching(a) = {}
    /\ Invalid(a) # {}
    /\ Holds(a, Min(Invalid(a)), FALSE)
    /\ stats' = [stats EXCEPT !.misses = @ + 1]

LoadEvict(a) ==
    /\ NextLine
    /\ Matching(a) = {}
    /\ Invalid(a) = {}
    /\ Holds(a, LRU_index(a), FALSE)
    /\ stats' = [stats EXCEPT !.misses = @ + 1,
                              !.evictions = @ + 1,
                              !.dirty_bytes = @ - DirtyBytes(a, LRU_index(a)),
                              !.dirty_evictions = @ + DirtyBytes(a, LRU_index(a))]

StoreHit(a) ==
    /\ NextLine
    /\ Matching(a) # {}
    /\ LET w == Min(Matching(a))
       IN  /\ Holds(a, w, TRUE)
           /\ stats' = [stats EXCEPT !.hits = @ + 1, !.dirty_bytes = @ + B - DirtyBytes(a, w)]

StoreMiss(a) ==
    /\ NextLine
    /\ Matching(a) = {}
    /\ Invalid(a) # {}
    /\ Holds(a, Min(Invalid(a)), TRUE)
    /\ stats' = [stats EXCEPT !.misses = @ + 1, !.dirty_bytes = @ + B]

\* Slip: the bytes of the new line are forgotten.
StoreEvictClean(a) ==
    /\ NextLine
    /\ Matching(a) = {}
    /\ Invalid(a) = {}
    /\ Holds(a, LRU_index(a), TRUE)
    /\ stats' = [stats EXCEPT !.misses = @ + 1,
                              !.evictions = @ + 1,
                              !.dirty_bytes = @ - DirtyBytes(a, LRU_index(a)),
                              !.dirty_evictions = @ + DirtyBytes(a, LRU_index(a))]

StoreEvict(a) ==
    /\ NextLine
    /\ Matching(a) = {}
    /\ Invalid(a) = {}
    /\ Holds(a, LRU_index(a), TRUE)
    /\ stats' = [stats EXCEPT !.misses = @ + 1,
                              !.evictions = @ + 1,
                              !.dirty_bytes = @ - DirtyBytes(a, LRU_index(a)) + B,
                              !.dirty_evictions = @ + DirtyBytes(a, LRU_index(a))]

load(a)  == LoadHit(a) \/ LoadMiss(a) \/ LoadEvict(a)
store(a) == StoreHit(a) \/ StoreMiss(a) \/ StoreEvict(a)

\* Any other operation takes time and does nothing.
OtherOp ==
    /\ NextLine
    /\ UNCHANGED <<cache, stats>>

CsimNext ==
    \/ \E a \in Line : load(a) \/ store(a)
    \/ OtherOp

CsimSpec == CsimInit /\ [][CsimNext]_csimVars

-----------------------------------------------------------------------------
\* The statistics are what the cache has gone through: every miss has brought in a
\* line that is there or has been evicted, and the dirty bytes, which go up and down
\* in six places of the code, are those of the dirty lines.
StatsMatchContents ==
    LET where == (0 .. S - 1) \X (0 .. E - 1)
        valid == {x \in where : cache[x[1]][x[2]].valid_bit}
        dirty == {x \in valid : cache[x[1]][x[2]].dirty_bit}
    IN  /\ stats.misses = stats.evictions + Cardinality(valid)
        /\ stats.dirty_bytes = B * Cardinality(dirty)
        /\ stats.dirty_evictions <= B * stats.evictions
=============================================================================
