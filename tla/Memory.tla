------------------------------- MODULE Memory -------------------------------
(***************************************************************************)
(* memory/memory.c: a memory that serves one request at a time and calls   *)
(* back after DRAM_FETCH_TICKS ticks, unless a cache has supplied the line  *)
(* in the meantime (the request is then "squelched": dropped silently).    *)
(*                                                                         *)
(* The memory is ticked by the interconnect, at the start of every tick of *)
(* the bus, so these are operators that Interconnect composes and not      *)
(* actions of a system of their own.                                       *)
(***************************************************************************)
EXTENDS Naturals

CONSTANTS
    Addr,               \* the line addresses the traces touch
    processorCount,     \* number of processors, numbered from 0
    DRAM_FETCH_TICKS,   \* latency of a fetch, in ticks
    NULL                \* no request

Proc == 0 .. processorCount - 1

MemReq == [addr : Addr, procNum : Proc]

ASSUME ProcessorAssumption == processorCount \in Nat \ {0}
ASSUME DramAssumption      == DRAM_FETCH_TICKS \in Nat \ {0}
ASSUME NullAssumption      == NULL \notin MemReq

VARIABLES
    memRequest,         \* pendingRequest of memory.c
    memCountDown        \* countDown of memory.c

memVars == <<memRequest, memCountDown>>

MemTypeOK ==
    /\ memRequest \in MemReq \cup {NULL}
    /\ memCountDown \in 0 .. DRAM_FETCH_TICKS

MemInit ==
    /\ memRequest = NULL
    /\ memCountDown = 0

-----------------------------------------------------------------------------
\* Slip: the fetch goes on although another cache has the line.
MemLeftAnyway(squelch) == IF memCountDown = 0 THEN 0 ELSE memCountDown - 1

\* What is left of the count-down after one tick. "squelch" tells whether the
\* interconnect answers that the request is being served by another cache.
MemLeft(squelch) ==
    IF memCountDown = 0 \/ squelch THEN 0 ELSE memCountDown - 1

\* The request leaves the memory in this tick ...
MemReleases(squelch) == memRequest # NULL /\ MemLeft(squelch) = 0

\* Slip: the flag is tested the wrong way round.
MemCallsBackSquelched(squelch) == MemReleases(squelch) /\ squelch

\* ... and the interconnect is called back, unless it was squelched.
MemCallsBack(squelch) ==
    MemReleases(squelch) /\ ~(memCountDown > 0 /\ squelch)

MemTick(squelch) ==
    /\ memCountDown' = MemLeft(squelch)
    /\ memRequest' = IF MemReleases(squelch) THEN NULL ELSE memRequest

\* A new fetch. The caller asserts that the memory is idle after its tick.
MemBusReq(addr, procNum) ==
    /\ memRequest' = [addr |-> addr, procNum |-> procNum]
    /\ memCountDown' = DRAM_FETCH_TICKS

=============================================================================
