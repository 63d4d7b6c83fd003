---------------------------- MODULE SimpleCache ----------------------------
(***************************************************************************)
(* simpleCache/cache.c: a cache that keeps no lines of its own. It asks    *)
(* the coherence component for every access, parks the access in pendReq   *)
(* until the line arrives, or puts it into readyReq when it may go ahead,  *)
(* and calls the processor back for everything in readyReq on its tick.    *)
(*                                                                         *)
(* The two lists are sets here: the callbacks of one tick go to different  *)
(* processors and commute, and coherCallback looks for the request of one  *)
(* processor for one address, of which there is at most one as long as a   *)
(* processor blocks on its memory access (OneRequestEach in Simulator).    *)
(***************************************************************************)
EXTENDS Coherence

VARIABLES
    pendReq,            \* accesses that wait for a line
    readyReq            \* accesses to call back on the next tick

cacheVars == <<pendReq, readyReq>>

CacheRequest == [tag : Nat, addr : Addr, processorNum : Proc]

CacheTypeOK ==
    /\ pendReq \subseteq CacheRequest
    /\ readyReq \subseteq CacheRequest

CacheInit ==
    /\ pendReq = {}
    /\ readyReq = {}

-----------------------------------------------------------------------------
\* The processor's load or store.
MemoryRequest(p, a, isRead, tag) ==
    LET request == [tag |-> tag, addr |-> a, processorNum |-> p]
        hit     == Cache(isRead, coherStates[p][a]).permAvail
    IN /\ PermReq(p, a, isRead)
       /\ readyReq' = IF hit THEN readyReq \cup {request} ELSE readyReq
       /\ pendReq' = IF hit THEN pendReq ELSE pendReq \cup {request}

\* The parked accesses that a callback (DATA_RECV, p, addr) looks for. Any other
\* callback is ignored.
Parked(p, addr) == {r \in pendReq : r.processorNum = p /\ r.addr = addr}

\* Slip: the access is made ready but stays parked.
CoherCallbackKeeps(gets) ==
    /\ readyReq' = readyReq \cup UNION {Parked(p, pendingRequest.addr) : p \in gets}
    /\ UNCHANGED pendReq

\* coherCallback for every processor that "gets" the line on the bus.
CoherCallback(gets) ==
    LET filled == UNION {Parked(p, pendingRequest.addr) : p \in gets}
    IN /\ pendReq' = pendReq \ filled
       /\ readyReq' = readyReq \cup filled

\* The processors that the snoop, or the delivery, of this tick tells DATA_RECV.
SnoopFills == {q \in Snoopers : Reaction(q, pendingRequest.brt).ca = "DATA_RECV"}

DeliveryFills ==
    {q \in {pendingRequest.procNum} : Reaction(q, Delivered).ca = "DATA_RECV"}

\* The first thing in the cache's tick: everything below it ticks, and calls back.
TickBelow ==
    \/ CountDown /\ UNCHANGED <<coherStates, cacheVars>>
    \/ Arbitrate /\ UNCHANGED <<coherStates, cacheVars>>
    \/ IdleTick /\ UNCHANGED <<coherStates, cacheVars>>
    \/ SnoopBroadcast /\ CoherCallback(SnoopFills)
    \/ Deliver /\ CoherCallback(DeliveryFills)

-----------------------------------------------------------------------------
\* The assertions of coherCallback in the coming tick: somebody waits whenever
\* a processor is called back at all (cache.c:94), even if only to be told
\* NO_ACTION, and the access that a line arrives for is there (cache.c:137).
CallbackAssertionsHold ==
    /\ SnoopEnabled =>
         /\ Snoopers # {} => pendReq # {}
         /\ \A q \in SnoopFills : Parked(q, pendingRequest.addr) # {}
    /\ DeliveryEnabled =>
         /\ pendReq # {}
         /\ \A q \in DeliveryFills : Parked(q, pendingRequest.addr) # {}

=============================================================================
