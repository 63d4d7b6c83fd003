---------------------------- MODULE Interconnect ----------------------------
(***************************************************************************)
(* interconnect/interconnect.c: one bus shared by all processors. At most  *)
(* one request is on the bus (pendingRequest); the others wait in one FIFO *)
(* queue per processor and are admitted in round-robin order. A request on *)
(* the bus first waits CACHE_DELAY ticks (WAITING_CACHE), is then snooped  *)
(* by every other processor and, in the same tick, handed to the memory    *)
(* (WAITING_MEMORY). If a cache supplies the line the request turns into a *)
(* cache-to-cache transfer of CACHE_TRANSFER ticks (TRANSFERING_CACHE),     *)
(* and the fetch is squelched.                                             *)
(*                                                                         *)
(* This module has the bus and its queues; what the coherence component    *)
(* does in a snoop and at delivery is composed with it in Coherence.       *)
(*                                                                         *)
(* dataAvail and TRANSFERING_MEMORY never outlive the tick that sets them   *)
(* (the memory is ticked by the bus, at the start of its own tick), so the  *)
(* former is the state function DataAvail and the latter no state at all.  *)
(* The field data only tells the end of a snoop whether a line was          *)
(* supplied. A queued request is in state QUEUED, on behalf of the owner    *)
(* of its queue.                                                           *)
(***************************************************************************)
EXTENDS Memory, Sequences, CoherenceProtocol

CONSTANTS
    CACHE_DELAY,        \* ticks from admission to the snoop
    CACHE_TRANSFER      \* ticks of a cache-to-cache transfer

ASSUME DelayAssumption    == CACHE_DELAY \in Nat \ {0}
ASSUME TransferAssumption == CACHE_TRANSFER \in Nat \ {0}

VARIABLES
    pendingRequest,     \* the request on the bus, or NULL
    queuedRequests,     \* processor -> FIFO of waiting requests
    countDown,          \* ticks until the request on the bus moves on
    lastProc            \* where the next arbitration starts looking

busVars == <<pendingRequest, queuedRequests, countDown, lastProc>>

QueuedReq  == [brt : BusRequest, addr : Addr]
PendingReq == [brt : BusRequest \cup {"DATA"}, addr : Addr, procNum : Proc,
               currentState : {"WAITING_CACHE", "WAITING_MEMORY", "TRANSFERING_CACHE"},
               shared : BOOLEAN]

ASSUME NoPendingAssumption == NULL \notin PendingReq

\* All delays are at most this: the range of countDown.
LongestDelay == CACHE_DELAY + CACHE_TRANSFER + DRAM_FETCH_TICKS

BusTypeOK ==
    /\ pendingRequest \in PendingReq \cup {NULL}
    /\ queuedRequests \in [Proc -> Seq(QueuedReq)]
    /\ countDown \in 0 .. LongestDelay
    /\ lastProc \in Proc

BusInit ==
    /\ pendingRequest = NULL
    /\ queuedRequests = [p \in Proc |-> <<>>]
    /\ countDown = 0
    /\ lastProc = 0

-----------------------------------------------------------------------------
\* A request that takes the bus.
Admitted(brt, addr, procNum) ==
    [brt |-> brt, addr |-> addr, procNum |-> procNum,
     currentState |-> "WAITING_CACHE", shared |-> FALSE]

\* busReq called for a miss: straight on to a free bus, or to the end of the
\* processor's queue. A free bus is taken even if other requests are queued.
BusReq(brt, addr, procNum) ==
    IF pendingRequest = NULL
    THEN /\ pendingRequest' = Admitted(brt, addr, procNum)
         /\ countDown' = CACHE_DELAY
         /\ UNCHANGED <<queuedRequests, lastProc>>
    ELSE /\ queuedRequests' =
              [queuedRequests EXCEPT ![procNum] =
                  Append(@, [brt |-> brt, addr |-> addr])]
         /\ UNCHANGED <<pendingRequest, countDown, lastProc>>

\* busReq called with the DATA of a line that is given up. It takes or queues for
\* the bus as a miss does, but if a request for its line is on the bus it is taken
\* for an answer to it.
BusReqData(addr, procNum) ==
    IF pendingRequest # NULL /\ pendingRequest.addr = addr
    THEN /\ pendingRequest' = [pendingRequest EXCEPT !.currentState = "TRANSFERING_CACHE"]
         /\ countDown' = CACHE_TRANSFER
         /\ UNCHANGED <<queuedRequests, lastProc>>
    ELSE BusReq("DATA", addr, procNum)

-----------------------------------------------------------------------------
\* busReqCacheTransfer, as the memory asks it for its own request: is it the
\* one on the bus, and does it come from another cache?
Squelch ==
    /\ memRequest # NULL
    /\ pendingRequest # NULL
    /\ memRequest.addr = pendingRequest.addr
    /\ memRequest.procNum = pendingRequest.procNum
    /\ pendingRequest.currentState = "TRANSFERING_CACHE"

\* memReqCallback, called by the memory within this tick, marks the request on
\* the bus when it is the one that was fetched.
DataAvail ==
    /\ MemCallsBack(Squelch)
    /\ pendingRequest # NULL
    /\ memRequest.addr = pendingRequest.addr
    /\ memRequest.procNum = pendingRequest.procNum

\* This tick is the last one that the request on the bus waits for.
Expires == countDown > 0 /\ (countDown = 1 \/ DataAvail)

\* Slip: the count-down goes on at 0, and the bus is never found free again.
CountDownBelow ==
    /\ countDown >= 0
    /\ Expires => /\ ~DataAvail
                  /\ pendingRequest.currentState = "WAITING_MEMORY"
    /\ countDown' = countDown - 1
    /\ MemTick(Squelch)
    /\ UNCHANGED <<pendingRequest, queuedRequests, lastProc>>

\* A tick that only counts. (A request that waits for the memory stays where
\* it is even if its own count-down elapses first.)
CountDown ==
    /\ countDown > 0
    /\ Expires => /\ ~DataAvail
                  /\ pendingRequest.currentState = "WAITING_MEMORY"
    /\ countDown' = countDown - 1
    /\ MemTick(Squelch)
    /\ UNCHANGED <<pendingRequest, queuedRequests, lastProc>>

\* Where the arbitration after the one that p won starts.
NextProc(p) == (p + 1) % processorCount

\* The free bus goes to the first processor from lastProc on that waits.
Arbitrate ==
    /\ countDown = 0
    /\ \E i \in 0 .. processorCount - 1 :
         LET pos(j) == (j + lastProc) % processorCount
             winner == pos(i)
             first  == Head(queuedRequests[winner])
         IN /\ queuedRequests[winner] # <<>>
            /\ \A j \in 0 .. i - 1 : queuedRequests[pos(j)] = <<>>
            /\ pendingRequest' = Admitted(first.brt, first.addr, winner)
            /\ queuedRequests' = [queuedRequests EXCEPT ![winner] = Tail(@)]
            /\ countDown' = CACHE_DELAY
            /\ lastProc' = NextProc(winner)
    /\ MemTick(Squelch)

\* Nothing on the bus and nothing to put on it.
IdleTick ==
    /\ countDown = 0
    /\ \A p \in Proc : queuedRequests[p] = <<>>
    /\ MemTick(Squelch)
    /\ UNCHANGED busVars

\* The bus side of a snoop in which the caches together replied "replies". The
\* memory is asked first, and is turned away in the next tick if a cache had
\* the line.
SnoopEnabled ==
    /\ Expires
    /\ ~DataAvail
    /\ pendingRequest.currentState = "WAITING_CACHE"

Snooped(replies) ==
    LET supplied == "DATA" \in replies
    IN [brt     |-> IF supplied THEN "DATA" ELSE pendingRequest.brt,
        addr    |-> pendingRequest.addr,
        procNum |-> pendingRequest.procNum,
        currentState |-> IF supplied THEN "TRANSFERING_CACHE" ELSE "WAITING_MEMORY",
        shared  |-> "SHARED" \in replies]

BusAfterSnoop(replies) ==
    /\ pendingRequest' = Snooped(replies)
    /\ countDown' = IF "DATA" \in replies THEN CACHE_TRANSFER ELSE DRAM_FETCH_TICKS
    /\ MemBusReq(pendingRequest.addr, pendingRequest.procNum)
    /\ UNCHANGED <<queuedRequests, lastProc>>

\* The bus side of a delivery: the requester gets "Delivered" and the bus is free.
DeliveryEnabled ==
    /\ Expires
    /\ DataAvail \/ pendingRequest.currentState = "TRANSFERING_CACHE"

Delivered ==
    IF pendingRequest.shared THEN "SHARED"
    ELSE IF DataAvail THEN "DATA" ELSE pendingRequest.brt

BusAfterDelivery ==
    /\ pendingRequest' = NULL
    /\ countDown' = 0
    /\ MemTick(Squelch)
    /\ UNCHANGED <<queuedRequests, lastProc>>

=============================================================================
