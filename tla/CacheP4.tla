------------------------------ MODULE CacheP4 ------------------------------
(***************************************************************************)
(* cache-p4/cache.c: a cache with tag arrays (CacheArray) in front of the  *)
(* coherence component. A memory access is looked up in the arrays, which  *)
(* are updated at once, and is then queued as the list of coherence        *)
(* requests that it takes: an eviction (INV) and a permission (PERM) for   *)
(* each line it touches. The queue is worked off from its head, one        *)
(* coherence request at a time; coherence calls back for each, from inside *)
(* a tick of the bus.                                                      *)
(*                                                                         *)
(* The cache keeps the processor of the latest access in a single variable *)
(* (procNum), so it serves one processor: processorCount is 1 here.        *)
(*                                                                         *)
(* The client is any processor that issues up to MaxOutstanding accesses   *)
(* before the first is answered.                                           *)
(***************************************************************************)
EXTENDS Coherence, CacheArray

CONSTANT MaxOutstanding \* bound: accesses in the queue

ASSUME OneProcessorAssumption == processorCount = 1 /\ Line = Addr
ASSUME OutstandingAssumption  == MaxOutstanding \in Nat \ {0}

procNum == 0

VARIABLES
    memReqQueue,        \* for each access, the coherence requests it still needs
    isStarted,          \* has the first of them been sent?
    ticked              \* the bus has ticked and the queue is to be advanced

queueVars == <<memReqQueue, isStarted, ticked>>
p4Vars    == <<vars, arrayVars, queueVars>>

PendingRequest == [addr : Addr, isLoad : BOOLEAN, requestType : {"PERM", "INV"}]

P4TypeOK ==
    /\ TypeOK
    /\ ArrayTypeOK
    /\ memReqQueue \in Seq(Seq(PendingRequest))
    /\ Len(memReqQueue) <= MaxOutstanding
    /\ isStarted \in BOOLEAN
    /\ isStarted => memReqQueue # <<>> /\ Head(memReqQueue) # <<>>
    /\ ticked \in BOOLEAN

P4Init ==
    /\ Init
    /\ ArrayInit
    /\ memReqQueue = <<>>
    /\ isStarted = FALSE
    /\ ticked = FALSE

-----------------------------------------------------------------------------
(* The queue.                                                              *)

Current == Head(Head(memReqQueue))

\* The queue without its current coherence request.
Dequeued == <<Tail(Head(memReqQueue))>> \o Tail(memReqQueue)

Perm(line, isLoad) == [addr |-> line, isLoad |-> isLoad, requestType |-> "PERM"]
Inv(line, isLoad)  == [addr |-> line, isLoad |-> isLoad, requestType |-> "INV"]

\* Slip: the line is asked for before the evicted one is given up.
PermThenInv(answer, line, isLoad) ==
    IF answer.res = "MISS_EVICT"
    THEN <<Perm(line, isLoad), Inv(CHOOSE out \in answer.evicted : TRUE, isLoad)>>
    ELSE <<Perm(line, isLoad)>>

\* What one line takes of coherence, given the answer of the arrays.
Needs(answer, line, isLoad) ==
    IF answer.res = "MISS_EVICT"
    THEN <<Inv(CHOOSE out \in answer.evicted : TRUE, isLoad), Perm(line, isLoad)>>
    ELSE <<Perm(line, isLoad)>>

\* An access within one line.
MemoryRequestWithin(line, isLoad) ==
    /\ AccessOne(line, ~isLoad)
    /\ memReqQueue' =
         Append(memReqQueue,
                Needs(Access(Arrays, line, ~isLoad, iteration), line, isLoad))

\* An access that runs on into the next line. With a single set, the arrays are
\* not told of the second line.
MemoryRequestAcross(line, isLoad) ==
    LET first  == Access(Arrays, line, ~isLoad, iteration)
        second == Access(first.arrays, line + 1, ~isLoad, iteration)
        needs  == Needs(first, line, isLoad)
    IN /\ line + 1 \in Line
       /\ IF S = 1
          THEN /\ AccessOne(line, ~isLoad)
               /\ memReqQueue' = Append(memReqQueue, Append(needs, Perm(line + 1, isLoad)))
          ELSE /\ Store(second.arrays, iteration)
               /\ result' = [res |-> second.res, evicted |-> second.evicted]
               /\ memReqQueue' =
                    Append(memReqQueue, needs \o Needs(second, line + 1, isLoad))

MemoryRequest(line, isLoad) ==
    /\ ~ticked
    /\ Len(memReqQueue) < MaxOutstanding
    /\ \/ MemoryRequestWithin(line, isLoad)
       \/ MemoryRequestAcross(line, isLoad)
    /\ UNCHANGED <<vars, isStarted, ticked>>

-----------------------------------------------------------------------------
(* tick: time passes in the arrays, then below, then the queue is advanced. *)

\* coherCallback(DATA_RECV): the current request is done. (INVALIDATE is ignored.)
DeliverLine ==
    LET ca == Reaction(procNum, Delivered).ca
    IN /\ Deliver
       /\ ca # "NO_ACTION"
       /\ memReqQueue' = IF ca = "DATA_RECV" THEN Dequeued ELSE memReqQueue
       /\ isStarted' = (isStarted /\ ca # "DATA_RECV")

\* coherCallback(NO_ACTION): the eviction is done. From inside the callback the
\* next request is sent, while the delivered one is still on the bus; only after
\* that coherence updates the delivered line and the bus is free.
DeliverEviction ==
    LET next    == Head(Head(Dequeued))
        answer  == Cache(next.isLoad, coherStates[procNum][next.addr])
        granted == [coherStates EXCEPT ![procNum][next.addr] = answer.next]
        evicted == Reaction(procNum, Delivered)
    IN /\ DeliveryEnabled
       /\ evicted.ca = "NO_ACTION"
       /\ coherStates' =
            IF evicted.next = "INVALID"
               /\ coherStates[procNum][pendingRequest.addr] = "INVALID"
            THEN granted
            ELSE [granted EXCEPT ![procNum][pendingRequest.addr] = evicted.next]
       /\ IF answer.permAvail
          THEN /\ isStarted' = FALSE
               /\ memReqQueue' = <<Tail(Head(Dequeued))>> \o Tail(Dequeued)
          ELSE /\ isStarted' = TRUE
               /\ memReqQueue' = Dequeued
       /\ queuedRequests' =
            IF answer.send = "NO_REQ" THEN queuedRequests
            ELSE [queuedRequests EXCEPT ![procNum] =
                    Append(@, [brt |-> answer.send, addr |-> next.addr])]
       /\ pendingRequest' = NULL
       /\ countDown' = 0
       /\ MemTick(Squelch)
       /\ UNCHANGED lastProc

TickBelow ==
    /\ ~ticked
    /\ ticked' = TRUE
    /\ ArrayTick
    /\ \/ (CountDown \/ Arbitrate \/ IdleTick) /\ UNCHANGED <<coherStates, memReqQueue, isStarted>>
       \/ SnoopBroadcast /\ UNCHANGED <<memReqQueue, isStarted>>
       \/ DeliverLine
       \/ DeliverEviction

\* Slip: the line that is granted at once stays marked as sent.
HandlePermReqStarted ==
    LET granted == Cache(Current.isLoad, coherStates[procNum][Current.addr]).permAvail
    IN /\ PermReq(procNum, Current.addr, Current.isLoad)
       /\ isStarted' = TRUE
       /\ memReqQueue' = IF granted THEN Dequeued ELSE memReqQueue

\* handlePermReq: there is no callback for a line coherence grants at once.
HandlePermReq ==
    LET granted == Cache(Current.isLoad, coherStates[procNum][Current.addr]).permAvail
    IN /\ PermReq(procNum, Current.addr, Current.isLoad)
       /\ isStarted' = ~granted
       /\ memReqQueue' = IF granted THEN Dequeued ELSE memReqQueue

\* Slip: the eviction is not marked as sent.
HandleInvReqAgain ==
    /\ InvlReq(procNum, Current.addr)
    /\ UNCHANGED <<memReqQueue, isStarted>>

HandleInvReq ==
    /\ InvlReq(procNum, Current.addr)
    /\ isStarted' = TRUE
    /\ UNCHANGED memReqQueue

AdvanceQueue ==
    /\ ticked
    /\ ticked' = FALSE
    /\ UNCHANGED arrayVars
    /\ \/ /\ memReqQueue = <<>>
          /\ UNCHANGED <<vars, memReqQueue, isStarted>>
       \/ /\ memReqQueue # <<>> /\ Head(memReqQueue) = <<>>  \* the processor is called back
          /\ memReqQueue' = Tail(memReqQueue)
          /\ UNCHANGED <<vars, isStarted>>
       \/ /\ memReqQueue # <<>> /\ Head(memReqQueue) # <<>>
          /\ \/ isStarted /\ UNCHANGED <<vars, memReqQueue, isStarted>>
             \/ ~isStarted /\ Current.requestType = "INV" /\ HandleInvReq
             \/ ~isStarted /\ Current.requestType = "PERM" /\ HandlePermReq

P4Tick == TickBelow \/ AdvanceQueue

P4Next ==
    \/ \E line \in Line, isLoad \in BOOLEAN : MemoryRequest(line, isLoad)
    \/ TickBelow
    \/ AdvanceQueue

\* The engine ticks for as long as the processor waits for the cache.
P4Spec == P4Init /\ [][P4Next]_p4Vars /\ WF_p4Vars(P4Tick)

-----------------------------------------------------------------------------
(* Safety.                                                                 *)

\* There is a request j of access i in the queue.
At(queue, i, j) == i \in DOMAIN queue /\ j \in DOMAIN queue[i]

\* It is served before request l of access k.
Before(i, j, k, l) == i < k \/ (i = k /\ j < l)

\* It is the last one for line a.
LastFor(queue, a, i, j) ==
    /\ At(queue, i, j)
    /\ queue[i][j].addr = a
    /\ \A k \in DOMAIN queue : \A l \in DOMAIN queue[k] :
         Before(i, j, k, l) => queue[k][l].addr # a

Unasked(queue, a) ==
    \A i \in DOMAIN queue : \A j \in DOMAIN queue[i] : queue[i][j].addr # a

\* The arrays run ahead of coherence by exactly what is queued: a line is in them
\* if the last request for it in the queue asks for it or, when there is none, if
\* coherence has granted it. So every line is asked for, and none is given up
\* while an access still counts on it. (With a single set the arrays miss the
\* second line of an access.)
ArraysMatchCoherence ==
    S > 1 =>
        \A a \in Line :
            /\ Unasked(memReqQueue, a) =>
                 (a \in HeldWhere(FALSE) <=> coherStates[procNum][a] \in Readable)
            /\ \A i \in DOMAIN memReqQueue : \A j \in DOMAIN memReqQueue[i] :
                 LastFor(memReqQueue, a, i, j) =>
                    (a \in HeldWhere(FALSE) <=> memReqQueue[i][j].requestType = "PERM")

\* The request that was sent last, and it alone, is on the bus or waits for it,
\* also when it was sent from inside the callback of the one before.
StartedIsUnderWay ==
    \A a \in Addr :
        Outstanding(procNum, a) = IF isStarted /\ Current.addr = a THEN 1 ELSE 0

\* In the coming tick data comes for the current request (assertion, cache.c:511), and
\* NO_ACTION for an eviction that another request of the same access follows
\* (dereferenced at cache.c:484).
CallbackAnswersCurrent ==
    DeliveryEnabled =>
        LET ca == Reaction(procNum, Delivered).ca
        IN  /\ isStarted
            /\ ca = "DATA_RECV" =>
                 Current.requestType = "PERM" /\ Current.addr = pendingRequest.addr
            /\ ca = "NO_ACTION" =>
                 Current.requestType = "INV" /\ Len(Head(memReqQueue)) > 1

\* A line that is to be given up is one that has to be written back ("invlReq should
\* return 1 for P1", asserted at cache.c:494).
EvictionIsFlushed ==
    /\ memReqQueue # <<>>
    /\ Head(memReqQueue) # <<>>
    /\ Current.requestType = "INV"
    /\ ~isStarted
    => Flush(coherStates[procNum][Current.addr])

\* What the queue takes for granted.
QueueAssertionsHold == CallbackAnswersCurrent /\ EvictionIsFlushed

-----------------------------------------------------------------------------
(* Liveness.                                                               *)

\* Once the processor asks for nothing new, every access is answered.
RequestsServed == <>[][P4Tick]_p4Vars => <>[](memReqQueue = <<>>)

=============================================================================
