----------------------------- MODULE Coherence -----------------------------
(***************************************************************************)
(* coherence-p5/coherence.c on top of the bus: the state of every line in  *)
(* every processor, the requests of the local caches (permReq) and the     *)
(* reaction to what the bus shows (busReq).                                *)
(*                                                                         *)
(* The simulator is sequential. Between two ticks of the bus the caches    *)
(* ask for lines, in any number and order (PermReq); a tick of the bus is   *)
(* one step that runs the memory, the bus and every snoop it causes. In    *)
(* Next the caches keep every line they have been given, as simpleCache    *)
(* does; InvlReq, the eviction, is there for the caches that call it.      *)
(***************************************************************************)
EXTENDS Interconnect, FiniteSets

CONSTANT cs             \* the coherence scheme (option -s)

ASSUME SchemeAssumption == cs \in Scheme

VARIABLE coherStates    \* processor -> address -> state (absent: INVALID)

vars == <<memVars, busVars, coherStates>>

TypeOK ==
    /\ MemTypeOK
    /\ BusTypeOK
    /\ coherStates \in [Proc -> [Addr -> CoherenceState]]

Init ==
    /\ MemInit
    /\ BusInit
    /\ coherStates = [p \in Proc |-> [a \in Addr |-> "INVALID"]]

-----------------------------------------------------------------------------
\* The dispatch on the scheme, in permReq and in busReq.
Cache(isRead, st) ==
    CASE cs = "MI"    -> CacheMI(isRead, st)
      [] cs = "MSI"   -> CacheMSI(isRead, st)
      [] cs = "MESI"  -> CacheMESI(isRead, st)
      [] cs = "MOESI" -> CacheMOESI(isRead, st)
      [] cs = "MESIF" -> CacheMESIF(isRead, st)

Snoop(req, st) ==
    CASE cs = "MI"    -> SnoopMI(req, st)
      [] cs = "MSI"   -> SnoopMSI(req, st)
      [] cs = "MESI"  -> SnoopMESI(req, st)
      [] cs = "MOESI" -> SnoopMOESI(req, st)
      [] cs = "MESIF" -> SnoopMESIF(req, st)

\* The cache of p asks to load (isRead) or to store at a.
PermReq(p, a, isRead) ==
    LET answer == Cache(isRead, coherStates[p][a])
    IN /\ coherStates' = [coherStates EXCEPT ![p][a] = answer.next]
       /\ IF answer.send = "NO_REQ" THEN UNCHANGED busVars
                                    ELSE BusReq(answer.send, a, p)
       /\ UNCHANGED memVars

\* The cache of p evicts line a: the line is forgotten at once and its data is sent,
\* be it dirty or clean.
InvlReq(p, a) ==
    /\ coherStates' = [coherStates EXCEPT ![p][a] = "INVALID"]
    /\ IF coherStates[p][a] = "INVALID" THEN UNCHANGED busVars ELSE BusReqData(a, p)
    /\ UNCHANGED memVars

\* What invlReq returns: must the cache wait for the line to be written back?
Flush(st) ==
    \/ st = "MODIFIED"
    \/ cs = "MI" /\ st # "INVALID"
    \/ cs = "MOESI" /\ st = "OWNED"

-----------------------------------------------------------------------------
\* How q reacts to the request on the bus when it is shown to it as "req".
Reaction(q, req) == Snoop(req, coherStates[q][pendingRequest.addr])

\* Slip: the loop over the processors ends one too early.
SnoopersButLast == Proc \ {pendingRequest.procNum, processorCount - 1}

Snoopers == Proc \ {pendingRequest.procNum}

Replies == UNION {Reaction(q, pendingRequest.brt).sends : q \in Snoopers}

\* The others see the request; what they reply decides where it is served.
SnoopBroadcast ==
    /\ SnoopEnabled
    /\ BusAfterSnoop(Replies)
    /\ coherStates' =
         [q \in Proc |->
            IF q \in Snoopers
            THEN [coherStates[q] EXCEPT ![pendingRequest.addr] =
                    Reaction(q, pendingRequest.brt).next]
            ELSE coherStates[q]]

\* The requester sees the answer.
Deliver ==
    /\ DeliveryEnabled
    /\ BusAfterDelivery
    /\ coherStates' =
         [coherStates EXCEPT ![pendingRequest.procNum][pendingRequest.addr] =
            Reaction(pendingRequest.procNum, Delivered).next]

\* One tick of coherence, bus and memory. (IdleTick changes nothing and is left to
\* stuttering here; the simulator, where the clock matters, has it.)
Tick ==
    \/ CountDown /\ UNCHANGED coherStates
    \/ Arbitrate /\ UNCHANGED coherStates
    \/ SnoopBroadcast
    \/ Deliver

Next ==
    \/ \E p \in Proc, a \in Addr, isRead \in BOOLEAN : PermReq(p, a, isRead)
    \/ Tick

Spec == Init /\ [][Next]_vars

\* The engine's loop ticks for as long as a processor waits on memory.
FairSpec == Spec /\ WF_vars(Tick)

-----------------------------------------------------------------------------
(* What is outstanding.                                                    *)

\* p's misses on a that wait in its queue, by position.
QueuedFor(p, a) == {i \in 1 .. Len(queuedRequests[p]) : queuedRequests[p][i].addr = a}

OnBus(p, a) ==
    /\ pendingRequest # NULL
    /\ pendingRequest.procNum = p
    /\ pendingRequest.addr = a

Outstanding(p, a) == Cardinality(QueuedFor(p, a)) + IF OnBus(p, a) THEN 1 ELSE 0

-----------------------------------------------------------------------------
(* Safety.                                                                 *)

\* The point of coherence: while one processor may store to a line, silently
\* or not, no other processor may load or store it (cacheXXX, permAvail = 1).
SingleWriter ==
    \A p, q \in Proc, a \in Addr :
        p # q /\ coherStates[p][a] \in Writable => coherStates[q][a] \notin Readable

\* A line waits for the bus exactly when there is one request of its processor
\* for it, in its queue or on the bus. A line that waits without a request is
\* never answered: permReq returns 0 in a transient state and sends nothing.
TransientHasRequest ==
    \A p \in Proc, a \in Addr :
        Outstanding(p, a) = IF coherStates[p][a] \in Transient THEN 1 ELSE 0

\* The request answers the wait: a miss for a store never waits in a state
\* that a BUSRD was sent from, and the other way round, also when the line was
\* snooped between the miss and the admission of its request.
RequestMatchesWait ==
    \A p \in Proc, a \in Addr :
        /\ \A i \in QueuedFor(p, a) :
             coherStates[p][a] \in IF queuedRequests[p][i].brt = "BUSWR"
                                   THEN WriteTransient ELSE ReadTransient
        /\ OnBus(p, a) /\ pendingRequest.brt # "DATA" =>
             coherStates[p][a] \in IF pendingRequest.brt = "BUSWR"
                                   THEN WriteTransient ELSE ReadTransient

\* The memory works only on behalf of the request on the bus, in step with it:
\* otherwise a count-down of the bus would end before the data came, and the
\* next arbitration would overwrite pendingRequest and lose the request.
MemoryServesBus ==
    /\ pendingRequest # NULL <=> countDown > 0
    /\ memRequest # NULL <=> memCountDown > 0
    /\ memRequest # NULL =>
         /\ pendingRequest # NULL
         /\ pendingRequest.currentState # "WAITING_CACHE"
         /\ memRequest.addr = pendingRequest.addr
         /\ memRequest.procNum = pendingRequest.procNum
    /\ pendingRequest # NULL /\ pendingRequest.currentState = "WAITING_MEMORY" =>
         countDown = memCountDown

\* The assertions of interconnect.c and memory.c in the coming tick:
\* at most one cache supplies the line (interconnect.c:196), the memory is idle
\* when it is asked (memory.c:46), nobody replies with data to a delivery
\* (interconnect.c:196), a count-down belongs to a request (interconnect.c:228,
\* 364 and memory.c:63).
AssertionsHold ==
    /\ SnoopEnabled =>
         /\ \A q, r \in Snoopers :
              /\ "DATA" \in Reaction(q, pendingRequest.brt).sends
              /\ "DATA" \in Reaction(r, pendingRequest.brt).sends
              => q = r
         /\ memRequest = NULL \/ MemReleases(Squelch)
    /\ DeliveryEnabled => "DATA" \notin Reaction(pendingRequest.procNum, Delivered).sends
    /\ countDown > 0 => pendingRequest # NULL
    /\ memCountDown > 0 => memRequest # NULL /\ pendingRequest # NULL

\* At most one processor answers for a line (MODIFIED, EXCLUSIVE, OWNED or
\* FORWARD), at any time and not only when the line is snooped.
SingleOwner ==
    \A p, q \in Proc, a \in Addr :
        /\ coherStates[p][a] \in Writable \cup {"OWNED", "FORWARD"}
        /\ coherStates[q][a] \in Writable \cup {"OWNED", "FORWARD"}
        => p = q

\* A processor that may load a line keeps it until another processor's BUSWR
\* for the line has been on the bus, or its own store asks for an upgrade: no
\* load of another processor, and no delivery, takes it away (a step of it).
LostToWriterOnly ==
    \A p \in Proc, a \in Addr :
        coherStates[p][a] \in Readable /\ coherStates'[p][a] \notin Readable =>
            \/ Outstanding(p, a)' > Outstanding(p, a)
            \/ /\ pendingRequest # NULL
               /\ pendingRequest.addr = a
               /\ pendingRequest.procNum # p
               /\ pendingRequest.brt = "BUSWR"

LostOnlyToWriter == [][LostToWriterOnly]_vars

-----------------------------------------------------------------------------
(* The promise to the caches.                                              *)

\* The right a state stands for.
RightOf(st) ==
    IF st \in Writable THEN "write" ELSE IF st \in Readable THEN "read" ELSE "none"

Rights == INSTANCE LinePermissions WITH
    perm <- [p \in Proc |-> [a \in Addr |-> RightOf(coherStates[p][a])]]

\* Coherence implements LinePermissions: no step of caches, bus or memory gives a
\* right while another processor holds one that excludes it, and a right is taken
\* away only as others' rights to the same line are.
ImplementsRights == Rights!Spec

-----------------------------------------------------------------------------
(* Liveness.                                                               *)

\* What has got on to the bus gets off it: the fetch comes back or the transfer
\* ends, whatever the caches ask for meanwhile.
BusServes == pendingRequest # NULL ~> pendingRequest = NULL

\* Once the caches ask for nothing new (the traces are finite), every miss is
\* answered.
QuietDrains ==
    <>[][Tick]_vars =>
        <>[](\A p \in Proc, a \in Addr : coherStates[p][a] \notin Transient)

=============================================================================
