--------------------------- MODULE SimulatorProof ---------------------------
(***************************************************************************)
(* Proofs about Simulator for any number of processors and lines, any      *)
(* delays and traces of any length. Below the caches the simulator is       *)
(* Coherence, step by step, so what CoherenceProof has proved of it holds   *)
(* here. On top of that AccessInv says where the access of each processor   *)
(* is: a line is not answered before its access is parked, and an access   *)
(* is not parked after its line was answered.                              *)
(***************************************************************************)
EXTENDS Simulator, CoherenceProof

-----------------------------------------------------------------------------
(* The simulator drives coherence as Coherence says.                       *)

\* A tick with nothing to do changes nothing.
LEMMA IdleTickStutters == BusInv /\ IdleTick => UNCHANGED <<memVars, busVars>>
  BY DEF BusInv, MemoryServesBus, MemTypeOK, BusTypeOK, IdleTick, MemTick, MemLeft,
         MemReleases, memVars, busVars

\* The pass over the processors stays among them.
LoopInv == i \in 0 .. processorCount

LEMMA LoopInvStep == LoopInv /\ [SimNext]_systemVars => LoopInv'
  BY ProcessorAssumption
     DEF LoopInv, SimNext, BelowTicks, Callbacks, WaitOnMemory, WaitOnBranch, TraceEnded,
         IssueMemOp, IssueBranch, IssueALU, TakeOp, Ready, Turn, NextProcessor, EndOfTick,
         systemVars, loopVars

LEMMA TurnProc == LoopInv /\ Turn => i \in Proc
  BY ProcessorAssumption DEF LoopInv, Turn, Proc

LEMMA SimStepIsStep == BusInv /\ LoopInv /\ [SimNext]_systemVars => [Next]_vars
<1> SUFFICES ASSUME BusInv, LoopInv, [SimNext]_systemVars PROVE [Next]_vars
  OBVIOUS
<1>1. CASE BelowTicks
  <2>1. CASE IdleTick /\ UNCHANGED <<coherStates, cacheVars>>
    BY <2>1, IdleTickStutters DEF vars
  <2>2. CASE ~(IdleTick /\ UNCHANGED <<coherStates, cacheVars>>)
    BY <1>1, <2>2 DEF BelowTicks, TickBelow, Next, Tick, cacheVars
  <2> QED
    BY <2>1, <2>2
<1>2. CASE \E a \in Addr, isRead \in BOOLEAN : IssueMemOp(a, isRead)
  <2>1. PICK a \in Addr, isRead \in BOOLEAN : IssueMemOp(a, isRead)
    BY <1>2
  <2>2. i \in Proc
    BY <2>1, TurnProc DEF IssueMemOp, TakeOp, Ready
  <2> QED
    BY <2>1, <2>2 DEF IssueMemOp, MemoryRequest, Next
<1> QED
  BY <1>1, <1>2 DEF SimNext, Callbacks, WaitOnMemory, WaitOnBranch, TraceEnded, IssueBranch,
                    IssueALU, EndOfTick, systemVars

LEMMA SimBelowHolds == SimSpec => [](BusInv /\ LoopInv)
<1>1. SimInit => BusInv /\ LoopInv
  BY BusInvInit, ProcessorAssumption DEF SimInit, LoopInv
<1> QED
  BY <1>1, BusInvStep, LoopInvStep, SimStepIsStep, PTL DEF SimSpec

\* Whatever the processors and the cache do, what happens below the cache is an
\* execution of Coherence.
THEOREM SimulatorDrivesCoherence == SimSpec => Spec
<1>1. SimInit => Init
  BY DEF SimInit
<1> QED
  BY <1>1, SimStepIsStep, SimBelowHolds, PTL DEF SimSpec, Spec

-----------------------------------------------------------------------------
(* Accesses.                                                               *)

\* The tag of an access counts the accesses before it, so it stays below the
\* length of the trace.
TagsInv ==
    \A p \in Proc :
        memOpTag[p] + opsLeft[p] + (IF pendingMem[p] THEN 1 ELSE 0) <= TraceLength

\* An access that was made ready is parked no longer.
ParkedOrReady == pendReq \cap readyReq = {}

AccessInv ==
    /\ SimTypeOK
    /\ ParkedOrReady
    /\ TagsInv
    /\ OneRequestEach
    /\ ParkedWhileLineWaits

BelowInv == BusInv /\ RequestInv /\ LoopInv

\* Nobody is told DATA_RECV by a request that is not its own.
LEMMA SnoopFillsNobody ==
    ASSUME NEW req \in BusRequest, NEW st \in SchemeStates
    PROVE  Snoop(req, st).ca # "DATA_RECV"
<1> USE DEF SchemeStates, Quiet, Drop, Reply, Received, AwaitFill, BusRequest, BusReply, Snoop
<1>1. CASE cs = "MI"
  BY <1>1 DEF SnoopMI
<1>2. CASE cs = "MSI"
  BY <1>2 DEF SnoopMSI
<1>3. CASE cs = "MESI"
  BY <1>3 DEF SnoopMESI
<1>4. CASE cs = "MOESI"
  BY <1>4 DEF SnoopMOESI, SnoopMESI
<1>5. CASE cs = "MESIF"
  BY <1>5 DEF SnoopMESIF, SnoopMESI
<1> QED
  BY <1>1, <1>2, <1>3, <1>4, <1>5, SchemeAssumption DEF Scheme

\* A waiting line that is delivered is announced with DATA_RECV.
LEMMA DeliveryFillsWaiter ==
    ASSUME NEW req \in BusReply, NEW st \in SchemeStates, st \in Transient
    PROVE  Snoop(req, st).ca = "DATA_RECV"
<1> USE DEF SchemeStates, Quiet, Drop, Reply, Received, AwaitFill, BusRequest, BusReply,
            Transient, ReadTransient, WriteTransient, Snoop
<1>1. CASE cs = "MI"
  BY <1>1 DEF SnoopMI
<1>2. CASE cs = "MSI"
  BY <1>2 DEF SnoopMSI
<1>3. CASE cs = "MESI"
  BY <1>3 DEF SnoopMESI
<1>4. CASE cs = "MOESI"
  BY <1>4 DEF SnoopMOESI, SnoopMESI
<1>5. CASE cs = "MESIF"
  BY <1>5 DEF SnoopMESIF, SnoopMESI
<1> QED
  BY <1>1, <1>2, <1>3, <1>4, <1>5, SchemeAssumption DEF Scheme

LEMMA NoSnoopFills == BusInv /\ SnoopEnabled => SnoopFills = {}
<1> SUFFICES ASSUME BusInv, SnoopEnabled, NEW q \in Snoopers
             PROVE  Reaction(q, pendingRequest.brt).ca # "DATA_RECV"
  BY DEF SnoopFills
<1>1. pendingRequest.brt \in BusRequest /\ pendingRequest.addr \in Addr
  BY SnoopContext DEF PendingReq
<1>2. coherStates[q][pendingRequest.addr] \in SchemeStates
  BY <1>1 DEF BusInv, StatesInv, Snoopers
<1> QED
  BY <1>1, <1>2, SnoopFillsNobody DEF Reaction

LEMMA RequesterFills ==
    BusInv /\ RequestInv /\ DeliveryEnabled => DeliveryFills = {pendingRequest.procNum}
<1> SUFFICES ASSUME BusInv, RequestInv, DeliveryEnabled
             PROVE  Reaction(pendingRequest.procNum, Delivered).ca = "DATA_RECV"
  BY DEF DeliveryFills
<1>1. /\ pendingRequest.procNum \in Proc /\ pendingRequest.addr \in Addr
      /\ pendingRequest # NULL /\ Delivered \in BusReply
  BY DeliveryContext DEF PendingReq
<1> QED
  BY <1>1, DeliveryFillsWaiter DEF Reaction, BusInv, StatesInv, RequestInv, OnBusInv

\* Everything starts empty.
LEMMA AccessInvInit == SimInit => AccessInv
<1> SUFFICES ASSUME SimInit PROVE AccessInv
  OBVIOUS
<1>1. SimTypeOK
  <2>1. TypeOK
    BY BusInvInit, BusInvTypeOK DEF SimInit
  <2>2. /\ pendingMem \in [Proc -> BOOLEAN] /\ pendingBranch \in [Proc -> {0, 1}]
        /\ memOpTag \in [Proc -> 0 .. TraceLength] /\ i \in 0 .. processorCount
    BY ProcessorAssumption, TraceAssumption DEF SimInit
  <2> QED
    BY <2>1, <2>2 DEF SimInit, SimTypeOK, CacheInit, CacheTypeOK
<1>2. TagsInv
  BY TraceAssumption DEF SimInit, TagsInv
<1>3. OneRequestEach
  BY DEF SimInit, CacheInit, OneRequestEach, RequestsOf
<1>4. ParkedWhileLineWaits
  BY DEF SimInit, Init, CacheInit, ParkedWhileLineWaits, Parked, Transient, ReadTransient,
         WriteTransient
<1>5. ParkedOrReady
  BY DEF SimInit, CacheInit, ParkedOrReady
<1> QED
  BY <1>1, <1>2, <1>3, <1>4, <1>5 DEF AccessInv

\* The part of the types that coherence, bus and memory account for.
LEMMA TypeOKStep == BelowInv /\ [SimNext]_systemVars => TypeOK'
<1> SUFFICES ASSUME BelowInv, [SimNext]_systemVars PROVE TypeOK'
  OBVIOUS
<1>1. BusInv'
  BY SimStepIsStep, BusInvStep DEF BelowInv
<1> QED
  BY <1>1, SchemeStatesType DEF BusInv, StatesInv, TypeOK

\* What the tick below does to lines and accesses: nothing, except that a delivery
\* ends the wait of the requester's line and makes its access ready.
LEMMA TickBelowEffect ==
    ASSUME cs # "MSI", BelowInv, TickBelow
    PROVE  LET filled == IF DeliveryEnabled /\ Deliver
                         THEN Parked(pendingRequest.procNum, pendingRequest.addr)
                         ELSE {}
           IN /\ pendReq' = pendReq \ filled
              /\ readyReq' = readyReq \cup filled
              /\ \A p \in Proc, a \in Addr :
                   coherStates'[p][a] \in Transient <=>
                      /\ coherStates[p][a] \in Transient
                      /\ ~(Deliver /\ p = pendingRequest.procNum /\ a = pendingRequest.addr)
<1>1. coherStates \in [Proc -> [Addr -> SchemeStates]]
  BY DEF BelowInv, BusInv, StatesInv
<1>2. CASE (CountDown \/ Arbitrate \/ IdleTick) /\ UNCHANGED <<coherStates, cacheVars>>
  <2>1. ~Deliver
    BY <1>2 DEF Deliver, DeliveryEnabled, Expires, CountDown, Arbitrate, IdleTick
  <2> QED
    BY <1>2, <2>1 DEF cacheVars
<1>3. CASE SnoopBroadcast /\ CoherCallback(SnoopFills)
  <2>1. ~Deliver
    BY <1>3, SnoopContext
       DEF Deliver, DeliveryEnabled, SnoopBroadcast, SnoopEnabled, BelowInv
  <2>2. SnoopFills = {}
    BY <1>3, NoSnoopFills DEF BelowInv, SnoopBroadcast
  <2>3. pendReq' = pendReq /\ readyReq' = readyReq
    BY <1>3, <2>2 DEF CoherCallback
  <2>4. ASSUME NEW p \in Proc, NEW a \in Addr
        PROVE  coherStates'[p][a] \in Transient <=> coherStates[p][a] \in Transient
    <3>1. CASE p # pendingRequest.procNum /\ a = pendingRequest.addr
      <4>1. pendingRequest.brt \in BusRequest
        BY <1>3, SnoopContext DEF SnoopBroadcast, BelowInv
      <4>2. coherStates'[p][a] = Snoop(pendingRequest.brt, coherStates[p][a]).next
        BY <1>3, <3>1, SnoopShrinks DEF Reaction, BelowInv
      <4> QED
        BY <1>1, <4>1, <4>2, SnoopReaction, SnoopStartsNoWait
    <3>2. CASE ~(p # pendingRequest.procNum /\ a = pendingRequest.addr)
      BY <1>3, <3>2, SnoopShrinks DEF BelowInv
    <3> QED
      BY <3>1, <3>2
  <2> QED
    BY <2>1, <2>3, <2>4
<1>4. CASE Deliver /\ CoherCallback(DeliveryFills)
  <2> DEFINE r == pendingRequest.procNum
             c == pendingRequest.addr
  <2>1. DeliveryEnabled /\ DeliveryFills = {r}
    BY <1>4, RequesterFills DEF Deliver, BelowInv
  <2>2. pendReq' = pendReq \ Parked(r, c) /\ readyReq' = readyReq \cup Parked(r, c)
    BY <1>4, <2>1 DEF CoherCallback
  <2>3. \A p \in Proc, a \in Addr : p # r \/ a # c => coherStates'[p][a] = coherStates[p][a]
    BY <1>4, DeliveryEffect DEF BelowInv
  <2>4. coherStates'[r][c] \notin Transient
    BY <1>4, DeliveryEffect
       DEF BelowInv, Readable, Writable, Transient, ReadTransient, WriteTransient
  <2> QED
    BY <1>4, <2>1, <2>2, <2>3, <2>4
<1> QED
  BY <1>2, <1>3, <1>4 DEF TickBelow

LEMMA AccessInvBelow == cs # "MSI" /\ BelowInv /\ AccessInv /\ BelowTicks => AccessInv'
<1> SUFFICES ASSUME cs # "MSI", BelowInv, AccessInv, BelowTicks PROVE AccessInv'
  OBVIOUS
<1> DEFINE r == pendingRequest.procNum
           c == pendingRequest.addr
           filled == IF DeliveryEnabled /\ Deliver THEN Parked(r, c) ELSE {}
<1>1. TickBelow /\ UNCHANGED <<opsLeft, pendingMem, pendingBranch, memOpTag, i, progress>>
      /\ phase' = "callbacks"
  BY DEF BelowTicks, procVars
<1>2. /\ pendReq' = pendReq \ filled
      /\ readyReq' = readyReq \cup filled
      /\ filled \subseteq pendReq
  BY <1>1, TickBelowEffect DEF Parked
<1>3. SimTypeOK'
  <2>1. TypeOK'
    BY TypeOKStep DEF SimNext
  <2> QED
    BY <1>1, <1>2, <2>1 DEF AccessInv, SimTypeOK, CacheTypeOK
<1>4. TagsInv'
  BY <1>1 DEF AccessInv, TagsInv
<1>5. OneRequestEach'
  <2>1. \A p \in Proc : RequestsOf(p)' = RequestsOf(p)
    BY <1>2 DEF RequestsOf
  <2> QED
    BY <1>1, <2>1 DEF AccessInv, OneRequestEach
<1>6. ParkedWhileLineWaits'
  <2>1. ASSUME NEW p \in Proc, NEW a \in Addr
        PROVE  Parked(p, a)' # {} <=> coherStates'[p][a] \in Transient
    <3>1. Parked(p, a) # {} <=> coherStates[p][a] \in Transient
      BY DEF AccessInv, ParkedWhileLineWaits
    <3>2. coherStates'[p][a] \in Transient <=>
             coherStates[p][a] \in Transient /\ ~(Deliver /\ p = r /\ a = c)
      BY <1>1, TickBelowEffect
    <3>3. Parked(p, a)' = IF Deliver /\ p = r /\ a = c THEN {} ELSE Parked(p, a)
      BY <1>2 DEF Parked, Deliver
    <3> QED
      BY <3>1, <3>2, <3>3
  <2> QED
    BY <2>1 DEF ParkedWhileLineWaits
<1> QED
  BY <1>2, <1>3, <1>4, <1>5, <1>6 DEF AccessInv, ParkedOrReady

\* Every callback answers the one access its processor is blocked on.
LEMMA AccessInvCallbacks == BelowInv /\ AccessInv /\ Callbacks => AccessInv'
<1> SUFFICES ASSUME BelowInv, AccessInv, Callbacks PROVE AccessInv'
  OBVIOUS
<1>1. ASSUME NEW p \in Proc
      PROVE  /\ Completes(p) => pendingMem[p] /\ {r \in pendReq : r.processorNum = p} = {}
             /\ ~Completes(p) => {r \in readyReq : r.processorNum = p} = {}
  <2>1. CASE pendingMem[p]
    <3>1. PICK r \in RequestsOf(p) : RequestsOf(p) = {r} /\ r.tag = memOpTag[p]
      BY <2>1 DEF AccessInv, OneRequestEach
    <3>2. r.processorNum = p
      BY DEF RequestsOf
    <3>3. CASE r \in readyReq
      <4>1. Completes(p)
        BY <3>1, <3>2, <3>3 DEF Completes
      <4>2. r \notin pendReq
        BY <3>3 DEF AccessInv, ParkedOrReady
      <4> QED
        BY <2>1, <3>1, <4>1, <4>2 DEF RequestsOf
    <3>4. CASE r \notin readyReq
      BY <3>1, <3>4 DEF RequestsOf, Completes
    <3> QED
      BY <3>3, <3>4
  <2>2. CASE ~pendingMem[p]
    BY <2>2 DEF AccessInv, OneRequestEach, RequestsOf, Completes
  <2> QED
    BY <2>1, <2>2
<1>2. /\ memOpTag \in [Proc -> 0 .. TraceLength]
      /\ opsLeft \in [Proc -> 0 .. TraceLength]
      /\ pendingMem \in [Proc -> BOOLEAN]
  BY DEF AccessInv, SimTypeOK
<1>3. ASSUME NEW p \in Proc
      PROVE  /\ memOpTag'[p] = IF Completes(p) THEN memOpTag[p] + 1 ELSE memOpTag[p]
             /\ pendingMem'[p] = (pendingMem[p] /\ ~Completes(p))
             /\ opsLeft'[p] = opsLeft[p]
  BY DEF Callbacks
<1>4. TagsInv'
  <2> SUFFICES ASSUME NEW p \in Proc
               PROVE  memOpTag'[p] + opsLeft'[p] + (IF pendingMem'[p] THEN 1 ELSE 0)
                        <= TraceLength
    BY DEF TagsInv
  <2>1. memOpTag[p] + opsLeft[p] + (IF pendingMem[p] THEN 1 ELSE 0) <= TraceLength
    BY DEF AccessInv, TagsInv
  <2>2. CASE Completes(p)
    <3>1. pendingMem[p] /\ ~pendingMem'[p]
      BY <1>1, <1>3, <2>2
    <3>2. memOpTag'[p] = memOpTag[p] + 1 /\ opsLeft'[p] = opsLeft[p]
      BY <1>3, <2>2
    <3> QED
      BY <1>2, <2>1, <3>1, <3>2
  <2>3. CASE ~Completes(p)
    BY <1>3, <2>1, <2>3
  <2> QED
    BY <2>2, <2>3
<1>5. SimTypeOK'
  <2>1. TypeOK'
    BY TypeOKStep DEF SimNext
  <2>2. memOpTag' \in [Proc -> 0 .. TraceLength]
    <3>1. ASSUME NEW p \in Proc
          PROVE  (IF Completes(p) THEN memOpTag[p] + 1 ELSE memOpTag[p]) \in 0 .. TraceLength
      <4>1. memOpTag[p] + opsLeft[p] + (IF pendingMem[p] THEN 1 ELSE 0) <= TraceLength
        BY DEF AccessInv, TagsInv
      <4> QED
        BY <1>1, <1>2, <4>1, TraceAssumption
    <3> QED
      BY <3>1 DEF Callbacks
  <2>3. i' \in 0 .. processorCount /\ progress' \in BOOLEAN
    <3>1. 0 \in 0 .. processorCount
      BY ProcessorAssumption
    <3>2. i' = 0 /\ progress' \in BOOLEAN
      BY Zenon DEF Callbacks
    <3> QED
      BY <3>1, <3>2
  <2>5. pendingMem' \in [Proc -> BOOLEAN]
    <3>1. \A p \in Proc : (pendingMem[p] /\ ~Completes(p)) \in BOOLEAN
      OBVIOUS
    <3> QED
      BY <3>1 DEF Callbacks
  <2>4. /\ opsLeft' = opsLeft /\ pendingBranch' = pendingBranch
        /\ pendReq' = pendReq /\ readyReq' = {} /\ phase' = "issue"
    BY DEF Callbacks
  <2> QED
    BY <2>1, <2>2, <2>3, <2>4, <2>5 DEF AccessInv, SimTypeOK, CacheTypeOK
<1>6. OneRequestEach'
  <2> SUFFICES ASSUME NEW p \in Proc
               PROVE  IF pendingMem'[p]
                      THEN \E r \in RequestsOf(p)' :
                              RequestsOf(p)' = {r} /\ r.tag = memOpTag'[p]
                      ELSE RequestsOf(p)' = {}
    BY DEF OneRequestEach
  <2>1. RequestsOf(p)' = {r \in pendReq : r.processorNum = p}
    BY DEF RequestsOf, Callbacks
  <2>2. CASE Completes(p)
    BY <1>1, <1>3, <2>1, <2>2
  <2>3. CASE ~Completes(p)
    <3>1. RequestsOf(p)' = RequestsOf(p)
      BY <1>1, <2>1, <2>3 DEF RequestsOf
    <3>2. memOpTag'[p] = memOpTag[p] /\ pendingMem'[p] = pendingMem[p]
      BY <1>2, <1>3, <2>3
    <3> QED
      BY <3>1, <3>2 DEF AccessInv, OneRequestEach
  <2> QED
    BY <2>2, <2>3
<1>7. ParkedWhileLineWaits' /\ ParkedOrReady'
  BY DEF Callbacks, AccessInv, ParkedWhileLineWaits, ParkedOrReady, Parked, vars
<1> QED
  BY <1>4, <1>5, <1>6, <1>7 DEF AccessInv

\* A processor that is not blocked has no access in the cache, so the line it
\* asks for does not wait; it waits afterwards exactly if the access was parked.
LEMMA AccessInvIssue ==
    ASSUME BelowInv, AccessInv, NEW a \in Addr, NEW isRead \in BOOLEAN, IssueMemOp(a, isRead)
    PROVE  AccessInv'
<1> DEFINE request == [tag |-> memOpTag[i], addr |-> a, processorNum |-> i]
           st      == coherStates[i][a]
           answer  == Cache(isRead, st)
<1>1. /\ i \in Proc
      /\ ~pendingMem[i] /\ opsLeft[i] > 0
      /\ PermReq(i, a, isRead)
      /\ readyReq' = IF answer.permAvail THEN readyReq \cup {request} ELSE readyReq
      /\ pendReq' = IF answer.permAvail THEN pendReq ELSE pendReq \cup {request}
      /\ pendingMem' = [pendingMem EXCEPT ![i] = TRUE]
      /\ opsLeft' = [opsLeft EXCEPT ![i] = @ - 1]
      /\ UNCHANGED <<pendingBranch, memOpTag, phase>>
      /\ i' = i + 1 /\ i < processorCount /\ progress' = TRUE
  BY TurnProc DEF BelowInv, IssueMemOp, TakeOp, Ready, Turn, NextProcessor, MemoryRequest,
                  AccessInv, SimTypeOK
<1>2. /\ memOpTag \in [Proc -> 0 .. TraceLength]
      /\ opsLeft \in [Proc -> 0 .. TraceLength]
      /\ pendingMem \in [Proc -> BOOLEAN]
      /\ i \in 0 .. processorCount
      /\ coherStates \in [Proc -> [Addr -> SchemeStates]]
  BY DEF AccessInv, SimTypeOK, BelowInv, BusInv, StatesInv
<1>3. RequestsOf(i) = {}
  BY <1>1 DEF AccessInv, OneRequestEach
<1>4. st \notin Transient
  BY <1>1, <1>3 DEF AccessInv, ParkedWhileLineWaits, Parked, RequestsOf
<1>5. st \in SchemeStates
  BY <1>1, <1>2
<1>6. answer.next \in Transient <=> ~answer.permAvail
  BY <1>4, <1>5, HitOrAsk
<1>7. SimTypeOK'
  <2>1. TypeOK'
    BY TypeOKStep DEF SimNext
  <2>2. request \in CacheRequest
    BY <1>1, <1>2 DEF CacheRequest
  <2>3. opsLeft' \in [Proc -> 0 .. TraceLength]
    <3>1. opsLeft[i] - 1 \in 0 .. TraceLength
      BY <1>1, <1>2, TraceAssumption
    <3> QED
      BY <1>1, <1>2, <3>1
  <2>4. i' \in 0 .. processorCount
    BY <1>1, <1>2, ProcessorAssumption
  <2>5. pendingMem' \in [Proc -> BOOLEAN]
    BY <1>1, <1>2
  <2> QED
    BY <1>1, <2>1, <2>2, <2>3, <2>4, <2>5 DEF AccessInv, SimTypeOK, CacheTypeOK
<1>8. TagsInv'
  BY <1>1, <1>2 DEF AccessInv, TagsInv
<1>9. OneRequestEach'
  <2> SUFFICES ASSUME NEW p \in Proc
               PROVE  IF pendingMem'[p]
                      THEN \E r \in RequestsOf(p)' :
                              RequestsOf(p)' = {r} /\ r.tag = memOpTag'[p]
                      ELSE RequestsOf(p)' = {}
    BY DEF OneRequestEach
  <2>1. pendReq' \cup readyReq' = (pendReq \cup readyReq) \cup {request}
    BY <1>1
  <2>2. CASE p = i
    <3>1. RequestsOf(p)' = {request}
      BY <1>3, <2>1, <2>2 DEF RequestsOf
    <3> QED
      BY <1>1, <1>2, <2>2, <3>1
  <2>3. CASE p # i
    <3>1. RequestsOf(p)' = RequestsOf(p)
      BY <2>1, <2>3 DEF RequestsOf
    <3> QED
      BY <1>1, <1>2, <2>3, <3>1 DEF AccessInv, OneRequestEach
  <2> QED
    BY <2>2, <2>3
<1>10. ParkedWhileLineWaits'
  <2> SUFFICES ASSUME NEW p \in Proc, NEW b \in Addr
               PROVE  Parked(p, b)' # {} <=> coherStates'[p][b] \in Transient
    BY DEF ParkedWhileLineWaits
  <2>1. coherStates' = [coherStates EXCEPT ![i][a] = answer.next]
    BY <1>1 DEF PermReq
  <2>2. CASE p = i /\ b = a
    <3>1. coherStates'[p][b] = answer.next
      BY <1>1, <1>2, <2>1, <2>2
    <3>2. Parked(p, b)' = IF answer.permAvail THEN {} ELSE {request}
      BY <1>1, <1>3, <2>2 DEF Parked, RequestsOf
    <3> QED
      BY <1>6, <3>1, <3>2
  <2>3. CASE ~(p = i /\ b = a)
    <3>1. coherStates'[p][b] = coherStates[p][b]
      BY <1>1, <1>2, <2>1, <2>3
    <3>2. Parked(p, b)' = Parked(p, b)
      BY <1>1, <2>3 DEF Parked
    <3> QED
      BY <3>1, <3>2 DEF AccessInv, ParkedWhileLineWaits
  <2> QED
    BY <2>2, <2>3
<1>11. ParkedOrReady'
  <2>1. request \notin pendReq /\ request \notin readyReq
    BY <1>3 DEF RequestsOf
  <2> QED
    BY <1>1, <2>1 DEF AccessInv, ParkedOrReady
<1> QED
  BY <1>7, <1>8, <1>9, <1>10, <1>11 DEF AccessInv

\* The steps of a processor that does not touch memory.
LEMMA AccessInvOther ==
    ASSUME BelowInv, AccessInv,
           \/ WaitOnMemory \/ WaitOnBranch \/ TraceEnded
           \/ \E mispredicted \in BOOLEAN : IssueBranch(mispredicted)
           \/ IssueALU \/ EndOfTick
    PROVE  AccessInv'
<1>1. /\ UNCHANGED <<vars, pendReq, readyReq, pendingMem, memOpTag>>
      /\ phase' \in {"below", "done", "issue"}
      /\ i' \in 0 .. processorCount
      /\ progress' \in BOOLEAN
  <2>1. phase \in {"below", "callbacks", "issue", "done"} /\ progress \in BOOLEAN
        /\ i \in 0 .. processorCount
    BY DEF AccessInv, SimTypeOK
  <2>2. CASE EndOfTick
    BY <2>1, <2>2 DEF EndOfTick, cacheVars, procVars
  <2>3. CASE ~EndOfTick
    <3>1. /\ UNCHANGED <<vars, pendReq, readyReq, pendingMem, memOpTag>>
          /\ Turn
          /\ \E busy \in BOOLEAN : NextProcessor(busy)
      BY <2>3 DEF WaitOnMemory, WaitOnBranch, TraceEnded, IssueBranch, IssueALU, TakeOp,
                  Ready, cacheVars, procVars
    <3> QED
      BY <2>1, <3>1, ProcessorAssumption DEF Turn, NextProcessor
  <2> QED
    BY <2>2, <2>3
<1>2. /\ opsLeft \in [Proc -> 0 .. TraceLength] /\ pendingBranch \in [Proc -> {0, 1}]
      /\ memOpTag \in [Proc -> 0 .. TraceLength]
  BY DEF AccessInv, SimTypeOK
<1>3. opsLeft' = opsLeft \/ (i \in Proc /\ opsLeft[i] > 0 /\ opsLeft' = [opsLeft EXCEPT ![i] = @ - 1])
  BY TurnProc
     DEF BelowInv, WaitOnMemory, WaitOnBranch, TraceEnded, IssueBranch, IssueALU, EndOfTick,
         TakeOp, Ready, procVars
<1>4. pendingBranch' \in [Proc -> {0, 1}]
  <2>1. CASE WaitOnBranch
    <3>1. i \in Proc /\ pendingBranch[i] > 0 /\ pendingBranch' = [pendingBranch EXCEPT ![i] = @ - 1]
      BY <2>1, TurnProc DEF BelowInv, WaitOnBranch
    <3> QED
      BY <1>2, <3>1
  <2>2. CASE \E mispredicted \in BOOLEAN : IssueBranch(mispredicted)
    BY <1>2, <2>2 DEF IssueBranch
  <2>3. CASE pendingBranch' = pendingBranch
    BY <1>2, <2>3
  <2> QED
    BY <2>1, <2>2, <2>3
       DEF WaitOnMemory, TraceEnded, IssueALU, EndOfTick, procVars
<1>5. opsLeft' \in [Proc -> 0 .. TraceLength] /\ TagsInv'
  <2>1. opsLeft' \in [Proc -> 0 .. TraceLength]
    <3>1. i \in Proc /\ opsLeft[i] > 0 => opsLeft[i] - 1 \in 0 .. TraceLength
      BY <1>2, TraceAssumption
    <3> QED
      BY <1>2, <1>3, <3>1
  <2>2. \A p \in Proc : opsLeft'[p] <= opsLeft[p]
    BY <1>2, <1>3
  <2>3. TagsInv'
    BY <1>1, <1>2, <2>1, <2>2, TraceAssumption DEF AccessInv, TagsInv
  <2> QED
    BY <2>1, <2>3
<1>6. TypeOK'
  BY TypeOKStep DEF SimNext
<1>7. SimTypeOK'
  BY <1>1, <1>4, <1>5, <1>6 DEF AccessInv, SimTypeOK, CacheTypeOK
<1>8. OneRequestEach' /\ ParkedWhileLineWaits' /\ ParkedOrReady'
  BY <1>1 DEF AccessInv, OneRequestEach, ParkedWhileLineWaits, ParkedOrReady, RequestsOf,
              Parked, vars
<1> QED
  BY <1>5, <1>7, <1>8 DEF AccessInv

LEMMA AccessInvStep ==
    cs # "MSI" /\ BelowInv /\ AccessInv /\ [SimNext]_systemVars => AccessInv'
<1> SUFFICES ASSUME cs # "MSI", BelowInv, AccessInv, [SimNext]_systemVars PROVE AccessInv'
  OBVIOUS
<1>1. CASE UNCHANGED systemVars
  <2>1. /\ UNCHANGED <<coherStates, pendReq, readyReq, opsLeft, pendingMem, pendingBranch>>
        /\ UNCHANGED <<memOpTag, phase, i, progress>>
    BY <1>1 DEF systemVars, vars, cacheVars, procVars, loopVars
  <2>2. TypeOK'
    BY TypeOKStep
  <2>3. SimTypeOK'
    BY <2>1, <2>2 DEF AccessInv, SimTypeOK, CacheTypeOK
  <2>4. TagsInv' /\ ParkedOrReady'
    BY <2>1 DEF AccessInv, TagsInv, ParkedOrReady
  <2>5. OneRequestEach' /\ ParkedWhileLineWaits'
    BY <2>1 DEF AccessInv, OneRequestEach, ParkedWhileLineWaits, RequestsOf, Parked
  <2> QED
    BY <2>3, <2>4, <2>5 DEF AccessInv
<1> QED
  BY <1>1, AccessInvBelow, AccessInvCallbacks, AccessInvIssue, AccessInvOther DEF SimNext

LEMMA AccessInvHolds ==
    ASSUME cs # "MSI" PROVE SimSpec => [](BelowInv /\ AccessInv)
<1>1. SimSpec => []BelowInv
  BY SimBelowHolds, SimulatorDrivesCoherence, RequestInvHolds, PTL DEF BelowInv
<1>2. BelowInv /\ AccessInv /\ [SimNext]_systemVars => AccessInv'
  BY AccessInvStep
<1> QED
  BY <1>1, <1>2, AccessInvInit, PTL DEF SimSpec

-----------------------------------------------------------------------------
\* Counters, tags and lists have their types; in particular a tag never passes the
\* length of the trace. (MSI is left out of this and the next three theorems: a line
\* of it may wait that no access asked for.)
THEOREM SimulatorTypeCorrect == ASSUME cs # "MSI" PROVE SimSpec => []SimTypeOK
<1>1. AccessInv => SimTypeOK
  BY DEF AccessInv
<1> QED
  BY <1>1, AccessInvHolds, PTL

\* A processor is blocked exactly while the cache holds one access of it, under the
\* tag it expects, however accesses, snoops and deliveries of all processors fall
\* together: memOpCallback is called once for each access.
THEOREM AccessesCalledBackOnce == ASSUME cs # "MSI" PROVE SimSpec => []OneRequestEach
<1>1. AccessInv => OneRequestEach
  BY DEF AccessInv
<1> QED
  BY <1>1, AccessInvHolds, PTL

\* The cache's list of parked accesses and coherence's table of states, which no code
\* compares, always name the same lines.
THEOREM ParkedExactlyWhileWaiting == ASSUME cs # "MSI" PROVE SimSpec => []ParkedWhileLineWaits
<1>1. AccessInv => ParkedWhileLineWaits
  BY DEF AccessInv
<1> QED
  BY <1>1, AccessInvHolds, PTL

\* The assertions of coherCallback (simpleCache/cache.c) never fail.
THEOREM CallbacksFindTheirAccess == ASSUME cs # "MSI" PROVE SimSpec => []CallbackAssertionsHold
<1>1. BelowInv /\ AccessInv => CallbackAssertionsHold
  <2> SUFFICES ASSUME BelowInv, AccessInv PROVE CallbackAssertionsHold
    OBVIOUS
  \* The request on the bus is somebody's parked access.
  <2>1. ASSUME pendingRequest # NULL, pendingRequest.procNum \in Proc, pendingRequest.addr \in Addr
        PROVE  Parked(pendingRequest.procNum, pendingRequest.addr) # {}
    BY <2>1 DEF BelowInv, RequestInv, OnBusInv, AccessInv, ParkedWhileLineWaits
  <2>2. SnoopEnabled => pendReq # {} /\ SnoopFills = {}
    BY <2>1, SnoopContext, NoSnoopFills DEF BelowInv, Parked, PendingReq
  <2>3. DeliveryEnabled =>
          /\ pendReq # {}
          /\ \A q \in DeliveryFills : Parked(q, pendingRequest.addr) # {}
    BY <2>1, DeliveryContext, RequesterFills DEF BelowInv, Parked, PendingReq
  <2> QED
    BY <2>2, <2>3 DEF CallbackAssertionsHold
<1> QED
  BY <1>1, AccessInvHolds, PTL

-----------------------------------------------------------------------------
(* The end of the simulation.                                              *)

\* Processor p has nothing more to do.
Finished(p) == opsLeft[p] = 0 /\ ~pendingMem[p]

\* As long as a pass has found no processor busy, the ones it has been through are
\* finished; when the loop has stopped, all are.
QuietInv ==
    /\ phase = "issue" /\ ~progress => \A p \in 0 .. i - 1 : Finished(p)
    /\ phase = "done" => \A p \in Proc : Finished(p)

LEMMA QuietInvStep ==
    LoopInv /\ AccessInv /\ QuietInv /\ [SimNext]_systemVars => QuietInv'
<1> SUFFICES ASSUME LoopInv, AccessInv, QuietInv, [SimNext]_systemVars PROVE QuietInv'
  OBVIOUS
<1>1. i \in 0 .. processorCount /\ progress \in BOOLEAN
  BY DEF AccessInv, SimTypeOK
<1>2. CASE UNCHANGED systemVars
  BY <1>2 DEF systemVars, procVars, loopVars, QuietInv, Finished
<1>3. CASE BelowTicks \/ Callbacks
  BY <1>3, ProcessorAssumption DEF BelowTicks, Callbacks, QuietInv
<1>4. CASE \/ WaitOnMemory \/ WaitOnBranch \/ IssueALU
           \/ \E a \in Addr, isRead \in BOOLEAN : IssueMemOp(a, isRead)
           \/ \E mispredicted \in BOOLEAN : IssueBranch(mispredicted)
  <2>1. phase' = "issue" /\ progress'
    BY <1>4 DEF WaitOnMemory, WaitOnBranch, IssueALU, IssueMemOp, IssueBranch, TakeOp, Ready,
                Turn, NextProcessor
  <2> QED
    BY <2>1 DEF QuietInv
<1>5. CASE TraceEnded
  <2>1. /\ phase = "issue" /\ phase' = "issue" /\ i' = i + 1
        /\ progress' <=> progress
        /\ Finished(i)
        /\ UNCHANGED <<opsLeft, pendingMem>>
    BY <1>5 DEF TraceEnded, Ready, Turn, NextProcessor, Finished, procVars
  <2>2. \A p \in 0 .. i' - 1 : p = i \/ p \in 0 .. i - 1
    BY <1>1, <2>1
  <2> QED
    BY <2>1, <2>2 DEF QuietInv, Finished
<1>6. CASE EndOfTick
  <2>1. /\ phase = "issue" /\ i = processorCount
        /\ phase' = IF progress THEN "below" ELSE "done"
        /\ UNCHANGED <<opsLeft, pendingMem>>
    BY <1>6 DEF EndOfTick, procVars
  <2> QED
    BY <2>1 DEF QuietInv, Finished, Proc
<1> QED
  BY <1>2, <1>3, <1>4, <1>5, <1>6 DEF SimNext

\* When nobody is blocked nothing is under way in cache, queues, bus or memory.
LEMMA NobodyBlocked ==
    BelowInv /\ AccessInv /\ (\A p \in Proc : Finished(p)) => NothingLeft
<1> SUFFICES ASSUME BelowInv, AccessInv, \A p \in Proc : Finished(p) PROVE NothingLeft
  OBVIOUS
<1>1. pendReq = {} /\ readyReq = {}
  <2>1. \A r \in pendReq \cup readyReq : r.processorNum \in Proc
    BY DEF AccessInv, SimTypeOK, CacheTypeOK, CacheRequest
  <2>2. \A p \in Proc : RequestsOf(p) = {}
    BY DEF AccessInv, OneRequestEach, Finished
  <2> QED
    BY <2>1, <2>2 DEF RequestsOf
<1>2. \A p \in Proc, a \in Addr : coherStates[p][a] \notin Transient
  BY <1>1 DEF AccessInv, ParkedWhileLineWaits, Parked
<1>3. pendingRequest = NULL
  <2> SUFFICES ASSUME pendingRequest # NULL PROVE FALSE
    OBVIOUS
  <2>1. pendingRequest.procNum \in Proc /\ pendingRequest.addr \in Addr
    BY DEF BelowInv, BusInv, BusTypeOK, PendingReq
  <2> QED
    BY <1>2, <2>1 DEF BelowInv, RequestInv, OnBusInv
<1>4. ASSUME NEW p \in Proc PROVE queuedRequests[p] = <<>>
  <2> SUFFICES ASSUME queuedRequests[p] # <<>> PROVE FALSE
    OBVIOUS
  <2>1. queuedRequests[p] \in Seq(QueuedReq)
    BY DEF BelowInv, BusInv, BusTypeOK
  <2>2. 1 \in 1 .. Len(queuedRequests[p])
    BY <2>1
  <2>3. queuedRequests[p][1].addr \in Addr
    BY <2>2, QueueEntryType DEF BelowInv, QueuedReq
  <2>4. coherStates[p][queuedRequests[p][1].addr] \in Transient
    BY <2>2, AwaitingTransient DEF BelowInv, RequestInv, QueueInv
  <2> QED
    BY <1>2, <2>3, <2>4
<1>5. memRequest = NULL
  BY <1>3 DEF BelowInv, BusInv, MemoryServesBus
<1> QED
  BY <1>1, <1>3, <1>4, <1>5 DEF NothingLeft, Finished

\* The part of EndsQuietly that is not liveness: the engine's loop stops only when
\* every trace is used up and every access answered, for all processors and not
\* only for the last one of the pass.
THEOREM StopsOnlyWhenDone ==
    ASSUME cs # "MSI" PROVE SimSpec => [](phase = "done" => NothingLeft)
<1>1. SimInit => QuietInv
  BY DEF SimInit, QuietInv
<1>2. SimSpec => []QuietInv
  <2>1. BelowInv => LoopInv
    BY DEF BelowInv
  <2> QED
    BY <1>1, <2>1, QuietInvStep, AccessInvHolds, PTL DEF SimSpec
<1>3. BelowInv /\ AccessInv /\ QuietInv => (phase = "done" => NothingLeft)
  BY NobodyBlocked DEF QuietInv
<1> QED
  BY <1>2, <1>3, AccessInvHolds, PTL

\* The theorems of CoherenceProof hold in the simulator. The ones on owners and
\* assertions, for all schemes:
THEOREM SimulatorIsCoherent == SimSpec => [](SingleOwner /\ AssertionsHold)
  BY SimulatorDrivesCoherence, SingleOwnerHolds, NoAssertionFails, PTL

=============================================================================
