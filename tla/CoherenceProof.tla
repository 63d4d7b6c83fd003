--------------------------- MODULE CoherenceProof ---------------------------
(***************************************************************************)
(* Proofs about Coherence for any number of processors and lines and any   *)
(* delays. They go in three layers, each of which may use those before it: *)
(*                                                                         *)
(*   BusInv      types; the memory works in step with the request on the    *)
(*               bus (all five schemes)                                    *)
(*   RequestInv  every request answers a wait, and only one (all schemes)  *)
(*   RightsInv   after a snoop nobody holds a right the requester's answer  *)
(*               excludes; hence single writer (MI, MSI and MESI)          *)
(*   OwnerInv    after a snoop nobody else answers for the line, except an  *)
(*               OWNED copy whose reader is told to share; hence single    *)
(*               owner, and no assertion fails (all schemes)               *)
(***************************************************************************)
EXTENDS Coherence, FiniteSetTheorems, TLAPS

\* The states the scheme of this instance knows.
SchemeStates ==
    CASE cs = "MI"   -> {"INVALID", "MODIFIED", "INVALID_MODIFIED"}
      [] cs = "MSI"  -> {"INVALID", "MODIFIED", "SHARED_STATE", "INVALID_MODIFIED",
                         "INVALID_SHARED", "SHARED_MODIFIED"}
      [] cs = "MESI" -> {"INVALID", "MODIFIED", "EXCLUSIVE", "SHARED_STATE",
                         "INVALID_MODIFIED", "INVALID_READ", "SHARED_MODIFIED"}
      [] cs = "MOESI" -> {"INVALID", "MODIFIED", "EXCLUSIVE", "SHARED_STATE", "OWNED",
                         "INVALID_MODIFIED", "INVALID_READ", "SHARED_MODIFIED",
                         "OWNED_MODIFIED"}
      [] cs = "MESIF" -> {"INVALID", "MODIFIED", "EXCLUSIVE", "SHARED_STATE", "FORWARD",
                         "INVALID_MODIFIED", "INVALID_READ", "SHARED_MODIFIED",
                         "FORWARD_MODIFIED"}

\* The schemes that keep a single writer.
SoundScheme == {"MI", "MSI", "MESI"}

\* The states that answer for a line.
Owner == Writable \cup {"OWNED", "FORWARD"}

\* The states in which a processor waits for the answer to a request.
Awaiting(brt) == IF brt = "BUSWR" THEN WriteTransient ELSE ReadTransient

-----------------------------------------------------------------------------
(* Lemmas about the tables.                                                *)

LEMMA SchemeStatesType == SchemeStates \subseteq CoherenceState /\ "INVALID" \in SchemeStates
  BY SchemeAssumption DEF SchemeStates, Scheme, CoherenceState, Readable, Writable,
     Transient, ReadTransient, WriteTransient

\* The answer to the local cache: a hit leaves the state alone or turns a clean
\* exclusive line dirty; a miss is asked for once, from a state that does not wait.
LEMMA CacheAnswer ==
    ASSUME NEW isRead \in BOOLEAN, NEW st \in SchemeStates
    PROVE  LET answer == Cache(isRead, st)
           IN /\ answer.next \in SchemeStates
              /\ answer.send \in {"NO_REQ"} \cup BusRequest
              /\ answer.send = "NO_REQ" =>
                   \/ answer.next = st
                   \/ st = "EXCLUSIVE" /\ answer.next = "MODIFIED"
              /\ answer.send # "NO_REQ" =>
                   st \notin Transient /\ answer.next \in Awaiting(answer.send)
<1> USE DEF SchemeStates, Awaiting, Granted, Waiting, Asking, BusRequest,
            Transient, ReadTransient, WriteTransient, Cache
<1>1. CASE cs = "MI"
  BY <1>1 DEF CacheMI
<1>2. CASE cs = "MSI"
  BY <1>2 DEF CacheMSI, CacheCommon
<1>3. CASE cs = "MESI"
  BY <1>3 DEF CacheMESI, CacheCommon
<1>4. CASE cs = "MOESI"
  BY <1>4 DEF CacheMOESI, CacheMESI, CacheCommon
<1>5. CASE cs = "MESIF"
  BY <1>5 DEF CacheMESIF, CacheMESI, CacheCommon
<1> QED
  BY <1>1, <1>2, <1>3, <1>4, <1>5, SchemeAssumption DEF Scheme

\* A snooped request: waiting lines do not notice, nobody keeps a right to
\* write, nobody keeps any right under a BUSWR, and rights only get weaker.
LEMMA SnoopReaction ==
    ASSUME NEW req \in BusRequest, NEW st \in SchemeStates
    PROVE  LET reaction == Snoop(req, st)
           IN /\ reaction.next \in SchemeStates
              /\ reaction.sends \subseteq BusReply
              /\ st \in Transient => reaction.next = st /\ reaction.sends = {}
              /\ reaction.next \notin Writable
              /\ req = "BUSWR" => reaction.next \notin Readable
              /\ reaction.next \in Readable => st \in Readable
<1> USE DEF SchemeStates, Quiet, Drop, Reply, Received, AwaitFill, BusRequest, BusReply,
            Transient, ReadTransient, WriteTransient, Readable, Writable, Snoop
<1>1. CASE cs = "MI"
  BY <1>1 DEF SnoopMI
<1>2. CASE cs = "MSI"
  BY <1>2 DEF SnoopMSI
<1>3. CASE cs = "MESI"
  BY <1>3 DEF SnoopMESI
<1>4. CASE cs = "MOESI"
  BY <1>4 DEF SnoopMOESI, SnoopMESI
<1>5. CASE cs = "MESIF"
  BY <1>5, ZenonT(40) DEF SnoopMESIF, SnoopMESI
<1> QED
  BY <1>1, <1>2, <1>3, <1>4, <1>5, SchemeAssumption DEF Scheme

\* In a sound scheme whoever keeps a right under a BUSRD says so, and only a
\* holder of the right to write supplies the line.
LEMMA SoundReaction ==
    ASSUME cs \in SoundScheme, NEW req \in BusRequest, NEW st \in SchemeStates
    PROVE  LET reaction == Snoop(req, st)
           IN /\ reaction.next \in Readable => "SHARED" \in reaction.sends
              /\ "DATA" \in reaction.sends => st \in Writable
<1> USE DEF SchemeStates, Quiet, Drop, Reply, Received, AwaitFill, BusRequest, BusReply,
            Readable, Writable, Snoop
<1>1. CASE cs = "MI"
  BY <1>1 DEF SnoopMI
<1>2. CASE cs = "MSI"
  BY <1>2 DEF SnoopMSI
<1>3. CASE cs = "MESI"
  BY <1>3 DEF SnoopMESI
<1> QED
  BY <1>1, <1>2, <1>3 DEF SoundScheme

\* A delivery ends the wait, with the right to write unless it answers a read
\* and the line is shared, and makes nobody reply.
LEMMA DeliveryReaction ==
    ASSUME NEW req \in BusReply, NEW st \in SchemeStates, st \in Transient
    PROVE  LET reaction == Snoop(req, st)
           IN /\ reaction.next \in SchemeStates
              /\ reaction.sends = {}
              /\ reaction.next \in Readable
              /\ req = "SHARED" /\ st \in ReadTransient => reaction.next \notin Writable
<1> USE DEF SchemeStates, Quiet, Drop, Reply, Received, AwaitFill, BusRequest, BusReply,
            Transient, ReadTransient, WriteTransient, Readable, Writable, Snoop
<1>1. CASE cs = "MI"
  BY <1>1 DEF SnoopMI
<1>2. CASE cs = "MSI"
  BY <1>2 DEF SnoopMSI
<1>3. CASE cs = "MESI"
  BY <1>3 DEF SnoopMESI
<1>4. CASE cs = "MOESI"
  BY <1>4 DEF SnoopMOESI, SnoopMESI
<1>5. CASE cs = "MESIF"
  BY <1>5 DEF SnoopMESIF, SnoopMESI
<1> QED
  BY <1>1, <1>2, <1>3, <1>4, <1>5, SchemeAssumption DEF Scheme


\* No message takes a line out of the scheme.
LEMMA SnoopClosed ==
    ASSUME NEW req \in BusRequest \cup BusReply, NEW st \in SchemeStates
    PROVE  Snoop(req, st).next \in SchemeStates
<1>1. CASE req \in BusRequest
  BY <1>1, SnoopReaction
<1>2. CASE req \in BusReply
  <2> USE <1>2 DEF SchemeStates, Quiet, Drop, Reply, Received, AwaitFill, BusRequest,
                   BusReply, Snoop
  <2>1. CASE cs = "MI"
    BY <2>1 DEF SnoopMI
  <2>2. CASE cs = "MSI"
    BY <2>2 DEF SnoopMSI
  <2>3. CASE cs = "MESI"
    BY <2>3 DEF SnoopMESI
  <2>4. CASE cs = "MOESI"
    BY <2>4 DEF SnoopMOESI, SnoopMESI
  <2>5. CASE cs = "MESIF"
    BY <2>5 DEF SnoopMESIF, SnoopMESI
  <2> QED
    BY <2>1, <2>2, <2>3, <2>4, <2>5, SchemeAssumption DEF Scheme
<1> QED
  BY <1>1, <1>2

\* An access either goes ahead, and its line does not wait, or it starts to wait
\* and asks the bus, unless its line waits already.
LEMMA HitOrAsk ==
    ASSUME NEW isRead \in BOOLEAN, NEW st \in SchemeStates
    PROVE  LET answer == Cache(isRead, st)
           IN /\ answer.permAvail => answer.send = "NO_REQ" /\ answer.next \notin Transient
              /\ ~answer.permAvail /\ st \notin Transient =>
                   answer.next \in Transient /\ answer.send # "NO_REQ"
<1> USE DEF SchemeStates, Awaiting, Granted, Waiting, Asking, BusRequest,
            Transient, ReadTransient, WriteTransient, Cache
<1>1. CASE cs = "MI"
  BY <1>1 DEF CacheMI
<1>2. CASE cs = "MSI"
  BY <1>2 DEF CacheMSI, CacheCommon
<1>3. CASE cs = "MESI"
  BY <1>3 DEF CacheMESI, CacheCommon
<1>4. CASE cs = "MOESI"
  BY <1>4 DEF CacheMOESI, CacheMESI, CacheCommon
<1>5. CASE cs = "MESIF"
  BY <1>5 DEF CacheMESIF, CacheMESI, CacheCommon
<1> QED
  BY <1>1, <1>2, <1>3, <1>4, <1>5, SchemeAssumption DEF Scheme

\* In every scheme only an owner supplies a line, and a snoop makes no owner; the
\* one that stays an owner says that it shares the line.
LEMMA OwnerReaction ==
    ASSUME NEW req \in BusRequest, NEW st \in SchemeStates
    PROVE  LET reaction == Snoop(req, st)
           IN /\ "DATA" \in reaction.sends => st \in Owner
              /\ reaction.next \in Owner =>
                   /\ st \in Owner
                   /\ cs = "MOESI"
                   /\ req = "BUSRD"
                   /\ "SHARED" \in reaction.sends
<1> USE DEF SchemeStates, Quiet, Drop, Reply, Received, AwaitFill, BusRequest, BusReply,
            Owner, Writable, Snoop
<1>1. CASE cs = "MI"
  BY <1>1 DEF SnoopMI
<1>2. CASE cs = "MSI"
  BY <1>2 DEF SnoopMSI
<1>3. CASE cs = "MESI"
  BY <1>3 DEF SnoopMESI
<1>4. CASE cs = "MOESI"
  BY <1>4 DEF SnoopMOESI, SnoopMESI
<1>5. CASE cs = "MESIF"
  BY <1>5 DEF SnoopMESIF, SnoopMESI
<1> QED
  BY <1>1, <1>2, <1>3, <1>4, <1>5, SchemeAssumption DEF Scheme

\* MOESI never answers a read of a shared line with an owner's state.
LEMMA SharedAnswer ==
    ASSUME cs = "MOESI", NEW st \in SchemeStates, st \in ReadTransient
    PROVE  Snoop("SHARED", st).next \notin Owner
  BY DEF SchemeStates, Quiet, Drop, Reply, Received, AwaitFill, BusRequest, BusReply,
         ReadTransient, Owner, Writable, Snoop, SnoopMOESI, SnoopMESI

\* MESI, MOESI and MESIF leave a readable line readable under a BUSRD.
LEMMA ReadKeepsRights ==
    ASSUME cs \in {"MESI", "MOESI", "MESIF"}, NEW st \in SchemeStates, st \in Readable
    PROVE  Snoop("BUSRD", st).next \in Readable
<1> USE DEF SchemeStates, Quiet, Drop, Reply, Received, AwaitFill, BusRequest, BusReply,
            Readable, Writable, Snoop
<1>3. CASE cs = "MESI"
  BY <1>3 DEF SnoopMESI
<1>4. CASE cs = "MOESI"
  BY <1>4 DEF SnoopMOESI, SnoopMESI
<1>5. CASE cs = "MESIF"
  BY <1>5 DEF SnoopMESIF, SnoopMESI
<1> QED
  BY <1>3, <1>4, <1>5

\* MI has no reads.
LEMMA MIWritesOnly == cs = "MI" => SchemeStates \cap ReadTransient = {}
  BY DEF SchemeStates, ReadTransient

-----------------------------------------------------------------------------
(* First layer: the bus.                                                   *)

StatesInv == coherStates \in [Proc -> [Addr -> SchemeStates]]

TransferInv ==
    pendingRequest # NULL =>
        (pendingRequest.brt = "DATA" <=> pendingRequest.currentState = "TRANSFERING_CACHE")

BusInv ==
    /\ MemTypeOK
    /\ BusTypeOK
    /\ StatesInv
    /\ TransferInv
    /\ MemoryServesBus

LEMMA BusInvTypeOK == BusInv => TypeOK
<1> SUFFICES ASSUME BusInv PROVE coherStates \in [Proc -> [Addr -> CoherenceState]]
  BY DEF BusInv, TypeOK
<1> QED
  BY SchemeStatesType DEF BusInv, StatesInv

LEMMA BusInvInit == Init => BusInv
<1> SUFFICES ASSUME Init PROVE BusInv
  OBVIOUS
<1>1. MemTypeOK
  BY DramAssumption DEF Init, MemInit, MemTypeOK
<1>2. BusTypeOK
  BY DramAssumption, DelayAssumption, TransferAssumption, ProcessorAssumption
     DEF Init, BusInit, BusTypeOK, LongestDelay, Proc
<1>3. StatesInv
  BY SchemeStatesType DEF Init, StatesInv
<1>4. TransferInv /\ MemoryServesBus
  BY DEF Init, BusInit, MemInit, TransferInv, MemoryServesBus
<1> QED
  BY <1>1, <1>2, <1>3, <1>4 DEF BusInv

\* A request that takes the bus is a request, and not NULL.
LEMMA AdmittedType ==
    ASSUME NEW brt \in BusRequest, NEW a \in Addr, NEW p \in Proc
    PROVE  /\ Admitted(brt, a, p) \in PendingReq
           /\ Admitted(brt, a, p) # NULL
           /\ Admitted(brt, a, p).brt # "DATA"
<1>1. Admitted(brt, a, p) \in PendingReq
  BY DEF Admitted, PendingReq
<1>2. Admitted(brt, a, p).brt # "DATA"
  BY DEF Admitted, BusRequest
<1> QED
  BY <1>1, <1>2, NoPendingAssumption

LEMMA BusInvPermReq ==
    ASSUME BusInv, NEW p \in Proc, NEW a \in Addr, NEW isRead \in BOOLEAN,
           PermReq(p, a, isRead)
    PROVE  BusInv'
<1> DEFINE answer == Cache(isRead, coherStates[p][a])
<1>1. coherStates[p][a] \in SchemeStates
  BY DEF BusInv, StatesInv
<1>2. answer.next \in SchemeStates /\ answer.send \in {"NO_REQ"} \cup BusRequest
  BY <1>1, CacheAnswer
<1>3. StatesInv'
  BY <1>2 DEF PermReq, BusInv, StatesInv
<1>4. UNCHANGED memVars
  BY DEF PermReq
<1>5. CASE answer.send = "NO_REQ"
  <2>1. UNCHANGED busVars
    BY <1>5 DEF PermReq
  <2> QED
    BY <1>3, <1>4, <2>1 DEF BusInv, MemTypeOK, BusTypeOK, TransferInv, MemoryServesBus,
       memVars, busVars
<1>6. CASE answer.send \in BusRequest
  <2>0. answer.send # "NO_REQ"
    BY <1>6 DEF BusRequest
  <2>1. BusReq(answer.send, a, p)
    BY <2>0 DEF PermReq
  <2>2. CASE pendingRequest = NULL
    <3>1. /\ pendingRequest' = Admitted(answer.send, a, p)
          /\ countDown' = CACHE_DELAY
          /\ UNCHANGED <<queuedRequests, lastProc>>
      BY <2>1, <2>2 DEF BusReq
    <3>2. /\ pendingRequest' \in PendingReq
          /\ pendingRequest' # NULL
          /\ pendingRequest'.brt # "DATA"
          /\ pendingRequest'.currentState = "WAITING_CACHE"
      BY <3>1, <1>6, AdmittedType DEF Admitted
    <3>3. BusTypeOK'
      BY <3>1, <3>2, DelayAssumption, TransferAssumption, DramAssumption
         DEF BusInv, BusTypeOK, LongestDelay
    <3>4. MemTypeOK' /\ TransferInv'
      BY <3>2, <1>4 DEF BusInv, MemTypeOK, TransferInv, memVars
    <3>5. MemoryServesBus'
      BY <3>1, <3>2, <1>4, <2>2, DelayAssumption DEF BusInv, MemoryServesBus, memVars
    <3> QED
      BY <1>3, <3>3, <3>4, <3>5 DEF BusInv
  <2>3. CASE pendingRequest # NULL
    <3>1. /\ queuedRequests' = [queuedRequests EXCEPT ![p] =
                                  Append(@, [brt |-> answer.send, addr |-> a])]
          /\ UNCHANGED <<pendingRequest, countDown, lastProc>>
      BY <2>1, <2>3 DEF BusReq
    <3>2. [brt |-> answer.send, addr |-> a] \in QueuedReq
      BY <1>6 DEF QueuedReq
    <3>3. queuedRequests' \in [Proc -> Seq(QueuedReq)]
      BY <3>1, <3>2 DEF BusInv, BusTypeOK
    <3> QED
      BY <1>3, <1>4, <3>1, <3>3 DEF BusInv, MemTypeOK, BusTypeOK, TransferInv,
         MemoryServesBus, memVars
  <2> QED
    BY <2>2, <2>3
<1> QED
  BY <1>2, <1>5, <1>6

LEMMA BusInvCountDown == BusInv /\ CountDown /\ UNCHANGED coherStates => BusInv'
<1> SUFFICES ASSUME BusInv, CountDown, UNCHANGED coherStates PROVE BusInv'
  OBVIOUS
<1>1. /\ pendingRequest \in PendingReq
      /\ pendingRequest # NULL
      /\ countDown \in Nat \ {0}
      /\ memCountDown \in Nat
  BY DramAssumption, DelayAssumption, TransferAssumption
     DEF BusInv, BusTypeOK, MemTypeOK, MemoryServesBus, CountDown, LongestDelay
<1>2. StatesInv' /\ TransferInv'
  BY DEF BusInv, StatesInv, TransferInv, CountDown
<1>3. /\ memCountDown' = MemLeft(Squelch)
      /\ memRequest' = IF memRequest # NULL /\ MemLeft(Squelch) = 0 THEN NULL ELSE memRequest
      /\ countDown' = countDown - 1
      /\ UNCHANGED <<pendingRequest, queuedRequests, lastProc>>
  BY DEF CountDown, MemTick, MemReleases
<1>4. MemTypeOK' /\ BusTypeOK'
  <2>1. MemTypeOK'
    BY <1>1, <1>3, DramAssumption DEF BusInv, MemTypeOK, MemLeft
  <2>2. BusTypeOK'
    BY <1>1, <1>3, DramAssumption, DelayAssumption, TransferAssumption
       DEF BusInv, BusTypeOK, LongestDelay
  <2> QED
    BY <2>1, <2>2
<1>5. CASE pendingRequest.currentState = "WAITING_CACHE"
  <2>1. memRequest = NULL /\ memCountDown = 0
    BY <1>1, <1>5 DEF BusInv, MemoryServesBus
  <2>2. countDown # 1
    BY <1>5, <2>1 DEF CountDown, Expires, DataAvail, MemCallsBack, MemReleases
  <2> QED
    BY <1>1, <1>2, <1>3, <1>4, <1>5, <2>1, <2>2 DEF BusInv, MemoryServesBus, MemLeft
<1>6. CASE pendingRequest.currentState = "WAITING_MEMORY"
  <2>1. /\ memCountDown = countDown
        /\ memRequest # NULL
        /\ memRequest.addr = pendingRequest.addr
        /\ memRequest.procNum = pendingRequest.procNum
        /\ ~Squelch
    BY <1>1, <1>6 DEF BusInv, MemoryServesBus, Squelch
  <2>2. MemLeft(Squelch) = countDown - 1
    BY <1>1, <2>1 DEF MemLeft
  <2>3. countDown # 1
    BY <1>1, <2>1, <2>2 DEF CountDown, Expires, DataAvail, MemCallsBack, MemReleases
  <2> QED
    BY <1>1, <1>2, <1>3, <1>4, <1>6, <2>1, <2>2, <2>3 DEF BusInv, MemoryServesBus
<1>7. CASE pendingRequest.currentState = "TRANSFERING_CACHE"
  <2>1. countDown # 1
    BY <1>1, <1>7 DEF CountDown, Expires
  <2>2. memRequest' = NULL /\ memCountDown' = 0
    BY <1>1, <1>3, <1>7 DEF BusInv, MemoryServesBus, Squelch, MemLeft
  <2> QED
    BY <1>1, <1>2, <1>3, <1>4, <1>7, <2>1, <2>2 DEF BusInv, MemoryServesBus
<1> QED
  BY <1>1, <1>5, <1>6, <1>7 DEF PendingReq

\* The processors from any starting point on, modulo their number.
LEMMA ModuloProc == \A n \in Nat : n % processorCount \in Proc
  BY ProcessorAssumption DEF Proc

LEMMA BusInvArbitrate == BusInv /\ Arbitrate /\ UNCHANGED coherStates => BusInv'
<1> SUFFICES ASSUME BusInv, Arbitrate, UNCHANGED coherStates PROVE BusInv'
  OBVIOUS
<1>1. PICK k \in 0 .. processorCount - 1 :
        LET winner == (k + lastProc) % processorCount
            first  == Head(queuedRequests[winner])
        IN /\ queuedRequests[winner] # <<>>
           /\ pendingRequest' = Admitted(first.brt, first.addr, winner)
           /\ queuedRequests' = [queuedRequests EXCEPT ![winner] = Tail(@)]
           /\ countDown' = CACHE_DELAY
           /\ lastProc' = NextProc(winner)
  BY DEF Arbitrate
<1> DEFINE winner == (k + lastProc) % processorCount
           first  == Head(queuedRequests[winner])
<1>2. winner \in Proc /\ NextProc(winner) \in Proc
  <2>1. k + lastProc \in Nat
    BY ProcessorAssumption DEF BusInv, BusTypeOK, Proc
  <2>2. winner \in Proc
    BY <2>1, ModuloProc
  <2>3. winner + 1 \in Nat
    BY <2>2, ProcessorAssumption DEF Proc
  <2> QED
    BY <2>2, <2>3, ModuloProc DEF NextProc
<1>3. /\ queuedRequests \in [Proc -> Seq(QueuedReq)]
      /\ queuedRequests[winner] \in Seq(QueuedReq) \ {<<>>}
  BY <1>1, <1>2 DEF BusInv, BusTypeOK
<1>4. first \in QueuedReq /\ Tail(queuedRequests[winner]) \in Seq(QueuedReq)
  BY <1>3
<1>5. pendingRequest' = Admitted(first.brt, first.addr, winner)
  BY <1>1
<1>6. /\ pendingRequest' \in PendingReq
      /\ pendingRequest' # NULL
      /\ pendingRequest'.brt # "DATA"
      /\ pendingRequest'.currentState = "WAITING_CACHE"
  <2>1. first.brt \in BusRequest /\ first.addr \in Addr
    BY <1>4 DEF QueuedReq
  <2>2. pendingRequest'.currentState = "WAITING_CACHE"
    BY <1>5 DEF Admitted
  <2> QED
    BY <1>2, <1>5, <2>1, <2>2, AdmittedType
<1>7. /\ pendingRequest = NULL
      /\ memRequest = NULL
      /\ memCountDown = 0
  <2>1. countDown = 0
    BY DEF Arbitrate
  <2>2. pendingRequest = NULL /\ memRequest = NULL
    BY <2>1 DEF BusInv, MemoryServesBus
  <2> QED
    BY <2>2, DramAssumption DEF BusInv, MemTypeOK, MemoryServesBus
<1>8. memRequest' = NULL /\ memCountDown' = 0
  BY <1>7 DEF Arbitrate, MemTick, MemLeft, MemReleases
<1>9. BusTypeOK'
  <2>1. queuedRequests' \in [Proc -> Seq(QueuedReq)]
    BY <1>1, <1>2, <1>3, <1>4
  <2>2. countDown' \in 0 .. LongestDelay
    BY <1>1, DramAssumption, DelayAssumption, TransferAssumption DEF LongestDelay
  <2>3. lastProc' \in Proc
    BY <1>1, <1>2
  <2> QED
    BY <1>6, <2>1, <2>2, <2>3 DEF BusTypeOK
<1>10. MemTypeOK'
  BY <1>8, DramAssumption DEF MemTypeOK
<1>11. MemoryServesBus'
  <2>1. countDown' > 0
    BY <1>1, DelayAssumption
  <2> QED
    BY <1>6, <1>8, <2>1 DEF MemoryServesBus
<1> QED
  BY <1>6, <1>9, <1>10, <1>11 DEF BusInv, StatesInv, TransferInv

\* What a snoop finds on the bus.
LEMMA SnoopContext ==
    ASSUME BusInv, SnoopEnabled
    PROVE  /\ pendingRequest \in PendingReq
           /\ pendingRequest # NULL
           /\ pendingRequest.brt \in BusRequest
           /\ memRequest = NULL
           /\ memCountDown = 0
<1>1. pendingRequest \in PendingReq /\ pendingRequest # NULL
  BY DEF BusInv, BusTypeOK, MemoryServesBus, SnoopEnabled, Expires
<1>2. pendingRequest.brt \in BusRequest
  BY <1>1 DEF BusInv, TransferInv, SnoopEnabled, PendingReq
<1>3. memRequest = NULL
  BY <1>1 DEF BusInv, MemoryServesBus, SnoopEnabled
<1>4. memCountDown = 0
  BY <1>3, DramAssumption DEF BusInv, MemTypeOK, MemoryServesBus
<1> QED
  BY <1>1, <1>2, <1>3, <1>4

\* The request after its snoop.
LEMMA SnoopedType ==
    ASSUME BusInv, SnoopEnabled, NEW replies, BusAfterSnoop(replies)
    PROVE  /\ pendingRequest' \in PendingReq
           /\ pendingRequest' # NULL
           /\ pendingRequest'.addr = pendingRequest.addr
           /\ pendingRequest'.procNum = pendingRequest.procNum
           /\ pendingRequest'.shared = ("SHARED" \in replies)
           /\ pendingRequest'.currentState =
                IF "DATA" \in replies THEN "TRANSFERING_CACHE" ELSE "WAITING_MEMORY"
           /\ pendingRequest'.brt =
                IF "DATA" \in replies THEN "DATA" ELSE pendingRequest.brt
<1>1. pendingRequest \in PendingReq
  BY SnoopContext
<1>2. pendingRequest' = Snooped(replies)
  BY DEF BusAfterSnoop
<1>3. /\ pendingRequest.brt \in BusRequest \cup {"DATA"}
      /\ pendingRequest.addr \in Addr
      /\ pendingRequest.procNum \in Proc
  BY <1>1 DEF PendingReq
<1>4. pendingRequest' \in PendingReq
  <2>1. CASE "DATA" \in replies
    BY <1>2, <1>3, <2>1 DEF PendingReq, Snooped
  <2>2. CASE "DATA" \notin replies
    BY <1>2, <1>3, <2>2 DEF PendingReq, Snooped
  <2> QED
    BY <2>1, <2>2
<1> QED
  BY <1>2, <1>4, NoPendingAssumption DEF Snooped

LEMMA BusInvSnoop == BusInv /\ SnoopBroadcast => BusInv'
<1> SUFFICES ASSUME BusInv, SnoopBroadcast PROVE BusInv'
  OBVIOUS
<1>1. SnoopEnabled /\ BusAfterSnoop(Replies)
  BY DEF SnoopBroadcast
<1>2. /\ pendingRequest \in PendingReq
      /\ pendingRequest.brt \in BusRequest
      /\ pendingRequest.addr \in Addr
      /\ pendingRequest.procNum \in Proc
  BY <1>1, SnoopContext DEF PendingReq
<1>3. \A q \in Proc : Reaction(q, pendingRequest.brt).next \in SchemeStates
  BY <1>2, SnoopClosed DEF Reaction, BusInv, StatesInv
<1>4. StatesInv'
  BY <1>2, <1>3 DEF SnoopBroadcast, BusInv, StatesInv
<1>5. /\ memRequest' = [addr |-> pendingRequest.addr, procNum |-> pendingRequest.procNum]
      /\ memCountDown' = DRAM_FETCH_TICKS
      /\ countDown' = IF "DATA" \in Replies THEN CACHE_TRANSFER ELSE DRAM_FETCH_TICKS
      /\ UNCHANGED <<queuedRequests, lastProc>>
  BY <1>1 DEF BusAfterSnoop, MemBusReq
<1>6. /\ memRequest' \in MemReq
      /\ memRequest' # NULL
      /\ memRequest'.addr = pendingRequest.addr
      /\ memRequest'.procNum = pendingRequest.procNum
  BY <1>2, <1>5, NullAssumption DEF MemReq
<1>7. MemTypeOK'
  BY <1>5, <1>6, DramAssumption DEF MemTypeOK
<1>8. BusTypeOK'
  BY <1>1, <1>5, SnoopedType, DramAssumption, DelayAssumption, TransferAssumption
     DEF BusInv, BusTypeOK, LongestDelay
<1>9. TransferInv'
  BY <1>1, <1>2, SnoopedType DEF TransferInv, BusRequest
<1>10. MemoryServesBus'
  BY <1>1, <1>5, <1>6, SnoopedType, DramAssumption, TransferAssumption DEF MemoryServesBus
<1> QED
  BY <1>4, <1>7, <1>8, <1>9, <1>10 DEF BusInv

\* What a delivery finds on the bus, and what the memory does meanwhile.
LEMMA DeliveryContext ==
    ASSUME BusInv, DeliveryEnabled
    PROVE  /\ pendingRequest \in PendingReq
           /\ pendingRequest # NULL
           /\ pendingRequest.currentState # "WAITING_CACHE"
           /\ Delivered \in BusReply
           /\ pendingRequest.shared => Delivered = "SHARED"
           /\ MemTick(Squelch) => memRequest' = NULL /\ memCountDown' = 0
<1>1. pendingRequest \in PendingReq /\ pendingRequest # NULL
  BY DEF BusInv, BusTypeOK, MemoryServesBus, DeliveryEnabled, Expires
<1>2. CASE DataAvail
  <2>1. memRequest # NULL /\ MemLeft(Squelch) = 0
    BY <1>2 DEF DataAvail, MemCallsBack, MemReleases
  <2> QED
    BY <1>1, <1>2, <2>1 DEF BusInv, MemoryServesBus, Delivered, BusReply, MemTick, MemReleases
<1>3. CASE ~DataAvail
  <2>1. pendingRequest.currentState = "TRANSFERING_CACHE" /\ pendingRequest.brt = "DATA"
    BY <1>1, <1>3 DEF DeliveryEnabled, BusInv, TransferInv
  <2>2. MemLeft(Squelch) = 0
    <3>1. CASE memRequest = NULL
      BY <3>1, DramAssumption DEF BusInv, MemTypeOK, MemoryServesBus, MemLeft
    <3>2. CASE memRequest # NULL
      BY <1>1, <2>1, <3>2 DEF BusInv, MemoryServesBus, Squelch, MemLeft
    <3> QED
      BY <3>1, <3>2
  <2>3. MemTick(Squelch) => memRequest' = NULL /\ memCountDown' = 0
    BY <2>2 DEF MemTick, MemReleases
  <2> QED
    BY <1>1, <1>3, <2>1, <2>3 DEF Delivered, BusReply
<1> QED
  BY <1>2, <1>3

LEMMA BusInvDeliver == BusInv /\ Deliver => BusInv'
<1> SUFFICES ASSUME BusInv, Deliver PROVE BusInv'
  OBVIOUS
<1>1. DeliveryEnabled /\ BusAfterDelivery
  BY DEF Deliver
<1>2. /\ pendingRequest.addr \in Addr
      /\ pendingRequest.procNum \in Proc
      /\ Delivered \in BusReply
      /\ memRequest' = NULL
      /\ memCountDown' = 0
  BY <1>1, DeliveryContext DEF PendingReq, BusAfterDelivery
<1>3. StatesInv'
  <2>1. Reaction(pendingRequest.procNum, Delivered).next \in SchemeStates
    BY <1>2, SnoopClosed DEF Reaction, BusInv, StatesInv
  <2> QED
    BY <1>2, <2>1 DEF Deliver, BusInv, StatesInv
<1>4. /\ pendingRequest' = NULL
      /\ countDown' = 0
      /\ UNCHANGED <<queuedRequests, lastProc>>
  BY <1>1 DEF BusAfterDelivery
<1>5. MemTypeOK' /\ BusTypeOK'
  BY <1>2, <1>4, DramAssumption, DelayAssumption, TransferAssumption
     DEF BusInv, MemTypeOK, BusTypeOK, LongestDelay
<1> QED
  BY <1>2, <1>3, <1>4, <1>5 DEF BusInv, TransferInv, MemoryServesBus

LEMMA BusInvStep == BusInv /\ [Next]_vars => BusInv'
<1> SUFFICES ASSUME BusInv, [Next]_vars PROVE BusInv'
  OBVIOUS
<1>1. CASE \E p \in Proc, a \in Addr, isRead \in BOOLEAN : PermReq(p, a, isRead)
  BY <1>1, BusInvPermReq
<1>2. CASE CountDown /\ UNCHANGED coherStates
  BY <1>2, BusInvCountDown
<1>3. CASE Arbitrate /\ UNCHANGED coherStates
  BY <1>3, BusInvArbitrate
<1>4. CASE SnoopBroadcast
  BY <1>4, BusInvSnoop
<1>5. CASE Deliver
  BY <1>5, BusInvDeliver
<1>6. CASE UNCHANGED vars
  BY <1>6 DEF vars, memVars, busVars, BusInv, MemTypeOK, BusTypeOK, StatesInv, TransferInv,
     MemoryServesBus
<1> QED
  BY <1>1, <1>2, <1>3, <1>4, <1>5, <1>6 DEF Next, Tick

LEMMA BusInvHolds == Spec => []BusInv
  BY BusInvInit, BusInvStep, PTL DEF Spec

\* TypeOK holds in every reachable state, in every scheme and for any number of
\* processors and lines: in particular the bus never has a request of no
\* processor, and round-robin never leaves the range of processors.
THEOREM TypeCorrect == Spec => []TypeOK
  BY BusInvHolds, BusInvTypeOK, PTL

\* The memory always works on the request that is on the bus and in step with
\* it, so that no request is overwritten by the next arbitration before its data
\* has come (interconnect.c, tick).
THEOREM MemoryInStep == Spec => []MemoryServesBus
<1>1. BusInv => MemoryServesBus
  BY DEF BusInv
<1> QED
  BY <1>1, BusInvHolds, PTL

-----------------------------------------------------------------------------
(* Second layer: requests and waits.                                       *)

\* Whoever has a request in a queue waits for its answer, and has only one.
QueueInv ==
    \A p \in Proc : \A k \in 1 .. Len(queuedRequests[p]) :
        /\ coherStates[p][queuedRequests[p][k].addr] \in Awaiting(queuedRequests[p][k].brt)
        /\ \A l \in 1 .. Len(queuedRequests[p]) :
             queuedRequests[p][k].addr = queuedRequests[p][l].addr => k = l

\* Whoever has its request on the bus waits for its answer, and has no other.
OnBusInv ==
    pendingRequest # NULL =>
        LET p == pendingRequest.procNum
            a == pendingRequest.addr
        IN /\ coherStates[p][a] \in Transient
           /\ pendingRequest.brt # "DATA" => coherStates[p][a] \in Awaiting(pendingRequest.brt)
           /\ \A k \in 1 .. Len(queuedRequests[p]) : queuedRequests[p][k].addr # a

RequestInv == QueueInv /\ OnBusInv

LEMMA AwaitingTransient == \A brt : Awaiting(brt) \subseteq Transient
  BY DEF Awaiting, Transient

LEMMA QueueEntryType ==
    ASSUME BusInv, NEW p \in Proc, NEW k \in 1 .. Len(queuedRequests[p])
    PROVE  queuedRequests[p][k] \in QueuedReq
  BY DEF BusInv, BusTypeOK

LEMMA RequestInvInit == Init => RequestInv
<1> SUFFICES ASSUME Init PROVE RequestInv
  OBVIOUS
<1>1. \A p \in Proc : 1 .. Len(queuedRequests[p]) = {}
  BY DEF Init, BusInit
<1> QED
  BY <1>1 DEF Init, BusInit, RequestInv, QueueInv, OnBusInv

LEMMA RequestInvPermReq ==
    ASSUME BusInv, RequestInv, NEW p \in Proc, NEW a \in Addr, NEW isRead \in BOOLEAN,
           PermReq(p, a, isRead)
    PROVE  RequestInv'
<1> DEFINE st     == coherStates[p][a]
           answer == Cache(isRead, st)
<1>1. st \in SchemeStates
  BY DEF BusInv, StatesInv
<1>2. /\ answer.send \in {"NO_REQ"} \cup BusRequest
      /\ answer.send = "NO_REQ" =>
           answer.next = st \/ (st = "EXCLUSIVE" /\ answer.next = "MODIFIED")
      /\ answer.send # "NO_REQ" => st \notin Transient /\ answer.next \in Awaiting(answer.send)
  BY <1>1, CacheAnswer
<1>3. coherStates' = [coherStates EXCEPT ![p][a] = answer.next]
  BY DEF PermReq
<1>4. coherStates \in [Proc -> [Addr -> SchemeStates]]
  BY DEF BusInv, StatesInv
\* A line that waits is not touched.
<1>5. ASSUME NEW q \in Proc, NEW b \in Addr, coherStates[q][b] \in Transient
      PROVE  coherStates'[q][b] = coherStates[q][b]
  <2>1. CASE q = p /\ b = a
    <3>1. answer.next = st
      BY <1>2, <1>5, <2>1 DEF Transient, ReadTransient, WriteTransient
    <3> QED
      BY <1>3, <1>4, <2>1, <3>1
  <2> QED
    BY <1>3, <1>4, <2>1
<1>6. ASSUME NEW q \in Proc, NEW k \in 1 .. Len(queuedRequests[q])
      PROVE  /\ queuedRequests[q][k].addr \in Addr
             /\ coherStates[q][queuedRequests[q][k].addr] \in Transient
             /\ coherStates'[q][queuedRequests[q][k].addr]
                  \in Awaiting(queuedRequests[q][k].brt)
  <2>1. queuedRequests[q][k].addr \in Addr
    BY QueueEntryType DEF QueuedReq
  <2>2. coherStates[q][queuedRequests[q][k].addr] \in Awaiting(queuedRequests[q][k].brt)
    BY DEF RequestInv, QueueInv
  <2> QED
    BY <1>5, <2>1, <2>2, AwaitingTransient
<1>7. CASE answer.send = "NO_REQ"
  <2>1. UNCHANGED busVars
    BY <1>7 DEF PermReq
  <2>2. QueueInv'
    BY <1>6, <2>1 DEF RequestInv, QueueInv, busVars
  <2>3. OnBusInv'
    <3>1. pendingRequest # NULL => /\ pendingRequest.procNum \in Proc
                                   /\ pendingRequest.addr \in Addr
      BY DEF BusInv, BusTypeOK, PendingReq
    <3> QED
      BY <1>5, <2>1, <3>1 DEF RequestInv, OnBusInv, busVars
  <2> QED
    BY <2>2, <2>3 DEF RequestInv
<1>8. CASE answer.send # "NO_REQ"
  <2>1. BusReq(answer.send, a, p)
    BY <1>8 DEF PermReq
  <2>2. coherStates'[p][a] \in Awaiting(answer.send)
    BY <1>2, <1>3, <1>4, <1>8
  <2>3. \A k \in 1 .. Len(queuedRequests[p]) : queuedRequests[p][k].addr # a
    BY <1>2, <1>6, <1>8
  <2>4. CASE pendingRequest = NULL
    <3>1. /\ pendingRequest' = Admitted(answer.send, a, p)
          /\ queuedRequests' = queuedRequests
      BY <2>1, <2>4 DEF BusReq
    <3>2. QueueInv'
      BY <1>6, <3>1 DEF RequestInv, QueueInv
    <3>3. OnBusInv'
      BY <2>2, <2>3, <3>1, AwaitingTransient DEF OnBusInv, Admitted
    <3> QED
      BY <3>2, <3>3 DEF RequestInv
  <2>5. CASE pendingRequest # NULL
    <3> DEFINE entry == [brt |-> answer.send, addr |-> a]
    <3>1. /\ pendingRequest' = pendingRequest
          /\ queuedRequests' = [queuedRequests EXCEPT ![p] = Append(@, entry)]
      BY <2>1, <2>5 DEF BusReq
    <3>2. queuedRequests \in [Proc -> Seq(QueuedReq)]
      BY DEF BusInv, BusTypeOK
    <3>3. /\ Len(queuedRequests'[p]) = Len(queuedRequests[p]) + 1
          /\ queuedRequests'[p][Len(queuedRequests[p]) + 1] = entry
          /\ \A k \in 1 .. Len(queuedRequests[p]) :
               queuedRequests'[p][k] = queuedRequests[p][k]
          /\ Len(queuedRequests[p]) \in Nat
          /\ \A q \in Proc \ {p} : queuedRequests'[q] = queuedRequests[q]
      <4>1. queuedRequests'[p] = Append(queuedRequests[p], entry)
        BY <3>1, <3>2
      <4>2. queuedRequests[p] \in Seq(QueuedReq) /\ entry \in QueuedReq
        BY <1>2, <1>8, <3>2 DEF QueuedReq
      <4>3. \A q \in Proc \ {p} : queuedRequests'[q] = queuedRequests[q]
        BY <3>1, <3>2
      <4> QED
        BY <4>1, <4>2, <4>3
    <3>4. QueueInv'
      <4> SUFFICES ASSUME NEW q \in Proc, NEW k \in 1 .. Len(queuedRequests'[q])
                   PROVE  /\ coherStates'[q][queuedRequests'[q][k].addr]
                               \in Awaiting(queuedRequests'[q][k].brt)
                          /\ \A l \in 1 .. Len(queuedRequests'[q]) :
                               queuedRequests'[q][k].addr = queuedRequests'[q][l].addr => k = l
        BY DEF QueueInv
      <4>1. CASE q # p
        BY <1>6, <3>3, <4>1 DEF RequestInv, QueueInv
      <4>2. CASE q = p /\ k = Len(queuedRequests[p]) + 1
        <5>1. queuedRequests'[q][k] = entry
          BY <3>3, <4>2
        <5>2. ASSUME NEW l \in 1 .. Len(queuedRequests'[p]), queuedRequests'[p][l].addr = a
              PROVE  l = k
          BY <2>3, <3>3, <4>2, <5>2
        <5> QED
          BY <2>2, <4>2, <5>1, <5>2
      <4>3. CASE q = p /\ k \in 1 .. Len(queuedRequests[p])
        <5>1. queuedRequests'[q][k] = queuedRequests[p][k]
          BY <3>3, <4>3
        <5>2. ASSUME NEW l \in 1 .. Len(queuedRequests'[p]),
                     queuedRequests'[p][l].addr = queuedRequests[p][k].addr
              PROVE  l = k
          <6>1. l \in 1 .. Len(queuedRequests[p])
            BY <2>3, <3>3, <4>3, <5>2
          <6> QED
            BY <3>3, <4>3, <5>2, <6>1 DEF RequestInv, QueueInv
        <5> QED
          BY <1>6, <4>3, <5>1, <5>2
      <4> QED
        BY <3>3, <4>1, <4>2, <4>3
    <3>5. OnBusInv'
      <4> DEFINE q == pendingRequest.procNum
                 b == pendingRequest.addr
      <4>1. q \in Proc /\ b \in Addr
        BY <2>5 DEF BusInv, BusTypeOK, PendingReq
      <4>2. coherStates'[q][b] = coherStates[q][b] /\ coherStates[q][b] \in Transient
        BY <1>5, <2>5, <4>1 DEF RequestInv, OnBusInv
      <4>3. q = p => a # b
        BY <1>2, <1>8, <4>2
      <4>4. \A k \in 1 .. Len(queuedRequests'[q]) : queuedRequests'[q][k].addr # b
        <5>1. \A k \in 1 .. Len(queuedRequests[q]) : queuedRequests[q][k].addr # b
          BY <2>5 DEF RequestInv, OnBusInv
        <5>2. CASE q # p
          BY <3>3, <4>1, <5>1, <5>2
        <5>3. CASE q = p
          BY <2>3, <3>3, <4>3, <5>1, <5>3, SMTT(30)
        <5> QED
          BY <5>2, <5>3
      <4> QED
        BY <2>5, <3>1, <4>2, <4>4 DEF RequestInv, OnBusInv
    <3> QED
      BY <3>4, <3>5 DEF RequestInv
  <2> QED
    BY <2>4, <2>5
<1> QED
  BY <1>7, <1>8

\* What an arbitration does to the queues.
LEMMA ArbitrateQueues ==
    ASSUME BusInv, Arbitrate
    PROVE  \E w \in Proc :
             LET s == queuedRequests[w]
                 t == queuedRequests'[w]
             IN /\ s \in Seq(QueuedReq) /\ Len(s) \in Nat \ {0}
                /\ pendingRequest' = Admitted(s[1].brt, s[1].addr, w)
                /\ Len(t) = Len(s) - 1
                /\ \A k \in 1 .. Len(t) : t[k] = s[k + 1]
                /\ \A q \in Proc \ {w} : queuedRequests'[q] = queuedRequests[q]
<1>1. PICK k \in 0 .. processorCount - 1 :
        LET w     == (k + lastProc) % processorCount
            first == Head(queuedRequests[w])
        IN /\ queuedRequests[w] # <<>>
           /\ pendingRequest' = Admitted(first.brt, first.addr, w)
           /\ queuedRequests' = [queuedRequests EXCEPT ![w] = Tail(@)]
  BY DEF Arbitrate
<1> DEFINE w == (k + lastProc) % processorCount
<1>2. w \in Proc
  <2>1. k + lastProc \in Nat
    BY ProcessorAssumption DEF BusInv, BusTypeOK, Proc
  <2> QED
    BY <2>1, ModuloProc
<1> HIDE DEF w
<1>3. queuedRequests \in [Proc -> Seq(QueuedReq)] /\ queuedRequests[w] # <<>>
  BY <1>1 DEF BusInv, BusTypeOK, w
<1>4. /\ queuedRequests'[w] = Tail(queuedRequests[w])
      /\ \A q \in Proc \ {w} : queuedRequests'[q] = queuedRequests[q]
  BY <1>1, <1>2, <1>3 DEF w
<1>5. pendingRequest' = Admitted(queuedRequests[w][1].brt, queuedRequests[w][1].addr, w)
  BY <1>1, <1>2, <1>3 DEF w
<1>6. queuedRequests[w] \in Seq(QueuedReq) /\ Len(queuedRequests[w]) \in Nat \ {0}
  BY <1>2, <1>3
<1>7. /\ Len(queuedRequests'[w]) = Len(queuedRequests[w]) - 1
      /\ \A j \in 1 .. Len(queuedRequests'[w]) :
           queuedRequests'[w][j] = queuedRequests[w][j + 1]
  BY <1>4, <1>6
<1> QED
  BY <1>2, <1>4, <1>5, <1>6, <1>7

LEMMA RequestInvArbitrate ==
    BusInv /\ RequestInv /\ Arbitrate /\ UNCHANGED coherStates => RequestInv'
<1> SUFFICES ASSUME BusInv, RequestInv, Arbitrate, UNCHANGED coherStates PROVE RequestInv'
  OBVIOUS
<1>1. PICK w \in Proc :
        /\ queuedRequests[w] \in Seq(QueuedReq)
        /\ Len(queuedRequests[w]) \in Nat \ {0}
        /\ pendingRequest' = Admitted(queuedRequests[w][1].brt, queuedRequests[w][1].addr, w)
        /\ Len(queuedRequests'[w]) = Len(queuedRequests[w]) - 1
        /\ \A k \in 1 .. Len(queuedRequests'[w]) :
             queuedRequests'[w][k] = queuedRequests[w][k + 1]
        /\ \A q \in Proc \ {w} : queuedRequests'[q] = queuedRequests[q]
  BY ArbitrateQueues
<1>2. QueueInv'
  <2> SUFFICES ASSUME NEW q \in Proc, NEW k \in 1 .. Len(queuedRequests'[q])
               PROVE  /\ coherStates[q][queuedRequests'[q][k].addr]
                           \in Awaiting(queuedRequests'[q][k].brt)
                      /\ \A l \in 1 .. Len(queuedRequests'[q]) :
                           queuedRequests'[q][k].addr = queuedRequests'[q][l].addr => k = l
    BY DEF QueueInv
  <2>1. CASE q # w
    BY <1>1, <2>1 DEF RequestInv, QueueInv
  <2>2. CASE q = w
    <3>1. /\ k + 1 \in 1 .. Len(queuedRequests[w])
          /\ queuedRequests'[w][k] = queuedRequests[w][k + 1]
      BY <1>1, <2>2
    <3>2. ASSUME NEW l \in 1 .. Len(queuedRequests'[w]),
                 queuedRequests'[w][k].addr = queuedRequests'[w][l].addr
          PROVE  k = l
      <4>1. /\ l + 1 \in 1 .. Len(queuedRequests[w])
            /\ queuedRequests'[w][l] = queuedRequests[w][l + 1]
        BY <1>1
      <4>2. k + 1 = l + 1
        BY <3>1, <3>2, <4>1 DEF RequestInv, QueueInv
      <4> QED
        BY <1>1, <2>2, <4>2
    <3> QED
      BY <2>2, <3>1, <3>2 DEF RequestInv, QueueInv
  <2> QED
    BY <2>1, <2>2
<1>3. OnBusInv'
  <2> DEFINE first == queuedRequests[w][1]
  <2>1. 1 \in 1 .. Len(queuedRequests[w])
    BY <1>1
  <2>2. coherStates[w][first.addr] \in Awaiting(first.brt)
    BY <2>1 DEF RequestInv, QueueInv
  <2>3. /\ pendingRequest'.procNum = w
        /\ pendingRequest'.addr = first.addr
        /\ pendingRequest'.brt = first.brt
    BY <1>1 DEF Admitted
  <2>4. ASSUME NEW k \in 1 .. Len(queuedRequests'[w])
        PROVE  queuedRequests'[w][k].addr # first.addr
    <3>1. /\ k + 1 \in 1 .. Len(queuedRequests[w])
          /\ queuedRequests'[w][k] = queuedRequests[w][k + 1]
          /\ k + 1 # 1
      BY <1>1
    <3> QED
      BY <2>1, <3>1 DEF RequestInv, QueueInv
  <2> QED
    BY <2>2, <2>3, <2>4, AwaitingTransient DEF OnBusInv
<1> QED
  BY <1>2, <1>3 DEF RequestInv

\* A snoop leaves every waiting line as it was.
LEMMA SnoopKeepsWaits ==
    ASSUME BusInv, SnoopBroadcast, NEW q \in Proc, NEW b \in Addr,
           coherStates[q][b] \in Transient
    PROVE  coherStates'[q][b] = coherStates[q][b]
<1>1. /\ pendingRequest \in PendingReq
      /\ pendingRequest.brt \in BusRequest
  BY SnoopContext DEF SnoopBroadcast
<1>2. coherStates[q] \in [Addr -> SchemeStates]
  BY DEF BusInv, StatesInv
<1>3. CASE q \in Snoopers /\ b = pendingRequest.addr
  <2>1. Reaction(q, pendingRequest.brt).next = coherStates[q][b]
    BY <1>1, <1>2, <1>3, SnoopReaction DEF Reaction
  <2> QED
    BY <1>2, <1>3, <2>1 DEF SnoopBroadcast
<1>4. CASE ~(q \in Snoopers /\ b = pendingRequest.addr)
  BY <1>2, <1>4 DEF SnoopBroadcast
<1> QED
  BY <1>3, <1>4

LEMMA RequestInvSnoop == BusInv /\ RequestInv /\ SnoopBroadcast => RequestInv'
<1> SUFFICES ASSUME BusInv, RequestInv, SnoopBroadcast PROVE RequestInv'
  OBVIOUS
<1>1. SnoopEnabled /\ BusAfterSnoop(Replies)
  BY DEF SnoopBroadcast
<1>2. queuedRequests' = queuedRequests
  BY <1>1 DEF BusAfterSnoop
<1>3. QueueInv'
  <2>1. ASSUME NEW q \in Proc, NEW k \in 1 .. Len(queuedRequests[q])
        PROVE  coherStates'[q][queuedRequests[q][k].addr] \in Awaiting(queuedRequests[q][k].brt)
    <3>1. queuedRequests[q][k].addr \in Addr
      BY QueueEntryType DEF QueuedReq
    <3>2. coherStates[q][queuedRequests[q][k].addr] \in Awaiting(queuedRequests[q][k].brt)
      BY DEF RequestInv, QueueInv
    <3> QED
      BY <3>1, <3>2, AwaitingTransient, SnoopKeepsWaits
  <2> QED
    BY <1>2, <2>1 DEF RequestInv, QueueInv
<1>4. OnBusInv'
  <2> DEFINE p == pendingRequest.procNum
             a == pendingRequest.addr
  <2>1. /\ pendingRequest # NULL /\ p \in Proc /\ a \in Addr
        /\ pendingRequest.brt \in BusRequest
    BY <1>1, SnoopContext DEF PendingReq
  <2>2. /\ pendingRequest'.procNum = p
        /\ pendingRequest'.addr = a
        /\ pendingRequest'.brt # "DATA" => pendingRequest'.brt = pendingRequest.brt
    BY <1>1, SnoopedType
  <2>3. coherStates[p][a] \in Transient /\ coherStates[p][a] \in Awaiting(pendingRequest.brt)
    BY <2>1 DEF RequestInv, OnBusInv, BusRequest
  <2>4. coherStates'[p][a] = coherStates[p][a]
    BY <2>1, <2>3, SnoopKeepsWaits
  <2> QED
    BY <1>2, <2>1, <2>2, <2>3, <2>4 DEF RequestInv, OnBusInv
<1> QED
  BY <1>3, <1>4 DEF RequestInv

LEMMA RequestInvDeliver == BusInv /\ RequestInv /\ Deliver => RequestInv'
<1> SUFFICES ASSUME BusInv, RequestInv, Deliver PROVE RequestInv'
  OBVIOUS
<1>1. /\ pendingRequest' = NULL
      /\ queuedRequests' = queuedRequests
  BY DEF Deliver, BusAfterDelivery
<1>2. /\ pendingRequest # NULL
      /\ pendingRequest.procNum \in Proc
      /\ pendingRequest.addr \in Addr
  BY DeliveryContext DEF Deliver, PendingReq
<1>3. coherStates \in [Proc -> [Addr -> SchemeStates]]
  BY DEF BusInv, StatesInv
<1>4. ASSUME NEW q \in Proc, NEW k \in 1 .. Len(queuedRequests[q])
      PROVE  coherStates'[q][queuedRequests[q][k].addr] = coherStates[q][queuedRequests[q][k].addr]
  <2>1. queuedRequests[q][k].addr \in Addr
    BY QueueEntryType DEF QueuedReq
  <2>2. ~(q = pendingRequest.procNum /\ queuedRequests[q][k].addr = pendingRequest.addr)
    BY <1>2 DEF RequestInv, OnBusInv
  <2> QED
    BY <1>2, <1>3, <2>1, <2>2 DEF Deliver
<1> QED
  BY <1>1, <1>4 DEF RequestInv, QueueInv, OnBusInv

LEMMA RequestInvStep == BusInv /\ RequestInv /\ [Next]_vars => RequestInv'
<1> SUFFICES ASSUME BusInv, RequestInv, [Next]_vars PROVE RequestInv'
  OBVIOUS
<1>1. CASE \E p \in Proc, a \in Addr, isRead \in BOOLEAN : PermReq(p, a, isRead)
  BY <1>1, RequestInvPermReq
<1>2. CASE CountDown /\ UNCHANGED coherStates
  BY <1>2 DEF CountDown, RequestInv, QueueInv, OnBusInv
<1>3. CASE Arbitrate /\ UNCHANGED coherStates
  BY <1>3, RequestInvArbitrate
<1>4. CASE SnoopBroadcast
  BY <1>4, RequestInvSnoop
<1>5. CASE Deliver
  BY <1>5, RequestInvDeliver
<1>6. CASE UNCHANGED vars
  BY <1>6 DEF vars, busVars, RequestInv, QueueInv, OnBusInv
<1> QED
  BY <1>1, <1>2, <1>3, <1>4, <1>5, <1>6 DEF Next, Tick

LEMMA RequestInvHolds == Spec => []RequestInv
  BY RequestInvInit, RequestInvStep, BusInvHolds, PTL DEF Spec

\* In every scheme, also in those that go wrong elsewhere, a request in a queue
\* or on the bus is the one its line waits for, however often the line was
\* snooped since the miss.
THEOREM RequestsMatch == Spec => []RequestMatchesWait
<1>1. BusInv /\ RequestInv => RequestMatchesWait
  BY DEF RequestInv, QueueInv, OnBusInv, RequestMatchesWait, QueuedFor, OnBus, Awaiting
<1> QED
  BY <1>1, BusInvHolds, RequestInvHolds, PTL

-----------------------------------------------------------------------------
(* Third layer: rights.                                                    *)

\* Once a request has been snooped nobody else may write the line; nobody else
\* may read it either if the request is a write; and if somebody may, the request
\* is marked as shared.
SnoopedInv ==
    pendingRequest # NULL /\ pendingRequest.currentState # "WAITING_CACHE" =>
        LET p == pendingRequest.procNum
            a == pendingRequest.addr
        IN \A q \in Proc \ {p} :
             /\ coherStates[q][a] \notin Writable
             /\ coherStates[q][a] \in Readable =>
                  pendingRequest.shared /\ coherStates[p][a] \notin WriteTransient

RightsInv == SingleWriter /\ SnoopedInv

\* A request of a cache gives it no right it did not have: a store may only turn
\* a clean exclusive line into a dirty one.
LEMMA PermReqShrinks ==
    ASSUME BusInv, NEW p \in Proc, NEW a \in Addr, NEW isRead \in BOOLEAN,
           PermReq(p, a, isRead), NEW q \in Proc, NEW b \in Addr
    PROVE  /\ coherStates'[q][b] \in Readable => coherStates[q][b] \in Readable
           /\ coherStates'[q][b] \in Writable => coherStates[q][b] \in Writable
           /\ coherStates[q][b] \in Transient => coherStates'[q][b] = coherStates[q][b]
           /\ b # a => coherStates'[q][b] = coherStates[q][b]
           /\ coherStates[q][b] \in Writable /\ coherStates'[q][b] \in Readable =>
                coherStates'[q][b] \in Writable
<1> DEFINE answer == Cache(isRead, coherStates[p][a])
<1>1. coherStates[p][a] \in SchemeStates /\ coherStates \in [Proc -> [Addr -> SchemeStates]]
  BY DEF BusInv, StatesInv
<1>2. coherStates' = [coherStates EXCEPT ![p][a] = answer.next]
  BY DEF PermReq
<1>3. CASE q = p /\ b = a
  <2>1. coherStates'[q][b] = answer.next
    BY <1>1, <1>2, <1>3
  <2>2. CASE answer.send = "NO_REQ"
    <3>1. \/ answer.next = coherStates[p][a]
          \/ coherStates[p][a] = "EXCLUSIVE" /\ answer.next = "MODIFIED"
      BY <1>1, <2>2, CacheAnswer
    <3> QED
      BY <1>3, <2>1, <3>1 DEF Readable, Writable, Transient, ReadTransient, WriteTransient
  <2>3. CASE answer.send # "NO_REQ"
    <3>1. coherStates[p][a] \notin Transient /\ answer.next \in Transient
      BY <1>1, <2>3, CacheAnswer, AwaitingTransient
    <3> QED
      BY <1>3, <2>1, <3>1 DEF Readable, Writable, Transient, ReadTransient, WriteTransient
  <2> QED
    BY <2>2, <2>3
<1>4. CASE ~(q = p /\ b = a)
  BY <1>1, <1>2, <1>4
<1> QED
  BY <1>3, <1>4

\* A snoop takes the right to write from everybody who sees it, under a BUSWR
\* every right, and gives none.
LEMMA SnoopShrinks ==
    ASSUME BusInv, SnoopBroadcast, NEW q \in Proc, NEW b \in Addr
    PROVE  /\ coherStates'[q][b] \in Readable => coherStates[q][b] \in Readable
           /\ coherStates'[q][b] \in Writable => coherStates[q][b] \in Writable
           /\ q = pendingRequest.procNum \/ b # pendingRequest.addr =>
                coherStates'[q][b] = coherStates[q][b]
           /\ q # pendingRequest.procNum /\ b = pendingRequest.addr =>
                /\ coherStates'[q][b] = Reaction(q, pendingRequest.brt).next
                /\ coherStates'[q][b] \notin Writable
                /\ pendingRequest.brt = "BUSWR" => coherStates'[q][b] \notin Readable
<1>1. pendingRequest.brt \in BusRequest
  BY SnoopContext DEF SnoopBroadcast
<1>2. coherStates[q] \in [Addr -> SchemeStates]
  BY DEF BusInv, StatesInv
<1>3. CASE q # pendingRequest.procNum /\ b = pendingRequest.addr
  <2>1. coherStates'[q][b] = Reaction(q, pendingRequest.brt).next
    BY <1>2, <1>3 DEF SnoopBroadcast, Snoopers
  <2>2. /\ Reaction(q, pendingRequest.brt).next \notin Writable
        /\ pendingRequest.brt = "BUSWR" => Reaction(q, pendingRequest.brt).next \notin Readable
        /\ Reaction(q, pendingRequest.brt).next \in Readable => coherStates[q][b] \in Readable
    BY <1>1, <1>2, <1>3, SnoopReaction DEF Reaction
  <2> QED
    BY <1>3, <2>1, <2>2
<1>4. CASE ~(q # pendingRequest.procNum /\ b = pendingRequest.addr)
  BY <1>2, <1>4 DEF SnoopBroadcast, Snoopers
<1> QED
  BY <1>3, <1>4

LEMMA RightsInvPermReq ==
    ASSUME BusInv, RequestInv, RightsInv, NEW p \in Proc, NEW a \in Addr,
           NEW isRead \in BOOLEAN, PermReq(p, a, isRead)
    PROVE  RightsInv'
<1>1. SingleWriter'
  BY PermReqShrinks DEF RightsInv, SingleWriter
<1>2. CASE pendingRequest' = pendingRequest
  <2>1. pendingRequest # NULL =>
          /\ pendingRequest.procNum \in Proc
          /\ pendingRequest.addr \in Addr
          /\ coherStates[pendingRequest.procNum][pendingRequest.addr] \in Transient
    BY DEF BusInv, BusTypeOK, PendingReq, RequestInv, OnBusInv
  <2>2. SnoopedInv'
    BY <1>2, <2>1, PermReqShrinks DEF RightsInv, SnoopedInv
  <2> QED
    BY <1>1, <2>2 DEF RightsInv
<1>3. CASE pendingRequest' # pendingRequest
  <2>1. pendingRequest' = Admitted(Cache(isRead, coherStates[p][a]).send, a, p)
    BY <1>3 DEF PermReq, BusReq, busVars
  <2>2. SnoopedInv'
    BY <2>1 DEF SnoopedInv, Admitted
  <2> QED
    BY <1>1, <2>2 DEF RightsInv
<1> QED
  BY <1>2, <1>3

LEMMA RightsInvSnoop ==
    cs \in SoundScheme /\ BusInv /\ RequestInv /\ RightsInv /\ SnoopBroadcast => RightsInv'
<1> SUFFICES ASSUME cs \in SoundScheme, BusInv, RequestInv, RightsInv, SnoopBroadcast
             PROVE  RightsInv'
  OBVIOUS
<1> DEFINE p == pendingRequest.procNum
           a == pendingRequest.addr
<1>1. SingleWriter'
  BY SnoopShrinks DEF RightsInv, SingleWriter
<1>2. SnoopEnabled /\ BusAfterSnoop(Replies)
  BY DEF SnoopBroadcast
<1>3. /\ pendingRequest # NULL /\ p \in Proc /\ a \in Addr
      /\ pendingRequest.brt \in BusRequest
  BY <1>2, SnoopContext DEF PendingReq
<1>4. /\ pendingRequest'.procNum = p
      /\ pendingRequest'.addr = a
      /\ pendingRequest'.shared = ("SHARED" \in Replies)
  BY <1>2, SnoopedType
<1>5. /\ coherStates'[p][a] = coherStates[p][a]
      /\ coherStates[p][a] \in Awaiting(pendingRequest.brt)
  BY <1>3, SnoopShrinks DEF RequestInv, OnBusInv, BusRequest
<1>6. ASSUME NEW q \in Proc \ {p}, coherStates'[q][a] \in Readable
      PROVE  "SHARED" \in Replies /\ coherStates[p][a] \notin WriteTransient
  <2>1. /\ coherStates'[q][a] = Reaction(q, pendingRequest.brt).next
        /\ pendingRequest.brt # "BUSWR"
    BY <1>3, <1>6, SnoopShrinks
  <2>2. "SHARED" \in Reaction(q, pendingRequest.brt).sends
    <3>1. coherStates[q][a] \in SchemeStates
      BY <1>3 DEF BusInv, StatesInv
    <3> QED
      BY <1>3, <1>6, <2>1, <3>1, SoundReaction DEF Reaction
  <2>3. "SHARED" \in Replies
    BY <2>2 DEF Replies, Snoopers
  <2>4. coherStates[p][a] \in ReadTransient
    BY <1>5, <2>1 DEF Awaiting
  <2> QED
    BY <2>3, <2>4 DEF ReadTransient, WriteTransient
<1>7. \A q \in Proc \ {p} : coherStates'[q][a] \notin Writable
  BY <1>3, SnoopShrinks
<1>8. SnoopedInv'
  BY <1>4, <1>5, <1>6, <1>7 DEF SnoopedInv
<1> QED
  BY <1>1, <1>8 DEF RightsInv

\* What a delivery does to the line.
LEMMA DeliveryEffect ==
    ASSUME BusInv, RequestInv, Deliver
    PROVE  LET p == pendingRequest.procNum
               a == pendingRequest.addr
           IN /\ pendingRequest # NULL /\ p \in Proc /\ a \in Addr
              /\ pendingRequest.currentState # "WAITING_CACHE"
              /\ coherStates[p][a] \in Transient
              /\ Reaction(p, Delivered).sends = {}
              /\ coherStates' = [coherStates EXCEPT ![p][a] = Reaction(p, Delivered).next]
              /\ coherStates'[p][a] \in Readable
              /\ coherStates'[p][a] \in Writable =>
                   coherStates[p][a] \in WriteTransient \/ ~pendingRequest.shared
              /\ \A q \in Proc, b \in Addr :
                   q # p \/ b # a => coherStates'[q][b] = coherStates[q][b]
<1> DEFINE p == pendingRequest.procNum
           a == pendingRequest.addr
<1>1. /\ pendingRequest # NULL /\ p \in Proc /\ a \in Addr
      /\ pendingRequest.currentState # "WAITING_CACHE"
      /\ Delivered \in BusReply
      /\ pendingRequest.shared => Delivered = "SHARED"
  BY DeliveryContext DEF Deliver, PendingReq
<1>2. /\ coherStates[p][a] \in Transient
      /\ coherStates[p][a] \in SchemeStates
      /\ coherStates \in [Proc -> [Addr -> SchemeStates]]
  BY <1>1 DEF BusInv, StatesInv, RequestInv, OnBusInv
<1>3. /\ Reaction(p, Delivered).sends = {}
      /\ Reaction(p, Delivered).next \in Readable
      /\ Delivered = "SHARED" /\ coherStates[p][a] \in ReadTransient =>
           Reaction(p, Delivered).next \notin Writable
  BY <1>1, <1>2, DeliveryReaction DEF Reaction
<1>4. coherStates' = [coherStates EXCEPT ![p][a] = Reaction(p, Delivered).next]
  BY DEF Deliver
<1>5. /\ coherStates'[p][a] = Reaction(p, Delivered).next
      /\ \A q \in Proc, b \in Addr : q # p \/ b # a => coherStates'[q][b] = coherStates[q][b]
  BY <1>1, <1>2, <1>4
<1> QED
  BY <1>1, <1>2, <1>3, <1>4, <1>5 DEF Transient

LEMMA RightsInvDeliver == BusInv /\ RequestInv /\ RightsInv /\ Deliver => RightsInv'
<1> SUFFICES ASSUME BusInv, RequestInv, RightsInv, Deliver PROVE RightsInv'
  OBVIOUS
<1>1. SnoopedInv'
  BY DEF Deliver, BusAfterDelivery, SnoopedInv
<1> DEFINE r == pendingRequest.procNum
           c == pendingRequest.addr
\* Nobody else holds a right that excludes what the requester is given.
<1>2. ASSUME NEW q \in Proc \ {r}
      PROVE  /\ coherStates[q][c] \notin Writable
             /\ coherStates'[r][c] \in Writable => coherStates[q][c] \notin Readable
  BY DeliveryEffect DEF RightsInv, SnoopedInv
<1>3. SingleWriter'
  <2> SUFFICES ASSUME NEW p \in Proc, NEW q \in Proc, NEW a \in Addr, p # q,
                      coherStates'[p][a] \in Writable
               PROVE  coherStates'[q][a] \notin Readable
    BY DEF SingleWriter
  <2>1. CASE a # c
    BY <2>1, DeliveryEffect DEF RightsInv, SingleWriter
  <2>2. CASE a = c /\ p = r
    BY <1>2, <2>2, DeliveryEffect
  <2>3. CASE a = c /\ p # r
    BY <1>2, <2>3, DeliveryEffect
  <2> QED
    BY <2>1, <2>2, <2>3
<1> QED
  BY <1>1, <1>3 DEF RightsInv

LEMMA RightsInvStep ==
    cs \in SoundScheme /\ BusInv /\ RequestInv /\ RightsInv /\ [Next]_vars => RightsInv'
<1> SUFFICES ASSUME cs \in SoundScheme, BusInv, RequestInv, RightsInv, [Next]_vars
             PROVE  RightsInv'
  OBVIOUS
<1>1. CASE \E p \in Proc, a \in Addr, isRead \in BOOLEAN : PermReq(p, a, isRead)
  BY <1>1, RightsInvPermReq
<1>2. CASE CountDown /\ UNCHANGED coherStates
  BY <1>2 DEF CountDown, RightsInv, SingleWriter, SnoopedInv
<1>3. CASE Arbitrate /\ UNCHANGED coherStates
  <2>1. pendingRequest'.currentState = "WAITING_CACHE"
    BY <1>3 DEF Arbitrate, Admitted
  <2> QED
    BY <1>3, <2>1 DEF RightsInv, SingleWriter, SnoopedInv
<1>4. CASE SnoopBroadcast
  BY <1>4, RightsInvSnoop
<1>5. CASE Deliver
  BY <1>5, RightsInvDeliver
<1>6. CASE UNCHANGED vars
  BY <1>6 DEF vars, busVars, RightsInv, SingleWriter, SnoopedInv
<1> QED
  BY <1>1, <1>2, <1>3, <1>4, <1>5, <1>6 DEF Next, Tick

LEMMA RightsInvInit == Init => RightsInv
  BY DEF Init, BusInit, RightsInv, SingleWriter, SnoopedInv, Readable, Writable

LEMMA RightsInvHolds == ASSUME cs \in SoundScheme PROVE Spec => []RightsInv
<1>1. BusInv /\ RequestInv /\ RightsInv /\ [Next]_vars => RightsInv'
  BY RightsInvStep
<1> QED
  BY <1>1, RightsInvInit, BusInvHolds, RequestInvHolds, PTL DEF Spec

\* MI, MSI and MESI keep a single writer, for any number of processors and lines
\* and any delays of bus and memory.
THEOREM SingleWriterHolds == ASSUME cs \in SoundScheme PROVE Spec => []SingleWriter
<1>1. RightsInv => SingleWriter
  BY DEF RightsInv
<1> QED
  BY <1>1, RightsInvHolds, PTL

-----------------------------------------------------------------------------
(* Owners (all schemes).                                                   *)

\* Once a request has been snooped, whoever still answers for the line is an OWNED
\* copy of MOESI that has marked the request, a read, as shared.
KeptOwnerInv ==
    pendingRequest # NULL /\ pendingRequest.currentState # "WAITING_CACHE" =>
        LET p == pendingRequest.procNum
            a == pendingRequest.addr
        IN \A q \in Proc \ {p} :
             coherStates[q][a] \in Owner =>
                 /\ cs = "MOESI"
                 /\ pendingRequest.shared
                 /\ coherStates[p][a] \notin WriteTransient

OwnerInv == SingleOwner /\ KeptOwnerInv

LEMMA OwnerStates == Owner \subseteq Readable /\ Owner \cap Transient = {}
  BY DEF Owner, Readable, Writable, Transient, ReadTransient, WriteTransient

\* A request of a cache makes no owner.
LEMMA PermReqMakesNoOwner ==
    ASSUME BusInv, NEW p \in Proc, NEW a \in Addr, NEW isRead \in BOOLEAN,
           PermReq(p, a, isRead), NEW q \in Proc, NEW b \in Addr,
           coherStates'[q][b] \in Owner
    PROVE  coherStates[q][b] \in Owner
<1> DEFINE answer == Cache(isRead, coherStates[p][a])
<1>1. coherStates[p][a] \in SchemeStates /\ coherStates \in [Proc -> [Addr -> SchemeStates]]
  BY DEF BusInv, StatesInv
<1>2. coherStates' = [coherStates EXCEPT ![p][a] = answer.next]
  BY DEF PermReq
<1>3. answer.next \in Owner =>
        \/ answer.next = coherStates[p][a]
        \/ coherStates[p][a] = "EXCLUSIVE"
  BY <1>1, CacheAnswer, OwnerStates, AwaitingTransient
<1>4. CASE q = p /\ b = a
  BY <1>1, <1>2, <1>3, <1>4 DEF Owner, Writable
<1>5. CASE ~(q = p /\ b = a)
  BY <1>1, <1>2, <1>5
<1> QED
  BY <1>4, <1>5

LEMMA OwnerInvPermReq ==
    ASSUME BusInv, RequestInv, OwnerInv, NEW p \in Proc, NEW a \in Addr,
           NEW isRead \in BOOLEAN, PermReq(p, a, isRead)
    PROVE  OwnerInv'
<1>1. SingleOwner'
  BY PermReqMakesNoOwner DEF OwnerInv, SingleOwner, Owner
<1>2. CASE pendingRequest' = pendingRequest
  <2>1. pendingRequest # NULL =>
          /\ pendingRequest.procNum \in Proc
          /\ pendingRequest.addr \in Addr
          /\ coherStates[pendingRequest.procNum][pendingRequest.addr] \in Transient
    BY DEF BusInv, BusTypeOK, PendingReq, RequestInv, OnBusInv
  <2>2. KeptOwnerInv'
    BY <1>2, <2>1, PermReqShrinks, PermReqMakesNoOwner DEF OwnerInv, KeptOwnerInv
  <2> QED
    BY <1>1, <2>2 DEF OwnerInv
<1>3. CASE pendingRequest' # pendingRequest
  <2>1. pendingRequest' = Admitted(Cache(isRead, coherStates[p][a]).send, a, p)
    BY <1>3 DEF PermReq, BusReq, busVars
  <2>2. KeptOwnerInv'
    BY <2>1 DEF KeptOwnerInv, Admitted
  <2> QED
    BY <1>1, <2>2 DEF OwnerInv
<1> QED
  BY <1>2, <1>3

LEMMA OwnerInvSnoop == BusInv /\ RequestInv /\ OwnerInv /\ SnoopBroadcast => OwnerInv'
<1> SUFFICES ASSUME BusInv, RequestInv, OwnerInv, SnoopBroadcast PROVE OwnerInv'
  OBVIOUS
<1> DEFINE p == pendingRequest.procNum
           a == pendingRequest.addr
<1>1. SnoopEnabled /\ BusAfterSnoop(Replies)
  BY DEF SnoopBroadcast
<1>2. /\ pendingRequest # NULL /\ p \in Proc /\ a \in Addr
      /\ pendingRequest.brt \in BusRequest
  BY <1>1, SnoopContext DEF PendingReq
<1>3. /\ pendingRequest'.procNum = p
      /\ pendingRequest'.addr = a
      /\ pendingRequest'.shared = ("SHARED" \in Replies)
  BY <1>1, SnoopedType
<1>4. /\ coherStates'[p][a] = coherStates[p][a]
      /\ coherStates[p][a] \in Awaiting(pendingRequest.brt)
  BY <1>2, SnoopShrinks DEF RequestInv, OnBusInv, BusRequest
<1>5. ASSUME NEW q \in Proc \ {p}, coherStates'[q][a] \in Owner
      PROVE  /\ coherStates[q][a] \in Owner
             /\ cs = "MOESI"
             /\ "SHARED" \in Replies
             /\ coherStates[p][a] \notin WriteTransient
  <2>1. coherStates'[q][a] = Reaction(q, pendingRequest.brt).next
    BY <1>2, SnoopShrinks
  <2>2. /\ coherStates[q][a] \in Owner
        /\ cs = "MOESI"
        /\ pendingRequest.brt = "BUSRD"
        /\ "SHARED" \in Reaction(q, pendingRequest.brt).sends
    <3>1. coherStates[q][a] \in SchemeStates
      BY <1>2 DEF BusInv, StatesInv
    <3> QED
      BY <1>2, <1>5, <2>1, <3>1, OwnerReaction DEF Reaction
  <2>3. "SHARED" \in Replies
    BY <2>2 DEF Replies, Snoopers
  <2>4. coherStates[p][a] \in ReadTransient
    BY <1>4, <2>2 DEF Awaiting
  <2> QED
    BY <2>2, <2>3, <2>4 DEF ReadTransient, WriteTransient
<1>6. \A q \in Proc, b \in Addr : coherStates'[q][b] \in Owner => coherStates[q][b] \in Owner
  BY <1>5, SnoopShrinks
<1>7. SingleOwner'
  BY <1>6 DEF OwnerInv, SingleOwner, Owner
<1>8. KeptOwnerInv'
  BY <1>3, <1>4, <1>5 DEF KeptOwnerInv
<1> QED
  BY <1>7, <1>8 DEF OwnerInv

\* The requester becomes an owner only if nobody else still is one.
LEMMA OwnerInvDeliver == BusInv /\ RequestInv /\ OwnerInv /\ Deliver => OwnerInv'
<1> SUFFICES ASSUME BusInv, RequestInv, OwnerInv, Deliver PROVE OwnerInv'
  OBVIOUS
<1>1. KeptOwnerInv'
  BY DEF Deliver, BusAfterDelivery, KeptOwnerInv
<1> DEFINE r == pendingRequest.procNum
           c == pendingRequest.addr
<1>2. ASSUME NEW q \in Proc \ {r}, coherStates[q][c] \in Owner
      PROVE  coherStates'[r][c] \notin Owner
  <2>1. /\ cs = "MOESI"
        /\ pendingRequest.shared
        /\ coherStates[r][c] \notin WriteTransient
    BY <1>2, DeliveryEffect DEF OwnerInv, KeptOwnerInv
  <2>2. coherStates[r][c] \in SchemeStates /\ coherStates[r][c] \in ReadTransient
    BY <2>1, DeliveryEffect DEF BusInv, StatesInv, Transient
  <2>3. Delivered = "SHARED"
    BY <2>1, DeliveryContext DEF Deliver
  <2>4. coherStates'[r][c] = Snoop("SHARED", coherStates[r][c]).next
    BY <2>3, DeliveryEffect DEF Reaction, BusInv, StatesInv
  <2> QED
    BY <2>1, <2>2, <2>4, SharedAnswer
<1>3. SingleOwner'
  <2> SUFFICES ASSUME NEW p \in Proc, NEW q \in Proc, NEW a \in Addr, p # q,
                      coherStates'[p][a] \in Owner, coherStates'[q][a] \in Owner
               PROVE  FALSE
    BY DEF SingleOwner, Owner
  <2>1. CASE a # c
    BY <2>1, DeliveryEffect DEF OwnerInv, SingleOwner, Owner
  <2>2. CASE a = c /\ p = r
    BY <1>2, <2>2, DeliveryEffect
  <2>3. CASE a = c /\ q = r
    BY <1>2, <2>3, DeliveryEffect
  <2>4. CASE a = c /\ p # r /\ q # r
    BY <2>4, DeliveryEffect DEF OwnerInv, SingleOwner, Owner
  <2> QED
    BY <2>1, <2>2, <2>3, <2>4
<1> QED
  BY <1>1, <1>3 DEF OwnerInv

LEMMA OwnerInvStep == BusInv /\ RequestInv /\ OwnerInv /\ [Next]_vars => OwnerInv'
<1> SUFFICES ASSUME BusInv, RequestInv, OwnerInv, [Next]_vars PROVE OwnerInv'
  OBVIOUS
<1>1. CASE \E p \in Proc, a \in Addr, isRead \in BOOLEAN : PermReq(p, a, isRead)
  BY <1>1, OwnerInvPermReq
<1>2. CASE CountDown /\ UNCHANGED coherStates
  BY <1>2 DEF CountDown, OwnerInv, SingleOwner, KeptOwnerInv
<1>3. CASE Arbitrate /\ UNCHANGED coherStates
  <2>1. pendingRequest'.currentState = "WAITING_CACHE"
    BY <1>3 DEF Arbitrate, Admitted
  <2> QED
    BY <1>3, <2>1 DEF OwnerInv, SingleOwner, KeptOwnerInv
<1>4. CASE SnoopBroadcast
  BY <1>4, OwnerInvSnoop
<1>5. CASE Deliver
  BY <1>5, OwnerInvDeliver
<1>6. CASE UNCHANGED vars
  BY <1>6 DEF vars, busVars, OwnerInv, SingleOwner, KeptOwnerInv
<1> QED
  BY <1>1, <1>2, <1>3, <1>4, <1>5, <1>6 DEF Next, Tick

LEMMA OwnerInvHolds == Spec => []OwnerInv
<1>1. Init => OwnerInv
  BY DEF Init, BusInit, OwnerInv, SingleOwner, KeptOwnerInv, Writable
<1> QED
  BY <1>1, OwnerInvStep, BusInvHolds, RequestInvHolds, PTL DEF Spec

\* In all five schemes at most one processor answers for a line, at any time; also
\* in MOESI and MESIF, which do not keep a single writer.
THEOREM SingleOwnerHolds == Spec => []SingleOwner
<1>1. OwnerInv => SingleOwner
  BY DEF OwnerInv
<1> QED
  BY <1>1, OwnerInvHolds, PTL

\* In no scheme does an assertion of interconnect.c or memory.c fail: in
\* particular no two caches supply the same line.
THEOREM NoAssertionFails == Spec => []AssertionsHold
<1>1. ASSUME BusInv, RequestInv, OwnerInv PROVE AssertionsHold
  <2>1. ASSUME SnoopEnabled, NEW q \in Snoopers, NEW r \in Snoopers,
               "DATA" \in Reaction(q, pendingRequest.brt).sends,
               "DATA" \in Reaction(r, pendingRequest.brt).sends
        PROVE  q = r
    <3>1. pendingRequest.brt \in BusRequest /\ pendingRequest.addr \in Addr
      BY <2>1, <1>1, SnoopContext DEF PendingReq
    <3>2. q \in Proc /\ r \in Proc
      BY DEF Snoopers
    <3>3. /\ coherStates[q][pendingRequest.addr] \in SchemeStates
          /\ coherStates[r][pendingRequest.addr] \in SchemeStates
      BY <1>1, <3>1, <3>2 DEF BusInv, StatesInv
    <3>4. /\ coherStates[q][pendingRequest.addr] \in Owner
          /\ coherStates[r][pendingRequest.addr] \in Owner
      BY <2>1, <3>1, <3>3, OwnerReaction DEF Reaction
    <3> QED
      BY <1>1, <3>1, <3>2, <3>4 DEF OwnerInv, SingleOwner, Owner
  <2>2. SnoopEnabled => memRequest = NULL
    BY <1>1, SnoopContext
  <2>3. DeliveryEnabled => "DATA" \notin Reaction(pendingRequest.procNum, Delivered).sends
    <3> SUFFICES ASSUME DeliveryEnabled
                 PROVE  Reaction(pendingRequest.procNum, Delivered).sends = {}
      OBVIOUS
    <3>1. /\ pendingRequest.procNum \in Proc /\ pendingRequest.addr \in Addr
          /\ pendingRequest # NULL /\ Delivered \in BusReply
      BY <1>1, DeliveryContext DEF PendingReq
    <3> QED
      BY <1>1, <3>1, DeliveryReaction DEF Reaction, BusInv, StatesInv, RequestInv, OnBusInv
  <2>4. /\ countDown > 0 => pendingRequest # NULL
        /\ memCountDown > 0 => memRequest # NULL /\ pendingRequest # NULL
    BY <1>1 DEF BusInv, MemoryServesBus
  <2> QED
    BY <2>1, <2>2, <2>3, <2>4 DEF AssertionsHold
<1> QED
  BY <1>1, BusInvHolds, RequestInvHolds, OwnerInvHolds, PTL

-----------------------------------------------------------------------------
(* Every wait has its request (all schemes but MSI, where the fall-through *)
(* of snoopMSI makes lines wait that never asked).                         *)

\* Whoever waits has asked: the request is in a queue or on the bus.
WaitInv ==
    \A p \in Proc, a \in Addr :
        coherStates[p][a] \in Transient =>
            \/ OnBus(p, a)
            \/ \E k \in 1 .. Len(queuedRequests[p]) : queuedRequests[p][k].addr = a

\* Nothing but a request of its own cache makes a line wait.
LEMMA SnoopStartsNoWait ==
    ASSUME cs # "MSI", NEW req \in BusRequest, NEW st \in SchemeStates
    PROVE  Snoop(req, st).next \in Transient => st \in Transient
<1> USE DEF SchemeStates, Quiet, Drop, Reply, Received, AwaitFill, BusRequest, BusReply,
            Transient, ReadTransient, WriteTransient, Snoop
<1>1. CASE cs = "MI"
  BY <1>1 DEF SnoopMI
<1>3. CASE cs = "MESI"
  BY <1>3 DEF SnoopMESI
<1>4. CASE cs = "MOESI"
  BY <1>4 DEF SnoopMOESI, SnoopMESI
<1>5. CASE cs = "MESIF"
  BY <1>5 DEF SnoopMESIF, SnoopMESI
<1> QED
  BY <1>1, <1>3, <1>4, <1>5, SchemeAssumption DEF Scheme

LEMMA WaitInvInit == Init => WaitInv
  BY DEF Init, WaitInv, Transient, ReadTransient, WriteTransient

LEMMA WaitInvPermReq ==
    ASSUME BusInv, RequestInv, WaitInv, NEW p \in Proc, NEW a \in Addr,
           NEW isRead \in BOOLEAN, PermReq(p, a, isRead)
    PROVE  WaitInv'
<1> DEFINE answer == Cache(isRead, coherStates[p][a])
<1>1. coherStates[p][a] \in SchemeStates /\ coherStates \in [Proc -> [Addr -> SchemeStates]]
  BY DEF BusInv, StatesInv
<1>2. queuedRequests \in [Proc -> Seq(QueuedReq)]
  BY DEF BusInv, BusTypeOK
<1>3. coherStates' = [coherStates EXCEPT ![p][a] = answer.next]
  BY DEF PermReq
<1>4. answer.send \in {"NO_REQ"} \cup BusRequest
  BY <1>1, CacheAnswer
\* No request disappears.
<1>5. ASSUME NEW q \in Proc, NEW b \in Addr,
             OnBus(q, b) \/ \E k \in 1 .. Len(queuedRequests[q]) : queuedRequests[q][k].addr = b
      PROVE  (OnBus(q, b) \/ \E k \in 1 .. Len(queuedRequests[q]) : queuedRequests[q][k].addr = b)'
  <2>1. CASE UNCHANGED <<pendingRequest, queuedRequests>>
    BY <1>5, <2>1 DEF OnBus
  <2>2. CASE pendingRequest = NULL /\ UNCHANGED queuedRequests
    BY <1>5, <2>2 DEF OnBus
  <2>3. CASE /\ UNCHANGED pendingRequest
             /\ answer.send # "NO_REQ"
             /\ queuedRequests' = [queuedRequests EXCEPT ![p] =
                                     Append(@, [brt |-> answer.send, addr |-> a])]
    <3>1. CASE OnBus(q, b)
      BY <2>3, <3>1 DEF OnBus
    <3>2. CASE \E k \in 1 .. Len(queuedRequests[q]) : queuedRequests[q][k].addr = b
      <4>1. PICK k \in 1 .. Len(queuedRequests[q]) : queuedRequests[q][k].addr = b
        BY <3>2
      <4>2. [brt |-> answer.send, addr |-> a] \in QueuedReq
        BY <1>4, <2>3 DEF QueuedReq
      <4>3. k \in 1 .. Len(queuedRequests'[q]) /\ queuedRequests'[q][k] = queuedRequests[q][k]
        <5>1. CASE q # p
          BY <1>2, <2>3, <4>1, <5>1
        <5>2. CASE q = p
          <6>1. queuedRequests'[p] = Append(queuedRequests[p], [brt |-> answer.send, addr |-> a])
            BY <1>2, <2>3
          <6>2. queuedRequests[p] \in Seq(QueuedReq)
            BY <1>2
          <6> QED
            BY <4>1, <4>2, <5>2, <6>1, <6>2
        <5> QED
          BY <5>1, <5>2
      <4> QED
        BY <4>1, <4>3
    <3> QED
      BY <1>5, <3>1, <3>2
  <2> QED
    BY <2>1, <2>2, <2>3 DEF PermReq, BusReq, busVars
\* A new wait comes with a new request.
<1>6. answer.send # "NO_REQ" =>
        (OnBus(p, a) \/ \E k \in 1 .. Len(queuedRequests[p]) : queuedRequests[p][k].addr = a)'
  <2> SUFFICES ASSUME answer.send # "NO_REQ"
               PROVE  (OnBus(p, a) \/ \E k \in 1 .. Len(queuedRequests[p]) :
                                         queuedRequests[p][k].addr = a)'
    OBVIOUS
  <2>1. BusReq(answer.send, a, p)
    BY DEF PermReq
  <2>2. CASE pendingRequest = NULL
    <3>1. pendingRequest' = Admitted(answer.send, a, p)
      BY <2>1, <2>2 DEF BusReq
    <3>2. pendingRequest' # NULL
      BY <1>4, <3>1, AdmittedType
    <3> QED
      BY <3>1, <3>2 DEF OnBus, Admitted
  <2>3. CASE pendingRequest # NULL
    <3> DEFINE entry == [brt |-> answer.send, addr |-> a]
    <3>1. queuedRequests'[p] = Append(queuedRequests[p], entry)
      BY <1>2, <2>1, <2>3 DEF BusReq
    <3>2. queuedRequests[p] \in Seq(QueuedReq) /\ entry \in QueuedReq
      BY <1>2, <1>4 DEF QueuedReq
    <3>3. /\ Len(queuedRequests[p]) + 1 \in 1 .. Len(queuedRequests'[p])
          /\ queuedRequests'[p][Len(queuedRequests[p]) + 1] = entry
      BY <3>1, <3>2
    <3> QED
      BY <3>3
  <2> QED
    BY <2>2, <2>3
<1>7. ASSUME NEW q \in Proc, NEW b \in Addr, coherStates'[q][b] \in Transient
      PROVE  (OnBus(q, b) \/ \E k \in 1 .. Len(queuedRequests[q]) : queuedRequests[q][k].addr = b)'
  <2>1. CASE coherStates[q][b] \in Transient
    BY <1>5, <2>1 DEF WaitInv
  <2>2. CASE coherStates[q][b] \notin Transient
    <3>1. q = p /\ b = a
      BY <1>1, <1>3, <1>7, <2>2
    <3>2. answer.next \in Transient
      BY <1>1, <1>3, <1>7, <3>1
    <3>3. answer.send # "NO_REQ"
      BY <1>1, <2>2, <3>1, <3>2, CacheAnswer DEF Transient, ReadTransient, WriteTransient
    <3> QED
      BY <1>6, <3>1, <3>3
  <2> QED
    BY <2>1, <2>2
<1> QED
  BY <1>7 DEF WaitInv

LEMMA WaitInvArbitrate ==
    BusInv /\ WaitInv /\ Arbitrate /\ UNCHANGED coherStates => WaitInv'
<1> SUFFICES ASSUME BusInv, WaitInv, Arbitrate, UNCHANGED coherStates,
                    NEW p \in Proc, NEW a \in Addr, coherStates[p][a] \in Transient
             PROVE  (OnBus(p, a) \/ \E k \in 1 .. Len(queuedRequests[p]) :
                                       queuedRequests[p][k].addr = a)'
  BY DEF WaitInv
<1>1. PICK w \in Proc :
        /\ queuedRequests[w] \in Seq(QueuedReq)
        /\ Len(queuedRequests[w]) \in Nat \ {0}
        /\ pendingRequest' = Admitted(queuedRequests[w][1].brt, queuedRequests[w][1].addr, w)
        /\ Len(queuedRequests'[w]) = Len(queuedRequests[w]) - 1
        /\ \A k \in 1 .. Len(queuedRequests'[w]) :
             queuedRequests'[w][k] = queuedRequests[w][k + 1]
        /\ \A q \in Proc \ {w} : queuedRequests'[q] = queuedRequests[q]
  BY ArbitrateQueues
<1>2. pendingRequest = NULL
  BY DEF Arbitrate, BusInv, MemoryServesBus
<1>3. pendingRequest' # NULL
  <2>1. queuedRequests[w][1] \in QueuedReq
    BY <1>1
  <2> QED
    BY <1>1, <2>1, AdmittedType DEF QueuedReq
<1>4. PICK k \in 1 .. Len(queuedRequests[p]) : queuedRequests[p][k].addr = a
  BY <1>2 DEF WaitInv, OnBus
<1>5. CASE p # w
  BY <1>1, <1>4, <1>5
<1>6. CASE p = w /\ k = 1
  BY <1>1, <1>3, <1>4, <1>6 DEF OnBus, Admitted
<1>7. CASE p = w /\ k # 1
  <2>1. k - 1 \in 1 .. Len(queuedRequests'[w])
    BY <1>1, <1>4, <1>7
  <2>2. queuedRequests'[w][k - 1] = queuedRequests[w][k]
    BY <1>1, <1>4, <1>7, <2>1
  <2> QED
    BY <1>4, <1>7, <2>1, <2>2
<1> QED
  BY <1>5, <1>6, <1>7

LEMMA WaitInvStep ==
    cs # "MSI" /\ BusInv /\ RequestInv /\ WaitInv /\ [Next]_vars => WaitInv'
<1> SUFFICES ASSUME cs # "MSI", BusInv, RequestInv, WaitInv, [Next]_vars PROVE WaitInv'
  OBVIOUS
<1>1. CASE \E p \in Proc, a \in Addr, isRead \in BOOLEAN : PermReq(p, a, isRead)
  BY <1>1, WaitInvPermReq
<1>2. CASE CountDown /\ UNCHANGED coherStates
  BY <1>2 DEF CountDown, WaitInv, OnBus
<1>3. CASE Arbitrate /\ UNCHANGED coherStates
  BY <1>3, WaitInvArbitrate
<1>4. CASE SnoopBroadcast
  <2>1. SnoopEnabled /\ BusAfterSnoop(Replies)
    BY <1>4 DEF SnoopBroadcast
  <2>2. /\ queuedRequests' = queuedRequests
        /\ pendingRequest' # NULL
        /\ pendingRequest'.procNum = pendingRequest.procNum
        /\ pendingRequest'.addr = pendingRequest.addr
    BY <2>1, SnoopedType DEF BusAfterSnoop
  <2>3. ASSUME NEW q \in Proc, NEW b \in Addr, coherStates'[q][b] \in Transient
        PROVE  coherStates[q][b] \in Transient
    <3>1. CASE q # pendingRequest.procNum /\ b = pendingRequest.addr
      <4>1. coherStates'[q][b] = Reaction(q, pendingRequest.brt).next
        BY <1>4, <3>1, SnoopShrinks
      <4>2. pendingRequest.brt \in BusRequest /\ coherStates[q][b] \in SchemeStates
        BY <2>1, SnoopContext DEF BusInv, StatesInv
      <4> QED
        BY <2>3, <3>1, <4>1, <4>2, SnoopStartsNoWait DEF Reaction
    <3>2. CASE ~(q # pendingRequest.procNum /\ b = pendingRequest.addr)
      BY <1>4, <2>3, <3>2, SnoopShrinks
    <3> QED
      BY <3>1, <3>2
  <2> QED
    BY <2>2, <2>3 DEF WaitInv, OnBus
<1>5. CASE Deliver
  <2>1. queuedRequests' = queuedRequests
    BY <1>5 DEF Deliver, BusAfterDelivery
  <2>2. ASSUME NEW q \in Proc, NEW b \in Addr, coherStates'[q][b] \in Transient
        PROVE  coherStates[q][b] \in Transient /\ ~OnBus(q, b)
    <3>1. ~(q = pendingRequest.procNum /\ b = pendingRequest.addr)
      BY <1>5, <2>2, DeliveryEffect
         DEF Readable, Writable, Transient, ReadTransient, WriteTransient
    <3>2. coherStates'[q][b] = coherStates[q][b]
      BY <1>5, <3>1, DeliveryEffect
    <3> QED
      BY <2>2, <3>1, <3>2 DEF OnBus
  <2> QED
    BY <2>1, <2>2 DEF WaitInv
<1>6. CASE UNCHANGED vars
  BY <1>6 DEF vars, busVars, WaitInv, OnBus
<1> QED
  BY <1>1, <1>2, <1>3, <1>4, <1>5, <1>6 DEF Next, Tick

\* Outside MSI a line waits exactly when one request of its processor for it is
\* in its queue or on the bus: no wait is forgotten, none is asked for twice.
THEOREM EveryWaitAsked == ASSUME cs # "MSI" PROVE Spec => []TransientHasRequest
<1>1. BusInv /\ RequestInv /\ WaitInv /\ [Next]_vars => WaitInv'
  BY WaitInvStep
<1>2. ASSUME BusInv, RequestInv, WaitInv PROVE TransientHasRequest
  <2> SUFFICES ASSUME NEW p \in Proc, NEW a \in Addr
               PROVE  Outstanding(p, a) = IF coherStates[p][a] \in Transient THEN 1 ELSE 0
    BY DEF TransientHasRequest
  <2>1. CASE OnBus(p, a)
    <3>1. QueuedFor(p, a) = {} /\ coherStates[p][a] \in Transient
      BY <1>2, <2>1 DEF OnBus, QueuedFor, RequestInv, OnBusInv
    <3> QED
      BY <2>1, <3>1, FS_EmptySet DEF Outstanding
  <2>2. CASE ~OnBus(p, a) /\ QueuedFor(p, a) # {}
    <3>1. PICK k \in QueuedFor(p, a) : TRUE
      BY <2>2
    <3>2. coherStates[p][a] \in Transient
      BY <1>2, <3>1, AwaitingTransient DEF QueuedFor, RequestInv, QueueInv
    <3>3. QueuedFor(p, a) = {k}
      BY <1>2, <3>1 DEF QueuedFor, RequestInv, QueueInv
    <3>4. Cardinality({k}) = 1
      BY FS_Singleton
    <3> QED
      BY <2>2, <3>2, <3>3, <3>4 DEF Outstanding
  <2>3. CASE ~OnBus(p, a) /\ QueuedFor(p, a) = {}
    <3>1. coherStates[p][a] \notin Transient
      BY <1>2, <2>3 DEF WaitInv, QueuedFor
    <3> QED
      BY <2>3, <3>1, FS_EmptySet DEF Outstanding
  <2> QED
    BY <2>1, <2>2, <2>3
<1> QED
  BY <1>1, <1>2, WaitInvInit, BusInvHolds, RequestInvHolds, PTL DEF Spec

-----------------------------------------------------------------------------
(* Who takes a line away (all schemes but MSI, which drops a modified line  *)
(* for a reader).                                                          *)

\* A miss adds one to what is outstanding.
LEMMA OutstandingGrows ==
    ASSUME BusInv, RequestInv, NEW p \in Proc, NEW a \in Addr, NEW isRead \in BOOLEAN,
           PermReq(p, a, isRead), Cache(isRead, coherStates[p][a]).send # "NO_REQ"
    PROVE  Outstanding(p, a)' > Outstanding(p, a)
<1> DEFINE brt == Cache(isRead, coherStates[p][a]).send
           s   == queuedRequests[p]
<1>1. brt \in BusRequest /\ BusReq(brt, a, p)
  BY CacheAnswer DEF PermReq, BusInv, StatesInv
<1>2. s \in Seq(QueuedReq) /\ queuedRequests \in [Proc -> Seq(QueuedReq)]
  BY DEF BusInv, BusTypeOK
<1>3. IsFiniteSet(QueuedFor(p, a)) /\ Cardinality(QueuedFor(p, a)) \in Nat
  <2>1. Len(s) \in Nat /\ QueuedFor(p, a) \subseteq 1 .. Len(s)
    BY <1>2 DEF QueuedFor
  <2>2. IsFiniteSet(1 .. Len(s))
    BY <2>1, FS_Interval
  <2> QED
    BY <2>1, <2>2, FS_Subset, FS_CardinalityType
<1>4. CASE pendingRequest = NULL
  <2>1. /\ pendingRequest' = Admitted(brt, a, p)
        /\ queuedRequests' = queuedRequests
    BY <1>1, <1>4 DEF BusReq
  <2>2. OnBus(p, a)' /\ ~OnBus(p, a)
    BY <1>1, <1>4, <2>1, AdmittedType DEF OnBus, Admitted
  <2>3. QueuedFor(p, a)' = QueuedFor(p, a)
    BY <2>1 DEF QueuedFor
  <2> QED
    BY <1>3, <2>2, <2>3 DEF Outstanding
<1>5. CASE pendingRequest # NULL
  <2>1. /\ pendingRequest' = pendingRequest
        /\ queuedRequests' = [queuedRequests EXCEPT ![p] = Append(@, [brt |-> brt, addr |-> a])]
    BY <1>1, <1>5 DEF BusReq
  <2>2. queuedRequests'[p] = Append(s, [brt |-> brt, addr |-> a])
    BY <1>2, <2>1
  <2>3. [brt |-> brt, addr |-> a] \in QueuedReq
    BY <1>1 DEF QueuedReq
  <2>4. QueuedFor(p, a)' = QueuedFor(p, a) \cup {Len(s) + 1}
    BY <1>2, <2>2, <2>3 DEF QueuedFor
  <2>5. Len(s) + 1 \notin QueuedFor(p, a)
    BY <1>2 DEF QueuedFor
  <2>6. Cardinality(QueuedFor(p, a)') = Cardinality(QueuedFor(p, a)) + 1
    BY <1>3, <2>4, <2>5, FS_AddElement
  <2>7. OnBus(p, a)' <=> OnBus(p, a)
    BY <2>1 DEF OnBus
  <2> QED
    BY <1>3, <2>6, <2>7 DEF Outstanding
<1> QED
  BY <1>4, <1>5

\* No step but a snooped BUSWR, or an own miss, takes a readable line away.
LEMMA LostToWriterStep ==
    cs # "MSI" /\ BusInv /\ RequestInv /\ [Next]_vars => [LostToWriterOnly]_vars
<1> SUFFICES ASSUME cs # "MSI", BusInv, RequestInv, Next PROVE LostToWriterOnly
  OBVIOUS
<1> SUFFICES ASSUME NEW q \in Proc, NEW b \in Addr,
                    coherStates[q][b] \in Readable, coherStates'[q][b] \notin Readable
             PROVE  \/ Outstanding(q, b)' > Outstanding(q, b)
                    \/ /\ pendingRequest # NULL
                       /\ pendingRequest.addr = b
                       /\ pendingRequest.procNum # q
                       /\ pendingRequest.brt = "BUSWR"
  BY DEF LostToWriterOnly
<1>1. coherStates \in [Proc -> [Addr -> SchemeStates]]
  BY DEF BusInv, StatesInv
<1>2. CASE \E p \in Proc, a \in Addr, isRead \in BOOLEAN : PermReq(p, a, isRead)
  <2>1. PICK p \in Proc, a \in Addr, isRead \in BOOLEAN : PermReq(p, a, isRead)
    BY <1>2
  <2> DEFINE answer == Cache(isRead, coherStates[p][a])
  <2>2. coherStates' = [coherStates EXCEPT ![p][a] = answer.next]
    BY <2>1 DEF PermReq
  <2>3. p = q /\ a = b
    BY <1>1, <2>2
  <2>4. coherStates'[q][b] = answer.next
    BY <1>1, <2>2, <2>3
  <2>5. answer.send # "NO_REQ"
    BY <1>1, <2>3, <2>4, CacheAnswer DEF Readable, Writable
  <2> QED
    BY <2>1, <2>3, <2>5, OutstandingGrows
<1>3. CASE SnoopBroadcast
  <2>1. /\ q # pendingRequest.procNum /\ b = pendingRequest.addr
        /\ coherStates'[q][b] = Reaction(q, pendingRequest.brt).next
    BY <1>3, SnoopShrinks
  <2>2. /\ pendingRequest # NULL /\ pendingRequest.procNum \in Proc
        /\ pendingRequest.brt \in BusRequest
    BY <1>3, SnoopContext DEF SnoopBroadcast, PendingReq
  \* A read takes nothing away: MI has none, and MSI is excluded.
  <2>3. pendingRequest.brt # "BUSRD"
    <3> SUFFICES ASSUME pendingRequest.brt = "BUSRD" PROVE FALSE
      OBVIOUS
    <3>1. coherStates[pendingRequest.procNum][b] \in SchemeStates \cap ReadTransient
      BY <1>1, <2>1, <2>2 DEF RequestInv, OnBusInv, Awaiting
    <3>2. cs \in {"MESI", "MOESI", "MESIF"}
      BY <3>1, MIWritesOnly, SchemeAssumption DEF Scheme
    <3>3. Snoop("BUSRD", coherStates[q][b]).next \in Readable
      BY <1>1, <3>2, ReadKeepsRights
    <3> QED
      BY <2>1, <3>3 DEF Reaction
  <2> QED
    BY <2>1, <2>2, <2>3 DEF BusRequest
<1>4. CASE Deliver
  <2>1. q = pendingRequest.procNum /\ b = pendingRequest.addr
    BY <1>4, DeliveryEffect
  <2> QED
    BY <1>4, <2>1, DeliveryEffect
<1>5. CASE (CountDown \/ Arbitrate) /\ UNCHANGED coherStates
  BY <1>5
<1> QED
  BY <1>2, <1>3, <1>4, <1>5 DEF Next, Tick

\* A load of another processor, or a delivery, takes no line from a processor that
\* may load it; only a BUSWR of another processor does, or its own upgrade.
THEOREM OnlyWritersTake == ASSUME cs # "MSI" PROVE Spec => LostOnlyToWriter
<1>1. BusInv /\ RequestInv /\ [Next]_vars => [LostToWriterOnly]_vars
  BY LostToWriterStep
<1> QED
  BY <1>1, BusInvHolds, RequestInvHolds, PTL DEF Spec, LostOnlyToWriter

-----------------------------------------------------------------------------
(* Refinement of LinePermissions.                                          *)

\* Every step of a sound scheme gives or takes rights as LinePermissions allows.
THEOREM RightsImplemented == ASSUME cs \in SoundScheme PROVE Spec => ImplementsRights
<1> DEFINE right == [p \in Proc |-> [a \in Addr |-> RightOf(coherStates[p][a])]]
<1>1. Init => Rights!Init
  BY DEF Init, Rights!Init, RightOf, Readable, Writable
<1>2. ASSUME BusInv, RequestInv, RightsInv, [Next]_vars
      PROVE  [Rights!Next]_right
  \* Rights to one line that all shrink are a Surrender.
  <2>1. ASSUME NEW a \in Addr,
               \A q \in Proc : \A b \in Addr \ {a} : coherStates'[q][b] = coherStates[q][b],
               \A q \in Proc : Rights!AtMost(RightOf(coherStates'[q][a]),
                                             RightOf(coherStates[q][a]))
        PROVE  Rights!Surrender(a)
    <3> DEFINE rights == [q \in Proc |-> RightOf(coherStates'[q][a])]
    <3>1. rights \in [Proc -> Rights!Right]
      BY DEF RightOf, Rights!Right
    <3>2. \A q \in Proc : Rights!AtMost(rights[q], right[q][a])
      BY <2>1
    <3>3. right' = [q \in Proc |-> [right[q] EXCEPT ![a] = rights[q]]]
      BY <2>1
    <3> QED
      BY <3>1, <3>2, <3>3 DEF Rights!Surrender
  <2>2. CASE \E p \in Proc, a \in Addr, isRead \in BOOLEAN : PermReq(p, a, isRead)
    <3>1. PICK p \in Proc, a \in Addr, isRead \in BOOLEAN : PermReq(p, a, isRead)
      BY <2>2
    <3>2. \A q \in Proc : \A b \in Addr \ {a} : coherStates'[q][b] = coherStates[q][b]
      BY <1>2, <3>1, PermReqShrinks
    <3>3. \A q \in Proc : Rights!AtMost(RightOf(coherStates'[q][a]),
                                        RightOf(coherStates[q][a]))
      BY <1>2, <3>1, PermReqShrinks DEF RightOf, Rights!AtMost, Rights!Weaker, Readable
    <3>4. Rights!Surrender(a)
      BY <2>1, <3>2, <3>3
    <3> QED
      BY <3>4 DEF Rights!Next
  <2>3. CASE SnoopBroadcast
    <3> DEFINE a == pendingRequest.addr
    <3>1. a \in Addr
      BY <1>2, <2>3, SnoopContext DEF SnoopBroadcast, PendingReq
    <3>2. \A q \in Proc : \A b \in Addr \ {a} : coherStates'[q][b] = coherStates[q][b]
      BY <1>2, <2>3, SnoopShrinks
    <3>3. \A q \in Proc : Rights!AtMost(RightOf(coherStates'[q][a]),
                                        RightOf(coherStates[q][a]))
      BY <1>2, <2>3, <3>1, SnoopShrinks DEF RightOf, Rights!AtMost, Rights!Weaker, Readable
    <3>4. Rights!Surrender(a)
      BY <2>1, <3>1, <3>2, <3>3
    <3> QED
      BY <3>1, <3>4 DEF Rights!Next
  <2>4. CASE Deliver
    <3> DEFINE p == pendingRequest.procNum
               a == pendingRequest.addr
               r == RightOf(coherStates'[p][a])
    <3>1. p \in Proc /\ a \in Addr
      BY <1>2, <2>4, DeliveryEffect
    <3>2. r \in {"read", "write"} /\ (r = "write" <=> coherStates'[p][a] \in Writable)
      BY <1>2, <2>4, DeliveryEffect DEF RightOf
    <3>3. \A q \in Proc \ {p} :
            right[q][a] \in IF r = "write" THEN {"none"} ELSE {"none", "read"}
      <4> SUFFICES ASSUME NEW q \in Proc \ {p}
                   PROVE  RightOf(coherStates[q][a])
                            \in IF r = "write" THEN {"none"} ELSE {"none", "read"}
        BY <3>1
      <4>1. /\ coherStates[q][a] \notin Writable
            /\ coherStates'[p][a] \in Writable => coherStates[q][a] \notin Readable
        BY <1>2, <2>4, DeliveryEffect DEF RightsInv, SnoopedInv
      <4> QED
        BY <3>2, <4>1 DEF RightOf
    <3>4. right' = [right EXCEPT ![p][a] = r]
      <4>1. \A q \in Proc, b \in Addr :
              q # p \/ b # a => RightOf(coherStates'[q][b]) = RightOf(coherStates[q][b])
        BY <1>2, <2>4, DeliveryEffect
      <4> HIDE DEF r, p, a
      <4>2. right' = [q \in Proc |-> [b \in Addr |-> RightOf(coherStates'[q][b])]]
        OBVIOUS
      <4>3. \A q \in Proc, b \in Addr :
              RightOf(coherStates'[q][b]) = [right EXCEPT ![p][a] = r][q][b]
        BY <3>1, <4>1 DEF r
      <4> QED
        BY <3>1, <4>2, <4>3
    <3>5. Rights!Grant(p, a, r)
      BY <3>3, <3>4 DEF Rights!Grant
    <3> QED
      BY <3>1, <3>2, <3>5 DEF Rights!Next
  <2>5. CASE UNCHANGED coherStates
    BY <2>5
  <2> QED
    BY <1>2, <2>2, <2>3, <2>4, <2>5 DEF Next, Tick, vars
<1> QED
  BY <1>1, <1>2, BusInvHolds, RequestInvHolds, RightsInvHolds, PTL
     DEF Spec, ImplementsRights, Rights!Spec

=============================================================================
