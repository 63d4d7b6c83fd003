----------------------------- MODULE Simulator -----------------------------
(***************************************************************************)
(* The whole simulator as the engine runs it: the in-order processor of    *)
(* processor/processor.c on simpleCache, coherence, bus and memory, driven *)
(* by the loop of engine/engine.c until a tick makes no progress.          *)
(*                                                                         *)
(* One tick of the processor component is: a tick of everything below it,  *)
(* the callbacks for what became ready, and one pass over the processors,  *)
(* each of which waits or takes one operation from its trace. The parts of *)
(* a tick are steps of their own, in the order of the code (phase, i).     *)
(*                                                                         *)
(* A trace is a finite sequence of arbitrary operations; what is kept of it *)
(* is how many are left.                                                   *)
(***************************************************************************)
EXTENDS SimpleCache

CONSTANT TraceLength    \* bound: operations in the longest trace

ASSUME TraceAssumption == TraceLength \in Nat

VARIABLES
    opsLeft,            \* processor -> operations left in its trace
    pendingMem,         \* processor -> blocked on a load or store?
    pendingBranch,      \* processor -> ticks of a mispredicted branch left
    memOpTag,           \* processor -> tag of its next, or pending, access
    phase,              \* part of the tick that runs next, or "done"
    i,                  \* loop variable of the pass over the processors
    progress            \* has a processor been found busy in this pass?

procVars   == <<opsLeft, pendingMem, pendingBranch, memOpTag>>
loopVars   == <<phase, i, progress>>
systemVars == <<vars, cacheVars, procVars, loopVars>>

SimTypeOK ==
    /\ TypeOK
    /\ CacheTypeOK
    /\ opsLeft \in [Proc -> 0 .. TraceLength]
    /\ pendingMem \in [Proc -> BOOLEAN]
    /\ pendingBranch \in [Proc -> {0, 1}]
    /\ memOpTag \in [Proc -> 0 .. TraceLength]
    /\ phase \in {"below", "callbacks", "issue", "done"}
    /\ i \in 0 .. processorCount
    /\ progress \in BOOLEAN

SimInit ==
    /\ Init
    /\ CacheInit
    /\ opsLeft \in [Proc -> 0 .. TraceLength]
    /\ pendingMem = [p \in Proc |-> FALSE]
    /\ pendingBranch = [p \in Proc |-> 0]
    /\ memOpTag = [p \in Proc |-> 0]
    /\ phase = "below"
    /\ i = 0
    /\ progress = FALSE

-----------------------------------------------------------------------------
\* cs->si.tick(), up to the callbacks.
BelowTicks ==
    /\ phase = "below"
    /\ TickBelow
    /\ phase' = "callbacks"
    /\ UNCHANGED <<procVars, i, progress>>

\* Does a callback memOpCallback(p, tag) answer the access p is blocked on?
Completes(p) == \E r \in readyReq : r.processorNum = p /\ r.tag = memOpTag[p]

\* memOpCallback for every ready access; a callback with another tag only prints.
Callbacks ==
    /\ phase = "callbacks"
    /\ readyReq' = {}
    /\ memOpTag' = [p \in Proc |-> IF Completes(p) THEN memOpTag[p] + 1 ELSE memOpTag[p]]
    /\ pendingMem' = [p \in Proc |-> pendingMem[p] /\ ~Completes(p)]
    /\ phase' = "issue"
    /\ i' = 0
    /\ progress' = FALSE
    /\ UNCHANGED <<vars, pendReq, opsLeft, pendingBranch>>

-----------------------------------------------------------------------------
(* The pass over the processors.                                           *)

\* Slip: the last processor of the pass decides.
NextProcessorAlone(busy) ==
    /\ i' = i + 1
    /\ progress' = busy
    /\ UNCHANGED phase

\* Processor i is done for this tick; "busy" keeps the simulation running.
NextProcessor(busy) ==
    /\ i' = i + 1
    /\ progress' = (progress \/ busy)
    /\ UNCHANGED phase

Turn == phase = "issue" /\ i < processorCount

WaitOnMemory ==
    /\ Turn
    /\ pendingMem[i]
    /\ NextProcessor(TRUE)
    /\ UNCHANGED <<vars, cacheVars, procVars>>

WaitOnBranch ==
    /\ Turn
    /\ ~pendingMem[i]
    /\ pendingBranch[i] > 0
    /\ pendingBranch' = [pendingBranch EXCEPT ![i] = @ - 1]
    /\ NextProcessor(TRUE)
    /\ UNCHANGED <<vars, cacheVars, opsLeft, pendingMem, memOpTag>>

Ready == Turn /\ ~pendingMem[i] /\ pendingBranch[i] = 0

\* getNextOp returns NULL.
TraceEnded ==
    /\ Ready
    /\ opsLeft[i] = 0
    /\ NextProcessor(FALSE)
    /\ UNCHANGED <<vars, cacheVars, procVars>>

\* Slip: the end of the trace is not looked for.
TakeOpPastEnd ==
    /\ Ready
    /\ opsLeft' = [opsLeft EXCEPT ![i] = @ - 1]
    /\ NextProcessor(TRUE)

TakeOp ==
    /\ Ready
    /\ opsLeft[i] > 0
    /\ opsLeft' = [opsLeft EXCEPT ![i] = @ - 1]
    /\ NextProcessor(TRUE)

IssueMemOp(a, isRead) ==
    /\ TakeOp
    /\ MemoryRequest(i, a, isRead, memOpTag[i])
    /\ pendingMem' = [pendingMem EXCEPT ![i] = TRUE]
    /\ UNCHANGED <<pendingBranch, memOpTag>>

\* The branch predictor is right or wrong; a wrong prediction costs one tick.
IssueBranch(mispredicted) ==
    /\ TakeOp
    /\ pendingBranch' = [pendingBranch EXCEPT ![i] = IF mispredicted THEN 1 ELSE 0]
    /\ UNCHANGED <<vars, cacheVars, pendingMem, memOpTag>>

IssueALU ==
    /\ TakeOp
    /\ UNCHANGED <<vars, cacheVars, pendingMem, pendingBranch, memOpTag>>

\* The tick returns progress, and the engine ticks again or stops.
EndOfTick ==
    /\ phase = "issue"
    /\ i = processorCount
    /\ phase' = IF progress THEN "below" ELSE "done"
    /\ UNCHANGED <<vars, cacheVars, procVars, i, progress>>

SimNext ==
    \/ BelowTicks
    \/ Callbacks
    \/ WaitOnMemory
    \/ WaitOnBranch
    \/ TraceEnded
    \/ \E a \in Addr, isRead \in BOOLEAN : IssueMemOp(a, isRead)
    \/ \E mispredicted \in BOOLEAN : IssueBranch(mispredicted)
    \/ IssueALU
    \/ EndOfTick

\* A sequential program: it goes on as long as it can.
SimSpec == SimInit /\ [][SimNext]_systemVars /\ WF_systemVars(SimNext)

-----------------------------------------------------------------------------
(* Safety.                                                                 *)

RequestsOf(p) == {r \in pendReq \cup readyReq : r.processorNum = p}

\* A processor is blocked exactly while the cache holds one access of it, parked
\* or ready, and that access carries the tag the processor expects: no callback
\* is lost, comes twice, or is taken for a stale one and ignored.
OneRequestEach ==
    \A p \in Proc :
        IF pendingMem[p]
        THEN \E r \in RequestsOf(p) : RequestsOf(p) = {r} /\ r.tag = memOpTag[p]
        ELSE RequestsOf(p) = {}

\* An access is parked for a line exactly while the line waits for the bus, so
\* that the answer to the line finds the access and no access waits for a line
\* that nobody will deliver.
ParkedWhileLineWaits ==
    \A p \in Proc, a \in Addr :
        Parked(p, a) # {} <=> coherStates[p][a] \in Transient

-----------------------------------------------------------------------------
(* Liveness.                                                               *)

\* Nothing is left to do anywhere: the traces are used up and no access is on its
\* way through cache, queues, bus and memory.
NothingLeft ==
    /\ \A p \in Proc : opsLeft[p] = 0 /\ ~pendingMem[p] /\ queuedRequests[p] = <<>>
    /\ pendReq = {} /\ readyReq = {}
    /\ pendingRequest = NULL /\ memRequest = NULL

\* The simulation of finite traces ends, and when the engine's loop stops nothing
\* is left to do: every access is answered, and no processor is stopped in the
\* middle of its trace because the others have come to the end of theirs.
EndsQuietly == <>(phase = "done" /\ NothingLeft)

=============================================================================
