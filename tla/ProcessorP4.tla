---------------------------- MODULE ProcessorP4 ----------------------------
(***************************************************************************)
(* processor-p4/processor.c: an out-of-order pipeline. Operations are       *)
(* fetched into the dispatch queue, renamed into a schedule queue, fired    *)
(* into a unit when their operands are there, and pulled from the state     *)
(* update queue onto a result bus; at the end of that tick they leave.      *)
(*                                                                         *)
(* tick runs the stages from back to front, once for each processor of the  *)
(* pass; each stage is an action, in the order of the code. The pipeline is *)
(* shared: only pendingMem, memOpTag and pendingBranch are per processor.   *)
(*                                                                         *)
(* An operation is its tag. Every queue is a set of tags, since each is in   *)
(* the order of tags: state update by its priority, dispatch because tags    *)
(* are given at fetch, and a schedule queue because operations of one kind   *)
(* leave dispatch in order. Which unit or bus of a kind is taken makes no    *)
(* difference. pendingMem is set and reset with memOpTag, and with it names   *)
(* the access by the tag of its operation. Statistics are left out.         *)
(***************************************************************************)
EXTENDS Integers, FiniteSets, FiniteSetsExt

CONSTANTS
    processorCount,
    F,                  \* operations fetched per tick
    D, M,               \* multipliers of the dispatch and schedule queues
    J, K, C,            \* fast units, long units, result buses
    Reg,
    Ops,                \* operations that may be in a trace
    TraceLength,        \* bound: operations of a trace
    NULL

Operation ==
    [op : {"ALU", "ALU_LONG", "MEM_LOAD", "MEM_STORE", "BRANCH"},
     dest_reg : Reg \cup {NULL},
     src_reg : SUBSET Reg]

ASSUME SizeAssumption ==
    /\ processorCount \in Nat \ {0}
    /\ {F, D, M, J, K} \subseteq Nat \ {0}
    /\ C \in 1 .. 4                         \* completed[4]
    /\ TraceLength \in Nat
\* What the trace reader makes of a line: a branch writes no register.
ASSUME OpsAssumption ==
    /\ Ops \subseteq Operation
    /\ \A o \in Ops : o.op = "BRANCH" => o.dest_reg = NULL
ASSUME NullAssumption == NULL \notin Nat /\ NULL \notin Reg

VARIABLES
    opsLeft,            \* processor -> operations left in its trace
    counter,            \* the next tag
    instr,              \* tag -> operation, of the operations in the pipeline
    src,                \* tag -> tags that its operands are waiting for
    dispatch_queue,
    schedule_queue,     \* both of them
    fired,
    fast,               \* in a fast unit
    long,               \* stage -> in that stage of a long unit
    state_update_queue,
    buses,              \* the busy result buses: tag and register
    completed,          \* pulled from the state update queue in this pass
    regs,               \* register -> tag it is waiting for, NULL when it is ready
    memOpTag,           \* processor -> operation it waits for, or NULL
    pendingBranch,      \* processor -> is it stalled by a misprediction?
    requested,          \* external: accesses that the cache has not answered
    stage, i, f,        \* where tick is: stage, processor, operations fetched
    progress

queueVars == <<dispatch_queue, schedule_queue, state_update_queue>>
unitVars  == <<fired, fast, long>>
stallVars == <<memOpTag, pendingBranch, requested>>
pipeVars  == <<opsLeft, counter, instr, src, queueVars, unitVars, buses,
               completed, regs, stallVars>>
vars      == <<pipeVars, stage, i, f, progress>>

Proc == 1 .. processorCount
Tag  == 1 .. counter - 1
Slot == 0 .. 2

IsLong(t)   == instr[t].op = "ALU_LONG"
IsMem(t)    == instr[t].op \in {"MEM_LOAD", "MEM_STORE"}
IsBranch(t) == instr[t].op = "BRANCH"

LongQueue == {t \in schedule_queue : IsLong(t)}
FastQueue == schedule_queue \ LongQueue
InUnits   == fast \cup UNION {long[s] : s \in Slot}

\* The first n of a queue.
First(n, queue) == {t \in queue : Cardinality({u \in queue : u < t}) < n}

Init ==
    /\ opsLeft \in [Proc -> 0 .. TraceLength]
    /\ counter = 1
    /\ instr = [t \in {} |-> NULL]
    /\ src = [t \in {} |-> {}]
    /\ dispatch_queue = {}
    /\ schedule_queue = {}
    /\ fired = {}
    /\ fast = {}
    /\ long = [s \in Slot |-> {}]
    /\ state_update_queue = {}
    /\ buses = {}
    /\ completed = {}
    /\ regs = [r \in Reg |-> NULL]
    /\ memOpTag = [p \in Proc |-> NULL]
    /\ pendingBranch = [p \in Proc |-> FALSE]
    /\ requested = {}
    /\ stage = "clock"
    /\ i = 1
    /\ f = 0
    /\ progress = FALSE

-----------------------------------------------------------------------------
(* The stages of a tick.                                                   *)

Goto(next, moved) ==
    /\ stage' = next
    /\ progress' = (progress \/ moved)

\* cs->si.tick(): the cache calls back for some accesses (external). A callback
\* for another access than the one waited for is ignored (memOpCallback).
Clock ==
    /\ stage = "clock"
    /\ \E answered \in SUBSET requested :
        /\ requested' = requested \ answered
        /\ memOpTag' = [p \in Proc |-> IF memOpTag[p] \in answered THEN NULL ELSE memOpTag[p]]
    /\ stage' = "update"
    /\ progress' = FALSE
    /\ UNCHANGED <<opsLeft, counter, instr, src, queueVars, unitVars, buses, completed,
                   regs, pendingBranch, i, f>>

\* The buses write the registers that wait for them and are free again; then the
\* state update unit puts the oldest finished operations on them.
UpdateState ==
    LET pulled == First(C, state_update_queue)
    IN  /\ stage = "update"
        /\ regs' = [r \in Reg |->
                       IF \E b \in buses : b.reg_id = r /\ b.tag = regs[r] THEN NULL ELSE regs[r]]
        /\ buses' = {[tag |-> t, reg_id |-> instr[t].dest_reg] : t \in {u \in pulled : ~IsBranch(u)}}
        /\ completed' = pulled
        /\ state_update_queue' = state_update_queue \ pulled
        /\ Goto("execute", buses # {} \/ pulled # {})
        /\ UNCHANGED <<opsLeft, counter, instr, src, dispatch_queue, schedule_queue, unitVars,
                       stallVars, i, f>>

\* Slip: an access does not wait for its answer.
NobodyStays == {}

\* An access stays in its unit until the cache has answered.
Staying == {t \in fast : IsMem(t) /\ memOpTag[i] # NULL}

Execute ==
    /\ stage = "execute"
    /\ fast' = Staying
    /\ long' = [s \in Slot |-> IF s = 0 THEN {} ELSE long[s - 1]]
    /\ state_update_queue' = state_update_queue \cup (fast \ Staying) \cup long[2]
    /\ Goto("schedule", InUnits # {})
    /\ UNCHANGED <<opsLeft, counter, instr, src, dispatch_queue, schedule_queue, fired, buses,
                   completed, regs, stallVars, i, f>>

\* Slip: what has its operands is fired, again if need be.
IndependentAgain(t) == src[t] = {}

\* An operation may fire when it has its operands and, for an access, when no
\* other access is under way.
Independent(t) == t \notin fired /\ src[t] = {}

ReadyFast ==
    LET accesses == {t \in FastQueue : Independent(t) /\ IsMem(t)}
    IN  {t \in FastQueue : Independent(t) /\ ~IsMem(t)}
            \cup (IF memOpTag[i] = NULL THEN First(1, accesses) ELSE {})

ReadyLong == {t \in LongQueue : Independent(t)}

Schedule ==
    LET toFast == First(J - Cardinality(fast), ReadyFast)
        toLong == First(K - Cardinality(long[0]), ReadyLong)
        access == {t \in toFast : IsMem(t)}
    IN  /\ stage = "schedule"
        /\ fast' = fast \cup toFast
        /\ long' = [long EXCEPT ![0] = @ \cup toLong]
        /\ fired' = fired \cup toFast \cup toLong
        /\ memOpTag' = [memOpTag EXCEPT ![i] = IF access = {} THEN @ ELSE Max(access)]
        /\ requested' = requested \cup access
        /\ Goto("dispatch", toFast \cup toLong # {})
        /\ UNCHANGED <<opsLeft, counter, instr, src, queueVars, buses, completed, regs,
                       pendingBranch, i, f>>

-----------------------------------------------------------------------------
(* Dispatch. A full schedule queue holds up the operations of its own kind  *)
(* only.                                                                   *)

Dispatched ==
    LET waiting == {t \in dispatch_queue : IsLong(t)}
    IN  First(M * K - Cardinality(LongQueue), waiting)
            \cup First(M * J - Cardinality(FastQueue), dispatch_queue \ waiting)

\* Who writes r when the operations of "before" are dispatched: the last of
\* them that has r as destination, or else the one the register waits for.
Writer(r, before) ==
    LET writers == {t \in before : instr[t].dest_reg = r}
    IN  IF writers # {} THEN Max(writers) ELSE regs[r]

Operands(t) ==
    {Writer(r, {u \in Dispatched : u < t}) : r \in instr[t].src_reg} \ {NULL}

\* Slip: the buses are read before the operations are in the schedule queue.
SourcesMissed(t) ==
    IF t \in Dispatched THEN Operands(t) ELSE src[t] \ {b.tag : b \in buses}

\* What t waits for after dispatch and after the schedule queues have been
\* updated from the result buses.
Sources(t) ==
    (IF t \in Dispatched THEN Operands(t) ELSE src[t]) \ {b.tag : b \in buses}

Dispatch ==
    /\ stage = "dispatch"
    /\ dispatch_queue' = dispatch_queue \ Dispatched
    /\ schedule_queue' = schedule_queue \cup Dispatched
    /\ src' = [t \in DOMAIN instr |-> Sources(t)]
    /\ regs' = [r \in Reg |-> Writer(r, Dispatched)]
    /\ Goto("fetch", Dispatched # {} \/ \E t \in schedule_queue : Sources(t) # src[t])
    /\ f' = 0
    /\ UNCHANGED <<opsLeft, counter, instr, state_update_queue, unitVars, buses, completed,
                   stallVars, i>>

-----------------------------------------------------------------------------
(* Fetch, and the end of the pass.                                         *)

\* Slip: the dispatch queue is full one operation later.
MayFetchOneMore ==
    /\ f < F
    /\ ~pendingBranch[i]
    /\ Cardinality(dispatch_queue) <= D * (M * J + M * K)
    /\ opsLeft[i] > 0

MayFetch ==
    /\ f < F
    /\ ~pendingBranch[i]
    /\ Cardinality(dispatch_queue) < D * (M * J + M * K)
    /\ opsLeft[i] > 0

\* The next operation of the trace; a branch may be mispredicted.
Fetch(o, mispredicted) ==
    /\ stage = "fetch"
    /\ MayFetch
    /\ mispredicted => o.op = "BRANCH"
    /\ instr' = [t \in DOMAIN instr \cup {counter} |-> IF t = counter THEN o ELSE instr[t]]
    /\ src' = [t \in DOMAIN instr \cup {counter} |-> IF t = counter THEN {} ELSE src[t]]
    /\ dispatch_queue' = dispatch_queue \cup {counter}
    /\ counter' = counter + 1
    /\ opsLeft' = [opsLeft EXCEPT ![i] = @ - 1]
    /\ pendingBranch' = [pendingBranch EXCEPT ![i] = mispredicted]
    /\ f' = f + 1
    /\ progress' = TRUE
    /\ UNCHANGED <<schedule_queue, state_update_queue, unitVars, buses, completed, regs,
                   memOpTag, requested, stage, i>>

FetchEnds ==
    /\ stage = "fetch"
    /\ ~MayFetch
    /\ stage' = "retire"
    /\ UNCHANGED <<pipeVars, i, f, progress>>

\* Slip: a completed branch does not end the stall.
StallsOn == pendingBranch[i]

\* Any completed branch ends the stall.
StallsStill == pendingBranch[i] /\ \A t \in completed : ~IsBranch(t)

\* Completed operations leave the schedule queues. After the last processor of
\* the pass the tick ends, and with it the simulation if nothing has moved.
Retire ==
    LET moved == progress \/ completed # {}
        staying == DOMAIN instr \ completed
    IN  /\ stage = "retire"
        /\ instr' = [t \in staying |-> instr[t]]
        /\ src' = [t \in staying |-> src[t]]
        /\ schedule_queue' = schedule_queue \ completed
        /\ fired' = fired \ completed
        /\ pendingBranch' = [pendingBranch EXCEPT ![i] = StallsStill]
        /\ completed' = {}
        /\ IF i < processorCount
           THEN /\ i' = i + 1
                /\ stage' = "update"
           ELSE /\ i' = 1
                /\ stage' = IF moved \/ \E p \in Proc : memOpTag[p] # NULL THEN "clock" ELSE "end"
        /\ progress' = moved
        /\ UNCHANGED <<opsLeft, counter, dispatch_queue, state_update_queue, fast, long, buses,
                       regs, memOpTag, requested, f>>

Next ==
    \/ Clock
    \/ UpdateState
    \/ Execute
    \/ Schedule
    \/ Dispatch
    \/ \E o \in Ops, mispredicted \in BOOLEAN : Fetch(o, mispredicted)
    \/ FetchEnds
    \/ Retire

Spec == Init /\ [][Next]_vars

\* The program goes on, and the cache answers every access in the end (for
\* cache-p4 that is RequestsServed of CacheP4).
PipelineSpec ==
    /\ Spec
    /\ WF_vars(Next)
    /\ SF_vars(Clock /\ requested' # requested)

-----------------------------------------------------------------------------
(* Properties.                                                             *)

\* Types, and the capacities of queues, units and buses (processor.c:220).
PipelineTypeOK ==
    /\ opsLeft \in [Proc -> 0 .. TraceLength]
    /\ counter \in Nat \ {0}
    /\ DOMAIN instr \subseteq Tag /\ \A t \in DOMAIN instr : instr[t] \in Ops
    /\ DOMAIN src = DOMAIN instr /\ \A t \in DOMAIN src : src[t] \subseteq Tag
    /\ DOMAIN instr = dispatch_queue \cup schedule_queue
    /\ dispatch_queue \cap schedule_queue = {}
    /\ Cardinality(dispatch_queue) <= D * (M * J + M * K)
    /\ Cardinality(LongQueue) <= M * K /\ Cardinality(FastQueue) <= M * J
    /\ fired \subseteq schedule_queue
    /\ Cardinality(fast) <= J
    /\ long \in [Slot -> SUBSET fired] /\ \A s \in Slot : Cardinality(long[s]) <= K
    /\ state_update_queue \subseteq fired
    /\ buses \subseteq [tag : Tag, reg_id : Reg \cup {NULL}] /\ Cardinality(buses) <= C
    /\ completed \subseteq fired
    /\ regs \in [Reg -> Tag \cup {NULL}]
    /\ memOpTag \in [Proc -> Tag \cup {NULL}]
    /\ pendingBranch \in [Proc -> BOOLEAN]
    /\ requested \subseteq Tag
    /\ stage \in {"clock", "update", "execute", "schedule", "dispatch", "fetch", "retire", "end"}
    /\ i \in Proc /\ f \in 0 .. F /\ progress \in BOOLEAN

\* The operations whose result for r is still to come: those on their way to a
\* bus, and those on a bus that is still to be read.
Producing(r, onBus) ==
    {t \in schedule_queue \ completed : instr[t].dest_reg = r}
        \cup {b.tag : b \in {c \in buses : onBus /\ c.reg_id = r}}

\* No wake-up is lost: whatever an operation in a schedule queue or a register
\* waits for will still be broadcast. A result is broadcast in one tick only, in
\* which operations are dispatched too (processor.c:645, processor.c:676).
EveryWaitIsLive ==
    /\ \A t \in schedule_queue :
        src[t] \subseteq UNION {Producing(r, stage \in {"execute", "schedule", "dispatch"})
                                    : r \in instr[t].src_reg}
    /\ \A r \in Reg : regs[r] # NULL => regs[r] \in Producing(r, TRUE)

\* A fired operation is in one place, on its way from a unit to the end of the
\* pass in which it completes: nothing is executed twice, dropped, or left in a
\* unit (processor.c:470, processor.c:783).
FiredIsUnderWay ==
    /\ fired = InUnits \cup state_update_queue \cup completed
    /\ state_update_queue \cap completed = {}
    /\ InUnits \cap (state_update_queue \cup completed) = {}
    /\ fast \cap UNION {long[s] : s \in Slot} = {}
    /\ \A s1, s2 \in Slot : s1 # s2 => long[s1] \cap long[s2] = {}

\* With one processor the access that is waited for is the only one the cache
\* has, it sits in a unit, and no access has gone on without its answer
\* (processor.c:331, processor.c:476, processor.c:553).
AccessesAnswered ==
    processorCount = 1 =>
        /\ requested = {memOpTag[p] : p \in Proc} \ {NULL}
        /\ requested \subseteq fast
        /\ \A t \in requested : IsMem(t)

\* Everything in the traces has been executed and nothing is left over.
AllDone ==
    /\ stage = "end"
    /\ DOMAIN instr = {}
    /\ \A p \in Proc : opsLeft[p] = 0
    /\ \A r \in Reg : regs[r] = NULL
    /\ requested = {}

\* The simulation ends, and not before the traces are executed: tick reports
\* progress as long as anything can still move (processor.c:408, processor.c:802).
PipelineFinishes == <>AllDone

\* "mark indep instructions in schedule queue to fire" (processor.c:520): an
\* operation that reads what the one just before it writes does not fire while
\* that one is still in the pipeline. The code keeps this only as long as no
\* operation overtakes another in dispatch.
OnlyIndependentFire ==
    [][\A t \in fired' \ fired :
        t - 1 \in DOMAIN instr => instr[t - 1].dest_reg \notin instr[t].src_reg]_vars
=============================================================================
