---------------------------- MODULE ProcessorP3 ----------------------------
(***************************************************************************)
(* processor-p3/processor.c: the pipeline before it had a memory and a     *)
(* predictor. Only ALU operations enter it; others are taken from the trace *)
(* and dropped.                                                            *)
(*                                                                         *)
(* The queues are sequences of tags here, with the code's ways to push and *)
(* delete, units and buses have numbers, and the loops of a stage are folds *)
(* over the queues. ProcessorP4 describes the same stages with sets; that  *)
(* this pipeline implements it is a property (ImplementsProcessorP4).      *)
(***************************************************************************)
EXTENDS Integers, FiniteSetsExt, SequencesExt

CONSTANTS
    processorCount,
    F,                  \* operations fetched per tick
    D, M,               \* multipliers of the dispatch and schedule queues
    J, K, C,            \* fast units, long units, result buses
    Reg,
    Register0,          \* register number 0
    Ops,                \* operations that may be in a trace
    TraceLength,        \* bound: operations of a trace
    NULL                \* -1 for a register, the null pointer for an operation

P3Operation ==
    [op : {"ALU", "ALU_LONG", "MEM_LOAD", "MEM_STORE", "BRANCH"},
     dest_reg : Reg \cup {NULL},
     src_reg : [1 .. 2 -> Reg \cup {NULL}]]

ASSUME P3Assumption ==
    /\ processorCount \in Nat \ {0}
    /\ {F, D, M, J, K} \subseteq Nat \ {0}
    /\ C \in 1 .. 4                         \* completed[4]
    /\ TraceLength \in Nat
    /\ Ops \subseteq P3Operation
    /\ Register0 \in Reg
    /\ NULL \notin Nat /\ NULL \notin Reg

VARIABLES
    opsLeft,            \* processor -> operations left in its trace
    counter,            \* the next tag
    instr,              \* tag -> operation, of the operations in the pipeline
    src_arr,            \* tag -> for each operand the tag it waits for, or NULL
    fired,              \* tags of the operations that have been fired
    dispatch_queue,
    long_schedule_queue,
    fast_schedule_queue,
    state_update_queue,
    FU_pipeline,        \* unit -> stage -> tag, or NULL
    buses,              \* bus -> what is on it; the tag is NULL when it is not busy
    completed,          \* pulled from the state update queue in this pass, in order
    regs,               \* register -> tag it is waiting for, NULL when it is ready
    stage, i, f,        \* where tick is: stage, processor, operations fetched
    progress

p3Queues == <<dispatch_queue, long_schedule_queue, fast_schedule_queue, state_update_queue>>
p3Vars == <<opsLeft, counter, instr, src_arr, fired, p3Queues, FU_pipeline, buses,
            completed, regs, stage, i, f, progress>>

Proc == 1 .. processorCount
Unit == 1 .. J + K      \* the first J are fast
Slot == 0 .. 2

IsLong(t) == instr[t].op = "ALU_LONG"

InUnits == {FU_pipeline[j][s] : j \in Unit, s \in Slot} \ {NULL}
IdleBus == [tag |-> NULL, reg_id |-> NULL]
OnBuses == {b \in Range(buses) : b.tag # NULL}

\* Slip: the queue of finished operations is a plain one.
PriorityPushLast(q, t) == Append(q, t)

\* Before the first younger operation.
PriorityPush(q, t) ==
    LET younger == SelectInSeq(q, LAMBDA u : u > t)
    IN  IF younger = 0 THEN Append(q, t) ELSE InsertAt(q, younger, t)

queue_push(q, t) == Append(q, t)

queue_delete(q, t) == RemoveFirst(q, t)

P3Init ==
    /\ opsLeft \in [Proc -> 0 .. TraceLength]
    /\ counter = 1
    /\ instr = [t \in {} |-> NULL]
    /\ src_arr = [t \in {} |-> NULL]
    /\ fired = {}
    /\ dispatch_queue = <<>>
    /\ long_schedule_queue = <<>>
    /\ fast_schedule_queue = <<>>
    /\ state_update_queue = <<>>
    /\ FU_pipeline = [j \in Unit |-> [s \in Slot |-> NULL]]
    /\ buses = [c \in 1 .. C |-> IdleBus]
    /\ completed = <<>>
    /\ regs = [r \in Reg |-> NULL]
    /\ stage = "clock"
    /\ i = 1
    /\ f = 0
    /\ progress = FALSE

Goto(next, moved) ==
    /\ stage' = next
    /\ progress' = (progress \/ moved)

-----------------------------------------------------------------------------
(* The stages of a tick, from back to front.                               *)

\* Predictor and cache tick; nothing comes back from them.
Clock ==
    /\ stage = "clock"
    /\ stage' = "update"
    /\ progress' = FALSE
    /\ UNCHANGED <<opsLeft, counter, instr, src_arr, fired, p3Queues, FU_pipeline, buses,
                   completed, regs, i, f>>

\* The buses write the registers and are free again; the next C operations of the
\* state update queue get them.
UpdateState ==
    LET n == Min({C, Len(state_update_queue)})
        pulled == SubSeq(state_update_queue, 1, n)
    IN  /\ stage = "update"
        /\ regs' = [r \in Reg |->
                       IF \E b \in OnBuses : b.reg_id = r /\ b.tag = regs[r] THEN NULL ELSE regs[r]]
        /\ buses' = [c \in 1 .. C |->
                       IF c <= n
                       THEN [tag |-> pulled[c], reg_id |-> instr[pulled[c]].dest_reg]
                       ELSE IdleBus]
        /\ completed' = pulled
        /\ state_update_queue' = SubSeq(state_update_queue, n + 1, Len(state_update_queue))
        /\ Goto("execute", OnBuses # {} \/ n > 0)
        /\ UNCHANGED <<opsLeft, counter, instr, src_arr, fired, dispatch_queue,
                       long_schedule_queue, fast_schedule_queue, FU_pipeline, i, f>>

PushFinished(q, t) == IF t = NULL THEN q ELSE PriorityPush(q, t)

\* Every unit moves on by one stage; a fast one has only the first.
Execute ==
    LET ends == [j \in Unit |-> IF j <= J THEN FU_pipeline[j][0] ELSE FU_pipeline[j][2]]
    IN  /\ stage = "execute"
        /\ FU_pipeline' = [j \in Unit |-> [s \in Slot |->
                              IF s = 0 \/ j <= J THEN NULL ELSE FU_pipeline[j][s - 1]]]
        /\ state_update_queue' = FoldLeft(PushFinished, state_update_queue, ends)
        /\ Goto("schedule", InUnits # {})
        /\ UNCHANGED <<opsLeft, counter, instr, src_arr, fired, dispatch_queue,
                       long_schedule_queue, fast_schedule_queue, buses, completed, regs, i, f>>

\* t goes to the first free unit of its kind, if it may go at all.
Fire(units, t) ==
    LET free == {j \in Unit : units[j][0] = NULL /\ (IsLong(t) <=> j > J)}
    IN  IF t \in fired \/ Range(src_arr[t]) # {NULL} \/ free = {}
        THEN units
        ELSE [units EXCEPT ![Min(free)][0] = t]

Schedule ==
    LET units == FoldLeft(Fire, FU_pipeline, long_schedule_queue \o fast_schedule_queue)
    IN  /\ stage = "schedule"
        /\ FU_pipeline' = units
        /\ fired' = fired \cup ({units[j][0] : j \in Unit} \ {NULL})
        /\ Goto("dispatch", units # FU_pipeline)
        /\ UNCHANGED <<opsLeft, counter, instr, src_arr, p3Queues, buses, completed, regs, i, f>>

-----------------------------------------------------------------------------
(* Dispatch: a loop over the dispatch queue, whose state is a record.       *)

\* An operation that lacks a source reads register 0 for both.
Source(t, n) ==
    IF NULL \in Range(instr[t].src_reg) THEN Register0 ELSE instr[t].src_reg[n]

\* One turn of the loop. A full schedule queue holds up operations of its own kind.
DispatchOne(loop, t) ==
    LET full == IF IsLong(t) THEN Len(loop.long) = M * K ELSE Len(loop.fast) = M * J
        dest == instr[t].dest_reg
    IN  IF full THEN loop
        ELSE [rest |-> queue_delete(loop.rest, t),
              long |-> IF IsLong(t) THEN queue_push(loop.long, t) ELSE loop.long,
              fast |-> IF IsLong(t) THEN loop.fast ELSE queue_push(loop.fast, t),
              src  |-> [loop.src EXCEPT ![t] = [n \in 1 .. 2 |-> loop.regs[Source(t, n)]]],
              regs |-> IF dest = NULL THEN loop.regs ELSE [loop.regs EXCEPT ![dest] = t]]

\* Slip: what is on the buses reaches only operations dispatched before.
WokenBefore(src, t) ==
    IF t \in Range(dispatch_queue) THEN src[t]
    ELSE [n \in 1 .. 2 |-> IF src[t][n] \in {b.tag : b \in OnBuses} THEN NULL ELSE src[t][n]]

\* The operands of t when the results on the buses have been seen (schedule a).
Woken(src, t) ==
    [n \in 1 .. 2 |-> IF src[t][n] \in {b.tag : b \in OnBuses} THEN NULL ELSE src[t][n]]

Dispatch ==
    LET loop == FoldLeft(DispatchOne,
                    [rest |-> dispatch_queue, long |-> long_schedule_queue,
                     fast |-> fast_schedule_queue, src |-> src_arr, regs |-> regs],
                    dispatch_queue)
        woken == [t \in DOMAIN instr |-> Woken(loop.src, t)]
    IN  /\ stage = "dispatch"
        /\ dispatch_queue' = loop.rest
        /\ long_schedule_queue' = loop.long
        /\ fast_schedule_queue' = loop.fast
        /\ src_arr' = woken
        /\ regs' = loop.regs
        /\ Goto("fetch", loop.rest # dispatch_queue \/ woken # loop.src)
        /\ f' = 0
        /\ UNCHANGED <<opsLeft, counter, instr, fired, state_update_queue, FU_pipeline, buses,
                       completed, i>>

-----------------------------------------------------------------------------
(* Fetch, and the end of the pass.                                         *)

MayFetch ==
    /\ f < F
    /\ Len(dispatch_queue) < D * (M * J + M * K)
    /\ opsLeft[i] > 0

TakeOp ==
    /\ stage = "fetch"
    /\ MayFetch
    /\ opsLeft' = [opsLeft EXCEPT ![i] = @ - 1]
    /\ f' = f + 1
    /\ progress' = TRUE

Fetch(o) ==
    /\ TakeOp
    /\ o.op \in {"ALU", "ALU_LONG"}
    /\ instr' = [t \in DOMAIN instr \cup {counter} |-> IF t = counter THEN o ELSE instr[t]]
    /\ src_arr' = [t \in DOMAIN instr \cup {counter} |->
                      IF t = counter THEN <<NULL, NULL>> ELSE src_arr[t]]
    /\ dispatch_queue' = queue_push(dispatch_queue, counter)
    /\ counter' = counter + 1
    /\ UNCHANGED <<fired, long_schedule_queue, fast_schedule_queue, state_update_queue,
                   FU_pipeline, buses, completed, regs, stage, i>>

\* No arm of the switch is for the operation: it counts as progress and is gone.
Drop(o) ==
    /\ TakeOp
    /\ o.op \notin {"ALU", "ALU_LONG"}
    /\ UNCHANGED <<counter, instr, src_arr, fired, p3Queues, FU_pipeline, buses, completed,
                   regs, stage, i>>

FetchEnds ==
    /\ stage = "fetch"
    /\ ~MayFetch
    /\ stage' = "retire"
    /\ UNCHANGED <<opsLeft, counter, instr, src_arr, fired, p3Queues, FU_pipeline, buses,
                   completed, regs, i, f, progress>>

\* Completed operations leave the schedule queues and are freed. The tick ends
\* with the last processor, and the simulation with a tick that moved nothing.
Retire ==
    LET moved == progress \/ completed # <<>>
        staying == DOMAIN instr \ Range(completed)
        Left(q) == FoldLeft(queue_delete, q, completed)
    IN  /\ stage = "retire"
        /\ instr' = [t \in staying |-> instr[t]]
        /\ src_arr' = [t \in staying |-> src_arr[t]]
        /\ long_schedule_queue' = Left(long_schedule_queue)
        /\ fast_schedule_queue' = Left(fast_schedule_queue)
        /\ fired' = fired \ Range(completed)
        /\ completed' = <<>>
        /\ IF i < processorCount
           THEN i' = i + 1 /\ stage' = "update"
           ELSE i' = 1 /\ stage' = IF moved THEN "clock" ELSE "end"
        /\ progress' = moved
        /\ UNCHANGED <<opsLeft, counter, dispatch_queue, state_update_queue, FU_pipeline,
                       buses, regs, f>>

P3Next ==
    \/ Clock
    \/ UpdateState
    \/ Execute
    \/ Schedule
    \/ Dispatch
    \/ \E o \in Ops : Fetch(o)
    \/ \E o \in Ops : Drop(o)
    \/ FetchEnds
    \/ Retire

P3Spec == P3Init /\ [][P3Next]_p3Vars

\* A sequential program: it goes on as long as it can.
P3FairSpec == P3Spec /\ WF_p3Vars(P3Next)

-----------------------------------------------------------------------------
(* Properties.                                                             *)

\* What ProcessorP4 sees of an operation: the registers it reads.
Seen(o) ==
    [op |-> o.op, dest_reg |-> o.dest_reg,
     src_reg |-> IF NULL \in Range(o.src_reg) THEN {Register0} ELSE Range(o.src_reg)]

SeenInstr == [t \in DOMAIN instr |-> Seen(instr[t])]
WaitsFor  == [t \in DOMAIN src_arr |-> Range(src_arr[t]) \ {NULL}]
InSchedule == Range(long_schedule_queue) \cup Range(fast_schedule_queue)
InFast     == {FU_pipeline[j][0] : j \in 1 .. J} \ {NULL}
InLong     == [s \in Slot |-> {FU_pipeline[j][s] : j \in J + 1 .. J + K} \ {NULL}]

P4 == INSTANCE ProcessorP4 WITH
    Ops <- {Seen(o) : o \in Ops},
    instr <- SeenInstr,
    src <- WaitsFor,
    dispatch_queue <- Range(dispatch_queue),
    schedule_queue <- InSchedule,
    state_update_queue <- Range(state_update_queue),
    fast <- InFast,
    long <- InLong,
    buses <- OnBuses,
    completed <- Range(completed),
    memOpTag <- [p \in Proc |-> NULL],
    pendingBranch <- [p \in Proc |-> FALSE],
    requested <- {}

\* Queues kept in order by push and delete, numbered units and the loops over them
\* do what ProcessorP4 says of sets of operations: the oldest finished ones get the
\* buses, each kind is dispatched in order, the oldest ready ones are fired. Only
\* dropping an operation is no step of ProcessorP4.
ImplementsProcessorP4 ==
    P4!Init /\ [][P4!Next \/ \E o \in Ops : Drop(o)]_p3Vars

\* The simulation ends, and not before all that has entered the pipeline has left
\* it and every register is ready: no operation waits for a result that it missed.
P3Finishes ==
    <>(/\ stage = "end"
       /\ DOMAIN instr = {}
       /\ \A p \in Proc : opsLeft[p] = 0
       /\ \A r \in Reg : regs[r] = NULL)
=============================================================================
