# CADSS: a verification project

CADSS is a trace-driven simulator of a multiprocessor: processors, branch
predictors, caches, cache coherence, a bus and a memory, each a shared library
with a small interface (`src/common/*.h`) that the engine loads. This directory
has TLA+ models of its components, configurations that model-check them with
TLC, and theorems about them that TLAPS checks. The models are translations of
the code; the code, not its comments, says what they do.

## 1. Inventory

The program is single-threaded and deterministic given its traces. Its
concurrency is simulated: everything below a processor advances by one tick when
the processor ticks, top-down (`processor.tick` -> `branch.tick`, `cache.tick` ->
`coherence.tick` -> `interconnect.tick` -> `memory.tick`), callbacks come
bottom-up from inside those ticks, and the traces decide which requests meet.

| Component | State | Operations | What makes it correct |
|---|---|---|---|
| engine (`engine/engine.c`) | - | loads components, ticks the processor until a tick makes no progress | it stops, and not too early |
| trace reader (`trace/trace.c`) | position in each trace | `getNextOp` | each processor gets its operations in order, once |
| processor, starter (`processor/processor.c`) | `pendingMem`, `pendingBranch`, `memOpTag` per processor | `tick`, `memOpCallback` | one access at a time, no callback lost or taken for a stale one |
| processor-p3, processor-p4 | dispatch queue, reservation stations, units, result buses | `tick` in pipeline stages, callbacks | in-order state update, no resource leaked, no deadlock |
| splay trees (`coherence-p5/stree.c`) | root, links, records, count | `tree_insert`, `tree_find`, `tree_find_nearest`, `tree_remove` | no line is lost or changed when the tree is turned over |
| csim (`csim.c`) | sets of lines, statistics | `load`, `store` for each line of a trace | the statistics are those of the contents |
| branch-p2 (`branch-p2/branch.c`) | `counter`, `BTB`, `BHR` | `branchRequest` | lookups in range, a predicted jump has a target, steady branches are learnt |
| simpleCache (`simpleCache/cache.c`) | `pendReq`, `readyReq` | `memoryRequest`, `coherCallback`, `tick` | every answer finds its access |
| cache-p4 (`cache-p4/cache.c`) | main sets, victim cache, `memReqQueue` | `memoryRequest`, `coherCallback`, `advanceQueue`, `tick` | arrays, queue and coherence agree; lines are not lost, doubled or renamed |
| coherence-p5 (`coherence-p5/coherence.c`, `protocol.c`) | state of each line in each processor (splay trees) | `permReq`, `busReq`, `invlReq` | one writer or many readers; every miss is answered |
| interconnect (`interconnect/interconnect.c`) | `pendingRequest`, a FIFO queue per processor, `countDown`, `lastProc` | `busReq`, `memReqCallback`, `busReqCacheTransfer`, `tick` | requests are served one at a time and none is lost |
| memory (`memory/memory.c`) | `pendingRequest`, `countDown` | `busReq`, `tick` | in step with the bus; squelched when a cache has the line |

Where it is hard: requests of several processors interleave with snoops of the
same line and with each other in the queues; a fetch races a cache-to-cache
transfer; bus, memory and caches each keep a view of the same request and match
it by address, processor or tag; the callbacks re-enter the component that is
delivering; the tag arrays run ahead of coherence. `PROJECT.json` lists the
hazards line by line with the properties that watch them.

Not modelled: the configuration parser and the debugger (text and terminal I/O,
with no state that others depend on), the scanning of trace files, the vendored
Contech library, the starters of branch and cache (stubs that predict every branch
right and answer every access after a fixed delay) and the reference libraries
(binaries). The starter of coherence is `Coherence` with `cs = "MI"`. `cache-p1` is
cache-p4 with one list of requests in the place of a queue of lists, for one access
at a time; its arrays are the same code. `CacheP4` with `MaxOutstanding = 1` describes
it, but has not been checked against that file.

## 2. Modules

    CoherenceProtocol   tables: cacheXXX, snoopXXX of MI, MSI, MESI, MOESI, MESIF
    Memory              memory.c                      (operators on its state)
    Interconnect        interconnect.c                EXTENDS Memory, CoherenceProtocol
    Coherence           coherence.c on bus, memory    EXTENDS Interconnect
      LinePermissions     abstract: exclusive right to write
      CoherenceProof      theorems
      MCCoherence
    SimpleCache         simpleCache/cache.c           EXTENDS Coherence
    Simulator           processor.c, engine loop      EXTENDS SimpleCache
      SimulatorProof      theorems
      MCSimulator
    CacheArray          tag arrays of cache-p4
      LineStore           abstract: a set of lines, some of them dirty
      MCCacheArray
    CacheP4             request queue of cache-p4     EXTENDS Coherence, CacheArray
      CacheP4Proof        theorems, about CacheArray too
      MCCacheP4
    BranchPredictor     branch-p2/branch.c
      BranchPredictorProof  theorems
      MCBranchPredictor
    SplayTree           stree.c                       (operators on trees)
    StateTable          getState, setState on it      EXTENDS SplayTree
      LineStates          abstract: a function from lines to states
      StateTableProof     theorems
      MCStateTable
    Csim                csim.c
      CsimAgainstP4       csim and cache-p4 in step     EXTENDS Csim, INSTANCE CacheArray
      CsimProof           theorems about both
      MCCsim
    ProcessorP3         pipeline of processor-p3      INSTANCE ProcessorP4 (refined)
      ProcessorP3Proof    theorems
      MCProcessorP3
    ProcessorP4         pipeline of processor-p4
      ProcessorP4Proof    theorems
      MCProcessorP4

### Coherence, bus and memory

A tick of the bus runs the memory's tick, the count-down or the arbitration, and
every snoop or delivery that follows, without anything else in between; so it is
one action (`CountDown`, `Arbitrate`, `IdleTick`, `SnoopBroadcast`, `Deliver`).
`PermReq` is a request of a local cache between two ticks. `Memory` and
`Interconnect` define the parts of these actions that are theirs.

`dataAvail` and the state `TRANSFERING_MEMORY` never outlive the tick that sets
them, because the memory is ticked by the bus: the first is the state function
`DataAvail`, the second is not a state. `NO_REQ`, `QUEUED` and the field `data`
are likewise implied. A line that is absent from the splay tree is INVALID.

The tables are written as the code's arms are, the default arms included. Where
MESI, MOESI and MESIF agree, one refers to the other; the mapped lines in
`PROJECT.json` name each switch. In `SnoopMSI` the arms of MODIFIED and
SHARED_STATE run on into the arm of INVALID_MODIFIED, as the missing `break`s do.

### simpleCache, processor and engine

`Simulator` splits a tick of the processor into the parts the code runs one after
the other: `BelowTicks`, `Callbacks`, one step for each processor of the pass, and
`EndOfTick`, which is the engine's `while (progress)`. The two lists of simpleCache
are sets: the callbacks of one tick go to different processors, and a processor
has at most one access (`OneRequestEach`, checked). A trace is any sequence of
loads, stores, branches and other operations; only its length is kept.

The scheme is a constant of these modules, as it is an option of the program.
`MCSimulator` takes it from the initial state instead (`Under(s)` is the simulator
with `cs = s`), so that one run has them all.

### splay tree

`Coherence` keeps the states of lines in a function; the code keeps them in one
splay tree for each processor. `SplayTree` has the pointers of that tree, and
`StateTable` the three ways in which coherence changes it: a new state, the
removal after a snoop (which looks for the line first) and the removal by
`invlReq` (which does not). That it implements `LineStates` is the reason why the
function may stand for the tree. A node is named by its key, which it has to itself.

### cache-p4

`CacheArray` has `cache_access`, `cache_access_victim` and `find_evict`. An address
is the number of its line, and the two ways of making a tag of it (`addr >> (s+b)`
in a set, `addr >> b` in the victim cache) and of putting the address together
again are kept. Only the order of LRU stamps is used by the code, so they are
renumbered after every step (`Store`), which makes runs of any length finite. The
loop of RRIP that raises all predictions until one is R is given in closed form.
With `s = 0` the code shifts by 64 bits to compute the set; the model gives the
set 0, which is what it means.

`CacheP4` is the queue. `isStarted` is a single variable: only the first request
of the first access can have been started. `DeliverEviction` is the re-entrant
callback: pop the eviction, ask coherence for the next line, which the bus has to
queue as it still shows the delivered request, and only then release the bus. The
cache keeps one `procNum`, so the model has one processor.

### branch-p2

One action. The exclusive or of GSHARE is a constant operator of which only the
range is assumed; TLC gets the real one. The model assumes 1 <= b <= s: with `-b`
absent or larger than `-s`, the history of GSHARE leaves the table, since
`BHR` then has more bits than the index.

### csim

A stand-alone program whose arrays cache-p4 has been made from. `Csim` has an action
for each return of `load` and `store`. `CsimAgainstP4` runs it next to `CacheArray`
(LRU, no victim cache) on the same trace; the two store their time stamps
differently, and agree on the order.

### processor-p3

The stages are those of processor-p4, which was made from it, and here they are
modelled the other way round: queues are sequences with the code's push and
delete, units and buses have numbers, and each loop of a stage is a fold.
`ProcessorP3` then is a refinement of `ProcessorP4`, in which the stages are sets
in closed form, with one exception (`Drop`): a load, a store or a branch is taken
from the trace, counts as progress and goes nowhere. An operation that lacks one
source reads register 0 for both.

### processor-p4

The tick of the pipeline calls its stages from back to front; each is an action,
and `stage` says which is next. The stages are written in closed form: which
operations move is a set, since the order in which the code's loops visit them is
the order of tags in every queue. (Dispatch may overtake, but only between the two
kinds of operations, which have a queue each.) `src` has the tags that an
operation waits for, that is, its operands that are not ready. An operation is
forgotten when it leaves, so that runs differ only in what is still under way.
Units and buses are counted and not numbered. The cache is external: it answers an
access in some tick, and not from inside `memoryRequest`, as simpleCache and
cache-p4 do. So is the predictor: a branch is mispredicted or not.

The trace reader decides which registers an operation has: loads and branches read
at most one and write none, stores read none (`trace.c:154`). With a destination
for a branch, which never uses a bus, its readers would wait for ever; so this is
an assumption of the module (`OpsAssumption`).

The module takes any number of processors, as the code does, and shows what comes
of it: the pipeline is shared, and with two processors a branch that completes in
the pass of the other one ends the wrong stall. The run has one.

## 3. What the runs show

| Run | Instance | Properties |
|---|---|---|
| `mesi` | MESI, 3 processors, 1 line, fair ticks | TypeOK, SingleWriter, TransientHasRequest, RequestMatchesWait, MemoryServesBus, AssertionsHold, ImplementsRights, BusServes, QuietDrains |
| `simulator` | whole simulator, MI, MESI, MOESI and MESIF, 3 processors, 2 lines, traces up to 3, 5 operations in all | SimTypeOK, AllCallbackAssertionsHold, OneRequestEach, ParkedWhileLineWaits, SingleOwner, LostOnlyToWriter, EndsQuietly |
| `cache_p4` | MI, 1 processor, 4 lines, 2 sets of 1 way, victim cache of 1, 2 accesses outstanding | P4TypeOK, ArraysMatchCoherence, StartedIsUnderWay, QueueAssertionsHold, RequestsServed |
| `tag_arrays` | LRU and RRIP (R = 3), 2 ways, victim cache of 1, 4 lines of one set | ArrayTypeOK, HomeSetsFull, VictimsAreOlder, ImplementsLineStore |
| `pipeline` | processor-p4, 1 processor, traces up to 5, queues of 3, 2 and 1, 3 units, 1 bus | PipelineTypeOK, EveryWaitIsLive, FiredIsUnderWay, AccessesAnswered, PipelineFinishes |
| `pipeline_p3` | processor-p3, 2 processors, traces up to 3, queues of 3, 2 and 1, 3 units, 1 bus | ImplementsProcessorP4, P3Finishes |
| `state_tree` | 5 lines, 2 states besides INVALID | TreeWellFormed, LookupsRight, ImplementsLineStates |
| `csim` | csim and cache-p4, 2 sets of 2 ways, 4 lines, traces up to 6 | StatsMatchContents, SameAsP4 |
| `branch` | all four models, 2 branches, tables of 2 | BranchTypeOK, TakenHasTarget, LearnsSteadyBranches |

Three runs show a disagreement between code and comments; each ends with a
counterexample:

- `msi_lost_request`: under MSI a shared line that sees another processor's read
  becomes INVALID_MODIFIED without having asked for anything (`protocol.c:152`),
  and its next access waits for ever.
- `mesif_silent_sharer`: the other holders do not indicate sharing
  (`protocol.c:550`), so that a reader becomes EXCLUSIVE next to a sharer. It takes
  three processors: one waiting to upgrade its FORWARD line, one sharer, and a
  reader that is served first; with two, MESIF keeps writers exclusive. MOESI has
  the same gap at `protocol.c:393`, where two processors that read the same line are
  enough. No run of the project checks SingleWriter under MOESI; `mesif_silent_sharer`
  with `cs = "MOESI"` and `processorCount = 2` finds it violated.
- `pipeline_overtakes`: when one schedule queue of processor-p4 is full, dispatch
  goes on with younger operations of the other kind (`processor.c:626`,
  `processor.c:634`), so that an operation fires before an older one whose result
  it reads, against "mark indep instructions" (`processor.c:520`). Only times are
  wrong, as the simulator has no values.

SingleWriter is the property that the two silent sharers break; the run `mesi` and
the proofs claim it for MI, MSI and MESI only. SingleOwner and LostOnlyToWriter, which
hold in all schemes of `simulator`, say who answers for a line and who may take it
away: a reader that gets a line EXCLUSIVE next to silent sharers breaks neither.

In `EndsQuietly` the simulation ends, and nothing is left over when it does: no
access that waits, no request, no data on its way. It is the property that a miss
taken by a free bus ahead of the queues (`interconnect.c:173`) could break; the wait
of a queued request is bounded by the other processors' traces only, since the
"round robin arbitration" of `interconnect.c:151` is among the queues.

### Bounds, and why they are enough

Coherence decides on one line at a time, so one line shows every interleaving of
the protocol; two lines make the queues longer than one and let requests for
different lines overtake. Three processors are what the roles of a line need
(owner, sharer, requester). A delay matters in two ways: whether another request
can come in before it is over, which needs two ticks, and that memory is slower
than a transfer, hence 2, 2 and 3 ticks for `CACHE_DELAY`, `CACHE_TRANSFER` and
`DRAM_FETCH_TICKS` (10, 10 and 90 in the code). With one processor (`cache_p4`) no
request meets another, and 1 tick each is enough.

In `pipeline` a tick may fetch more than the dispatch queue holds, both schedule
queues fill up and hold operations back, operations finish three at a time for one
bus, and five operations are enough for each of this to happen behind an access or a
mispredicted branch.

In `simulator` three operations are what one processor needs to lose a line and ask
for it again, and five in all give each of three processors something to do while
two of them contend for both lines.

In `pipeline_p3` three operations, of which one is long, fill both schedule queues,
finish out of order and share a bus; two processors make passes in which the other
one's results are on the bus.

Five keys give every shape of a tree in which a node with two children has its
successor right below it or deeper down, with a subtree of its own, and every case of
splaying at the root and below. In `csim` three lines of one set evict, four
accesses fill it with any order of use and dirtiness, and two more evict twice.

The queue of a processor is unbounded in the model and finite in fact: a line has
one request at most (`TransientHasRequest`). The bounds of the models are
`TraceLength` (Simulator, ProcessorP4, ProcessorP3, Csim), `TotalOps` (MCSimulator) and
`MaxOutstanding` (CacheP4). Runs of Coherence, CacheArray, CacheP4, StateTable and
BranchPredictor are of unbounded length.

`CHECK_DEADLOCK FALSE` is set for the runs of Simulator, ProcessorP3, ProcessorP4 and
Csim only, which stop.

### Fairness

`FairSpec` and `P4Spec` let the clock go on (`WF(Tick)`, `WF(P4Tick)`): the engine
ticks as long as a processor waits on memory (`processor.c:132`). Nothing is
assumed of the caches: they may ask or not. `SimSpec`, `AnySpec` and `P3FairSpec` have
weak fairness of the whole next-state relation, which is what running a sequential
program means.
`PipelineSpec` adds that the cache answers every access, which `RequestsServed`
shows of cache-p4; strong fairness, because the cache has a chance to answer in
each tick only. `LoopingSpec` describes a program that keeps executing its branches; it is a
premise on the trace and not on the predictor.

## 4. What is proved

`CoherenceProof` (for any number of processors and lines, and any delays):

| Theorem | Property | Schemes |
|---|---|---|
| TypeCorrect | TypeOK | all |
| MemoryInStep | MemoryServesBus | all |
| RequestsMatch | RequestMatchesWait | all |
| SingleOwnerHolds | SingleOwner | all |
| NoAssertionFails | AssertionsHold | all |
| EveryWaitAsked | TransientHasRequest | all but MSI |
| OnlyWritersTake | LostOnlyToWriter | all but MSI |
| SingleWriterHolds | SingleWriter | MI, MSI, MESI |
| RightsImplemented | ImplementsRights | MI, MSI, MESI |

The restrictions are those of the violated runs: the statements are false for the
schemes left out. (A readable line of MSI is lost to another processor's read, as
`msi_lost_request` shows.)

The argument is a chain of inductive invariants. `BusInv` ties bus and memory
together: the memory works for the request on the bus, with the same count-down,
so the bus is free when its count-down is zero. On top of it `RequestInv` says
that each queued request, and the one on the bus, finds its line waiting in a
state of its kind; without the part about the queue, admitting a request could not
be shown to preserve the part about the bus. `WaitInv` adds that there is exactly
one request for each waiting line. `RightsInv` is SingleWriter with what makes it
inductive, `SnoopedInv`: between the snoop of a request and its delivery, the
others hold no more than the requester is about to be granted. Delivery then
cannot produce a second writer. The refinement of LinePermissions follows from
`RightsInv`: a permission or a delivery maps to Grant, a snoop to Surrender.

MOESI and MESIF have no single writer, so what is true of all five schemes rests on
`OwnerInv` in the place of `RightsInv`: between snoop and delivery nobody else answers
for the line, with the one exception of an OWNED copy, whose reader is told to share
and so will not answer for it. Since only owners supply a line, at most one cache
replies with data to a snoop, which is the assertion of `interconnect.c:196`.

`SimulatorProof` (for any number of processors and lines, any delays and traces of
any length):

| Theorem | Property | Schemes |
|---|---|---|
| SimulatorDrivesCoherence | SimSpec implements Spec of Coherence | all |
| SimulatorIsCoherent | SingleOwner, AssertionsHold | all |
| SimulatorTypeCorrect | SimTypeOK | all but MSI |
| AccessesCalledBackOnce | OneRequestEach | all but MSI |
| ParkedExactlyWhileWaiting | ParkedWhileLineWaits | all but MSI |
| CallbacksFindTheirAccess | CallbackAssertionsHold | all but MSI |
| StopsOnlyWhenDone | when the loop has stopped, every processor is finished | all but MSI |

The first one carries everything that is proved of Coherence over to the whole
simulator: a step of the simulator is a step of Coherence or leaves it alone.
On it rests `AccessInv`, which joins OneRequestEach and ParkedWhileLineWaits with the
types, for neither is inductive alone. That a tag stays in its range needs a count
of its own (`TagsInv`: an access spends one operation of the trace); that a parked
access finds its line, the fact that nobody but the requester is told DATA_RECV
(`SnoopFillsNobody`). Under MSI a line may wait without a request, so its access would
be parked for ever.

`CacheP4Proof`, first part (for any number of sets, ways and victim entries, under LRU
and RRIP):

| Theorem | Property |
|---|---|
| ArraysTypeCorrect | ArrayTypeOK |
| HomeSetsStayFull | HomeSetsFull |
| VictimsStayOlder | VictimsAreOlder |
| ArraysImplementLineStore | ImplementsLineStore |

What an access does is first stated as one of five effects (a hit, a swap, a fill, a
demotion, a replacement), which say which way takes the line and where the line that
was there goes, and nothing about how the way was chosen. `Good`, the inductive
invariant, is about one record of arrays and not about a step, so that it also
serves between the two halves of an access to two lines: a line is in one place at
most, a line in the victim cache belongs to a full set and is older than all lines of
it. Renumbering the time stamps preserves it since ranks keep the order of stamps
(`RankKeepsOrder`). The set of lines is then followed through each
effect, and each maps to a step of LineStore.

`CacheP4Proof`, second part (for one processor, as the code has it; any geometry, any delays, any
number of accesses outstanding):

| Theorem | Property | Schemes |
|---|---|---|
| CacheTypeCorrect | P4TypeOK | all |
| ArraysAheadOfCoherence | ArraysMatchCoherence | all |
| SentRequestUnderWay | StartedIsUnderWay | all |
| CallbacksAnswerCurrent | CallbackAnswersCurrent (the first half of QueueAssertionsHold) | all |
| AssertionsOfQueueHold | QueueAssertionsHold | MI |

The last one is for MI as only there an eviction of a clean line is to be waited for
(`Flush`); with another scheme the assertion of `cache.c:494` is false.

ArraysMatchCoherence is not inductive. It says what the last request for a line means
and nothing of those before it, which become the last ones as the queue is worked
off from its other end. The invariant `P4Inv` adds what each request of the queue
relies on (`QueueOK`): a line is given up only if it is granted, or was asked for
earlier in the queue (`FirstGranted`, `AskedBefore`); and an eviction is followed by a
permission of the same access (`Paired`), which the re-entrant callback sends. The
three ways in which a queue changes (a request comes at its end, the first one is
done, an access is answered) have a lemma each, about any queue, any set of lines and
any states of coherence; the steps of the system are instances of them. `Link` is
about the single request below the cache: its line waits for it, or it is the data of
an eviction, and nothing else waits.

`BranchPredictorProof` (for tables of any size and 1 <= b <= s): PredictorTypeCorrect
(BranchTypeOK) and TakenBranchesHaveTargets (TakenHasTarget), from one inductive
invariant with both.

`ProcessorP4Proof` (for queues, units and buses of any sizes, any traces and any
number of processors, except where it says otherwise):

| Theorem | Property |
|---|---|
| PipelineTypeCorrect | PipelineTypeOK, the capacities included |
| OnePlaceEach | FiredIsUnderWay |
| NoWakeUpLost | EveryWaitIsLive |
| AccessesGetAnswers | AccessesAnswered (says something of one processor only) |

The inductive invariant `PipeInv` is the first two with `NoneCompleted`: nothing is
marked as completed between two passes, or the next state update would forget it.
Capacities rest on lemmas about `First` (it takes no more than asked for), which need
that a finite set of tags has a last element. EveryWaitIsLive is inductive on top of
`PipeInv`. The proof has a step where it matters that a branch has no destination: it
is pulled from the state update queue without a bus, so that a register waiting for
it would wait for ever. For accesses, `OneAccess` says that `memOpTag` names the only
access that the cache has; a schedule step keeps it because only the first ready
access may fire.

`ProcessorP3Proof` (for any number of units, buses and registers, queues of any sizes,
any traces and any number of processors):

| Theorem | Property |
|---|---|
| P3InvHolds | the inductive invariant, below |
| PipelineImplementsP4 | ImplementsProcessorP4 |

Each stage is shown to be the stage of ProcessorP4 on the sets that the queues and
units hold, so that what ProcessorP4 says in one formula is what the code's loop comes to.
A loop is a fold; `CountUp` and the lemmas after it turn it into a sequence of states with an
invariant. For the schedule stage that is `Filled`: the units of a kind hold the
operations fired so far, and all of those that are ready while a unit is free. With the
queue walked in order of tags, what is left in the end is the oldest ones, as many as
there are units (`P4!First`). For the dispatch stage it is `Dispatching`: an operation
waits, for each source, for the last of those dispatched before it that writes the
register. Both kinds share one queue, and a full schedule queue holds back its own kind
only; that those passed over stay in order is `IsQueue`.

The invariant `P3Inv` gives what the steps rely on: what is known of operations and
sources (`OperationsKnown`); that queues are in order of tags, the schedule queues
within their sizes, and that no operation in the dispatch queue is older than one of
its kind in the schedule queue (`QueuesOrdered`), without which the one appended last
would not be the youngest; and that a fired operation is in one place at most and
stage 0 is free when operations are fired (`FiredOnce`), without which an operation
could be overwritten, or be queued twice and count once in the set. Two more parts say
what a reader wants to know of the pipeline: the dispatch queue stays within its size
(`DispatchBounded`), and a fired operation is in a unit, in the state update queue or
completed, so that none is lost on its way (`FiredSomewhere`). An operation that is taken from the trace and dropped is no step of
ProcessorP4, and the property says so.

`CsimProof` (for any number of sets, ways and bytes of a line, and traces of any
length):

| Theorem | Property |
|---|---|
| StatisticsRight | StatsMatchContents, of csim alone |
| StatisticsRightBeside | StatsMatchContents, of csim next to cache-p4 |
| CachesAgree | SameAsP4 |

What the first needs from the code is where an access goes: a hit to a valid
way, a miss to an invalid one, an eviction to a way of a set that is full, which is
why each adds one valid line or none; and, for the victim, that some counter of the
set is the smallest. Every action then comes down to one place that enters or
leaves the sets of valid and of dirty places. The invariant (`CsimInv`) is inductive
with its types.

SameAsP4 relates two programs that number time differently: csim keeps the line of the
trace, `CacheArray` ranks that are renumbered after every access. All that they
share is the order (`SameArrays`), and that is enough, because the search for the least
recently used line uses nothing else (`SameVictim`). The order is kept because ranks
are monotone, and strictly so at a stamp that is there (`RanksInOrder`); the line of
the access becomes the newest on both sides because no line was used in the
future (`UsedBefore`). That a victim is dirty on both sides alike needs that it lies in
one way only (`InOneWay`), or another copy might be the dirty one.

`StateTableProof` (for any finite set of lines and any states):

| Theorem | Property |
|---|---|
| TableInvHolds | the inductive invariant, below |
| TreeWellFormedHolds | TreeWellFormed |
| LookupsRightHold | LookupsRight |
| LineStatesImplemented | ImplementsLineStates |

The invariant (`TableInv`) has a ghost: a function `S` that gives for every node the
keys of its subtree. `Linked(t, S)` says, node by node, what the pointers have to do with
it: the subtree of a node is the node and the subtrees of its children, what is on the
left is smaller and on the right greater, child and parent point at each other, a key
that is not in the tree has no links. It is local, so that an operation that moves five
pointers needs to be looked at in five places; TreeWellFormed says the same of the list
of all keys, and follows (`InOrderLists`). For each operation a new `S` is given:
a rotation exchanges the sets of two nodes (`RotateKeepsLinks`), a leaf is added
to the sets of all nodes that the search for it passed (`PlacedLinked`), a node
that lacks a child is taken from all sets (`UnlinkedLinked`). The removal of a node with
two children, where the code has two cases that overlap in their pointers, is
shown to leave the same pointers as two simple things done one after the other: its
successor is unlinked, and then put at its place under another name
(`SucceedSubstitutes`, `SubstitutedLinked`). That searches, walks and loops end is proved
with the sizes of the subtrees (`Heights`): `RecursiveDefinition` and `OneSolution`
are the induction that the definitions over nodes need, once for all of them, and
`FromLeavesUp` is the induction over a tree, stated with a set instead of a predicate.

The assumptions are the named ASSUMEs of the modules: positive delays, at least
one processor, a distinguished NULL, the range of the index, sizes that are
positive, at most four result buses (`completed[4]`), and branches without a destination.

Model-checked only: liveness (BusServes, QuietDrains, EndsQuietly, RequestsServed,
LearnsSteadyBranches, PipelineFinishes, P3Finishes), which is out of the prover's
reach; and AllCallbackAssertionsHold, which is CallbackAssertionsHold in a run that picks
one of the four schemes, and is proved for each of them (CallbacksFindTheirAccess).

## 5. Plan

Done, in this order: the protocol tables, memory and bus, Coherence with
LinePermissions and its proofs; SimpleCache and Simulator; CacheArray with
LineStore; CacheP4; BranchPredictor and ProcessorP4 with their proofs; all schemes
in one run of the simulator; ProcessorP3 as a refinement of ProcessorP4; the splay
tree and the table of states; csim, alone and next to cache-p4; the proofs of the
simulator, of the tag arrays, of the request queue, and of csim next to cache-p4, and
what is true of all schemes; the proofs of the splay tree and of ProcessorP3 as a
refinement of ProcessorP4.

Next: cache-p1, as an implementation of CacheP4 with one access.
