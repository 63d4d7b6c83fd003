-------------------------- MODULE ProcessorP4Proof --------------------------
(***************************************************************************)
(* The pipeline of processor-p4 keeps to the sizes of its queues, units and *)
(* buses, has each fired operation in one place and loses no wake-up, for    *)
(* any sizes and any number of processors; with one processor, an access     *)
(* never goes on without its answer.                                         *)
(***************************************************************************)
EXTENDS ProcessorP4, FiniteSetTheorems, WellFoundedInduction, TLAPS

-----------------------------------------------------------------------------
(* Queues: sets of tags and their first elements.                           *)

\* A set of tags is finite.
LEMMA TagsFinite ==
    ASSUME NEW n \in Nat, NEW S \in SUBSET (1 .. n)
    PROVE  IsFiniteSet(S) /\ Cardinality(S) \in Nat
<1>1. IsFiniteSet(1 .. n)
  BY FS_Interval
<1>2. IsFiniteSet(S)
  BY <1>1, FS_Subset
<1> QED
  BY <1>2, FS_CardinalityType

\* A set of tags that is not empty has a last one.
LEMMA MaxOfTags ==
    ASSUME NEW n \in Nat, NEW S \in SUBSET (1 .. n), S # {}
    PROVE  Max(S) \in S /\ \A t \in S : t <= Max(S)
<1> DEFINE T == {d \in 0 .. n : n - d \in S}
           R == OpToRel(<, Nat)
<1>1. T \subseteq Nat /\ T # {}
  <2>1. PICK t : t \in S
    OBVIOUS
  <2>2. n - t \in T
    BY <2>1
  <2> QED
    BY <2>2
<1>2. PICK d \in T : \A e \in T : <<e, d>> \notin R
  BY <1>1, WFMin, NatLessThanWellFounded
<1>3. \A e \in T : ~ (e < d)
  BY <1>1, <1>2 DEF OpToRel
<1>4. \A t \in S : t <= n - d
  <2> SUFFICES ASSUME NEW t \in S PROVE t <= n - d
    OBVIOUS
  <2>1. n - t \in T
    OBVIOUS
  <2> QED
    BY <1>1, <1>3, <2>1
<1>5. \E x \in S : \A y \in S : x >= y
  BY <1>1, <1>4
<1> QED
  BY <1>5 DEF Max

\* First takes no more than asked for.
LEMMA FirstBounded ==
    ASSUME NEW n \in Nat, NEW S \in SUBSET (1 .. n), NEW k \in Nat
    PROVE  /\ First(k, S) \subseteq S
           /\ Cardinality(First(k, S)) <= k
<1>1. First(k, S) \subseteq S
  BY DEF First
<1>2. CASE First(k, S) = {}
  BY <1>1, <1>2, FS_EmptySet
<1>3. CASE First(k, S) # {}
  <2> DEFINE m     == Max(First(k, S))
             below == {u \in S : u < m}
  <2>1. m \in First(k, S) /\ \A t \in First(k, S) : t <= m
    BY <1>1, <1>3, MaxOfTags
  <2>2. IsFiniteSet(below) /\ Cardinality(below) \in Nat
    BY TagsFinite
  <2>3. Cardinality(below) < k
    BY <2>1 DEF First
  <2>4. First(k, S) \subseteq below \cup {m}
    <3> SUFFICES ASSUME NEW t \in First(k, S) PROVE t < m \/ t = m
      BY <1>1
    <3>1. t \in 1 .. n /\ m \in 1 .. n /\ t <= m
      BY <1>1, <2>1
    <3> QED
      BY <3>1
  <2> HIDE DEF below, m
  <2>5. IsFiniteSet(below \cup {m}) /\ Cardinality(below \cup {m}) <= Cardinality(below) + 1
    BY <2>2, FS_AddElement
  <2>6. Cardinality(First(k, S)) <= Cardinality(below \cup {m})
    BY <2>4, <2>5, FS_Subset
  <2>7. Cardinality(First(k, S)) \in Nat /\ Cardinality(below \cup {m}) \in Nat
    BY <1>1, <2>5, TagsFinite, FS_CardinalityType
  <2> QED
    BY <1>1, <2>2, <2>3, <2>5, <2>6, <2>7
<1> QED
  BY <1>2, <1>3

\* The first one is one.
LEMMA FirstOne ==
    ASSUME NEW n \in Nat, NEW S \in SUBSET (1 .. n),
           NEW t \in First(1, S), NEW u \in First(1, S)
    PROVE  t = u
<1>1. \A s \in First(1, S) : {v \in S : v < s} = {}
  <2> SUFFICES ASSUME NEW s \in First(1, S) PROVE {v \in S : v < s} = {}
    OBVIOUS
  <2>1. Cardinality({v \in S : v < s}) < 1
    BY DEF First
  <2>2. {v \in S : v < s} \in SUBSET (1 .. n)
    OBVIOUS
  <2>3. IsFiniteSet({v \in S : v < s}) /\ Cardinality({v \in S : v < s}) \in Nat
    BY <2>2, TagsFinite
  <2>4. Cardinality({v \in S : v < s}) = 0
    BY <2>1, <2>3
  <2> QED
    BY <2>3, <2>4, FS_EmptySet
<1>2. t \in S /\ u \in S
  BY DEF First
<1> QED
  BY <1>1, <1>2

\* A queue with room for k more takes the first k of others and is not overfull.
LEMMA FilledUp ==
    ASSUME NEW n \in Nat, NEW S \in SUBSET (1 .. n), NEW Q \in SUBSET (1 .. n),
           NEW cap \in Nat, Cardinality(Q) <= cap
    PROVE  Cardinality(Q \cup First(cap - Cardinality(Q), S)) <= cap
<1> DEFINE k == cap - Cardinality(Q)
           T == First(k, S)
<1>1. IsFiniteSet(Q) /\ Cardinality(Q) \in Nat
  BY TagsFinite
<1>2. k \in Nat
  BY <1>1
<1>3. T \subseteq S /\ Cardinality(T) <= k
  BY <1>2, FirstBounded
<1>4. IsFiniteSet(T) /\ Cardinality(T) \in Nat /\ Cardinality(Q \cap T) \in Nat
  BY <1>3, TagsFinite
<1>5. Cardinality(Q \cup T) = Cardinality(Q) + Cardinality(T) - Cardinality(Q \cap T)
  BY <1>1, <1>4, FS_Union
<1> QED
  BY <1>1, <1>3, <1>4, <1>5

-----------------------------------------------------------------------------
(* The pipeline.                                                           *)

\* Operations are completed in one stage and leave in another of the same pass.
NoneCompleted == stage \in {"clock", "update", "end"} => completed = {}

PipeInv == PipelineTypeOK /\ NoneCompleted /\ FiredIsUnderWay

\* Everything that is fetched is known, and every queue is a set of tags.
LEMMA QueuesAreTags ==
    ASSUME PipelineTypeOK
    PROVE  /\ counter - 1 \in Nat
           /\ DOMAIN instr \in SUBSET (1 .. counter - 1)
           /\ schedule_queue \in SUBSET (1 .. counter - 1)
           /\ dispatch_queue \in SUBSET (1 .. counter - 1)
           /\ LongQueue \subseteq schedule_queue /\ FastQueue \subseteq schedule_queue
           /\ LongQueue \cap FastQueue = {}
           /\ \A t \in schedule_queue \cup dispatch_queue : instr[t] \in Operation /\ instr[t] \in Ops
BY OpsAssumption DEF PipelineTypeOK, Tag, LongQueue, FastQueue

\* The sizes of queues and units are natural numbers.
LEMMA Sizes ==
    /\ F \in Nat /\ J \in Nat /\ K \in Nat /\ C \in Nat
    /\ M * J \in Nat /\ M * K \in Nat /\ D * (M * J + M * K) \in Nat
<1>1. M \in Nat /\ J \in Nat /\ K \in Nat /\ D \in Nat /\ F \in Nat /\ C \in Nat
  BY SizeAssumption
<1>2. M * J \in Nat /\ M * K \in Nat
  BY <1>1
<1> DEFINE sum == M * J + M * K
<1>3. sum \in Nat
  BY <1>2
<1> HIDE DEF sum
<1>4. D * sum \in Nat
  BY <1>1, <1>3
<1> QED
  BY <1>1, <1>2, <1>4 DEF sum

LEMMA PipeInvInit == Init => PipeInv
<1> SUFFICES ASSUME Init PROVE PipeInv
  OBVIOUS
<1> USE SizeAssumption, Sizes DEF Init
<1>1. InUnits = {} /\ LongQueue = {} /\ FastQueue = {}
  BY DEF InUnits, LongQueue, FastQueue, Slot
<1>2. PipelineTypeOK
  <2>1. /\ DOMAIN instr = {} /\ DOMAIN src = {}
        /\ schedule_queue = {} /\ dispatch_queue = {} /\ fast = {} /\ buses = {}
        /\ \A s \in Slot : long[s] = {}
    OBVIOUS
  <2>2. /\ Cardinality(dispatch_queue) <= D * (M * J + M * K)
        /\ Cardinality(LongQueue) <= M * K /\ Cardinality(FastQueue) <= M * J
        /\ Cardinality(fast) <= J /\ Cardinality(buses) <= C
        /\ \A s \in Slot : Cardinality(long[s]) <= K
    BY <1>1, <2>1, FS_EmptySet, SMTT(30)
  <2>3. /\ regs \in [Reg -> Tag \cup {NULL}]
        /\ memOpTag \in [Proc -> Tag \cup {NULL}]
        /\ pendingBranch \in [Proc -> BOOLEAN]
        /\ long \in [Slot -> SUBSET fired]
        /\ opsLeft \in [Proc -> 0 .. TraceLength]
        /\ counter \in Nat \ {0}
    OBVIOUS
  <2>4. i \in Proc
    BY DEF Proc
  <2>6. f \in 0 .. F
    OBVIOUS
  <2>7. progress \in BOOLEAN
    OBVIOUS
  <2>5. /\ stage \in {"clock", "update", "execute", "schedule", "dispatch", "fetch", "retire", "end"}
        /\ state_update_queue \subseteq fired /\ completed \subseteq fired
        /\ fired \subseteq schedule_queue /\ requested \subseteq Tag
    OBVIOUS
  <2> QED
    BY <2>1, <2>2, <2>3, <2>4, <2>5, <2>6, <2>7 DEF PipelineTypeOK
<1>3. NoneCompleted
  BY DEF NoneCompleted
<1>4. FiredIsUnderWay
  BY <1>1 DEF FiredIsUnderWay, Slot
<1> QED
  BY <1>2, <1>3, <1>4 DEF PipeInv

LEMMA ClockKeepsPipe == ASSUME PipeInv, Clock PROVE PipeInv'
<1>1. LongQueue' = LongQueue /\ FastQueue' = FastQueue /\ InUnits' = InUnits
  BY DEF Clock, queueVars, unitVars, LongQueue, FastQueue, IsLong, InUnits
<1>2. requested' \subseteq Tag /\ memOpTag' \in [Proc -> Tag \cup {NULL}]
  BY DEF Clock, PipeInv, PipelineTypeOK
<1>3. PipelineTypeOK'
  BY <1>1, <1>2 DEF Clock, PipeInv, PipelineTypeOK, queueVars, unitVars, Tag
<1>4. NoneCompleted'
  BY DEF Clock, PipeInv, NoneCompleted
<1>5. FiredIsUnderWay'
  BY <1>1 DEF Clock, PipeInv, FiredIsUnderWay, queueVars, unitVars
<1> QED
  BY <1>3, <1>4, <1>5 DEF PipeInv

LEMMA UpdateStateKeepsPipe == ASSUME PipeInv, UpdateState PROVE PipeInv'
<1> DEFINE pulled == First(C, state_update_queue)
           onBus  == {u \in pulled : ~IsBranch(u)}
           Bus    == [t \in onBus |-> [tag |-> t, reg_id |-> instr[t].dest_reg]]
<1>1. LongQueue' = LongQueue /\ FastQueue' = FastQueue /\ InUnits' = InUnits
  BY DEF UpdateState, unitVars, LongQueue, FastQueue, IsLong, InUnits
<1>2. pulled \subseteq state_update_queue /\ Cardinality(pulled) <= C
  BY QueuesAreTags, Sizes, FirstBounded DEF PipeInv, PipelineTypeOK
<1>3. pulled \subseteq fired /\ pulled \subseteq schedule_queue
  BY <1>2 DEF PipeInv, PipelineTypeOK
<1>4. buses' \subseteq [tag : Tag, reg_id : Reg \cup {NULL}]
  BY <1>3, QueuesAreTags DEF UpdateState, PipeInv, Operation, Tag
<1>5. Cardinality(buses') <= C
  <2>1. IsFiniteSet(pulled) /\ Cardinality(pulled) \in Nat
    BY <1>3, QueuesAreTags, TagsFinite DEF PipeInv
  <2>2. onBus \in SUBSET pulled
    OBVIOUS
  <2>3. IsFiniteSet(onBus) /\ Cardinality(onBus) <= Cardinality(pulled)
    BY <2>1, <2>2, FS_Subset
  <2>4. Bus \in Surjection(onBus, buses')
    BY DEF UpdateState, Surjection
  <2>5. IsFiniteSet(buses') /\ Cardinality(buses') <= Cardinality(onBus)
    BY <2>3, <2>4, FS_Surjection
  <2>6. Cardinality(buses') \in Nat /\ Cardinality(onBus) \in Nat
    BY <2>3, <2>5, FS_CardinalityType
  <2> QED
    BY <1>2, <2>1, <2>3, <2>5, <2>6, Sizes
<1>6. regs' \in [Reg -> Tag \cup {NULL}]
  BY DEF UpdateState, PipeInv, PipelineTypeOK
<1>7. completed' = pulled /\ state_update_queue' = state_update_queue \ pulled
  BY DEF UpdateState
<1>8. stage' = "execute" /\ progress' \in BOOLEAN
  BY DEF UpdateState, Goto
<1> HIDE DEF pulled, onBus, Bus
<1>9. PipelineTypeOK'
  BY <1>1, <1>3, <1>4, <1>5, <1>6, <1>7, <1>8
     DEF UpdateState, PipeInv, PipelineTypeOK, unitVars, stallVars, Tag
<1>10. NoneCompleted'
  BY <1>8 DEF NoneCompleted
<1>11. FiredIsUnderWay'
  <2>1. completed = {}
    BY DEF PipeInv, NoneCompleted, UpdateState
  <2> QED
    BY <1>1, <1>2, <1>7, <2>1 DEF UpdateState, PipeInv, FiredIsUnderWay, unitVars
<1> QED
  BY <1>9, <1>10, <1>11 DEF PipeInv

LEMMA ExecuteKeepsPipe == ASSUME PipeInv, Execute PROVE PipeInv'
<1>1. LongQueue' = LongQueue /\ FastQueue' = FastQueue
  BY DEF Execute, LongQueue, FastQueue, IsLong
<1>2. Staying \subseteq fast
  BY DEF Staying
<1>3. Cardinality(fast') <= J
  <2>1. fast' = Staying /\ fast \subseteq schedule_queue
    BY DEF Execute, PipeInv, PipelineTypeOK, FiredIsUnderWay, InUnits
  <2>2. IsFiniteSet(fast) /\ Cardinality(fast) \in Nat /\ Cardinality(fast') \in Nat
    BY <1>2, <2>1, QueuesAreTags, TagsFinite DEF PipeInv
  <2>3. Cardinality(fast') <= Cardinality(fast)
    BY <1>2, <2>1, <2>2, FS_Subset
  <2> QED
    BY <2>2, <2>3, Sizes DEF PipeInv, PipelineTypeOK
<1>4. /\ long' \in [Slot -> SUBSET fired']
      /\ long'[0] = {} /\ long'[1] = long[0] /\ long'[2] = long[1]
  BY DEF Execute, PipeInv, PipelineTypeOK, Slot
<1>5. \A s \in Slot : Cardinality(long'[s]) <= K
  <2>1. Cardinality(long[0]) <= K /\ Cardinality(long[1]) <= K
    BY DEF PipeInv, PipelineTypeOK, Slot
  <2>2. Cardinality(long'[0]) <= K
    BY <1>4, Sizes, FS_EmptySet
  <2> QED
    BY <1>4, <2>1, <2>2 DEF Slot
<1>6. state_update_queue' = state_update_queue \cup (fast \ Staying) \cup long[2]
  BY DEF Execute
<1>7. state_update_queue' \subseteq fired'
  BY <1>6 DEF Execute, PipeInv, PipelineTypeOK, FiredIsUnderWay, InUnits, Slot
<1>8. stage' = "schedule" /\ progress' \in BOOLEAN
  BY DEF Execute, Goto
<1>9. PipelineTypeOK'
  BY <1>1, <1>3, <1>4, <1>5, <1>7, <1>8 DEF Execute, PipeInv, PipelineTypeOK, stallVars, Tag
<1>10. NoneCompleted'
  BY <1>8 DEF NoneCompleted
<1>11. FiredIsUnderWay'
  <2>1. InUnits' = Staying \cup long[0] \cup long[1]
    BY <1>4 DEF InUnits, Slot, Execute
  <2>2. InUnits = fast \cup long[0] \cup long[1] \cup long[2]
    BY DEF InUnits, Slot
  <2>3. /\ fast \cap (long[0] \cup long[1] \cup long[2]) = {}
        /\ long[0] \cap long[1] = {} /\ long[0] \cap long[2] = {} /\ long[1] \cap long[2] = {}
    BY DEF PipeInv, FiredIsUnderWay, Slot
  <2>4. /\ fired = InUnits \cup state_update_queue \cup completed
        /\ state_update_queue \cap completed = {}
        /\ InUnits \cap (state_update_queue \cup completed) = {}
    BY DEF PipeInv, FiredIsUnderWay
  <2>5. /\ fired' = InUnits' \cup state_update_queue' \cup completed'
        /\ state_update_queue' \cap completed' = {}
        /\ InUnits' \cap (state_update_queue' \cup completed') = {}
    BY <1>2, <1>6, <2>1, <2>2, <2>3, <2>4 DEF Execute
  <2>6. fast' \cap UNION {long'[s] : s \in Slot} = {}
    BY <1>2, <1>4, <2>3 DEF Execute, Slot
  <2>7. \A s1, s2 \in Slot : s1 # s2 => long'[s1] \cap long'[s2] = {}
    BY <1>4, <2>3 DEF Slot
  <2> QED
    BY <2>5, <2>6, <2>7 DEF FiredIsUnderWay
<1> QED
  BY <1>9, <1>10, <1>11 DEF PipeInv

\* What may fire is in its schedule queue and has not been fired before.
LEMMA ReadyUnfired ==
    ASSUME PipelineTypeOK
    PROVE  /\ ReadyFast \subseteq FastQueue \ fired
           /\ ReadyLong \subseteq LongQueue \ fired
<1> DEFINE accesses == {t \in FastQueue : Independent(t) /\ IsMem(t)}
<1>1. First(1, accesses) \subseteq accesses
  BY DEF First
<1> QED
  BY <1>1 DEF ReadyFast, ReadyLong, Independent

LEMMA ScheduleKeepsPipe == ASSUME PipeInv, Schedule PROVE PipeInv'
<1> DEFINE toFast == First(J - Cardinality(fast), ReadyFast)
           toLong == First(K - Cardinality(long[0]), ReadyLong)
           access == {t \in toFast : IsMem(t)}
<1>1. LongQueue' = LongQueue /\ FastQueue' = FastQueue
  BY DEF Schedule, queueVars, LongQueue, FastQueue, IsLong
<1>2. toFast \subseteq FastQueue \ fired /\ toLong \subseteq LongQueue \ fired
  BY ReadyUnfired DEF First, PipeInv
<1>3. /\ fast' = fast \cup toFast
      /\ long' = [long EXCEPT ![0] = @ \cup toLong]
      /\ fired' = fired \cup toFast \cup toLong
  BY DEF Schedule
<1>4. fast \subseteq fired
  BY DEF PipeInv, FiredIsUnderWay, InUnits
<1>5. Cardinality(fast') <= J
  <2>1. fast \in SUBSET (1 .. counter - 1) /\ ReadyFast \in SUBSET (1 .. counter - 1)
    BY <1>4, QueuesAreTags, ReadyUnfired DEF PipeInv, PipelineTypeOK
  <2>2. Cardinality(fast) <= J /\ J \in Nat
    BY Sizes DEF PipeInv, PipelineTypeOK
  <2> QED
    BY <1>3, <2>1, <2>2, FilledUp, QueuesAreTags DEF PipeInv
<1>6. /\ long \in [Slot -> SUBSET fired] /\ 0 \in Slot
      /\ \A s \in Slot : Cardinality(long[s]) <= K
  BY DEF PipeInv, PipelineTypeOK, Slot
<1>7. Cardinality(long[0] \cup toLong) <= K
  <2>1. long[0] \in SUBSET (1 .. counter - 1) /\ ReadyLong \in SUBSET (1 .. counter - 1)
    BY <1>6, QueuesAreTags, ReadyUnfired DEF PipeInv, PipelineTypeOK
  <2>2. Cardinality(long[0]) <= K /\ K \in Nat
    BY <1>6, Sizes
  <2> QED
    BY <2>1, <2>2, FilledUp, QueuesAreTags DEF PipeInv
<1>8. access \in SUBSET Tag /\ access \in SUBSET (1 .. counter - 1)
  BY <1>2, QueuesAreTags DEF PipeInv, Tag
<1>9. memOpTag' \in [Proc -> Tag \cup {NULL}] /\ requested' \subseteq Tag
  <2>1. access # {} => Max(access) \in access
    BY <1>8, MaxOfTags, QueuesAreTags DEF PipeInv
  <2> QED
    BY <1>8, <2>1 DEF Schedule, PipeInv, PipelineTypeOK
<1>10. stage' = "dispatch" /\ progress' \in BOOLEAN
  BY DEF Schedule, Goto
<1> HIDE DEF toFast, toLong, access
<1>11. fired' \subseteq schedule_queue
  BY <1>2, <1>3, QueuesAreTags DEF PipeInv, PipelineTypeOK
<1>12. /\ long' \in [Slot -> SUBSET fired']
       /\ long'[0] = long[0] \cup toLong /\ long'[1] = long[1] /\ long'[2] = long[2]
  BY <1>3, <1>6 DEF Slot
<1>13. \A s \in Slot : Cardinality(long'[s]) <= K
  BY <1>6, <1>7, <1>12 DEF Slot
<1>14. PipelineTypeOK'
  BY <1>1, <1>3, <1>5, <1>9, <1>10, <1>11, <1>12, <1>13
     DEF Schedule, PipeInv, PipelineTypeOK, queueVars, Tag
<1>15. NoneCompleted'
  BY <1>10 DEF NoneCompleted
<1>16. FiredIsUnderWay'
  <2>1. InUnits' = InUnits \cup toFast \cup toLong
    BY <1>3, <1>12 DEF InUnits, Slot
  <2>2. toFast \cap toLong = {} /\ toFast \cap fired = {} /\ toLong \cap fired = {}
    BY <1>2, QueuesAreTags DEF PipeInv
  <2>3. /\ fast \cap (long[0] \cup long[1] \cup long[2]) = {}
        /\ long[0] \cap long[1] = {} /\ long[0] \cap long[2] = {} /\ long[1] \cap long[2] = {}
    BY DEF PipeInv, FiredIsUnderWay, Slot
  <2>4. long[0] \subseteq fired /\ long[1] \subseteq fired /\ long[2] \subseteq fired
    BY <1>6 DEF Slot
  <2>5. /\ fired = InUnits \cup state_update_queue \cup completed
        /\ state_update_queue \cap completed = {}
        /\ InUnits \cap (state_update_queue \cup completed) = {}
    BY DEF PipeInv, FiredIsUnderWay
  <2>6. /\ fired' = InUnits' \cup state_update_queue' \cup completed'
        /\ state_update_queue' \cap completed' = {}
        /\ InUnits' \cap (state_update_queue' \cup completed') = {}
    BY <1>3, <2>1, <2>2, <2>5 DEF Schedule, queueVars
  <2>7. fast' \cap UNION {long'[s] : s \in Slot} = {}
    BY <1>3, <1>4, <1>12, <2>2, <2>3, <2>4 DEF Slot
  <2>8. \A s1, s2 \in Slot : s1 # s2 => long'[s1] \cap long'[s2] = {}
    BY <1>12, <2>2, <2>3, <2>4 DEF Slot
  <2> QED
    BY <2>6, <2>7, <2>8 DEF FiredIsUnderWay
<1> QED
  BY <1>14, <1>15, <1>16 DEF PipeInv

\* The last writer of a register is an operation that has it as destination, or
\* what the register waits for already.
LEMMA WriterIsLast ==
    ASSUME PipelineTypeOK, NEW r \in Reg, NEW before \in SUBSET DOMAIN instr
    PROVE  \/ Writer(r, before) \in before /\ instr[Writer(r, before)].dest_reg = r
           \/ Writer(r, before) = regs[r]
<1> DEFINE writers == {t \in before : instr[t].dest_reg = r}
<1>1. CASE writers = {}
  BY <1>1 DEF Writer
<1>2. CASE writers # {}
  <2>1. writers \in SUBSET (1 .. counter - 1)
    BY QueuesAreTags
  <2>2. Max(writers) \in writers
    BY <1>2, <2>1, MaxOfTags, QueuesAreTags
  <2> QED
    BY <1>2, <2>2 DEF Writer
<1> QED
  BY <1>1, <1>2

LEMMA DispatchedWait == Dispatched \subseteq dispatch_queue
BY DEF Dispatched, First

\* What an operation waits for after dispatch: not for a result on a bus, and
\* for something it waited for already, for an operation that is dispatched
\* before it, or for what one of its registers waits for.
LEMMA SourcesAre ==
    ASSUME PipelineTypeOK, NEW t \in DOMAIN instr, NEW u \in Sources(t)
    PROVE  /\ u \notin {b.tag : b \in buses}
           /\ \/ t \notin Dispatched /\ u \in src[t]
              \/ /\ t \in Dispatched
                 /\ \E r \in instr[t].src_reg :
                       /\ r \in Reg
                       /\ \/ u \in Dispatched /\ instr[u].dest_reg = r
                          \/ u = regs[r] /\ regs[r] # NULL
<1>1. u \notin {b.tag : b \in buses}
  BY DEF Sources
<1>2. CASE t \notin Dispatched
  BY <1>1, <1>2 DEF Sources
<1>3. CASE t \in Dispatched
  <2>1. u \in Operands(t)
    BY <1>3 DEF Sources
  <2>2. PICK r \in instr[t].src_reg : u = Writer(r, {v \in Dispatched : v < t}) /\ u # NULL
    BY <2>1 DEF Operands
  <2>3. r \in Reg
    BY <2>2, OpsAssumption DEF PipelineTypeOK, Operation
  <2>4. {v \in Dispatched : v < t} \in SUBSET DOMAIN instr
    BY DispatchedWait DEF PipelineTypeOK
  <2>5. \/ u \in {v \in Dispatched : v < t} /\ instr[u].dest_reg = r
        \/ u = regs[r]
    BY <2>2, <2>3, <2>4, WriterIsLast
  <2>6. \/ u \in Dispatched /\ instr[u].dest_reg = r
        \/ u = regs[r] /\ regs[r] # NULL
    BY <2>2, <2>5
  <2> QED
    BY <1>1, <1>3, <2>3, <2>6
<1> QED
  BY <1>2, <1>3

LEMMA DispatchKeepsPipe == ASSUME PipeInv, Dispatch PROVE PipeInv'
<1> DEFINE waiting == {t \in dispatch_queue : IsLong(t)}
           toLong  == First(M * K - Cardinality(LongQueue), waiting)
           toFast  == First(M * J - Cardinality(FastQueue), dispatch_queue \ waiting)
<1>1. Dispatched = toLong \cup toFast
  BY DEF Dispatched
<1>2. toLong \subseteq waiting /\ toFast \subseteq dispatch_queue \ waiting
  BY DEF First
<1>3. Dispatched \subseteq dispatch_queue
  BY DispatchedWait
<1>4. /\ dispatch_queue' = dispatch_queue \ Dispatched
      /\ schedule_queue' = schedule_queue \cup Dispatched
      /\ instr' = instr
      /\ src' = [t \in DOMAIN instr |-> Sources(t)]
      /\ regs' = [r \in Reg |-> Writer(r, Dispatched)]
      /\ stage' = "fetch" /\ progress' \in BOOLEAN /\ f' = 0
  BY DEF Dispatch, Goto
<1>5. LongQueue' = LongQueue \cup toLong /\ FastQueue' = FastQueue \cup toFast
  BY <1>1, <1>2, <1>4 DEF LongQueue, FastQueue, IsLong
<1>6. /\ LongQueue \in SUBSET (1 .. counter - 1) /\ waiting \in SUBSET (1 .. counter - 1)
      /\ FastQueue \in SUBSET (1 .. counter - 1)
      /\ dispatch_queue \ waiting \in SUBSET (1 .. counter - 1)
  BY QueuesAreTags DEF PipeInv
<1>7. /\ Cardinality(LongQueue) <= M * K /\ Cardinality(FastQueue) <= M * J
      /\ Cardinality(dispatch_queue) <= D * (M * J + M * K)
  BY DEF PipeInv, PipelineTypeOK
<1>8. Cardinality(LongQueue') <= M * K
  BY <1>5, <1>6, <1>7, FilledUp, Sizes, QueuesAreTags DEF PipeInv
<1>9. Cardinality(FastQueue') <= M * J
  BY <1>5, <1>6, <1>7, FilledUp, Sizes, QueuesAreTags DEF PipeInv
<1>10. Cardinality(dispatch_queue') <= D * (M * J + M * K)
  <2> DEFINE cap == D * (M * J + M * K)
  <2>1. cap \in Nat /\ Cardinality(dispatch_queue) <= cap
    BY <1>7, Sizes
  <2> HIDE DEF cap
  <2>2. IsFiniteSet(dispatch_queue) /\ Cardinality(dispatch_queue) \in Nat
    BY QueuesAreTags, TagsFinite DEF PipeInv
  <2>3. dispatch_queue' \in SUBSET dispatch_queue
    BY <1>4
  <2>4. Cardinality(dispatch_queue') <= Cardinality(dispatch_queue)
        /\ Cardinality(dispatch_queue') \in Nat
    BY <2>2, <2>3, FS_Subset, FS_CardinalityType
  <2>5. Cardinality(dispatch_queue') <= cap
    BY <2>1, <2>2, <2>4
  <2> QED
    BY <2>5 DEF cap
<1> HIDE DEF waiting, toLong, toFast
<1>11. \A t \in DOMAIN src' : src'[t] \subseteq Tag
  <2> SUFFICES ASSUME NEW t \in DOMAIN instr, NEW u \in Sources(t)
               PROVE  u \in Tag
    BY <1>4
  <2>1. Dispatched \subseteq Tag
    BY <1>3, QueuesAreTags DEF PipeInv, Tag
  <2> QED
    BY <2>1, SourcesAre DEF PipeInv, PipelineTypeOK
<1>12. regs' \in [Reg -> Tag \cup {NULL}]
  <2>1. Dispatched \in SUBSET DOMAIN instr /\ Dispatched \subseteq Tag
    BY <1>3 DEF PipeInv, PipelineTypeOK
  <2> QED
    BY <1>4, <2>1, WriterIsLast DEF PipeInv, PipelineTypeOK
<1>13. /\ DOMAIN instr = dispatch_queue' \cup schedule_queue'
       /\ dispatch_queue' \cap schedule_queue' = {}
       /\ fired \subseteq schedule_queue'
  BY <1>3, <1>4 DEF PipeInv, PipelineTypeOK
<1>14. f' \in 0 .. F
  BY <1>4, Sizes
<1>15. PipelineTypeOK'
  BY <1>4, <1>8, <1>9, <1>10, <1>11, <1>12, <1>13, <1>14
     DEF Dispatch, PipeInv, PipelineTypeOK, unitVars, stallVars, Tag
<1>16. NoneCompleted'
  BY <1>4 DEF NoneCompleted
<1>17. FiredIsUnderWay'
  <2>1. InUnits' = InUnits
    BY DEF Dispatch, unitVars, InUnits
  <2> QED
    BY <2>1 DEF Dispatch, unitVars, PipeInv, FiredIsUnderWay
<1> QED
  BY <1>15, <1>16, <1>17 DEF PipeInv

LEMMA FetchKeepsPipe ==
    ASSUME PipeInv, NEW o \in Ops, NEW mispredicted \in BOOLEAN, Fetch(o, mispredicted)
    PROVE  PipeInv'
<1>1. /\ counter' = counter + 1
      /\ counter \in Nat \ {0}
      /\ counter \notin DOMAIN instr
      /\ DOMAIN instr' = DOMAIN instr \cup {counter}
      /\ \A t \in DOMAIN instr : instr'[t] = instr[t] /\ src'[t] = src[t]
      /\ instr'[counter] = o /\ src'[counter] = {} /\ DOMAIN src' = DOMAIN instr'
      /\ schedule_queue' = schedule_queue
      /\ dispatch_queue' = dispatch_queue \cup {counter}
  BY DEF Fetch, PipeInv, PipelineTypeOK, Tag
<1>2. Tag \subseteq Tag' /\ counter \in Tag'
  BY <1>1 DEF Tag
<1>3. LongQueue' = LongQueue /\ FastQueue' = FastQueue /\ InUnits' = InUnits
  <2>1. \A t \in schedule_queue : instr'[t] = instr[t]
    BY <1>1 DEF PipeInv, PipelineTypeOK
  <2>2. LongQueue' = LongQueue
    BY <1>1, <2>1 DEF LongQueue, IsLong
  <2>3. FastQueue' = FastQueue
    BY <1>1, <2>2 DEF FastQueue
  <2>4. InUnits' = InUnits
    BY DEF InUnits, Fetch, unitVars
  <2> QED
    BY <2>2, <2>3, <2>4
<1>4. Cardinality(dispatch_queue') <= D * (M * J + M * K)
  <2> DEFINE cap == D * (M * J + M * K)
  <2>1. cap \in Nat /\ Cardinality(dispatch_queue) < cap
    BY Sizes DEF Fetch, MayFetch
  <2> HIDE DEF cap
  <2>2. IsFiniteSet(dispatch_queue) /\ Cardinality(dispatch_queue) \in Nat
    BY QueuesAreTags, TagsFinite DEF PipeInv
  <2>3. counter \notin dispatch_queue
    BY <1>1 DEF PipeInv, PipelineTypeOK
  <2>4. Cardinality(dispatch_queue') = Cardinality(dispatch_queue) + 1
    BY <1>1, <2>2, <2>3, FS_AddElement
  <2>5. Cardinality(dispatch_queue') <= cap
    BY <2>1, <2>2, <2>4
  <2> QED
    BY <2>5 DEF cap
<1>5. opsLeft' \in [Proc -> 0 .. TraceLength]
  <2>1. opsLeft[i] \in 0 .. TraceLength /\ opsLeft[i] > 0
    BY DEF Fetch, MayFetch, PipeInv, PipelineTypeOK
  <2> QED
    BY <2>1, SizeAssumption DEF Fetch, PipeInv, PipelineTypeOK
<1>6. f' \in 0 .. F
  BY Sizes DEF Fetch, MayFetch, PipeInv, PipelineTypeOK
<1>7. /\ DOMAIN instr' \subseteq Tag' /\ \A t \in DOMAIN instr' : instr'[t] \in Ops
      /\ \A t \in DOMAIN src' : src'[t] \subseteq Tag'
  BY <1>1, <1>2 DEF PipeInv, PipelineTypeOK
<1>8. DOMAIN instr' = dispatch_queue' \cup schedule_queue'
      /\ dispatch_queue' \cap schedule_queue' = {}
  BY <1>1 DEF PipeInv, PipelineTypeOK
<1>9. /\ buses' \subseteq [tag : Tag', reg_id : Reg \cup {NULL}]
      /\ regs' \in [Reg -> Tag' \cup {NULL}]
      /\ memOpTag' \in [Proc -> Tag' \cup {NULL}]
      /\ requested' \subseteq Tag'
  <2>1. buses \subseteq [tag : Tag', reg_id : Reg \cup {NULL}]
    BY <1>2 DEF PipeInv, PipelineTypeOK
  <2> QED
    BY <1>2, <2>1 DEF Fetch, PipeInv, PipelineTypeOK
<1>10. pendingBranch' \in [Proc -> BOOLEAN] /\ progress' \in BOOLEAN
  BY DEF Fetch, PipeInv, PipelineTypeOK
<1>11. PipelineTypeOK'
  <2>1. counter' \in Nat \ {0} /\ DOMAIN src' = DOMAIN instr'
    BY <1>1
  <2>2. Cardinality(LongQueue') <= M * K /\ Cardinality(FastQueue') <= M * J
    BY <1>3 DEF PipeInv, PipelineTypeOK
  <2>3. UNCHANGED <<schedule_queue, state_update_queue, fired, fast, long, buses, completed, stage, i>>
    BY DEF Fetch, unitVars
  <2> QED
    BY <1>4, <1>5, <1>6, <1>7, <1>8, <1>9, <1>10, <2>1, <2>2, <2>3
       DEF PipeInv, PipelineTypeOK
<1>12. NoneCompleted'
  BY DEF Fetch, PipeInv, NoneCompleted
<1>13. FiredIsUnderWay'
  BY <1>3 DEF Fetch, PipeInv, FiredIsUnderWay, unitVars
<1> QED
  BY <1>11, <1>12, <1>13 DEF PipeInv

LEMMA FetchEndsKeepsPipe == ASSUME PipeInv, FetchEnds PROVE PipeInv'
<1>1. UNCHANGED <<pipeVars, i, f, progress>> /\ stage' = "retire"
  BY DEF FetchEnds
<1>2. LongQueue' = LongQueue /\ FastQueue' = FastQueue /\ InUnits' = InUnits
  BY <1>1 DEF pipeVars, queueVars, unitVars, LongQueue, FastQueue, IsLong, InUnits
<1>3. PipelineTypeOK'
  BY <1>1, <1>2 DEF PipeInv, PipelineTypeOK, pipeVars, queueVars, unitVars, stallVars, Tag
<1>4. NoneCompleted'
  BY <1>1 DEF NoneCompleted
<1>5. FiredIsUnderWay'
  BY <1>1, <1>2 DEF PipeInv, FiredIsUnderWay, pipeVars, queueVars, unitVars
<1> QED
  BY <1>3, <1>4, <1>5 DEF PipeInv

LEMMA RetireKeepsPipe == ASSUME PipeInv, Retire PROVE PipeInv'
<1> DEFINE staying == DOMAIN instr \ completed
<1>1. /\ instr' = [t \in staying |-> instr[t]]
      /\ src' = [t \in staying |-> src[t]]
      /\ schedule_queue' = schedule_queue \ completed
      /\ fired' = fired \ completed
      /\ completed' = {}
      /\ UNCHANGED <<opsLeft, counter, dispatch_queue, state_update_queue, fast, long, buses,
                     regs, memOpTag, requested, f>>
  BY DEF Retire
<1>2. /\ completed \subseteq fired /\ fired \subseteq schedule_queue
      /\ DOMAIN instr = dispatch_queue \cup schedule_queue /\ DOMAIN src = DOMAIN instr
      /\ dispatch_queue \cap schedule_queue = {}
  BY DEF PipeInv, PipelineTypeOK
<1>3. LongQueue' = LongQueue \ completed /\ FastQueue' = FastQueue \ completed
  <2>1. \A t \in schedule_queue \ completed : instr'[t] = instr[t]
    BY <1>1, <1>2
  <2>2. LongQueue' = LongQueue \ completed
    BY <1>1, <2>1 DEF LongQueue, IsLong
  <2> QED
    BY <1>1, <2>2 DEF FastQueue
<1>4. Cardinality(LongQueue') <= M * K
  <2> DEFINE cap == M * K
  <2>1. cap \in Nat /\ Cardinality(LongQueue) <= cap
    BY Sizes DEF PipeInv, PipelineTypeOK
  <2> HIDE DEF cap
  <2>2. LongQueue \in SUBSET (1 .. counter - 1) /\ LongQueue' \in SUBSET LongQueue
    BY <1>3, QueuesAreTags DEF PipeInv
  <2>3. IsFiniteSet(LongQueue) /\ Cardinality(LongQueue) \in Nat
    BY <2>2, QueuesAreTags, TagsFinite DEF PipeInv
  <2>4. Cardinality(LongQueue') <= Cardinality(LongQueue) /\ Cardinality(LongQueue') \in Nat
    BY <2>2, <2>3, FS_Subset, FS_CardinalityType
  <2>5. Cardinality(LongQueue') <= cap
    BY <2>1, <2>3, <2>4
  <2> QED
    BY <2>5 DEF cap
<1>5. Cardinality(FastQueue') <= M * J
  <2> DEFINE cap == M * J
  <2>1. cap \in Nat /\ Cardinality(FastQueue) <= cap
    BY Sizes DEF PipeInv, PipelineTypeOK
  <2> HIDE DEF cap
  <2>2. FastQueue \in SUBSET (1 .. counter - 1) /\ FastQueue' \in SUBSET FastQueue
    BY <1>3, QueuesAreTags DEF PipeInv
  <2>3. IsFiniteSet(FastQueue) /\ Cardinality(FastQueue) \in Nat
    BY <2>2, QueuesAreTags, TagsFinite DEF PipeInv
  <2>4. Cardinality(FastQueue') <= Cardinality(FastQueue) /\ Cardinality(FastQueue') \in Nat
    BY <2>2, <2>3, FS_Subset, FS_CardinalityType
  <2>5. Cardinality(FastQueue') <= cap
    BY <2>1, <2>3, <2>4
  <2> QED
    BY <2>5 DEF cap
<1>6. /\ DOMAIN instr' \subseteq Tag /\ \A t \in DOMAIN instr' : instr'[t] \in Ops
      /\ DOMAIN src' = DOMAIN instr' /\ \A t \in DOMAIN src' : src'[t] \subseteq Tag
      /\ DOMAIN instr' = dispatch_queue' \cup schedule_queue'
      /\ dispatch_queue' \cap schedule_queue' = {}
      /\ fired' \subseteq schedule_queue'
  BY <1>1, <1>2 DEF PipeInv, PipelineTypeOK
<1>7. /\ fired = InUnits \cup state_update_queue \cup completed
      /\ state_update_queue \cap completed = {}
      /\ InUnits \cap (state_update_queue \cup completed) = {}
      /\ InUnits' = InUnits
  BY <1>1 DEF PipeInv, FiredIsUnderWay, InUnits
<1>8. long' \in [Slot -> SUBSET fired'] /\ state_update_queue' \subseteq fired'
  <2>1. \A s \in Slot : long[s] \subseteq InUnits
    BY DEF InUnits
  <2> QED
    BY <1>1, <1>7, <2>1 DEF PipeInv, PipelineTypeOK
<1>9. /\ stage' \in {"clock", "update", "end"} /\ i' \in Proc
      /\ progress' \in BOOLEAN /\ pendingBranch' \in [Proc -> BOOLEAN]
  <2>1. i \in 1 .. processorCount /\ processorCount \in Nat \ {0} /\ progress \in BOOLEAN
    BY SizeAssumption DEF PipeInv, PipelineTypeOK, Proc
  <2>2. stage' \in {"clock", "update", "end"}
    BY DEF Retire
  <2>3. i' \in Proc
    BY <2>1 DEF Retire, Proc
  <2>4. progress' = (progress \/ completed # {})
    BY DEF Retire
  <2>5. pendingBranch' \in [Proc -> BOOLEAN]
    BY DEF Retire, StallsStill, PipeInv, PipelineTypeOK
  <2> QED
    BY <2>1, <2>2, <2>3, <2>4, <2>5
<1>10. PipelineTypeOK'
  <2>1. Tag' = Tag
    BY <1>1 DEF Tag
  <2> QED
    BY <1>1, <1>4, <1>5, <1>6, <1>8, <1>9, <2>1 DEF PipeInv, PipelineTypeOK
<1>11. NoneCompleted'
  BY <1>1 DEF NoneCompleted
<1>12. FiredIsUnderWay'
  BY <1>1, <1>7 DEF PipeInv, FiredIsUnderWay
<1> QED
  BY <1>10, <1>11, <1>12 DEF PipeInv

LEMMA PipeInvStep == PipeInv /\ [Next]_vars => PipeInv'
<1> SUFFICES ASSUME PipeInv, [Next]_vars PROVE PipeInv'
  OBVIOUS
<1>1. CASE UNCHANGED vars
  <2>1. LongQueue' = LongQueue /\ FastQueue' = FastQueue /\ InUnits' = InUnits
    BY <1>1 DEF vars, pipeVars, queueVars, unitVars, LongQueue, FastQueue, IsLong, InUnits
  <2>2. PipelineTypeOK'
    BY <1>1, <2>1
       DEF PipeInv, PipelineTypeOK, vars, pipeVars, queueVars, unitVars, stallVars, Tag
  <2>3. NoneCompleted' /\ FiredIsUnderWay'
    BY <1>1, <2>1 DEF PipeInv, NoneCompleted, FiredIsUnderWay, vars, pipeVars, queueVars, unitVars
  <2> QED
    BY <2>2, <2>3 DEF PipeInv
<1>2. ASSUME NEW o \in Ops, NEW mispredicted \in BOOLEAN, Fetch(o, mispredicted) PROVE PipeInv'
  BY <1>2, FetchKeepsPipe
<1> QED
  BY <1>1, <1>2, ClockKeepsPipe, UpdateStateKeepsPipe, ExecuteKeepsPipe, ScheduleKeepsPipe,
     DispatchKeepsPipe, FetchEndsKeepsPipe, RetireKeepsPipe DEF Next

LEMMA PipeInvHolds == Spec => []PipeInv
BY PipeInvInit, PipeInvStep, PTL DEF Spec

\* The queues, units and buses of processor-p4 never hold more than their sizes,
\* and every state of the pipeline has its type.
THEOREM PipelineTypeCorrect == Spec => []PipelineTypeOK
<1>1. PipeInv => PipelineTypeOK
  BY DEF PipeInv
<1> QED
  BY <1>1, PipeInvHolds, PTL

\* A fired operation is in exactly one place: in one stage of one unit, in the
\* state update queue, or completed.
THEOREM OnePlaceEach == Spec => []FiredIsUnderWay
<1>1. PipeInv => FiredIsUnderWay
  BY DEF PipeInv
<1> QED
  BY <1>1, PipeInvHolds, PTL

-----------------------------------------------------------------------------
(* Wake-ups. EveryWaitIsLive is inductive once the types are known: what is  *)
(* waited for is not completed before it is on a bus, and is on a bus until   *)
(* all have read it.                                                        *)

Broadcasting == stage \in {"execute", "schedule", "dispatch"}

\* Membership in Producing, spelled out.
LEMMA ProducingIs ==
    ASSUME NEW r, NEW onBus \in BOOLEAN, NEW u
    PROVE  u \in Producing(r, onBus) <=>
               \/ u \in schedule_queue /\ u \notin completed /\ instr[u].dest_reg = r
               \/ onBus /\ \E b \in buses : b.tag = u /\ b.reg_id = r
BY DEF Producing

\* The two parts of EveryWaitIsLive.
LEMMA LiveParts ==
    EveryWaitIsLive <=>
        /\ \A t \in schedule_queue : \A u \in src[t] :
              \E r \in instr[t].src_reg : u \in Producing(r, Broadcasting)
        /\ \A r \in Reg : regs[r] # NULL => regs[r] \in Producing(r, TRUE)
BY DEF EveryWaitIsLive, Broadcasting

LEMMA LivePartsNext ==
    EveryWaitIsLive' <=>
        /\ \A t \in schedule_queue' : \A u \in src'[t] :
              \E r \in instr'[t].src_reg : u \in Producing(r, Broadcasting)'
        /\ \A r \in Reg : regs'[r] # NULL => regs'[r] \in Producing(r, TRUE)'
BY DEF EveryWaitIsLive, Broadcasting

\* The sources of an operation are registers.
LEMMA SourcesAreRegs ==
    ASSUME PipelineTypeOK, NEW t \in DOMAIN instr
    PROVE  instr[t].src_reg \subseteq Reg
BY OpsAssumption DEF PipelineTypeOK, Operation

\* As long as queues, operations and buses stay, so does what is waited for.
LEMMA WaitsUnchanged ==
    ASSUME EveryWaitIsLive, Broadcasting' = Broadcasting,
           UNCHANGED <<instr, src, schedule_queue, buses, completed, regs>>
    PROVE  EveryWaitIsLive'
<1>1. \A r : /\ Producing(r, Broadcasting)' = Producing(r, Broadcasting)
             /\ Producing(r, TRUE)' = Producing(r, TRUE)
  BY DEF Producing
<1> QED
  BY <1>1, LiveParts, LivePartsNext

LEMMA UpdateStateKeepsWaits ==
    ASSUME PipeInv, EveryWaitIsLive, UpdateState
    PROVE  EveryWaitIsLive'
<1> DEFINE pulled == First(C, state_update_queue)
<1>1. /\ completed = {} /\ completed' = pulled /\ Broadcasting' /\ ~Broadcasting
      /\ UNCHANGED <<instr, src, schedule_queue>>
      /\ buses' = {[tag |-> t, reg_id |-> instr[t].dest_reg] : t \in {u \in pulled : ~IsBranch(u)}}
      /\ regs' = [r \in Reg |->
                    IF \E b \in buses : b.reg_id = r /\ b.tag = regs[r] THEN NULL ELSE regs[r]]
  BY DEF UpdateState, Goto, Broadcasting, PipeInv, NoneCompleted
\* What is on its way to a register is still on its way, or is on a bus now.
<1>2. ASSUME NEW r \in Reg, NEW u \in schedule_queue, instr[u].dest_reg = r
      PROVE  u \in Producing(r, TRUE)'
  <2>1. CASE u \notin pulled
    BY <1>1, <1>2, <2>1 DEF Producing
  <2>2. CASE u \in pulled
    <3>1. instr[u].op # "BRANCH"
      BY <1>2, QueuesAreTags, OpsAssumption, NullAssumption DEF PipeInv
    <3>2. [tag |-> u, reg_id |-> instr[u].dest_reg] \in buses'
      BY <1>1, <2>2, <3>1 DEF IsBranch
    <3> QED
      BY <1>2, <3>2 DEF Producing
  <2> QED
    BY <2>1, <2>2
<1>3. \A t \in schedule_queue' : \A u \in src'[t] :
          \E r \in instr'[t].src_reg : u \in Producing(r, Broadcasting)'
  <2> SUFFICES ASSUME NEW t \in schedule_queue, NEW u \in src[t]
               PROVE  \E r \in instr[t].src_reg : u \in Producing(r, TRUE)'
    BY <1>1 DEF Producing
  <2>1. PICK r \in instr[t].src_reg : u \in Producing(r, Broadcasting)
    BY LiveParts
  <2>2. u \in schedule_queue /\ instr[u].dest_reg = r
    BY <1>1, <2>1 DEF Producing
  <2>3. r \in Reg
    BY SourcesAreRegs DEF PipeInv, PipelineTypeOK
  <2> QED
    BY <1>2, <2>2, <2>3
<1>4. \A r \in Reg : regs'[r] # NULL => regs'[r] \in Producing(r, TRUE)'
  <2> SUFFICES ASSUME NEW r \in Reg, regs'[r] # NULL PROVE regs'[r] \in Producing(r, TRUE)'
    OBVIOUS
  <2>1. /\ regs'[r] = regs[r]
        /\ ~ \E b \in buses : b.reg_id = r /\ b.tag = regs[r]
    BY <1>1
  <2>2. regs[r] \in Producing(r, TRUE)
    BY <2>1, LiveParts
  <2>3. regs[r] \in schedule_queue /\ instr[regs[r]].dest_reg = r
    BY <2>1, <2>2 DEF Producing
  <2> QED
    BY <1>2, <2>1, <2>3
<1> QED
  BY <1>3, <1>4, LivePartsNext

LEMMA DispatchKeepsWaits ==
    ASSUME PipeInv, EveryWaitIsLive, Dispatch
    PROVE  EveryWaitIsLive'
<1>1. /\ Broadcasting /\ ~Broadcasting'
      /\ schedule_queue' = schedule_queue \cup Dispatched
      /\ src' = [t \in DOMAIN instr |-> Sources(t)]
      /\ regs' = [r \in Reg |-> Writer(r, Dispatched)]
      /\ UNCHANGED <<instr, buses, completed>>
  BY DEF Dispatch, Goto, Broadcasting
<1>2. /\ Dispatched \subseteq DOMAIN instr /\ schedule_queue \subseteq DOMAIN instr
      /\ Dispatched \cap completed = {} /\ Dispatched \cap schedule_queue = {}
  BY DispatchedWait DEF PipeInv, PipelineTypeOK
\* What is dispatched now or was waited for before is still to come.
<1>3. ASSUME NEW r \in Reg, NEW u,
             \/ u \in Dispatched /\ instr[u].dest_reg = r
             \/ u = regs[r] /\ regs[r] # NULL
      PROVE  u \in Producing(r, TRUE)'
  <2>1. CASE u \in Dispatched /\ instr[u].dest_reg = r
    BY <1>1, <1>2, <2>1 DEF Producing
  <2>2. CASE u = regs[r] /\ regs[r] # NULL
    <3>1. u \in Producing(r, TRUE)
      BY <2>2, LiveParts
    <3> QED
      BY <1>1, <3>1 DEF Producing
  <2> QED
    BY <1>3, <2>1, <2>2
<1>4. ASSUME NEW r, NEW u, u \in Producing(r, TRUE)', u \notin {b.tag : b \in buses}
      PROVE  u \in Producing(r, Broadcasting)'
  BY <1>1, <1>4 DEF Producing
<1>5. \A t \in schedule_queue' : \A u \in src'[t] :
          \E r \in instr'[t].src_reg : u \in Producing(r, Broadcasting)'
  <2> SUFFICES ASSUME NEW t \in schedule_queue \cup Dispatched, NEW u \in Sources(t)
               PROVE  \E r \in instr[t].src_reg : u \in Producing(r, Broadcasting)'
    BY <1>1, <1>2
  <2>1. t \in DOMAIN instr
    BY <1>2
  <2>2. u \notin {b.tag : b \in buses}
    BY <2>1, SourcesAre DEF PipeInv
  <2>3. \/ t \notin Dispatched /\ u \in src[t]
        \/ /\ t \in Dispatched
           /\ \E r \in instr[t].src_reg :
                 /\ r \in Reg
                 /\ \/ u \in Dispatched /\ instr[u].dest_reg = r
                    \/ u = regs[r] /\ regs[r] # NULL
    BY <2>1, SourcesAre DEF PipeInv
  <2>4. CASE t \notin Dispatched /\ u \in src[t]
    <3>1. PICK r \in instr[t].src_reg : u \in Producing(r, Broadcasting)
      BY <2>4, LiveParts
    <3>2. u \in Producing(r, TRUE)'
      BY <1>1, <3>1 DEF Producing
    <3> QED
      BY <1>4, <2>2, <3>1, <3>2
  <2>5. CASE \E r \in instr[t].src_reg :
                 /\ r \in Reg
                 /\ \/ u \in Dispatched /\ instr[u].dest_reg = r
                    \/ u = regs[r] /\ regs[r] # NULL
    BY <1>3, <1>4, <2>2, <2>5
  <2> QED
    BY <2>3, <2>4, <2>5
<1>6. \A r \in Reg : regs'[r] # NULL => regs'[r] \in Producing(r, TRUE)'
  <2> SUFFICES ASSUME NEW r \in Reg, Writer(r, Dispatched) # NULL
               PROVE  Writer(r, Dispatched) \in Producing(r, TRUE)'
    BY <1>1
  <2> QED
    BY <1>2, <1>3, WriterIsLast DEF PipeInv
<1> QED
  BY <1>5, <1>6, LivePartsNext

LEMMA FetchKeepsWaits ==
    ASSUME PipeInv, EveryWaitIsLive, NEW o \in Ops, NEW mispredicted \in BOOLEAN,
           Fetch(o, mispredicted)
    PROVE  EveryWaitIsLive'
<1>1. /\ Broadcasting' = Broadcasting
      /\ \A t \in schedule_queue : instr'[t] = instr[t] /\ src'[t] = src[t]
      /\ UNCHANGED <<schedule_queue, buses, completed, regs>>
  BY DEF Fetch, Broadcasting, PipeInv, PipelineTypeOK, Tag
<1>2. \A r : /\ Producing(r, Broadcasting)' = Producing(r, Broadcasting)
             /\ Producing(r, TRUE)' = Producing(r, TRUE)
  BY <1>1 DEF Producing
<1>3. \A t \in schedule_queue' : \A u \in src'[t] :
          \E r \in instr'[t].src_reg : u \in Producing(r, Broadcasting)'
  <2> SUFFICES ASSUME NEW t \in schedule_queue', NEW u \in src'[t]
               PROVE  \E r \in instr'[t].src_reg : u \in Producing(r, Broadcasting)'
    OBVIOUS
  <2>1. t \in schedule_queue /\ u \in src[t] /\ instr'[t] = instr[t]
    BY <1>1, <1>2
  <2>2. PICK r \in instr[t].src_reg : u \in Producing(r, Broadcasting)
    BY <2>1, LiveParts
  <2> QED
    BY <1>1, <1>2, <2>1, <2>2
<1>4. \A r \in Reg : regs'[r] # NULL => regs'[r] \in Producing(r, TRUE)'
  BY <1>1, <1>2, LiveParts
<1> QED
  BY <1>3, <1>4, LivePartsNext

LEMMA RetireKeepsWaits ==
    ASSUME PipeInv, EveryWaitIsLive, Retire
    PROVE  EveryWaitIsLive'
<1>1. /\ ~Broadcasting /\ ~Broadcasting'
      /\ schedule_queue' = schedule_queue \ completed /\ completed' = {}
      /\ UNCHANGED <<buses, regs>>
  BY DEF Retire, Broadcasting
<1>2. \A t \in schedule_queue \ completed : instr'[t] = instr[t] /\ src'[t] = src[t]
  BY DEF Retire, PipeInv, PipelineTypeOK
<1>3. \A r : /\ Producing(r, Broadcasting)' = Producing(r, Broadcasting)
             /\ Producing(r, TRUE)' = Producing(r, TRUE)
  BY <1>1, <1>2 DEF Producing
<1>4. \A t \in schedule_queue' : \A u \in src'[t] :
          \E r \in instr'[t].src_reg : u \in Producing(r, Broadcasting)'
  <2> SUFFICES ASSUME NEW t \in schedule_queue', NEW u \in src'[t]
               PROVE  \E r \in instr'[t].src_reg : u \in Producing(r, Broadcasting)'
    OBVIOUS
  <2>1. t \in schedule_queue /\ u \in src[t] /\ instr'[t] = instr[t]
    BY <1>1, <1>2, <1>3
  <2>2. PICK r \in instr[t].src_reg : u \in Producing(r, Broadcasting)
    BY <2>1, LiveParts
  <2> QED
    BY <1>1, <1>2, <1>3, <2>1, <2>2
<1>5. \A r \in Reg : regs'[r] # NULL => regs'[r] \in Producing(r, TRUE)'
  BY <1>1, <1>2, <1>3, LiveParts
<1> QED
  BY <1>4, <1>5, LivePartsNext

LEMMA WaitsStep == PipeInv /\ EveryWaitIsLive /\ [Next]_vars => EveryWaitIsLive'
<1> SUFFICES ASSUME PipeInv, EveryWaitIsLive, [Next]_vars PROVE EveryWaitIsLive'
  OBVIOUS
<1>1. CASE Clock
  BY <1>1, WaitsUnchanged DEF Clock, queueVars, Broadcasting
<1>2. CASE Execute
  BY <1>2, WaitsUnchanged DEF Execute, Goto, Broadcasting
<1>3. CASE Schedule
  BY <1>3, WaitsUnchanged DEF Schedule, Goto, queueVars, Broadcasting
<1>4. CASE FetchEnds
  BY <1>4, WaitsUnchanged DEF FetchEnds, pipeVars, queueVars, Broadcasting
<1>5. CASE UNCHANGED vars
  BY <1>5, WaitsUnchanged DEF vars, pipeVars, queueVars, Broadcasting
<1>6. ASSUME NEW o \in Ops, NEW mispredicted \in BOOLEAN, Fetch(o, mispredicted)
      PROVE  EveryWaitIsLive'
  BY <1>6, FetchKeepsWaits
<1> QED
  BY <1>1, <1>2, <1>3, <1>4, <1>5, <1>6, UpdateStateKeepsWaits, DispatchKeepsWaits,
     RetireKeepsWaits DEF Next

\* No wake-up is lost: whatever an operation or a register of processor-p4 waits
\* for is still on its way to a result bus, or on one that is still to be read.
THEOREM NoWakeUpLost == Spec => []EveryWaitIsLive
<1>1. Init => EveryWaitIsLive
  BY DEF Init, EveryWaitIsLive
<1> QED
  BY <1>1, WaitsStep, PipeInvHolds, PTL DEF Spec

-----------------------------------------------------------------------------
(* Accesses, with one processor.                                           *)

\* The access that is waited for is the one the cache has, and is in a unit.
OneAccess ==
    /\ requested = IF memOpTag[1] = NULL THEN {} ELSE {memOpTag[1]}
    /\ requested \subseteq fast
    /\ \A t \in requested : IsMem(t)

LEMMA OneProcessor ==
    ASSUME processorCount = 1, PipeInv
    PROVE  Proc = {1} /\ i = 1
BY DEF Proc, PipeInv, PipelineTypeOK

LEMMA AccessIsOne == ASSUME processorCount = 1 PROVE AccessesAnswered <=> OneAccess
<1>1. Proc = {1}
  BY DEF Proc
<1> QED
  BY <1>1 DEF AccessesAnswered, OneAccess

LEMMA ClockKeepsAccess ==
    ASSUME processorCount = 1, PipeInv, OneAccess, Clock
    PROVE  OneAccess'
<1>1. PICK answered \in SUBSET requested :
          /\ requested' = requested \ answered
          /\ memOpTag' = [p \in Proc |-> IF memOpTag[p] \in answered THEN NULL ELSE memOpTag[p]]
  BY DEF Clock
<1>2. memOpTag'[1] = IF memOpTag[1] \in answered THEN NULL ELSE memOpTag[1]
  BY <1>1, OneProcessor
<1>3. UNCHANGED <<instr, fast>>
  BY DEF Clock, unitVars
<1>4. NULL \notin requested
  BY DEF OneAccess
<1> QED
  BY <1>1, <1>2, <1>3, <1>4 DEF OneAccess, IsMem

LEMMA ExecuteKeepsAccess ==
    ASSUME processorCount = 1, PipeInv, OneAccess, Execute
    PROVE  OneAccess'
<1>1. fast' = Staying /\ UNCHANGED <<instr, memOpTag, requested>>
  BY DEF Execute, stallVars
<1>2. requested \subseteq Staying
  BY OneProcessor DEF OneAccess, Staying
<1> QED
  BY <1>1, <1>2 DEF OneAccess, IsMem

LEMMA ScheduleKeepsAccess ==
    ASSUME processorCount = 1, PipeInv, OneAccess, Schedule
    PROVE  OneAccess'
<1> DEFINE toFast   == First(J - Cardinality(fast), ReadyFast)
           access   == {t \in toFast : IsMem(t)}
           accesses == {t \in FastQueue : Independent(t) /\ IsMem(t)}
<1>1. /\ fast' = fast \cup toFast
      /\ memOpTag' = [memOpTag EXCEPT ![i] = IF access = {} THEN @ ELSE Max(access)]
      /\ requested' = requested \cup access
      /\ instr' = instr
  BY DEF Schedule
<1>2. i = 1 /\ memOpTag \in [Proc -> Tag \cup {NULL}] /\ Proc = {1}
  BY OneProcessor DEF PipeInv, PipelineTypeOK
<1>3. toFast \subseteq ReadyFast
  BY DEF First
<1>4. CASE memOpTag[1] # NULL
  <2>1. access = {}
    BY <1>2, <1>3, <1>4 DEF ReadyFast
  <2>2. memOpTag' = memOpTag /\ requested' = requested
    BY <1>1, <1>2, <2>1
  <2> QED
    BY <1>1, <2>2 DEF OneAccess, IsMem
<1>5. CASE memOpTag[1] = NULL
  <2>1. requested = {}
    BY <1>5 DEF OneAccess
  <2>2. accesses \in SUBSET (1 .. counter - 1) /\ counter - 1 \in Nat
    BY QueuesAreTags DEF PipeInv
  <2>3. access \subseteq First(1, accesses)
    BY <1>2, <1>3, <1>5 DEF ReadyFast
  <2>4. \A t, u \in access : t = u
    BY <2>2, <2>3, FirstOne
  <2>5. access \in SUBSET (1 .. counter - 1)
    BY <2>2, <2>3 DEF First
  <2>6. CASE access = {}
    <3>1. memOpTag' = memOpTag /\ requested' = {}
      BY <1>1, <1>2, <2>1, <2>6
    <3> QED
      BY <1>5, <3>1 DEF OneAccess
  <2>7. CASE access # {}
    <3>1. Max(access) \in access
      BY <2>2, <2>5, <2>7, MaxOfTags
    <3>2. access = {Max(access)}
      BY <2>4, <3>1
    <3>3. memOpTag'[1] = Max(access) /\ Max(access) # NULL
      BY <1>1, <1>2, <2>5, <2>7, <3>1, NullAssumption
    <3>4. requested' = {memOpTag'[1]}
      BY <1>1, <2>1, <3>2, <3>3
    <3>5. requested' \subseteq fast' /\ \A t \in requested' : IsMem(t)'
      BY <1>1, <2>1 DEF IsMem
    <3> QED
      BY <3>3, <3>4, <3>5 DEF OneAccess
  <2> QED
    BY <2>6, <2>7
<1> QED
  BY <1>4, <1>5

\* As long as the operations in units stay what they are, so does the access.
LEMMA AccessUnchanged ==
    ASSUME OneAccess, UNCHANGED <<memOpTag, requested, fast>>,
           \A t \in fast : instr'[t] = instr[t]
    PROVE  OneAccess'
BY DEF OneAccess, IsMem

LEMMA AccessStep ==
    processorCount = 1 /\ PipeInv /\ OneAccess /\ [Next]_vars => OneAccess'
<1> SUFFICES ASSUME processorCount = 1, PipeInv, OneAccess, [Next]_vars PROVE OneAccess'
  OBVIOUS
<1>1. fast \subseteq schedule_queue /\ fast \cap completed = {}
  BY DEF PipeInv, PipelineTypeOK, FiredIsUnderWay, InUnits
<1>2. CASE UpdateState
  BY <1>2, AccessUnchanged DEF UpdateState, unitVars, stallVars
<1>3. CASE Dispatch
  BY <1>3, AccessUnchanged DEF Dispatch, unitVars, stallVars
<1>4. ASSUME NEW o \in Ops, NEW mispredicted \in BOOLEAN, Fetch(o, mispredicted)
      PROVE  OneAccess'
  <2>1. \A t \in fast : instr'[t] = instr[t]
    BY <1>1, <1>4 DEF Fetch, PipeInv, PipelineTypeOK, Tag
  <2> QED
    BY <1>4, <2>1, AccessUnchanged DEF Fetch, unitVars
<1>5. CASE FetchEnds
  BY <1>5, AccessUnchanged DEF FetchEnds, pipeVars, unitVars, stallVars
<1>6. CASE Retire
  <2>1. \A t \in fast : instr'[t] = instr[t]
    BY <1>1, <1>6 DEF Retire, PipeInv, PipelineTypeOK
  <2> QED
    BY <1>6, <2>1, AccessUnchanged DEF Retire
<1>7. CASE UNCHANGED vars
  BY <1>7, AccessUnchanged DEF vars, pipeVars, unitVars, stallVars
<1> QED
  BY <1>2, <1>3, <1>4, <1>5, <1>6, <1>7, ClockKeepsAccess, ExecuteKeepsAccess,
     ScheduleKeepsAccess DEF Next

\* With one processor an access of processor-p4 stays in its unit until the cache
\* has answered it, and there is no other access meanwhile.
THEOREM AccessesGetAnswers == Spec => []AccessesAnswered
<1>1. CASE processorCount = 1
  <2>1. Init => OneAccess
    BY <1>1 DEF Init, OneAccess, Proc
  <2>2. OneAccess => AccessesAnswered
    BY <1>1, AccessIsOne
  <2>3. PipeInv /\ OneAccess /\ [Next]_vars => OneAccess'
    BY <1>1, AccessStep
  <2> QED
    BY <2>1, <2>2, <2>3, PipeInvHolds, PTL DEF Spec
<1>2. CASE processorCount # 1
  <2>1. AccessesAnswered
    BY <1>2 DEF AccessesAnswered
  <2> QED
    BY <2>1, PTL
<1> QED
  BY <1>1, <1>2
=============================================================================
