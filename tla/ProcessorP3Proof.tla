-------------------------- MODULE ProcessorP3Proof --------------------------
(***************************************************************************)
(* The pipeline of processor-p3 implements that of ProcessorP4, for any    *)
(* numbers of units, buses, registers and any traces.                      *)
(*                                                                         *)
(* What ProcessorP4 says with sets, the code does with lists and loops:     *)
(* queues sorted by tag that are walked and cut, numbered units, a list of  *)
(* finished operations pushed one by one. The loops are folds here. What a  *)
(* fold comes to is shown by counting up (CountUp): a fact that holds       *)
(* before the first turn and that a turn preserves holds after the last.   *)
(* The loops over schedule and dispatch queue have invariants: Filled says  *)
(* what the units hold of the operations fired so far, Dispatching what the *)
(* operations dispatched so far have done to the registers and sources.    *)
(*                                                                         *)
(* P3Inv is the inductive invariant of the pipeline: the operations and     *)
(* their sources are known (OperationsKnown), each queue is in order and    *)
(* each operation is dispatched or waits for it (QueuesOrdered), no queue   *)
(* outgrows its size (DispatchBounded for the dispatch queue), and one that *)
(* is fired stays in its schedule queue until it retires and is in exactly  *)
(* one stage of one unit, in the state update queue or completed (FiredOnce *)
(* says at most one, FiredSomewhere at least one). For each stage there are *)
(* two lemmas: it keeps P3Inv, and it is the stage of ProcessorP4 on the    *)
(* sets that the queues and units hold.                                     *)
(***************************************************************************)
EXTENDS ProcessorP3, FiniteSetTheorems, FunctionTheorems, WellFoundedInduction, TLAPS

-----------------------------------------------------------------------------
(* Loops: folds over sequences.                                            *)

\* Counting up: what holds at 0 and goes on holding holds up to n.
LEMMA CountUp ==
    ASSUME NEW n \in Nat, NEW Good, 0 \in Good,
           \A k \in 0 .. n - 1 : k \in Good => k + 1 \in Good
    PROVE  \A k \in 0 .. n : k \in Good
<1> DEFINE Bad == {k \in 0 .. n : k \notin Good}
           R == OpToRel(<, Nat)
<1>1. ASSUME Bad # {} PROVE FALSE
  <2>1. Bad \subseteq Nat
    OBVIOUS
  <2> HIDE DEF Bad
  <2>2. PICK k \in Bad : \A e \in Bad : <<e, k>> \notin R
    BY <1>1, <2>1, WFMin, NatLessThanWellFounded
  <2>3. \A e \in Bad : ~ (e < k)
    BY <2>1, <2>2 DEF OpToRel
  <2>4. k \in 1 .. n
    <3>1. k \in 0 .. n /\ k # 0
      BY <2>2 DEF Bad
    <3> QED
      BY <3>1
  <2>5. k - 1 \in 0 .. n - 1 /\ k - 1 < k /\ k - 1 + 1 = k
    BY <2>4
  <2>6. k - 1 \in Good
    BY <2>3, <2>5 DEF Bad
  <2> QED
    BY <2>2, <2>5, <2>6 DEF Bad
<1> QED
  BY <1>1 DEF Bad

\* The largest of a set of numbers is the bound that is in it.
LEMMA MaxIsBound ==
    ASSUME NEW n \in Nat, NEW S \in SUBSET (1 .. n), n \in S
    PROVE  Max(S) = n
<1>1. \E x \in S : \A y \in S : x >= y
  OBVIOUS
<1>2. Max(S) \in S /\ \A y \in S : Max(S) >= y
  BY <1>1 DEF Max
<1>3. Max(S) \in 1 .. n /\ Max(S) >= n
  BY <1>2
<1> QED
  BY <1>3

\* The largest of a set of numbers is one of them.
LEMMA MaxWithin ==
    ASSUME NEW n \in Nat, NEW S \in SUBSET (1 .. n), S # {}
    PROVE  Max(S) \in S
<1> DEFINE T == {d \in 0 .. n : n - d \in S}
           R == OpToRel(<, Nat)
<1>1. T \subseteq Nat /\ T # {}
  <2>1. PICK t : t \in S
    OBVIOUS
  <2>2. n - t \in T
    BY <2>1
  <2> QED
    BY <2>2
<1>2. PICK d \in T : \A e \in T : <<e, d>> \notin R
  BY <1>1, WFMin, NatLessThanWellFounded
<1>3. \A e \in T : ~ (e < d)
  BY <1>1, <1>2 DEF OpToRel
<1>4. \A t \in S : t <= n - d
  <2> SUFFICES ASSUME NEW t \in S PROVE t <= n - d
    OBVIOUS
  <2>1. n - t \in T
    OBVIOUS
  <2> QED
    BY <1>1, <1>3, <2>1
<1>5. \E x \in S : \A y \in S : x >= y
  BY <1>1, <1>4
<1> QED
  BY <1>5 DEF Max

\* A loop over s that starts with base and takes a step h for each element.
Loops(g, h, base, s, m) ==
    \A S \in SUBSET (1 .. m) :
        g[S] = IF S = {} THEN base ELSE h[<<g[S \ {Max(S)}], s[Max(S)]>>]

\* There is a function that does.
LEMMA LoopExists ==
    ASSUME NEW A, NEW B, NEW h \in [A \X B -> A], NEW base \in A, NEW s \in Seq(B)
    PROVE  \E g \in [SUBSET (1 .. Len(s)) -> A] : Loops(g, h, base, s, Len(s))
<1> DEFINE Good == {m \in 0 .. Len(s) : \E g \in [SUBSET (1 .. m) -> A] : Loops(g, h, base, s, m)}
<1>1. 0 \in Good
  <2> DEFINE g == [S \in SUBSET (1 .. 0) |-> base]
  <2>1. g \in [SUBSET (1 .. 0) -> A] /\ Loops(g, h, base, s, 0)
    BY DEF Loops
  <2> QED
    BY <2>1
<1>2. ASSUME NEW m \in 0 .. Len(s) - 1, m \in Good PROVE m + 1 \in Good
  <2>1. PICK g \in [SUBSET (1 .. m) -> A] : Loops(g, h, base, s, m)
    BY <1>2
  <2> DEFINE G == [S \in SUBSET (1 .. m + 1) |->
                     IF m + 1 \in S THEN h[<<g[S \ {m + 1}], s[m + 1]>>] ELSE g[S]]
  <2>2. m \in Nat /\ m + 1 \in 0 .. Len(s) /\ m + 1 \in 1 .. Len(s) /\ s[m + 1] \in B
    OBVIOUS
  <2>3. ASSUME NEW S \in SUBSET (1 .. m + 1), m + 1 \in S
        PROVE  /\ S # {} /\ Max(S) = m + 1 /\ S \ {m + 1} \in SUBSET (1 .. m)
               /\ S \ {m + 1} \in SUBSET (1 .. m + 1) /\ m + 1 \notin S \ {m + 1}
    BY <2>2, <2>3, MaxIsBound
  <2>4. ASSUME NEW S \in SUBSET (1 .. m + 1), m + 1 \notin S
        PROVE  S \in SUBSET (1 .. m)
    <3> SUFFICES ASSUME NEW x \in S PROVE x \in 1 .. m
      OBVIOUS
    <3>1. x \in 1 .. m + 1 /\ x # m + 1
      BY <2>4
    <3> QED
      BY <3>1, <2>2
  <2>6. G \in [SUBSET (1 .. m + 1) -> A]
    <3> SUFFICES ASSUME NEW S \in SUBSET (1 .. m + 1)
                 PROVE  (IF m + 1 \in S THEN h[<<g[S \ {m + 1}], s[m + 1]>>] ELSE g[S]) \in A
      OBVIOUS
    <3> QED
      BY <2>2, <2>3, <2>4
  <2>7. ASSUME NEW S \in SUBSET (1 .. m + 1)
        PROVE  G[S] = IF S = {} THEN base ELSE h[<<G[S \ {Max(S)}], s[Max(S)]>>]
    <3>1. CASE m + 1 \in S
      <4>1. G[S] = h[<<g[S \ {m + 1}], s[m + 1]>>]
        BY <3>1
      <4>2. G[S \ {m + 1}] = g[S \ {m + 1}]
        BY <3>1, <2>3
      <4> QED
        BY <4>1, <4>2, <3>1, <2>3
    <3>2. CASE m + 1 \notin S
      <4>1. S \in SUBSET (1 .. m) /\ G[S] = g[S]
        BY <3>2, <2>4
      <4>2. g[S] = IF S = {} THEN base ELSE h[<<g[S \ {Max(S)}], s[Max(S)]>>]
        BY <4>1, <2>1 DEF Loops
      <4>3. S # {} => G[S \ {Max(S)}] = g[S \ {Max(S)}]
        <5> HIDE DEF G
        <5>1. S \ {Max(S)} \in SUBSET (1 .. m + 1) /\ m + 1 \notin S \ {Max(S)}
          BY <3>2
        <5> QED
          BY <5>1 DEF G
      <4> QED
        BY <4>1, <4>2, <4>3
    <3> QED
      BY <3>1, <3>2
  <2>8. Loops(G, h, base, s, m + 1)
    <3> HIDE DEF G
    <3> QED
      BY <2>7 DEF Loops
  <2> QED
    BY <2>2, <2>6, <2>8
<1>3. Len(s) \in Nat
  OBVIOUS
<1> HIDE DEF Good
<1>4. \A m \in 0 .. Len(s) : m \in Good
  BY <1>1, <1>2, <1>3, CountUp
<1>5. Len(s) \in Good
  BY <1>3, <1>4
<1> QED
  BY <1>5 DEF Good

\* A turn of it.
LEMMA LoopTurn ==
    ASSUME NEW A, NEW B, NEW h, NEW base, NEW s \in Seq(B),
           NEW g \in [SUBSET (1 .. Len(s)) -> A], Loops(g, h, base, s, Len(s))
    PROVE  /\ g[{}] = base
           /\ \A S \in SUBSET (1 .. Len(s)) : S # {} =>
                /\ g[S] = h[<<g[S \ {Max(S)}], s[Max(S)]>>]
                /\ g[S \ {Max(S)}] \in A /\ s[Max(S)] \in B
<1>1. g[{}] = base
  BY DEF Loops
<1>2. ASSUME NEW S \in SUBSET (1 .. Len(s)), S # {}
      PROVE  /\ g[S] = h[<<g[S \ {Max(S)}], s[Max(S)]>>]
             /\ g[S \ {Max(S)}] \in A /\ s[Max(S)] \in B
  <2>1. g[S] = h[<<g[S \ {Max(S)}], s[Max(S)]>>]
    BY <1>2 DEF Loops
  <2>2. Len(s) \in Nat
    OBVIOUS
  <2>3. Max(S) \in 1 .. Len(s)
    BY <2>2, <1>2, MaxWithin
  <2>4. s[Max(S)] \in B
    BY <2>3
  <2>5. g[S \ {Max(S)}] \in A
    OBVIOUS
  <2> QED
    BY <2>1, <2>4, <2>5
<1> QED
  BY <1>1, <1>2

\* What one turn adds to the turns before it.
LEMMA NextTurn ==
    ASSUME NEW B, NEW s \in Seq(B), NEW k \in 0 .. Len(s) - 1
    PROVE  /\ DOMAIN s = 1 .. Len(s)
           /\ 1 .. k + 1 \in SUBSET (1 .. Len(s)) /\ 1 .. k + 1 # {}
           /\ Max(1 .. k + 1) = k + 1 /\ (1 .. k + 1) \ {k + 1} = 1 .. k
<1>1. k + 1 \in Nat /\ 1 .. k + 1 \in SUBSET (1 .. k + 1) /\ k + 1 \in 1 .. k + 1
  OBVIOUS
<1>2. Max(1 .. k + 1) = k + 1
  BY <1>1, MaxIsBound
<1>3. 1 .. k + 1 \in SUBSET (1 .. Len(s)) /\ 1 .. k + 1 # {} /\ (1 .. k + 1) \ {k + 1} = 1 .. k
  OBVIOUS
<1> QED
  BY <1>2, <1>3

\* The loops of the stages.
AllPushed(q, s)     == FoldLeft(PushFinished, q, s)
AllDeleted(q, s)    == FoldLeft(queue_delete, q, s)
AllFired(units, s)  == FoldLeft(Fire, units, s)
AllDispatched(x, s) == FoldLeft(DispatchOne, x, s)

\* What is in the units, and what the loop of dispatch works on.
PipelineSet == [Unit -> [Slot -> Nat \cup {NULL}]]
LoopSet ==
    [rest : Seq(Nat), long : Seq(Nat), fast : Seq(Nat),
     src : [DOMAIN instr -> [1 .. 2 -> Nat \cup {NULL}]], regs : [Reg -> Nat \cup {NULL}]]

\* What finishes in the units is pushed into a queue one by one.
LEMMA PushSteps ==
    ASSUME NEW q \in Seq(Nat), NEW s \in Seq(Nat \cup {NULL}),
           \A r \in Seq(Nat), t \in Nat \cup {NULL} : PushFinished(r, t) \in Seq(Nat)
    PROVE  \E v : /\ v[0] = q
                  /\ v[Len(s)] = AllPushed(q, s)
                  /\ \A k \in 0 .. Len(s) - 1 : v[k + 1] = PushFinished(v[k], s[k + 1])
<1> DEFINE A == Seq(Nat)
           B == Nat \cup {NULL}
<1>0. q \in A /\ s \in Seq(B) /\ \A r \in A, t \in B : PushFinished(r, t) \in A
  OBVIOUS
<1> HIDE DEF A, B
<1> DEFINE h == [x \in A \X B |-> PushFinished(x[1], x[2])]
           Iter(g) == [S \in SUBSET DOMAIN s |->
                          IF S = {} THEN q ELSE PushFinished(g[S \ {Max(S)}], s[Max(S)])]
           iter == CHOOSE g : g = Iter(g)
<1>1. AllPushed(q, s) = iter[DOMAIN s]
  BY DEF AllPushed, FoldLeft, MapThenFoldSet
<1>2. PICK g \in [SUBSET (1 .. Len(s)) -> A] : Loops(g, h, q, s, Len(s))
  <2>1. h \in [A \X B -> A]
    BY <1>0
  <2> HIDE DEF h
  <2> QED
    BY <1>0, <2>1, LoopExists
<1>3. g = Iter(g)
  <2>1. DOMAIN s = 1 .. Len(s)
    BY <1>0
  <2> HIDE DEF h
  <2>2. g[{}] = q /\ \A S \in SUBSET (1 .. Len(s)) : S # {} =>
                /\ g[S] = h[<<g[S \ {Max(S)}], s[Max(S)]>>]
                /\ g[S \ {Max(S)}] \in A /\ s[Max(S)] \in B
    BY <1>0, <1>2, LoopTurn
  <2>3. \A x \in A, t \in B : h[<<x, t>>] = PushFinished(x, t)
    BY DEF h
  <2> QED
    BY <2>1, <2>2, <2>3
<1> HIDE DEF Iter
<1>4. iter = Iter(iter)
  BY <1>3
<1> HIDE DEF iter
<1>8. Len(s) \in Nat /\ DOMAIN s = 1 .. Len(s)
  OBVIOUS
<1> DEFINE v == [k \in 0 .. Len(s) |-> iter[1 .. k]]
<1>5. v[0] = q
  <2>1. iter[{}] = q
    BY <1>4 DEF Iter
  <2>2. v[0] = iter[1 .. 0] /\ 1 .. 0 = {}
    BY <1>8
  <2> QED
    BY <2>1, <2>2
<1>6. v[Len(s)] = AllPushed(q, s)
  BY <1>1, <1>8
<1>7. ASSUME NEW k \in 0 .. Len(s) - 1 PROVE v[k + 1] = PushFinished(v[k], s[k + 1])
  <2>1. /\ 1 .. k + 1 \in SUBSET DOMAIN s /\ 1 .. k + 1 # {}
        /\ Max(1 .. k + 1) = k + 1 /\ (1 .. k + 1) \ {k + 1} = 1 .. k
    BY <1>0, NextTurn
  <2>2. iter[1 .. k + 1] =
          PushFinished(iter[(1 .. k + 1) \ {Max(1 .. k + 1)}], s[Max(1 .. k + 1)])
    BY <1>4, <2>1 DEF Iter
  <2>3. k \in 0 .. Len(s) /\ k + 1 \in 0 .. Len(s)
    OBVIOUS
  <2> QED
    BY <2>1, <2>2, <2>3
<1> QED
  BY <1>5, <1>6, <1>7

\* Operations are deleted from a queue one by one.
LEMMA DeleteSteps ==
    ASSUME NEW q \in Seq(Nat), NEW s \in Seq(Nat),
           \A x \in Seq(Nat), t \in Nat : queue_delete(x, t) \in Seq(Nat)
    PROVE  \E v : /\ v[0] = q
                  /\ v[Len(s)] = AllDeleted(q, s)
                  /\ \A k \in 0 .. Len(s) - 1 : v[k + 1] = queue_delete(v[k], s[k + 1])
<1> DEFINE A == Seq(Nat)
           B == Nat
<1>0. q \in A /\ s \in Seq(B) /\ \A x \in A, t \in B : queue_delete(x, t) \in A
  OBVIOUS
<1> HIDE DEF A, B
<1> DEFINE h == [x \in A \X B |-> queue_delete(x[1], x[2])]
           Iter(g) == [S \in SUBSET DOMAIN s |->
                          IF S = {} THEN q ELSE queue_delete(g[S \ {Max(S)}], s[Max(S)])]
           iter == CHOOSE g : g = Iter(g)
<1>1. AllDeleted(q, s) = iter[DOMAIN s]
  BY DEF AllDeleted, FoldLeft, MapThenFoldSet
<1>2. PICK g \in [SUBSET (1 .. Len(s)) -> A] : Loops(g, h, q, s, Len(s))
  <2>1. h \in [A \X B -> A]
    BY <1>0
  <2> HIDE DEF h
  <2> QED
    BY <1>0, <2>1, LoopExists
<1>3. g = Iter(g)
  <2>1. DOMAIN s = 1 .. Len(s)
    BY <1>0
  <2> HIDE DEF h
  <2>2. g[{}] = q /\ \A S \in SUBSET (1 .. Len(s)) : S # {} =>
                /\ g[S] = h[<<g[S \ {Max(S)}], s[Max(S)]>>]
                /\ g[S \ {Max(S)}] \in A /\ s[Max(S)] \in B
    BY <1>0, <1>2, LoopTurn
  <2>3. \A x \in A, t \in B : h[<<x, t>>] = queue_delete(x, t)
    BY DEF h
  <2> QED
    BY <2>1, <2>2, <2>3
<1> HIDE DEF Iter
<1>4. iter = Iter(iter)
  BY <1>3
<1> HIDE DEF iter
<1>8. Len(s) \in Nat /\ DOMAIN s = 1 .. Len(s)
  OBVIOUS
<1> DEFINE v == [k \in 0 .. Len(s) |-> iter[1 .. k]]
<1>5. v[0] = q
  <2>1. iter[{}] = q
    BY <1>4 DEF Iter
  <2>2. v[0] = iter[1 .. 0] /\ 1 .. 0 = {}
    BY <1>8
  <2> QED
    BY <2>1, <2>2
<1>6. v[Len(s)] = AllDeleted(q, s)
  BY <1>1, <1>8
<1>7. ASSUME NEW k \in 0 .. Len(s) - 1 PROVE v[k + 1] = queue_delete(v[k], s[k + 1])
  <2>1. /\ 1 .. k + 1 \in SUBSET DOMAIN s /\ 1 .. k + 1 # {}
        /\ Max(1 .. k + 1) = k + 1 /\ (1 .. k + 1) \ {k + 1} = 1 .. k
    BY <1>0, NextTurn
  <2>2. iter[1 .. k + 1] =
          queue_delete(iter[(1 .. k + 1) \ {Max(1 .. k + 1)}], s[Max(1 .. k + 1)])
    BY <1>4, <2>1 DEF Iter
  <2>3. k \in 0 .. Len(s) /\ k + 1 \in 0 .. Len(s)
    OBVIOUS
  <2> QED
    BY <2>1, <2>2, <2>3
<1> QED
  BY <1>5, <1>6, <1>7

\* Operations are fired one by one.
LEMMA FireSteps ==
    ASSUME NEW units \in PipelineSet, NEW s \in Seq(Nat),
           \A x \in PipelineSet, t \in Nat : Fire(x, t) \in PipelineSet
    PROVE  \E v : /\ v[0] = units
                  /\ v[Len(s)] = AllFired(units, s)
                  /\ \A k \in 0 .. Len(s) - 1 : v[k + 1] = Fire(v[k], s[k + 1])
<1> DEFINE A == PipelineSet
           B == Nat
<1>0. units \in A /\ s \in Seq(B) /\ \A x \in A, t \in B : Fire(x, t) \in A
  OBVIOUS
<1> HIDE DEF A, B
<1> DEFINE h == [x \in A \X B |-> Fire(x[1], x[2])]
           Iter(g) == [S \in SUBSET DOMAIN s |->
                          IF S = {} THEN units ELSE Fire(g[S \ {Max(S)}], s[Max(S)])]
           iter == CHOOSE g : g = Iter(g)
<1>1. AllFired(units, s) = iter[DOMAIN s]
  BY DEF AllFired, FoldLeft, MapThenFoldSet
<1>2. PICK g \in [SUBSET (1 .. Len(s)) -> A] : Loops(g, h, units, s, Len(s))
  <2>1. h \in [A \X B -> A]
    BY <1>0
  <2> HIDE DEF h
  <2> QED
    BY <1>0, <2>1, LoopExists
<1>3. g = Iter(g)
  <2>1. DOMAIN s = 1 .. Len(s)
    BY <1>0
  <2> HIDE DEF h
  <2>2. g[{}] = units /\ \A S \in SUBSET (1 .. Len(s)) : S # {} =>
                /\ g[S] = h[<<g[S \ {Max(S)}], s[Max(S)]>>]
                /\ g[S \ {Max(S)}] \in A /\ s[Max(S)] \in B
    BY <1>0, <1>2, LoopTurn
  <2>3. \A x \in A, t \in B : h[<<x, t>>] = Fire(x, t)
    BY DEF h
  <2> QED
    BY <2>1, <2>2, <2>3
<1> HIDE DEF Iter
<1>4. iter = Iter(iter)
  BY <1>3
<1> HIDE DEF iter
<1>8. Len(s) \in Nat /\ DOMAIN s = 1 .. Len(s)
  OBVIOUS
<1> DEFINE v == [k \in 0 .. Len(s) |-> iter[1 .. k]]
<1>5. v[0] = units
  <2>1. iter[{}] = units
    BY <1>4 DEF Iter
  <2>2. v[0] = iter[1 .. 0] /\ 1 .. 0 = {}
    BY <1>8
  <2> QED
    BY <2>1, <2>2
<1>6. v[Len(s)] = AllFired(units, s)
  BY <1>1, <1>8
<1>7. ASSUME NEW k \in 0 .. Len(s) - 1 PROVE v[k + 1] = Fire(v[k], s[k + 1])
  <2>1. /\ 1 .. k + 1 \in SUBSET DOMAIN s /\ 1 .. k + 1 # {}
        /\ Max(1 .. k + 1) = k + 1 /\ (1 .. k + 1) \ {k + 1} = 1 .. k
    BY <1>0, NextTurn
  <2>2. iter[1 .. k + 1] =
          Fire(iter[(1 .. k + 1) \ {Max(1 .. k + 1)}], s[Max(1 .. k + 1)])
    BY <1>4, <2>1 DEF Iter
  <2>3. k \in 0 .. Len(s) /\ k + 1 \in 0 .. Len(s)
    OBVIOUS
  <2> QED
    BY <2>1, <2>2, <2>3
<1> QED
  BY <1>5, <1>6, <1>7

\* Operations are dispatched one by one.
LEMMA DispatchSteps ==
    ASSUME NEW loop \in LoopSet, NEW s \in Seq(DOMAIN instr),
           \A x \in LoopSet, t \in DOMAIN instr : DispatchOne(x, t) \in LoopSet
    PROVE  \E v : /\ v[0] = loop
                  /\ v[Len(s)] = AllDispatched(loop, s)
                  /\ \A k \in 0 .. Len(s) - 1 : v[k + 1] = DispatchOne(v[k], s[k + 1])
<1> DEFINE A == LoopSet
           B == DOMAIN instr
<1>0. loop \in A /\ s \in Seq(B) /\ \A x \in A, t \in B : DispatchOne(x, t) \in A
  OBVIOUS
<1> HIDE DEF A, B
<1> DEFINE h == [x \in A \X B |-> DispatchOne(x[1], x[2])]
           Iter(g) == [S \in SUBSET DOMAIN s |->
                          IF S = {} THEN loop ELSE DispatchOne(g[S \ {Max(S)}], s[Max(S)])]
           iter == CHOOSE g : g = Iter(g)
<1>1. AllDispatched(loop, s) = iter[DOMAIN s]
  BY DEF AllDispatched, FoldLeft, MapThenFoldSet
<1>2. PICK g \in [SUBSET (1 .. Len(s)) -> A] : Loops(g, h, loop, s, Len(s))
  <2>1. h \in [A \X B -> A]
    BY <1>0
  <2> HIDE DEF h
  <2> QED
    BY <1>0, <2>1, LoopExists
<1>3. g = Iter(g)
  <2>1. DOMAIN s = 1 .. Len(s)
    BY <1>0
  <2> HIDE DEF h
  <2>2. g[{}] = loop /\ \A S \in SUBSET (1 .. Len(s)) : S # {} =>
                /\ g[S] = h[<<g[S \ {Max(S)}], s[Max(S)]>>]
                /\ g[S \ {Max(S)}] \in A /\ s[Max(S)] \in B
    BY <1>0, <1>2, LoopTurn
  <2>3. \A x \in A, t \in B : h[<<x, t>>] = DispatchOne(x, t)
    BY DEF h
  <2> QED
    BY <2>1, <2>2, <2>3
<1> HIDE DEF Iter
<1>4. iter = Iter(iter)
  BY <1>3
<1> HIDE DEF iter
<1>8. Len(s) \in Nat /\ DOMAIN s = 1 .. Len(s)
  OBVIOUS
<1> DEFINE v == [k \in 0 .. Len(s) |-> iter[1 .. k]]
<1>5. v[0] = loop
  <2>1. iter[{}] = loop
    BY <1>4 DEF Iter
  <2>2. v[0] = iter[1 .. 0] /\ 1 .. 0 = {}
    BY <1>8
  <2> QED
    BY <2>1, <2>2
<1>6. v[Len(s)] = AllDispatched(loop, s)
  BY <1>1, <1>8
<1>7. ASSUME NEW k \in 0 .. Len(s) - 1 PROVE v[k + 1] = DispatchOne(v[k], s[k + 1])
  <2>1. /\ 1 .. k + 1 \in SUBSET DOMAIN s /\ 1 .. k + 1 # {}
        /\ Max(1 .. k + 1) = k + 1 /\ (1 .. k + 1) \ {k + 1} = 1 .. k
    BY <1>0, NextTurn
  <2>2. iter[1 .. k + 1] =
          DispatchOne(iter[(1 .. k + 1) \ {Max(1 .. k + 1)}], s[Max(1 .. k + 1)])
    BY <1>4, <2>1 DEF Iter
  <2>3. k \in 0 .. Len(s) /\ k + 1 \in 0 .. Len(s)
    OBVIOUS
  <2> QED
    BY <2>1, <2>2, <2>3
<1> QED
  BY <1>5, <1>6, <1>7

-----------------------------------------------------------------------------
(* Queues: sequences of tags in order.                                     *)

InOrder(q) == \A x, y \in 1 .. Len(q) : x < y => q[x] < q[y]

\* A queue of tags in order.
IsQueue(q) == q \in Seq(Nat) /\ InOrder(q)

\* The smallest of a set of numbers is one of them.
LEMMA MinWithin ==
    ASSUME NEW S \in SUBSET Nat, S # {}
    PROVE  Min(S) \in S /\ \A x \in S : Min(S) <= x
<1> DEFINE R == OpToRel(<, Nat)
<1>1. PICK d \in S : \A e \in S : <<e, d>> \notin R
  BY WFMin, NatLessThanWellFounded
<1>2. \A e \in S : ~ (e < d)
  BY <1>1 DEF OpToRel
<1>3. \A e \in S : d <= e
  BY <1>2
<1> QED
  BY <1>3 DEF Min

\* The operations in a queue.
LEMMA RangeIs ==
    ASSUME NEW q \in Seq(Nat)
    PROVE  /\ Range(q) = {q[x] : x \in 1 .. Len(q)}
           /\ Range(q) \subseteq Nat
           /\ \A x \in 1 .. Len(q) : q[x] \in Range(q)
           /\ Range(q) = {} <=> Len(q) = 0
           /\ Len(q) = 0 <=> q = <<>>
<1>1. Range(q) = {q[x] : x \in 1 .. Len(q)}
  BY DEF Range
<1>2. Range(q) \subseteq Nat /\ \A x \in 1 .. Len(q) : q[x] \in Range(q)
  BY <1>1
<1>3. Range(q) = {} <=> Len(q) = 0
  <2>1. Len(q) \in Nat /\ (Len(q) # 0 => 1 \in 1 .. Len(q))
    OBVIOUS
  <2>2. CASE Len(q) = 0
    <3>1. 1 .. Len(q) = {}
      BY <2>2
    <3> QED
      BY <3>1, <2>2, <1>1
  <2>3. CASE Len(q) # 0
    BY <2>1, <2>3, <1>2
  <2> QED
    BY <2>2, <2>3
<1>4. Len(q) = 0 <=> q = <<>>
  OBVIOUS
<1> QED
  BY <1>1, <1>2, <1>3, <1>4

\* One after the other.
LEMMA Joined ==
    ASSUME NEW a \in Seq(Nat), NEW b \in Seq(Nat)
    PROVE  /\ a \o b \in Seq(Nat)
           /\ Len(a \o b) = Len(a) + Len(b)
           /\ \A x \in 1 .. Len(a) : (a \o b)[x] = a[x]
           /\ \A x \in 1 .. Len(b) : (a \o b)[Len(a) + x] = b[x]
OBVIOUS

\* Each is in it once.
LEMMA OnceEach ==
    ASSUME NEW q, IsQueue(q)
    PROVE  /\ \A x, y \in 1 .. Len(q) : q[x] = q[y] => x = y
           /\ IsFiniteSet(Range(q)) /\ Cardinality(Range(q)) = Len(q)
<1>1. ASSUME NEW x \in 1 .. Len(q), NEW y \in 1 .. Len(q), q[x] = q[y] PROVE x = y
  <2>1. q[x] \in Nat /\ q[y] \in Nat /\ (x < y => q[x] < q[y]) /\ (y < x => q[y] < q[x])
    BY DEF IsQueue, InOrder
  <2> QED
    BY <2>1, <1>1
<1>2. q \in Bijection(1 .. Len(q), Range(q))
  <2>1. q \in [1 .. Len(q) -> Range(q)] /\ \A t \in Range(q) : \E x \in 1 .. Len(q) : q[x] = t
    <3>1. q \in Seq(Nat)
      BY DEF IsQueue
    <3>2. Range(q) = {q[x] : x \in 1 .. Len(q)}
      BY <3>1, RangeIs
    <3> QED
      BY <3>1, <3>2
  <2> QED
    BY <1>1, <2>1, Fun_IsBij
<1>3. IsFiniteSet(1 .. Len(q)) /\ Cardinality(1 .. Len(q)) = Len(q)
  <2>1. Len(q) \in Nat
    BY DEF IsQueue
  <2>2. 1 \in Int /\ Len(q) \in Int
    BY <2>1
  <2>3. /\ IsFiniteSet(1 .. Len(q))
        /\ Cardinality(1 .. Len(q)) = IF 1 > Len(q) THEN 0 ELSE Len(q) - 1 + 1
    BY <2>2, FS_Interval
  <2> QED
    BY <2>1, <2>3
<1>4. IsFiniteSet(Range(q)) /\ Cardinality(Range(q)) = Cardinality(1 .. Len(q))
  BY <1>2, <1>3, FS_Bijection DEF ExistsBijection
<1> QED
  BY <1>1, <1>3, <1>4

\* A queue of none.
LEMMA NoneQueued == IsQueue(<<>>) /\ Range(<<>>) = {}
BY DEF IsQueue, InOrder, Range

\* push: what is added at the end comes after all others.
LEMMA PushLast ==
    ASSUME NEW q, IsQueue(q), NEW t \in Nat, \A u \in Range(q) : u < t
    PROVE  IsQueue(queue_push(q, t)) /\ Range(queue_push(q, t)) = Range(q) \cup {t}
<1> DEFINE r == Append(q, t)
<1>1. q \in Seq(Nat) /\ r \in Seq(Nat) /\ Len(r) = Len(q) + 1 /\ Len(q) \in Nat
  BY DEF IsQueue
<1>2. \A x \in 1 .. Len(r) : r[x] = IF x <= Len(q) THEN q[x] ELSE t
  BY <1>1
<1>3. \A x \in 1 .. Len(q) : q[x] \in Range(q) /\ q[x] < t
  BY <1>1, RangeIs
<1> HIDE DEF r
<1>4. InOrder(r)
  <2> SUFFICES ASSUME NEW x \in 1 .. Len(r), NEW y \in 1 .. Len(r), x < y PROVE r[x] < r[y]
    BY DEF InOrder
  <2>1. x \in 1 .. Len(q) /\ r[x] = q[x]
    BY <1>1, <1>2
  <2>2. CASE y \in 1 .. Len(q)
    BY <2>1, <2>2, <1>2 DEF IsQueue, InOrder
  <2>3. CASE y \notin 1 .. Len(q)
    <3>1. r[y] = t
      BY <2>3, <1>1, <1>2
    <3> QED
      BY <3>1, <2>1, <1>3
  <2> QED
    BY <2>2, <2>3
<1>5. Range(r) = Range(q) \cup {t}
  <2>1. Range(r) = {r[x] : x \in 1 .. Len(r)} /\ Range(q) = {q[x] : x \in 1 .. Len(q)}
    BY <1>1, RangeIs
  <2>2. Len(r) \in 1 .. Len(r) /\ r[Len(r)] = t
    BY <1>1, <1>2
  <2>3. \A x \in 1 .. Len(q) : x \in 1 .. Len(r) /\ r[x] = q[x]
    BY <1>1, <1>2
  <2>4. \A x \in 1 .. Len(r) : x \in 1 .. Len(q) \/ r[x] = t
    BY <1>1, <1>2
  <2> QED
    BY <2>1, <2>2, <2>3, <2>4
<1> QED
  BY <1>1, <1>4, <1>5 DEF r, IsQueue, queue_push

\* priority_push: what is added goes where it belongs.
LEMMA PushSorted ==
    ASSUME NEW q \in Seq(Nat), NEW t \in Nat
    PROVE  /\ PriorityPush(q, t) \in Seq(Nat)
           /\ Range(PriorityPush(q, t)) = Range(q) \cup {t}
           /\ InOrder(q) /\ t \notin Range(q) => InOrder(PriorityPush(q, t))
<1> DEFINE above == {x \in 1 .. Len(q) : q[x] > t}
           younger == IF above # {} THEN Min(above) ELSE 0
           at == IF younger = 0 THEN Len(q) + 1 ELSE younger
           r == PriorityPush(q, t)
<1>1. Len(q) \in Nat /\ above \subseteq Nat /\ \A x \in 1 .. Len(q) : q[x] \in Nat
  OBVIOUS
<1>2. above # {} => younger \in above /\ \A x \in above : younger <= x
  <2> HIDE DEF above
  <2> QED
    BY <1>1, MinWithin
<1>3. r = IF younger = 0 THEN Append(q, t) ELSE InsertAt(q, younger, t)
  BY DEF PriorityPush, SelectInSeq
<1>4. at \in 1 .. Len(q) + 1 /\ (younger = 0 <=> above = {})
  <2>1. CASE above = {}
    BY <2>1, <1>1
  <2>2. CASE above # {}
    <3>1. younger \in 1 .. Len(q)
      BY <2>2, <1>2
    <3> HIDE DEF younger
    <3> QED
      BY <3>1, <2>2
  <2> QED
    BY <2>1, <2>2
<1>5. \A x \in 1 .. Len(q) : x < at => q[x] <= t
  <2> SUFFICES ASSUME NEW x \in 1 .. Len(q), x < at, q[x] > t PROVE FALSE
    BY <1>1, SMTT(30)
  <2>1. x \in above
    OBVIOUS
  <2> HIDE DEF above
  <2>2. younger = at /\ younger <= x /\ at \in Int
    BY <2>1, <1>2, <1>4
  <2> HIDE DEF at
  <2> QED
    BY <2>2
<1>6. at <= Len(q) => q[at] > t
  <2> SUFFICES ASSUME at <= Len(q) PROVE q[at] > t
    OBVIOUS
  <2>1. younger # 0
    BY <1>1
  <2> QED
    BY <2>1, <1>2, <1>4
<1>7. /\ r \in Seq(Nat) /\ Len(r) = Len(q) + 1
      /\ \A x \in 1 .. Len(r) : r[x] = IF x < at THEN q[x] ELSE IF x = at THEN t ELSE q[x - 1]
  <2>1. CASE younger = 0
    <3>1. r = Append(q, t) /\ at = Len(q) + 1
      BY <2>1, <1>3
    <3> HIDE DEF r, at
    <3> QED
      BY <3>1, <1>1
  <2>2. CASE younger # 0
    <3>1. r = SubSeq(q, 1, at - 1) \o <<t>> \o SubSeq(q, at, Len(q)) /\ at \in 1 .. Len(q)
      BY <2>2, <1>2, <1>3, <1>4 DEF InsertAt
    <3> HIDE DEF r, at
    <3> DEFINE a == SubSeq(q, 1, at - 1)
               b == SubSeq(q, at, Len(q))
    <3>2. /\ a \in Seq(Nat) /\ Len(a) = at - 1 /\ \A x \in 1 .. at - 1 : a[x] = q[x]
      BY <3>1, <1>1
    <3>3. /\ b \in Seq(Nat) /\ Len(b) = Len(q) - at + 1
          /\ \A x \in 1 .. Len(q) - at + 1 : b[x] = q[at + x - 1]
      BY <3>1, <1>1
    <3> HIDE DEF a, b
    <3>4. a \o <<t>> \in Seq(Nat) /\ Len(a \o <<t>>) = at
          /\ \A x \in 1 .. at : (a \o <<t>>)[x] = IF x < at THEN q[x] ELSE t
      BY <3>1, <3>2, SMTT(30)
    <3> DEFINE c == a \o <<t>>
    <3>7. c \in Seq(Nat) /\ Len(c) = at /\ \A x \in 1 .. at : c[x] = IF x < at THEN q[x] ELSE t
      BY <3>4
    <3> HIDE DEF c
    <3>5. c \o b \in Seq(Nat) /\ Len(c \o b) = Len(q) + 1
      <4>1. Len(c \o b) = at + (Len(q) - at + 1)
        <5>1. Len(c \o b) = Len(c) + Len(b)
          BY <3>3, <3>7, Joined
        <5> QED
          BY <5>1, <3>3, <3>7
      <4>2. at + (Len(q) - at + 1) = Len(q) + 1
        BY <1>1, <3>1
      <4> QED
        BY <4>1, <4>2, <3>3, <3>7, Joined
    <3>6. ASSUME NEW x \in 1 .. Len(q) + 1
          PROVE  (c \o b)[x] = IF x < at THEN q[x] ELSE IF x = at THEN t ELSE q[x - 1]
      <4>1. CASE x <= at
        <5>1. (c \o b)[x] = c[x] /\ x \in 1 .. at
          BY <4>1, <3>1, <3>3, <3>7, Joined
        <5> QED
          BY <5>1, <3>7
      <4>2. CASE x > at
        <5>3. x - at \in 1 .. Len(q) - at + 1 /\ at + (x - at) = x
          BY <4>2, <3>1, <1>1
        <5>1. (c \o b)[x] = b[x - at] /\ x - at \in 1 .. Len(q) - at + 1
          BY <5>3, <3>3, <3>7, Joined, SMTT(30)
        <5>2. b[x - at] = q[at + (x - at) - 1] /\ at + (x - at) - 1 = x - 1
          BY <5>1, <3>3, <3>1
        <5>4. ~ (x < at) /\ x # at
          BY <4>2, <3>1, <1>1
        <5> QED
          BY <5>1, <5>2, <5>4
      <4>3. x <= at \/ x > at
        BY <3>1, <1>1
      <4> QED
        BY <4>1, <4>2, <4>3
    <3> QED
      BY <3>1, <3>5, <3>6 DEF c, a, b
  <2> QED
    BY <2>1, <2>2
<1> HIDE DEF r, at, younger, above
<1>8. Range(r) = Range(q) \cup {t}
  <2>1. Range(r) = {r[x] : x \in 1 .. Len(r)} /\ Range(q) = {q[x] : x \in 1 .. Len(q)}
    BY <1>7, RangeIs
  <2>2. at \in 1 .. Len(r) /\ r[at] = t
    BY <1>4, <1>7
  <2>3. ASSUME NEW x \in 1 .. Len(q) PROVE q[x] \in Range(r)
    <3>1. CASE x < at
      <4>1. x \in 1 .. Len(r) /\ r[x] = q[x]
        BY <3>1, <1>1, <1>7
      <4> QED
        BY <4>1, <2>1
    <3>2. CASE ~ (x < at)
      <4>1. x + 1 \in 1 .. Len(r) /\ ~ (x + 1 < at) /\ x + 1 # at /\ x + 1 - 1 = x
        BY <3>2, <1>1, <1>4, <1>7
      <4>2. r[x + 1] = q[x]
        BY <4>1, <1>7
      <4> QED
        BY <4>1, <4>2, <2>1
    <3> QED
      BY <3>1, <3>2
  <2>4. ASSUME NEW x \in 1 .. Len(r) PROVE r[x] \in Range(q) \cup {t}
    <3>1. CASE x < at
      <4>1. x \in 1 .. Len(q) /\ r[x] = q[x]
        BY <3>1, <1>1, <1>4, <1>7
      <4> QED
        BY <4>1, <2>1
    <3>2. CASE x = at
      BY <3>2, <2>2
    <3>3. CASE ~ (x < at) /\ x # at
      <4>1. x - 1 \in 1 .. Len(q) /\ r[x] = q[x - 1]
        BY <3>3, <1>1, <1>4, <1>7
      <4> QED
        BY <4>1, <2>1
    <3> QED
      BY <3>1, <3>2, <3>3
  <2> QED
    BY <2>1, <2>2, <2>3, <2>4
<1>9. ASSUME InOrder(q), t \notin Range(q) PROVE InOrder(r)
  <2>1. \A x \in 1 .. Len(q) : q[x] # t /\ q[x] \in Nat
    BY <1>1, <1>9, RangeIs
  <2>2. \A x \in 1 .. Len(q) : x < at => q[x] < t
    BY <2>1, <1>5
  <2>3. \A x \in 1 .. Len(q) : at <= x => t < q[x]
    <3> SUFFICES ASSUME NEW x \in 1 .. Len(q), at <= x PROVE t < q[x]
      OBVIOUS
    <3>1. at \in 1 .. Len(q) /\ q[at] > t /\ (at < x => q[at] < q[x]) /\ q[at] \in Nat /\ q[x] \in Nat
      BY <1>1, <1>4, <1>6, <1>9 DEF InOrder
    <3> QED
      BY <3>1
  <2> SUFFICES ASSUME NEW x \in 1 .. Len(r), NEW y \in 1 .. Len(r), x < y PROVE r[x] < r[y]
    BY DEF InOrder
  <2>4. CASE y < at
    <3>1. x < at /\ x \in 1 .. Len(q) /\ y \in 1 .. Len(q)
      BY <2>4, <1>1, <1>4, <1>7, SMTT(30)
    <3>2. r[x] = q[x] /\ r[y] = q[y]
      BY <3>1, <2>4, <1>7
    <3> QED
      BY <3>1, <3>2, <1>9 DEF InOrder
  <2>5. CASE y = at
    <3>1. x \in 1 .. Len(q) /\ r[x] = q[x] /\ r[y] = t /\ x < at
      BY <2>5, <1>1, <1>4, <1>7
    <3> QED
      BY <3>1, <2>2
  <2>6. CASE y > at
    <3>1. y - 1 \in 1 .. Len(q) /\ r[y] = q[y - 1] /\ at <= y - 1
      BY <2>6, <1>1, <1>4, <1>7
    <3>2. CASE x < at
      <4>1. x \in 1 .. Len(q) /\ r[x] = q[x] /\ x < y - 1
        BY <3>1, <3>2, <1>1, <1>4, <1>7
      <4> QED
        BY <4>1, <3>1, <1>9 DEF InOrder
    <3>3. CASE x = at
      BY <3>1, <3>3, <2>3, <1>7, SMTT(30)
    <3>4. CASE x > at
      <4>1. x - 1 \in 1 .. Len(q) /\ r[x] = q[x - 1] /\ x - 1 < y - 1
        BY <3>1, <3>4, <1>1, <1>4, <1>7
      <4> QED
        BY <4>1, <3>1, <1>9 DEF InOrder
    <3> QED
      BY <3>2, <3>3, <3>4, <1>4
  <2> QED
    BY <2>4, <2>5, <2>6, <1>4
<1> QED
  BY <1>7, <1>8, <1>9 DEF r

\* queue_delete: the others stay, in order.
LEMMA DeleteKeeps ==
    ASSUME NEW q \in Seq(Nat), NEW t \in Nat
    PROVE  /\ queue_delete(q, t) \in Seq(Nat)
           /\ InOrder(q) => /\ InOrder(queue_delete(q, t))
                            /\ Range(queue_delete(q, t)) = Range(q) \ {t}
<1> DEFINE found == {x \in 1 .. Len(q) : q[x] = t}
           at == Min(found)
           r == SubSeq(q, 1, at - 1) \o SubSeq(q, at + 1, Len(q))
<1>1. queue_delete(q, t) = IF found # {} THEN r ELSE q
  BY DEF queue_delete, RemoveFirst, RemoveAt, SelectInSeq
<1> HIDE DEF r, at
<1>2. CASE found = {}
  <2>1. queue_delete(q, t) = q
    BY <1>1, <1>2
  <2>2. t \notin Range(q)
    BY <1>2, RangeIs
  <2> QED
    BY <2>1, <2>2
<1>3. CASE found # {}
  <2>1. at \in 1 .. Len(q) /\ q[at] = t /\ Len(q) \in Nat
    <3>1. found \subseteq Nat
      OBVIOUS
    <3>2. at \in found
      <4> HIDE DEF found
      <4> QED
        BY <3>1, <1>3, MinWithin DEF at
    <3> QED
      BY <3>2
  <2> DEFINE a == SubSeq(q, 1, at - 1)
             b == SubSeq(q, at + 1, Len(q))
  <2>2. /\ a \in Seq(Nat) /\ Len(a) = at - 1 /\ \A x \in 1 .. at - 1 : a[x] = q[x]
    BY <2>1
  <2>3. /\ b \in Seq(Nat) /\ Len(b) = Len(q) - at
        /\ \A x \in 1 .. Len(q) - at : b[x] = q[at + x]
    BY <2>1
  <2> HIDE DEF a, b
  <2>8. r = a \o b
    BY DEF r, a, b
  <2>4. r \in Seq(Nat) /\ Len(r) = Len(q) - 1
    <3>1. Len(r) = (at - 1) + (Len(q) - at) /\ r \in Seq(Nat)
      <4>1. Len(a \o b) = Len(a) + Len(b) /\ a \o b \in Seq(Nat)
        BY <2>2, <2>3, Joined
      <4> QED
        BY <4>1, <2>2, <2>3, <2>8
    <3> QED
      BY <3>1, <2>1
  <2>5. ASSUME NEW x \in 1 .. Len(q) - 1 PROVE r[x] = IF x < at THEN q[x] ELSE q[x + 1]
    <3>1. CASE x < at
      <4>1. x \in 1 .. Len(a)
        BY <3>1, <2>1, <2>2
      <4> QED
        BY <4>1, <3>1, <2>2, <2>3, <2>8, Joined
    <3>2. CASE ~ (x < at)
      <4>1. r[x] = b[x - (at - 1)] /\ x - (at - 1) \in 1 .. Len(q) - at
        <5>1. x - (at - 1) \in 1 .. Len(q) - at /\ (at - 1) + (x - (at - 1)) = x
          BY <3>2, <2>1
        <5>2. (a \o b)[Len(a) + (x - (at - 1))] = b[x - (at - 1)]
          <6>1. x - (at - 1) \in 1 .. Len(b)
            BY <5>1, <2>3
          <6> QED
            BY <6>1, <2>2, <2>3, Joined
        <5>3. Len(a) + (x - (at - 1)) = x
          BY <5>1, <2>2
        <5> QED
          BY <5>1, <5>2, <5>3, <2>8
      <4>2. b[x - (at - 1)] = q[at + (x - (at - 1))] /\ at + (x - (at - 1)) = x + 1
        BY <4>1, <2>1, <2>3, SMTT(30)
      <4> QED
        BY <4>1, <4>2, <3>2
    <3> QED
      BY <3>1, <3>2
  <2>6. ASSUME InOrder(q) PROVE InOrder(r)
    <3> SUFFICES ASSUME NEW x \in 1 .. Len(r), NEW y \in 1 .. Len(r), x < y PROVE r[x] < r[y]
      BY DEF InOrder
    <3> DEFINE X == IF x < at THEN x ELSE x + 1
               Y == IF y < at THEN y ELSE y + 1
    <3>1. x \in 1 .. Len(q) - 1 /\ y \in 1 .. Len(q) - 1 /\ Len(q) \in Nat /\ at \in Int
      BY <2>1, <2>4
    <3>2. X \in 1 .. Len(q) /\ Y \in 1 .. Len(q) /\ X < Y
      BY <3>1
    <3>3. r[x] = q[X] /\ r[y] = q[Y]
      BY <3>1, <2>5
    <3> HIDE DEF X, Y
    <3> QED
      BY <3>2, <3>3, <2>6 DEF InOrder
  <2>7. ASSUME InOrder(q) PROVE Range(r) = Range(q) \ {t}
    <3>1. Range(r) = {r[x] : x \in 1 .. Len(r)} /\ Range(q) = {q[x] : x \in 1 .. Len(q)}
      BY <2>4, RangeIs
    <3>2. \A x \in 1 .. Len(q) : q[x] = t => x = at
      BY <2>1, <2>7, OnceEach DEF IsQueue
    <3>3. ASSUME NEW x \in 1 .. Len(r) PROVE r[x] \in Range(q) /\ r[x] # t
      <4> DEFINE X == IF x < at THEN x ELSE x + 1
      <4>1. X \in 1 .. Len(q) /\ X # at /\ r[x] = q[X]
        BY <2>1, <2>4, <2>5, SMTT(30)
      <4> QED
        BY <4>1, <3>1, <3>2
    <3>4. ASSUME NEW x \in 1 .. Len(q), q[x] # t PROVE q[x] \in Range(r)
      <4> DEFINE X == IF x < at THEN x ELSE x - 1
      <4>1. X \in 1 .. Len(r) /\ r[X] = q[x]
        <5>1. CASE x < at
          BY <5>1, <2>1, <2>4, <2>5, SMTT(30)
        <5>2. CASE ~ (x < at)
          <6>1. x # at /\ x \in Int /\ at \in Int
            BY <3>4, <2>1
          <6>2. x - 1 \in 1 .. Len(q) - 1 /\ ~ (x - 1 < at) /\ x - 1 + 1 = x
            BY <6>1, <5>2, <2>1
          <6> QED
            BY <6>2, <5>2, <2>4, <2>5
        <5> QED
          BY <5>1, <5>2
      <4> QED
        BY <4>1, <3>1
    <3> QED
      BY <3>1, <3>3, <3>4
  <2> QED
    BY <1>1, <1>3, <2>4, <2>6, <2>7
<1> QED
  BY <1>2, <1>3

\* The first of a queue and the rest.
LEMMA Halves ==
    ASSUME NEW q, IsQueue(q), NEW n \in 0 .. Len(q)
    PROVE  /\ IsQueue(SubSeq(q, 1, n)) /\ Len(SubSeq(q, 1, n)) = n
           /\ Range(SubSeq(q, 1, n)) = {q[x] : x \in 1 .. n}
           /\ IsQueue(SubSeq(q, n + 1, Len(q)))
           /\ Range(SubSeq(q, n + 1, Len(q))) = {q[x] : x \in n + 1 .. Len(q)}
<1> DEFINE a == SubSeq(q, 1, n)
           b == SubSeq(q, n + 1, Len(q))
<1>1. q \in Seq(Nat) /\ Len(q) \in Nat /\ n \in Nat /\ n <= Len(q)
  BY DEF IsQueue
<1>2. a \in Seq(Nat) /\ Len(a) = n /\ \A x \in 1 .. n : a[x] = q[x]
  BY <1>1
<1>3. b \in Seq(Nat) /\ Len(b) = Len(q) - n /\ \A x \in 1 .. Len(q) - n : b[x] = q[n + x]
  BY <1>1
<1> HIDE DEF a, b
<1>4. InOrder(a)
  <2> SUFFICES ASSUME NEW x \in 1 .. Len(a), NEW y \in 1 .. Len(a), x < y PROVE a[x] < a[y]
    BY DEF InOrder
  <2>1. x \in 1 .. Len(q) /\ y \in 1 .. Len(q) /\ a[x] = q[x] /\ a[y] = q[y]
    BY <1>1, <1>2
  <2> QED
    BY <2>1 DEF InOrder, IsQueue
<1>5. InOrder(b)
  <2> SUFFICES ASSUME NEW x \in 1 .. Len(b), NEW y \in 1 .. Len(b), x < y PROVE b[x] < b[y]
    BY DEF InOrder
  <2>1. /\ n + x \in 1 .. Len(q) /\ n + y \in 1 .. Len(q) /\ n + x < n + y
        /\ b[x] = q[n + x] /\ b[y] = q[n + y]
    BY <1>1, <1>3
  <2> QED
    BY <2>1 DEF InOrder, IsQueue
<1>6. Range(a) = {q[x] : x \in 1 .. n}
  BY <1>2, RangeIs, SMTT(30)
<1>7. Range(b) = {q[x] : x \in n + 1 .. Len(q)}
  <2>1. Range(b) = {b[x] : x \in 1 .. Len(b)}
    BY <1>3, RangeIs
  <2>2. ASSUME NEW x \in 1 .. Len(b) PROVE b[x] \in {q[y] : y \in n + 1 .. Len(q)}
    <3>1. n + x \in n + 1 .. Len(q) /\ b[x] = q[n + x]
      BY <1>1, <1>3
    <3> QED
      BY <3>1
  <2>3. ASSUME NEW x \in n + 1 .. Len(q) PROVE q[x] \in Range(b)
    <3>1. x - n \in 1 .. Len(b) /\ n + (x - n) = x
      BY <1>1, <1>3
    <3>2. b[x - n] = q[x]
      BY <3>1, <1>3
    <3> QED
      BY <3>1, <3>2, <2>1
  <2> QED
    BY <2>1, <2>2, <2>3
<1> QED
  BY <1>2, <1>3, <1>4, <1>5, <1>6, <1>7 DEF IsQueue, a, b

-----------------------------------------------------------------------------
(* The first n of a set of tags, as ProcessorP4 takes them.                *)

\* There are none in an empty queue.
LEMMA FirstOfNone == ASSUME NEW n PROVE P4!First(n, {}) = {}
BY DEF P4!First

\* ProcessorP4 counts and compares in the same way.
LEMMA SameCardinality == \A S : P4!Cardinality(S) = Cardinality(S)
BY DEF P4!Cardinality, Cardinality

\* They are those with fewer than n before them.
LEMMA InFirst ==
    ASSUME NEW n, NEW S, NEW t
    PROVE  t \in P4!First(n, S) <=> t \in S /\ Cardinality({u \in S : u < t}) < n
<1>1. t \in P4!First(n, S) <=> t \in S /\ P4!Cardinality({u \in S : u < t}) < n
  BY Zenon DEF P4!First
<1> QED
  BY <1>1, SameCardinality

\* They are its first n places.
LEMMA FirstIs ==
    ASSUME NEW q, IsQueue(q), NEW n \in Nat, NEW m \in 0 .. Len(q),
           m = IF n <= Len(q) THEN n ELSE Len(q)
    PROVE  P4!First(n, Range(q)) = Range(SubSeq(q, 1, m))
<1>1. q \in Seq(Nat) /\ Len(q) \in Nat /\ Range(q) = {q[x] : x \in 1 .. Len(q)}
  BY RangeIs DEF IsQueue
<1>2. ASSUME NEW x \in 1 .. Len(q)
      PROVE  Cardinality({u \in Range(q) : u < q[x]}) = x - 1
  <2>1. x - 1 \in 0 .. Len(q)
    BY <1>1
  <2>2. IsQueue(SubSeq(q, 1, x - 1)) /\ Len(SubSeq(q, 1, x - 1)) = x - 1
        /\ Range(SubSeq(q, 1, x - 1)) = {q[y] : y \in 1 .. x - 1}
    BY <2>1, Halves
  <2>3. ASSUME NEW y \in 1 .. Len(q) PROVE q[y] < q[x] <=> y \in 1 .. x - 1
    <3>1. q[x] \in Nat /\ q[y] \in Nat /\ (x < y => q[x] < q[y]) /\ (y < x => q[y] < q[x])
      BY <1>1 DEF IsQueue, InOrder
    <3>2. x \in Int /\ y \in Int
      BY <1>1
    <3>3. CASE y < x
      BY <3>1, <3>2, <3>3
    <3>4. CASE y = x
      BY <3>1, <3>2, <3>4
    <3>5. CASE x < y
      BY <3>1, <3>2, <3>5
    <3> QED
      BY <3>2, <3>3, <3>4, <3>5
  <2>4. \A y \in 1 .. x - 1 : y \in 1 .. Len(q)
    BY <1>1
  <2>5. {u \in Range(q) : u < q[x]} = {q[y] : y \in 1 .. x - 1}
    BY <1>1, <2>3, <2>4
  <2> QED
    BY <2>2, <2>5, OnceEach
<1>3. ASSUME NEW x \in 1 .. Len(q) PROVE q[x] \in P4!First(n, Range(q)) <=> x \in 1 .. m
  <2>1. q[x] \in P4!First(n, Range(q)) <=> x - 1 < n
    <3>1. q[x] \in Range(q)
      BY <1>1
    <3>2. q[x] \in P4!First(n, Range(q)) <=> Cardinality({u \in Range(q) : u < q[x]}) < n
      BY <3>1, InFirst
    <3> QED
      BY <3>2, <1>2
  <2>2. x - 1 < n <=> x \in 1 .. m
    BY <1>1
  <2> QED
    BY <2>1, <2>2
<1>4. P4!First(n, Range(q)) \subseteq Range(q)
  BY DEF P4!First
<1>5. Range(SubSeq(q, 1, m)) = {q[x] : x \in 1 .. m}
  BY Halves
<1>6. \A x \in 1 .. m : x \in 1 .. Len(q)
  BY <1>1
<1>7. ASSUME NEW u \in Range(q)
      PROVE  u \in P4!First(n, Range(q)) <=> u \in Range(SubSeq(q, 1, m))
  <2>1. PICK x \in 1 .. Len(q) : u = q[x]
    BY <1>1
  <2>2. u \in {q[y] : y \in 1 .. m} <=> x \in 1 .. m
    BY <2>1, <1>6, OnceEach
  <2> QED
    BY <2>1, <2>2, <1>3, <1>5
<1>8. Range(SubSeq(q, 1, m)) \subseteq Range(q)
  BY <1>1, <1>5, <1>6
<1> QED
  BY <1>4, <1>7, <1>8

\* One more comes to the end of the queue: it is among the first n if there were
\* fewer, and changes nothing if there were n.
LEMMA FirstGrows ==
    ASSUME NEW S \in SUBSET Nat, IsFiniteSet(S), NEW n \in Nat,
           NEW t \in Nat, \A u \in S : u < t
    PROVE  /\ P4!First(n, S) \subseteq S
           /\ Cardinality(S) < n => P4!First(n, S \cup {t}) = P4!First(n, S) \cup {t}
           /\ Cardinality(S) >= n => P4!First(n, S \cup {t}) = P4!First(n, S)
<1>1. Cardinality(S) \in Nat
  BY FS_CardinalityType
<1>2. ASSUME NEW u \in S PROVE {w \in S \cup {t} : w < u} = {w \in S : w < u} /\ u # t
  <2>1. u < t /\ u \in Nat
    OBVIOUS
  <2> QED
    BY <2>1
<1>3. {w \in S \cup {t} : w < t} = S
  <2>1. ~ (t < t)
    OBVIOUS
  <2> QED
    BY <2>1
<1>4. P4!First(n, S \cup {t}) = P4!First(n, S) \cup (IF Cardinality(S) < n THEN {t} ELSE {})
  <2>1. ASSUME NEW u \in S PROVE u \in P4!First(n, S \cup {t}) <=> u \in P4!First(n, S)
    BY <1>2 DEF P4!First
  <2>2. t \in P4!First(n, S \cup {t}) <=> Cardinality(S) < n
    <3>1. t \in P4!First(n, S \cup {t}) <=> Cardinality({w \in S \cup {t} : w < t}) < n
      BY InFirst
    <3> QED
      BY <3>1, <1>3
  <2>3. P4!First(n, S) \subseteq S /\ P4!First(n, S \cup {t}) \subseteq S \cup {t}
    BY DEF P4!First
  <2> QED
    BY <2>1, <2>2, <2>3
<1>5. P4!First(n, S) \subseteq S
  BY DEF P4!First
<1> QED
  BY <1>1, <1>4, <1>5

-----------------------------------------------------------------------------
(* The units of one kind, in stage 0 of which operations are put.          *)

\* b says what is in the units U: different operations, the first of R, and all of
\* R as long as a unit is free.
Filled(b, U, R) ==
    /\ \A j, k \in U : b[j] = b[k] /\ b[j] # NULL => j = k
    /\ {b[j] : j \in U} \ {NULL} = P4!First(Cardinality(U), R)
    /\ (\E j \in U : b[j] = NULL) => {b[j] : j \in U} \ {NULL} = R

\* Another one, after all of R, gets a free unit, whichever, if there is one.
LEMMA OneFired ==
    ASSUME NEW U, IsFiniteSet(U), NEW b, NEW R \in SUBSET Nat, IsFiniteSet(R),
           Filled(b, U, R), NEW t \in Nat, \A u \in R : u < t,
           NEW c, NEW m,
           \/ /\ m \in U /\ b[m] = NULL
              /\ \A j \in U : c[j] = IF j = m THEN t ELSE b[j]
           \/ /\ \A j \in U : b[j] # NULL /\ c[j] = b[j]
    PROVE  Filled(c, U, R \cup {t})
<1> DEFINE held == {b[j] : j \in U} \ {NULL}
           n == Cardinality(U)
<1>1. n \in Nat /\ Cardinality(R) \in Nat
  BY FS_CardinalityType
<1>2. t # NULL /\ t \notin R
  BY P3Assumption
<1>3. CASE m \in U /\ b[m] = NULL /\ \A j \in U : c[j] = IF j = m THEN t ELSE b[j]
  <2>1. held = R
    BY <1>3 DEF Filled
  <2>2. \A j \in U : b[j] # t
    BY <1>2, <2>1
  <2>3. {c[j] : j \in U} \ {NULL} = R \cup {t}
    <3>1. ASSUME NEW j \in U, c[j] # NULL PROVE c[j] \in R \cup {t}
      BY <1>3, <2>1, <3>1
    <3>2. t \in {c[j] : j \in U} \ {NULL}
      BY <1>2, <1>3
    <3>3. ASSUME NEW u \in R PROVE u \in {c[j] : j \in U} \ {NULL}
      <4>1. PICK j \in U : b[j] = u /\ u # NULL
        BY <2>1
      <4>2. j # m /\ c[j] = u
        BY <4>1, <1>3
      <4> QED
        BY <4>1, <4>2
    <3> QED
      BY <3>1, <3>2, <3>3
  <2>4. Cardinality(R) < n
    <3> DEFINE W == U \ {m}
               V == {j \in W : b[j] # NULL}
    <3>1. IsFiniteSet(W) /\ Cardinality(W) = n - 1
      BY <1>3, FS_RemoveElement
    <3>2. V \subseteq W
      OBVIOUS
    <3>3. IsFiniteSet(V) /\ Cardinality(V) <= Cardinality(W)
      BY <3>1, <3>2, FS_Subset
    <3>4. [j \in V |-> b[j]] \in Surjection(V, R)
      <4>1. \A j \in V : b[j] \in R
        BY <2>1
      <4>2. \A u \in R : \E j \in V : b[j] = u
        BY <2>1, <1>3
      <4> QED
        BY <4>1, <4>2 DEF Surjection
    <3>5. Cardinality(R) <= Cardinality(V)
      BY <3>3, <3>4, FS_Surjection
    <3>6. Cardinality(V) \in Nat /\ Cardinality(W) \in Nat
      BY <3>1, <3>3, FS_CardinalityType
    <3> HIDE DEF V, W
    <3> QED
      BY <1>1, <3>1, <3>3, <3>5, <3>6
  <2>5. P4!First(n, R) = R
    BY <2>1 DEF Filled
  <2>6. P4!First(n, R \cup {t}) = R \cup {t}
    BY <1>1, <2>4, <2>5, FirstGrows
  <2>7. \A j, k \in U : c[j] = c[k] /\ c[j] # NULL => j = k
    BY <1>3, <2>2 DEF Filled
  <2> QED
    BY <2>3, <2>6, <2>7 DEF Filled
<1>4. CASE \A j \in U : b[j] # NULL /\ c[j] = b[j]
  <2>1. {c[j] : j \in U} = {b[j] : j \in U} /\ {b[j] : j \in U} \ {NULL} = {b[j] : j \in U}
    BY <1>4
  <2>2. {b[j] : j \in U} = P4!First(n, R) /\ P4!First(n, R) \subseteq R
    BY <2>1 DEF Filled, P4!First
  <2>3. n <= Cardinality(R)
    <3>1. [j \in U |-> b[j]] \in Injection(U, R)
      BY <1>4, <2>2 DEF Filled, Injection, IsInjective
    <3> QED
      BY <3>1, FS_Injection
  <2>4. P4!First(n, R \cup {t}) = P4!First(n, R)
    BY <1>1, <2>3, FirstGrows
  <2>5. \A j, k \in U : c[j] = c[k] /\ c[j] # NULL => j = k
    BY <1>4 DEF Filled
  <2> QED
    BY <1>4, <2>1, <2>2, <2>4, <2>5 DEF Filled
<1> QED
  BY <1>3, <1>4

\* Nothing is fired into units that are all free for want of anything ready.
LEMMA NoneFired ==
    ASSUME NEW U, NEW b, \A j \in U : b[j] = NULL
    PROVE  Filled(b, U, {})
BY FirstOfNone DEF Filled

-----------------------------------------------------------------------------
(* The pipeline.                                                           *)

\* The operations in it are ALU operations, and every wait is for a tag.
OperationsKnown ==
    /\ counter \in Nat \ {0}
    /\ i \in Proc
    /\ DOMAIN instr \subseteq 1 .. counter - 1
    /\ instr \in [DOMAIN instr -> {o \in Ops : o.op \in {"ALU", "ALU_LONG"}}]
    /\ src_arr \in [DOMAIN instr -> [1 .. 2 -> Nat \cup {NULL}]]
    /\ regs \in [Reg -> Nat \cup {NULL}]

\* The queues are in order and have the operations, those of one kind in the order
\* in which they are dispatched.
QueuesOrdered ==
    /\ IsQueue(dispatch_queue) /\ IsQueue(state_update_queue)
    /\ IsQueue(long_schedule_queue) /\ IsQueue(fast_schedule_queue)
    /\ DOMAIN instr = Range(dispatch_queue) \cup InSchedule
    /\ Range(dispatch_queue) \cap InSchedule = {}
    /\ \A t \in Range(long_schedule_queue) : IsLong(t)
    /\ \A t \in Range(fast_schedule_queue) : ~IsLong(t)
    /\ Len(long_schedule_queue) <= M * K /\ Len(fast_schedule_queue) <= M * J
    /\ \A t \in Range(dispatch_queue) :
         /\ \A n \in 1 .. 2 : src_arr[t][n] = NULL
         /\ \A u \in InSchedule : (IsLong(u) <=> IsLong(t)) => u < t

\* The dispatch queue is within its size, too.
DispatchBounded == Len(dispatch_queue) <= D * (M * J + M * K)

\* A fired operation is in one place at most, and none is in stage 0 when more are fired.
FiredOnce ==
    /\ fired \subseteq InSchedule
    /\ FU_pipeline \in [Unit -> [Slot -> fired \cup {NULL}]]
    /\ \A j \in 1 .. J : FU_pipeline[j][1] = NULL /\ FU_pipeline[j][2] = NULL
    /\ \A j, k \in Unit, r, s \in Slot :
         FU_pipeline[j][r] = FU_pipeline[k][s] /\ FU_pipeline[j][r] # NULL => j = k /\ r = s
    /\ Range(state_update_queue) \subseteq fired
    /\ IsQueue(completed) /\ Range(completed) \subseteq fired
    /\ InUnits \cap (Range(state_update_queue) \cup Range(completed)) = {}
    /\ Range(state_update_queue) \cap Range(completed) = {}
    /\ stage \in {"clock", "update", "end"} => completed = <<>>
    /\ stage = "schedule" => \A j \in Unit : FU_pipeline[j][0] = NULL

\* It is in one place at least: none is lost on its way.
FiredSomewhere == fired \subseteq InUnits \cup Range(state_update_queue) \cup Range(completed)

P3Inv == OperationsKnown /\ QueuesOrdered /\ DispatchBounded /\ FiredOnce /\ FiredSomewhere

\* What an unchanged part of the pipeline is seen as does not change.
LEMMA SeenUnchanged ==
    /\ instr' = instr => SeenInstr' = SeenInstr
    /\ src_arr' = src_arr => WaitsFor' = WaitsFor
    /\ UNCHANGED <<long_schedule_queue, fast_schedule_queue>> => InSchedule' = InSchedule
    /\ FU_pipeline' = FU_pipeline => InFast' = InFast /\ InLong' = InLong /\ InUnits' = InUnits
    /\ buses' = buses => OnBuses' = OnBuses
<1>1. instr' = instr => SeenInstr' = SeenInstr
  BY DEF SeenInstr
<1>2. src_arr' = src_arr => WaitsFor' = WaitsFor
  BY DEF WaitsFor
<1>3. UNCHANGED <<long_schedule_queue, fast_schedule_queue>> => InSchedule' = InSchedule
  BY DEF InSchedule
<1>4. FU_pipeline' = FU_pipeline => InFast' = InFast /\ InLong' = InLong /\ InUnits' = InUnits
  BY DEF InFast, InLong, InUnits
<1>5. buses' = buses => OnBuses' = OnBuses
  BY DEF OnBuses
<1> QED
  BY <1>1, <1>2, <1>3, <1>4, <1>5

\* The constants' sizes.
LEMMA P3Sizes ==
    /\ processorCount \in Nat \ {0} /\ F \in Nat /\ J \in Nat \ {0} /\ K \in Nat \ {0} /\ C \in Nat \ {0}
    /\ M * J \in Nat /\ M * K \in Nat /\ D * (M * J + M * K) \in Nat
    /\ 1 .. J \subseteq Unit /\ J + 1 .. J + K \subseteq Unit
    /\ \A j \in Unit : j \in 1 .. J \/ j \in J + 1 .. J + K
    /\ (1 .. J) \cap (J + 1 .. J + K) = {}
<1>1. M \in Nat /\ J \in Nat \ {0} /\ K \in Nat \ {0} /\ D \in Nat /\ F \in Nat /\ C \in Nat \ {0}
  BY P3Assumption
<1>2. M * J \in Nat /\ M * K \in Nat
  BY <1>1
<1> DEFINE sum == M * J + M * K
<1>3. sum \in Nat
  BY <1>2
<1> HIDE DEF sum
<1>4. D * sum \in Nat
  BY <1>1, <1>3
<1>5. /\ 1 .. J \subseteq Unit /\ J + 1 .. J + K \subseteq Unit
      /\ \A j \in Unit : j \in 1 .. J \/ j \in J + 1 .. J + K
      /\ (1 .. J) \cap (J + 1 .. J + K) = {}
  BY <1>1 DEF Unit
<1> QED
  BY <1>1, <1>2, <1>4, <1>5, P3Assumption DEF sum

\* What ProcessorP4 sees of an operation.
LEMMA SeenIs ==
    ASSUME OperationsKnown, NEW t \in DOMAIN instr
    PROVE  /\ t \in Nat /\ t # NULL
           /\ SeenInstr[t] = Seen(instr[t])
           /\ P4!IsLong(t) <=> IsLong(t)
           /\ ~P4!IsMem(t) /\ ~P4!IsBranch(t)
           /\ SeenInstr[t].dest_reg = instr[t].dest_reg
           /\ SeenInstr[t].src_reg = {Source(t, 1), Source(t, 2)}
           /\ instr[t].dest_reg \in Reg \cup {NULL}
           /\ Source(t, 1) \in Reg /\ Source(t, 2) \in Reg
<1>1. instr[t] \in Ops /\ instr[t].op \in {"ALU", "ALU_LONG"} /\ t \in Nat
  BY DEF OperationsKnown
<1>2. instr[t] \in P3Operation
  BY <1>1, P3Assumption
<1>3. SeenInstr[t] = Seen(instr[t])
  BY DEF SeenInstr
<1>4. Range(instr[t].src_reg) = {instr[t].src_reg[1], instr[t].src_reg[2]}
  BY <1>2 DEF P3Operation, Range
<1>5. SeenInstr[t].src_reg = {Source(t, 1), Source(t, 2)}
  BY <1>3, <1>4 DEF Seen, Source
<1>6. Source(t, 1) \in Reg /\ Source(t, 2) \in Reg
  <2>1. instr[t].src_reg[1] \in Reg \cup {NULL} /\ instr[t].src_reg[2] \in Reg \cup {NULL}
    BY <1>2 DEF P3Operation
  <2> QED
    BY <2>1, <1>4, P3Assumption DEF Source
<1>7. instr[t].dest_reg \in Reg \cup {NULL}
  BY <1>2 DEF P3Operation
<1>8. /\ P4!IsLong(t) <=> IsLong(t)
      /\ ~P4!IsMem(t) /\ ~P4!IsBranch(t)
      /\ SeenInstr[t].dest_reg = instr[t].dest_reg
  BY <1>1, <1>3 DEF Seen, P4!IsLong, P4!IsMem, P4!IsBranch, IsLong
<1> QED
  BY <1>1, <1>3, <1>5, <1>6, <1>7, <1>8, P3Assumption

\* Every operation in a queue is known.
LEMMA QueuedKnown ==
    ASSUME P3Inv
    PROVE  /\ DOMAIN instr \subseteq Nat
           /\ Range(dispatch_queue) \subseteq DOMAIN instr
           /\ Range(long_schedule_queue) \subseteq InSchedule
           /\ Range(fast_schedule_queue) \subseteq InSchedule
           /\ InSchedule \subseteq DOMAIN instr /\ fired \subseteq DOMAIN instr
           /\ Range(state_update_queue) \subseteq DOMAIN instr
           /\ Range(completed) \subseteq DOMAIN instr
BY DEF P3Inv, OperationsKnown, QueuesOrdered, FiredOnce, InSchedule

\* All units, and those of one kind.
LEMMA UnitsAre ==
    ASSUME P3Inv
    PROVE  InUnits = InFast \cup UNION {InLong[s] : s \in Slot} /\ InUnits \subseteq fired
<1>1. Slot = {0, 1, 2}
  BY DEF Slot
<1>2. ASSUME NEW j \in Unit, NEW s \in Slot, FU_pipeline[j][s] # NULL
      PROVE  FU_pipeline[j][s] \in InFast \cup UNION {InLong[r] : r \in Slot}
  <2>1. CASE j \in 1 .. J
    <3>1. s = 0
      BY <1>1, <1>2, <2>1 DEF P3Inv, FiredOnce
    <3> QED
      BY <3>1, <2>1, <1>2 DEF InFast
  <2>2. CASE j \in J + 1 .. J + K
    <3>1. FU_pipeline[j][s] \in InLong[s]
      BY <1>2, <2>2 DEF InLong
    <3> QED
      BY <3>1
  <2> QED
    BY <2>1, <2>2, P3Sizes
<1>3. InFast \subseteq InUnits
  BY <1>1, P3Sizes DEF InFast, InUnits
<1>4. \A s \in Slot : InLong[s] \subseteq InUnits
  BY P3Sizes DEF InLong, InUnits
<1>5. InUnits \subseteq fired
  BY DEF InUnits, P3Inv, FiredOnce
<1> QED
  BY <1>2, <1>3, <1>4, <1>5 DEF InUnits

-----------------------------------------------------------------------------
(* The start, and the steps that move little.                              *)

\* The start satisfies the invariant.
LEMMA P3InvInit == P3Init => P3Inv
<1> SUFFICES ASSUME P3Init PROVE P3Inv
  OBVIOUS
<1> USE DEF P3Init
<1>1. InSchedule = {} /\ Range(dispatch_queue) = {} /\ Range(state_update_queue) = {}
      /\ Range(completed) = {} /\ Range(long_schedule_queue) = {} /\ Range(fast_schedule_queue) = {}
  BY NoneQueued DEF InSchedule
<1>2. InUnits = {}
  BY DEF InUnits
<1>3. OperationsKnown
  <2>1. counter \in Nat \ {0} /\ i \in Proc /\ regs \in [Reg -> Nat \cup {NULL}]
    BY P3Sizes DEF Proc
  <2> QED
    BY <2>1 DEF OperationsKnown
<1>4. QueuesOrdered
  <2>1. Len(long_schedule_queue) <= M * K /\ Len(fast_schedule_queue) <= M * J
    BY P3Sizes
  <2> QED
    BY <1>1, <2>1, NoneQueued DEF QueuesOrdered
<1>5. FiredOnce
  <2>1. \A j \in 1 .. J : FU_pipeline[j][1] = NULL /\ FU_pipeline[j][2] = NULL
    BY P3Sizes DEF Slot
  <2>2. FU_pipeline \in [Unit -> [Slot -> fired \cup {NULL}]]
    OBVIOUS
  <2>3. \A j \in Unit, s \in Slot : FU_pipeline[j][s] = NULL
    OBVIOUS
  <2> QED
    BY <1>1, <1>2, <2>1, <2>2, <2>3, NoneQueued DEF FiredOnce, Slot
<1>6. DispatchBounded
  <2>1. Len(dispatch_queue) = 0
    OBVIOUS
  <2> QED
    BY <2>1, P3Sizes DEF DispatchBounded
<1>7. FiredSomewhere
  BY DEF FiredSomewhere
<1> QED
  BY <1>3, <1>4, <1>5, <1>6, <1>7 DEF P3Inv

\* The start is that of ProcessorP4: empty queues and idle units.
LEMMA InitImplements == P3Init => P4!Init
<1> SUFFICES ASSUME P3Init PROVE P4!Init
  OBVIOUS
<1>1. InSchedule = {} /\ Range(dispatch_queue) = {} /\ Range(state_update_queue) = {}
      /\ Range(completed) = {}
  BY NoneQueued DEF P3Init, InSchedule
<1>2. SeenInstr = [t \in {} |-> NULL] /\ WaitsFor = [t \in {} |-> {}]
  BY DEF P3Init, SeenInstr, WaitsFor
<1>3. InFast = {}
  BY P3Sizes DEF P3Init, InFast, Slot
<1>4. InLong = [s \in Slot |-> {}]
  <2>1. \A s \in Slot : {FU_pipeline[j][s] : j \in J + 1 .. J + K} \ {NULL} = {}
    BY P3Sizes DEF P3Init
  <2> QED
    BY <2>1 DEF InLong
<1>5. OnBuses = {}
  <2>1. \A b \in Range(buses) : b = IdleBus
    BY DEF P3Init, Range
  <2> QED
    BY <2>1 DEF OnBuses, IdleBus
<1> QED
  BY <1>1, <1>2, <1>3, <1>4, <1>5
     DEF P3Init, P4!Init, Proc, Slot, P4!Proc, P4!Slot

\* The start of a pass keeps the invariant.
LEMMA ClockKeeps == ASSUME P3Inv, Clock PROVE P3Inv'
<1> USE DEF Clock, p3Queues
<1>1. OperationsKnown'
  BY DEF P3Inv, OperationsKnown
<1>2. QueuesOrdered'
  BY SeenUnchanged DEF P3Inv, QueuesOrdered, IsLong
<1>3. FiredOnce'
  BY SeenUnchanged DEF P3Inv, FiredOnce
<1>4. DispatchBounded'
  BY DEF P3Inv, DispatchBounded
<1>5. FiredSomewhere'
  BY SeenUnchanged DEF P3Inv, FiredSomewhere
<1> QED
  BY <1>1, <1>2, <1>3, <1>4, <1>5 DEF P3Inv

\* The start of a pass is that of ProcessorP4 when the cache answers nothing.
LEMMA ClockImplements == ASSUME P3Inv, Clock PROVE P4!Clock
<1> DEFINE none == [p \in Proc |-> NULL]
<1>1. none = [p \in P4!Proc |-> IF none[p] \in {} THEN NULL ELSE none[p]]
  BY DEF Proc, P4!Proc
<1>2. {} \in SUBSET {} /\ {} = {} \ {}
  OBVIOUS
<1> HIDE DEF none
<1> QED
  BY <1>1, <1>2, SeenUnchanged DEF none, Clock, P4!Clock, p3Queues, P4!queueVars, P4!unitVars

\* The end of fetching keeps the invariant.
LEMMA FetchEndsKeeps == ASSUME P3Inv, FetchEnds PROVE P3Inv'
<1> USE DEF FetchEnds, p3Queues
<1>1. OperationsKnown'
  BY DEF P3Inv, OperationsKnown
<1>2. QueuesOrdered'
  BY SeenUnchanged DEF P3Inv, QueuesOrdered, IsLong
<1>3. FiredOnce'
  BY SeenUnchanged DEF P3Inv, FiredOnce
<1>4. DispatchBounded'
  BY DEF P3Inv, DispatchBounded
<1>5. FiredSomewhere'
  BY SeenUnchanged DEF P3Inv, FiredSomewhere
<1> QED
  BY <1>1, <1>2, <1>3, <1>4, <1>5 DEF P3Inv

\* The two modules fetch under the same condition.
LEMMA SameMayFetch == ASSUME P3Inv PROVE P4!MayFetch <=> MayFetch
<1>1. P4!Cardinality(Range(dispatch_queue)) = Len(dispatch_queue)
  BY OnceEach, SameCardinality DEF P3Inv, QueuesOrdered
<1>2. [p \in Proc |-> FALSE][i] = FALSE
  BY DEF P3Inv, OperationsKnown
<1> QED
  BY <1>1, <1>2 DEF MayFetch, P4!MayFetch

\* The end of fetching is that of ProcessorP4.
LEMMA FetchEndsImplements == ASSUME P3Inv, FetchEnds PROVE P4!FetchEnds
BY SameMayFetch, SeenUnchanged
   DEF FetchEnds, P4!FetchEnds, p3Queues, P4!pipeVars, P4!queueVars, P4!unitVars, P4!stallVars

\* Dropping an operation keeps the invariant.
LEMMA DropKeeps == ASSUME P3Inv, NEW o \in Ops, Drop(o) PROVE P3Inv'
<1> USE DEF Drop, TakeOp, p3Queues
<1>1. OperationsKnown'
  BY DEF P3Inv, OperationsKnown
<1>2. QueuesOrdered'
  BY SeenUnchanged DEF P3Inv, QueuesOrdered, IsLong
<1>3. FiredOnce'
  BY SeenUnchanged DEF P3Inv, FiredOnce
<1>4. DispatchBounded'
  BY DEF P3Inv, DispatchBounded
<1>5. FiredSomewhere'
  BY SeenUnchanged DEF P3Inv, FiredSomewhere
<1> QED
  BY <1>1, <1>2, <1>3, <1>4, <1>5 DEF P3Inv

\* The next tag is larger than all others.
LEMMA CounterIsNew == ASSUME P3Inv PROVE \A t \in DOMAIN instr : t < counter /\ t # counter /\ t \in Nat
BY DEF P3Inv, OperationsKnown

\* Fetching keeps the invariant: the new tag is above all others, so that the dispatch
\* queue stays in order.
LEMMA FetchKeeps == ASSUME P3Inv, NEW o \in Ops, Fetch(o) PROVE P3Inv'
<1> USE DEF Fetch, TakeOp, p3Queues
<1>1. counter \in Nat \ {0} /\ counter \notin DOMAIN instr
  BY CounterIsNew DEF P3Inv, OperationsKnown
<1>2. DOMAIN instr' = DOMAIN instr \cup {counter} /\ InSchedule' = InSchedule
  BY SeenUnchanged
<1>3. \A t \in DOMAIN instr : instr'[t] = instr[t] /\ src_arr'[t] = src_arr[t]
  BY <1>1
<1>4. IsQueue(dispatch_queue)' /\ Range(dispatch_queue)' = Range(dispatch_queue) \cup {counter}
  <2>1. IsQueue(dispatch_queue) /\ \A u \in Range(dispatch_queue) : u < counter
    BY CounterIsNew, QueuedKnown DEF P3Inv, QueuesOrdered
  <2> QED
    BY <2>1, <1>1, PushLast
<1>5. OperationsKnown'
  <2>1. DOMAIN instr' \subseteq 1 .. counter' - 1 /\ counter' \in Nat \ {0}
    BY <1>1, <1>2 DEF P3Inv, OperationsKnown
  <2>2. instr' \in [DOMAIN instr' -> {p \in Ops : p.op \in {"ALU", "ALU_LONG"}}]
    BY <1>1, <1>2 DEF P3Inv, OperationsKnown
  <2>3. src_arr' \in [DOMAIN instr' -> [1 .. 2 -> Nat \cup {NULL}]]
    <3>1. <<NULL, NULL>> \in [1 .. 2 -> Nat \cup {NULL}]
      OBVIOUS
    <3> QED
      BY <3>1, <1>2 DEF P3Inv, OperationsKnown
  <2> QED
    BY <2>1, <2>2, <2>3 DEF P3Inv, OperationsKnown
<1>6. QueuesOrdered'
  <2>1. \A t \in DOMAIN instr : IsLong(t)' <=> IsLong(t)
    BY <1>3 DEF IsLong
  <2>2. \A t \in InSchedule : IsLong(t)' <=> IsLong(t)
    BY <2>1, QueuedKnown
  <2>3. ASSUME NEW t \in Range(dispatch_queue)'
        PROVE  /\ \A n \in 1 .. 2 : src_arr'[t][n] = NULL
               /\ \A u \in InSchedule' : (IsLong(u)' <=> IsLong(t)') => u < t
    <3>1. CASE t = counter
      <4>1. src_arr'[t] = <<NULL, NULL>>
        BY <3>1
      <4>2. \A u \in InSchedule : u < counter
        BY CounterIsNew, QueuedKnown
      <4> QED
        BY <3>1, <4>1, <4>2, <1>2
    <3>2. CASE t \in Range(dispatch_queue)
      <4>1. t \in DOMAIN instr
        BY <3>2, QueuedKnown
      <4> QED
        BY <3>2, <4>1, <1>2, <1>3, <2>1, <2>2 DEF P3Inv, QueuesOrdered
    <3> QED
      BY <3>1, <3>2, <1>4
  <2>4. DOMAIN instr' = Range(dispatch_queue)' \cup InSchedule'
        /\ Range(dispatch_queue)' \cap InSchedule' = {}
    <3>1. counter \notin InSchedule
      BY <1>1, QueuedKnown
    <3> QED
      BY <3>1, <1>2, <1>4 DEF P3Inv, QueuesOrdered
  <2>5. (\A t \in Range(long_schedule_queue) : IsLong(t))'
        /\ (\A t \in Range(fast_schedule_queue) : ~IsLong(t))'
    BY <2>2, QueuedKnown DEF P3Inv, QueuesOrdered
  <2> QED
    BY <1>4, <2>3, <2>4, <2>5 DEF P3Inv, QueuesOrdered
<1>7. FiredOnce'
  BY SeenUnchanged DEF P3Inv, FiredOnce
<1>8. DispatchBounded'
  <2> DEFINE size == D * (M * J + M * K)
  <2>1. Len(dispatch_queue) < size /\ size \in Nat
    BY P3Sizes DEF MayFetch
  <2>2. dispatch_queue \in Seq(Nat)
    BY DEF P3Inv, QueuesOrdered, IsQueue
  <2> HIDE DEF size
  <2>3. Len(dispatch_queue') = Len(dispatch_queue) + 1 /\ Len(dispatch_queue) \in Nat
    BY <2>2, <1>1 DEF queue_push
  <2>4. Len(dispatch_queue') <= size
    BY <2>1, <2>3
  <2> QED
    BY <2>4 DEF DispatchBounded, size
<1>9. FiredSomewhere'
  BY SeenUnchanged DEF P3Inv, FiredSomewhere
<1> QED
  BY <1>5, <1>6, <1>7, <1>8, <1>9 DEF P3Inv

\* Fetching is that of ProcessorP4, of an operation that is no branch, without a stall.
LEMMA FetchImplements == ASSUME P3Inv, NEW o \in Ops, Fetch(o) PROVE P4!Fetch(Seen(o), FALSE)
<1>1. SeenInstr' = [t \in DOMAIN SeenInstr \cup {counter} |->
                      IF t = counter THEN Seen(o) ELSE SeenInstr[t]]
  <2>1. DOMAIN SeenInstr = DOMAIN instr
    BY DEF SeenInstr
  <2>2. ASSUME NEW t \in DOMAIN instr \cup {counter}
        PROVE  Seen(instr'[t]) = IF t = counter THEN Seen(o) ELSE SeenInstr[t]
    BY DEF Fetch, SeenInstr
  <2>3. SeenInstr' = [t \in DOMAIN instr \cup {counter} |-> Seen(instr'[t])]
    BY DEF Fetch, SeenInstr
  <2> QED
    BY <2>1, <2>2, <2>3
<1>2. WaitsFor' = [t \in DOMAIN SeenInstr \cup {counter} |->
                     IF t = counter THEN {} ELSE WaitsFor[t]]
  <2>1. DOMAIN SeenInstr = DOMAIN instr /\ DOMAIN src_arr = DOMAIN instr
    BY DEF SeenInstr, P3Inv, OperationsKnown
  <2>2. Range(<<NULL, NULL>>) \ {NULL} = {}
    BY DEF Range
  <2>3. ASSUME NEW t \in DOMAIN instr \cup {counter}
        PROVE  Range(src_arr'[t]) \ {NULL} = IF t = counter THEN {} ELSE WaitsFor[t]
    BY <2>1, <2>2 DEF Fetch, WaitsFor
  <2>4. WaitsFor' = [t \in DOMAIN instr \cup {counter} |-> Range(src_arr'[t]) \ {NULL}]
    BY DEF Fetch, WaitsFor
  <2> QED
    BY <2>1, <2>3, <2>4
<1>3. Range(dispatch_queue)' = Range(dispatch_queue) \cup {counter}
  <2>1. IsQueue(dispatch_queue) /\ \A u \in Range(dispatch_queue) : u < counter
    BY CounterIsNew, QueuedKnown DEF P3Inv, QueuesOrdered
  <2>2. counter \in Nat
    BY DEF P3Inv, OperationsKnown
  <2> QED
    BY <2>1, <2>2, PushLast DEF Fetch
<1>4. [p \in Proc |-> FALSE] = [[p \in Proc |-> FALSE] EXCEPT ![i] = FALSE]
  OBVIOUS
<1>5. P4!MayFetch
  BY SameMayFetch DEF Fetch, TakeOp
<1> QED
  BY <1>1, <1>2, <1>3, <1>4, <1>5, SeenUnchanged
     DEF Fetch, TakeOp, P4!Fetch, P4!unitVars

-----------------------------------------------------------------------------
(* The buses and the state update queue.                                   *)

\* The oldest finished operations are pulled.
LEMMA Pulled ==
    ASSUME P3Inv, NEW n, n = Min({C, Len(state_update_queue)})
    PROVE  LET pulled == SubSeq(state_update_queue, 1, n)
               rest   == SubSeq(state_update_queue, n + 1, Len(state_update_queue))
           IN  /\ n \in 0 .. C /\ Len(pulled) = n
               /\ IsQueue(pulled) /\ IsQueue(rest)
               /\ Range(pulled) = P4!First(C, Range(state_update_queue))
               /\ Range(pulled) \subseteq Range(state_update_queue)
               /\ Range(rest) = Range(state_update_queue) \ Range(pulled)
<1> DEFINE q == state_update_queue
           pulled == SubSeq(q, 1, n)
           rest == SubSeq(q, n + 1, Len(q))
<1>1. IsQueue(q) /\ q \in Seq(Nat) /\ Len(q) \in Nat /\ C \in Nat
  BY P3Sizes DEF P3Inv, QueuesOrdered, IsQueue
<1>2. n = (IF C <= Len(q) THEN C ELSE Len(q)) /\ n \in 0 .. Len(q) /\ n \in 0 .. C
  <2>1. {C, Len(q)} \subseteq Nat
    BY <1>1
  <2>2. n \in {C, Len(q)} /\ n <= C /\ n <= Len(q)
    BY <2>1, MinWithin
  <2> QED
    BY <1>1, <2>2
<1>3. /\ IsQueue(pulled) /\ Len(pulled) = n /\ Range(pulled) = {q[x] : x \in 1 .. n}
      /\ IsQueue(rest) /\ Range(rest) = {q[x] : x \in n + 1 .. Len(q)}
  BY <1>1, <1>2, Halves
<1>4. Range(pulled) = P4!First(C, Range(q))
  BY <1>1, <1>2, FirstIs
<1>5. Range(q) = {q[x] : x \in 1 .. Len(q)} /\ \A x, y \in 1 .. Len(q) : q[x] = q[y] => x = y
  BY <1>1, RangeIs, OnceEach
<1>6. \A x \in 1 .. Len(q) : x \in 1 .. n \/ x \in n + 1 .. Len(q)
  BY <1>1, <1>2
<1>7. /\ \A x \in 1 .. n : x \in 1 .. Len(q) /\ x \notin n + 1 .. Len(q)
      /\ \A x \in n + 1 .. Len(q) : x \in 1 .. Len(q)
  <2>1. n \in Nat /\ n <= Len(q) /\ Len(q) \in Nat
    BY <1>1, <1>2
  <2> HIDE DEF pulled, rest, q
  <2>2. ASSUME NEW x \in 1 .. n PROVE x \in 1 .. Len(q) /\ x \notin n + 1 .. Len(q)
    BY <2>1
  <2>3. ASSUME NEW x \in n + 1 .. Len(q) PROVE x \in 1 .. Len(q)
    BY <2>1
  <2> QED
    BY <2>2, <2>3
<1> HIDE DEF pulled, rest
<1>8. Range(rest) = Range(q) \ Range(pulled)
  <2>1. ASSUME NEW x \in 1 .. Len(q) PROVE q[x] \in Range(pulled) <=> x \in 1 .. n
    BY <1>3, <1>5, <1>7
  <2>2. ASSUME NEW x \in 1 .. Len(q) PROVE q[x] \in Range(rest) <=> x \in n + 1 .. Len(q)
    BY <1>3, <1>5, <1>7
  <2>3. Range(rest) \subseteq Range(q)
    BY <1>3, <1>5, <1>7
  <2>4. ASSUME NEW x \in 1 .. Len(q) PROVE q[x] \in Range(rest) <=> q[x] \notin Range(pulled)
    BY <2>1, <2>2, <1>6, <1>7
  <2> QED
    BY <2>3, <2>4, <1>5
<1>9. Range(pulled) \subseteq Range(q)
  BY <1>3, <1>5, <1>7
<1> QED
  BY <1>2, <1>3, <1>4, <1>8, <1>9 DEF pulled, rest

\* The broadcast keeps the invariant: what leaves the state update queue is completed.
LEMMA UpdateStateKeeps == ASSUME P3Inv, UpdateState PROVE P3Inv'
<1> DEFINE n == Min({C, Len(state_update_queue)})
           pulled == SubSeq(state_update_queue, 1, n)
           rest == SubSeq(state_update_queue, n + 1, Len(state_update_queue))
<1>1. /\ IsQueue(pulled) /\ IsQueue(rest)
      /\ Range(pulled) \subseteq Range(state_update_queue)
      /\ Range(rest) = Range(state_update_queue) \ Range(pulled)
  BY Pulled
<1>2. completed' = pulled /\ state_update_queue' = rest /\ stage' = "execute"
  BY DEF UpdateState, Goto
<1> HIDE DEF pulled, rest
<1>3. OperationsKnown'
  <2>1. regs' \in [Reg -> Nat \cup {NULL}]
    BY DEF UpdateState, P3Inv, OperationsKnown
  <2> QED
    BY <2>1 DEF UpdateState, P3Inv, OperationsKnown
<1>4. QueuesOrdered'
  BY <1>1, <1>2, SeenUnchanged DEF UpdateState, P3Inv, QueuesOrdered, IsLong
<1>5. FiredOnce'
  <2>1. InUnits' = InUnits
    BY SeenUnchanged DEF UpdateState
  <2>2. InUnits \cap (Range(rest) \cup Range(pulled)) = {}
    BY <1>1 DEF P3Inv, FiredOnce
  <2>3. InSchedule' = InSchedule /\ fired' = fired /\ FU_pipeline' = FU_pipeline
    BY SeenUnchanged DEF UpdateState
  <2> QED
    BY <1>1, <1>2, <2>1, <2>2, <2>3 DEF P3Inv, FiredOnce
<1>6. DispatchBounded'
  BY DEF UpdateState, P3Inv, DispatchBounded
<1>7. FiredSomewhere'
  <2>1. InUnits' = InUnits /\ fired' = fired
    BY SeenUnchanged DEF UpdateState
  <2>2. Range(completed) = {}
    BY NoneQueued DEF UpdateState, P3Inv, FiredOnce
  <2>3. Range(state_update_queue) = Range(rest) \cup Range(pulled)
    BY <1>1
  <2> QED
    BY <1>2, <2>1, <2>2, <2>3 DEF P3Inv, FiredSomewhere
<1> QED
  BY <1>3, <1>4, <1>5, <1>6, <1>7 DEF P3Inv

\* The buses take the oldest of the state update queue, as in ProcessorP4.
LEMMA UpdateStateImplements == ASSUME P3Inv, UpdateState PROVE P4!UpdateState
<1> DEFINE n == Min({C, Len(state_update_queue)})
           pulled == SubSeq(state_update_queue, 1, n)
           rest == SubSeq(state_update_queue, n + 1, Len(state_update_queue))
           first == P4!First(C, Range(state_update_queue))
<1>1. /\ n \in 0 .. C /\ Len(pulled) = n
      /\ IsQueue(pulled)
      /\ Range(pulled) = first
      /\ Range(pulled) \subseteq Range(state_update_queue)
      /\ Range(rest) = Range(state_update_queue) \ Range(pulled)
  BY Pulled
<1>2. completed' = pulled /\ state_update_queue' = rest
  BY DEF UpdateState
<1>3. \A t \in first : t \in DOMAIN instr
  BY <1>1, QueuedKnown
<1>4. OnBuses' = {[tag |-> t, reg_id |-> SeenInstr[t].dest_reg] : t \in {u \in first : ~P4!IsBranch(u)}}
  <2>1. buses' = [c \in 1 .. C |-> IF c <= n
                                   THEN [tag |-> pulled[c], reg_id |-> instr[pulled[c]].dest_reg]
                                   ELSE IdleBus]
    BY DEF UpdateState
  <2> HIDE DEF n, pulled, first
  <2>2. Range(pulled) = {pulled[c] : c \in 1 .. n}
    BY <1>1, RangeIs DEF IsQueue
  <2>3. {u \in first : ~P4!IsBranch(u)} = first
    BY <1>3, SeenIs DEF P3Inv
  <2>4. \A t \in first : t # NULL /\ SeenInstr[t].dest_reg = instr[t].dest_reg
    BY <1>3, SeenIs DEF P3Inv
  <2>5. \A c \in 1 .. n : c \in 1 .. C /\ c <= n /\ pulled[c] \in first
    BY <1>1, <2>2, P3Sizes
  <2>6. ASSUME NEW c \in 1 .. C, buses'[c].tag # NULL
        PROVE  c \in 1 .. n /\ buses'[c] = [tag |-> pulled[c], reg_id |-> instr[pulled[c]].dest_reg]
    <3>1. c <= n
      BY <2>1, <2>6 DEF IdleBus
    <3>2. c \in 1 .. n
      BY <3>1, <1>1, P3Sizes
    <3> QED
      BY <3>1, <3>2, <2>1
  <2>7. ASSUME NEW c \in 1 .. n
        PROVE  buses'[c] = [tag |-> pulled[c], reg_id |-> instr[pulled[c]].dest_reg]
               /\ buses'[c].tag # NULL
    BY <2>1, <2>4, <2>5
  <2>8. OnBuses' = {buses'[c] : c \in 1 .. n}
    <3>1. OnBuses' = {b \in {buses'[c] : c \in 1 .. C} : b.tag # NULL}
      BY <2>1 DEF OnBuses, Range
    <3> QED
      <4>1. \A c \in 1 .. n : c \in 1 .. C
        BY <2>5
      <4>2. ASSUME NEW c \in 1 .. C, buses'[c].tag # NULL PROVE buses'[c] \in {buses'[d] : d \in 1 .. n}
        BY <4>2, <2>6
      <4>3. ASSUME NEW c \in 1 .. n
            PROVE  buses'[c] \in {buses'[d] : d \in 1 .. C} /\ buses'[c].tag # NULL
        BY <4>1, <4>3, <2>7
      <4> QED
        BY <3>1, <4>2, <4>3
  <2>9. OnBuses' = {[tag |-> t, reg_id |-> SeenInstr[t].dest_reg] : t \in first}
    <3>1. \A c \in 1 .. n : buses'[c] = [tag |-> pulled[c], reg_id |-> SeenInstr[pulled[c]].dest_reg]
      BY <2>4, <2>5, <2>7
    <3>2. first = {pulled[c] : c \in 1 .. n}
      BY <1>1, <2>2
    <3> DEFINE Bus(t) == [tag |-> t, reg_id |-> SeenInstr[t].dest_reg]
    <3>3. \A c \in 1 .. n : buses'[c] = Bus(pulled[c])
      BY <3>1
    <3> HIDE DEF Bus
    <3>4. OnBuses' = {Bus(t) : t \in first}
      BY <3>2, <3>3, <2>8
    <3> QED
      BY <3>4 DEF Bus
  <2> QED
    BY <2>3, <2>9
<1>5. n > 0 <=> first # {}
  <2>1. Range(pulled) = {} <=> n = 0
    BY <1>1, RangeIs DEF IsQueue
  <2>2. n > 0 <=> n # 0
    <3>1. n \in Nat
      BY <1>1, P3Sizes
    <3> HIDE DEF n
    <3> QED
      BY <3>1
  <2> QED
    BY <1>1, <2>1, <2>2
<1>6. P4!Goto("execute", OnBuses # {} \/ first # {})
  BY <1>5 DEF UpdateState, Goto, P4!Goto
<1> HIDE DEF n, pulled, rest, first
<1>7. P4!UpdateState <=>
        /\ stage = "update"
        /\ regs' = [r \in Reg |->
                       IF \E b \in OnBuses : b.reg_id = r /\ b.tag = regs[r] THEN NULL ELSE regs[r]]
        /\ OnBuses' = {[tag |-> t, reg_id |-> SeenInstr[t].dest_reg] :
                          t \in {u \in first : ~P4!IsBranch(u)}}
        /\ Range(completed)' = first
        /\ Range(state_update_queue)' = Range(state_update_queue) \ first
        /\ P4!Goto("execute", OnBuses # {} \/ first # {})
        /\ UNCHANGED <<opsLeft, counter, SeenInstr, WaitsFor, Range(dispatch_queue), InSchedule,
                       P4!unitVars, P4!stallVars, i, f>>
  BY DEF P4!UpdateState, first
<1>8. UNCHANGED <<opsLeft, counter, SeenInstr, WaitsFor, Range(dispatch_queue), InSchedule,
                  P4!unitVars, P4!stallVars, i, f>>
  BY SeenUnchanged DEF UpdateState, P4!unitVars, P4!stallVars
<1> QED
  BY <1>1, <1>2, <1>4, <1>6, <1>7, <1>8 DEF UpdateState

-----------------------------------------------------------------------------
(* The units.                                                              *)

\* What is at the end of each unit.
Ends == [j \in Unit |-> IF j <= J THEN FU_pipeline[j][0] ELSE FU_pipeline[j][2]]

\* What is at the ends of the units: the fast ones, and the long ones in the last stage,
\* each once.
LEMMA EndsAre ==
    ASSUME P3Inv
    PROVE  /\ Ends \in Seq(Nat \cup {NULL}) /\ Len(Ends) = J + K
           /\ {Ends[j] : j \in 1 .. J + K} \ {NULL} = InFast \cup InLong[2]
           /\ \A j \in Unit : Ends[j] # NULL => Ends[j] \in InUnits
           /\ \A j, k \in Unit : Ends[j] = Ends[k] /\ Ends[j] # NULL => j = k
<1>1. FU_pipeline \in [Unit -> [Slot -> fired \cup {NULL}]] /\ fired \subseteq Nat
  BY QueuedKnown DEF P3Inv, FiredOnce
<1>2. 0 \in Slot /\ 2 \in Slot /\ 1 \in Slot
  BY DEF Slot
<1>3. \A j \in Unit : FU_pipeline[j][0] \in fired \cup {NULL} /\ FU_pipeline[j][2] \in fired \cup {NULL}
  BY <1>1, <1>2
<1>4. \A j \in Unit : Ends[j] \in Nat \cup {NULL}
  BY <1>1, <1>3 DEF Ends
<1>5. J + K \in Nat /\ Unit = 1 .. J + K
  BY P3Sizes DEF Unit
<1>6. Ends \in [1 .. J + K -> Nat \cup {NULL}]
  BY <1>4, <1>5 DEF Ends
<1>7. Ends \in Seq(Nat \cup {NULL}) /\ Len(Ends) = J + K
  BY <1>5, <1>6
<1>8. \A j \in Unit : Ends[j] # NULL => Ends[j] \in InUnits
  BY <1>2 DEF Ends, InUnits
<1>9. ASSUME NEW j \in Unit, NEW k \in Unit, Ends[j] = Ends[k], Ends[j] # NULL PROVE j = k
  BY <1>2, <1>9 DEF Ends, P3Inv, FiredOnce
<1>10. \A j \in 1 .. J : j \in Unit /\ Ends[j] = FU_pipeline[j][0]
  BY P3Sizes DEF Ends
<1>11. \A j \in J + 1 .. J + K : j \in Unit /\ Ends[j] = FU_pipeline[j][2]
  BY P3Sizes DEF Ends
<1>12. {Ends[j] : j \in 1 .. J + K} \ {NULL} = InFast \cup InLong[2]
  <2>1. InLong[2] = {FU_pipeline[j][2] : j \in J + 1 .. J + K} \ {NULL}
    BY <1>2 DEF InLong
  <2>2. \A j \in 1 .. J + K : j \in 1 .. J \/ j \in J + 1 .. J + K
    BY <1>5, P3Sizes
  <2> QED
    BY <1>5, <1>10, <1>11, <2>1, <2>2 DEF InFast
<1> QED
  BY <1>7, <1>8, <1>9, <1>12

\* They are pushed into the state update queue.
LEMMA FinishedPushed ==
    ASSUME P3Inv, Execute
    PROVE  /\ IsQueue(state_update_queue)'
           /\ Range(state_update_queue)' = Range(state_update_queue) \cup InFast \cup InLong[2]
<1> DEFINE q == state_update_queue
           n == J + K
           Pushed(k) == {Ends[j] : j \in 1 .. k} \ {NULL}
<1>1. /\ Ends \in Seq(Nat \cup {NULL}) /\ Len(Ends) = n
      /\ \A j \in Unit : Ends[j] # NULL => Ends[j] \in InUnits
      /\ \A j, k \in Unit : Ends[j] = Ends[k] /\ Ends[j] # NULL => j = k
      /\ Pushed(n) = InFast \cup InLong[2]
  BY EndsAre
<1>2. state_update_queue' = AllPushed(q, Ends)
  BY DEF Execute, Ends, AllPushed
<1>3. IsQueue(q) /\ InUnits \cap Range(q) = {} /\ n \in Nat /\ Unit = 1 .. n
  BY P3Sizes DEF P3Inv, QueuesOrdered, FiredOnce, Unit
<1>4. \A r \in Seq(Nat), t \in Nat \cup {NULL} : PushFinished(r, t) \in Seq(Nat)
  BY PushSorted DEF PushFinished
<1>5. PICK v : /\ v[0] = q
               /\ v[n] = AllPushed(q, Ends)
               /\ \A k \in 0 .. n - 1 : v[k + 1] = PushFinished(v[k], Ends[k + 1])
  <2>1. q \in Seq(Nat)
    BY <1>3 DEF IsQueue
  <2> HIDE DEF n, q, Pushed
  <2>2. \E v : /\ v[0] = q
               /\ v[Len(Ends)] = AllPushed(q, Ends)
               /\ \A k \in 0 .. Len(Ends) - 1 : v[k + 1] = PushFinished(v[k], Ends[k + 1])
    BY <2>1, <1>1, <1>4, PushSteps
  <2> QED
    BY <1>1, <2>2
<1> DEFINE Good == {k \in 0 .. n : IsQueue(v[k]) /\ Range(v[k]) = Range(q) \cup Pushed(k)}
<1> HIDE DEF n, q
<1>6. 0 \in Good
  <2>1. Pushed(0) = {}
    OBVIOUS
  <2> HIDE DEF Pushed
  <2> QED
    BY <2>1, <1>3, <1>5
<1>7. ASSUME NEW k \in 0 .. n - 1, k \in Good PROVE k + 1 \in Good
  <2> DEFINE t == Ends[k + 1]
  <2>1. k + 1 \in 1 .. n /\ k + 1 \in 0 .. n /\ k \in Nat
    BY <1>3
  <2>2. Pushed(k + 1) = Pushed(k) \cup ({t} \ {NULL})
    <3>1. \A j \in 1 .. k + 1 : j \in 1 .. k \/ j = k + 1
      BY <2>1
    <3>2. \A j \in 1 .. k : j \in 1 .. k + 1
      BY <2>1
    <3>3. k + 1 \in 1 .. k + 1
      BY <2>1
    <3> QED
      BY <3>1, <3>2, <3>3
  <2>3. v[k + 1] = PushFinished(v[k], t)
    BY <1>5
  <2>4. IsQueue(v[k]) /\ Range(v[k]) = Range(q) \cup Pushed(k)
    BY <1>7
  <2>5. CASE t = NULL
    BY <2>1, <2>2, <2>3, <2>4, <2>5 DEF PushFinished
  <2>6. CASE t # NULL
    <3>1. t \in Nat /\ t \in InUnits
      BY <2>1, <2>6, <1>1, <1>3
    <3>2. t \notin Pushed(k)
      <4> SUFFICES ASSUME NEW j \in 1 .. k, Ends[j] = t PROVE FALSE
        OBVIOUS
      <4>1. j \in Unit /\ k + 1 \in Unit /\ j # k + 1
        BY <2>1, <1>3
      <4> QED
        BY <4>1, <1>1, <2>6
    <3>3. t \notin Range(v[k])
      BY <3>1, <3>2, <2>4, <1>3
    <3>4. v[k + 1] = PriorityPush(v[k], t)
      BY <2>3, <2>6 DEF PushFinished
    <3>5. IsQueue(v[k + 1]) /\ Range(v[k + 1]) = Range(v[k]) \cup {t}
      <4> HIDE DEF Pushed, t
      <4>1. v[k] \in Seq(Nat) /\ InOrder(v[k])
        BY <2>4 DEF IsQueue
      <4>2. /\ PriorityPush(v[k], t) \in Seq(Nat)
            /\ Range(PriorityPush(v[k], t)) = Range(v[k]) \cup {t}
            /\ InOrder(PriorityPush(v[k], t))
        BY <3>1, <3>3, <4>1, PushSorted
      <4> QED
        BY <3>4, <4>2 DEF IsQueue
    <3>6. Range(v[k + 1]) = Range(q) \cup Pushed(k + 1)
      BY <3>5, <2>2, <2>4, <2>6
    <3> HIDE DEF Pushed, t
    <3> QED
      BY <3>5, <3>6, <2>1
  <2> QED
    BY <2>5, <2>6
<1> HIDE DEF Good
<1>8. \A k \in 0 .. n : k \in Good
  BY <1>3, <1>6, <1>7, CountUp
<1>9. n \in Good
  BY <1>3, <1>8
<1> HIDE DEF Pushed
<1>10. IsQueue(v[n]) /\ Range(v[n]) = Range(q) \cup Pushed(n)
  BY <1>9 DEF Good
<1>11. Range(v[n]) = Range(q) \cup InFast \cup InLong[2]
  BY <1>1, <1>10
<1> QED
  BY <1>2, <1>5, <1>10, <1>11 DEF q

\* Every unit moves on.
LEMMA UnitsMove ==
    ASSUME P3Inv, Execute
    PROVE  /\ FU_pipeline' \in [Unit -> [Slot -> fired \cup {NULL}]]
           /\ \A j \in Unit : FU_pipeline'[j][0] = NULL
           /\ \A j \in 1 .. J, s \in Slot : FU_pipeline'[j][s] = NULL
           /\ \A j \in J + 1 .. J + K :
                FU_pipeline'[j][1] = FU_pipeline[j][0] /\ FU_pipeline'[j][2] = FU_pipeline[j][1]
<1>1. FU_pipeline \in [Unit -> [Slot -> fired \cup {NULL}]]
  BY DEF P3Inv, FiredOnce
<1>2. FU_pipeline' = [j \in Unit |-> [s \in Slot |->
                        IF s = 0 \/ j <= J THEN NULL ELSE FU_pipeline[j][s - 1]]]
  BY DEF Execute
<1>3. 0 \in Slot /\ 1 \in Slot /\ 2 \in Slot /\ \A s \in Slot : s # 0 => s - 1 \in Slot
  BY DEF Slot
<1>4. \A j \in 1 .. J : j \in Unit /\ j <= J
  BY P3Sizes
<1>5. \A j \in J + 1 .. J + K : j \in Unit /\ ~ (j <= J)
  BY P3Sizes
<1>6. FU_pipeline' \in [Unit -> [Slot -> fired \cup {NULL}]]
  <2>1. \A j \in Unit, s \in Slot :
          (IF s = 0 \/ j <= J THEN NULL ELSE FU_pipeline[j][s - 1]) \in fired \cup {NULL}
    BY <1>1, <1>3
  <2> QED
    BY <1>2, <2>1
<1>7. \A j \in Unit : FU_pipeline'[j][0] = NULL
  BY <1>2, <1>3
<1>8. \A j \in 1 .. J, s \in Slot : FU_pipeline'[j][s] = NULL
  BY <1>2, <1>4
<1>9. \A j \in J + 1 .. J + K :
        FU_pipeline'[j][1] = FU_pipeline[j][0] /\ FU_pipeline'[j][2] = FU_pipeline[j][1]
  <2> SUFFICES ASSUME NEW j \in J + 1 .. J + K
               PROVE  /\ FU_pipeline'[j][1] = FU_pipeline[j][1 - 1]
                      /\ FU_pipeline'[j][2] = FU_pipeline[j][2 - 1]
    OBVIOUS
  <2> QED
    BY <1>2, <1>3, <1>5
<1> QED
  BY <1>6, <1>7, <1>8, <1>9

\* Execution keeps the invariant: what leaves a unit is queued for its broadcast.
LEMMA ExecuteKeeps == ASSUME P3Inv, Execute PROVE P3Inv'
<1>1. /\ InSchedule' = InSchedule /\ fired' = fired /\ completed' = completed
      /\ stage' = "schedule"
  BY SeenUnchanged DEF Execute, Goto
<1>2. OperationsKnown'
  BY DEF Execute, P3Inv, OperationsKnown
<1>3. QueuesOrdered'
  BY <1>1, FinishedPushed DEF Execute, P3Inv, QueuesOrdered, IsLong
<1>4. FiredOnce'
  <2>1. Slot = {0, 1, 2}
    BY DEF Slot
  <2>2. ASSUME NEW j \in Unit, NEW s \in Slot, FU_pipeline'[j][s] # NULL
        PROVE  /\ j \in J + 1 .. J + K /\ s # 0 /\ s - 1 \in Slot
               /\ FU_pipeline'[j][s] = FU_pipeline[j][s - 1] /\ s - 1 # 2
    <3>1. j \in J + 1 .. J + K /\ s # 0
      BY <2>2, UnitsMove, P3Sizes
    <3>2. CASE s = 1
      BY <2>1, <3>1, <3>2, UnitsMove
    <3>3. CASE s = 2
      BY <2>1, <3>1, <3>3, UnitsMove
    <3> QED
      BY <2>1, <3>1, <3>2, <3>3
  <2>3. ASSUME NEW j \in Unit, NEW k \in Unit, NEW r \in Slot, NEW s \in Slot,
               FU_pipeline'[j][r] = FU_pipeline'[k][s], FU_pipeline'[j][r] # NULL
        PROVE  j = k /\ r = s
    <3>1. /\ r - 1 \in Slot /\ s - 1 \in Slot
          /\ FU_pipeline[j][r - 1] = FU_pipeline[k][s - 1] /\ FU_pipeline[j][r - 1] # NULL
      BY <2>2, <2>3
    <3>2. j = k /\ r - 1 = s - 1
      BY <3>1 DEF P3Inv, FiredOnce
    <3> QED
      BY <3>2, <2>1
  <2>4. ASSUME NEW j \in Unit, NEW s \in Slot, FU_pipeline'[j][s] # NULL
        PROVE  FU_pipeline'[j][s] \in InUnits /\ FU_pipeline'[j][s] \notin InFast \cup InLong[2]
    <3> DEFINE t == FU_pipeline[j][s - 1]
    <3>1. /\ j \in J + 1 .. J + K /\ s - 1 \in Slot /\ s - 1 # 2
          /\ FU_pipeline'[j][s] = t /\ t # NULL
      BY <2>2, <2>4
    <3>2. t \in InUnits
      BY <3>1 DEF InUnits
    <3>3. ASSUME NEW k \in 1 .. J, FU_pipeline[k][0] = t PROVE FALSE
      <4>1. k \in Unit /\ k # j /\ 0 \in Slot
        BY <2>1, <3>1, P3Sizes
      <4> QED
        BY <4>1, <3>1, <3>3 DEF P3Inv, FiredOnce
    <3>4. ASSUME NEW k \in J + 1 .. J + K, FU_pipeline[k][2] = t PROVE FALSE
      <4>1. k \in Unit /\ 2 \in Slot
        BY <2>1, P3Sizes
      <4> QED
        BY <4>1, <3>1, <3>4 DEF P3Inv, FiredOnce
    <3>5. InLong[2] = {FU_pipeline[k][2] : k \in J + 1 .. J + K} \ {NULL}
      BY <2>1 DEF InLong
    <3> QED
      BY <3>1, <3>2, <3>3, <3>4, <3>5 DEF InFast
  <2>5. \A t \in InUnits' : t \in InUnits /\ t \notin InFast \cup InLong[2]
    BY <2>4 DEF InUnits
  <2>6. InFast \cup InLong[2] \subseteq InUnits
    BY UnitsAre, <2>1
  <2>7. Range(state_update_queue)' = Range(state_update_queue) \cup InFast \cup InLong[2]
    BY FinishedPushed
  <2>8. InUnits' \cap (Range(state_update_queue)' \cup Range(completed)) = {}
    BY <2>5, <2>7 DEF P3Inv, FiredOnce
  <2>9. /\ Range(state_update_queue)' \subseteq fired
        /\ Range(state_update_queue)' \cap Range(completed) = {}
    BY <2>6, <2>7, UnitsAre DEF P3Inv, FiredOnce
  <2>10. /\ FU_pipeline' \in [Unit -> [Slot -> fired \cup {NULL}]]
         /\ \A j \in 1 .. J : FU_pipeline'[j][1] = NULL /\ FU_pipeline'[j][2] = NULL
         /\ \A j \in Unit : FU_pipeline'[j][0] = NULL
    BY <2>1, UnitsMove
  <2>11. \A j, k \in Unit, r, s \in Slot :
           FU_pipeline'[j][r] = FU_pipeline'[k][s] /\ FU_pipeline'[j][r] # NULL => j = k /\ r = s
    BY <2>3
  <2> QED
    BY <1>1, <2>8, <2>9, <2>10, <2>11 DEF P3Inv, FiredOnce
<1>5. DispatchBounded'
  BY DEF Execute, P3Inv, DispatchBounded
<1>6. FiredSomewhere'
  <2>1. Slot = {0, 1, 2}
    BY DEF Slot
  <2>2. ASSUME NEW s \in {0, 1}, NEW t \in InLong[s] PROVE t \in InUnits'
    <3>1. PICK j \in J + 1 .. J + K : t = FU_pipeline[j][s] /\ t # NULL
      BY <2>1, <2>2 DEF InLong
    <3>2. j \in Unit /\ s + 1 \in Slot /\ FU_pipeline'[j][s + 1] = t
      BY <2>1, <3>1, UnitsMove, P3Sizes
    <3> QED
      BY <3>1, <3>2 DEF InUnits
  <2>3. InUnits \subseteq InUnits' \cup InFast \cup InLong[2]
    BY <2>1, <2>2, UnitsAre
  <2>4. Range(state_update_queue)' = Range(state_update_queue) \cup InFast \cup InLong[2]
    BY FinishedPushed
  <2> QED
    BY <1>1, <2>3, <2>4 DEF P3Inv, FiredSomewhere
<1> QED
  BY <1>2, <1>3, <1>4, <1>5, <1>6 DEF P3Inv

\* Execution moves the operations along as in ProcessorP4.
LEMMA ExecuteImplements == ASSUME P3Inv, Execute PROVE P4!Execute
<1>1. Slot = {0, 1, 2} /\ P4!Slot = Slot
  BY DEF Slot, P4!Slot
<1>2. P4!Staying = {}
  <2>1. \A t \in InFast : t \in DOMAIN instr
    BY UnitsAre, QueuedKnown
  <2>2. \A t \in InFast : ~P4!IsMem(t)
    BY <2>1, SeenIs DEF P3Inv
  <2> QED
    BY <2>2 DEF P4!Staying
<1>3. InFast' = {}
  BY <1>1, UnitsMove DEF InFast
<1>4. InLong' = [s \in P4!Slot |-> IF s = 0 THEN {} ELSE InLong[s - 1]]
  <2>1. {FU_pipeline'[j][0] : j \in J + 1 .. J + K} \ {NULL} = {}
    BY UnitsMove, P3Sizes
  <2>2. {FU_pipeline'[j][1] : j \in J + 1 .. J + K} \ {NULL} = InLong[0]
    BY <1>1, UnitsMove DEF InLong
  <2>3. {FU_pipeline'[j][2] : j \in J + 1 .. J + K} \ {NULL} = InLong[1]
    BY <1>1, UnitsMove DEF InLong
  <2>4. InLong' = [s \in Slot |-> {FU_pipeline'[j][s] : j \in J + 1 .. J + K} \ {NULL}]
    BY DEF InLong
  <2>5. ASSUME NEW s \in Slot
        PROVE  {FU_pipeline'[j][s] : j \in J + 1 .. J + K} \ {NULL} = IF s = 0 THEN {} ELSE InLong[s - 1]
    <3>1. CASE s = 0
      BY <3>1, <2>1
    <3>2. CASE s = 1
      BY <3>2, <2>2
    <3>3. CASE s = 2
      BY <3>3, <2>3
    <3> QED
      BY <1>1, <3>1, <3>2, <3>3
  <2> QED
    BY <1>1, <2>4, <2>5
<1>5. Range(state_update_queue)' = Range(state_update_queue) \cup (InFast \ P4!Staying) \cup InLong[2]
  BY <1>2, FinishedPushed
<1>6. P4!InUnits = InUnits
  BY <1>1, UnitsAre DEF P4!InUnits
<1>7. P4!Goto("schedule", P4!InUnits # {})
  BY <1>6 DEF Execute, Goto, P4!Goto
<1> QED
  BY <1>2, <1>3, <1>4, <1>5, <1>7, SeenUnchanged DEF Execute, P4!Execute, P4!stallVars

-----------------------------------------------------------------------------
(* Schedule: the oldest ready operations of each kind are fired.           *)

\* An operation that can be fired.
Ready(t) == t \notin fired /\ Range(src_arr[t]) = {NULL}

ReadyOnes(long) == {t \in InSchedule : Ready(t) /\ (IsLong(t) <=> long)}

\* Stage 0 of the units.
Entry(units) == [j \in Unit |-> units[j][0]]

\* It is all that a Filled speaks of.
LEMMA FilledSame ==
    ASSUME NEW U, NEW b, NEW c, NEW R, Filled(b, U, R), \A j \in U : c[j] = b[j]
    PROVE  Filled(c, U, R)
<1>1. {c[j] : j \in U} = {b[j] : j \in U}
  OBVIOUS
<1> QED
  BY <1>1 DEF Filled

\* What cannot be fired changes nothing.
LEMMA FireIdle == \A units, t : ~Ready(t) => Fire(units, t) = units
BY DEF Fire, Ready

\* What changes in the units when t is fired into those of U, where it is now the
\* last of R.
Fires(units, new, U, R) ==
    /\ new \in PipelineSet
    /\ \A j \in Unit : new[j][1] = units[j][1] /\ new[j][2] = units[j][2]
    /\ Filled(Entry(new), U, R)
    /\ \A j \in Unit \ U : Entry(new)[j] = Entry(units)[j]

\* What can be fired gets a free unit of its kind, if there is one.
LEMMA FireOne ==
    ASSUME NEW units \in PipelineSet, NEW t \in Nat, Ready(t),
           NEW U, U = {j \in Unit : IsLong(t) <=> j > J}, IsFiniteSet(U),
           NEW R \in SUBSET Nat, IsFiniteSet(R), \A u \in R : u < t,
           Filled(Entry(units), U, R)
    PROVE  Fires(units, Fire(units, t), U, R \cup {t})
<1> DEFINE free == {j \in Unit : units[j][0] = NULL /\ (IsLong(t) <=> j > J)}
           c == Fire(units, t)
           m == Min(free)
<1>1. c = IF free = {} THEN units ELSE [units EXCEPT ![m][0] = t]
  BY DEF Fire, Ready
<1>2. Slot = {0, 1, 2} /\ Unit \subseteq Nat
  BY P3Sizes DEF Slot, Unit
<1>3. free = {j \in U : units[j][0] = NULL} /\ U \subseteq Unit
  OBVIOUS
<1> HIDE DEF free, c, m
<1>4. CASE free = {}
  <2>1. c = units
    BY <1>1, <1>4
  <2>2. \A j \in U : Entry(units)[j] # NULL /\ Entry(c)[j] = Entry(units)[j]
    BY <1>3, <1>4, <2>1 DEF Entry
  <2>3. Filled(Entry(c), U, R \cup {t})
    <3> HIDE DEF Entry
    <3> QED
      BY <2>2, OneFired
  <2> QED
    BY <2>1, <2>3 DEF c, Fires
<1>5. CASE free # {}
  <2>1. m \in U /\ m \in Unit /\ units[m][0] = NULL
    <3>1. free \in SUBSET Nat
      BY <1>2, <1>3
    <3>2. m \in free
      BY <3>1, <1>5, MinWithin DEF m
    <3> QED
      BY <3>2, <1>3
  <2>2. c = [units EXCEPT ![m][0] = t]
    BY <1>1, <1>5
  <2>3. c \in PipelineSet
    BY <2>1, <2>2, <1>2 DEF PipelineSet
  <2>4. \A j \in Unit : c[j][1] = units[j][1] /\ c[j][2] = units[j][2]
    BY <2>1, <2>2, <1>2 DEF PipelineSet
  <2>5. \A j \in Unit : c[j][0] = IF j = m THEN t ELSE units[j][0]
    BY <2>1, <2>2, <1>2 DEF PipelineSet
  <2>6. \A j \in Unit : Entry(c)[j] = IF j = m THEN t ELSE Entry(units)[j]
    BY <2>5 DEF Entry
  <2>7. Entry(units)[m] = NULL
    BY <2>1 DEF Entry
  <2>8. Filled(Entry(c), U, R \cup {t})
    <3>1. \A j \in U : Entry(c)[j] = IF j = m THEN t ELSE Entry(units)[j]
      BY <2>6, <1>3
    <3> HIDE DEF Entry
    <3> QED
      BY <2>1, <2>7, <3>1, OneFired
  <2> QED
    BY <2>1, <2>3, <2>4, <2>6, <2>8 DEF c, Fires
<1> QED
  BY <1>4, <1>5

\* The queues one after the other: those of one kind are in order.
LEMMA ScheduleOrder ==
    ASSUME P3Inv, NEW L, L = long_schedule_queue \o fast_schedule_queue
    PROVE  /\ L \in Seq(Nat) /\ Range(L) = InSchedule
           /\ \A x, y \in 1 .. Len(L) : x < y /\ (IsLong(L[x]) <=> IsLong(L[y])) => L[x] < L[y]
<1> DEFINE a == long_schedule_queue
           b == fast_schedule_queue
<1>1. /\ a \in Seq(Nat) /\ b \in Seq(Nat) /\ InOrder(a) /\ InOrder(b)
      /\ \A t \in Range(a) : IsLong(t)
      /\ \A t \in Range(b) : ~IsLong(t)
  BY DEF P3Inv, QueuesOrdered, IsQueue
<1>2. InSchedule = Range(a) \cup Range(b)
  BY DEF InSchedule
<1> HIDE DEF a, b
<1>3. L = a \o b
  BY DEF a, b
<1>4. /\ L \in Seq(Nat) /\ Len(L) = Len(a) + Len(b)
      /\ \A x \in 1 .. Len(a) : L[x] = a[x]
      /\ \A x \in 1 .. Len(b) : L[Len(a) + x] = b[x]
  BY <1>1, <1>3, Joined
<1>5. Len(a) \in Nat /\ Len(b) \in Nat
  BY <1>1
<1>6. /\ Range(L) = {L[x] : x \in 1 .. Len(L)}
      /\ Range(a) = {a[x] : x \in 1 .. Len(a)} /\ Range(b) = {b[x] : x \in 1 .. Len(b)}
  BY <1>1, <1>4, RangeIs
<1>7. ASSUME NEW x \in 1 .. Len(L)
      PROVE  \/ x \in 1 .. Len(a) /\ L[x] = a[x]
             \/ x - Len(a) \in 1 .. Len(b) /\ L[x] = b[x - Len(a)] /\ ~ (x <= Len(a))
  <2>1. CASE x <= Len(a)
    <3>1. x \in 1 .. Len(a)
      BY <2>1, <1>5
    <3> QED
      BY <3>1, <1>4
  <2>2. CASE ~ (x <= Len(a))
    <3>1. x - Len(a) \in 1 .. Len(b) /\ Len(a) + (x - Len(a)) = x
      BY <2>2, <1>4, <1>5
    <3> QED
      BY <3>1, <2>2, <1>4
  <2> QED
    BY <2>1, <2>2
<1>8. \A x \in 1 .. Len(a) : x \in 1 .. Len(L)
  BY <1>4, <1>5
<1>9. \A x \in 1 .. Len(b) : Len(a) + x \in 1 .. Len(L)
  BY <1>4, <1>5
<1>10. Range(L) = Range(a) \cup Range(b)
  <2>1. ASSUME NEW x \in 1 .. Len(L) PROVE L[x] \in Range(a) \cup Range(b)
    BY <1>6, <1>7
  <2>2. ASSUME NEW x \in 1 .. Len(a) PROVE a[x] \in Range(L)
    BY <1>4, <1>6, <1>8
  <2>3. ASSUME NEW x \in 1 .. Len(b) PROVE b[x] \in Range(L)
    BY <1>4, <1>6, <1>9
  <2>4. Range(L) \subseteq Range(a) \cup Range(b)
    BY <1>6, <2>1
  <2>5. Range(a) \subseteq Range(L) /\ Range(b) \subseteq Range(L)
    BY <1>6, <2>2, <2>3
  <2> QED
    BY <2>4, <2>5
<1>11. ASSUME NEW x \in 1 .. Len(L), NEW y \in 1 .. Len(L), x < y, (IsLong(L[x]) <=> IsLong(L[y]))
       PROVE  L[x] < L[y]
  <2>1. CASE x \in 1 .. Len(a) /\ L[x] = a[x] /\ y \in 1 .. Len(a) /\ L[y] = a[y]
    BY <2>1, <1>1, <1>11 DEF InOrder
  <2>2. CASE /\ x - Len(a) \in 1 .. Len(b) /\ L[x] = b[x - Len(a)]
             /\ y - Len(a) \in 1 .. Len(b) /\ L[y] = b[y - Len(a)]
    <3>1. x - Len(a) < y - Len(a)
      BY <1>4, <1>5, <1>11
    <3> QED
      BY <2>2, <3>1, <1>1 DEF InOrder
  <2>3. CASE x \in 1 .. Len(a) /\ L[x] = a[x] /\ y - Len(a) \in 1 .. Len(b) /\ L[y] = b[y - Len(a)]
    <3>1. L[x] \in Range(a) /\ L[y] \in Range(b)
      BY <2>3, <1>6
    <3> QED
      BY <3>1, <1>1, <1>11
  <2>4. CASE ~ (x <= Len(a)) /\ y \in 1 .. Len(a)
    BY <2>4, <1>4, <1>5, <1>11
  <2> QED
    BY <1>7, <2>1, <2>2, <2>3, <2>4
<1> QED
  BY <1>2, <1>4, <1>10, <1>11

\* The units of each kind.
LEMMA UnitKinds ==
    /\ 1 .. J = {j \in Unit : ~ (j > J)} /\ J + 1 .. J + K = {j \in Unit : j > J}
    /\ Unit \ (1 .. J) = J + 1 .. J + K /\ Unit \ (J + 1 .. J + K) = 1 .. J
    /\ IsFiniteSet(1 .. J) /\ Cardinality(1 .. J) = J
    /\ IsFiniteSet(J + 1 .. J + K) /\ Cardinality(J + 1 .. J + K) = K
<1>1. J \in Nat \ {0} /\ K \in Nat \ {0}
  BY P3Sizes
<1>2. 1 .. J = {j \in Unit : ~ (j > J)} /\ J + 1 .. J + K = {j \in Unit : j > J}
  BY <1>1 DEF Unit
<1>3. Unit \ (1 .. J) = J + 1 .. J + K /\ Unit \ (J + 1 .. J + K) = 1 .. J
  BY <1>2
<1>4. IsFiniteSet(1 .. J) /\ Cardinality(1 .. J) = J
  <2>1. 1 \in Int /\ J \in Int
    BY <1>1
  <2>2. IsFiniteSet(1 .. J) /\ Cardinality(1 .. J) = IF 1 > J THEN 0 ELSE J - 1 + 1
    BY <2>1, FS_Interval
  <2> QED
    BY <2>2, <1>1
<1>5. IsFiniteSet(J + 1 .. J + K) /\ Cardinality(J + 1 .. J + K) = K
  <2> DEFINE a == J + 1
             b == J + K
  <2>1. a \in Int /\ b \in Int /\ ~ (a > b) /\ b - a + 1 = K
    BY <1>1
  <2> HIDE DEF a, b
  <2>2. IsFiniteSet(a .. b) /\ Cardinality(a .. b) = IF a > b THEN 0 ELSE b - a + 1
    BY <2>1, FS_Interval
  <2> QED
    BY <2>1, <2>2 DEF a, b
<1> QED
  BY <1>2, <1>3, <1>4, <1>5

\* Units hold what is fired.
LEMMA FireTyped == \A units \in PipelineSet, t \in Nat : Fire(units, t) \in PipelineSet
<1> SUFFICES ASSUME NEW units \in PipelineSet, NEW t \in Nat PROVE Fire(units, t) \in PipelineSet
  OBVIOUS
<1> DEFINE free == {j \in Unit : units[j][0] = NULL /\ (IsLong(t) <=> j > J)}
           m == Min(free)
<1>1. Fire(units, t) = units \/ (free # {} /\ Fire(units, t) = [units EXCEPT ![m][0] = t])
  BY DEF Fire
<1>2. free # {} => m \in Unit
  <2>1. free \in SUBSET Nat
    BY DEF Unit
  <2>2. free # {} => m \in free
    <3> HIDE DEF free
    <3> QED
      BY <2>1, MinWithin
  <2> QED
    BY <2>2
<1> HIDE DEF free, m
<1>3. free # {} => [units EXCEPT ![m][0] = t] \in PipelineSet
  BY <1>2 DEF PipelineSet
<1> QED
  BY <1>1, <1>3

\* The schedule queues have finitely many.
LEMMA ScheduleFinite == ASSUME P3Inv PROVE IsFiniteSet(InSchedule) /\ InSchedule \subseteq Nat
<1>1. IsFiniteSet(Range(long_schedule_queue)) /\ IsFiniteSet(Range(fast_schedule_queue))
  BY OnceEach DEF P3Inv, QueuesOrdered
<1>2. InSchedule \subseteq Nat
  BY QueuedKnown
<1> QED
  BY <1>1, <1>2, FS_Union DEF InSchedule

\* The loop fires the first ready ones of each kind.
LEMMA ScheduleFires ==
    ASSUME P3Inv, Schedule
    PROVE  /\ FU_pipeline' \in PipelineSet
           /\ \A j \in Unit : /\ FU_pipeline'[j][1] = FU_pipeline[j][1]
                              /\ FU_pipeline'[j][2] = FU_pipeline[j][2]
           /\ Filled(Entry(FU_pipeline'), 1 .. J, ReadyOnes(FALSE))
           /\ Filled(Entry(FU_pipeline'), J + 1 .. J + K, ReadyOnes(TRUE))
<1> DEFINE L == long_schedule_queue \o fast_schedule_queue
           n == Len(L)
           Taken(k, long) == {t \in {L[x] : x \in 1 .. k} : Ready(t) /\ (IsLong(t) <=> long)}
<1>1. /\ L \in Seq(Nat) /\ n \in Nat /\ Range(L) = InSchedule /\ InSchedule = {L[x] : x \in 1 .. n}
      /\ \A x, y \in 1 .. n : x < y /\ (IsLong(L[x]) <=> IsLong(L[y])) => L[x] < L[y]
  <2>1. /\ L \in Seq(Nat) /\ Range(L) = InSchedule
        /\ \A x, y \in 1 .. n : x < y /\ (IsLong(L[x]) <=> IsLong(L[y])) => L[x] < L[y]
    BY ScheduleOrder
  <2> HIDE DEF L
  <2>2. Range(L) = {L[x] : x \in 1 .. n} /\ n \in Nat
    BY <2>1, RangeIs
  <2> QED
    BY <2>1, <2>2
<1>2. FU_pipeline' = AllFired(FU_pipeline, L)
  BY DEF Schedule, AllFired
<1>3. FU_pipeline \in PipelineSet
  <2>1. FU_pipeline \in [Unit -> [Slot -> fired \cup {NULL}]] /\ fired \subseteq Nat
    BY QueuedKnown DEF P3Inv, FiredOnce
  <2> QED
    BY <2>1 DEF PipelineSet
<1>4. \A j \in Unit : FU_pipeline[j][0] = NULL
  BY DEF Schedule, P3Inv, FiredOnce
<1> HIDE DEF L
<1>5. PICK v : /\ v[0] = FU_pipeline
               /\ v[n] = AllFired(FU_pipeline, L)
               /\ \A k \in 0 .. n - 1 : v[k + 1] = Fire(v[k], L[k + 1])
  BY <1>1, <1>3, FireTyped, FireSteps
<1> HIDE DEF n
<1> DEFINE Others(units) == \A j \in Unit : /\ units[j][1] = FU_pipeline[j][1]
                                            /\ units[j][2] = FU_pipeline[j][2]
           Good == {k \in 0 .. n : /\ v[k] \in PipelineSet /\ Others(v[k])
                                   /\ Filled(Entry(v[k]), 1 .. J, Taken(k, FALSE))
                                   /\ Filled(Entry(v[k]), J + 1 .. J + K, Taken(k, TRUE))}
<1>6. 0 \in Good
  <2>1. Taken(0, FALSE) = {} /\ Taken(0, TRUE) = {}
    OBVIOUS
  <2>2. \A j \in Unit : Entry(FU_pipeline)[j] = NULL
    BY <1>4 DEF Entry
  <2>3. (\A j \in 1 .. J : Entry(FU_pipeline)[j] = NULL)
        /\ (\A j \in J + 1 .. J + K : Entry(FU_pipeline)[j] = NULL)
    BY <2>2, P3Sizes
  <2>4. Filled(Entry(FU_pipeline), 1 .. J, {}) /\ Filled(Entry(FU_pipeline), J + 1 .. J + K, {})
    BY <2>3, NoneFired
  <2>5. 0 \in 0 .. n /\ v[0] \in PipelineSet /\ Others(v[0])
    BY <1>1, <1>3, <1>5
  <2> HIDE DEF Taken, Others
  <2> QED
    BY <1>5, <2>1, <2>4, <2>5
<1>7. ASSUME NEW k \in 0 .. n - 1, k \in Good PROVE k + 1 \in Good
  <2> DEFINE t == L[k + 1]
  <2>1. k + 1 \in 1 .. n /\ k + 1 \in 0 .. n /\ k \in Nat /\ t \in Nat
    BY <1>1 DEF n
  <2>2. v[k + 1] = Fire(v[k], t)
    BY <1>5
  <2>3. /\ v[k] \in PipelineSet /\ Others(v[k])
        /\ Filled(Entry(v[k]), 1 .. J, Taken(k, FALSE))
        /\ Filled(Entry(v[k]), J + 1 .. J + K, Taken(k, TRUE))
    BY <1>7
  <2>4. {L[x] : x \in 1 .. k + 1} = {L[x] : x \in 1 .. k} \cup {t}
    <3>1. \A x \in 1 .. k + 1 : x \in 1 .. k \/ x = k + 1
      BY <2>1
    <3>2. (\A x \in 1 .. k : x \in 1 .. k + 1) /\ k + 1 \in 1 .. k + 1
      BY <2>1
    <3> QED
      BY <3>1, <3>2
  <2>5. ASSUME NEW u \in Taken(k, IsLong(t)) PROVE u < t
    <3>1. PICK x \in 1 .. k : u = L[x]
      OBVIOUS
    <3>2. x \in 1 .. n /\ x < k + 1
      BY <2>1, <1>1
    <3> QED
      BY <1>1, <2>1, <3>1, <3>2
  <2>6. \A long : IsFiniteSet(Taken(k, long)) /\ Taken(k, long) \subseteq Nat
    <3>1. \A x \in 1 .. k : x \in 1 .. n
      BY <2>1, <1>1
    <3>2. \A long : Taken(k, long) \subseteq InSchedule
      BY <1>1, <3>1
    <3> HIDE DEF Taken
    <3> QED
      BY <3>2, ScheduleFinite, FS_Subset
  <2> HIDE DEF t
  <2>7. CASE ~Ready(t)
    <3>1. v[k + 1] = v[k]
      BY <2>2, <2>7, FireIdle
    <3>2. Taken(k + 1, FALSE) = Taken(k, FALSE) /\ Taken(k + 1, TRUE) = Taken(k, TRUE)
      BY <2>4, <2>7
    <3> HIDE DEF Taken, Others
    <3> QED
      BY <2>1, <2>3, <3>1, <3>2
  <2>8. CASE Ready(t) /\ IsLong(t)
    <3>1. Taken(k + 1, FALSE) = Taken(k, FALSE) /\ Taken(k + 1, TRUE) = Taken(k, TRUE) \cup {t}
      BY <2>4, <2>8
    <3>2. J + 1 .. J + K = {j \in Unit : IsLong(t) <=> j > J}
      BY <2>8, UnitKinds
    <3>3. \A u \in Taken(k, TRUE) : u < t
      BY <2>5, <2>8
    <3> HIDE DEF Taken, Others
    <3>4. /\ v[k + 1] \in PipelineSet
          /\ \A j \in Unit : v[k + 1][j][1] = v[k][j][1] /\ v[k + 1][j][2] = v[k][j][2]
          /\ Filled(Entry(v[k + 1]), J + 1 .. J + K, Taken(k, TRUE) \cup {t})
          /\ \A j \in 1 .. J : Entry(v[k + 1])[j] = Entry(v[k])[j]
      <4> DEFINE U == J + 1 .. J + K
                 R == Taken(k, TRUE)
                 units == v[k]
      <4>1. /\ U = {j \in Unit : IsLong(t) <=> j > J} /\ IsFiniteSet(U) /\ Unit \ U = 1 .. J
            /\ R \in SUBSET Nat /\ IsFiniteSet(R) /\ (\A u \in R : u < t)
            /\ units \in PipelineSet /\ Filled(Entry(units), U, R) /\ t \in Nat /\ Ready(t)
            /\ v[k + 1] = Fire(units, t)
        BY <2>1, <2>2, <2>3, <2>6, <2>8, <3>2, <3>3, UnitKinds
      <4> HIDE DEF U, R, units
      <4>2. Fires(units, Fire(units, t), U, R \cup {t})
        BY <4>1, FireOne
      <4>3. Fires(units, v[k + 1], U, R \cup {t})
        BY <4>1, <4>2
      <4> QED
        BY <4>1, <4>3 DEF U, R, units, Fires
    <3>5. Filled(Entry(v[k + 1]), 1 .. J, Taken(k, FALSE))
      BY <2>3, <3>4, FilledSame, ZenonT(30)
    <3>6. Others(v[k + 1])
      BY <2>3, <3>4 DEF Others
    <3> QED
      BY <2>1, <3>1, <3>4, <3>5, <3>6
  <2>9. CASE Ready(t) /\ ~IsLong(t)
    <3>1. Taken(k + 1, TRUE) = Taken(k, TRUE) /\ Taken(k + 1, FALSE) = Taken(k, FALSE) \cup {t}
      BY <2>4, <2>9
    <3>2. 1 .. J = {j \in Unit : IsLong(t) <=> j > J}
      BY <2>9, UnitKinds
    <3>3. \A u \in Taken(k, FALSE) : u < t
      BY <2>5, <2>9
    <3> HIDE DEF Taken, Others
    <3>4. /\ v[k + 1] \in PipelineSet
          /\ \A j \in Unit : v[k + 1][j][1] = v[k][j][1] /\ v[k + 1][j][2] = v[k][j][2]
          /\ Filled(Entry(v[k + 1]), 1 .. J, Taken(k, FALSE) \cup {t})
          /\ \A j \in J + 1 .. J + K : Entry(v[k + 1])[j] = Entry(v[k])[j]
      <4> DEFINE U == 1 .. J
                 R == Taken(k, FALSE)
                 units == v[k]
      <4>1. /\ U = {j \in Unit : IsLong(t) <=> j > J} /\ IsFiniteSet(U) /\ Unit \ U = J + 1 .. J + K
            /\ R \in SUBSET Nat /\ IsFiniteSet(R) /\ (\A u \in R : u < t)
            /\ units \in PipelineSet /\ Filled(Entry(units), U, R) /\ t \in Nat /\ Ready(t)
            /\ v[k + 1] = Fire(units, t)
        BY <2>1, <2>2, <2>3, <2>6, <2>9, <3>2, <3>3, UnitKinds
      <4> HIDE DEF U, R, units
      <4>2. Fires(units, Fire(units, t), U, R \cup {t})
        BY <4>1, FireOne
      <4>3. Fires(units, v[k + 1], U, R \cup {t})
        BY <4>1, <4>2
      <4> QED
        BY <4>1, <4>3 DEF U, R, units, Fires
    <3>5. Filled(Entry(v[k + 1]), J + 1 .. J + K, Taken(k, TRUE))
      BY <2>3, <3>4, FilledSame, ZenonT(30)
    <3>6. Others(v[k + 1])
      BY <2>3, <3>4 DEF Others
    <3> QED
      BY <2>1, <3>1, <3>4, <3>5, <3>6
  <2> QED
    BY <2>7, <2>8, <2>9
<1> HIDE DEF Good
<1>8. \A k \in 0 .. n : k \in Good
  BY <1>1, <1>6, <1>7, CountUp
<1>9. n \in Good
  BY <1>1, <1>8
<1>10. Taken(n, FALSE) = ReadyOnes(FALSE) /\ Taken(n, TRUE) = ReadyOnes(TRUE)
  BY <1>1 DEF ReadyOnes
<1> HIDE DEF Taken
<1> QED
  BY <1>2, <1>5, <1>9, <1>10 DEF Good

\* What is fired was ready, and it is in a unit of its kind.
LEMMA FiredWereReady ==
    ASSUME P3Inv, Schedule, NEW j \in Unit, FU_pipeline'[j][0] # NULL
    PROVE  /\ FU_pipeline'[j][0] \in InSchedule \ fired
           /\ IsLong(FU_pipeline'[j][0]) <=> j > J
<1> DEFINE b == Entry(FU_pipeline')
<1>1. b[j] = FU_pipeline'[j][0]
  BY DEF Entry
<1>2. \A n, R : P4!First(n, R) \subseteq R
  BY DEF P4!First
<1> HIDE DEF b
<1>3. CASE j \in 1 .. J
  <2>1. {b[k] : k \in 1 .. J} \ {NULL} \subseteq ReadyOnes(FALSE)
    BY ScheduleFires, <1>2 DEF Filled, b
  <2>2. b[j] \in ReadyOnes(FALSE)
    BY <1>1, <1>3, <2>1
  <2>3. ~ (j > J)
    BY <1>3, UnitKinds
  <2> QED
    BY <1>1, <2>2, <2>3 DEF ReadyOnes, Ready
<1>4. CASE j \in J + 1 .. J + K
  <2>1. {b[k] : k \in J + 1 .. J + K} \ {NULL} \subseteq ReadyOnes(TRUE)
    BY ScheduleFires, <1>2 DEF Filled, b
  <2>2. b[j] \in ReadyOnes(TRUE)
    BY <1>1, <1>4, <2>1
  <2>3. j > J
    BY <1>4, UnitKinds
  <2> QED
    BY <1>1, <2>2, <2>3 DEF ReadyOnes, Ready
<1> QED
  BY <1>3, <1>4, P3Sizes

\* Each is fired into one unit.
LEMMA FiredApart ==
    ASSUME P3Inv, Schedule, NEW j \in Unit, NEW k \in Unit,
           FU_pipeline'[j][0] = FU_pipeline'[k][0], FU_pipeline'[j][0] # NULL
    PROVE  j = k
<1> DEFINE b == Entry(FU_pipeline')
<1>1. b[j] = b[k] /\ b[j] # NULL
  BY DEF Entry
<1>2. j > J <=> k > J
  BY FiredWereReady
<1> HIDE DEF b
<1>3. CASE j > J
  <2>1. j \in J + 1 .. J + K /\ k \in J + 1 .. J + K
    BY <1>2, <1>3, UnitKinds
  <2>2. \A x, y \in J + 1 .. J + K : b[x] = b[y] /\ b[x] # NULL => x = y
    BY ScheduleFires DEF Filled, b
  <2> QED
    BY <1>1, <2>1, <2>2
<1>4. CASE ~ (j > J)
  <2>1. j \in 1 .. J /\ k \in 1 .. J
    BY <1>2, <1>4, UnitKinds
  <2>2. \A x, y \in 1 .. J : b[x] = b[y] /\ b[x] # NULL => x = y
    BY ScheduleFires DEF Filled, b
  <2> QED
    BY <1>1, <2>1, <2>2
<1> QED
  BY <1>3, <1>4

\* Schedule keeps the invariant.
LEMMA ScheduleKeeps == ASSUME P3Inv, Schedule PROVE P3Inv'
<1>1. /\ InSchedule' = InSchedule /\ completed' = completed /\ stage' = "dispatch"
      /\ state_update_queue' = state_update_queue
  BY SeenUnchanged DEF Schedule, Goto, p3Queues
<1>2. OperationsKnown'
  BY DEF Schedule, P3Inv, OperationsKnown
<1>3. QueuesOrdered'
  BY <1>1 DEF Schedule, P3Inv, QueuesOrdered, IsLong, p3Queues
<1>4. FiredOnce'
  <2> DEFINE new == {FU_pipeline'[j][0] : j \in Unit} \ {NULL}
  <2>1. Slot = {0, 1, 2}
    BY DEF Slot
  <2>2. fired' = fired \cup new
    BY DEF Schedule
  <2>3. new \subseteq InSchedule /\ new \cap fired = {}
    BY FiredWereReady
  <2>4. FU_pipeline \in [Unit -> [Slot -> fired \cup {NULL}]] /\ fired \subseteq InSchedule
    BY DEF P3Inv, FiredOnce
  <2>5. ASSUME NEW j \in Unit, NEW s \in Slot
        PROVE  /\ s # 0 => FU_pipeline'[j][s] = FU_pipeline[j][s]
               /\ FU_pipeline'[j][s] \in fired' \cup {NULL}
               /\ s = 0 /\ FU_pipeline'[j][s] # NULL => FU_pipeline'[j][s] \notin fired
               /\ s # 0 /\ FU_pipeline'[j][s] # NULL => FU_pipeline'[j][s] \in fired
               /\ FU_pipeline'[j][s] \in new \cup InUnits \cup {NULL}
    <3>1. CASE s = 0
      <4>1. FU_pipeline'[j][s] \in new \cup {NULL}
        BY <3>1
      <4> HIDE DEF new
      <4> QED
        BY <3>1, <4>1, <2>2, <2>3
    <3>2. CASE s # 0
      <4>1. FU_pipeline'[j][s] = FU_pipeline[j][s]
        BY <2>1, <3>2, ScheduleFires
      <4>2. FU_pipeline[j][s] \in fired \cup {NULL} /\ FU_pipeline[j][s] \in InUnits \cup {NULL}
        BY <2>4 DEF InUnits
      <4> HIDE DEF new
      <4> QED
        BY <3>2, <4>1, <4>2, <2>2
    <3> QED
      BY <3>1, <3>2
  <2>6. FU_pipeline' \in [Unit -> [Slot -> fired' \cup {NULL}]]
    <3>1. FU_pipeline' \in [Unit -> [Slot -> Nat \cup {NULL}]]
      BY ScheduleFires DEF PipelineSet
    <3>2. \A j \in Unit, s \in Slot : FU_pipeline'[j][s] \in fired' \cup {NULL}
      BY <2>5
    <3> QED
      BY <3>1, <3>2
  <2>7. ASSUME NEW j \in Unit, NEW k \in Unit, NEW r \in Slot, NEW s \in Slot,
               FU_pipeline'[j][r] = FU_pipeline'[k][s], FU_pipeline'[j][r] # NULL
        PROVE  j = k /\ r = s
    <3>1. r = 0 <=> s = 0
      BY <2>5, <2>7
    <3>2. CASE r = 0
      BY <3>1, <3>2, <2>7, FiredApart
    <3>3. CASE r # 0
      <4>1. FU_pipeline[j][r] = FU_pipeline[k][s] /\ FU_pipeline[j][r] # NULL
        BY <3>1, <3>3, <2>5, <2>7
      <4> QED
        BY <4>1 DEF P3Inv, FiredOnce
    <3> QED
      BY <3>2, <3>3
  <2>8. InUnits' \subseteq new \cup InUnits
    <3> HIDE DEF new
    <3>1. \A j \in Unit, s \in Slot : FU_pipeline'[j][s] \in new \cup InUnits \cup {NULL}
      BY <2>5
    <3>2. InUnits' = {FU_pipeline'[j][s] : j \in Unit, s \in Slot} \ {NULL}
      BY DEF InUnits
    <3> QED
      BY <3>1, <3>2
  <2>9. \A j \in 1 .. J : FU_pipeline'[j][1] = NULL /\ FU_pipeline'[j][2] = NULL
    BY ScheduleFires, P3Sizes DEF P3Inv, FiredOnce
  <2> HIDE DEF new
  <2>10. InUnits' \cap (Range(state_update_queue) \cup Range(completed)) = {}
    BY <2>3, <2>8 DEF P3Inv, FiredOnce
  <2>11. fired' \subseteq InSchedule
    BY <2>2, <2>3, <2>4
  <2>12. Range(state_update_queue) \subseteq fired' /\ Range(completed) \subseteq fired'
    BY <2>2 DEF P3Inv, FiredOnce
  <2>13. \A j, k \in Unit, r, s \in Slot :
           FU_pipeline'[j][r] = FU_pipeline'[k][s] /\ FU_pipeline'[j][r] # NULL => j = k /\ r = s
    BY <2>7
  <2> QED
    BY <1>1, <2>6, <2>9, <2>10, <2>11, <2>12, <2>13 DEF P3Inv, FiredOnce
<1>5. DispatchBounded'
  BY DEF Schedule, p3Queues, P3Inv, DispatchBounded
<1>6. FiredSomewhere'
  <2> DEFINE new == {FU_pipeline'[j][0] : j \in Unit} \ {NULL}
  <2>1. Slot = {0, 1, 2}
    BY DEF Slot
  <2>2. fired' = fired \cup new
    BY DEF Schedule
  <2>3. new \subseteq InUnits'
    BY <2>1 DEF InUnits
  <2>4. InUnits \subseteq InUnits'
    <3> SUFFICES ASSUME NEW j \in Unit, NEW s \in Slot, FU_pipeline[j][s] # NULL
                 PROVE  FU_pipeline[j][s] \in InUnits'
      BY DEF InUnits
    <3>1. s # 0
      BY DEF Schedule, P3Inv, FiredOnce
    <3>2. FU_pipeline'[j][s] = FU_pipeline[j][s]
      BY <2>1, <3>1, ScheduleFires
    <3> QED
      BY <3>2 DEF InUnits
  <2> HIDE DEF new
  <2> QED
    BY <1>1, <2>2, <2>3, <2>4 DEF P3Inv, FiredSomewhere
<1> QED
  BY <1>2, <1>3, <1>4, <1>5, <1>6 DEF P3Inv

\* Those that ProcessorP4 finds ready.
LEMMA ReadyIs ==
    ASSUME P3Inv
    PROVE  P4!ReadyFast = ReadyOnes(FALSE) /\ P4!ReadyLong = ReadyOnes(TRUE)
<1>1. ASSUME NEW t \in InSchedule
      PROVE  /\ P4!Independent(t) <=> Ready(t)
             /\ P4!IsLong(t) <=> IsLong(t)
             /\ ~P4!IsMem(t)
  <2>1. t \in DOMAIN instr /\ t \in DOMAIN src_arr
    BY QueuedKnown DEF P3Inv, OperationsKnown
  <2>2. (P4!IsLong(t) <=> IsLong(t)) /\ ~P4!IsMem(t)
    BY <2>1, SeenIs DEF P3Inv
  <2>3. WaitsFor[t] = Range(src_arr[t]) \ {NULL}
    BY <2>1 DEF WaitsFor
  <2>4. Range(src_arr[t]) # {}
    <3>1. src_arr[t] \in [1 .. 2 -> Nat \cup {NULL}]
      BY <2>1 DEF P3Inv, OperationsKnown
    <3>2. src_arr[t][1] \in Range(src_arr[t])
      BY <3>1 DEF Range
    <3> QED
      BY <3>2
  <2>5. Range(src_arr[t]) = {NULL} <=> WaitsFor[t] = {}
    BY <2>3, <2>4
  <2> QED
    BY <2>2, <2>5 DEF P4!Independent, Ready
<1>2. P4!LongQueue = {t \in InSchedule : IsLong(t)}
  BY <1>1 DEF P4!LongQueue
<1>3. P4!FastQueue = {t \in InSchedule : ~IsLong(t)}
  BY <1>2 DEF P4!FastQueue
<1>4. P4!ReadyLong = ReadyOnes(TRUE)
  BY <1>1, <1>2 DEF P4!ReadyLong, ReadyOnes
<1>5. P4!ReadyFast = ReadyOnes(FALSE)
  <2>1. {t \in P4!FastQueue : P4!Independent(t) /\ P4!IsMem(t)} = {}
    BY <1>1, <1>3
  <2>2. {t \in P4!FastQueue : P4!Independent(t) /\ ~P4!IsMem(t)} = ReadyOnes(FALSE)
    BY <1>1, <1>3 DEF ReadyOnes
  <2>3. P4!First(1, {}) = {}
    BY FirstOfNone
  <2> QED
    BY <2>1, <2>2, <2>3 DEF P4!ReadyFast
<1> QED
  BY <1>4, <1>5

\* Schedule does what ProcessorP4 says.
LEMMA ScheduleImplements == ASSUME P3Inv, Schedule PROVE P4!Schedule
<1> DEFINE toFast == P4!First(J - P4!Cardinality(InFast), P4!ReadyFast)
           toLong == P4!First(K - P4!Cardinality(InLong[0]), P4!ReadyLong)
           b == Entry(FU_pipeline')
<1>1. Slot = {0, 1, 2} /\ P4!Slot = Slot
  BY DEF Slot, P4!Slot
<1>2. \A j \in Unit : FU_pipeline[j][0] = NULL
  BY DEF Schedule, P3Inv, FiredOnce
<1>3. InFast = {} /\ InLong[0] = {}
  <2>1. InLong[0] = {FU_pipeline[j][0] : j \in J + 1 .. J + K} \ {NULL}
    BY <1>1 DEF InLong
  <2> QED
    BY <1>2, <2>1, P3Sizes DEF InFast
<1>4. toFast = P4!First(J, ReadyOnes(FALSE)) /\ toLong = P4!First(K, ReadyOnes(TRUE))
  <2>1. P4!Cardinality(InFast) = 0 /\ P4!Cardinality(InLong[0]) = 0
    BY <1>3, SameCardinality, FS_EmptySet
  <2>2. J - 0 = J /\ K - 0 = K
    BY P3Sizes
  <2> QED
    BY <2>1, <2>2, ReadyIs
<1>5. /\ {b[j] : j \in 1 .. J} \ {NULL} = P4!First(J, ReadyOnes(FALSE))
      /\ {b[j] : j \in J + 1 .. J + K} \ {NULL} = P4!First(K, ReadyOnes(TRUE))
  BY ScheduleFires, UnitKinds DEF Filled
<1>6. \A j \in Unit : b[j] = FU_pipeline'[j][0]
  BY DEF Entry
<1> HIDE DEF toFast, toLong, b
<1>7. InFast' = InFast \cup toFast
  <2>1. InFast' = {FU_pipeline'[j][0] : j \in 1 .. J} \ {NULL}
    BY DEF InFast
  <2>2. \A j \in 1 .. J : b[j] = FU_pipeline'[j][0]
    BY <1>6, P3Sizes
  <2> QED
    BY <1>3, <1>4, <1>5, <2>1, <2>2
<1>8. InLong'[0] = toLong
  <2>1. InLong'[0] = {FU_pipeline'[j][0] : j \in J + 1 .. J + K} \ {NULL}
    BY <1>1 DEF InLong
  <2>2. \A j \in J + 1 .. J + K : b[j] = FU_pipeline'[j][0]
    BY <1>6, P3Sizes
  <2> QED
    BY <1>4, <1>5, <2>1, <2>2
<1>9. InLong' = [InLong EXCEPT ![0] = @ \cup toLong]
  <2>1. InLong'[1] = InLong[1] /\ InLong'[2] = InLong[2]
    <3>1. \A j \in J + 1 .. J + K :
             FU_pipeline'[j][1] = FU_pipeline[j][1] /\ FU_pipeline'[j][2] = FU_pipeline[j][2]
      BY ScheduleFires, P3Sizes
    <3>2. /\ {FU_pipeline'[j][1] : j \in J + 1 .. J + K} = {FU_pipeline[j][1] : j \in J + 1 .. J + K}
          /\ {FU_pipeline'[j][2] : j \in J + 1 .. J + K} = {FU_pipeline[j][2] : j \in J + 1 .. J + K}
      BY <3>1
    <3> QED
      BY <1>1, <3>2 DEF InLong
  <2>2. InLong' = [s \in Slot |-> InLong'[s]] /\ InLong = [s \in Slot |-> InLong[s]]
    BY DEF InLong
  <2>3. \A s \in Slot : InLong'[s] = IF s = 0 THEN InLong[0] \cup toLong ELSE InLong[s]
    BY <1>1, <1>3, <1>8, <2>1
  <2> HIDE DEF InLong
  <2> QED
    BY <2>2, <2>3
<1>10. {FU_pipeline'[j][0] : j \in Unit} \ {NULL} = toFast \cup toLong
  <2>1. toFast = {b[j] : j \in 1 .. J} \ {NULL} /\ toLong = {b[j] : j \in J + 1 .. J + K} \ {NULL}
    BY <1>4, <1>5
  <2>2. {b[j] : j \in Unit} = {b[j] : j \in 1 .. J} \cup {b[j] : j \in J + 1 .. J + K}
    BY P3Sizes
  <2>3. {FU_pipeline'[j][0] : j \in Unit} = {b[j] : j \in Unit}
    BY <1>6
  <2> QED
    BY <2>1, <2>2, <2>3
<1>11. fired' = fired \cup toFast \cup toLong
  BY <1>10 DEF Schedule
<1>12. FU_pipeline' # FU_pipeline <=> toFast \cup toLong # {}
  <2>1. ASSUME toFast \cup toLong # {} PROVE FU_pipeline' # FU_pipeline
    <3>1. PICK j \in Unit : FU_pipeline'[j][0] # NULL
      BY <1>10, <2>1
    <3> QED
      BY <3>1, <1>2
  <2>2. ASSUME toFast \cup toLong = {} PROVE FU_pipeline' = FU_pipeline
    <3>1. \A j \in Unit : FU_pipeline'[j][0] = NULL
      BY <1>10, <2>2
    <3>2. \A j \in Unit, s \in Slot : FU_pipeline'[j][s] = FU_pipeline[j][s]
      BY <1>1, <1>2, <3>1, ScheduleFires
    <3>3. FU_pipeline' \in [Unit -> [Slot -> Nat \cup {NULL}]]
      BY ScheduleFires DEF PipelineSet
    <3>4. FU_pipeline \in [Unit -> [Slot -> fired \cup {NULL}]]
      BY DEF P3Inv, FiredOnce
    <3> QED
      BY <3>2, <3>3, <3>4
  <2> QED
    BY <2>1, <2>2
<1>13. P4!Goto("dispatch", toFast \cup toLong # {})
  BY <1>12 DEF Schedule, Goto, P4!Goto
<1> DEFINE none == [p \in Proc |-> NULL]
           access == {t \in toFast : P4!IsMem(t)}
<1>14. access = {}
  <2>1. toFast \subseteq ReadyOnes(FALSE)
    BY <1>4 DEF P4!First
  <2>2. \A t \in toFast : t \in DOMAIN instr
    BY <2>1, QueuedKnown DEF ReadyOnes
  <2>3. \A t \in toFast : ~P4!IsMem(t)
    BY <2>2, SeenIs DEF P3Inv
  <2> QED
    BY <2>3
<1>15. none = [none EXCEPT ![i] = IF access = {} THEN @ ELSE P4!Max(access)] /\ {} = {} \cup access
  BY <1>14
<1> HIDE DEF none, access
<1>16. P4!Schedule <=>
         /\ stage = "schedule"
         /\ InFast' = InFast \cup toFast
         /\ InLong' = [InLong EXCEPT ![0] = @ \cup toLong]
         /\ fired' = fired \cup toFast \cup toLong
         /\ none = [none EXCEPT ![i] = IF access = {} THEN @ ELSE P4!Max(access)]
         /\ {} = {} \cup access
         /\ P4!Goto("dispatch", toFast \cup toLong # {})
         /\ UNCHANGED <<opsLeft, counter, SeenInstr, WaitsFor, P4!queueVars, OnBuses,
                        Range(completed), regs, [p \in Proc |-> FALSE], i, f>>
  BY DEF P4!Schedule, none, access, toFast, toLong
<1>17. UNCHANGED <<opsLeft, counter, SeenInstr, WaitsFor, P4!queueVars, OnBuses,
                   Range(completed), regs, [p \in Proc |-> FALSE], i, f>>
  BY SeenUnchanged DEF Schedule, P4!queueVars, p3Queues
<1> QED
  BY <1>7, <1>9, <1>11, <1>13, <1>15, <1>16, <1>17 DEF Schedule

-----------------------------------------------------------------------------
(* Retire: completed operations leave the schedule queues.                 *)

\* Deleting several leaves the others, in order.
LEMMA DeletedAll ==
    ASSUME NEW q, IsQueue(q), NEW s \in Seq(Nat)
    PROVE  /\ IsQueue(AllDeleted(q, s))
           /\ Range(AllDeleted(q, s)) = Range(q) \ Range(s)
           /\ Len(AllDeleted(q, s)) <= Len(q)
<1> DEFINE n == Len(s)
           Gone(k) == {s[x] : x \in 1 .. k}
<1>1. q \in Seq(Nat) /\ n \in Nat /\ Range(s) = Gone(n) /\ \A x \in 1 .. n : s[x] \in Nat
  BY RangeIs DEF IsQueue
<1>2. \A x \in Seq(Nat), t \in Nat : queue_delete(x, t) \in Seq(Nat)
  BY DeleteKeeps
<1>3. PICK v : /\ v[0] = q
               /\ v[n] = AllDeleted(q, s)
               /\ \A k \in 0 .. n - 1 : v[k + 1] = queue_delete(v[k], s[k + 1])
  BY <1>1, <1>2, DeleteSteps
<1> DEFINE Good == {k \in 0 .. n : IsQueue(v[k]) /\ Range(v[k]) = Range(q) \ Gone(k)}
<1> HIDE DEF n
<1>4. 0 \in Good
  <2>1. Gone(0) = {}
    OBVIOUS
  <2> HIDE DEF Gone
  <2> QED
    BY <2>1, <1>1, <1>3
<1>5. ASSUME NEW k \in 0 .. n - 1, k \in Good PROVE k + 1 \in Good
  <2> DEFINE t == s[k + 1]
  <2>1. k + 1 \in 1 .. n /\ k + 1 \in 0 .. n /\ k \in Nat
    BY <1>1
  <2>2. t \in Nat
    BY <1>1, <2>1
  <2>3. Gone(k + 1) = Gone(k) \cup {t}
    <3>1. \A x \in 1 .. k + 1 : x \in 1 .. k \/ x = k + 1
      BY <2>1
    <3>2. (\A x \in 1 .. k : x \in 1 .. k + 1) /\ k + 1 \in 1 .. k + 1
      BY <2>1
    <3> QED
      BY <3>1, <3>2
  <2>4. v[k + 1] = queue_delete(v[k], t)
    BY <1>3
  <2>5. IsQueue(v[k]) /\ Range(v[k]) = Range(q) \ Gone(k)
    BY <1>5
  <2> HIDE DEF t
  <2>6. IsQueue(v[k + 1]) /\ Range(v[k + 1]) = Range(v[k]) \ {t}
    BY <2>2, <2>4, <2>5, DeleteKeeps DEF IsQueue
  <2> HIDE DEF Gone
  <2>7. Range(v[k + 1]) = Range(q) \ Gone(k + 1)
    BY <2>3, <2>5, <2>6
  <2> QED
    BY <2>1, <2>6, <2>7
<1> HIDE DEF Good
<1>6. \A k \in 0 .. n : k \in Good
  BY <1>1, <1>4, <1>5, CountUp
<1>7. n \in Good
  BY <1>1, <1>6
<1> HIDE DEF Gone
<1>8. IsQueue(v[n]) /\ Range(v[n]) = Range(q) \ Range(s)
  BY <1>1, <1>7 DEF Good
<1>9. Len(v[n]) <= Len(q)
  <2>1. /\ IsFiniteSet(Range(q)) /\ Cardinality(Range(q)) = Len(q)
        /\ Cardinality(Range(v[n])) = Len(v[n])
    BY <1>8, OnceEach
  <2>2. Range(v[n]) \subseteq Range(q)
    BY <1>8
  <2>3. Cardinality(Range(v[n])) <= Cardinality(Range(q))
    BY <2>1, <2>2, FS_Subset
  <2> QED
    BY <2>1, <2>3
<1> QED
  BY <1>3, <1>8, <1>9

\* What is left when the completed ones are gone.
LEMMA CompletedGone ==
    ASSUME P3Inv, Retire
    PROVE  /\ IsQueue(long_schedule_queue)' /\ IsQueue(fast_schedule_queue)'
           /\ Range(long_schedule_queue)' = Range(long_schedule_queue) \ Range(completed)
           /\ Range(fast_schedule_queue)' = Range(fast_schedule_queue) \ Range(completed)
           /\ Len(long_schedule_queue)' <= M * K /\ Len(fast_schedule_queue)' <= M * J
           /\ InSchedule' = InSchedule \ Range(completed)
           /\ DOMAIN instr' = DOMAIN instr \ Range(completed)
           /\ \A t \in DOMAIN instr' : instr'[t] = instr[t] /\ src_arr'[t] = src_arr[t]
           /\ completed' = <<>> /\ Range(completed)' = {}
<1>1. completed \in Seq(Nat) /\ IsQueue(long_schedule_queue) /\ IsQueue(fast_schedule_queue)
  BY DEF P3Inv, QueuesOrdered, FiredOnce, IsQueue
<1>2. long_schedule_queue' = AllDeleted(long_schedule_queue, completed)
      /\ fast_schedule_queue' = AllDeleted(fast_schedule_queue, completed)
  BY DEF Retire, AllDeleted
<1>3. /\ IsQueue(long_schedule_queue)' /\ IsQueue(fast_schedule_queue)'
      /\ Range(long_schedule_queue)' = Range(long_schedule_queue) \ Range(completed)
      /\ Range(fast_schedule_queue)' = Range(fast_schedule_queue) \ Range(completed)
      /\ Len(long_schedule_queue') <= Len(long_schedule_queue)
      /\ Len(fast_schedule_queue') <= Len(fast_schedule_queue)
  BY <1>1, <1>2, DeletedAll
<1>4. Len(long_schedule_queue)' <= M * K /\ Len(fast_schedule_queue)' <= M * J
  <2> DEFINE mk == M * K
             mj == M * J
  <2>1. mk \in Nat /\ mj \in Nat
    BY P3Sizes
  <2>2. Len(long_schedule_queue) <= mk /\ Len(fast_schedule_queue) <= mj
    BY DEF P3Inv, QueuesOrdered
  <2> HIDE DEF mk, mj
  <2>3. Len(long_schedule_queue) \in Nat /\ Len(fast_schedule_queue) \in Nat
        /\ Len(long_schedule_queue') \in Nat /\ Len(fast_schedule_queue') \in Nat
    BY <1>1, <1>3 DEF IsQueue
  <2>4. Len(long_schedule_queue') <= mk /\ Len(fast_schedule_queue') <= mj
    BY <1>3, <2>1, <2>2, <2>3
  <2> QED
    BY <2>4 DEF mk, mj
<1>5. InSchedule' = InSchedule \ Range(completed)
  BY <1>3 DEF InSchedule
<1>6. DOMAIN instr' = DOMAIN instr \ Range(completed)
      /\ \A t \in DOMAIN instr' : instr'[t] = instr[t] /\ src_arr'[t] = src_arr[t]
  BY DEF Retire
<1>7. completed' = <<>> /\ Range(completed)' = {}
  BY NoneQueued DEF Retire
<1> QED
  BY <1>3, <1>4, <1>5, <1>6, <1>7

\* Retire keeps the invariant.
LEMMA RetireKeeps == ASSUME P3Inv, Retire PROVE P3Inv'
<1>1. /\ dispatch_queue' = dispatch_queue /\ state_update_queue' = state_update_queue
      /\ FU_pipeline' = FU_pipeline /\ fired' = fired \ Range(completed)
      /\ stage' \in {"update", "clock", "end"} /\ counter' = counter /\ regs' = regs
      /\ InUnits' = InUnits
  BY SeenUnchanged DEF Retire
<1>2. Range(completed) \subseteq fired /\ fired \subseteq InSchedule
  BY DEF P3Inv, FiredOnce
<1>3. OperationsKnown'
  <2>1. i' \in Proc
    <3>1. processorCount \in Nat \ {0} /\ i \in 1 .. processorCount
      BY P3Sizes DEF P3Inv, OperationsKnown, Proc
    <3>2. i' = IF i < processorCount THEN i + 1 ELSE 1
      BY DEF Retire
    <3> QED
      BY <3>1, <3>2 DEF Proc
  <2>2. DOMAIN instr' \subseteq 1 .. counter' - 1 /\ counter' \in Nat \ {0}
    BY <1>1, CompletedGone DEF P3Inv, OperationsKnown
  <2>3. instr' \in [DOMAIN instr' -> {o \in Ops : o.op \in {"ALU", "ALU_LONG"}}]
    <3>1. instr' = [t \in DOMAIN instr' |-> instr'[t]]
      BY DEF Retire
    <3>2. \A t \in DOMAIN instr' : instr'[t] \in {o \in Ops : o.op \in {"ALU", "ALU_LONG"}}
      BY CompletedGone DEF P3Inv, OperationsKnown
    <3> QED
      BY <3>1, <3>2
  <2>4. src_arr' \in [DOMAIN instr' -> [1 .. 2 -> Nat \cup {NULL}]]
    <3>1. src_arr' = [t \in DOMAIN instr' |-> src_arr'[t]]
      BY DEF Retire
    <3>2. \A t \in DOMAIN instr' : src_arr'[t] \in [1 .. 2 -> Nat \cup {NULL}]
      BY CompletedGone DEF P3Inv, OperationsKnown
    <3> QED
      BY <3>1, <3>2
  <2> QED
    BY <1>1, <2>1, <2>2, <2>3, <2>4 DEF P3Inv, OperationsKnown
<1>4. QueuesOrdered'
  <2>1. \A t \in DOMAIN instr' : IsLong(t)' <=> IsLong(t)
    BY CompletedGone DEF IsLong
  <2>2. DOMAIN instr' = Range(dispatch_queue)' \cup InSchedule'
        /\ Range(dispatch_queue)' \cap InSchedule' = {}
    BY <1>1, <1>2, CompletedGone DEF P3Inv, QueuesOrdered
  <2>3. \A t \in Range(long_schedule_queue)' : t \in Range(long_schedule_queue) /\ t \in DOMAIN instr'
    BY <2>2, CompletedGone DEF InSchedule
  <2>4. \A t \in Range(fast_schedule_queue)' : t \in Range(fast_schedule_queue) /\ t \in DOMAIN instr'
    BY <2>2, CompletedGone DEF InSchedule
  <2>5. (\A t \in Range(long_schedule_queue) : IsLong(t))'
        /\ (\A t \in Range(fast_schedule_queue) : ~IsLong(t))'
    BY <2>1, <2>3, <2>4 DEF P3Inv, QueuesOrdered
  <2>6. ASSUME NEW t \in Range(dispatch_queue)'
        PROVE  /\ \A n \in 1 .. 2 : src_arr'[t][n] = NULL
               /\ \A u \in InSchedule' : (IsLong(u)' <=> IsLong(t)') => u < t
    <3>1. t \in DOMAIN instr' /\ t \in Range(dispatch_queue)
      BY <1>1, <2>2
    <3>2. src_arr'[t] = src_arr[t]
      BY <3>1, CompletedGone
    <3>3. \A u \in InSchedule' : u \in InSchedule /\ u \in DOMAIN instr'
      BY <2>2, CompletedGone
    <3> QED
      BY <2>1, <3>1, <3>2, <3>3 DEF P3Inv, QueuesOrdered
  <2> QED
    BY <1>1, <2>2, <2>5, <2>6, CompletedGone DEF P3Inv, QueuesOrdered
<1>5. FiredOnce'
  <2>1. InUnits \cap Range(completed) = {} /\ Range(state_update_queue) \cap Range(completed) = {}
    BY DEF P3Inv, FiredOnce
  <2>2. FU_pipeline \in [Unit -> [Slot -> fired' \cup {NULL}]]
    <3>1. FU_pipeline \in [Unit -> [Slot -> fired \cup {NULL}]]
      BY DEF P3Inv, FiredOnce
    <3>2. \A j \in Unit, s \in Slot : FU_pipeline[j][s] \in fired' \cup {NULL}
      BY <1>1, <2>1, <3>1 DEF InUnits
    <3> QED
      BY <3>1, <3>2
  <2>3. fired' \subseteq InSchedule' /\ Range(state_update_queue)' \subseteq fired'
    BY <1>1, <1>2, <2>1, CompletedGone DEF P3Inv, FiredOnce
  <2>4. IsQueue(completed') /\ Range(completed)' \subseteq fired'
    BY NoneQueued, CompletedGone
  <2>5. InUnits' \cap (Range(state_update_queue)' \cup Range(completed)') = {}
        /\ Range(state_update_queue)' \cap Range(completed)' = {}
    BY <1>1, CompletedGone DEF P3Inv, FiredOnce
  <2>6. completed' = <<>> /\ stage' # "schedule"
    BY <1>1, CompletedGone
  <2> QED
    BY <1>1, <2>2, <2>3, <2>4, <2>5, <2>6 DEF P3Inv, FiredOnce
<1>6. DispatchBounded'
  BY <1>1 DEF P3Inv, DispatchBounded
<1>7. FiredSomewhere'
  BY <1>1 DEF P3Inv, FiredSomewhere
<1> QED
  BY <1>3, <1>4, <1>5, <1>6, <1>7 DEF P3Inv

\* Retire does what ProcessorP4 says.
LEMMA RetireImplements == ASSUME P3Inv, Retire PROVE P4!Retire
<1> DEFINE none == [p \in Proc |-> NULL]
           no == [p \in Proc |-> FALSE]
           moved == progress \/ completed # <<>>
<1>1. completed # <<>> <=> Range(completed) # {}
  BY RangeIs DEF P3Inv, FiredOnce, IsQueue
<1>2. SeenInstr' = [t \in DOMAIN SeenInstr \ Range(completed) |-> SeenInstr[t]]
  <2>1. DOMAIN SeenInstr = DOMAIN instr /\ SeenInstr' = [t \in DOMAIN instr' |-> Seen(instr'[t])]
    BY DEF SeenInstr
  <2>2. ASSUME NEW t \in DOMAIN instr' PROVE Seen(instr'[t]) = SeenInstr[t]
    BY CompletedGone DEF SeenInstr
  <2> QED
    BY <2>1, <2>2, CompletedGone
<1>3. WaitsFor' = [t \in DOMAIN SeenInstr \ Range(completed) |-> WaitsFor[t]]
  <2>1. DOMAIN SeenInstr = DOMAIN instr /\ DOMAIN src_arr' = DOMAIN instr'
        /\ DOMAIN src_arr = DOMAIN instr
    BY DEF SeenInstr, Retire, P3Inv, OperationsKnown
  <2>2. WaitsFor' = [t \in DOMAIN instr' |-> Range(src_arr'[t]) \ {NULL}]
    BY <2>1 DEF WaitsFor
  <2>3. ASSUME NEW t \in DOMAIN instr' PROVE Range(src_arr'[t]) \ {NULL} = WaitsFor[t]
    BY <2>1, CompletedGone DEF WaitsFor
  <2> QED
    BY <2>1, <2>2, <2>3, CompletedGone
<1>4. no = [no EXCEPT ![i] = P4!StallsStill]
  <2>1. P4!StallsStill = FALSE
    <3>1. [p \in Proc |-> FALSE][i] = FALSE
      BY DEF P3Inv, OperationsKnown
    <3> QED
      BY <3>1 DEF P4!StallsStill
  <2>2. no = [no EXCEPT ![i] = FALSE]
    OBVIOUS
  <2> HIDE DEF no
  <2> QED
    BY <2>1, <2>2
<1>5. ~ \E p \in P4!Proc : none[p] # NULL
  BY DEF Proc, P4!Proc
<1>6. /\ IF i < processorCount
         THEN /\ i' = i + 1
              /\ stage' = "update"
         ELSE /\ i' = 1
              /\ stage' = IF moved THEN "clock" ELSE "end"
      /\ progress' = moved
  BY DEF Retire
<1> DEFINE moved4 == progress \/ Range(completed) # {}
<1>7. moved <=> moved4
  BY <1>1
<1>8. UNCHANGED <<opsLeft, counter, Range(dispatch_queue), Range(state_update_queue),
                  InFast, InLong, OnBuses, regs, none, {}, f>>
  BY SeenUnchanged DEF Retire
<1> HIDE DEF none, no, moved, moved4
<1>9. P4!Retire <=>
        /\ stage = "retire"
        /\ SeenInstr' = [t \in DOMAIN SeenInstr \ Range(completed) |-> SeenInstr[t]]
        /\ WaitsFor' = [t \in DOMAIN SeenInstr \ Range(completed) |-> WaitsFor[t]]
        /\ InSchedule' = InSchedule \ Range(completed)
        /\ fired' = fired \ Range(completed)
        /\ no = [no EXCEPT ![i] = P4!StallsStill]
        /\ Range(completed)' = {}
        /\ IF i < processorCount
           THEN /\ i' = i + 1
                /\ stage' = "update"
           ELSE /\ i' = 1
                /\ stage' = IF moved4 \/ \E p \in P4!Proc : none[p] # NULL THEN "clock" ELSE "end"
        /\ progress' = moved4
        /\ UNCHANGED <<opsLeft, counter, Range(dispatch_queue), Range(state_update_queue),
                       InFast, InLong, OnBuses, regs, none, {}, f>>
  BY DEF P4!Retire, no, none, moved4
<1>10. stage = "retire" /\ fired' = fired \ Range(completed)
  BY DEF Retire
<1>11. progress' = moved4
  BY <1>6, <1>7
<1>12. IF i < processorCount
       THEN /\ i' = i + 1
            /\ stage' = "update"
       ELSE /\ i' = 1
            /\ stage' = IF moved4 \/ \E p \in P4!Proc : none[p] # NULL THEN "clock" ELSE "end"
  BY <1>5, <1>6, <1>7
<1> QED
  BY <1>2, <1>3, <1>4, <1>8, <1>9, <1>10, <1>11, <1>12, CompletedGone

-----------------------------------------------------------------------------
(* Dispatch.                                                               *)

\* Who writes r when the operations of "before" are dispatched.
LastWriter(r, before) ==
    LET writers == {t \in before : instr[t].dest_reg = r}
    IN  IF writers # {} THEN Max(writers) ELSE regs[r]

\* ProcessorP4 says the same.
LEMMA WriterIs ==
    ASSUME P3Inv, NEW before \in SUBSET DOMAIN instr, NEW r
    PROVE  P4!Writer(r, before) = LastWriter(r, before)
<1> DEFINE writers == {t \in before : instr[t].dest_reg = r}
           seen == {t \in before : SeenInstr[t].dest_reg = r}
<1>1. \A t \in before : SeenInstr[t].dest_reg = instr[t].dest_reg
  BY SeenIs DEF P3Inv
<1>2. seen = writers
  BY <1>1
<1>3. P4!Max(writers) = Max(writers)
  BY DEF P4!Max, Max
<1>4. P4!Writer(r, before) = IF seen # {} THEN P4!Max(seen) ELSE regs[r]
  BY DEF P4!Writer
<1>5. LastWriter(r, before) = IF writers # {} THEN Max(writers) ELSE regs[r]
  BY DEF LastWriter
<1> HIDE DEF writers, seen
<1> QED
  BY <1>2, <1>3, <1>4, <1>5

\* A later one writes its own register.
LEMMA NextWriter ==
    ASSUME P3Inv, NEW before \in SUBSET DOMAIN instr, NEW t \in DOMAIN instr,
           \A u \in before : u < t, NEW r \in Reg
    PROVE  LastWriter(r, before \cup {t}) =
             IF instr[t].dest_reg = r THEN t ELSE LastWriter(r, before)
<1> DEFINE now == {u \in before \cup {t} : instr[u].dest_reg = r}
           then == {u \in before : instr[u].dest_reg = r}
<1>1. LastWriter(r, before \cup {t}) = IF now # {} THEN Max(now) ELSE regs[r]
  BY DEF LastWriter
<1>2. LastWriter(r, before) = IF then # {} THEN Max(then) ELSE regs[r]
  BY DEF LastWriter
<1>3. CASE instr[t].dest_reg = r
  <2>1. t \in now
    BY <1>3
  <2>2. t \in Nat /\ \A u \in now : u \in Nat \ {0} /\ u <= t
    BY DEF P3Inv, OperationsKnown
  <2> HIDE DEF now
  <2>3. now \in SUBSET (1 .. t)
    BY <2>2
  <2>4. Max(now) = t
    BY <2>1, <2>2, <2>3, MaxIsBound
  <2> QED
    BY <1>1, <1>3, <2>1, <2>4
<1>4. CASE instr[t].dest_reg # r
  <2>1. now = then
    BY <1>4
  <2> HIDE DEF now, then
  <2> QED
    BY <1>1, <1>2, <1>4, <2>1
<1> QED
  BY <1>3, <1>4

\* A schedule queue for "cap" operations, "old" before, has got those of W that
\* there is room for.
Gets(new, old, W, cap) ==
    /\ IsQueue(new) /\ Len(new) <= cap
    /\ Range(new) = Range(old) \cup P4!First(cap - Len(old), W)
    /\ Len(new) # cap => P4!First(cap - Len(old), W) = W

\* Nothing waits, nothing gets in.
LEMMA GetsNone ==
    ASSUME NEW old, IsQueue(old), NEW cap, Len(old) <= cap
    PROVE  Gets(old, old, {}, cap)
BY FirstOfNone DEF Gets

\* t gets into it too if it is not full.
GetsMore(new, old, W, cap, t) ==
    /\ Len(new) = cap =>
         /\ Gets(new, old, W \cup {t}, cap)
         /\ P4!First(cap - Len(old), W \cup {t}) = P4!First(cap - Len(old), W)
    /\ Len(new) # cap =>
         /\ Gets(queue_push(new, t), old, W \cup {t}, cap)
         /\ P4!First(cap - Len(old), W \cup {t}) = P4!First(cap - Len(old), W) \cup {t}

\* Another one, after all others, does.
LEMMA GetsNext ==
    ASSUME NEW cap \in Nat, NEW old, IsQueue(old), Len(old) <= cap,
           NEW W \in SUBSET Nat, IsFiniteSet(W), W \cap Range(old) = {},
           NEW t \in Nat, \A u \in W : u < t, \A u \in Range(old) : u < t,
           NEW new, Gets(new, old, W, cap)
    PROVE  GetsMore(new, old, W, cap, t)
<1> DEFINE room == cap - Len(old)
           in == P4!First(room, W)
<1>1. /\ IsQueue(new) /\ Len(new) <= cap /\ Range(new) = Range(old) \cup in
      /\ Len(new) # cap => in = W
  BY DEF Gets
<1>2. Len(old) \in Nat /\ Len(new) \in Nat /\ room \in Nat
  BY <1>1 DEF IsQueue
<1>3. /\ IsFiniteSet(Range(old)) /\ Cardinality(Range(old)) = Len(old)
      /\ IsFiniteSet(Range(new)) /\ Cardinality(Range(new)) = Len(new)
  BY <1>1, OnceEach
<1>4. in \subseteq W
  BY DEF P4!First
<1> HIDE DEF in
<1>5. IsFiniteSet(in) /\ Cardinality(in) \in Nat /\ Cardinality(in) <= Cardinality(W)
      /\ Cardinality(W) \in Nat
  BY <1>4, FS_Subset, FS_CardinalityType
<1>6. Len(new) = Len(old) + Cardinality(in)
  <2>1. Range(old) \cap in = {}
    BY <1>4
  <2>2. Cardinality(Range(old) \cup in) =
          Cardinality(Range(old)) + Cardinality(in) - Cardinality(Range(old) \cap in)
    BY <1>3, <1>5, FS_Union
  <2>3. Cardinality(Range(old) \cap in) = 0
    BY <2>1, FS_EmptySet
  <2> QED
    BY <1>1, <1>2, <1>3, <1>5, <2>2, <2>3
<1> DEFINE next == P4!First(room, W \cup {t})
<1>7. /\ Cardinality(W) < room => next = in \cup {t}
      /\ Cardinality(W) >= room => next = in
  <2> HIDE DEF room
  <2> QED
    BY <1>2, FirstGrows DEF in
<1> HIDE DEF next
<1>8. ASSUME Len(new) = cap PROVE Gets(new, old, W \cup {t}, cap) /\ next = in
  <2>1. Cardinality(in) = room
    BY <1>2, <1>5, <1>6, <1>8
  <2>2. next = in
    BY <1>2, <1>5, <1>7, <2>1
  <2> QED
    BY <1>1, <1>8, <2>2 DEF Gets, next
<1>9. ASSUME Len(new) # cap
      PROVE  Gets(queue_push(new, t), old, W \cup {t}, cap) /\ next = in \cup {t}
  <2>1. in = W
    BY <1>1, <1>9
  <2>2. Cardinality(W) < room
    BY <1>1, <1>2, <1>5, <1>6, <1>9, <2>1
  <2>3. next = in \cup {t}
    BY <1>7, <2>2
  <2>4. \A u \in Range(new) : u < t
    BY <1>1, <2>1
  <2>5. IsQueue(queue_push(new, t)) /\ Range(queue_push(new, t)) = Range(new) \cup {t}
    BY <1>1, <2>4, PushLast
  <2>6. Len(queue_push(new, t)) <= cap
    <3>1. Len(queue_push(new, t)) = Len(new) + 1
      BY <1>1 DEF queue_push, IsQueue
    <3> QED
      BY <1>1, <1>2, <1>9, <3>1
  <2>7. Range(queue_push(new, t)) = Range(old) \cup next
    BY <1>1, <2>3, <2>5
  <2>8. next = W \cup {t}
    BY <2>1, <2>3
  <2> QED
    BY <2>3, <2>5, <2>6, <2>7, <2>8 DEF Gets, next
<1> QED
  BY <1>8, <1>9 DEF next, in, GetsMore

\* A turn of the loop of dispatch leaves queues, sources and registers.
LEMMA DispatchTyped ==
    ASSUME P3Inv
    PROVE  \A loop \in LoopSet, t \in DOMAIN instr : DispatchOne(loop, t) \in LoopSet
<1> SUFFICES ASSUME NEW loop \in LoopSet, NEW t \in DOMAIN instr
             PROVE  DispatchOne(loop, t) \in LoopSet
  OBVIOUS
<1> DEFINE dest == instr[t].dest_reg
           rest == queue_delete(loop.rest, t)
           long == IF IsLong(t) THEN queue_push(loop.long, t) ELSE loop.long
           fast == IF IsLong(t) THEN loop.fast ELSE queue_push(loop.fast, t)
           src == [loop.src EXCEPT ![t] = [n \in 1 .. 2 |-> loop.regs[Source(t, n)]]]
           reg == IF dest = NULL THEN loop.regs ELSE [loop.regs EXCEPT ![dest] = t]
<1>1. /\ t \in Nat /\ dest \in Reg \cup {NULL}
      /\ Source(t, 1) \in Reg /\ Source(t, 2) \in Reg
  BY SeenIs DEF P3Inv
<1>2. /\ loop.rest \in Seq(Nat) /\ loop.long \in Seq(Nat) /\ loop.fast \in Seq(Nat)
      /\ loop.src \in [DOMAIN instr -> [1 .. 2 -> Nat \cup {NULL}]]
      /\ loop.regs \in [Reg -> Nat \cup {NULL}]
  BY DEF LoopSet
<1>3. rest \in Seq(Nat)
  BY <1>1, <1>2, DeleteKeeps
<1>4. long \in Seq(Nat) /\ fast \in Seq(Nat)
  BY <1>1, <1>2 DEF queue_push
<1>5. src \in [DOMAIN instr -> [1 .. 2 -> Nat \cup {NULL}]]
  <2>1. \A n \in 1 .. 2 : loop.regs[Source(t, n)] \in Nat \cup {NULL}
    BY <1>1, <1>2
  <2>2. [n \in 1 .. 2 |-> loop.regs[Source(t, n)]] \in [1 .. 2 -> Nat \cup {NULL}]
    BY <2>1
  <2> QED
    BY <1>2, <2>2
<1>6. reg \in [Reg -> Nat \cup {NULL}]
  BY <1>1, <1>2
<1>7. \/ DispatchOne(loop, t) = loop
      \/ DispatchOne(loop, t) = [rest |-> rest, long |-> long, fast |-> fast, src |-> src, regs |-> reg]
  BY DEF DispatchOne
<1> HIDE DEF rest, long, fast, src, reg
<1>8. [rest |-> rest, long |-> long, fast |-> fast, src |-> src, regs |-> reg] \in LoopSet
  BY <1>3, <1>4, <1>5, <1>6 DEF LoopSet
<1> QED
  BY <1>7, <1>8

\* What a turn of the loop does when the queue for t is not full.
TurnDone(loop, new, t) ==
    /\ new.rest = queue_delete(loop.rest, t)
    /\ new.long = IF IsLong(t) THEN queue_push(loop.long, t) ELSE loop.long
    /\ new.fast = IF IsLong(t) THEN loop.fast ELSE queue_push(loop.fast, t)
    /\ new.src = [loop.src EXCEPT ![t] = [n \in 1 .. 2 |-> loop.regs[Source(t, n)]]]
    /\ new.regs = IF instr[t].dest_reg = NULL THEN loop.regs
                  ELSE [loop.regs EXCEPT ![instr[t].dest_reg] = t]

\* It does that or nothing.
LEMMA DispatchTurn ==
    ASSUME NEW loop, NEW t
    PROVE  /\ IsLong(t) /\ Len(loop.long) = M * K => DispatchOne(loop, t) = loop
           /\ ~IsLong(t) /\ Len(loop.fast) = M * J => DispatchOne(loop, t) = loop
           /\ IsLong(t) /\ Len(loop.long) # M * K => TurnDone(loop, DispatchOne(loop, t), t)
           /\ ~IsLong(t) /\ Len(loop.fast) # M * J => TurnDone(loop, DispatchOne(loop, t), t)
BY DEF DispatchOne, TurnDone

\* What the loop has done when it has dispatched "done".
Dispatching(loop, done) ==
    /\ loop \in LoopSet
    /\ IsQueue(loop.rest) /\ Range(loop.rest) = Range(dispatch_queue) \ done
    /\ done = {} => loop.rest = dispatch_queue
    /\ \A t \in DOMAIN instr, n \in 1 .. 2 :
         loop.src[t][n] = IF t \in done THEN LastWriter(Source(t, n), {u \in done : u < t})
                          ELSE src_arr[t][n]
    /\ \A r \in Reg : loop.regs[r] = LastWriter(r, done)

\* What the loop begins with.
AtFirst ==
    [rest |-> dispatch_queue, long |-> long_schedule_queue, fast |-> fast_schedule_queue,
     src |-> src_arr, regs |-> regs]

\* Before the first operation is dispatched the loop invariant holds.
LEMMA DispatchingNone == ASSUME P3Inv PROVE Dispatching(AtFirst, {})
<1>1. /\ dispatch_queue \in Seq(Nat) /\ long_schedule_queue \in Seq(Nat)
      /\ fast_schedule_queue \in Seq(Nat) /\ IsQueue(dispatch_queue)
      /\ src_arr \in [DOMAIN instr -> [1 .. 2 -> Nat \cup {NULL}]]
      /\ regs \in [Reg -> Nat \cup {NULL}]
  BY DEF P3Inv, QueuesOrdered, OperationsKnown, IsQueue
<1>2. AtFirst \in LoopSet
  BY <1>1 DEF AtFirst, LoopSet
<1>3. \A r \in Reg : LastWriter(r, {}) = regs[r]
  BY DEF LastWriter
<1> QED
  BY <1>1, <1>2, <1>3 DEF AtFirst, Dispatching

\* One more.
LEMMA DispatchingNext ==
    ASSUME P3Inv, NEW loop, NEW done \in SUBSET Range(dispatch_queue), Dispatching(loop, done),
           NEW t \in Range(dispatch_queue), \A u \in done : u < t,
           NEW new \in LoopSet, TurnDone(loop, new, t)
    PROVE  Dispatching(new, done \cup {t})
<1>1. /\ t \in Nat /\ t \in DOMAIN instr /\ done \subseteq DOMAIN instr
      /\ instr[t].dest_reg \in Reg \cup {NULL}
      /\ Source(t, 1) \in Reg /\ Source(t, 2) \in Reg
  BY QueuedKnown, SeenIs DEF P3Inv
<1>2. /\ loop.src \in [DOMAIN instr -> [1 .. 2 -> Nat \cup {NULL}]]
      /\ loop.regs \in [Reg -> Nat \cup {NULL}]
  BY DEF Dispatching, LoopSet
<1>3. /\ IsQueue(loop.rest) /\ Range(loop.rest) = Range(dispatch_queue) \ done
      /\ \A u \in DOMAIN instr, n \in 1 .. 2 :
           loop.src[u][n] = IF u \in done THEN LastWriter(Source(u, n), {w \in done : w < u})
                            ELSE src_arr[u][n]
      /\ \A r \in Reg : loop.regs[r] = LastWriter(r, done)
  BY DEF Dispatching
<1>4. IsQueue(new.rest) /\ Range(new.rest) = Range(dispatch_queue) \ (done \cup {t})
  <2>1. new.rest = queue_delete(loop.rest, t)
    BY DEF TurnDone
  <2>2. IsQueue(new.rest) /\ Range(new.rest) = Range(loop.rest) \ {t}
    BY <1>1, <1>3, <2>1, DeleteKeeps DEF IsQueue
  <2> QED
    BY <1>3, <2>2
<1>5. t \notin done
  <2>1. ~ (t < t)
    BY <1>1
  <2> QED
    BY <2>1
<1>6. ASSUME NEW u \in DOMAIN instr, NEW n \in 1 .. 2
      PROVE  new.src[u][n] = IF u \in done \cup {t}
                             THEN LastWriter(Source(u, n), {w \in done \cup {t} : w < u})
                             ELSE src_arr[u][n]
  <2>1. new.src = [loop.src EXCEPT ![t] = [m \in 1 .. 2 |-> loop.regs[Source(t, m)]]]
    BY DEF TurnDone
  <2>2. CASE u = t
    <3>1. new.src[u][n] = loop.regs[Source(t, n)]
      BY <1>1, <1>2, <2>1, <2>2
    <3>2. Source(t, n) \in Reg
      BY <1>1
    <3>3. {w \in done \cup {t} : w < t} = done
      <4>1. ~ (t < t)
        BY <1>1
      <4> QED
        BY <4>1
    <3> QED
      BY <1>3, <2>2, <3>1, <3>2, <3>3
  <2>3. CASE u # t
    <3>1. new.src[u][n] = loop.src[u][n]
      BY <1>2, <2>1, <2>3
    <3>2. u \in done => {w \in done \cup {t} : w < u} = {w \in done : w < u}
      <4> SUFFICES ASSUME u \in done PROVE ~ (t < u)
        OBVIOUS
      <4>1. u \in Nat /\ u < t
        BY <1>1, QueuedKnown
      <4> QED
        BY <1>1, <4>1
    <3> QED
      BY <1>3, <2>3, <3>1, <3>2
  <2> QED
    BY <2>2, <2>3
<1>7. ASSUME NEW r \in Reg PROVE new.regs[r] = LastWriter(r, done \cup {t})
  <2>1. LastWriter(r, done \cup {t}) = IF instr[t].dest_reg = r THEN t ELSE LastWriter(r, done)
    BY <1>1, NextWriter
  <2>2. new.regs = IF instr[t].dest_reg = NULL THEN loop.regs
                   ELSE [loop.regs EXCEPT ![instr[t].dest_reg] = t]
    BY DEF TurnDone
  <2>3. r # NULL
    BY P3Assumption
  <2>4. new.regs[r] = IF instr[t].dest_reg = r THEN t ELSE loop.regs[r]
    BY <1>2, <2>2, <2>3
  <2> QED
    BY <1>3, <2>1, <2>4
<1> QED
  BY <1>4, <1>6, <1>7 DEF Dispatching

-----------------------------------------------------------------------------
(* Dispatch: what it comes to in the sets of ProcessorP4.                  *)

\* Those that wait in the dispatch queue, and those that go on from there.
WaitingOnes(long) == {t \in Range(dispatch_queue) : (IsLong(t) <=> long)}

GoOn ==
    P4!First(M * K - Len(long_schedule_queue), WaitingOnes(TRUE))
        \cup P4!First(M * J - Len(fast_schedule_queue), WaitingOnes(FALSE))

\* The loop dispatches the first of each kind, as many as there is room for.
LEMMA DispatchLoops ==
    ASSUME P3Inv, NEW loop, loop = AllDispatched(AtFirst, dispatch_queue)
    PROVE  /\ Dispatching(loop, GoOn)
           /\ Gets(loop.long, long_schedule_queue, WaitingOnes(TRUE), M * K)
           /\ Gets(loop.fast, fast_schedule_queue, WaitingOnes(FALSE), M * J)
<1> DEFINE q == dispatch_queue
           a == long_schedule_queue
           b == fast_schedule_queue
           mk == M * K
           mj == M * J
           n == Len(q)
           In(k) == {q[x] : x \in 1 .. k}
           W(k, long) == {t \in In(k) : (IsLong(t) <=> long)}
           Done(k) == P4!First(mk - Len(a), W(k, TRUE)) \cup P4!First(mj - Len(b), W(k, FALSE))
<1>1. /\ IsQueue(q) /\ q \in Seq(Nat) /\ n \in Nat /\ Range(q) = In(n)
      /\ \A x, y \in 1 .. n : x < y => q[x] < q[y]
      /\ \A x \in 1 .. n : q[x] \in Range(q)
  BY RangeIs DEF P3Inv, QueuesOrdered, IsQueue, InOrder
<1>2. /\ Range(q) \subseteq DOMAIN instr /\ DOMAIN instr \subseteq Nat
      /\ IsFiniteSet(Range(q))
  BY <1>1, QueuedKnown, OnceEach
<1>3. /\ IsQueue(a) /\ IsQueue(b) /\ mk \in Nat /\ mj \in Nat
      /\ Len(a) <= mk /\ Len(b) <= mj
      /\ Range(q) \cap Range(a) = {} /\ Range(q) \cap Range(b) = {}
      /\ \A t \in Range(q), u \in Range(a) : IsLong(t) => u < t
      /\ \A t \in Range(q), u \in Range(b) : ~IsLong(t) => u < t
  BY P3Sizes DEF P3Inv, QueuesOrdered, InSchedule
<1>4. AtFirst \in LoopSet /\ AtFirst.long = a /\ AtFirst.fast = b /\ Dispatching(AtFirst, {})
  BY DispatchingNone DEF Dispatching, AtFirst
<1>5. q \in Seq(DOMAIN instr)
  BY <1>1, <1>2
<1> HIDE DEF q, a, b, mk, mj, n
<1>6. PICK v : /\ v[0] = AtFirst
               /\ v[n] = AllDispatched(AtFirst, q)
               /\ \A k \in 0 .. n - 1 : v[k + 1] = DispatchOne(v[k], q[k + 1])
  BY <1>4, <1>5, DispatchTyped, DispatchSteps DEF n
<1> DEFINE Good == {k \in 0 .. n : /\ Dispatching(v[k], Done(k))
                                   /\ Gets(v[k].long, a, W(k, TRUE), mk)
                                   /\ Gets(v[k].fast, b, W(k, FALSE), mj)}
<1>7. 0 \in Good
  <2>1. W(0, TRUE) = {} /\ W(0, FALSE) = {}
    OBVIOUS
  <2>2. Done(0) = {}
    BY <2>1, FirstOfNone
  <2>3. Gets(a, a, {}, mk) /\ Gets(b, b, {}, mj)
    BY <1>3, GetsNone
  <2>4. 0 \in 0 .. n
    BY <1>1
  <2> HIDE DEF W, Done
  <2> QED
    BY <1>4, <1>6, <2>1, <2>2, <2>3, <2>4
<1>8. ASSUME NEW k \in 0 .. n - 1, k \in Good PROVE k + 1 \in Good
  <2> DEFINE t == q[k + 1]
             loop1 == v[k]
             loop2 == v[k + 1]
  <2>1. k + 1 \in 1 .. n /\ k + 1 \in 0 .. n /\ k \in Nat
    BY <1>1
  <2>2. t \in Range(q) /\ t \in Nat /\ t \in DOMAIN instr
    BY <1>1, <1>2, <2>1
  <2>3. loop2 = DispatchOne(loop1, t)
    BY <1>6
  <2>4. /\ Dispatching(loop1, Done(k))
        /\ Gets(loop1.long, a, W(k, TRUE), mk)
        /\ Gets(loop1.fast, b, W(k, FALSE), mj)
    BY <1>8
  <2>5. In(k + 1) = In(k) \cup {t}
    <3>1. \A x \in 1 .. k + 1 : x \in 1 .. k \/ x = k + 1
      BY <2>1
    <3>2. (\A x \in 1 .. k : x \in 1 .. k + 1) /\ k + 1 \in 1 .. k + 1
      BY <2>1
    <3> QED
      BY <3>1, <3>2
  <2>6. \A u \in In(k) : u < t /\ u \in Range(q)
    <3> SUFFICES ASSUME NEW x \in 1 .. k PROVE q[x] < t /\ q[x] \in Range(q)
      OBVIOUS
    <3>1. x \in 1 .. n /\ x < k + 1
      BY <2>1, <1>1
    <3> QED
      BY <1>1, <2>1, <3>1
  <2>7. \A long : /\ W(k, long) \subseteq Range(q) /\ W(k, long) \in SUBSET Nat
                  /\ IsFiniteSet(W(k, long)) /\ \A u \in W(k, long) : u < t
    <3>1. \A long : W(k, long) \subseteq Range(q) /\ \A u \in W(k, long) : u < t
      BY <2>6
    <3> HIDE DEF W
    <3> QED
      BY <1>2, <3>1, FS_Subset
  <2>8. Done(k) \subseteq Range(q) /\ \A u \in Done(k) : u < t
    <3>1. \A m, S : P4!First(m, S) \subseteq S
      BY DEF P4!First
    <3> HIDE DEF W
    <3> QED
      BY <2>7, <3>1
  <2>9. loop2 \in LoopSet
    BY <2>2, <2>3, <2>4, DispatchTyped DEF Dispatching
  <2>10. TurnDone(loop1, loop2, t) => Dispatching(loop2, Done(k) \cup {t})
    <3> HIDE DEF Done, t, loop1, loop2
    <3> QED
      BY <2>2, <2>4, <2>8, <2>9, DispatchingNext DEF q
  <2>11. IsLong(t) => W(k + 1, TRUE) = W(k, TRUE) \cup {t} /\ W(k + 1, FALSE) = W(k, FALSE)
    BY <2>5
  <2>12. ~IsLong(t) => W(k + 1, FALSE) = W(k, FALSE) \cup {t} /\ W(k + 1, TRUE) = W(k, TRUE)
    BY <2>5
  <2>13. W(k, TRUE) \cap Range(a) = {} /\ W(k, FALSE) \cap Range(b) = {}
    BY <1>3, <2>7
  <2> HIDE DEF t, loop1, loop2, W
  <2>14. CASE IsLong(t)
    <3>1. \A u \in Range(a) : u < t
      BY <1>3, <2>2, <2>14
    <3>2. GetsMore(loop1.long, a, W(k, TRUE), mk, t)
      <4> DEFINE new == loop1.long
                 S == W(k, TRUE)
      <4>1. /\ S \in SUBSET Nat /\ IsFiniteSet(S) /\ S \cap Range(a) = {}
            /\ (\A u \in S : u < t) /\ Gets(new, a, S, mk)
        BY <2>4, <2>7, <2>13
      <4> HIDE DEF new, S
      <4>2. GetsMore(new, a, S, mk, t)
        BY <1>3, <2>2, <3>1, <4>1, GetsNext
      <4> QED
        BY <4>2 DEF new, S
    <3>3. CASE Len(loop1.long) = mk
      <4>1. loop2 = loop1
        BY <2>3, <2>14, <3>3, DispatchTurn DEF mk
      <4>2. Done(k + 1) = Done(k)
        BY <2>11, <2>14, <3>2, <3>3 DEF GetsMore
      <4>3. Gets(loop2.long, a, W(k + 1, TRUE), mk) /\ Gets(loop2.fast, b, W(k + 1, FALSE), mj)
        BY <2>4, <2>11, <2>14, <3>2, <3>3, <4>1 DEF GetsMore
      <4> HIDE DEF Done
      <4> QED
        BY <2>1, <2>4, <4>1, <4>2, <4>3 DEF loop2
    <3>4. CASE Len(loop1.long) # mk
      <4>1. TurnDone(loop1, loop2, t)
        BY <2>3, <2>14, <3>4, DispatchTurn DEF mk
      <4>2. Done(k + 1) = Done(k) \cup {t}
        BY <2>11, <2>14, <3>2, <3>4 DEF GetsMore
      <4>3. loop2.long = queue_push(loop1.long, t) /\ loop2.fast = loop1.fast
        BY <2>14, <4>1 DEF TurnDone
      <4>4. Gets(loop2.long, a, W(k + 1, TRUE), mk) /\ Gets(loop2.fast, b, W(k + 1, FALSE), mj)
        BY <2>4, <2>11, <2>14, <3>2, <3>4, <4>3 DEF GetsMore
      <4> HIDE DEF Done
      <4>5. Dispatching(loop2, Done(k + 1))
        BY <2>10, <4>1, <4>2
      <4> QED
        BY <2>1, <4>4, <4>5 DEF loop2
    <3> QED
      BY <3>3, <3>4
  <2>15. CASE ~IsLong(t)
    <3>1. \A u \in Range(b) : u < t
      BY <1>3, <2>2, <2>15
    <3>2. GetsMore(loop1.fast, b, W(k, FALSE), mj, t)
      <4> DEFINE new == loop1.fast
                 S == W(k, FALSE)
      <4>1. /\ S \in SUBSET Nat /\ IsFiniteSet(S) /\ S \cap Range(b) = {}
            /\ (\A u \in S : u < t) /\ Gets(new, b, S, mj)
        BY <2>4, <2>7, <2>13
      <4> HIDE DEF new, S
      <4>2. GetsMore(new, b, S, mj, t)
        BY <1>3, <2>2, <3>1, <4>1, GetsNext
      <4> QED
        BY <4>2 DEF new, S
    <3>3. CASE Len(loop1.fast) = mj
      <4>1. loop2 = loop1
        BY <2>3, <2>15, <3>3, DispatchTurn DEF mj
      <4>2. Done(k + 1) = Done(k)
        BY <2>12, <2>15, <3>2, <3>3 DEF GetsMore
      <4>3. Gets(loop2.long, a, W(k + 1, TRUE), mk) /\ Gets(loop2.fast, b, W(k + 1, FALSE), mj)
        BY <2>4, <2>12, <2>15, <3>2, <3>3, <4>1 DEF GetsMore
      <4> HIDE DEF Done
      <4> QED
        BY <2>1, <2>4, <4>1, <4>2, <4>3 DEF loop2
    <3>4. CASE Len(loop1.fast) # mj
      <4>1. TurnDone(loop1, loop2, t)
        BY <2>3, <2>15, <3>4, DispatchTurn DEF mj
      <4>2. Done(k + 1) = Done(k) \cup {t}
        BY <2>12, <2>15, <3>2, <3>4 DEF GetsMore
      <4>3. loop2.long = loop1.long /\ loop2.fast = queue_push(loop1.fast, t)
        BY <2>15, <4>1 DEF TurnDone
      <4>4. Gets(loop2.long, a, W(k + 1, TRUE), mk) /\ Gets(loop2.fast, b, W(k + 1, FALSE), mj)
        BY <2>4, <2>12, <2>15, <3>2, <3>4, <4>3 DEF GetsMore
      <4> HIDE DEF Done
      <4>5. Dispatching(loop2, Done(k + 1))
        BY <2>10, <4>1, <4>2
      <4> QED
        BY <2>1, <4>4, <4>5 DEF loop2
    <3> QED
      BY <3>3, <3>4
  <2> QED
    BY <2>14, <2>15
<1> HIDE DEF Good
<1>9. \A k \in 0 .. n : k \in Good
  BY <1>1, <1>7, <1>8, CountUp
<1>10. n \in Good
  BY <1>1, <1>9
<1>11. W(n, TRUE) = WaitingOnes(TRUE) /\ W(n, FALSE) = WaitingOnes(FALSE)
  BY <1>1 DEF WaitingOnes, q
<1>12. Done(n) = GoOn
  BY <1>11 DEF GoOn, a, b, mk, mj
<1>13. v[n] = loop
  BY <1>6 DEF q
<1> HIDE DEF W, Done
<1>14. /\ Dispatching(loop, GoOn)
       /\ Gets(loop.long, a, WaitingOnes(TRUE), mk)
       /\ Gets(loop.fast, b, WaitingOnes(FALSE), mj)
  BY <1>10, <1>11, <1>12, <1>13 DEF Good
<1> QED
  BY <1>14 DEF a, b, mk, mj

\* Of the first of a queue each is before all of the rest.
LEMMA FirstBefore ==
    ASSUME NEW W \in SUBSET Nat, IsFiniteSet(W), NEW n \in Int,
           NEW u \in P4!First(n, W), NEW t \in W \ P4!First(n, W)
    PROVE  u < t
<1> DEFINE U == {w \in W : w < u}
           T == {w \in W : w < t}
<1>1. u \in W /\ Cardinality(U) < n /\ ~ (Cardinality(T) < n)
  BY InFirst
<1>2. u # t
  OBVIOUS
<1>3. ASSUME t < u PROVE FALSE
  <2>1. T \subseteq U /\ U \subseteq W
    <3> SUFFICES ASSUME NEW w \in W, w < t PROVE w < u
      OBVIOUS
    <3>1. w \in Nat /\ t \in Nat /\ u \in Nat
      BY <1>1
    <3> QED
      BY <1>3, <3>1
  <2> HIDE DEF T, U
  <2>2. IsFiniteSet(U) /\ Cardinality(U) \in Nat
    BY <2>1, FS_Subset, FS_CardinalityType
  <2>3. Cardinality(T) <= Cardinality(U) /\ Cardinality(T) \in Nat
    BY <2>1, <2>2, FS_Subset, FS_CardinalityType
  <2> QED
    BY <1>1, <2>2, <2>3
<1> HIDE DEF U, T
<1>4. u \in Nat /\ t \in Nat
  BY <1>1
<1> QED
  BY <1>2, <1>3, <1>4

\* The loop as a whole.
LoopEnd == AllDispatched(AtFirst, dispatch_queue)

BusTags == {b.tag : b \in OnBuses}

\* What dispatch does to the queues, the sources and the registers.
LEMMA DispatchDoes ==
    ASSUME P3Inv, Dispatch
    PROVE  /\ GoOn \subseteq Range(dispatch_queue) /\ GoOn \subseteq DOMAIN instr
           /\ IsQueue(dispatch_queue') /\ Range(dispatch_queue') = Range(dispatch_queue) \ GoOn
           /\ IsQueue(long_schedule_queue') /\ Len(long_schedule_queue') <= M * K
           /\ IsQueue(fast_schedule_queue') /\ Len(fast_schedule_queue') <= M * J
           /\ Range(long_schedule_queue') = Range(long_schedule_queue) \cup {t \in GoOn : IsLong(t)}
           /\ Range(fast_schedule_queue') = Range(fast_schedule_queue) \cup {t \in GoOn : ~IsLong(t)}
           /\ InSchedule' = InSchedule \cup GoOn
           /\ src_arr' = [t \in DOMAIN instr |-> Woken(LoopEnd.src, t)]
           /\ regs' \in [Reg -> Nat \cup {NULL}]
           /\ \A r \in Reg : regs'[r] = LastWriter(r, GoOn)
           /\ dispatch_queue' = LoopEnd.rest
<1>1. /\ Dispatching(LoopEnd, GoOn)
      /\ Gets(LoopEnd.long, long_schedule_queue, WaitingOnes(TRUE), M * K)
      /\ Gets(LoopEnd.fast, fast_schedule_queue, WaitingOnes(FALSE), M * J)
  BY DispatchLoops DEF LoopEnd
<1>2. /\ dispatch_queue' = LoopEnd.rest
      /\ long_schedule_queue' = LoopEnd.long
      /\ fast_schedule_queue' = LoopEnd.fast
      /\ src_arr' = [t \in DOMAIN instr |-> Woken(LoopEnd.src, t)]
      /\ regs' = LoopEnd.regs
  BY DEF Dispatch, LoopEnd, AllDispatched, AtFirst
<1> DEFINE DL == P4!First(M * K - Len(long_schedule_queue), WaitingOnes(TRUE))
           DF == P4!First(M * J - Len(fast_schedule_queue), WaitingOnes(FALSE))
<1>3. GoOn = DL \cup DF /\ DL \subseteq WaitingOnes(TRUE) /\ DF \subseteq WaitingOnes(FALSE)
  BY DEF GoOn, P4!First
<1>4. /\ Range(LoopEnd.long) = Range(long_schedule_queue) \cup DL
      /\ Range(LoopEnd.fast) = Range(fast_schedule_queue) \cup DF
      /\ IsQueue(LoopEnd.long) /\ Len(LoopEnd.long) <= M * K
      /\ IsQueue(LoopEnd.fast) /\ Len(LoopEnd.fast) <= M * J
  BY <1>1 DEF Gets
<1> HIDE DEF DL, DF
<1>5. DL = {t \in GoOn : IsLong(t)} /\ DF = {t \in GoOn : ~IsLong(t)}
  BY <1>3 DEF WaitingOnes
<1>6. GoOn \subseteq Range(dispatch_queue)
  BY <1>3 DEF WaitingOnes
<1>7. GoOn \subseteq DOMAIN instr
  BY <1>6, QueuedKnown
<1>8. InSchedule' = InSchedule \cup GoOn
  BY <1>2, <1>3, <1>4 DEF InSchedule
<1>9. IsQueue(LoopEnd.rest) /\ Range(LoopEnd.rest) = Range(dispatch_queue) \ GoOn
      /\ LoopEnd.regs \in [Reg -> Nat \cup {NULL}]
      /\ \A r \in Reg : LoopEnd.regs[r] = LastWriter(r, GoOn)
  BY <1>1 DEF Dispatching, LoopSet
<1> HIDE DEF LoopEnd
<1> QED
  BY <1>2, <1>4, <1>5, <1>6, <1>7, <1>8, <1>9

\* What an operation waits for after the loop, and after it has seen the buses.
LEMMA SourcesAfter ==
    ASSUME P3Inv, Dispatch, NEW t \in DOMAIN instr, NEW n \in 1 .. 2
    PROVE  /\ LoopEnd.src[t] \in [1 .. 2 -> Nat \cup {NULL}]
           /\ LoopEnd.src[t][n] =
                IF t \in GoOn THEN LastWriter(Source(t, n), {u \in GoOn : u < t})
                ELSE src_arr[t][n]
           /\ src_arr'[t] \in [1 .. 2 -> Nat \cup {NULL}]
           /\ src_arr'[t][n] = IF LoopEnd.src[t][n] \in BusTags THEN NULL ELSE LoopEnd.src[t][n]
<1>1. Dispatching(LoopEnd, GoOn)
  BY DispatchLoops DEF LoopEnd
<1>2. LoopEnd.src \in [DOMAIN instr -> [1 .. 2 -> Nat \cup {NULL}]]
  BY <1>1 DEF Dispatching, LoopSet
<1>3. LoopEnd.src[t][n] = IF t \in GoOn THEN LastWriter(Source(t, n), {u \in GoOn : u < t})
                          ELSE src_arr[t][n]
  BY <1>1 DEF Dispatching
<1>4. src_arr'[t] = Woken(LoopEnd.src, t)
  BY DispatchDoes
<1> HIDE DEF LoopEnd
<1>5. LoopEnd.src[t] \in [1 .. 2 -> Nat \cup {NULL}]
  BY <1>2
<1>6. Woken(LoopEnd.src, t) =
        [m \in 1 .. 2 |-> IF LoopEnd.src[t][m] \in BusTags THEN NULL ELSE LoopEnd.src[t][m]]
  BY DEF Woken, BusTags
<1> QED
  BY <1>3, <1>4, <1>5, <1>6

\* Dispatch keeps the invariant.
LEMMA DispatchKeeps == ASSUME P3Inv, Dispatch PROVE P3Inv'
<1>1. /\ instr' = instr /\ fired' = fired /\ state_update_queue' = state_update_queue
      /\ FU_pipeline' = FU_pipeline /\ completed' = completed /\ counter' = counter /\ i' = i
      /\ stage' = "fetch" /\ InUnits' = InUnits
  BY SeenUnchanged DEF Dispatch, Goto
<1>2. OperationsKnown'
  <2>1. src_arr' \in [DOMAIN instr -> [1 .. 2 -> Nat \cup {NULL}]]
    <3>1. \A t \in DOMAIN instr : src_arr'[t] \in [1 .. 2 -> Nat \cup {NULL}]
      <4>1. 1 \in 1 .. 2
        OBVIOUS
      <4> QED
        BY <4>1, SourcesAfter
    <3>2. src_arr' = [t \in DOMAIN instr |-> src_arr'[t]]
      BY DispatchDoes
    <3> QED
      BY <3>1, <3>2
  <2> QED
    BY <1>1, <2>1, DispatchDoes DEF P3Inv, OperationsKnown
<1>3. QueuesOrdered'
  <2>1. \A t : IsLong(t)' <=> IsLong(t)
    BY <1>1 DEF IsLong
  <2>2. DOMAIN instr = Range(dispatch_queue') \cup InSchedule'
        /\ Range(dispatch_queue') \cap InSchedule' = {}
    BY DispatchDoes DEF P3Inv, QueuesOrdered
  <2>3. (\A t \in Range(long_schedule_queue) : IsLong(t))'
        /\ (\A t \in Range(fast_schedule_queue) : ~IsLong(t))'
    BY <2>1, DispatchDoes DEF P3Inv, QueuesOrdered
  <2>4. ASSUME NEW t \in Range(dispatch_queue'), NEW n \in 1 .. 2 PROVE src_arr'[t][n] = NULL
    <3>1. t \in Range(dispatch_queue) /\ t \notin GoOn /\ t \in DOMAIN instr
      BY DispatchDoes, QueuedKnown
    <3>2. src_arr[t][n] = NULL
      BY <3>1 DEF P3Inv, QueuesOrdered
    <3> QED
      BY <3>1, <3>2, SourcesAfter
  <2>5. ASSUME NEW t \in Range(dispatch_queue'), NEW u \in InSchedule',
               IsLong(u) <=> IsLong(t)
        PROVE  u < t
    <3>1. t \in Range(dispatch_queue) /\ t \notin GoOn
      BY DispatchDoes
    <3>2. CASE u \in InSchedule
      BY <2>5, <3>1, <3>2 DEF P3Inv, QueuesOrdered
    <3>3. CASE u \in GoOn
      <4> DEFINE a == M * K - Len(long_schedule_queue)
                 b == M * J - Len(fast_schedule_queue)
      <4>1. a \in Int /\ b \in Int
        BY P3Sizes DEF P3Inv, QueuesOrdered, IsQueue
      <4>2. \A long : WaitingOnes(long) \in SUBSET Nat /\ IsFiniteSet(WaitingOnes(long))
        <5>1. \A long : WaitingOnes(long) \subseteq Range(dispatch_queue)
          BY DEF WaitingOnes
        <5>2. Range(dispatch_queue) \subseteq Nat
          BY QueuedKnown
        <5>3. IsFiniteSet(Range(dispatch_queue))
          BY OnceEach DEF P3Inv, QueuesOrdered
        <5> QED
          BY <5>1, <5>2, <5>3, FS_Subset
      <4>3. GoOn = P4!First(a, WaitingOnes(TRUE)) \cup P4!First(b, WaitingOnes(FALSE))
        BY DEF GoOn
      <4>4. P4!First(a, WaitingOnes(TRUE)) \subseteq WaitingOnes(TRUE)
            /\ P4!First(b, WaitingOnes(FALSE)) \subseteq WaitingOnes(FALSE)
        BY DEF P4!First
      <4> HIDE DEF a, b
      <4>5. CASE IsLong(t)
        <5>1. t \in WaitingOnes(TRUE) /\ u \in P4!First(a, WaitingOnes(TRUE))
              /\ t \notin P4!First(a, WaitingOnes(TRUE))
          BY <2>5, <3>1, <3>3, <4>3, <4>4, <4>5 DEF WaitingOnes
        <5> QED
          BY <4>1, <4>2, <5>1, FirstBefore
      <4>6. CASE ~IsLong(t)
        <5>1. t \in WaitingOnes(FALSE) /\ u \in P4!First(b, WaitingOnes(FALSE))
              /\ t \notin P4!First(b, WaitingOnes(FALSE))
          BY <2>5, <3>1, <3>3, <4>3, <4>4, <4>6 DEF WaitingOnes
        <5> QED
          BY <4>1, <4>2, <5>1, FirstBefore
      <4> QED
        BY <4>5, <4>6
    <3> QED
      BY <3>2, <3>3, DispatchDoes
  <2>6. \A t \in Range(dispatch_queue)' :
          /\ \A n \in 1 .. 2 : src_arr'[t][n] = NULL
          /\ \A u \in InSchedule' : (IsLong(u)' <=> IsLong(t)') => u < t
    BY <2>1, <2>4, <2>5
  <2> QED
    BY <1>1, <2>2, <2>3, <2>6, DispatchDoes DEF P3Inv, QueuesOrdered
<1>4. FiredOnce'
  <2>1. fired \subseteq InSchedule'
    BY DispatchDoes DEF P3Inv, FiredOnce
  <2> QED
    BY <1>1, <2>1 DEF P3Inv, FiredOnce
<1>5. DispatchBounded'
  <2> DEFINE size == D * (M * J + M * K)
  <2>1. Len(dispatch_queue) <= size /\ size \in Nat
    BY P3Sizes DEF P3Inv, DispatchBounded
  <2>2. IsQueue(dispatch_queue) /\ IsQueue(dispatch_queue')
        /\ Range(dispatch_queue') \subseteq Range(dispatch_queue)
    BY DispatchDoes DEF P3Inv, QueuesOrdered
  <2>3. Len(dispatch_queue') <= Len(dispatch_queue)
    <3>1. /\ IsFiniteSet(Range(dispatch_queue))
          /\ Cardinality(Range(dispatch_queue)) = Len(dispatch_queue)
          /\ Cardinality(Range(dispatch_queue')) = Len(dispatch_queue')
      BY <2>2, OnceEach
    <3> QED
      BY <2>2, <3>1, FS_Subset
  <2>4. Len(dispatch_queue) \in Nat /\ Len(dispatch_queue') \in Nat
    BY <2>2 DEF IsQueue
  <2> HIDE DEF size
  <2>5. Len(dispatch_queue') <= size
    BY <2>1, <2>3, <2>4
  <2> QED
    BY <2>5 DEF DispatchBounded, size
<1>6. FiredSomewhere'
  BY <1>1 DEF P3Inv, FiredSomewhere
<1> QED
  BY <1>2, <1>3, <1>4, <1>5, <1>6 DEF P3Inv

\* ProcessorP4 dispatches the same operations.
LEMMA DispatchedIs == ASSUME P3Inv PROVE P4!Dispatched = GoOn
<1>1. \A t \in DOMAIN instr : P4!IsLong(t) <=> IsLong(t)
  BY SeenIs DEF P3Inv
<1>2. P4!LongQueue = Range(long_schedule_queue)
  <2>1. P4!LongQueue = {t \in InSchedule : P4!IsLong(t)}
    BY DEF P4!LongQueue
  <2>2. \A t \in InSchedule : P4!IsLong(t) <=> t \in Range(long_schedule_queue)
    BY <1>1, QueuedKnown DEF P3Inv, QueuesOrdered, InSchedule
  <2> QED
    BY <2>1, <2>2, QueuedKnown
<1>3. P4!FastQueue = Range(fast_schedule_queue)
  <2>1. P4!FastQueue = InSchedule \ Range(long_schedule_queue)
    BY <1>2 DEF P4!FastQueue
  <2>2. Range(long_schedule_queue) \cap Range(fast_schedule_queue) = {}
    BY DEF P3Inv, QueuesOrdered
  <2> QED
    BY <2>1, <2>2 DEF InSchedule
<1>4. P4!Cardinality(P4!LongQueue) = Len(long_schedule_queue)
      /\ P4!Cardinality(P4!FastQueue) = Len(fast_schedule_queue)
  BY <1>2, <1>3, SameCardinality, OnceEach DEF P3Inv, QueuesOrdered
<1> DEFINE waiting == {t \in Range(dispatch_queue) : P4!IsLong(t)}
<1>5. waiting = WaitingOnes(TRUE) /\ Range(dispatch_queue) \ waiting = WaitingOnes(FALSE)
  <2>1. \A t \in Range(dispatch_queue) : P4!IsLong(t) <=> IsLong(t)
    BY <1>1, QueuedKnown
  <2> QED
    BY <2>1 DEF WaitingOnes
<1>6. P4!Dispatched =
        P4!First(M * K - P4!Cardinality(P4!LongQueue), waiting)
            \cup P4!First(M * J - P4!Cardinality(P4!FastQueue), Range(dispatch_queue) \ waiting)
  BY DEF P4!Dispatched
<1> HIDE DEF waiting
<1> QED
  BY <1>4, <1>5, <1>6 DEF GoOn

\* What they wait for is the same.
LEMMA SourcesAre ==
    ASSUME P3Inv, Dispatch, NEW t \in DOMAIN instr
    PROVE  P4!Sources(t) = WaitsFor'[t]
<1> DEFINE before == {u \in GoOn : u < t}
           a == LoopEnd.src[t][1]
           b == LoopEnd.src[t][2]
<1>1. WaitsFor'[t] = ({a, b} \ {NULL}) \ BusTags
  <2>1. /\ src_arr'[t] \in [1 .. 2 -> Nat \cup {NULL}]
        /\ src_arr'[t][1] = IF a \in BusTags THEN NULL ELSE a
        /\ src_arr'[t][2] = IF b \in BusTags THEN NULL ELSE b
    <3>1. 1 \in 1 .. 2 /\ 2 \in 1 .. 2
      OBVIOUS
    <3> QED
      BY <3>1, SourcesAfter
  <2>2. DOMAIN src_arr' = DOMAIN instr
    BY DispatchDoes
  <2> HIDE DEF a, b
  <2>3. WaitsFor'[t] = {src_arr'[t][1], src_arr'[t][2]} \ {NULL}
    <3>1. WaitsFor'[t] = Range(src_arr'[t]) \ {NULL}
      BY <2>2 DEF WaitsFor
    <3>2. Range(src_arr'[t]) = {src_arr'[t][1], src_arr'[t][2]}
      BY <2>1 DEF Range
    <3> QED
      BY <3>1, <3>2
  <2> QED
    BY <2>1, <2>3
<1>2. P4!Sources(t) = (IF t \in GoOn THEN P4!Operands(t) ELSE WaitsFor[t]) \ BusTags
  BY DispatchedIs DEF P4!Sources, BusTags
<1> HIDE DEF a, b
<1>3. CASE t \in GoOn
  <2>1. before \in SUBSET DOMAIN instr
    BY DispatchDoes
  <2>2. a = LastWriter(Source(t, 1), before) /\ b = LastWriter(Source(t, 2), before)
    BY <1>3, SourcesAfter DEF a, b
  <2>3. SeenInstr[t].src_reg = {Source(t, 1), Source(t, 2)}
    BY SeenIs DEF P3Inv
  <2>4. P4!Operands(t) = {P4!Writer(r, before) : r \in SeenInstr[t].src_reg} \ {NULL}
    BY DispatchedIs DEF P4!Operands
  <2> HIDE DEF before
  <2>5. P4!Writer(Source(t, 1), before) = a /\ P4!Writer(Source(t, 2), before) = b
    BY <2>1, <2>2, WriterIs
  <2>6. P4!Operands(t) = {a, b} \ {NULL}
    BY <2>3, <2>4, <2>5
  <2> QED
    BY <1>1, <1>2, <1>3, <2>6
<1>4. CASE t \notin GoOn
  <2>1. a = src_arr[t][1] /\ b = src_arr[t][2]
    <3>1. 1 \in 1 .. 2 /\ 2 \in 1 .. 2
      OBVIOUS
    <3> QED
      BY <1>4, <3>1, SourcesAfter DEF a, b
  <2>2. WaitsFor[t] = {a, b} \ {NULL}
    <3>1. src_arr[t] \in [1 .. 2 -> Nat \cup {NULL}] /\ t \in DOMAIN src_arr
      BY DEF P3Inv, OperationsKnown
    <3>2. WaitsFor[t] = Range(src_arr[t]) \ {NULL}
      BY <3>1 DEF WaitsFor
    <3>3. Range(src_arr[t]) = {src_arr[t][1], src_arr[t][2]}
      BY <3>1 DEF Range
    <3> QED
      BY <2>1, <3>2, <3>3
  <2> QED
    BY <1>1, <1>2, <1>4, <2>2
<1> QED
  BY <1>3, <1>4

\* It is progress in both when something is dispatched or woken.
LEMMA SameProgress ==
    ASSUME P3Inv, Dispatch
    PROVE  LoopEnd.rest # dispatch_queue \/ src_arr' # LoopEnd.src
             <=> GoOn # {} \/ \E t \in InSchedule : P4!Sources(t) # WaitsFor[t]
<1>1. Dispatching(LoopEnd, GoOn)
  BY DispatchLoops DEF LoopEnd
<1>2. /\ Range(LoopEnd.rest) = Range(dispatch_queue) \ GoOn
      /\ GoOn = {} => LoopEnd.rest = dispatch_queue
      /\ LoopEnd.src \in [DOMAIN instr -> [1 .. 2 -> Nat \cup {NULL}]]
  BY <1>1 DEF Dispatching, LoopSet
<1>3. CASE GoOn # {}
  <2>1. LoopEnd.rest # dispatch_queue
    BY <1>2, <1>3, DispatchDoes
  <2> QED
    BY <1>3, <2>1
<1>4. CASE GoOn = {}
  <2>1. LoopEnd.rest = dispatch_queue
    BY <1>2, <1>4
  <2>2. src_arr \in [DOMAIN instr -> [1 .. 2 -> Nat \cup {NULL}]]
    BY DEF P3Inv, OperationsKnown
  <2>3. \A t \in DOMAIN instr, n \in 1 .. 2 : LoopEnd.src[t][n] = src_arr[t][n]
    BY <1>4, SourcesAfter
  <2>4. LoopEnd.src = src_arr
    <3> HIDE DEF LoopEnd
    <3>1. \A t \in DOMAIN instr : LoopEnd.src[t] = src_arr[t]
      BY <1>2, <2>2, <2>3
    <3> QED
      BY <1>2, <2>2, <3>1
  <2>5. \A t \in DOMAIN instr, n \in 1 .. 2 :
          src_arr'[t][n] = IF src_arr[t][n] \in BusTags THEN NULL ELSE src_arr[t][n]
    BY <2>3, SourcesAfter
  <2>6. src_arr' \in [DOMAIN instr -> [1 .. 2 -> Nat \cup {NULL}]]
    <3>1. \A t \in DOMAIN instr : src_arr'[t] \in [1 .. 2 -> Nat \cup {NULL}]
      <4>1. 1 \in 1 .. 2
        OBVIOUS
      <4> QED
        BY <4>1, SourcesAfter
    <3>2. src_arr' = [t \in DOMAIN instr |-> src_arr'[t]]
      BY DispatchDoes
    <3> QED
      BY <3>1, <3>2
  <2>7. NULL \notin BusTags
    BY DEF BusTags, OnBuses
  <2>8. ASSUME NEW t \in DOMAIN instr
        PROVE  /\ WaitsFor[t] = {src_arr[t][1], src_arr[t][2]} \ {NULL}
               /\ P4!Sources(t) = {src_arr'[t][1], src_arr'[t][2]} \ {NULL}
    <3>1. /\ src_arr[t] \in [1 .. 2 -> Nat \cup {NULL}] /\ t \in DOMAIN src_arr
          /\ src_arr'[t] \in [1 .. 2 -> Nat \cup {NULL}] /\ t \in DOMAIN src_arr'
      BY <2>2, <2>6
    <3>2. WaitsFor[t] = Range(src_arr[t]) \ {NULL} /\ WaitsFor'[t] = Range(src_arr'[t]) \ {NULL}
      BY <3>1 DEF WaitsFor
    <3>3. /\ Range(src_arr[t]) = {src_arr[t][1], src_arr[t][2]}
          /\ Range(src_arr'[t]) = {src_arr'[t][1], src_arr'[t][2]}
      BY <3>1 DEF Range
    <3>4. P4!Sources(t) = WaitsFor'[t]
      BY SourcesAre
    <3> QED
      BY <3>2, <3>3, <3>4
  <2>9. ASSUME src_arr' # src_arr PROVE \E t \in InSchedule : P4!Sources(t) # WaitsFor[t]
    <3>1. PICK t \in DOMAIN instr, n \in 1 .. 2 : src_arr'[t][n] # src_arr[t][n]
      <4>1. PICK t \in DOMAIN instr : src_arr'[t] # src_arr[t]
        BY <2>2, <2>6, <2>9
      <4>2. src_arr'[t] \in [1 .. 2 -> Nat \cup {NULL}] /\ src_arr[t] \in [1 .. 2 -> Nat \cup {NULL}]
        BY <2>2, <2>6
      <4>3. PICK n \in 1 .. 2 : src_arr'[t][n] # src_arr[t][n]
        BY <4>1, <4>2
      <4> QED
        BY <4>3
    <3>2. src_arr[t][n] \in BusTags /\ src_arr[t][n] # NULL
      BY <2>5, <2>7, <3>1
    <3>3. t \in InSchedule
      BY <3>2 DEF P3Inv, QueuesOrdered
    <3>4. src_arr[t][n] \in WaitsFor[t]
      <4>1. n = 1 \/ n = 2
        OBVIOUS
      <4> QED
        BY <2>8, <3>2, <4>1
    <3>5. src_arr[t][n] \notin P4!Sources(t)
      <4>1. src_arr'[t][1] \notin BusTags /\ src_arr'[t][2] \notin BusTags
        BY <2>5, <2>7
      <4> QED
        BY <2>8, <3>2, <4>1
    <3> QED
      BY <3>3, <3>4, <3>5
  <2>10. ASSUME src_arr' = src_arr PROVE \A t \in InSchedule : P4!Sources(t) = WaitsFor[t]
    BY <2>8, <2>10, QueuedKnown
  <2> QED
    BY <1>4, <2>1, <2>4, <2>9, <2>10
<1> QED
  BY <1>3, <1>4

\* Dispatch does what ProcessorP4 says.
LEMMA DispatchImplements == ASSUME P3Inv, Dispatch PROVE P4!Dispatch
<1>1. Range(dispatch_queue)' = Range(dispatch_queue) \ P4!Dispatched
      /\ InSchedule' = InSchedule \cup P4!Dispatched
  BY DispatchDoes, DispatchedIs
<1>2. WaitsFor' = [t \in DOMAIN SeenInstr |-> P4!Sources(t)]
  <2>1. DOMAIN SeenInstr = DOMAIN instr
    BY DEF SeenInstr
  <2>2. DOMAIN src_arr' = DOMAIN instr
    BY DispatchDoes
  <2>3. WaitsFor' = [t \in DOMAIN instr |-> WaitsFor'[t]]
    BY <2>2 DEF WaitsFor
  <2> QED
    BY <2>1, <2>3, SourcesAre
<1>3. regs' = [r \in Reg |-> P4!Writer(r, P4!Dispatched)]
  <2>1. \A r \in Reg : regs'[r] = P4!Writer(r, GoOn)
    BY DispatchDoes, WriterIs
  <2>2. regs' = [r \in Reg |-> regs'[r]]
    BY DispatchDoes
  <2> QED
    BY <2>1, <2>2, DispatchedIs
<1>4. P4!Goto("fetch", P4!Dispatched # {} \/ \E t \in InSchedule : P4!Sources(t) # WaitsFor[t])
  <2> DEFINE moved == LoopEnd.rest # dispatch_queue \/ src_arr' # LoopEnd.src
             moved4 == P4!Dispatched # {} \/ \E t \in InSchedule : P4!Sources(t) # WaitsFor[t]
  <2>1. stage' = "fetch" /\ progress' = (progress \/ moved)
    BY DEF Dispatch, Goto, LoopEnd, AllDispatched, AtFirst
  <2>2. moved <=> moved4
    BY SameProgress, DispatchedIs
  <2> HIDE DEF moved, moved4
  <2>3. P4!Goto("fetch", moved4)
    BY <2>1, <2>2 DEF P4!Goto
  <2> QED
    BY <2>3 DEF moved4
<1>5. UNCHANGED <<opsLeft, counter, SeenInstr, Range(state_update_queue), P4!unitVars, OnBuses,
                  Range(completed), P4!stallVars, i>>
  BY SeenUnchanged DEF Dispatch, P4!unitVars, P4!stallVars
<1>6. stage = "dispatch" /\ f' = 0
  BY DEF Dispatch
<1> QED
  BY <1>1, <1>2, <1>3, <1>4, <1>5, <1>6 DEF P4!Dispatch

-----------------------------------------------------------------------------
(* The steps together.                                                     *)

\* Every step keeps the invariant.
LEMMA P3InvStep == ASSUME P3Inv, [P3Next]_p3Vars PROVE P3Inv'
<1>1. CASE UNCHANGED p3Vars
  <2> USE DEF p3Vars, p3Queues
  <2>1. OperationsKnown'
    BY <1>1 DEF P3Inv, OperationsKnown
  <2>2. QueuesOrdered'
    BY <1>1, SeenUnchanged DEF P3Inv, QueuesOrdered, IsLong
  <2>3. FiredOnce'
    BY <1>1, SeenUnchanged DEF P3Inv, FiredOnce
  <2>4. DispatchBounded'
    BY <1>1 DEF P3Inv, DispatchBounded
  <2>5. FiredSomewhere'
    BY <1>1, SeenUnchanged DEF P3Inv, FiredSomewhere
  <2> QED
    BY <2>1, <2>2, <2>3, <2>4, <2>5 DEF P3Inv
<1>2. CASE Clock
  BY <1>2, ClockKeeps
<1>3. CASE UpdateState
  BY <1>3, UpdateStateKeeps
<1>4. CASE Execute
  BY <1>4, ExecuteKeeps
<1>5. CASE Schedule
  BY <1>5, ScheduleKeeps
<1>6. CASE Dispatch
  BY <1>6, DispatchKeeps
<1>7. CASE \E o \in Ops : Fetch(o)
  BY <1>7, FetchKeeps
<1>8. CASE \E o \in Ops : Drop(o)
  BY <1>8, DropKeeps
<1>9. CASE FetchEnds
  BY <1>9, FetchEndsKeeps
<1>10. CASE Retire
  BY <1>10, RetireKeeps
<1> QED
  BY <1>1, <1>2, <1>3, <1>4, <1>5, <1>6, <1>7, <1>8, <1>9, <1>10 DEF P3Next

\* Every step of the pipeline is one of ProcessorP4, or drops an operation.
LEMMA P3StepImplements ==
    ASSUME P3Inv, P3Next
    PROVE  P4!Next \/ \E o \in Ops : Drop(o)
<1>1. CASE Clock
  BY <1>1, ClockImplements DEF P4!Next
<1>2. CASE UpdateState
  BY <1>2, UpdateStateImplements DEF P4!Next
<1>3. CASE Execute
  BY <1>3, ExecuteImplements DEF P4!Next
<1>4. CASE Schedule
  BY <1>4, ScheduleImplements DEF P4!Next
<1>5. CASE Dispatch
  BY <1>5, DispatchImplements DEF P4!Next
<1>6. CASE \E o \in Ops : Fetch(o)
  <2>1. PICK o \in Ops : Fetch(o)
    BY <1>6
  <2>2. P4!Fetch(Seen(o), FALSE)
    BY <2>1, FetchImplements
  <2>3. Seen(o) \in {Seen(p) : p \in Ops} /\ FALSE \in BOOLEAN
    OBVIOUS
  <2> QED
    BY <2>2, <2>3 DEF P4!Next
<1>7. CASE \E o \in Ops : Drop(o)
  BY <1>7
<1>8. CASE FetchEnds
  BY <1>8, FetchEndsImplements DEF P4!Next
<1>9. CASE Retire
  BY <1>9, RetireImplements DEF P4!Next
<1> QED
  BY <1>1, <1>2, <1>3, <1>4, <1>5, <1>6, <1>7, <1>8, <1>9 DEF P3Next

\* The queues stay in order and within their sizes and hold what they should, and a
\* fired operation is in exactly one place: in one stage of one unit, in the state
\* update queue or completed (processor-p3/processor.c).
THEOREM P3InvHolds == P3Spec => []P3Inv
<1>1. P3Init => P3Inv
  BY P3InvInit
<1>2. P3Inv /\ [P3Next]_p3Vars => P3Inv'
  BY P3InvStep
<1> QED
  BY <1>1, <1>2, PTL DEF P3Spec

\* The pipeline of processor-p3 implements that of ProcessorP4: its queues of tags,
\* numbered units and loops do what the sets there say. Only the operations it
\* takes from the trace and drops are no step of ProcessorP4.
THEOREM PipelineImplementsP4 == P3Spec => ImplementsProcessorP4
<1> DEFINE Step == P4!Next \/ \E o \in Ops : Drop(o)
<1>1. P3Init => P4!Init
  BY InitImplements
<1>2. P3Inv /\ [P3Next]_p3Vars => [Step]_p3Vars
  BY P3StepImplements
<1>3. P3Spec => P4!Init /\ [][Step]_p3Vars
  <2> HIDE DEF Step
  <2> QED
    BY <1>1, <1>2, P3InvHolds, PTL DEF P3Spec
<1> QED
  BY <1>3 DEF ImplementsProcessorP4
=============================================================================
