----------------------- MODULE BranchPredictorProof -----------------------
(***************************************************************************)
(* The predictor never leaves its tables and never follows an empty entry  *)
(* of the branch target buffer, for tables of any size.                    *)
(***************************************************************************)
EXTENDS BranchPredictor, TLAPS

\* The index stays in the table, also when GSHARE mixes the history in.
LEMMA TagInIndex ==
    ASSUME BranchTypeOK, NEW pc \in Pc
    PROVE  Tag(pc) \in Index
<1> USE TableAssumption, HistoryAssumption, MixAssumption, AddressAssumption
<1> DEFINE slot == (pc \div 8) % MAX_TAG
<1>1. pc \div 8 \in Nat
  OBVIOUS
<1>2. slot \in 0 .. MAX_TAG - 1
  BY <1>1
<1>3. BHR \in 0 .. MAX_TAG - 1
  BY DEF BranchTypeOK
<1>4. Mix(slot, BHR) \in 0 .. MAX_TAG - 1
  BY <1>2, <1>3, MixAssumption
<1> QED
  BY <1>2, <1>4 DEF Tag, Index

\* The history stays within its bits.
LEMMA HistoryInRange ==
    ASSUME NEW h \in 0 .. HISTORY - 1, NEW taken \in BOOLEAN
    PROVE  Shifted(h, taken) \in 0 .. HISTORY - 1
<1>1. PICK half \in 1 .. MAX_TAG : HISTORY = 2 * half
  BY HistoryAssumption
<1> QED
  BY <1>1, TableAssumption DEF Shifted

\* A saturating counter keeps to its two bits.
LEMMA CounterInRange ==
    ASSUME NEW c \in 0 .. 3, NEW taken \in BOOLEAN
    PROVE  Saturated(c, taken) \in 0 .. 3
BY DEF Saturated

\* What holds of the tables in every state: types, and targets where a jump is
\* predicted.
TableInv == BranchTypeOK /\ TakenHasTarget

LEMMA TableInvInit == Init => TableInv
<1> SUFFICES ASSUME Init PROVE TableInv
  OBVIOUS
<1>1. BranchTypeOK
  BY HistoryAssumption, TableAssumption DEF Init, BranchTypeOK, WeaklyNotTaken
<1>2. TakenHasTarget
  BY DEF Init, TakenHasTarget, WeaklyNotTaken
<1> QED
  BY <1>1, <1>2 DEF TableInv

LEMMA TableInvStep ==
    ASSUME TableInv, NEW pc \in Pc, NEW outcome \in Target \cup {pc + 4},
           BranchRequest(pc, outcome)
    PROVE  TableInv'
<1> DEFINE tag   == Tag(pc)
           taken == outcome # pc + 4
<1>1. tag \in Index
  BY TagInIndex DEF TableInv
<1>2. outcome \in Address /\ pc + 4 \in Address /\ outcome # NULL
  BY NoEntryAssumption DEF Address
<1>3. counter' \in [Index -> 0 .. 3]
  <2>1. counter[tag] \in 0 .. 3
    BY <1>1 DEF TableInv, BranchTypeOK
  <2>2. Saturated(counter[tag], taken) \in 0 .. 3
    BY <2>1, CounterInRange
  <2> QED
    BY <1>1, <2>2 DEF BranchRequest, TableInv, BranchTypeOK
<1>4. BTB' \in [Index -> Address \cup {NULL}]
  BY <1>1, <1>2 DEF BranchRequest, TableInv, BranchTypeOK
<1>5. BHR' \in 0 .. HISTORY - 1
  BY HistoryInRange DEF BranchRequest, TableInv, BranchTypeOK
<1>6. answer' \in [pc : Pc, predicted : Address \cup {NULL}, outcome : Address]
  <2>1. Predicted(pc) \in Address \cup {NULL}
    BY <1>1, <1>2 DEF Predicted, TableInv, BranchTypeOK
  <2> QED
    BY <1>2, <2>1 DEF BranchRequest
<1>7. BranchTypeOK'
  BY <1>3, <1>4, <1>5, <1>6 DEF BranchRequest, TableInv, BranchTypeOK
<1>8. TakenHasTarget'
  <2> SUFFICES ASSUME NEW t \in Index, counter'[t] >= 2
               PROVE  BTB'[t] # NULL
    BY DEF TakenHasTarget
  <2>1. CASE t # tag
    BY <1>1, <2>1 DEF BranchRequest, TableInv, BranchTypeOK, TakenHasTarget
  <2>2. CASE t = tag /\ taken
    BY <1>1, <1>2, <2>2 DEF BranchRequest, TableInv, BranchTypeOK
  \* A counter that only went down was at least as high before.
  <2>3. CASE t = tag /\ ~taken
    <3>1. counter'[t] = Saturated(counter[t], FALSE)
      BY <1>1, <2>3 DEF BranchRequest, TableInv, BranchTypeOK
    <3>2. counter[t] \in 0 .. 3
      BY DEF TableInv, BranchTypeOK
    <3>3. counter[t] >= 2
      BY <3>1, <3>2 DEF Saturated
    <3> QED
      BY <2>3, <3>3 DEF BranchRequest, TableInv, TakenHasTarget
  <2> QED
    BY <2>1, <2>2, <2>3
<1> QED
  BY <1>7, <1>8 DEF TableInv

LEMMA TableInvHolds == Spec => []TableInv
<1>1. TableInv /\ [Next]_vars => TableInv'
  <2> SUFFICES ASSUME TableInv, [Next]_vars PROVE TableInv'
    OBVIOUS
  <2>1. CASE Next
    BY <2>1, TableInvStep DEF Next
  <2>2. CASE UNCHANGED vars
    BY <2>2 DEF vars, TableInv, BranchTypeOK, TakenHasTarget
  <2> QED
    BY <2>1, <2>2
<1> QED
  BY TableInvInit, <1>1, PTL DEF Spec

\* Every lookup of branchRequest stays inside counter and BTB (branch.c:91-134),
\* for tables and histories of any size with 1 <= b <= s.
THEOREM PredictorTypeCorrect == Spec => []BranchTypeOK
<1>1. TableInv => BranchTypeOK
  BY DEF TableInv
<1> QED
  BY TableInvHolds, <1>1, PTL

\* The assertion that a predicted jump has a target never fails (branch.c:103).
THEOREM TakenBranchesHaveTargets == Spec => []TakenHasTarget
<1>1. TableInv => TakenHasTarget
  BY DEF TableInv
<1> QED
  BY TableInvHolds, <1>1, PTL

=============================================================================
