-------------------------- MODULE BranchPredictor --------------------------
(***************************************************************************)
(* branch-p2/branch.c: a table of two-bit counters and a branch target     *)
(* buffer, indexed by address bits that GSHARE mixes with a history of     *)
(* outcomes. One request predicts a branch and then learns from its actual *)
(* outcome, which the trace has. All processors share the predictor.       *)
(*                                                                         *)
(* Of a buffer entry only the target is kept: its tag is never read. The   *)
(* models -g 2 and -g 3 index the table as DEFAULT does, -g 2 also keeps    *)
(* the history.                                                            *)
(***************************************************************************)
EXTENDS Integers

CONSTANTS
    Pc,                 \* addresses of the branches in the trace
    Target,             \* addresses they may jump to
    MAX_TAG,            \* entries of the tables, 2^s
    HISTORY,            \* values of the history register, 2^b
    Mix(_, _),          \* exclusive or of two numbers
    NULL                \* no entry

Address == Pc \cup Target \cup {pc + 4 : pc \in Pc}
Model   == {"DEFAULT", "GSHARE", "GSELECT", "YEH_PATT"}

ASSUME AddressAssumption == Pc \subseteq Nat /\ Target \subseteq Nat
ASSUME TableAssumption   == MAX_TAG \in Nat \ {0}
\* The history has at least one bit and no more than the index (1 <= b <= s).
\* With other options the index would leave the table.
ASSUME HistoryAssumption ==
    HISTORY \in 2 .. MAX_TAG /\ \E half \in 1 .. MAX_TAG : HISTORY = 2 * half
ASSUME MixAssumption ==
    \A x, y \in 0 .. MAX_TAG - 1 : Mix(x, y) \in 0 .. MAX_TAG - 1
ASSUME NoEntryAssumption == NULL \notin Address

VARIABLES
    g,                  \* the model of prediction (option -g)
    counter,            \* index -> two-bit counter
    BTB,                \* index -> target last jumped to, or NULL
    BHR,                \* the last outcomes, as a number
    answer              \* the last request and what it returned

vars == <<g, counter, BTB, BHR, answer>>

Index == 0 .. MAX_TAG - 1

BranchTypeOK ==
    /\ g \in Model
    /\ counter \in [Index -> 0 .. 3]
    /\ BTB \in [Index -> Address \cup {NULL}]
    /\ BHR \in 0 .. HISTORY - 1
    /\ answer \in [pc : Pc, predicted : Address \cup {NULL}, outcome : Address] \cup {NULL}

\* Slip: the counters start out as predicting a jump.
WeaklyTaken == 2

WeaklyNotTaken == 1

Init ==
    /\ g \in Model
    /\ counter = [t \in Index |-> WeaklyNotTaken]
    /\ BTB = [t \in Index |-> NULL]
    /\ BHR = 0
    /\ answer = NULL

-----------------------------------------------------------------------------
\* Where the tables are looked up.
Tag(pc) ==
    LET slot == (pc \div 8) % MAX_TAG
    IN IF g = "GSHARE" THEN Mix(slot, BHR) ELSE slot

Predicted(pc) == IF counter[Tag(pc)] >= 2 THEN BTB[Tag(pc)] ELSE pc + 4

\* Slip: a counter that has reached the far end wraps around.
Wrapped(c, taken) == IF taken THEN (c + 1) % 4 ELSE (c + 3) % 4

\* A saturating step towards the outcome.
Saturated(c, taken) ==
    IF taken THEN IF c < 3 THEN c + 1 ELSE c
             ELSE IF c > 0 THEN c - 1 ELSE c

\* Slip: the oldest outcome stays.
ShiftedOut(h, taken) == 2 * h + IF taken THEN 1 ELSE 0

\* The history with the newest outcome shifted in at the bottom.
Shifted(h, taken) ==
    (IF 2 * h >= HISTORY THEN 2 * h - HISTORY ELSE 2 * h) + IF taken THEN 1 ELSE 0

\* branchRequest: the prediction, then the update.
BranchRequest(pc, outcome) ==
    LET tag   == Tag(pc)
        taken == outcome # pc + 4
    IN /\ answer' = [pc |-> pc, predicted |-> Predicted(pc), outcome |-> outcome]
       /\ counter' = [counter EXCEPT ![tag] = Saturated(@, taken)]
       /\ BTB' = IF taken THEN [BTB EXCEPT ![tag] = outcome] ELSE BTB
       /\ BHR' = IF g \in {"GSHARE", "GSELECT"} THEN Shifted(BHR, taken) ELSE BHR
       /\ UNCHANGED g

Next == \E pc \in Pc : \E outcome \in Target \cup {pc + 4} : BranchRequest(pc, outcome)

Spec == Init /\ [][Next]_vars

\* A program that keeps executing every one of its branches.
LoopingSpec ==
    /\ Spec
    /\ \A pc \in Pc :
         WF_vars(\E outcome \in Target \cup {pc + 4} : BranchRequest(pc, outcome))

-----------------------------------------------------------------------------
\* An entry that would predict a jump has a target to predict: the assertion
\* before the buffer is dereferenced (branch.c:103), whichever branches share
\* the entry and whatever the history leads to it.
TakenHasTarget == \A t \in Index : counter[t] >= 2 => BTB[t] # NULL

\* Once every branch has a fixed outcome, every prediction is right from some
\* moment on, whatever was learnt before: in the model that uses addresses only,
\* and for branches that do not share an entry.
Steady(f) == <>[][answer' # NULL => answer'.outcome = f[answer'.pc]]_vars

LearnsSteadyBranches ==
    \A f \in [Pc -> Address] :
        g = "DEFAULT" /\ Steady(f) =>
            <>[](answer # NULL => answer.predicted = answer.outcome)

=============================================================================
