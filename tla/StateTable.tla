---------------------------- MODULE StateTable -----------------------------
(***************************************************************************)
(* The table of line states of one processor in coherence.c, kept in a     *)
(* splay tree. A line that is INVALID is not in the tree. Coherence has a  *)
(* function in the place of this table; here is why it may.                *)
(***************************************************************************)
EXTENDS SplayTree

CONSTANT State          \* states in use; INVALID is not stored

ASSUME StateAssumption == NULL \notin State /\ "INVALID" \notin State

VARIABLES
    tree,               \* coherStates[processorNum]
    request             \* the last call: line and new state

tableVars == <<tree, request>>

getState(a) == IF tree_find(tree, a) = NULL THEN "INVALID" ELSE tree_find(tree, a)

TableInit ==
    /\ tree = tree_new
    /\ request = [addr |-> CHOOSE a \in Key : TRUE, state |-> "INVALID"]

\* setState, from permReq and from the end of busReq.
SetState(a, st) ==
    /\ tree' = tree_insert(tree, a, st)
    /\ request' = [addr |-> a, state |-> st]

\* The end of busReq for a line that becomes INVALID.
SnoopInvalid(a) ==
    /\ tree' = IF getState(a) = "INVALID" THEN tree ELSE tree_remove(tree, a)
    /\ request' = [addr |-> a, state |-> "INVALID"]

\* invlReq removes the line without looking whether it is there.
Evict(a) ==
    /\ tree' = tree_remove(tree, a)
    /\ request' = [addr |-> a, state |-> "INVALID"]

TableNext ==
    \E a \in Key :
        \/ \E st \in State : SetState(a, st)
        \/ SnoopInvalid(a)
        \/ Evict(a)

TableSpec == TableInit /\ [][TableNext]_tableVars

-----------------------------------------------------------------------------
\* However keys are inserted and removed, the tree stays a search tree: splaying
\* and the four cases of removal relink five or six pointers each, and a link that
\* is wrong is followed only much later (stree.c:122, stree.c:188-275).
TreeWellFormed == WellFormed(tree)

\* Every search ends at the right node: at the key when the tree has it, and else
\* at the greatest smaller one for tree_find_nearest (stree.c:83, stree.c:100).
LookupsRight ==
    LET keys == Range(InOrder(tree))
    IN  \A key \in Key :
          /\ Has(tree, key) <=> key \in keys
          /\ Nearest(tree, key) =
               IF \E x \in keys : x <= key THEN Max({x \in keys : x <= key}) ELSE NULL

\* The table is a function from lines to states: a call changes the line it names,
\* and no other line is lost or changed when the tree is turned over.
Table == INSTANCE LineStates WITH
    Addr <- Key,
    State <- State \cup {"INVALID"},
    coherStates <- [a \in Key |-> getState(a)]

ImplementsLineStates == Table!Spec
=============================================================================
