----------------------------- MODULE SplayTree -----------------------------
(***************************************************************************)
(* stree.c: the splay tree that holds the states of lines, as operators on *)
(* trees. There is one node for each key, so a node is named by its key.   *)
(* A tree t has the fields of tree_t and of its nodes:                     *)
(*     t.root, t.child["left"][x], t.child["right"][x], t.parent[x],       *)
(*     t.record[x], t.node_count                                           *)
(* The fields of a node that is not in the tree are NULL. The counter of   *)
(* comparisons, which is only printed, is left out.                        *)
(***************************************************************************)
EXTENDS Integers, FiniteSetsExt, SequencesExt

CONSTANTS
    Key,
    NULL

ASSUME KeyAssumption == Key \subseteq Nat /\ IsFiniteSet(Key) /\ NULL \notin Nat

Side == {"left", "right"}

Opposite(side) == CHOOSE s \in Side : s # side

NoKeys == [x \in Key |-> NULL]

tree_new ==
    [root |-> NULL, child |-> [side \in Side |-> NoKeys], parent |-> NoKeys,
     record |-> NoKeys, node_count |-> 0]

-----------------------------------------------------------------------------
(* Looking for a key.                                                      *)

\* Where the code goes from node x to look for key.
Toward(key, x) == IF key > x THEN "right" ELSE "left"

\* The nodes that the search for key passes, the root first. It ends with key when
\* the tree has it, and with the node that key would be a child of when not.
Path(t, key) ==
    LET from[x \in Key \cup {NULL}] ==
            IF x = NULL THEN <<>>
            ELSE IF x = key THEN <<x>>
            ELSE <<x>> \o from[t.child[Toward(key, x)][x]]
    IN  from[t.root]

Has(t, key) == Contains(Path(t, key), key)

tree_find(t, key) == IF Has(t, key) THEN t.record[key] ELSE NULL

\* Slip: the last node passed, smaller or not.
LastPassed(t, key) == IF t.root = NULL THEN NULL ELSE Last(Path(t, key))

\* The node whose record tree_find_nearest returns: the greatest that the search
\* passes without going beyond key.
Nearest(t, key) ==
    LET passed == {x \in Range(Path(t, key)) : x <= key}
    IN  IF passed = {} THEN NULL ELSE Max(passed)

-----------------------------------------------------------------------------
(* Rotation and splaying.                                                  *)

\* Slip: the link up is forgotten.
AttachDown(t, side, x, y) == [t EXCEPT !.child[side][x] = y]

\* y, or nothing, becomes the child of x on that side.
Attach(t, side, x, y) ==
    LET down == [t EXCEPT !.child[side][x] = y]
    IN  IF y = NULL THEN down ELSE [down EXCEPT !.parent[y] = x]

SideOf(t, x) == IF t.child["left"][t.parent[x]] = x THEN "left" ELSE "right"

\* v takes the place of u below the parent of u.
replace(t, u, v) ==
    IF t.parent[u] # NULL THEN Attach(t, SideOf(t, u), t.parent[u], v)
    ELSE IF v = NULL THEN [t EXCEPT !.root = NULL]
    ELSE [t EXCEPT !.root = v, !.parent[v] = NULL]

\* left_rotate for side = "right" and right_rotate for "left": the child of x on
\* that side comes up, and x goes down on the other one. splay rotates only nodes
\* that have the child.
Rotate(t, x, side) ==
    LET y == t.child[side][x]
        handed == Attach(t, side, x, t.child[Opposite(side)][y])
    IN  Attach(replace(handed, x, y), Opposite(side), y, x)

\* One turn of the loop of splay: zig, zig-zig or zig-zag.
SplayStep(t, x) ==
    LET p == t.parent[x]
        g == t.parent[p]
    IN  IF g = NULL THEN Rotate(t, p, SideOf(t, x))
        ELSE IF SideOf(t, x) = SideOf(t, p)
        THEN Rotate(Rotate(t, g, SideOf(t, p)), p, SideOf(t, x))
        ELSE Rotate(Rotate(t, p, SideOf(t, x)), g, SideOf(t, p))

\* The loop: every turn brings x up, so that as many turns as there are keys do.
splay(t, x) ==
    LET after[n \in 0 .. Cardinality(Key)] ==
            IF n = 0 THEN t
            ELSE LET before == after[n - 1]
                 IN  IF before.parent[x] = NULL THEN before ELSE SplayStep(before, x)
    IN  after[Cardinality(Key)]

-----------------------------------------------------------------------------
(* Changing the tree.                                                      *)

\* Slip: a key that is there keeps its record, as in the tree of simpleCache.
InsertNewOnly(t, key, record) ==
    IF Has(t, key) THEN t
    ELSE LET p == Last(Path(t, key))
             placed == IF t.root = NULL THEN [t EXCEPT !.root = key]
                       ELSE Attach(t, Toward(key, p), p, key)
         IN  splay([placed EXCEPT !.record[key] = record, !.node_count = @ + 1], key)

\* A key that is there gets the new record and stays where it is.
tree_insert(t, key, record) ==
    IF Has(t, key) THEN [t EXCEPT !.record[key] = record]
    ELSE LET p == Last(Path(t, key))
             placed == IF t.root = NULL THEN [t EXCEPT !.root = key]
                       ELSE Attach(t, Toward(key, p), p, key)
         IN  splay([placed EXCEPT !.record[key] = record, !.node_count = @ + 1], key)

subtree_minimum(t, x) ==
    LET from[y \in Key] == IF t.child["left"][y] = NULL THEN y ELSE from[t.child["left"][y]]
    IN  from[x]

\* z, with two children, gives its place to the smallest node on its right.
Succeed(t, z) ==
    LET y == subtree_minimum(t, t.child["right"][z])
        freed == IF t.parent[y] = z THEN t
                 ELSE Attach(replace(t, y, t.child["right"][y]), "right", y, t.child["right"][z])
    IN  Attach(replace(freed, z, y), "left", y, freed.child["left"][z])

\* The node itself is freed.
Forgotten(t, z) ==
    [t EXCEPT !.child["left"][z] = NULL, !.child["right"][z] = NULL, !.parent[z] = NULL,
              !.record[z] = NULL, !.node_count = @ - 1]

tree_remove(t, z) ==
    IF ~Has(t, z) THEN t
    ELSE LET up == splay(t, z)
             left == up.child["left"][z]
             right == up.child["right"][z]
         IN  Forgotten(IF left = NULL THEN replace(up, z, right)
                       ELSE IF right = NULL THEN replace(up, z, left)
                       ELSE Succeed(up, z),
                       z)

-----------------------------------------------------------------------------
(* What a tree is.                                                         *)

\* The keys from the left to the right.
InOrder(t) ==
    LET below[x \in Key \cup {NULL}] ==
            IF x = NULL THEN <<>>
            ELSE below[t.child["left"][x]] \o <<x>> \o below[t.child["right"][x]]
    IN  below[t.root]

\* The keys are in order, the count is right, and the links up and down agree; the
\* nodes that have been freed are not linked from anywhere.
WellFormed(t) ==
    LET keys == InOrder(t)
    IN  /\ \A n \in 1 .. Len(keys) - 1 : keys[n] < keys[n + 1]
        /\ t.node_count = Len(keys)
        /\ t.root # NULL => t.parent[t.root] = NULL
        /\ \A x \in Key, side \in Side :
             t.child[side][x] # NULL =>
               {x, t.child[side][x]} \subseteq Range(keys) /\ t.parent[t.child[side][x]] = x
        /\ \A x \in Key : t.parent[x] # NULL =>
             \E side \in Side : t.child[side][t.parent[x]] = x
        /\ \A x \in Key : t.record[x] # NULL <=> x \in Range(keys)
=============================================================================
