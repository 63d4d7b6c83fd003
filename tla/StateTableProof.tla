-------------------------- MODULE StateTableProof --------------------------
(***************************************************************************)
(* The splay tree stays a search tree and the table above it a function    *)
(* from lines to states, for any finite set of keys.                       *)
(***************************************************************************)
EXTENDS StateTable, FiniteSetTheorems, SequenceTheorems, TLAPS

\* A property of 0 that passes from each number to the next holds of all of them.
LEMMA ByCounting ==
    ASSUME NEW T, 0 \in T, \A n \in Nat : n \in T => n + 1 \in T
    PROVE  Nat \subseteq T
<1> DEFINE R == OpToRel(<, Nat)
           Bad == Nat \ T
<1> SUFFICES ASSUME Bad # {} PROVE FALSE
  OBVIOUS
<1>1. PICK m \in Bad : \A n \in Bad : <<n, m>> \notin R
  BY WFMin, NatLessThanWellFounded
<1>2. \A n \in Bad : ~(n < m)
  BY <1>1 DEF OpToRel
<1>3. m - 1 \in Nat /\ m - 1 \in T
  BY <1>2
<1> QED
  BY <1>3

\* h is defined from its values on two sides.
Solves(h, X, z, l, r, b, G) ==
    h[z] = b /\ \A x \in X : h[x] = G[x][h[l[x]]][h[r[x]]]

\* A recursive definition over nodes that have a height: what is below a node,
\* on either side, is lower. Such a definition has a solution.
LEMMA RecursiveDefinition ==
    ASSUME NEW X, NEW z, z \notin X,
           NEW l \in [X -> X \cup {z}], NEW r \in [X -> X \cup {z}],
           NEW B \in Nat, NEW height \in [X -> 0 .. B],
           \A x \in X : l[x] # z => height[l[x]] < height[x],
           \A x \in X : r[x] # z => height[r[x]] < height[x],
           NEW V, NEW b \in V, NEW G \in [X -> [V -> [V -> V]]]
    PROVE  \E h \in [X \cup {z} -> V] : Solves(h, X, z, l, r, b, G)
<1> DEFINE Upto(h, n) == \A x \in X : height[x] < n => h[x] = G[x][h[l[x]]][h[r[x]]]
           T == {n \in Nat : \E h \in [X \cup {z} -> V] : h[z] = b /\ Upto(h, n)}
<1>1. 0 \in T
  <2>1. [x \in X \cup {z} |-> b] \in [X \cup {z} -> V]
    OBVIOUS
  <2>2. \A x \in X : ~(height[x] < 0)
    OBVIOUS
  <2> QED
    BY <2>1, <2>2
<1>2. ASSUME NEW n \in Nat, n \in T PROVE n + 1 \in T
  <2>1. PICK h \in [X \cup {z} -> V] : h[z] = b /\ Upto(h, n)
    BY <1>2
  <2> DEFINE g == [x \in X \cup {z} |->
                     IF x = z THEN b ELSE G[x][h[l[x]]][h[r[x]]]]
  <2>2. g \in [X \cup {z} -> V]
    OBVIOUS
  <2>3. \A x \in X : g[x] = G[x][h[l[x]]][h[r[x]]]
    OBVIOUS
  <2>4. \A x \in X \cup {z} : x = z \/ height[x] < n => g[x] = h[x]
    BY <2>1, <2>3
  <2>5. Upto(g, n + 1)
    <3> SUFFICES ASSUME NEW x \in X, height[x] < n + 1
                 PROVE  g[x] = G[x][g[l[x]]][g[r[x]]]
      OBVIOUS
    <3>1. l[x] \in X \cup {z} /\ (l[x] = z \/ height[l[x]] < n)
      <4> HIDE DEF g
      <4> QED OBVIOUS
    <3>2. r[x] \in X \cup {z} /\ (r[x] = z \/ height[r[x]] < n)
      <4> HIDE DEF g
      <4> QED OBVIOUS
    <3>3. g[l[x]] = h[l[x]] /\ g[r[x]] = h[r[x]]
      BY <2>4, <3>1, <3>2
    <3> QED
      BY <2>3, <3>3
  <2>6. g[z] = b
    OBVIOUS
  <2> HIDE DEF g, Upto
  <2> QED
    BY <2>2, <2>5, <2>6
<1>3. B + 1 \in T
  <2> HIDE DEF T
  <2>1. Nat \subseteq T
    BY <1>1, <1>2, ByCounting
  <2> QED
    BY <2>1
<1>4. PICK h \in [X \cup {z} -> V] : h[z] = b /\ Upto(h, B + 1)
  BY <1>3
<1>5. \A x \in X : height[x] < B + 1
  OBVIOUS
<1> QED
  BY <1>4, <1>5 DEF Solves

\* g and h agree at a node when they agree on both sides of it.
Alike(g, h, X, z, l, r) ==
    g[z] = h[z] /\ \A x \in X : g[l[x]] = h[l[x]] /\ g[r[x]] = h[r[x]] => g[x] = h[x]

\* It has only one: functions that are alike in this way are the same.
LEMMA OneSolution ==
    ASSUME NEW X, NEW z, z \notin X,
           NEW l \in [X -> X \cup {z}], NEW r \in [X -> X \cup {z}],
           NEW B \in Nat, NEW height \in [X -> 0 .. B],
           \A x \in X : l[x] # z => height[l[x]] < height[x],
           \A x \in X : r[x] # z => height[r[x]] < height[x],
           NEW g, NEW h, Alike(g, h, X, z, l, r)
    PROVE  \A x \in X : g[x] = h[x]
<1> g[z] = h[z] /\ \A x \in X : g[l[x]] = h[l[x]] /\ g[r[x]] = h[r[x]] => g[x] = h[x]
  BY DEF Alike
<1> DEFINE T == {n \in Nat : \A x \in X : height[x] < n => g[x] = h[x]}
<1>1. 0 \in T
  OBVIOUS
<1>2. ASSUME NEW n \in Nat, n \in T PROVE n + 1 \in T
  <2> SUFFICES ASSUME NEW x \in X, height[x] < n + 1 PROVE g[x] = h[x]
    OBVIOUS
  <2>1. \A y \in X : height[y] < n => g[y] = h[y]
    BY <1>2
  <2>2. l[x] \in X \cup {z} /\ (l[x] = z \/ height[l[x]] < n)
    OBVIOUS
  <2>3. r[x] \in X \cup {z} /\ (r[x] = z \/ height[r[x]] < n)
    OBVIOUS
  <2> QED
    BY <2>1, <2>2, <2>3
<1>3. B + 1 \in T
  <2> HIDE DEF T
  <2>1. Nat \subseteq T
    BY <1>1, <1>2, ByCounting
  <2> QED
    BY <2>1
<1> QED
  BY <1>3

-----------------------------------------------------------------------------
(* What the pointers of a tree mean: S gives for every node the keys of its *)
(* subtree.                                                                *)

TreeType ==
    [root : Key \cup {NULL},
     child : [Side -> [Key -> Key \cup {NULL}]],
     parent : [Key -> Key \cup {NULL}],
     record : [Key -> State \cup {NULL}],
     node_count : Int]

SubtreesType == [Key \cup {NULL} -> SUBSET Key]

\* u may stand on that side of v.
OnSide(side, u, v) == IF side = "left" THEN u < v ELSE v < u

\* The subtree of a node: itself and what is below it on both sides.
Down(t, S, N, x) ==
    /\ S[x] \subseteq N
    /\ S[x] = {x} \cup S[t.child["left"][x]] \cup S[t.child["right"][x]]
    /\ \A side \in Side :
         /\ \A u \in S[t.child[side][x]] : OnSide(side, u, x)
         /\ t.child[side][x] # NULL =>
              t.child[side][x] \in N /\ t.parent[t.child[side][x]] = x

\* The way up from a node.
Up(t, N, x) ==
    x # t.root => t.parent[x] \in N /\ \E side \in Side : t.child[side][t.parent[x]] = x

NodeRight(t, S, x) == Down(t, S, S[t.root], x) /\ Up(t, S[t.root], x)

\* A key that is not in the tree has no links.
NodeFree(t, S, x) ==
    /\ S[x] = {}
    /\ \A side \in Side : t.child[side][x] = NULL
    /\ t.parent[x] = NULL

\* The links of the tree are right.
Linked(t, S) ==
    /\ t \in TreeType
    /\ S \in SubtreesType
    /\ S[NULL] = {}
    /\ t.root # NULL => t.root \in S[t.root] /\ t.parent[t.root] = NULL
    /\ \A x \in S[t.root] : NodeRight(t, S, x)
    /\ \A x \in Key \ S[t.root] : NodeFree(t, S, x)

\* NULL is not a key.
LEMMA NullNoKey ==
    NULL \notin Key
  BY KeyAssumption

\* What is below a node is lower than the node.
LEMMA Heights ==
    ASSUME NEW t, NEW S, Linked(t, S)
    PROVE  /\ Cardinality(Key) \in Nat
           /\ \A x \in Key : Cardinality(S[x]) \in 0 .. Cardinality(Key)
           /\ \A x \in Key, side \in Side :
                t.child[side][x] # NULL => Cardinality(S[t.child[side][x]]) < Cardinality(S[x])
<1>1. IsFiniteSet(Key) /\ Cardinality(Key) \in Nat
  BY KeyAssumption, FS_CardinalityType
<1>2. \A x \in Key : S[x] \subseteq Key
  BY DEF Linked, SubtreesType
<1>3. ASSUME NEW x \in Key PROVE Cardinality(S[x]) \in 0 .. Cardinality(Key) /\ IsFiniteSet(S[x])
  <2>1. IsFiniteSet(S[x]) /\ Cardinality(S[x]) <= Cardinality(Key)
    BY <1>1, <1>2, FS_Subset
  <2>2. Cardinality(S[x]) \in Nat
    BY <2>1, FS_CardinalityType
  <2> QED
    BY <2>1, <2>2, <1>1
<1>4. ASSUME NEW x \in Key, NEW side \in Side, t.child[side][x] # NULL
      PROVE  Cardinality(S[t.child[side][x]]) < Cardinality(S[x])
  <2> DEFINE c == t.child[side][x]
  <2>1. x \in S[t.root]
    BY <1>4 DEF Linked, NodeFree
  <2>2. NodeRight(t, S, x)
    BY <2>1 DEF Linked
  <2>3. S[c] \subseteq S[x] /\ x \in S[x]
    BY <2>2 DEF NodeRight, Down, Up, Side
  <2>4. x \notin S[c]
    <3>1. \A u \in S[c] : OnSide(side, u, x)
      BY <2>2 DEF NodeRight, Down, Up
    <3>2. ~OnSide(side, x, x)
      BY KeyAssumption DEF OnSide
    <3> QED
      BY <3>1, <3>2
  <2>5. IsFiniteSet(S[x])
    BY <1>3
  <2> HIDE DEF c
  <2>6. IsFiniteSet(S[c]) /\ Cardinality(S[c]) <= Cardinality(S[x])
        /\ Cardinality(S[c]) # Cardinality(S[x])
    BY <2>3, <2>4, <2>5, FS_Subset
  <2>7. Cardinality(S[c]) \in Nat /\ Cardinality(S[x]) \in Nat
    BY <2>5, <2>6, FS_CardinalityType
  <2> QED
    BY <2>6, <2>7 DEF c
<1> QED
  BY <1>1, <1>3, <1>4

\* Induction over a tree, from the leaves up.
LEMMA FromLeavesUp ==
    ASSUME NEW t, NEW S, Linked(t, S), NEW Good,
           \A x \in S[t.root] :
              (\A side \in Side : t.child[side][x] \in Good \cup {NULL}) => x \in Good
    PROVE  S[t.root] \subseteq Good
<1> DEFINE R == OpToRel(<, Nat)
           height(x) == Cardinality(S[x])
           Bad == {x \in S[t.root] : x \notin Good}
           H == {height(x) : x \in Bad}
<1> SUFFICES ASSUME Bad # {} PROVE FALSE
  OBVIOUS
<1>1. S[t.root] \subseteq Key
  BY NullNoKey DEF Linked, SubtreesType, TreeType
<1>2. H \subseteq Nat /\ H # {}
  BY <1>1, Heights
<1>3. PICK m \in H : \A n \in H : <<n, m>> \notin R
  BY <1>2, WFMin, NatLessThanWellFounded
<1>4. \A n \in H : ~(n < m)
  BY <1>2, <1>3 DEF OpToRel
<1>5. PICK x \in Bad : m = height(x)
  BY <1>3
<1>6. ASSUME NEW side \in Side PROVE t.child[side][x] \in Good \cup {NULL}
  <2> SUFFICES ASSUME t.child[side][x] # NULL, t.child[side][x] \notin Good PROVE FALSE
    OBVIOUS
  <2>1. t.child[side][x] \in S[t.root]
    BY <1>5 DEF Linked, NodeRight, Down, Up
  <2>2. t.child[side][x] \in Bad
    BY <2>1
  <2>3. height(t.child[side][x]) < height(x)
    BY <1>1, <1>5, Heights
  <2> QED
    BY <2>2, <2>3, <1>4, <1>5
<1> QED
  BY <1>5, <1>6

\* A subtree holds the subtrees of its nodes.
LEMMA Nested ==
    ASSUME NEW t, NEW S, Linked(t, S)
    PROVE  \A x \in S[t.root] : x \in Key /\ x \in S[x] /\ \A y \in S[x] : S[y] \subseteq S[x]
<1> DEFINE Good == {x \in S[t.root] : \A y \in S[x] : S[y] \subseteq S[x]}
<1>1. ASSUME NEW x \in S[t.root], \A side \in Side : t.child[side][x] \in Good \cup {NULL}
      PROVE  \A y \in S[x] : S[y] \subseteq S[x]
  <2>1. S[x] = {x} \cup S[t.child["left"][x]] \cup S[t.child["right"][x]]
    BY DEF Linked, NodeRight, Down, Up
  <2>2. ASSUME NEW side \in Side, NEW y \in S[t.child[side][x]] PROVE S[y] \subseteq S[t.child[side][x]]
    <3>1. t.child[side][x] # NULL
      BY <2>2 DEF Linked
    <3> QED
      BY <1>1, <3>1
  <2> HIDE DEF Good
  <2> QED
    BY <2>1, <2>2 DEF Side
<1>2. S[t.root] \subseteq Good
  <2>1. \A x \in S[t.root] :
              (\A side \in Side : t.child[side][x] \in Good \cup {NULL}) => x \in Good
    BY <1>1
  <2> HIDE DEF Good
  <2> QED
    BY <2>1, FromLeavesUp
<1>3. S[t.root] \subseteq Key
  BY NullNoKey DEF Linked, SubtreesType, TreeType
<1>4. \A x \in S[t.root] : x \in S[x]
  BY DEF Linked, NodeRight, Down, Up
<1> QED
  BY <1>2, <1>3, <1>4

\* Path, as a function of the node where the search starts.
SearchFrom(t, key, p) ==
    /\ p \in [Key \cup {NULL} -> Seq(Key)]
    /\ p[NULL] = <<>>
    /\ \A x \in Key : p[x] = IF x = key THEN <<x>>
                             ELSE <<x>> \o p[t.child[Toward(key, x)][x]]

\* The search goes down, so that it ends.
LEMMA PathDefinition ==
    ASSUME NEW t, NEW S, Linked(t, S), NEW key \in Key
    PROVE  \E p : SearchFrom(t, key, p) /\ Path(t, key) = p[t.root]
<1> DEFINE next(x) == t.child[Toward(key, x)][x]
           l == [x \in Key |-> next(x)]
           height == [x \in Key |-> Cardinality(S[x])]
           B == Cardinality(Key)
           V == Seq(Key)
           G == [x \in Key |-> [u \in V |-> [v \in V |-> IF x = key THEN <<x>> ELSE <<x>> \o u]]]
           Eq(p) == p = [x \in Key \cup {NULL} |->
                           IF x = NULL THEN <<>> ELSE IF x = key THEN <<x>> ELSE <<x>> \o p[next(x)]]
<1>1. \A x \in Key : Toward(key, x) \in Side /\ next(x) \in Key \cup {NULL}
  BY DEF Linked, TreeType, Toward, Side
<1>2. \A x \in Key : l[x] # NULL => height[l[x]] < height[x]
  BY <1>1, Heights
<1>3. l \in [Key -> Key \cup {NULL}] /\ height \in [Key -> 0 .. B] /\ B \in Nat
  BY <1>1, Heights
<1>4. G \in [Key -> [V -> [V -> V]]] /\ <<>> \in V
  OBVIOUS
<1>5. PICK h \in [Key \cup {NULL} -> V] : Solves(h, Key, NULL, l, l, <<>>, G)
  <2> HIDE DEF l, height, V, G, B, next
  <2> QED
    BY <1>2, <1>3, <1>4, NullNoKey, RecursiveDefinition
<1>6. h[NULL] = <<>> /\ \A x \in Key : h[x] = IF x = key THEN <<x>> ELSE <<x>> \o h[next(x)]
  BY <1>1, <1>5 DEF Solves
<1>7. Eq(h)
  <2> HIDE DEF next, V
  <2> QED
    BY <1>5, <1>6, NullNoKey
<1> DEFINE p == CHOOSE q : Eq(q)
<1>8. Eq(p)
  BY <1>7
<1>9. Path(t, key) = p[t.root]
  BY DEF Path
<1>10. DOMAIN p = Key \cup {NULL} /\ p[NULL] = <<>>
       /\ \A x \in Key : p[x] = IF x = key THEN <<x>> ELSE <<x>> \o p[next(x)]
  <2> HIDE DEF p, next
  <2> QED
    BY <1>8, NullNoKey
<1> HIDE DEF p
<1>11. \A x \in Key : p[x] = h[x]
  <2>1. \A x \in Key : p[l[x]] = h[l[x]] => p[x] = h[x]
    BY <1>6, <1>10
  <2>2. p[NULL] = h[NULL]
    BY <1>6, <1>10
  <2> HIDE DEF l, height, V, G, B, next
  <2>3. Alike(p, h, Key, NULL, l, l)
    BY <2>1, <2>2 DEF Alike
  <2> QED
    BY <1>2, <1>3, <2>3, NullNoKey, OneSolution
<1>12. p \in [Key \cup {NULL} -> Seq(Key)]
  <2>1. \A x \in Key \cup {NULL} : p[x] \in V
    BY <1>5, <1>6, <1>10, <1>11
  <2>2. p = [x \in DOMAIN p |-> p[x]]
    <3> HIDE DEF next
    <3> QED
      BY <1>8, <1>10
  <2> QED
    BY <1>10, <2>1, <2>2
<1> QED
  BY <1>9, <1>10, <1>12 DEF SearchFrom

-----------------------------------------------------------------------------
(* The search for a key.                                                   *)

\* One more in front of a sequence.
LEMMA InFront ==
    ASSUME NEW V, NEW x \in V, NEW s \in Seq(V)
    PROVE  /\ <<x>> \o s \in Seq(V)
           /\ Len(<<x>> \o s) = Len(s) + 1
           /\ Range(<<x>> \o s) = {x} \cup Range(s)
           /\ Last(<<x>> \o s) = IF s = <<>> THEN x ELSE Last(s)
<1> DEFINE w == <<x>> \o s
<1>1. <<x>> \in Seq(V) /\ Len(<<x>>) = 1 /\ <<x>>[1] = x
  OBVIOUS
<1>2. w \in Seq(V) /\ Len(w) = Len(s) + 1 /\ w[1] = x
      /\ \A n \in 1 .. Len(s) : w[n + 1] = s[n]
  OBVIOUS
<1>3. Len(s) \in Nat /\ DOMAIN s = 1 .. Len(s) /\ DOMAIN w = 1 .. Len(w)
  OBVIOUS
<1> HIDE DEF w
<1>4. Range(w) = {x} \cup Range(s)
  <2>1. ASSUME NEW n \in DOMAIN w PROVE w[n] \in {x} \cup Range(s)
    <3>1. n = 1 \/ n - 1 \in 1 .. Len(s)
      BY <1>2, <1>3
    <3>2. n - 1 \in 1 .. Len(s) => w[n] = s[n - 1]
      BY <1>2
    <3> QED
      BY <3>1, <3>2, <1>2, <1>3 DEF Range
  <2>2. ASSUME NEW n \in DOMAIN s PROVE s[n] \in Range(w)
    <3>1. n + 1 \in DOMAIN w /\ s[n] = w[n + 1]
      BY <1>2, <1>3
    <3> QED
      BY <3>1 DEF Range
  <2>3. x \in Range(w)
    BY <1>2, <1>3 DEF Range
  <2> QED
    BY <2>1, <2>2, <2>3 DEF Range
<1>5. Last(w) = IF s = <<>> THEN x ELSE Last(s)
  <2>1. CASE s = <<>>
    BY <2>1, <1>2 DEF Last
  <2>2. CASE s # <<>>
    <3>1. Len(s) \in 1 .. Len(s)
      BY <2>2, <1>3
    <3> QED
      BY <2>2, <3>1, <1>2 DEF Last
  <2> QED
    BY <2>1, <2>2
<1> QED
  BY <1>2, <1>4, <1>5 DEF w

\* The two sides.
LEMMA Sides ==
    /\ Opposite("left") = "right" /\ Opposite("right") = "left"
    /\ "left" \in Side /\ "right" \in Side /\ \A s \in Side : s = "left" \/ s = "right"
<1>1. \A s \in Side : s # "left" <=> s = "right"
  BY DEF Side
<1>2. "left" \in Side /\ "right" \in Side
  BY DEF Side
<1> QED
  BY <1>1, <1>2 DEF Opposite

\* The search goes to one of the sides.
LEMMA TowardSide ==
    ASSUME NEW key, NEW x
    PROVE  Toward(key, x) \in Side /\ Opposite(Toward(key, x)) \in Side
  BY Sides DEF Toward

\* key belongs at the place below q where the search for it ended: q is on its side
\* of all nodes that q is below.
Belongs(t, S, key, x, q) ==
    /\ q \in S[x]
    /\ t.child[Toward(key, q)][q] = NULL
    /\ \A y \in S[x] : q \in S[y] => y = q \/ q \in S[t.child[Toward(key, y)][y]]

\* What the search below x passes.
SearchRight(t, S, key, x, passed) ==
    /\ passed # <<>>
    /\ Range(passed) \subseteq S[x]
    /\ key \in S[x] <=> key \in Range(passed)
    /\ \A u \in S[x] : u <= key => \E v \in Range(passed) : u <= v /\ v <= key
    /\ key \notin S[x] => Belongs(t, S, key, x, Last(passed))

\* The search for a key finds it when it is there, passes the key that comes next
\* before it, and ends where it belongs when it is not there.
LEMMA Searched ==
    ASSUME NEW t, NEW S, Linked(t, S), NEW key \in Key, NEW p, SearchFrom(t, key, p)
    PROVE  \A x \in S[t.root] : SearchRight(t, S, key, x, p[x])
<1> DEFINE Good == {x \in S[t.root] : SearchRight(t, S, key, x, p[x])}
<1>1. ASSUME NEW x \in S[t.root], \A side \in Side : t.child[side][x] \in Good \cup {NULL}
      PROVE  SearchRight(t, S, key, x, p[x])
  <2> DEFINE c == t.child[Toward(key, x)][x]
             o == t.child[Opposite(Toward(key, x))][x]
  <2>1. x \in Key /\ S[x] \subseteq Key
    BY Nested DEF Linked, SubtreesType
  <2>2. S[x] = {x} \cup S[c] \cup S[o]
    BY Sides DEF Linked, NodeRight, Down, Up, Toward
  <2>3. \A u \in S[c] : IF key > x THEN x < u ELSE u < x
    BY TowardSide DEF Linked, NodeRight, Down, Up, OnSide, Toward
  <2>4. \A u \in S[o] : IF key > x THEN u < x ELSE x < u
    BY TowardSide, Sides DEF Linked, NodeRight, Down, Up, OnSide, Toward
  <2>5. c \in Good \cup {NULL} /\ c \in Key \cup {NULL}
    BY <1>1, <2>1, TowardSide DEF Linked, TreeType
  <2>6. S[NULL] = {} /\ p[NULL] = <<>>
    BY DEF Linked, SearchFrom
  <2>7. p[x] = IF x = key THEN <<x>> ELSE <<x>> \o p[c]
    BY <2>1 DEF SearchFrom
  <2>8. p[c] \in Seq(Key) /\ p[x] \in Seq(Key)
    BY <2>1, <2>5 DEF SearchFrom
  <2>9. Key \subseteq Int
    BY KeyAssumption
  <2> HIDE DEF c, o
  <2>13. \A u \in {x} \cup S[o] : u <= key => x <= key /\ u <= x
    <3> SUFFICES ASSUME NEW u \in {x} \cup S[o], u <= key PROVE x <= key /\ u <= x
      OBVIOUS
    <3>1. u \in Int /\ x \in Int /\ key \in Int
      BY <2>1, <2>2, <2>9
    <3>2. CASE u = x
      BY <3>1, <3>2
    <3>3. CASE u \in S[o]
      <4>1. IF key > x THEN u < x ELSE x < u
        BY <3>3, <2>4
      <4> QED
        BY <3>1, <4>1
    <3> QED
      BY <3>2, <3>3
  <2>10. CASE x = key
    <3>1. p[x] = <<x>> /\ Range(p[x]) = {x} /\ p[x] # <<>>
      BY <2>7, <2>10 DEF Range
    <3> QED
      BY <3>1, <2>2, <2>9, <2>1, <2>10 DEF SearchRight
  <2>11. CASE x # key
    <3>1. p[x] = <<x>> \o p[c]
      BY <2>7, <2>11
    <3>2. Range(p[x]) = {x} \cup Range(p[c]) /\ Len(p[x]) = Len(p[c]) + 1
          /\ Last(p[x]) = IF p[c] = <<>> THEN x ELSE Last(p[c])
      BY <3>1, <2>8, <2>1, InFront
    <3>3. p[x] # <<>>
      BY <3>2, <2>8
    <3>4. key \notin S[o] /\ x \notin S[c] /\ x \notin S[o]
      BY <2>3, <2>4, <2>1, <2>9, <2>11
    <3>5. CASE c = NULL
      <4>1. p[c] = <<>> /\ S[c] = {} /\ Range(p[c]) = {}
        BY <2>6, <3>5 DEF Range
      <4>2. S[x] = {x} \cup S[o] /\ Range(p[x]) = {x} /\ Last(p[x]) = x
        BY <4>1, <3>2, <2>2
      <4>3. \A u \in S[x] : u <= key => x <= key /\ u <= x
        BY <4>2, <2>13
      <4>4. Belongs(t, S, key, x, x)
        <5>1. t.child[Toward(key, x)][x] = NULL
          BY <3>5 DEF c
        <5>2. ASSUME NEW y \in S[x], x \in S[y], y # x PROVE FALSE
          <6>1. y \in S[o]
            BY <4>2, <5>2
          <6>2. o # NULL /\ o \in S[t.root]
            BY <6>1, <2>6, TowardSide DEF Linked, NodeRight, Down, Up, o
          <6>3. S[y] \subseteq S[o]
            BY <6>1, <6>2, Nested
          <6> QED
            BY <6>3, <5>2, <3>4
        <5> QED
          BY <5>1, <5>2, <4>2 DEF Belongs
      <4> QED
        BY <4>2, <4>3, <4>4, <3>3, <3>4, <2>11 DEF SearchRight
    <3>6. CASE c # NULL
      <4>1. SearchRight(t, S, key, c, p[c]) /\ c \in S[t.root]
        BY <2>5, <3>6
      <4>2. Last(p[x]) = Last(p[c]) /\ S[x] = {x} \cup S[c] \cup S[o]
            /\ Range(p[x]) = {x} \cup Range(p[c])
        BY <3>2, <4>1, <2>2 DEF SearchRight
      <4>3. Range(p[x]) \subseteq S[x] /\ (key \in S[x] <=> key \in Range(p[x]))
        BY <4>1, <4>2, <3>4, <2>11 DEF SearchRight
      <4>4. ASSUME NEW u \in S[x], u <= key PROVE \E v \in Range(p[x]) : u <= v /\ v <= key
        <5>1. CASE u \in S[c]
          BY <5>1, <4>1, <4>2, <4>4 DEF SearchRight
        <5>2. CASE u \notin S[c]
          <6>1. x <= key /\ u <= x
            BY <5>2, <4>2, <4>4, <2>13
          <6> QED
            BY <6>1, <4>2
        <5> QED
          BY <5>1, <5>2
      <4>5. ASSUME key \notin S[x] PROVE Belongs(t, S, key, x, Last(p[x]))
        <5> DEFINE q == Last(p[c])
        <5>1. Belongs(t, S, key, c, q)
          BY <4>1, <4>2, <4>5 DEF SearchRight
        <5>2. q \in S[x] /\ t.child[Toward(key, q)][q] = NULL /\ q \in S[c]
          BY <5>1, <4>2 DEF Belongs
        <5> HIDE DEF q
        <5>3. ASSUME NEW y \in S[x], q \in S[y], y # q PROVE q \in S[t.child[Toward(key, y)][y]]
          <6>1. CASE y = x
            BY <6>1, <5>2 DEF c
          <6>2. CASE y \in S[c]
            BY <6>2, <5>1, <5>3 DEF Belongs
          <6>3. CASE y \in S[o]
            <7>2. o # NULL /\ o \in S[t.root]
              BY <6>3, <2>6, TowardSide DEF Linked, NodeRight, Down, Up, o
            <7>3. q \in S[o]
              BY <6>3, <7>2, <5>3, Nested
            <7>4. (IF key > x THEN x < q ELSE q < x) /\ (IF key > x THEN q < x ELSE x < q)
              BY <7>3, <5>2, <2>3, <2>4
            <7>5. q \in Int /\ x \in Int
              BY <5>2, <2>1, <2>9
            <7>6. FALSE
              BY <7>4, <7>5
            <7> QED
              BY <7>6
          <6> QED
            BY <6>1, <6>2, <6>3, <4>2
        <5>4. Belongs(t, S, key, x, q)
          BY <5>2, <5>3 DEF Belongs
        <5> QED
          BY <5>4, <4>2 DEF q
      <4> QED
        BY <4>3, <4>4, <4>5, <3>3 DEF SearchRight
    <3> QED
      BY <3>5, <3>6
  <2> QED
    BY <2>10, <2>11
<1>2. S[t.root] \subseteq Good
  <2>1. \A x \in S[t.root] :
              (\A side \in Side : t.child[side][x] \in Good \cup {NULL}) => x \in Good
    BY <1>1
  <2> HIDE DEF Good
  <2> QED
    BY <2>1, FromLeavesUp
<1> QED
  BY <1>2

-----------------------------------------------------------------------------
(* Links, pointer by pointer.                                              *)

SameContents(r, t) == r.record = t.record /\ r.node_count = t.node_count

\* r is t where y is the child of x on that side.
Attached(r, t, side, x, y) ==
    /\ r \in TreeType
    /\ SameContents(r, t)
    /\ r.root = t.root
    /\ \A s \in Side, w \in Key :
         r.child[s][w] = IF w = x /\ s = side THEN y ELSE t.child[s][w]
    /\ \A w \in Key : r.parent[w] = IF w = y THEN x ELSE t.parent[w]

\* r is t where v stands below the parent of u.
Replaced(r, t, u, v) ==
    /\ r \in TreeType
    /\ SameContents(r, t)
    /\ r.root = IF t.parent[u] = NULL THEN v ELSE t.root
    /\ \A s \in Side, w \in Key :
         r.child[s][w] = IF w = t.parent[u] /\ s = SideOf(t, u) THEN v ELSE t.child[s][w]
    /\ \A w \in Key : r.parent[w] = IF w = v THEN t.parent[u] ELSE t.parent[w]

\* What Attach leaves.
LEMMA AttachLinks ==
    ASSUME NEW t \in TreeType, NEW side \in Side, NEW x \in Key, NEW y \in Key \cup {NULL}
    PROVE  Attached(Attach(t, side, x, y), t, side, x, y)
<1> DEFINE r == Attach(t, side, x, y)
           down == [t EXCEPT !.child[side][x] = y]
           child == [t.child EXCEPT ![side] = [t.child[side] EXCEPT ![x] = y]]
<1>1. down = [t EXCEPT !.child = child]
  BY DEF TreeType
<1>2. child \in [Side -> [Key -> Key \cup {NULL}]]
      /\ \A s \in Side, w \in Key : child[s][w] = IF s = side /\ w = x THEN y ELSE t.child[s][w]
  BY DEF TreeType
<1> HIDE DEF child
<1>3. down \in TreeType /\ down.child = child /\ down.parent = t.parent /\ down.root = t.root
      /\ SameContents(down, t)
  BY <1>1, <1>2 DEF TreeType, SameContents
<1>4. r = IF y = NULL THEN down ELSE [down EXCEPT !.parent[y] = x]
  BY DEF Attach
<1> HIDE DEF down
<1>5. CASE y = NULL
  BY <1>2, <1>3, <1>4, <1>5, NullNoKey DEF Attached
<1>6. CASE y # NULL
  <2> DEFINE parent == [t.parent EXCEPT ![y] = x]
  <2>1. r = [down EXCEPT !.parent = parent]
    BY <1>3, <1>4, <1>6 DEF TreeType
  <2>2. parent \in [Key -> Key \cup {NULL}]
        /\ \A w \in Key : parent[w] = IF w = y THEN x ELSE t.parent[w]
    BY DEF TreeType
  <2> HIDE DEF parent
  <2>3. r \in TreeType /\ r.child = child /\ r.parent = parent /\ r.root = t.root
        /\ SameContents(r, t)
    BY <1>3, <2>1, <2>2 DEF TreeType, SameContents
  <2> QED
    BY <1>2, <2>2, <2>3 DEF Attached
<1> QED
  BY <1>5, <1>6

\* What replace leaves.
LEMMA ReplaceLinks ==
    ASSUME NEW t \in TreeType, NEW u \in Key, NEW v \in Key \cup {NULL}
    PROVE  Replaced(replace(t, u, v), t, u, v)
<1> DEFINE r == replace(t, u, v)
<1>1. SideOf(t, u) \in Side
  BY DEF SideOf, Side
<1>2. CASE t.parent[u] # NULL
  <2>1. r = Attach(t, SideOf(t, u), t.parent[u], v) /\ t.parent[u] \in Key
    BY <1>2 DEF replace, TreeType
  <2> HIDE DEF r
  <2>2. Attached(r, t, SideOf(t, u), t.parent[u], v)
    BY <1>1, <2>1, AttachLinks
  <2>3. Replaced(r, t, u, v)
    BY <1>2, <2>2 DEF Attached, Replaced
  <2> QED
    BY <2>3 DEF r
<1>3. CASE t.parent[u] = NULL /\ v = NULL
  <2>1. r = [t EXCEPT !.root = NULL]
    BY <1>3 DEF replace
  <2>2. r \in TreeType /\ r.child = t.child /\ r.parent = t.parent /\ r.root = NULL
        /\ SameContents(r, t)
    BY <2>1 DEF TreeType, SameContents
  <2> QED
    BY <2>2, <1>3, NullNoKey DEF Replaced
<1>4. CASE t.parent[u] = NULL /\ v # NULL
  <2> DEFINE parent == [t.parent EXCEPT ![v] = NULL]
  <2>1. r = [t EXCEPT !.root = v, !.parent = parent]
    BY <1>4 DEF replace, TreeType
  <2>2. parent \in [Key -> Key \cup {NULL}]
        /\ \A w \in Key : parent[w] = IF w = v THEN NULL ELSE t.parent[w]
    BY DEF TreeType
  <2> HIDE DEF parent
  <2>3. r \in TreeType /\ r.child = t.child /\ r.parent = parent /\ r.root = v
        /\ SameContents(r, t)
    BY <2>1, <2>2 DEF TreeType, SameContents
  <2> QED
    BY <2>2, <2>3, <1>4, NullNoKey DEF Replaced
<1> QED
  BY <1>2, <1>3, <1>4

\* c is below x on that side.
ChildOf(t, S, side, x, c) ==
    /\ c \in S[t.root] /\ c \in Key /\ c \in S[c]
    /\ c # t.root /\ c # x
    /\ t.parent[c] = x
    /\ SideOf(t, c) = side
    /\ c # t.child[Opposite(side)][x]
    /\ S[c] \subseteq S[x]
    /\ x \notin S[c]

\* A node and its child: the way up is the way down.
LEMMA ChildLinks ==
    ASSUME NEW t, NEW S, Linked(t, S), NEW x \in S[t.root], NEW side \in Side,
           t.child[side][x] # NULL
    PROVE  ChildOf(t, S, side, x, t.child[side][x])
<1> DEFINE c == t.child[side][x]
<1>1. NodeRight(t, S, x) /\ c # NULL
  BY DEF Linked
<1>2. c \in S[t.root] /\ t.parent[c] = x /\ \A u \in S[c] : OnSide(side, u, x)
  BY <1>1 DEF NodeRight, Down, Up
<1>3. c \in Key /\ c \in S[c] /\ x \in Key /\ x \in Int /\ c \in Int
  <2>1. \A y \in S[t.root] : y \in Key /\ y \in S[y]
    BY Nested
  <2>2. Key \subseteq Int
    BY KeyAssumption
  <2> QED
    BY <1>2, <2>1, <2>2
<1>4. x \notin S[c]
  BY <1>2, <1>3 DEF OnSide
<1>5. c # t.child[Opposite(side)][x]
  <2>1. \A u \in S[t.child[Opposite(side)][x]] : OnSide(Opposite(side), u, x)
    BY <1>1, Sides DEF NodeRight, Down, Up
  <2> QED
    BY <1>2, <1>3, <2>1, Sides DEF OnSide
<1>6. S[c] \subseteq S[x]
  BY <1>1 DEF NodeRight, Down, Up, Side
<1>7. c # t.root
  BY <1>2, <1>3, NullNoKey DEF Linked
<1>8. SideOf(t, c) = side
  BY <1>2, <1>5, Sides DEF SideOf
<1> QED
  BY <1>2, <1>3, <1>4, <1>5, <1>6, <1>7, <1>8 DEF ChildOf

\* A node and its parent.
LEMMA ParentLinks ==
    ASSUME NEW t, NEW S, Linked(t, S), NEW x \in S[t.root]
    PROVE  /\ x = t.root <=> t.parent[x] = NULL
           /\ t.parent[x] # NULL =>
                /\ t.parent[x] \in S[t.root]
                /\ t.parent[x] \in Key
                /\ SideOf(t, x) \in Side
                /\ t.child[SideOf(t, x)][t.parent[x]] = x
<1>1. x \in Key /\ \A y \in S[t.root] : y \in Key
  BY Nested
<1>2. x = t.root => t.parent[x] = NULL
  BY <1>1, NullNoKey DEF Linked
<1>3. x # t.root => t.parent[x] \in S[t.root] /\ \E side \in Side : t.child[side][t.parent[x]] = x
  BY DEF Linked, NodeRight, Down, Up
<1>4. ASSUME x # t.root PROVE t.child[SideOf(t, x)][t.parent[x]] = x
  BY <1>3, <1>4, Sides DEF SideOf
<1> QED
  BY <1>1, <1>2, <1>3, <1>4, NullNoKey, Sides DEF SideOf

\* A subtree, from whatever side one sees it.
LEMMA BothSides ==
    ASSUME NEW t, NEW S, Linked(t, S), NEW x \in S[t.root], NEW side \in Side
    PROVE  S[x] = {x} \cup S[t.child[side][x]] \cup S[t.child[Opposite(side)][x]]
<1>1. S[x] = {x} \cup S[t.child["left"][x]] \cup S[t.child["right"][x]]
  BY DEF Linked, NodeRight, Down
<1>2. CASE side = "left"
  BY <1>1, <1>2, Sides
<1>3. CASE side = "right"
  BY <1>1, <1>3, Sides
<1> QED
  BY <1>2, <1>3, Sides

\* Down, from whatever side one sees it.
LEMMA DownFromSides ==
    ASSUME NEW t, NEW S, NEW N, NEW x, NEW side \in Side,
           NEW c, c = t.child[side][x], NEW d, d = t.child[Opposite(side)][x],
           S[x] \subseteq N, S[x] = {x} \cup S[c] \cup S[d],
           \A u \in S[c] : OnSide(side, u, x), \A u \in S[d] : OnSide(Opposite(side), u, x),
           c # NULL => c \in N /\ t.parent[c] = x, d # NULL => d \in N /\ t.parent[d] = x
    PROVE  Down(t, S, N, x)
<1>1. CASE side = "left"
  <2>1. d = t.child["right"][x]
    BY <1>1, Sides
  <2>2. \A u \in S[d] : OnSide("right", u, x)
    BY <1>1, Sides
  <2> QED
    BY <1>1, <2>1, <2>2, Sides DEF Down
<1>2. CASE side = "right"
  <2>1. d = t.child["left"][x]
    BY <1>2, Sides
  <2>2. \A u \in S[d] : OnSide("left", u, x)
    BY <1>2, Sides
  <2> QED
    BY <1>2, <2>1, <2>2, Sides DEF Down
<1> QED
  BY <1>1, <1>2, Sides

\* u is on one side of v when v is on the other side of u, and sides compose.
LEMMA SideOrder ==
    ASSUME NEW side \in Side, NEW u \in Key, NEW v \in Key
    PROVE  /\ OnSide(Opposite(side), u, v) <=> OnSide(side, v, u)
           /\ \A w \in Key : OnSide(side, u, v) /\ OnSide(side, v, w) => OnSide(side, u, w)
           /\ ~(OnSide(side, u, v) /\ OnSide(Opposite(side), u, v))
<1>1. Key \subseteq Int
  BY KeyAssumption
<1>2. side = "left" \/ side = "right"
  BY Sides
<1>3. \A w \in Key : OnSide(side, u, v) /\ OnSide(side, v, w) => OnSide(side, u, w)
  <2> SUFFICES ASSUME NEW w \in Key, OnSide(side, u, v), OnSide(side, v, w)
               PROVE  OnSide(side, u, w)
    OBVIOUS
  <2>1. u \in Int /\ v \in Int /\ w \in Int
    BY <1>1
  <2> QED
    BY <2>1, <1>2 DEF OnSide
<1>4. u \in Int /\ v \in Int
  BY <1>1
<1>5. OnSide(Opposite(side), u, v) <=> OnSide(side, v, u)
  BY <1>2, <1>4, Sides DEF OnSide
<1>6. ~(OnSide(side, u, v) /\ OnSide(Opposite(side), u, v))
  BY <1>2, <1>4, Sides DEF OnSide
<1> QED
  BY <1>3, <1>5, <1>6

-----------------------------------------------------------------------------
(* Rotation and splaying.                                                  *)

\* r is t where y, the child of x on that side, has come up and taken x down; z, which
\* was between them, has been handed to x, and p is above.
Rotated(r, t, side, x, y, z, p) ==
    /\ r \in TreeType
    /\ SameContents(r, t)
    /\ r.root = IF p = NULL THEN y ELSE t.root
    /\ \A s \in Side, w \in Key :
         r.child[s][w] = IF w = x /\ s = side THEN z
                         ELSE IF w = y /\ s = Opposite(side) THEN x
                         ELSE IF w = p /\ s = SideOf(t, x) THEN y
                         ELSE t.child[s][w]
    /\ \A w \in Key :
         r.parent[w] = IF w = x THEN y ELSE IF w = y THEN p ELSE IF w = z THEN x ELSE t.parent[w]

\* What Rotate leaves.
LEMMA RotateLinks ==
    ASSUME NEW t, NEW S, Linked(t, S), NEW x \in S[t.root], NEW side \in Side,
           NEW y, y = t.child[side][x], y # NULL,
           NEW z, z = t.child[Opposite(side)][y], NEW p, p = t.parent[x]
    PROVE  Rotated(Rotate(t, x, side), t, side, x, y, z, p)
<1> DEFINE opp == Opposite(side)
           handed == Attach(t, side, x, z)
           up == replace(handed, x, y)
           r == Attach(up, opp, y, x)
<1>1. Rotate(t, x, side) = r
  BY DEF Rotate
<1>2. opp \in Side /\ opp # side /\ Opposite(opp) = side
  BY Sides
<1>3. x \in Key /\ x \in S[x] /\ ChildOf(t, S, side, x, y)
  BY ChildLinks, Nested
<1>4. z \in Key \cup {NULL} /\ t \in TreeType /\ p \in Key \cup {NULL}
  BY <1>2, <1>3 DEF Linked, TreeType, ChildOf
<1>5. z # NULL => ChildOf(t, S, opp, y, z)
  <2>1. y \in S[t.root]
    BY <1>3 DEF ChildOf
  <2>2. \A w \in S[t.root], q \in Side : t.child[q][w] # NULL => ChildOf(t, S, q, w, t.child[q][w])
    BY ChildLinks
  <2> QED
    BY <1>2, <2>1, <2>2
<1>6. z # x /\ z # y /\ y \in Key /\ y # x
  BY <1>3, <1>5, NullNoKey DEF ChildOf
<1>7. p # x /\ p # y
  <2>1. CASE p = NULL
    BY <2>1, <1>3, <1>6, NullNoKey
  <2>2. CASE p # NULL
    <3>1. p \in S[t.root] /\ SideOf(t, x) \in Side /\ t.child[SideOf(t, x)][p] = x /\ x # NULL
      BY <2>2, <1>3, NullNoKey, ParentLinks
    <3>2. ChildOf(t, S, SideOf(t, x), p, x)
      BY <3>1, ChildLinks
    <3> QED
      BY <3>2, <1>3 DEF ChildOf
  <2> QED
    BY <2>1, <2>2
<1> HIDE DEF opp, handed, up, r
<1>8. Attached(handed, t, side, x, z)
  BY <1>3, <1>6, <1>4, AttachLinks DEF handed
<1>9. handed \in TreeType /\ handed.root = t.root /\ handed.parent[x] = p /\ SameContents(handed, t)
  BY <1>8, <1>3, <1>6 DEF Attached
<1>10. Replaced(up, handed, x, y)
  BY <1>9, <1>3, <1>6, ReplaceLinks DEF up
<1>11. up \in TreeType
  BY <1>10 DEF Replaced
<1>12. Attached(r, up, opp, y, x)
  BY <1>11, <1>2, <1>3, <1>6, AttachLinks DEF r
<1>13. p # NULL => SideOf(handed, x) = SideOf(t, x)
  <2> SUFFICES ASSUME p # NULL PROVE handed.child["left"][p] = t.child["left"][p]
    BY <1>9 DEF SideOf
  <2> QED
    BY <1>4, <1>7, <1>8, Sides DEF Attached
<1>14. r \in TreeType /\ SameContents(r, t) /\ r.root = IF p = NULL THEN y ELSE t.root
  BY <1>9, <1>10, <1>12 DEF Attached, Replaced, SameContents
<1>15. ASSUME NEW s \in Side, NEW w \in Key
       PROVE  r.child[s][w] = IF w = x /\ s = side THEN z
                         ELSE IF w = y /\ s = Opposite(side) THEN x
                         ELSE IF w = p /\ s = SideOf(t, x) THEN y
                         ELSE t.child[s][w]
  <2>1. r.child[s][w] = IF w = y /\ s = Opposite(side) THEN x ELSE up.child[s][w]
    BY <1>12 DEF Attached, opp
  <2>2. up.child[s][w] = IF w = p /\ s = SideOf(handed, x) THEN y ELSE handed.child[s][w]
    BY <1>10, <1>9 DEF Replaced
  <2>3. handed.child[s][w] = IF w = x /\ s = side THEN z ELSE t.child[s][w]
    BY <1>8 DEF Attached
  <2>4. w = p => p # NULL
    BY NullNoKey
  <2> QED
    BY <2>1, <2>2, <2>3, <2>4, <1>6, <1>7, <1>13
<1>16. ASSUME NEW w \in Key
       PROVE  r.parent[w] = IF w = x THEN y ELSE IF w = y THEN p ELSE IF w = z THEN x ELSE t.parent[w]
  BY <1>6, <1>7, <1>8, <1>9, <1>10, <1>12 DEF Attached, Replaced
<1>17. Rotated(r, t, side, x, y, z, p)
  BY <1>14, <1>15, <1>16 DEF Rotated
<1> QED
  BY <1>1, <1>17

\* The subtrees after a rotation: y has all that x had, and x has lost y and what stays
\* with y.
Turned(S, x, y, z, b) ==
    [w \in Key \cup {NULL} |->
        IF w = x THEN {x} \cup S[b] \cup S[z] ELSE IF w = y THEN S[x] ELSE S[w]]

\* A rotation leaves a search tree of the same keys.
LEMMA RotateKeepsLinks ==
    ASSUME NEW t, NEW S, Linked(t, S), NEW x \in S[t.root], NEW side \in Side,
           NEW y, y = t.child[side][x], y # NULL,
           NEW z, z = t.child[Opposite(side)][y], NEW p, p = t.parent[x],
           NEW b, b = t.child[Opposite(side)][x], NEW a, a = t.child[side][y],
           NEW r, Rotated(r, t, side, x, y, z, p),
           NEW Q, Q = Turned(S, x, y, z, b)
    PROVE  Linked(r, Q) /\ Q[r.root] = S[t.root]
<1> DEFINE opp == Opposite(side)
           N == S[t.root]
<1>1. opp \in Side /\ opp # side /\ Opposite(opp) = side /\ \A s \in Side : s = side \/ s = opp
  BY Sides
<1>2. x \in Key /\ x \in S[x] /\ y \in Key /\ y \in N /\ y # b /\ ChildOf(t, S, side, x, y)
  <2>1. ChildOf(t, S, side, x, y)
    BY ChildLinks
  <2>2. x \in Key /\ x \in S[x]
    BY Nested
  <2> QED
    BY <2>1, <2>2 DEF ChildOf
<1>3. t \in TreeType /\ S \in SubtreesType /\ S[NULL] = {} /\ N \subseteq Key
      /\ \A w \in Key \ N : NodeFree(t, S, w)
  BY Nested DEF Linked
<1>4. \A w \in N : NodeRight(t, S, w)
  BY DEF Linked
<1>5. z \in Key \cup {NULL} /\ a \in Key \cup {NULL} /\ b \in Key \cup {NULL} /\ p \in Key \cup {NULL}
  BY <1>1, <1>2, <1>3 DEF TreeType
<1>6. z # NULL => ChildOf(t, S, opp, y, z)
  BY <1>1, <1>2, ChildLinks
<1>7. a # NULL => ChildOf(t, S, side, y, a)
  BY <1>1, <1>2, ChildLinks
<1>8. b # NULL => ChildOf(t, S, opp, x, b)
  BY <1>1, <1>2, ChildLinks
<1>9. p # NULL => p \in N /\ p \in Key /\ SideOf(t, x) \in Side /\ ChildOf(t, S, SideOf(t, x), p, x)
                  /\ p # x /\ p # y /\ t.child[SideOf(t, x)][p] = x
  <2> SUFFICES ASSUME p # NULL
               PROVE  p \in N /\ p \in Key /\ SideOf(t, x) \in Side /\ ChildOf(t, S, SideOf(t, x), p, x)
                      /\ p # x /\ p # y /\ t.child[SideOf(t, x)][p] = x
    OBVIOUS
  <2>1. p \in N /\ p \in Key /\ SideOf(t, x) \in Side /\ t.child[SideOf(t, x)][p] = x
    BY ParentLinks
  <2>2. x # NULL
    BY <1>2, NullNoKey
  <2>3. ChildOf(t, S, SideOf(t, x), p, x)
    BY <2>1, <2>2, ChildLinks
  <2> QED
    BY <2>1, <2>3, <1>2 DEF ChildOf
<1>21. p # x /\ p # y
  BY <1>2, <1>9, NullNoKey
<1>10. p = NULL <=> x = t.root
  BY ParentLinks
<1>11. /\ Q[x] = {x} \cup S[b] \cup S[z] /\ Q[y] = S[x]
       /\ \A w \in Key \cup {NULL} : w # x /\ w # y => Q[w] = S[w]
       /\ Q \in SubtreesType
  BY <1>2, <1>3, <1>5 DEF Turned, SubtreesType, ChildOf
<1>12. S[x] = {x} \cup S[y] \cup S[b] /\ S[y] = {y} \cup S[a] \cup S[z]
  <2>1. S[x] = {x} \cup S[t.child[side][x]] \cup S[t.child[Opposite(side)][x]]
    BY BothSides
  <2>2. y \in S[t.root]
    BY <1>2
  <2>3. S[y] = {y} \cup S[t.child[side][y]] \cup S[t.child[Opposite(side)][y]]
    <3>1. \A w \in S[t.root] :
             S[w] = {w} \cup S[t.child[side][w]] \cup S[t.child[Opposite(side)][w]]
      BY BothSides
    <3> QED
      BY <2>2, <3>1
  <2> QED
    BY <2>1, <2>3
<1>13. Q[r.root] = N
  <2>1. r.root = (IF p = NULL THEN y ELSE t.root) /\ t.root \in Key \cup {NULL}
    BY <1>3 DEF Rotated, TreeType
  <2> QED
    BY <2>1, <1>2, <1>10, <1>11 DEF ChildOf
<1> HIDE DEF opp, N
<1>14. Q[NULL] = {}
  BY <1>2, <1>3, <1>11, NullNoKey
<1>15. r.root # NULL => r.root \in N /\ r.parent[r.root] = NULL
  <2>1. CASE p = NULL
    BY <2>1, <1>2 DEF Rotated, ChildOf
  <2>2. CASE p # NULL
    <3>1. r.root = t.root /\ t.root # x /\ t.root # y
      BY <2>2, <1>2, <1>10 DEF Rotated, ChildOf
    <3>2. t.root # NULL => t.root \in N /\ t.parent[t.root] = NULL /\ t.root # z
      BY <1>6 DEF Linked, N, ChildOf
    <3> QED
      BY <3>1, <3>2, <1>3 DEF Rotated
  <2> QED
    BY <2>1, <2>2
<1>16. ASSUME NEW w \in Key \ N PROVE NodeFree(r, Q, w)
  <2>1. w # x /\ w # y /\ w # z /\ w # p /\ NodeFree(t, S, w)
    BY <1>2, <1>3, <1>6, <1>9, <1>16, NullNoKey DEF N, ChildOf
  <2>2. Q[w] = {}
    BY <2>1, <1>11, <1>16 DEF NodeFree
  <2>3. ASSUME NEW s \in Side PROVE r.child[s][w] = NULL
    <3>1. r.child[s][w] = t.child[s][w]
      BY <2>1, <1>16 DEF Rotated
    <3> QED
      BY <2>1, <3>1 DEF NodeFree
  <2>4. r.parent[w] = NULL
    <3>1. r.parent[w] = t.parent[w]
      BY <2>1, <1>16 DEF Rotated
    <3> QED
      BY <2>1, <3>1 DEF NodeFree
  <2> QED
    BY <2>2, <2>3, <2>4 DEF NodeFree
<1>20. \A w \in N : Down(t, S, N, w) /\ Up(t, N, w)
  BY <1>4 DEF NodeRight, N
\* Down from every node.
<1>17. ASSUME NEW w \in N PROVE Down(r, Q, N, w)
  <2>1. w \in Key /\ Down(t, S, N, w)
    BY <1>3, <1>17, <1>20 DEF N
  <2>2. ASSUME NEW s \in Side PROVE r.child[s][w] \in Key \cup {NULL}
    BY <2>1 DEF Rotated, TreeType
  <2>3. CASE w = x
    <3>1. r.child[side][w] = z /\ r.child[opp][w] = b
      <4>1. x # y
        BY <1>2 DEF ChildOf
      <4> QED
        BY <2>3, <4>1, <1>1, <1>2, <1>21 DEF Rotated, opp
    <3>2. Q[z] = S[z] /\ Q[b] = S[b] /\ Q[w] = {x} \cup S[b] \cup S[z]
      BY <2>3, <1>2, <1>3, <1>5, <1>6, <1>8, <1>11, NullNoKey DEF ChildOf
    <3>3. Q[w] \subseteq N
      BY <3>2, <2>3, <1>12, <2>1, <1>2 DEF Down, ChildOf
    <3>4. ASSUME z # NULL PROVE z \in N /\ r.parent[z] = x
      BY <3>4, <1>5, <1>6, <1>2 DEF Rotated, ChildOf, N
    <3>5. ASSUME b # NULL PROVE b \in N /\ r.parent[b] = x
      BY <3>5, <1>5, <1>6, <1>8, <1>2 DEF Rotated, ChildOf, N
    <3>6. \A u \in S[z] : OnSide(side, u, x)
      BY <1>12, <2>1, <2>3 DEF Down
    <3>7. \A u \in S[b] : OnSide(opp, u, x)
      BY <1>1, <2>1, <2>3 DEF Down, opp
    <3> QED
      BY <3>1, <3>2, <3>3, <3>4, <3>5, <3>6, <3>7, <2>3, DownFromSides DEF opp
  <2>4. CASE w = y
    <3>1. r.child[side][w] = a /\ r.child[opp][w] = x
      <4>1. y # x
        BY <1>2 DEF ChildOf
      <4> QED
        BY <2>4, <4>1, <1>1, <1>2, <1>21 DEF Rotated, opp
    <3>2. a # x /\ a # y
      BY <1>2, <1>7, NullNoKey DEF ChildOf
    <3>3. Q[a] = S[a] /\ Q[w] = {y} \cup S[a] \cup Q[x] /\ Q[w] = S[x]
      BY <2>4, <3>2, <1>5, <1>11, <1>12
    <3>4. Q[w] \subseteq N /\ x \in N /\ S[b] \subseteq Key /\ S[z] \subseteq Key
      <4>1. x \in N /\ S[x] \subseteq N
        BY <1>20 DEF Down, N
      <4> QED
        BY <4>1, <3>3, <1>3, <1>12 DEF N
    <3>5. ASSUME a # NULL PROVE a \in N /\ r.parent[a] = y
      BY <3>5, <3>2, <1>5, <1>7 DEF Rotated, ChildOf, N
    <3>6. r.parent[x] = y
      BY <1>2 DEF Rotated
    <3>7. \A u \in S[a] : OnSide(side, u, y)
      BY <2>1, <2>4 DEF Down
    <3>8. ASSUME NEW u \in Q[x] PROVE OnSide(opp, u, y)
      <4>1. Down(t, S, N, x)
        BY <1>20 DEF N
      <4>2. OnSide(opp, x, y)
        <5>1. OnSide(side, y, x)
          BY <4>1, <1>2 DEF Down, ChildOf
        <5> QED
          BY <5>1, <1>2, SideOrder DEF opp
      <4>3. CASE u \in S[b]
        <5>1. OnSide(opp, u, x) /\ u \in Key
          BY <4>1, <4>3, <1>1, <3>4 DEF Down, opp
        <5> QED
          BY <4>2, <5>1, <1>1, <1>2, SideOrder
      <4>4. CASE u \in S[z]
        <5>1. \A q \in Side : \A v \in S[t.child[q][y]] : OnSide(q, v, y)
          BY <2>1, <2>4 DEF Down
        <5>2. z = t.child[opp][y]
          BY DEF opp
        <5> QED
          BY <4>4, <5>1, <5>2, <1>1
      <4> QED
        BY <4>2, <4>3, <4>4, <1>11
    <3>9. /\ r.child[side][y] = a /\ r.child[Opposite(side)][y] = x
          /\ Q[y] \subseteq N /\ Q[y] = {y} \cup Q[a] \cup Q[x]
          /\ \A u \in Q[a] : OnSide(side, u, y)
          /\ \A u \in Q[x] : OnSide(Opposite(side), u, y)
      BY <3>1, <3>3, <3>4, <3>7, <3>8, <2>4 DEF opp
    <3>10. Down(r, Q, N, y)
      BY <3>4, <3>5, <3>6, <3>9, DownFromSides
    <3> QED
      BY <3>10, <2>4
  <2>5. CASE p # NULL /\ w = p
    <3> DEFINE s == SideOf(t, x)
               d == t.child[Opposite(s)][p]
    <3>1. s \in Side /\ ChildOf(t, S, s, p, x) /\ t.child[s][p] = x /\ Opposite(s) \in Side
          /\ Opposite(s) # s
      BY <2>5, <1>9, Sides
    <3>2. d # NULL => ChildOf(t, S, Opposite(s), p, d)
      BY <2>5, <3>1, <1>9, ChildLinks DEF N
    <3>3. d \in Key \cup {NULL}
      BY <3>1, <2>5, <1>3, <1>9 DEF TreeType
    <3>4. d # x /\ d # y /\ (d # NULL => d # z)
      BY <2>5, <3>1, <3>2, <1>2, <1>6, <1>21, NullNoKey DEF ChildOf
    <3>5. r.child[s][w] = y /\ r.child[Opposite(s)][w] = d
      BY <2>5, <3>1, <1>9, <1>21 DEF Rotated
    <3>6. Q[y] = S[x] /\ Q[d] = S[d] /\ Q[w] = S[p]
      BY <2>5, <3>3, <3>4, <1>9, <1>11, <1>21
    <3>7. S[p] = {p} \cup S[x] \cup S[d]
      <4>1. p \in S[t.root]
        BY <2>5, <1>9 DEF N
      <4>2. \A n \in S[t.root], q \in Side :
               S[n] = {n} \cup S[t.child[q][n]] \cup S[t.child[Opposite(q)][n]]
        BY BothSides
      <4>3. S[p] = {p} \cup S[t.child[s][p]] \cup S[t.child[Opposite(s)][p]]
        BY <3>1, <4>1, <4>2
      <4> QED
        BY <3>1, <4>3
    <3>8. \A u \in S[x] : OnSide(s, u, p)
      BY <2>1, <2>5, <3>1 DEF Down
    <3>9. \A u \in S[d] : OnSide(Opposite(s), u, p)
      BY <2>1, <2>5, <3>1 DEF Down
    <3>10. y \in N /\ r.parent[y] = p
      BY <1>2 DEF Rotated, ChildOf
    <3>11. ASSUME d # NULL PROVE d \in N /\ r.parent[d] = p
      BY <3>2, <3>3, <3>4, <3>11 DEF Rotated, ChildOf, N
    <3>12. Q[w] \subseteq N
      BY <2>1, <2>5, <3>6 DEF Down
    <3> HIDE DEF s, d
    <3> QED
      <4>1. /\ r.child[s][p] = y /\ r.child[Opposite(s)][p] = d
            /\ Q[p] \subseteq N /\ Q[p] = {p} \cup Q[y] \cup Q[d]
            /\ \A u \in Q[y] : OnSide(s, u, p)
            /\ \A u \in Q[d] : OnSide(Opposite(s), u, p)
        BY <2>5, <3>5, <3>6, <3>7, <3>8, <3>9, <3>12
      <4>2. Down(r, Q, N, p)
        BY <3>1, <3>10, <3>11, <4>1, DownFromSides
      <4> QED
        BY <4>2, <2>5
  <2>6. CASE w # x /\ w # y /\ w # p
    <3>1. ASSUME NEW s \in Side
          PROVE  /\ r.child[s][w] = t.child[s][w]
                 /\ Q[r.child[s][w]] = S[t.child[s][w]]
                 /\ r.child[s][w] # NULL => r.parent[r.child[s][w]] = t.parent[t.child[s][w]]
      <4> DEFINE c == t.child[s][w]
      <4>1. r.child[s][w] = c /\ c \in Key \cup {NULL}
        BY <2>1, <2>6, <1>3 DEF Rotated, TreeType
      <4>2. c # NULL => ChildOf(t, S, s, w, c)
        BY <1>17, ChildLinks DEF N
      <4>3. c # NULL => c # x /\ c # y /\ c # z
        BY <2>6, <4>2, <1>2, <1>6 DEF ChildOf
      <4>4. c # x /\ c # y
        BY <4>3, <1>2, NullNoKey
      <4> HIDE DEF c
      <4>5. Q[c] = S[c]
        BY <4>1, <4>4, <1>11
      <4>6. c # NULL => r.parent[c] = t.parent[c]
        BY <4>1, <4>3 DEF Rotated
      <4> QED
        BY <4>1, <4>5, <4>6 DEF c
    <3>2. Q[w] = S[w]
      BY <2>1, <2>6, <1>11
    <3> QED
      BY <2>1, <3>1, <3>2, Sides DEF Down
  <2> QED
    BY <2>3, <2>4, <2>5, <2>6, <1>3, <1>17, NullNoKey
\* Up from every node.
<1>18. ASSUME NEW w \in N PROVE Up(r, N, w)
  <2> SUFFICES ASSUME w # r.root
               PROVE  r.parent[w] \in N /\ \E s \in Side : r.child[s][r.parent[w]] = w
    BY DEF Up
  <2>1. w \in Key /\ Up(t, N, w) /\ x # y /\ x \in N
    BY <1>2, <1>3, <1>18, <1>20 DEF N, ChildOf
  <2>2. CASE w = x
    <3>1. r.parent[w] = y
      BY <2>2, <1>2 DEF Rotated
    <3>2. r.child[opp][y] = x
      BY <2>1, <1>1, <1>2, <1>21 DEF Rotated, opp
    <3> QED
      BY <2>2, <3>1, <3>2, <1>1, <1>2 DEF N
  <2>3. CASE w = y
    <3>1. p # NULL
      BY <2>3 DEF Rotated
    <3>2. r.parent[w] = p
      BY <2>1, <2>3, <1>2 DEF Rotated
    <3>3. r.child[SideOf(t, x)][p] = y
      BY <3>1, <1>9, <1>21 DEF Rotated
    <3> QED
      BY <2>3, <3>1, <3>2, <3>3, <1>9
  <2>4. CASE w = z
    <3>1. w # x /\ w # y
      BY <2>1, <2>4, <1>2, <1>6, NullNoKey DEF ChildOf
    <3>2. r.parent[w] = x /\ r.child[side][x] = z
      BY <2>1, <2>4, <3>1, <1>2 DEF Rotated
    <3> QED
      BY <2>1, <2>4, <3>2
  <2>5. CASE w # x /\ w # y /\ w # z
    <3>1. w # t.root
      BY <2>5, <1>10 DEF Rotated
    <3>2. t.parent[w] \in N /\ r.parent[w] = t.parent[w]
      BY <2>1, <2>5, <3>1 DEF Up, Rotated
    <3>3. PICK s \in Side : t.child[s][t.parent[w]] = w
      BY <2>1, <3>1 DEF Up
    <3>4. t.parent[w] \in Key /\ (t.parent[w] = p => p # NULL)
      BY <3>2, <1>3, NullNoKey DEF N
    <3>5. r.child[s][t.parent[w]] = w
      BY <3>3, <3>4, <2>5, <1>1, <1>9 DEF Rotated
    <3> QED
      BY <3>2, <3>5
  <2> QED
    BY <2>2, <2>3, <2>4, <2>5
<1>19. \A w \in N : NodeRight(r, Q, w)
  BY <1>13, <1>17, <1>18 DEF NodeRight
<1> QED
  BY <1>3, <1>11, <1>13, <1>14, <1>15, <1>16, <1>19 DEF Linked, Rotated, N

\* r is a search tree of the same keys with the same records.
Rearranged(r, t, S) ==
    SameContents(r, t) /\ \E Q : Linked(r, Q) /\ Q[r.root] = S[t.root]

\* A rotation only rearranges the tree.
LEMMA RotateRearranges ==
    ASSUME NEW t, NEW S, Linked(t, S), NEW x \in S[t.root], NEW side \in Side,
           t.child[side][x] # NULL
    PROVE  Rearranged(Rotate(t, x, side), t, S)
<1> DEFINE y == t.child[side][x]
           z == t.child[Opposite(side)][y]
           p == t.parent[x]
           b == t.child[Opposite(side)][x]
           a == t.child[side][y]
           r == Rotate(t, x, side)
           Q == Turned(S, x, y, z, b)
<1>1. Rotated(r, t, side, x, y, z, p)
  BY RotateLinks
<1> HIDE DEF r, Q
<1>2. Linked(r, Q) /\ Q[r.root] = S[t.root]
  BY <1>1, RotateKeepsLinks DEF Q
<1>3. SameContents(r, t)
  BY <1>1 DEF Rotated
<1>4. Rearranged(r, t, S)
  BY <1>2, <1>3 DEF Rearranged
<1> QED
  BY <1>4 DEF r

\* A node, its parent and its grandparent.
LEMMA ThreeGenerations ==
    ASSUME NEW t, NEW S, Linked(t, S), NEW x \in S[t.root], NEW p, p = t.parent[x], p # NULL
    PROVE  /\ p \in S[t.root] /\ p \in Key /\ x \in Key
           /\ SideOf(t, x) \in Side /\ t.child[SideOf(t, x)][p] = x /\ x # NULL
           /\ x # p /\ t.parent[p] # x /\ t.parent[p] # p
<1>1. p \in S[t.root] /\ p \in Key /\ x \in Key /\ x # NULL
  BY ParentLinks, Nested, NullNoKey
<1>2. SideOf(t, x) \in Side /\ t.child[SideOf(t, x)][p] = x
  BY ParentLinks
<1>3. ChildOf(t, S, SideOf(t, x), p, x)
  BY <1>1, <1>2, ChildLinks
<1>4. CASE t.parent[p] = NULL
  BY <1>1, <1>2, <1>3, <1>4, NullNoKey DEF ChildOf
<1>5. CASE t.parent[p] # NULL
  <2> DEFINE g == t.parent[p]
  <2>1. g \in S[t.root] /\ SideOf(t, p) \in Side /\ t.child[SideOf(t, p)][g] = p /\ p # NULL
    BY <1>1, <1>5, ParentLinks, NullNoKey
  <2>2. ChildOf(t, S, SideOf(t, p), g, p)
    BY <2>1, ChildLinks
  <2> QED
    BY <1>1, <1>2, <1>3, <2>2 DEF ChildOf
<1> QED
  BY <1>1, <1>2, <1>3, <1>4, <1>5 DEF ChildOf

\* So does one turn of splay, whatever the case: the second rotation finds the child
\* that it needs.
LEMMA SplayStepRearranges ==
    ASSUME NEW t, NEW S, Linked(t, S), NEW x \in S[t.root], t.parent[x] # NULL
    PROVE  Rearranged(SplayStep(t, x), t, S)
<1> DEFINE p == t.parent[x]
           g == t.parent[p]
           s == SideOf(t, x)
           v == SideOf(t, p)
<1>1. /\ p \in S[t.root] /\ p \in Key /\ x \in Key /\ s \in Side /\ t.child[s][p] = x
      /\ x # NULL /\ x # p /\ g # x /\ g # p
  BY ThreeGenerations
<1>2. CASE g = NULL
  <2>1. SplayStep(t, x) = Rotate(t, p, s)
    BY <1>2 DEF SplayStep
  <2> QED
    BY <1>1, <2>1, RotateRearranges
<1>3. CASE g # NULL
  <2>1. /\ g \in S[t.root] /\ g \in Key /\ v \in Side /\ t.child[v][g] = p
        /\ p # NULL /\ t.parent[g] # p
    BY <1>1, <1>3, ThreeGenerations
  <2>2. CASE s = v
    <3> DEFINE r == Rotate(t, g, v)
    <3>1. SplayStep(t, x) = Rotate(r, p, s)
      BY <1>3, <2>2 DEF SplayStep
    <3>2. Rearranged(r, t, S)
      BY <2>1, RotateRearranges
    <3>3. Rotated(r, t, v, g, p, t.child[Opposite(v)][p], t.parent[g])
      BY <2>1, RotateLinks
    <3> HIDE DEF r
    <3>4. r.child[s][p] = x
      BY <3>3, <2>1, <2>2, <1>1, Sides DEF Rotated
    <3>5. PICK Q : Linked(r, Q) /\ Q[r.root] = S[t.root]
      BY <3>2 DEF Rearranged
    <3>6. Rearranged(Rotate(r, p, s), r, Q)
      BY <3>4, <3>5, <1>1, RotateRearranges
    <3> QED
      BY <3>1, <3>2, <3>5, <3>6 DEF Rearranged, SameContents
  <2>3. CASE s # v
    <3> DEFINE r == Rotate(t, p, s)
    <3>1. SplayStep(t, x) = Rotate(r, g, v)
      BY <1>3, <2>3 DEF SplayStep
    <3>2. Rearranged(r, t, S)
      BY <1>1, RotateRearranges
    <3>3. Rotated(r, t, s, p, x, t.child[Opposite(s)][x], g)
      BY <1>1, RotateLinks
    <3> HIDE DEF r
    <3>4. r.child[v][g] = x
      BY <3>3, <2>1, <1>1 DEF Rotated
    <3>5. PICK Q : Linked(r, Q) /\ Q[r.root] = S[t.root]
      BY <3>2 DEF Rearranged
    <3>6. Rearranged(Rotate(r, g, v), r, Q)
      BY <3>4, <3>5, <1>1, <2>1, RotateRearranges
    <3> QED
      BY <3>1, <3>2, <3>5, <3>6 DEF Rearranged, SameContents
  <2> QED
    BY <2>2, <2>3
<1> QED
  BY <1>2, <1>3

\* Splaying rearranges the tree.
LEMMA SplayRearranges ==
    ASSUME NEW t, NEW S, Linked(t, S), NEW x \in S[t.root]
    PROVE  Rearranged(splay(t, x), t, S)
<1> DEFINE C == Cardinality(Key)
           Turn(u) == IF u.parent[x] = NULL THEN u ELSE SplayStep(u, x)
           Eq(f) == f = [n \in 0 .. C |-> IF n = 0 THEN t ELSE Turn(f[n - 1])]
           V == {u \in TreeType : Rearranged(u, t, S)}
           G == [n \in 1 .. C |-> [u \in V |-> [w \in V |-> Turn(u)]]]
           l == [n \in 1 .. C |-> n - 1]
           height == [n \in 1 .. C |-> n]
<1>1. C \in Nat
  BY Heights
<1>2. t \in V
  BY DEF Linked, Rearranged, SameContents
<1>3. ASSUME NEW u \in V PROVE Turn(u) \in V
  <2>1. PICK Q : Linked(u, Q) /\ Q[u.root] = S[t.root]
    BY DEF Rearranged
  <2>2. CASE u.parent[x] = NULL
    BY <2>2
  <2>3. CASE u.parent[x] # NULL
    <3>1. Rearranged(SplayStep(u, x), u, Q)
      BY <2>1, <2>3, SplayStepRearranges
    <3>2. Rearranged(SplayStep(u, x), t, S)
      BY <2>1, <3>1 DEF Rearranged, SameContents
    <3>3. SplayStep(u, x) \in TreeType
      BY <3>2 DEF Rearranged, Linked
    <3> QED
      BY <2>3, <3>2, <3>3
  <2> QED
    BY <2>2, <2>3
<1> HIDE DEF V, Turn
<1>4. G \in [1 .. C -> [V -> [V -> V]]]
  BY <1>3
<1>5. /\ 0 \notin 1 .. C
      /\ l \in [1 .. C -> 1 .. C \cup {0}]
      /\ height \in [1 .. C -> 0 .. C]
      /\ \A n \in 1 .. C : l[n] # 0 => height[l[n]] < height[n]
      /\ 1 .. C \cup {0} = 0 .. C
  BY <1>1
<1>6. PICK h \in [0 .. C -> V] : Solves(h, 1 .. C, 0, l, l, t, G)
  <2> HIDE DEF l, height, G, C
  <2>1. \E h \in [1 .. C \cup {0} -> V] : Solves(h, 1 .. C, 0, l, l, t, G)
    BY <1>1, <1>2, <1>4, <1>5, RecursiveDefinition
  <2> QED
    BY <1>5, <2>1
<1>7. h[0] = t /\ \A n \in 1 .. C : h[n] = Turn(h[n - 1])
  <2>1. \A n \in 1 .. C : n - 1 \in 0 .. C
    BY <1>1
  <2> QED
    BY <1>6, <2>1 DEF Solves
<1>8. Eq(h)
  <2>1. \A n \in 0 .. C : h[n] = IF n = 0 THEN t ELSE Turn(h[n - 1])
    BY <1>1, <1>7
  <2> HIDE DEF C
  <2> QED
    BY <1>6, <2>1
<1> DEFINE after == CHOOSE f : Eq(f)
<1>9. Eq(after)
  BY <1>8
<1>10. splay(t, x) = after[C]
  BY DEF splay, Turn
<1>11. after[0] = t /\ \A n \in 1 .. C : after[n] = Turn(after[n - 1])
  <2> HIDE DEF after, C
  <2>1. \A n \in 0 .. C : after[n] = IF n = 0 THEN t ELSE Turn(after[n - 1])
    BY <1>9
  <2> QED
    BY <1>1, <2>1
<1> DEFINE T == {n \in Nat : n <= C => after[n] \in V}
<1>12. 0 \in T
  BY <1>2, <1>11
<1>13. ASSUME NEW n \in Nat, n \in T PROVE n + 1 \in T
  <2> SUFFICES ASSUME n + 1 <= C PROVE after[n + 1] \in V
    OBVIOUS
  <2>1. n + 1 \in 1 .. C /\ n <= C /\ (n + 1) - 1 = n
    BY <1>1
  <2> HIDE DEF C, after
  <2>2. after[n] \in V
    BY <1>13, <2>1
  <2>3. after[n + 1] = Turn(after[n])
    BY <2>1, <1>11
  <2> QED
    BY <2>2, <2>3, <1>3
<1>14. after[C] \in V
  <2> HIDE DEF T
  <2>1. Nat \subseteq T
    BY <1>12, <1>13, ByCounting
  <2> QED
    BY <2>1, <1>1 DEF T
<1> QED
  BY <1>10, <1>14 DEF V

-----------------------------------------------------------------------------
(* Insertion.                                                              *)

\* The two subtrees of a node have no key in common, and not that of the node.
LEMMA Apart ==
    ASSUME NEW t, NEW S, Linked(t, S), NEW x \in S[t.root], NEW side \in Side
    PROVE  /\ x \notin S[t.child[side][x]]
           /\ S[t.child[side][x]] \cap S[t.child[Opposite(side)][x]] = {}
           /\ S[t.child[side][x]] \subseteq S[x]
<1>1. Down(t, S, S[t.root], x) /\ Opposite(side) \in Side
  BY Sides DEF Linked, NodeRight
<1>2. /\ \A u \in S[t.child[side][x]] : OnSide(side, u, x)
      /\ \A u \in S[t.child[Opposite(side)][x]] : OnSide(Opposite(side), u, x)
  BY <1>1 DEF Down
<1>3. S[x] = {x} \cup S[t.child[side][x]] \cup S[t.child[Opposite(side)][x]]
      /\ x \in Key /\ S[x] \subseteq Key
  <2>1. x \in Key
    BY Nested
  <2>2. S[x] \subseteq Key
    BY <2>1 DEF Linked, SubtreesType
  <2> QED
    BY <2>1, <2>2, BothSides
<1>4. ~OnSide(side, x, x)
  BY <1>3, KeyAssumption DEF OnSide
<1>5. \A u \in S[t.child[side][x]] : u \notin S[t.child[Opposite(side)][x]]
  <2> SUFFICES ASSUME NEW u \in S[t.child[side][x]], u \in S[t.child[Opposite(side)][x]]
               PROVE  FALSE
    OBVIOUS
  <2>1. u \in Key
    BY <1>3
  <2>2. ~(OnSide(side, u, x) /\ OnSide(Opposite(side), u, x))
    BY <2>1, <1>3, SideOrder
  <2> QED
    BY <2>2, <1>2
<1> QED
  BY <1>2, <1>3, <1>4, <1>5

\* The whole path of a search for a key.
LEMMA WholePath ==
    ASSUME NEW t, NEW S, Linked(t, S), NEW key \in Key
    PROVE  /\ Path(t, key) \in Seq(Key)
           /\ t.root = NULL => Path(t, key) = <<>> /\ S[t.root] = {}
           /\ t.root # NULL => SearchRight(t, S, key, t.root, Path(t, key))
<1>1. PICK p : SearchFrom(t, key, p) /\ Path(t, key) = p[t.root]
  BY PathDefinition
<1>2. t.root \in Key \cup {NULL} /\ (t.root # NULL => t.root \in S[t.root])
  BY DEF Linked, TreeType
<1>3. p[t.root] \in Seq(Key) /\ p[NULL] = <<>> /\ S[NULL] = {}
  BY <1>1, <1>2 DEF SearchFrom, Linked
<1>4. t.root # NULL => SearchRight(t, S, key, t.root, p[t.root])
  BY <1>1, <1>2, Searched
<1> QED
  BY <1>1, <1>3, <1>4

\* The search finds the keys that are in the tree, and no others.
LEMMA HasKey ==
    ASSUME NEW t, NEW S, Linked(t, S), NEW key \in Key
    PROVE  Has(t, key) <=> key \in S[t.root]
<1>1. Has(t, key) <=> key \in Range(Path(t, key))
  <2>1. Path(t, key) \in Seq(Key)
    BY WholePath
  <2>2. DOMAIN Path(t, key) = 1 .. Len(Path(t, key))
    BY <2>1
  <2> QED
    BY <2>2 DEF Has, Contains, Range
<1>2. CASE t.root = NULL
  <2>1. Path(t, key) = <<>> /\ S[t.root] = {}
    BY <1>2, WholePath
  <2> QED
    BY <1>1, <2>1 DEF Range
<1>3. CASE t.root # NULL
  <2>1. key \in S[t.root] <=> key \in Range(Path(t, key))
    BY <1>3, WholePath DEF SearchRight
  <2> QED
    BY <1>1, <2>1
<1> QED
  BY <1>2, <1>3

\* The tree with the new leaf, before it is splayed.
Placed(t, key) ==
    LET q == Last(Path(t, key))
    IN  IF t.root = NULL THEN [t EXCEPT !.root = key] ELSE Attach(t, Toward(key, q), q, key)

\* A new leaf is put on its side of all the nodes above it.
LEMMA PlacedLinked ==
    ASSUME NEW t, NEW S, Linked(t, S), NEW key \in Key, key \notin S[t.root],
           NEW r, r = Placed(t, key)
    PROVE  SameContents(r, t) /\ \E Q : Linked(r, Q) /\ Q[r.root] = S[t.root] \cup {key}
<1> DEFINE N == S[t.root]
           q == Last(Path(t, key))
           side == Toward(key, q)
           Q == [w \in Key \cup {NULL} |->
                   IF w = key THEN {key} ELSE IF q \in S[w] THEN S[w] \cup {key} ELSE S[w]]
<1>1. t \in TreeType /\ S \in SubtreesType /\ S[NULL] = {} /\ N \subseteq Key
      /\ (\A w \in Key \ N : NodeFree(t, S, w)) /\ key # NULL
  BY Nested, NullNoKey DEF Linked
<1>2. CASE t.root = NULL
  <2> DEFINE P == [w \in Key \cup {NULL} |-> IF w = key THEN {key} ELSE {}]
  <2>1. r = [t EXCEPT !.root = key]
    BY <1>2 DEF Placed
  <2>2. r \in TreeType /\ r.root = key /\ r.child = t.child /\ r.parent = t.parent
        /\ SameContents(r, t)
    BY <2>1, <1>1 DEF TreeType, SameContents
  <2>3. N = {} /\ \A w \in Key : NodeFree(t, S, w)
    BY <1>1, <1>2
  <2>4. P \in SubtreesType /\ P[NULL] = {} /\ P[key] = {key} /\ \A w \in Key : w # key => P[w] = {}
    BY <1>1 DEF SubtreesType
  <2> HIDE DEF P, N
  <2>5. \A w \in Key : r.parent[w] = NULL /\ \A s \in Side : r.child[s][w] = NULL
    BY <2>2, <2>3 DEF NodeFree
  <2>6. NodeRight(r, P, key)
    BY <2>2, <2>4, <2>5, Sides DEF NodeRight, Down, Up
  <2>7. \A w \in Key \ {key} : NodeFree(r, P, w)
    BY <2>4, <2>5 DEF NodeFree
  <2>8. Linked(r, P)
    BY <2>2, <2>4, <2>5, <2>6, <2>7 DEF Linked
  <2> QED
    BY <2>2, <2>3, <2>4, <2>8 DEF N
<1>3. CASE t.root # NULL
  <2>1. Belongs(t, S, key, t.root, q)
    BY <1>3, WholePath DEF SearchRight
  <2>2. q \in N /\ q \in Key /\ side \in Side /\ t.child[side][q] = NULL /\ key # q
        /\ q \in S[q] /\ t.root \in Key
    BY <2>1, <1>1, <1>3, TowardSide, Nested DEF Belongs, TreeType
  <2>3. \A y \in N : q \in S[y] => y = q \/ q \in S[t.child[Toward(key, y)][y]]
    BY <2>1 DEF Belongs
  <2>4. Attached(r, t, side, q, key)
    <3>1. r = Attach(t, side, q, key)
      BY <1>3 DEF Placed
    <3> HIDE DEF side, q
    <3> QED
      BY <3>1, <1>1, <2>2, AttachLinks
  <2>5. \A y \in Key : y # key => OnSide(Toward(key, y), key, y)
    BY KeyAssumption DEF OnSide, Toward
  <2>6. Q \in SubtreesType /\ Q[NULL] = {} /\ Q[key] = {key}
        /\ \A w \in Key \cup {NULL} : w # key => Q[w] = IF q \in S[w] THEN S[w] \cup {key} ELSE S[w]
    BY <1>1 DEF SubtreesType
  <2> DEFINE M == N \cup {key}
  <2> HIDE DEF Q, q, side, M
  <2>7. Q[r.root] = M /\ r.root = t.root /\ t.root # key
    BY <2>2, <2>4, <2>6, ZenonT(40) DEF Attached, M, Linked
  <2>8. r.parent[t.root] = NULL
    BY <2>2, <2>4, <2>7, <1>3 DEF Attached, Linked
  <2>9. ASSUME NEW w \in Key \ M PROVE NodeFree(r, Q, w)
    <3>1. NodeFree(t, S, w) /\ w # key /\ w # q
      BY <1>1, <2>2, <2>9 DEF M
    <3> QED
      BY <3>1, <2>4, <2>6 DEF NodeFree, Attached
  <2>10. \A w \in N : Down(t, S, N, w) /\ Up(t, N, w)
    BY DEF Linked, NodeRight
  <2>11. ASSUME NEW w \in M PROVE Down(r, Q, M, w)
    <3>1. CASE w = key
      <4>1. \A s \in Side : r.child[s][w] = NULL
        BY <3>1, <1>1, <2>2, <2>4 DEF NodeFree, Attached, N
      <4> QED
        BY <3>1, <4>1, <2>6, Sides DEF Down, M
    <3>2. ASSUME w \in N, w # key, NEW s \in Side
          PROVE  LET d == t.child[s][w]
                 IN  /\ d \in Key \cup {NULL} /\ d # key
                     /\ d # NULL => d \in N /\ t.parent[d] = w
                     /\ Q[d] = (IF q \in S[d] THEN S[d] \cup {key} ELSE S[d])
                     /\ d # NULL => r.parent[d] = w
      <4> DEFINE d == t.child[s][w]
      <4>1. d \in Key \cup {NULL} /\ w \in Key
        BY <3>2, <1>1 DEF TreeType
      <4>2. d # NULL => d \in N /\ t.parent[d] = w
        BY <3>2, <2>10 DEF Down
      <4>3. d # key
        BY <4>2, <1>1 DEF N
      <4> HIDE DEF d
      <4>4. Q[d] = (IF q \in S[d] THEN S[d] \cup {key} ELSE S[d])
        BY <4>1, <4>3, <2>6
      <4>5. d # NULL => r.parent[d] = w
        BY <4>1, <4>2, <4>3, <2>4 DEF Attached
      <4> QED
        BY <4>1, <4>2, <4>3, <4>4, <4>5 DEF d
    <3>3. CASE w = q
      <4> DEFINE d == t.child[Opposite(side)][q]
      <4>1. Opposite(side) \in Side /\ Opposite(side) # side
        BY <2>2, Sides
      <4>2. r.child[side][q] = key /\ r.child[Opposite(side)][q] = d
        BY <2>2, <2>4, <4>1 DEF Attached
      <4>3. /\ d # key
            /\ d # NULL => d \in N /\ r.parent[d] = q
            /\ Q[d] = (IF q \in S[d] THEN S[d] \cup {key} ELSE S[d])
        BY <2>2, <3>2, <3>3, <4>1
      <4>4. q \notin S[d]
        BY <2>2, <4>1, Apart DEF N
      <4>5. S[q] = {q} \cup S[d] /\ S[q] \subseteq N
        <5>1. S[q] = {q} \cup S[t.child[side][q]] \cup S[d]
          BY <2>2, BothSides DEF N
        <5>2. S[q] \subseteq N
          BY <2>2, <2>10 DEF Down
        <5> QED
          BY <5>1, <5>2, <2>2, <1>1
      <4>6. Q[q] = {q} \cup Q[key] \cup Q[d] /\ Q[q] \subseteq M
        BY <4>3, <4>4, <4>5, <2>2, <2>6 DEF M
      <4>7. \A u \in Q[d] : OnSide(Opposite(side), u, q)
        BY <2>2, <2>10, <4>1, <4>3, <4>4 DEF Down
      <4>8. \A u \in Q[key] : OnSide(side, u, q)
        BY <2>2, <2>5, <2>6 DEF side
      <4>9. key \in M /\ r.parent[key] = q /\ (d # NULL => d \in M)
        BY <2>4, <4>3 DEF Attached, M
      <4> HIDE DEF d
      <4>10. Down(r, Q, M, q)
        BY <2>2, <4>2, <4>3, <4>6, <4>7, <4>8, <4>9, DownFromSides
      <4> QED
        BY <3>3, <4>10
    <3>4. CASE w \in N /\ w # key /\ w # q
      <4> DEFINE v == Toward(key, w)
                 c == t.child[v][w]
                 d == t.child[Opposite(v)][w]
      <4>1. v \in Side /\ Opposite(v) \in Side /\ Opposite(v) # v /\ w \in Key
        BY <3>4, <1>1, TowardSide, Sides
      <4>2. r.child[v][w] = c /\ r.child[Opposite(v)][w] = d
        BY <3>4, <4>1, <2>4 DEF Attached
      <4>3. /\ c # NULL => c \in M /\ r.parent[c] = w
            /\ d # NULL => d \in M /\ r.parent[d] = w
        BY <3>2, <3>4, <4>1 DEF M
      <4>4. /\ Q[c] = (IF q \in S[c] THEN S[c] \cup {key} ELSE S[c])
            /\ Q[d] = (IF q \in S[d] THEN S[d] \cup {key} ELSE S[d])
        BY <3>2, <3>4, <4>1
      <4>5. S[w] = {w} \cup S[c] \cup S[d] /\ S[c] \cap S[d] = {}
        BY <3>4, <4>1, BothSides, Apart DEF N
      <4>6. (\A u \in S[c] : OnSide(v, u, w)) /\ (\A u \in S[d] : OnSide(Opposite(v), u, w))
            /\ S[w] \subseteq N
        BY <3>4, <2>10, <4>1 DEF Down
      <4>7. OnSide(v, key, w)
        BY <3>4, <4>1, <2>5
      <4>8. q \in S[w] <=> q \in S[c]
        BY <3>4, <2>3, <4>5
      <4>9. q \notin S[d]
        BY <4>5, <4>8
      <4>10. Q[w] = IF q \in S[c] THEN S[w] \cup {key} ELSE S[w]
        BY <3>4, <4>1, <4>8, <2>6
      <4> HIDE DEF v, c, d
      <4>11. Q[w] = {w} \cup Q[c] \cup Q[d] /\ Q[w] \subseteq M
        BY <4>4, <4>5, <4>6, <4>9, <4>10 DEF M
      <4>12. \A u \in Q[c] : OnSide(v, u, w)
        BY <4>4, <4>6, <4>7
      <4>13. \A u \in Q[d] : OnSide(Opposite(v), u, w)
        BY <4>4, <4>6, <4>9
      <4> QED
        BY <4>1, <4>2, <4>3, <4>11, <4>12, <4>13, DownFromSides
    <3> QED
      BY <3>1, <3>3, <3>4, <2>11 DEF M
  <2>12. ASSUME NEW w \in M PROVE Up(r, M, w)
    <3>1. CASE w = key
      BY <3>1, <2>2, <2>4 DEF Up, Attached, M
    <3>2. CASE w \in N /\ w # key
      <4> SUFFICES ASSUME w # t.root
                   PROVE  r.parent[w] \in M /\ \E s \in Side : r.child[s][r.parent[w]] = w
        BY <2>7 DEF Up
      <4>1. t.parent[w] \in N /\ r.parent[w] = t.parent[w]
        BY <3>2, <2>10, <2>4, <1>1 DEF Up, Attached
      <4>2. PICK s \in Side : t.child[s][t.parent[w]] = w
        BY <3>2, <2>10 DEF Up
      <4>3. r.child[s][t.parent[w]] = w
        BY <4>1, <4>2, <3>2, <2>2, <2>4, <1>1, NullNoKey DEF Attached
      <4> QED
        BY <4>1, <4>3 DEF M
    <3> QED
      BY <3>1, <3>2, <2>12 DEF M
  <2>13. \A w \in M : NodeRight(r, Q, w)
    BY <2>7, <2>11, <2>12 DEF NodeRight
  <2>14. Linked(r, Q)
    BY <2>2, <2>4, <2>6, <2>7, <2>8, <2>9, <2>13 DEF Linked, Attached, M
  <2> QED
    BY <2>4, <2>7, <2>14 DEF Attached, M
<1> QED
  BY <1>2, <1>3

\* r holds the keys N with these records, and its count is right.
Holds(r, N, record) ==
    /\ r.record = record
    /\ r.node_count = Cardinality(N)
    /\ \A x \in Key : record[x] # NULL <=> x \in N
    /\ \E Q : Linked(r, Q) /\ Q[r.root] = N

\* Links are made of root, children and parents only.
LEMMA OtherFields ==
    ASSUME NEW t, NEW S, Linked(t, S), NEW r \in TreeType,
           r.root = t.root, r.child = t.child, r.parent = t.parent
    PROVE  Linked(r, S)
<1>1. S[r.root] = S[t.root]
  OBVIOUS
<1>2. \A x \in Key : NodeRight(t, S, x) => NodeRight(r, S, x)
  BY <1>1 DEF NodeRight, Down, Up
<1>3. \A x \in Key : NodeFree(t, S, x) => NodeFree(r, S, x)
  BY DEF NodeFree
<1>4. S[t.root] \subseteq Key
  BY Nested
<1> QED
  BY <1>1, <1>2, <1>3, <1>4 DEF Linked

\* The keys of a tree are finitely many.
LEMMA FiniteKeys ==
    ASSUME NEW t, NEW S, Linked(t, S)
    PROVE  /\ S[t.root] \subseteq Key /\ IsFiniteSet(S[t.root])
           /\ Cardinality(S[t.root]) \in Nat
<1>1. S[t.root] \subseteq Key
  BY Nested
<1>2. IsFiniteSet(S[t.root])
  BY <1>1, KeyAssumption, FS_Subset
<1> QED
  BY <1>1, <1>2, FS_CardinalityType

\* After an insertion the tree holds the key with its new record besides what it held.
LEMMA InsertHolds ==
    ASSUME NEW t, NEW N, Holds(t, N, t.record), NEW key \in Key, NEW st \in State
    PROVE  Holds(tree_insert(t, key, st), N \cup {key}, [t.record EXCEPT ![key] = st])
<1> DEFINE record == [t.record EXCEPT ![key] = st]
<1>1. PICK S : Linked(t, S) /\ S[t.root] = N
  BY DEF Holds
<1>2. t \in TreeType /\ t.record \in [Key -> State \cup {NULL}]
  BY <1>1 DEF Linked, TreeType
<1>3. record \in [Key -> State \cup {NULL}] /\ record[key] = st
      /\ \A x \in Key : x # key => record[x] = t.record[x]
  BY <1>2
<1>4. st # NULL
  BY StateAssumption
<1>5. \A x \in Key : record[x] # NULL <=> x \in N \cup {key}
  BY <1>3, <1>4 DEF Holds
<1>6. Has(t, key) <=> key \in N
  BY <1>1, HasKey
<1> HIDE DEF record
<1>7. CASE key \in N
  <2> DEFINE r == [t EXCEPT !.record = record]
  <2>1. tree_insert(t, key, st) = r
    BY <1>2, <1>6, <1>7 DEF tree_insert, record, TreeType
  <2>2. r \in TreeType /\ r.root = t.root /\ r.child = t.child /\ r.parent = t.parent
        /\ r.record = record /\ r.node_count = t.node_count
    BY <1>2, <1>3 DEF TreeType
  <2> HIDE DEF r
  <2>3. Linked(r, S) /\ S[r.root] = N \cup {key} /\ N \cup {key} = N
    BY <1>1, <1>7, <2>2, OtherFields
  <2>4. Holds(r, N \cup {key}, record)
    BY <1>5, <2>2, <2>3 DEF Holds
  <2> QED
    BY <2>1, <2>4 DEF record
<1>8. CASE key \notin N
  <2> DEFINE r == Placed(t, key)
             n == t.node_count + 1
             f == [r EXCEPT !.record = record, !.node_count = n]
  <2>1. SameContents(r, t) /\ \E Q : Linked(r, Q) /\ Q[r.root] = N \cup {key}
    BY <1>1, <1>8, PlacedLinked
  <2>2. PICK Q : Linked(r, Q) /\ Q[r.root] = N \cup {key}
    BY <2>1
  <2>3. tree_insert(t, key, st) = splay([r EXCEPT !.record[key] = st, !.node_count = @ + 1], key)
    BY <1>6, <1>8 DEF tree_insert, Placed
  <2> HIDE DEF r
  <2>4. r \in TreeType
    BY <2>2 DEF Linked
  <2>5. f = [r EXCEPT !.record[key] = st, !.node_count = @ + 1]
    BY <2>1, <2>4 DEF record, TreeType, SameContents
  <2>11. n \in Int
    BY <1>2 DEF TreeType
  <2> HIDE DEF n
  <2>6. f \in TreeType /\ f.root = r.root /\ f.child = r.child /\ f.parent = r.parent
        /\ f.record = record /\ f.node_count = n
    BY <2>4, <2>11, <1>3 DEF TreeType
  <2> HIDE DEF f
  <2>7. Linked(f, Q) /\ Q[f.root] = N \cup {key}
    BY <2>2, <2>6, OtherFields
  <2>8. Rearranged(splay(f, key), f, Q)
    BY <2>7, SplayRearranges
  <2>9. f.node_count = Cardinality(N \cup {key})
    <3>1. IsFiniteSet(N)
      BY <1>1, FiniteKeys
    <3>2. Cardinality(N \cup {key}) = Cardinality(N) + 1
      BY <3>1, <1>8, FS_AddElement
    <3> QED
      BY <3>2, <2>6 DEF Holds, n
  <2>10. Holds(splay(f, key), N \cup {key}, record)
    BY <1>5, <2>6, <2>7, <2>8, <2>9 DEF Holds, Rearranged, SameContents
  <2> QED
    BY <2>3, <2>5, <2>10 DEF record
<1> QED
  BY <1>7, <1>8

-----------------------------------------------------------------------------
(* Removal: what a subtree is to the rest of the tree.                     *)

\* A subtree is seen from outside as one: its keys are all smaller or all greater than
\* a key that is not in it.
LEMMA Convex ==
    ASSUME NEW t, NEW S, Linked(t, S), NEW x \in S[t.root], NEW u \in S[t.root] \ S[x],
           NEW a \in S[x], NEW b \in S[x]
    PROVE  /\ a < u <=> b < u
           /\ u < a <=> u < b
<1> DEFINE Same(i, j, k) == (i < k <=> j < k) /\ (k < i <=> k < j)
           Good == {w \in S[t.root] :
                      \A v \in S[w] : \A k \in S[w] \ S[v] : \A i, j \in S[v] : Same(i, j, k)}
<1>1. ASSUME NEW w \in S[t.root], \A side \in Side : t.child[side][w] \in Good \cup {NULL},
             NEW v \in S[w], NEW k \in S[w] \ S[v], NEW i \in S[v], NEW j \in S[v]
      PROVE  Same(i, j, k)
  <2>1. v # w
    OBVIOUS
  <2>2. PICK side \in Side : v \in S[t.child[side][w]]
    BY <2>1, BothSides, Sides
  <2> DEFINE c == t.child[side][w]
             d == t.child[Opposite(side)][w]
  <2>3. S[w] = {w} \cup S[c] \cup S[d]
    BY BothSides
  <2>4. c # NULL /\ c \in S[t.root] /\ c \in Good
    BY <1>1, <2>2 DEF Linked, NodeRight, Down
  <2>5. S[v] \subseteq S[c]
    BY <2>2, <2>4, Nested
  <2>6. S[w] \subseteq Int /\ w \in Int
    <3>1. w \in Key /\ Key \subseteq Int
      BY Nested, KeyAssumption
    <3>2. S[w] \subseteq Key
      BY <3>1 DEF Linked, SubtreesType
    <3> QED
      BY <3>1, <3>2
  <2>7. i \in S[c] /\ j \in S[c] /\ i \in Int /\ j \in Int /\ k \in Int
    BY <2>3, <2>5, <2>6
  <2>8. (\A e \in S[c] : OnSide(side, e, w)) /\ (\A e \in S[d] : OnSide(Opposite(side), e, w))
    BY Sides DEF Linked, NodeRight, Down
  <2>9. OnSide(side, i, w) /\ OnSide(side, j, w)
    BY <2>7, <2>8
  <2>10. side = "left" \/ side = "right"
    BY Sides
  <2>11. CASE k \in S[c]
    BY <2>2, <2>4, <2>11
  <2>12. CASE k = w
    BY <2>6, <2>7, <2>9, <2>10, <2>12 DEF OnSide
  <2>13. CASE k \in S[d]
    <3>1. OnSide(Opposite(side), k, w)
      BY <2>8, <2>13
    <3>2. CASE side = "left"
      <4>1. w < k /\ i < w /\ j < w
        BY <3>1, <3>2, <2>9, Sides DEF OnSide
      <4> QED
        BY <4>1, <2>6, <2>7
    <3>3. CASE side = "right"
      <4>1. k < w /\ w < i /\ w < j
        BY <3>1, <3>3, <2>9, Sides DEF OnSide
      <4> QED
        BY <4>1, <2>6, <2>7
    <3> QED
      BY <3>2, <3>3, <2>10
  <2> QED
    BY <2>3, <2>11, <2>12, <2>13
<1>2. S[t.root] \subseteq Good
  <2>1. \A w \in S[t.root] :
              (\A side \in Side : t.child[side][w] \in Good \cup {NULL}) => w \in Good
    BY <1>1
  <2> HIDE DEF Good
  <2> QED
    BY <2>1, FromLeavesUp
<1>3. t.root \in S[t.root]
  BY DEF Linked
<1>4. \A v \in S[t.root] : \A k \in S[t.root] \ S[v] : \A i, j \in S[v] : Same(i, j, k)
  BY <1>2, <1>3
<1> QED
  BY <1>4

\* The parent of a node is in every subtree that the node is in and not on top of.
LEMMA ParentInside ==
    ASSUME NEW t, NEW S, Linked(t, S), NEW w \in S[t.root], NEW x \in S[w], x # w
    PROVE  t.parent[x] \in S[w]
<1> DEFINE Good == {v \in S[t.root] : \A u \in S[v] \ {v} : t.parent[u] \in S[v]}
<1>1. ASSUME NEW v \in S[t.root], \A side \in Side : t.child[side][v] \in Good \cup {NULL},
             NEW u \in S[v] \ {v}
      PROVE  t.parent[u] \in S[v]
  <2>1. PICK side \in Side : u \in S[t.child[side][v]]
    BY BothSides, Sides
  <2>2. t.child[side][v] # NULL /\ t.child[side][v] \in Good
    BY <1>1, <2>1 DEF Linked
  <2>3. ChildOf(t, S, side, v, t.child[side][v])
    BY <2>2, ChildLinks
  <2>4. v \in S[v]
    BY Nested
  <2>5. CASE u = t.child[side][v]
    BY <2>3, <2>4, <2>5 DEF ChildOf
  <2>6. CASE u # t.child[side][v]
    BY <2>1, <2>2, <2>3, <2>6 DEF ChildOf
  <2> QED
    BY <2>5, <2>6
<1>2. S[t.root] \subseteq Good
  <2>1. \A v \in S[t.root] :
              (\A side \in Side : t.child[side][v] \in Good \cup {NULL}) => v \in Good
    BY <1>1
  <2> HIDE DEF Good
  <2> QED
    BY <2>1, FromLeavesUp
<1> QED
  BY <1>2

\* m is the first key below x.
FirstBelow(t, S, x, m) ==
    /\ m \in S[x]
    /\ t.child["left"][m] = NULL
    /\ \A u \in S[x] : u # m => m < u

\* subtree_minimum goes to the left as far as it can, and finds the smallest key.
LEMMA MinimumFound ==
    ASSUME NEW t, NEW S, Linked(t, S), NEW x \in S[t.root]
    PROVE  FirstBelow(t, S, x, subtree_minimum(t, x))
<1> DEFINE next(y) == t.child["left"][y]
           Eq(f) == f = [y \in Key |-> IF next(y) = NULL THEN y ELSE f[next(y)]]
           B == Cardinality(Key)
           l == [y \in Key |-> next(y)]
           height == [y \in Key |-> Cardinality(S[y])]
           V == Key \cup {NULL}
           G == [y \in Key |-> [u \in V |-> [v \in V |-> IF next(y) = NULL THEN y ELSE u]]]
<1>1. \A y \in Key : next(y) \in Key \cup {NULL}
  BY Sides DEF Linked, TreeType
<1>2. \A y \in Key : l[y] # NULL => height[l[y]] < height[y]
  BY <1>1, Heights, Sides
<1>3. l \in [Key -> Key \cup {NULL}] /\ height \in [Key -> 0 .. B] /\ B \in Nat
  BY <1>1, Heights
<1>4. G \in [Key -> [V -> [V -> V]]] /\ NULL \in V
  OBVIOUS
<1>5. PICK h \in [Key \cup {NULL} -> V] : Solves(h, Key, NULL, l, l, NULL, G)
  <2> HIDE DEF l, height, V, G, B, next
  <2> QED
    BY <1>2, <1>3, <1>4, NullNoKey, RecursiveDefinition
<1> DEFINE f == [y \in Key |-> h[y]]
<1>6. \A y \in Key : h[y] = IF next(y) = NULL THEN y ELSE h[next(y)]
  BY <1>1, <1>5 DEF Solves
<1>7. Eq(f)
  <2>1. \A y \in Key : next(y) # NULL => f[next(y)] = h[next(y)]
    BY <1>1
  <2> HIDE DEF next
  <2> QED
    BY <1>6, <2>1
<1> DEFINE from == CHOOSE g : Eq(g)
<1>8. Eq(from)
  <2> HIDE DEF f, next
  <2> QED
    BY <1>7
<1>9. subtree_minimum(t, x) = from[x]
  BY DEF subtree_minimum
<1>10. \A y \in Key : from[y] = IF next(y) = NULL THEN y ELSE from[next(y)]
  <2> HIDE DEF from, next
  <2> QED
    BY <1>8
<1> HIDE DEF from
<1> DEFINE Good == {w \in S[t.root] : FirstBelow(t, S, w, from[w])}
<1>11. ASSUME NEW w \in S[t.root], \A side \in Side : t.child[side][w] \in Good \cup {NULL}
       PROVE  FirstBelow(t, S, w, from[w])
  <2> DEFINE c == t.child["left"][w]
             d == t.child["right"][w]
  <2>1. w \in Key /\ S[w] \subseteq Int /\ w \in Int /\ w \in S[w]
    <3>1. w \in Key /\ Key \subseteq Int /\ w \in S[w]
      BY Nested, KeyAssumption
    <3>2. S[w] \subseteq Key
      BY <3>1 DEF Linked, SubtreesType
    <3> QED
      BY <3>1, <3>2
  <2>2. S[w] = {w} \cup S[c] \cup S[d] /\ S[NULL] = {}
    BY DEF Linked, NodeRight, Down
  <2>3. (\A u \in S[c] : u < w) /\ (\A u \in S[d] : w < u)
    BY Sides DEF Linked, NodeRight, Down, OnSide
  <2>4. CASE c = NULL
    <3>1. from[w] = w
      BY <2>1, <2>4, <1>10
    <3> QED
      BY <3>1, <2>1, <2>2, <2>3, <2>4 DEF FirstBelow
  <2>5. CASE c # NULL
    <3>1. from[w] = from[c]
      BY <2>1, <2>5, <1>10
    <3>2. FirstBelow(t, S, c, from[c])
      BY <1>11, <2>5, Sides
    <3>3. from[c] \in S[w] /\ from[c] \in S[c]
      BY <3>2, <2>2 DEF FirstBelow
    <3> DEFINE m == from[c]
    <3> HIDE DEF m, c, d
    <3>4. ASSUME NEW u \in S[w], u # m PROVE m < u
      <4>1. m \in Int /\ u \in Int /\ m < w
        BY <3>3, <2>1, <2>3 DEF m
      <4>2. u \in S[c] => m < u
        BY <3>2, <3>4 DEF FirstBelow, m
      <4>3. u \in {w} \cup S[d] => m < u
        BY <4>1, <2>1, <2>3
      <4> QED
        BY <4>2, <4>3, <2>2
    <3> QED
      BY <3>1, <3>2, <3>3, <3>4 DEF FirstBelow, m
  <2> QED
    BY <2>4, <2>5
<1>12. S[t.root] \subseteq Good
  <2>1. \A w \in S[t.root] :
              (\A side \in Side : t.child[side][w] \in Good \cup {NULL}) => w \in Good
    BY <1>11
  <2> HIDE DEF Good
  <2> QED
    BY <2>1, FromLeavesUp
<1> QED
  BY <1>9, <1>12

\* The tree without z, whose only child c, or nothing, has moved up.
Unlinked(t, z, c) ==
    [root |-> IF t.parent[z] = NULL THEN c ELSE t.root,
     child |-> [s \in Side |-> [w \in Key |->
                  IF w = z THEN NULL
                  ELSE IF t.child[s][w] = z THEN c
                  ELSE t.child[s][w]]],
     parent |-> [w \in Key |->
                  IF w = z THEN NULL ELSE IF w = c THEN t.parent[z] ELSE t.parent[w]],
     record |-> t.record,
     node_count |-> t.node_count]

\* The subtrees without z.
Without(S, z) == [w \in Key \cup {NULL} |-> IF w = z THEN {} ELSE S[w] \ {z}]

\* A node that lacks a child on one side can be taken out: what is below it moves up.
LEMMA UnlinkedLinked ==
    ASSUME NEW t, NEW S, Linked(t, S), NEW z \in S[t.root], NEW side \in Side,
           t.child[side][z] = NULL, NEW c, c = t.child[Opposite(side)][z],
           NEW r, r = Unlinked(t, z, c),
           NEW Q, Q = Without(S, z)
    PROVE  Linked(r, Q) /\ Q[r.root] = S[t.root] \ {z}
<1> Q = [w \in Key \cup {NULL} |-> IF w = z THEN {} ELSE S[w] \ {z}]
  BY DEF Without
<1> DEFINE N == S[t.root]
           M == N \ {z}
           p == t.parent[z]
<1>1. t \in TreeType /\ S \in SubtreesType /\ S[NULL] = {} /\ N \subseteq Key
      /\ (\A w \in Key \ N : NodeFree(t, S, w)) /\ z \in Key /\ z # NULL /\ Opposite(side) \in Side
  BY Nested, NullNoKey, Sides DEF Linked
<1>2. \A w \in N : Down(t, S, N, w) /\ Up(t, N, w)
  BY DEF Linked, NodeRight
<1>3. c \in Key \cup {NULL} /\ p \in Key \cup {NULL}
  BY <1>1 DEF TreeType
<1>4. c # NULL => ChildOf(t, S, Opposite(side), z, c)
  BY <1>1, ChildLinks
<1>5. c # z /\ z \notin S[c] /\ S[z] = {z} \cup S[c]
  <2>1. S[z] = {z} \cup S[t.child[side][z]] \cup S[c]
    BY BothSides
  <2> QED
    BY <2>1, <1>1, <1>4 DEF ChildOf
<1>6. p = NULL <=> z = t.root
  BY ParentLinks
<1>7. p # NULL => p \in N /\ p # z /\ SideOf(t, z) \in Side /\ t.child[SideOf(t, z)][p] = z
  BY ThreeGenerations
<1>8. /\ r.root = (IF p = NULL THEN c ELSE t.root)
      /\ \A s \in Side, w \in Key : r.child[s][w] =
            IF w = z THEN NULL ELSE IF t.child[s][w] = z THEN c ELSE t.child[s][w]
      /\ \A w \in Key : r.parent[w] =
            IF w = z THEN NULL ELSE IF w = c THEN p ELSE t.parent[w]
      /\ r.record = t.record /\ r.node_count = t.node_count
  BY DEF Unlinked
<1>9. r \in TreeType
  <2> DEFINE root == IF t.parent[z] = NULL THEN c ELSE t.root
             child == [s \in Side |-> [w \in Key |->
                         IF w = z THEN NULL
                         ELSE IF t.child[s][w] = z THEN c
                         ELSE t.child[s][w]]]
             parent == [w \in Key |->
                         IF w = z THEN NULL ELSE IF w = c THEN t.parent[z] ELSE t.parent[w]]
  <2>1. root \in Key \cup {NULL} /\ child \in [Side -> [Key -> Key \cup {NULL}]]
        /\ parent \in [Key -> Key \cup {NULL}]
    BY <1>1, <1>3 DEF TreeType
  <2>2. r = [root |-> root, child |-> child, parent |-> parent, record |-> t.record,
             node_count |-> t.node_count]
    BY DEF Unlinked
  <2> HIDE DEF root, child, parent
  <2> QED
    BY <2>1, <2>2, <1>1 DEF TreeType
<1>10. Q \in SubtreesType /\ Q[NULL] = {} /\ Q[z] = {}
       /\ \A w \in Key \cup {NULL} : w # z => Q[w] = S[w] \ {z}
  BY <1>1 DEF SubtreesType
<1>11. Q[r.root] = M
  BY <1>1, <1>3, <1>5, <1>6, <1>8, <1>10 DEF TreeType
<1> HIDE DEF N, M, p
<1>12. r.root # NULL => r.root \in M /\ r.parent[r.root] = NULL
  <2>1. CASE p = NULL
    BY <2>1, <1>3, <1>4, <1>5, <1>8 DEF ChildOf, N, M
  <2>2. CASE p # NULL
    <3>1. r.root = t.root /\ t.root # z
      BY <2>2, <1>6, <1>8
    <3>2. t.root # NULL => t.root \in N /\ t.root \in Key /\ t.root # c /\ t.parent[t.root] = NULL
      BY <1>1, <1>4 DEF ChildOf, Linked, N
    <3> QED
      BY <3>1, <3>2, <1>8 DEF M
  <2> QED
    BY <2>1, <2>2
<1>13. ASSUME NEW w \in Key \ M PROVE NodeFree(r, Q, w)
  <2>1. CASE w = z
    BY <2>1, <1>1, <1>8, <1>10 DEF NodeFree
  <2>2. CASE w # z
    <3>1. NodeFree(t, S, w) /\ w # c
      BY <2>2, <1>1, <1>4, <1>13, NullNoKey DEF M, N, ChildOf
    <3>2. Q[w] = {}
      BY <2>2, <3>1, <1>10 DEF NodeFree
    <3>3. r.parent[w] = NULL
      BY <2>2, <3>1, <1>8 DEF NodeFree
    <3>4. ASSUME NEW q \in Side PROVE r.child[q][w] = NULL
      <4>1. t.child[q][w] = NULL /\ z # NULL
        BY <3>1, <1>1, NullNoKey DEF NodeFree
      <4> QED
        BY <2>2, <4>1, <1>8
    <3> QED
      BY <3>2, <3>3, <3>4 DEF NodeFree
  <2> QED
    BY <2>1, <2>2
<1>14. ASSUME NEW w \in M PROVE Down(r, Q, M, w)
  <2>1. w \in N /\ w \in Key /\ w # z /\ Down(t, S, N, w)
    BY <1>1, <1>2 DEF M, N
  <2>2. ASSUME NEW s \in Side
        PROVE  LET d == t.child[s][w]
                   e == r.child[s][w]
               IN  /\ Q[e] = S[d] \ {z}
                   /\ e # NULL => e \in M /\ r.parent[e] = w
    <3> DEFINE d == t.child[s][w]
               e == r.child[s][w]
    <3>1. d \in Key \cup {NULL} /\ e = (IF d = z THEN c ELSE d)
      BY <2>1, <1>1, <1>8 DEF TreeType
    <3>2. d # NULL => d \in N /\ t.parent[d] = w
      BY <2>1 DEF Down
    <3> HIDE DEF d, e
    <3>3. CASE d = z
      <4>1. e = c /\ p = w
        BY <3>1, <3>2, <3>3, <1>1 DEF p
      <4>2. Q[c] = S[c] /\ S[d] \ {z} = S[c]
        <5>1. Q[c] = S[c] \ {z}
          BY <1>3, <1>5, <1>10
        <5>2. S[c] \ {z} = S[c] /\ S[z] \ {z} = S[c]
          BY <1>5
        <5> QED
          BY <5>1, <5>2, <3>3
      <4>3. c # NULL => c \in M /\ r.parent[c] = p
        BY <1>3, <1>4, <1>5, <1>8 DEF ChildOf, M, N
      <4> QED
        BY <4>1, <4>2, <4>3 DEF d, e
    <3>4. CASE d # z
      <4>1. e = d /\ Q[d] = S[d] \ {z}
        BY <3>1, <3>4, <1>10
      <4>2. d # NULL => d # c
        BY <3>2, <2>1, <1>4 DEF ChildOf
      <4>3. d # NULL => d \in M /\ r.parent[d] = w
        BY <3>1, <3>2, <3>4, <4>2, <1>8 DEF M
      <4> QED
        BY <4>1, <4>3 DEF d, e
    <3> QED
      BY <3>3, <3>4
  <2>3. S[w] \subseteq N /\ S[w] = {w} \cup S[t.child["left"][w]] \cup S[t.child["right"][w]]
    BY <2>1 DEF Down
  <2>4. Q[w] = {w} \cup Q[r.child["left"][w]] \cup Q[r.child["right"][w]] /\ Q[w] \subseteq M
    <3> DEFINE L == S[t.child["left"][w]]
               R == S[t.child["right"][w]]
    <3>1. Q[r.child["left"][w]] = L \ {z} /\ Q[r.child["right"][w]] = R \ {z}
      BY <2>2, Sides
    <3>2. Q[w] = S[w] \ {z} /\ S[w] = {w} \cup L \cup R
      BY <2>1, <2>3, <1>10
    <3> HIDE DEF L, R
    <3>3. Q[w] = {w} \cup (L \ {z}) \cup (R \ {z})
      BY <2>1, <3>2
    <3> QED
      BY <2>3, <3>1, <3>2, <3>3 DEF M
  <2>5. ASSUME NEW s \in Side, NEW u \in Q[r.child[s][w]] PROVE OnSide(s, u, w)
    <3>1. u \in S[t.child[s][w]]
      BY <2>2, <2>5
    <3> QED
      BY <2>1, <3>1 DEF Down
  <2> QED
    BY <2>2, <2>4, <2>5 DEF Down
<1>15. ASSUME NEW w \in M PROVE Up(r, M, w)
  <2> SUFFICES ASSUME w # r.root
               PROVE  r.parent[w] \in M /\ \E s \in Side : r.child[s][r.parent[w]] = w
    BY DEF Up
  <2>1. w \in N /\ w \in Key /\ w # z /\ Up(t, N, w)
    BY <1>1, <1>2 DEF M, N
  <2>2. CASE w = c
    <3>1. p # NULL
      BY <2>2, <1>8
    <3>2. r.parent[w] = p /\ r.child[SideOf(t, z)][p] = c
      BY <2>1, <2>2, <3>1, <1>1, <1>3, <1>7, <1>8
    <3> QED
      BY <2>2, <3>1, <3>2, <1>7 DEF M
  <2>3. CASE w # c
    <3>1. w # t.root
      BY <2>1, <2>3, <1>6, <1>8
    <3>2. r.parent[w] = t.parent[w] /\ t.parent[w] \in N /\ t.parent[w] \in Key
      BY <2>1, <2>3, <3>1, <1>1, <1>8 DEF Up, N
    <3>3. PICK s \in Side : t.child[s][t.parent[w]] = w
      BY <2>1, <3>1 DEF Up
    <3>4. t.parent[w] # z
      <4>1. s = side \/ s = Opposite(side)
        BY Sides
      <4>2. w # NULL
        BY <2>1, NullNoKey
      <4> QED
        BY <3>3, <4>1, <4>2, <2>3
    <3>5. r.child[s][t.parent[w]] = w
      BY <2>1, <3>2, <3>3, <3>4, <1>8
    <3> QED
      BY <3>2, <3>4, <3>5 DEF M
  <2> QED
    BY <2>2, <2>3
<1>16. \A w \in M : NodeRight(r, Q, w)
  BY <1>11, <1>14, <1>15 DEF NodeRight
<1>17. Linked(r, Q)
  BY <1>9, <1>10, <1>11, <1>12, <1>13, <1>16 DEF Linked
<1> QED
  BY <1>11, <1>17 DEF M, N

\* y in the place of z, and z in the place of y.
Renamed(z, y, d) == IF d = z THEN y ELSE d

\* The tree where y, a key that is not in it, stands at the place of z.
Substituted(t, z, y) ==
    [root |-> Renamed(z, y, t.root),
     child |-> [s \in Side |-> [w \in Key |->
                  IF w = z THEN NULL ELSE Renamed(z, y, t.child[s][Renamed(y, z, w)])]],
     parent |-> [w \in Key |->
                  IF w = z THEN NULL ELSE Renamed(z, y, t.parent[Renamed(y, z, w)])],
     record |-> t.record,
     node_count |-> t.node_count]

\* No key of N is between y and z.
Neighbours(N, z, y) == \A u \in N \ {z} : (u < z <=> u < y) /\ (z < u <=> y < u)

\* The subtrees with y in the place of z.
WithAt(S, z, y) ==
    [w \in Key \cup {NULL} |->
       IF w = z THEN {} ELSE {Renamed(z, y, u) : u \in S[Renamed(y, z, w)]}]

\* r is linked and holds the keys N, but y for z.
Moved(r, Q, N, z, y) == Linked(r, Q) /\ Q[r.root] = (N \ {z}) \cup {y}

\* A key may be put at the place of a neighbour.
LEMMA SubstitutedLinked ==
    ASSUME NEW t, NEW S, Linked(t, S), NEW z \in S[t.root], NEW y \in Key, y \notin S[t.root],
           Neighbours(S[t.root], z, y)
    PROVE  Moved(Substituted(t, z, y), WithAt(S, z, y), S[t.root], z, y)
<1> DEFINE r == Substituted(t, z, y)
           Q == WithAt(S, z, y)
<1> Q = [w \in Key \cup {NULL} |->
           IF w = z THEN {} ELSE {Renamed(z, y, u) : u \in S[Renamed(y, z, w)]}]
  BY DEF WithAt
<1> r = Substituted(t, z, y)
  OBVIOUS
<1> HIDE DEF r, Q
<1> DEFINE N == S[t.root]
           M == (N \ {z}) \cup {y}
           to(d) == Renamed(z, y, d)
           back(w) == Renamed(y, z, w)
           Image(A) == {to(u) : u \in A}
<1>1. t \in TreeType /\ S \in SubtreesType /\ S[NULL] = {} /\ N \subseteq Key
      /\ (\A w \in Key \ N : NodeFree(t, S, w)) /\ z \in Key /\ z # NULL /\ y # NULL /\ y # z
  BY Nested, NullNoKey DEF Linked
<1>2. \A w \in N : Down(t, S, N, w) /\ Up(t, N, w)
  BY DEF Linked, NodeRight
<1>3. \A d \in N \cup {NULL} : back(to(d)) = d /\ to(d) # z /\ (to(d) = NULL <=> d = NULL)
                               /\ to(d) \in M \cup {NULL} /\ (d # NULL => to(d) \in M)
  BY <1>1 DEF Renamed
<1>4. \A w \in M : back(w) \in N /\ to(back(w)) = w /\ w # z /\ w \in Key
  BY <1>1 DEF Renamed
<1>5. /\ r.root = to(t.root)
      /\ \A s \in Side, w \in Key : r.child[s][w] = IF w = z THEN NULL ELSE to(t.child[s][back(w)])
      /\ \A w \in Key : r.parent[w] = IF w = z THEN NULL ELSE to(t.parent[back(w)])
      /\ r.record = t.record /\ r.node_count = t.node_count
  BY DEF Substituted
<1>6. \A d \in Key \cup {NULL} : to(d) \in Key \cup {NULL} /\ back(d) \in Key \cup {NULL}
                                 /\ (d \in Key => back(d) \in Key)
  BY <1>1 DEF Renamed
<1>7. r \in TreeType
  <2> DEFINE root == to(t.root)
             child == [s \in Side |-> [w \in Key |->
                         IF w = z THEN NULL ELSE to(t.child[s][back(w)])]]
             parent == [w \in Key |-> IF w = z THEN NULL ELSE to(t.parent[back(w)])]
  <2>1. r = [root |-> root, child |-> child, parent |-> parent, record |-> t.record,
             node_count |-> t.node_count]
    BY DEF Substituted
  <2> HIDE DEF to, back
  <2>2. root \in Key \cup {NULL} /\ child \in [Side -> [Key -> Key \cup {NULL}]]
        /\ parent \in [Key -> Key \cup {NULL}]
    BY <1>1, <1>6 DEF TreeType
  <2> HIDE DEF root, child, parent
  <2> QED
    BY <2>1, <2>2, <1>1 DEF TreeType
<1>8. Image(N) = M
  BY DEF Renamed
<1>9. \A w \in Key \cup {NULL} : Q[w] = IF w = z THEN {} ELSE Image(S[back(w)])
  OBVIOUS
<1>10. Q \in SubtreesType
  <2>1. \A w \in Key \cup {NULL} : Image(S[back(w)]) \subseteq Key
    <3> SUFFICES ASSUME NEW w \in Key \cup {NULL}, NEW u \in S[back(w)] PROVE to(u) \in Key
      OBVIOUS
    <3>1. u \in Key
      BY <1>1, <1>6 DEF SubtreesType
    <3> QED
      BY <3>1, <1>1 DEF Renamed
  <2>2. \A w \in Key \cup {NULL} : Q[w] \in SUBSET Key
    <3> SUFFICES ASSUME NEW w \in Key \cup {NULL} PROVE Q[w] \subseteq Key
      OBVIOUS
    <3>1. Q[w] = IF w = z THEN {} ELSE Image(S[back(w)])
      BY <1>9
    <3>2. Image(S[back(w)]) \subseteq Key
      BY <2>1
    <3> HIDE DEF Image, back
    <3> QED
      BY <3>1, <3>2
  <2>3. Q = [w \in Key \cup {NULL} |-> Q[w]]
    OBVIOUS
  <2> QED
    BY <2>2, <2>3 DEF SubtreesType
<1>11. ASSUME NEW d \in N \cup {NULL} PROVE Q[to(d)] = Image(S[d])
  <2>1. to(d) \in Key \cup {NULL} /\ to(d) # z /\ back(to(d)) = d
    BY <1>1, <1>3, <1>6
  <2> HIDE DEF to, back, Image
  <2> QED
    BY <2>1, <1>9
<1>12. Q[NULL] = {}
  BY <1>1 DEF Renamed
<1>13. t.root \in N \cup {NULL} /\ (t.root # NULL => t.parent[t.root] = NULL)
  BY DEF Linked
<1>14. Q[r.root] = M
  BY <1>5, <1>8, <1>11, <1>13
<1>15. ASSUME NEW s \in Side, NEW u \in N, NEW v \in N, u # v, OnSide(s, u, v)
       PROVE  OnSide(s, to(u), to(v))
  <2>1. Neighbours(N, z, y)
    OBVIOUS
  <2>2. u = z => v # z
    BY <1>15
  <2>3. /\ u # z => (u < z <=> u < y) /\ (z < u <=> y < u)
        /\ v # z => (v < z <=> v < y) /\ (z < v <=> y < v)
    BY <2>1 DEF Neighbours
  <2> QED
    BY <1>15, <2>2, <2>3 DEF OnSide, Renamed
<1> HIDE DEF N, M, to, back, Image
<1>16. ASSUME r.root # NULL PROVE r.root \in M /\ r.parent[r.root] = NULL
  <2>1. t.root # NULL /\ t.root \in N /\ t.parent[t.root] = NULL
    BY <1>3, <1>5, <1>13, <1>16
  <2>2. to(t.root) \in M /\ to(t.root) # z /\ back(to(t.root)) = t.root
    BY <2>1, <1>3
  <2>3. to(t.root) \in Key /\ to(NULL) = NULL
    BY <2>2, <1>3, <1>4
  <2> QED
    BY <2>1, <2>2, <2>3, <1>5
<1>17. ASSUME NEW w \in Key \ M PROVE NodeFree(r, Q, w)
  <2>1. CASE w = z
    BY <2>1, <1>5, <1>9 DEF NodeFree
  <2>2. CASE w # z
    <3>1. back(w) = w /\ w \notin N
      BY <2>2, <1>17 DEF M, back, Renamed
    <3>2. NodeFree(t, S, w) /\ to(NULL) = NULL /\ Image({}) = {}
      BY <3>1, <1>1, <1>3 DEF Image
    <3>3. w \in Key /\ w \in Key \cup {NULL}
      BY <1>17
    <3>4. Q[w] = Image(S[w])
      BY <2>2, <3>1, <3>3, <1>9
    <3>5. \A s \in Side : r.child[s][w] = to(t.child[s][w])
      BY <2>2, <3>1, <3>3, <1>5
    <3>6. r.parent[w] = to(t.parent[w])
      BY <2>2, <3>1, <3>3, <1>5
    <3> QED
      BY <3>2, <3>4, <3>5, <3>6 DEF NodeFree
  <2> QED
    BY <2>1, <2>2
<1>18. ASSUME NEW w \in M PROVE Down(r, Q, M, w)
  <2> DEFINE v == back(w)
  <2>1. v \in N /\ to(v) = w /\ w # z /\ w \in Key /\ Down(t, S, N, v) /\ v \in Key
    BY <1>1, <1>2, <1>4
  <2> HIDE DEF v
  <2>2. Q[w] = Image(S[v])
    BY <2>1, <1>11
  <2>3. ASSUME NEW s \in Side
        PROVE  LET d == t.child[s][v]
                   e == r.child[s][w]
               IN  /\ Q[e] = Image(S[d])
                   /\ e # NULL => e \in M /\ r.parent[e] = w
    <3> DEFINE d == t.child[s][v]
               e == r.child[s][w]
    <3>1. e = to(d)
      BY <2>1, <1>5 DEF v
    <3>2. d # NULL => d \in N /\ t.parent[d] = v
      BY <2>1 DEF Down
    <3> HIDE DEF d, e
    <3>3. e # NULL => e \in M /\ e # z /\ back(e) = d /\ e \in Key /\ d # NULL
      BY <3>1, <3>2, <1>3, <1>4
    <3>4. Q[e] = Image(S[d])
      BY <3>1, <3>2, <1>11
    <3>5. e # NULL => r.parent[e] = w
      BY <3>2, <3>3, <2>1, <1>5
    <3> QED
      BY <3>3, <3>4, <3>5 DEF d, e
  <2>4. S[v] \subseteq N /\ S[v] = {v} \cup S[t.child["left"][v]] \cup S[t.child["right"][v]]
    BY <2>1 DEF Down
  <2>5. Q[w] = {w} \cup Q[r.child["left"][w]] \cup Q[r.child["right"][w]] /\ Q[w] \subseteq M
    <3> DEFINE L == S[t.child["left"][v]]
               R == S[t.child["right"][v]]
    <3>1. Q[r.child["left"][w]] = Image(L) /\ Q[r.child["right"][w]] = Image(R)
      BY <2>3, Sides
    <3> HIDE DEF L, R
    <3>2. Image(S[v]) = {to(v)} \cup Image(L) \cup Image(R)
      BY <2>4 DEF Image, L, R
    <3>3. Image(S[v]) \subseteq Image(N)
      BY <2>4 DEF Image
    <3> QED
      BY <2>1, <2>2, <3>1, <3>2, <3>3, <1>8
  <2>6. ASSUME NEW s \in Side, NEW k \in Q[r.child[s][w]] PROVE OnSide(s, k, w)
    <3>0. k \in Image(S[t.child[s][v]])
      BY <2>3, <2>6
    <3>1. PICK u \in S[t.child[s][v]] : k = to(u)
      BY <3>0 DEF Image
    <3>2. OnSide(s, u, v)
      BY <2>1, <3>1 DEF Down
    <3>3. u \in N /\ u # v
      BY <2>1, <3>1, <2>4, Sides, Apart DEF N
    <3> QED
      BY <3>1, <3>2, <3>3, <2>1, <1>15
  <2> QED
    BY <2>3, <2>5, <2>6 DEF Down
<1>19. ASSUME NEW w \in M PROVE Up(r, M, w)
  <2> SUFFICES ASSUME w # r.root
               PROVE  r.parent[w] \in M /\ \E s \in Side : r.child[s][r.parent[w]] = w
    BY DEF Up
  <2> DEFINE v == back(w)
             m == t.parent[v]
  <2>1. v \in N /\ to(v) = w /\ w # z /\ w \in Key /\ Up(t, N, v) /\ v \in Key /\ v # t.root
    BY <1>1, <1>2, <1>4, <1>5
  <2>2. m \in N
    BY <2>1 DEF Up
  <2>3. PICK s \in Side : t.child[s][m] = v
    BY <2>1 DEF Up
  <2>4. r.parent[w] = to(m)
    BY <2>1, <1>5
  <2>5. to(m) \in M /\ to(m) \in Key /\ to(m) # z /\ back(to(m)) = m
    BY <2>2, <1>1, <1>3, <1>4, NullNoKey
  <2>6. r.child[s][to(m)] = to(v)
    BY <2>3, <2>5, <1>5
  <2> QED
    BY <2>1, <2>4, <2>5, <2>6
<1>20. \A w \in M : NodeRight(r, Q, w)
  BY <1>14, <1>18, <1>19 DEF NodeRight
<1>21. Linked(r, Q)
  BY <1>7, <1>10, <1>12, <1>14, <1>16, <1>17, <1>20 DEF Linked
<1> QED
  BY <1>14, <1>21 DEF M, N, Moved, r, Q

\* r and t are linked in the same way.
SameLinks(r, t) ==
    /\ r \in TreeType
    /\ r.root = t.root
    /\ \A s \in Side, w \in Key : r.child[s][w] = t.child[s][w]
    /\ \A w \in Key : r.parent[w] = t.parent[w]

\* Pointers that are the same mean the same.
LEMMA SameLinksLinked ==
    ASSUME NEW t, NEW S, Linked(t, S), NEW r, SameLinks(r, t)
    PROVE  Linked(r, S)
<1>1. t \in TreeType /\ r \in TreeType
  BY DEF Linked, SameLinks
<1>2. r.parent = t.parent
  BY <1>1 DEF TreeType, SameLinks
<1>3. r.child = t.child
  <2>1. \A s \in Side : r.child[s] = t.child[s]
    BY <1>1 DEF TreeType, SameLinks
  <2> QED
    BY <1>1, <2>1 DEF TreeType
<1> QED
  BY <1>1, <1>2, <1>3, OtherFields DEF SameLinks

\* The pointers to a node of the tree: one from above, and those of its children.
LEMMA LinksTo ==
    ASSUME NEW t, NEW S, Linked(t, S), NEW z \in S[t.root]
    PROVE  /\ \A s \in Side, w \in Key :
                t.child[s][w] = z <=> w = t.parent[z] /\ s = SideOf(t, z)
           /\ \A w \in Key : t.parent[w] = z =>
                w = t.child["left"][z] \/ w = t.child["right"][z]
<1>1. z \in Key /\ z # NULL
  BY Nested, NullNoKey
<1>2. ASSUME NEW s \in Side, NEW w \in Key, t.child[s][w] = z
      PROVE  w = t.parent[z] /\ s = SideOf(t, z)
  <2>1. w \in S[t.root]
    BY <1>1, <1>2 DEF Linked, NodeFree
  <2>2. ChildOf(t, S, s, w, t.child[s][w])
    BY <2>1, <1>1, <1>2, ChildLinks
  <2> QED
    BY <2>2, <1>2 DEF ChildOf
<1>3. ASSUME NEW s \in Side, NEW w \in Key, w = t.parent[z], s = SideOf(t, z)
      PROVE  t.child[s][w] = z
  BY <1>3, ParentLinks, NullNoKey
<1>4. ASSUME NEW w \in Key, t.parent[w] = z
      PROVE  w = t.child["left"][z] \/ w = t.child["right"][z]
  <2>1. w \in S[t.root]
    BY <1>1, <1>4 DEF Linked, NodeFree
  <2>2. SideOf(t, w) \in Side /\ t.child[SideOf(t, w)][z] = w
    BY <2>1, <1>1, <1>4, ParentLinks
  <2> QED
    BY <2>2, Sides
<1> QED
  BY <1>2, <1>3, <1>4

\* What is left when the node of z is freed.
Freed(r, t, z) ==
    /\ r \in TreeType
    /\ r.root = t.root
    /\ \A s \in Side, w \in Key : r.child[s][w] = IF w = z THEN NULL ELSE t.child[s][w]
    /\ \A w \in Key : r.parent[w] = IF w = z THEN NULL ELSE t.parent[w]
    /\ r.record = [t.record EXCEPT ![z] = NULL]
    /\ r.node_count = t.node_count - 1

\* Forgotten does that.
LEMMA ForgottenLinks ==
    ASSUME NEW t \in TreeType, NEW z \in Key
    PROVE  Freed(Forgotten(t, z), t, z)
<1> DEFINE r == Forgotten(t, z)
           left == [t.child["left"] EXCEPT ![z] = NULL]
           right == [t.child["right"] EXCEPT ![z] = NULL]
           child == [[t.child EXCEPT !["left"] = left] EXCEPT !["right"] = right]
           parent == [t.parent EXCEPT ![z] = NULL]
           record == [t.record EXCEPT ![z] = NULL]
           n == t.node_count - 1
<1>1. t.child \in [Side -> [Key -> Key \cup {NULL}]] /\ t.parent \in [Key -> Key \cup {NULL}]
      /\ t.record \in [Key -> State \cup {NULL}] /\ t.node_count \in Int
      /\ t.root \in Key \cup {NULL}
  BY DEF TreeType
<1>2. child \in [Side -> [Key -> Key \cup {NULL}]]
      /\ \A s \in Side, w \in Key : child[s][w] = IF w = z THEN NULL ELSE t.child[s][w]
  <2>1. left \in [Key -> Key \cup {NULL}] /\ right \in [Key -> Key \cup {NULL}]
        /\ \A w \in Key : /\ left[w] = IF w = z THEN NULL ELSE t.child["left"][w]
                          /\ right[w] = IF w = z THEN NULL ELSE t.child["right"][w]
    BY <1>1, Sides
  <2> HIDE DEF left, right
  <2>2. child \in [Side -> [Key -> Key \cup {NULL}]] /\ child["left"] = left /\ child["right"] = right
    BY <1>1, <2>1, Sides
  <2> HIDE DEF child
  <2> QED
    BY <2>1, <2>2, Sides
<1>3. parent \in [Key -> Key \cup {NULL}]
      /\ \A w \in Key : parent[w] = IF w = z THEN NULL ELSE t.parent[w]
  BY <1>1
<1>4. record \in [Key -> State \cup {NULL}] /\ n \in Int
  BY <1>1
<1>5. r = [t EXCEPT !.child = child, !.parent = parent, !.record = record, !.node_count = n]
  BY <1>1, Sides DEF Forgotten, TreeType
<1> HIDE DEF child, parent, record, n
<1>6. r \in TreeType /\ r.root = t.root /\ r.child = child /\ r.parent = parent
      /\ r.record = record /\ r.node_count = n
  BY <1>1, <1>2, <1>3, <1>4, <1>5 DEF TreeType
<1> HIDE DEF r
<1>7. Freed(r, t, z)
  BY <1>2, <1>3, <1>6 DEF Freed, record, n
<1> QED
  BY <1>7 DEF r

\* A node with one child, or none, is taken out by putting the child at its place.
LEMMA SpliceUnlinks ==
    ASSUME NEW t, NEW S, Linked(t, S), NEW z \in S[t.root], NEW side \in Side,
           t.child[side][z] = NULL
    PROVE  LET c == t.child[Opposite(side)][z]
           IN  SameLinks(Forgotten(replace(t, z, c), z), Unlinked(t, z, c))
<1> DEFINE c == t.child[Opposite(side)][z]
           v == replace(t, z, c)
           r == Forgotten(v, z)
           u == Unlinked(t, z, c)
<1>1. t \in TreeType /\ z \in Key /\ Opposite(side) \in Side /\ c \in Key \cup {NULL}
  BY Nested, Sides DEF Linked, TreeType
<1> HIDE DEF c
<1>2. Replaced(v, t, z, c)
  BY <1>1, ReplaceLinks
<1>3. v \in TreeType
  BY <1>2 DEF Replaced
<1> HIDE DEF v
<1>4. Freed(r, v, z)
  BY <1>1, <1>3, ForgottenLinks
<1>5. \A s \in Side, w \in Key :
        t.child[s][w] = z <=> w = t.parent[z] /\ s = SideOf(t, z)
  BY LinksTo
<1>6. /\ u.root = (IF t.parent[z] = NULL THEN c ELSE t.root)
      /\ \A s \in Side, w \in Key : u.child[s][w] =
            IF w = z THEN NULL ELSE IF t.child[s][w] = z THEN c ELSE t.child[s][w]
      /\ \A w \in Key : u.parent[w] =
            IF w = z THEN NULL ELSE IF w = c THEN t.parent[z] ELSE t.parent[w]
  BY DEF Unlinked
<1> HIDE DEF r, u
<1>7. r \in TreeType /\ r.root = u.root
  BY <1>2, <1>4, <1>6 DEF Freed, Replaced
<1>8. \A s \in Side, w \in Key : r.child[s][w] = u.child[s][w]
  BY <1>2, <1>4, <1>5, <1>6 DEF Freed, Replaced
<1>9. \A w \in Key : r.parent[w] = u.parent[w]
  BY <1>2, <1>4, <1>6 DEF Freed, Replaced
<1>10. SameLinks(r, u)
  BY <1>7, <1>8, <1>9 DEF SameLinks
<1> QED
  BY <1>10 DEF r, u, v, c

\* z has two children, l and rr; y is the first key below rr, m its parent and c its
\* only child, if any; p is the parent of z, if any.
Kin(t, S, z, l, rr, y, m, c, p) ==
    /\ z \in Key /\ l \in Key /\ rr \in Key /\ y \in Key /\ m \in Key
    /\ {z, l, rr, y, m, c, p} \subseteq Key \cup {NULL}
    /\ y \in S[rr] /\ y \in S[t.root] /\ rr \in S[t.root] /\ l \in S[t.root] /\ rr # z
    /\ l # rr /\ l # y /\ l # z /\ y # z
    /\ p # z /\ p # y /\ p # m /\ p # l /\ p # rr
    /\ m # y
    /\ (m = z <=> y = rr)
    /\ c # z /\ c # l /\ c # rr /\ c # y
    /\ t.child["left"][y] = NULL
    /\ \A w \in Key : t.parent[w] = z <=> w = l \/ w = rr

\* None of them is another, but that the first key may be the right child itself.
LEMMA SuccessorKin ==
    ASSUME NEW t, NEW S, Linked(t, S), NEW z \in S[t.root],
           t.child["left"][z] # NULL, t.child["right"][z] # NULL,
           NEW y, FirstBelow(t, S, t.child["right"][z], y)
    PROVE  Kin(t, S, z, t.child["left"][z], t.child["right"][z], y, t.parent[y],
               t.child["right"][y], t.parent[z])
<1> DEFINE l == t.child["left"][z]
           rr == t.child["right"][z]
           m == t.parent[y]
           c == t.child["right"][y]
           p == t.parent[z]
<1>1. /\ ChildOf(t, S, "left", z, l) /\ ChildOf(t, S, "right", z, rr)
      /\ "left" \in Side /\ "right" \in Side
  BY Sides, ChildLinks
<1>2. z \in Key /\ z \in S[z] /\ z # NULL /\ S[rr] \subseteq S[z] /\ S[l] \subseteq S[z]
      /\ S[z] \subseteq S[t.root]
  BY <1>1, Nested, NullNoKey DEF ChildOf, Linked, NodeRight, Down
<1>3. S[l] \cap S[rr] = {}
  BY Sides, Apart
<1>4. y \in S[rr] /\ t.child["left"][y] = NULL
  BY DEF FirstBelow
<1> HIDE DEF l, rr
<1>5. y \in S[t.root] /\ y \in S[z]
  BY <1>2, <1>4
<1>6. y \in Key /\ y # NULL
  BY <1>5, Nested, NullNoKey
<1>7. z \notin S[rr] /\ z \notin S[l] /\ l \in S[l] /\ rr \in S[rr] /\ l \in Key /\ rr \in Key
      /\ t.parent[rr] = z /\ t.parent[l] = z /\ l \in S[t.root] /\ rr \in S[t.root]
  BY <1>1 DEF ChildOf
<1>8. y = rr => m = z
  BY <1>7
<1>9. y # rr => m \in S[rr]
  BY <1>4, <1>7, ParentInside
<1>10. m \in S[z] /\ (m = z <=> y = rr) /\ m \in S[t.root] /\ m \in Key
  <2>1. m \in S[z] /\ (m = z <=> y = rr) /\ m \in S[t.root]
    BY <1>2, <1>7, <1>8, <1>9
  <2> QED
    BY <2>1, Nested
<1>11. m # y
  <2>1. y # t.root
    BY <1>5, <1>10, ParentLinks, NullNoKey
  <2>2. t.child[SideOf(t, y)][m] = y /\ SideOf(t, y) \in Side
    BY <1>5, <1>10, ParentLinks, NullNoKey
  <2>3. ChildOf(t, S, SideOf(t, y), m, y)
    BY <2>2, <1>6, <1>10, ChildLinks
  <2> QED
    BY <2>3 DEF ChildOf
<1>12. p \notin S[z] /\ p \in Key \cup {NULL}
  <2>1. CASE p = NULL
    <3>1. S[z] \subseteq Key
      BY Nested, <1>2
    <3> QED
      BY <2>1, <3>1, NullNoKey
  <2>2. CASE p # NULL
    <3>1. p \in S[t.root] /\ p \in Key /\ SideOf(t, z) \in Side /\ t.child[SideOf(t, z)][p] = z
      BY <2>2, ParentLinks
    <3>2. ChildOf(t, S, SideOf(t, z), p, z)
      BY <3>1, <1>2, ChildLinks
    <3>3. p \notin S[z]
      BY <3>2 DEF ChildOf
    <3> QED
      BY <3>1, <3>3
  <2> QED
    BY <2>1, <2>2
<1>13. c \in Key \cup {NULL}
  BY <1>1, <1>6 DEF Linked, TreeType
<1>14. c # NULL => c \in S[rr] /\ c # rr /\ c # y
  <2> SUFFICES ASSUME c # NULL PROVE c \in S[rr] /\ c # rr /\ c # y
    OBVIOUS
  <2>1. ChildOf(t, S, "right", y, c)
    BY <1>1, <1>5, ChildLinks
  <2>2. c \in S[c] /\ S[c] \subseteq S[y] /\ t.parent[c] = y /\ c # y
    BY <2>1 DEF ChildOf
  <2>3. S[y] \subseteq S[rr]
    BY <1>4, <1>7, Nested
  <2> QED
    BY <2>2, <2>3, <1>2, <1>4, <1>7
<1>15. c # z /\ c # l /\ c # rr /\ c # y
  BY <1>2, <1>3, <1>6, <1>7, <1>14, NullNoKey
<1>16. \A w \in Key : t.parent[w] = z <=> w = l \/ w = rr
  BY <1>7, LinksTo DEF l, rr
<1>17. Kin(t, S, z, l, rr, y, m, c, p)
  BY <1>2, <1>3, <1>4, <1>5, <1>6, <1>7, <1>10, <1>11, <1>12, <1>13, <1>15, <1>16 DEF Kin
<1> QED
  BY <1>17 DEF l, rr

\* The first key on the right of z has no key of the tree between itself and z.
LEMMA SuccessorNeighbours ==
    ASSUME NEW t, NEW S, Linked(t, S), NEW z \in S[t.root], t.child["right"][z] # NULL,
           NEW y, FirstBelow(t, S, t.child["right"][z], y)
    PROVE  Neighbours(S[t.root] \ {y}, z, y)
<1> DEFINE l == t.child["left"][z]
           rr == t.child["right"][z]
<1> SUFFICES ASSUME NEW u \in S[t.root], u # y, u # z
             PROVE  (u < z <=> u < y) /\ (z < u <=> y < u)
  BY DEF Neighbours
<1>1. y \in S[rr] /\ \A k \in S[rr] : k # y => y < k
  BY DEF FirstBelow
<1>2. S[z] = {z} \cup S[l] \cup S[rr] /\ z \in S[z]
  BY DEF Linked, NodeRight, Down
<1>3. (\A k \in S[l] : k < z) /\ (\A k \in S[rr] : z < k)
  BY Sides DEF Linked, NodeRight, Down, OnSide
<1>4. u \in Key /\ z \in Key
  BY Nested
<1>8. S[z] \subseteq Key
  BY <1>4 DEF Linked, SubtreesType
<1> HIDE DEF l, rr
<1>9. y \in Int /\ u \in Int /\ z \in Int /\ z < y
  <2>1. z < y
    BY <1>1, <1>3
  <2>2. y \in S[z]
    BY <1>1, <1>2
  <2>3. y \in Key
    BY <2>2, <1>8
  <2>4. Key \subseteq Int
    BY KeyAssumption
  <2> QED
    BY <2>1, <2>3, <2>4, <1>4
<1>5. CASE u \in S[l]
  <2>1. u < z
    BY <1>3, <1>5
  <2> QED
    BY <2>1, <1>9
<1>6. CASE u \in S[rr]
  <2>1. z < u /\ y < u
    BY <1>1, <1>3, <1>6
  <2> QED
    BY <2>1, <1>9
<1>7. CASE u \notin S[z]
  <2>1. u \in S[t.root] \ S[z] /\ z \in S[z] /\ y \in S[z]
    BY <1>1, <1>2, <1>7
  <2> QED
    BY <2>1, Convex
<1> QED
  BY <1>2, <1>5, <1>6, <1>7

\* r is t where y has the place of z, and c that of y; z still points where it did.
Succeeded(r, t, z, l, rr, y, m, c, p) ==
    /\ r \in TreeType
    /\ SameContents(r, t)
    /\ r.root = IF p = NULL THEN y ELSE t.root
    /\ \A s \in Side, w \in Key : w # z =>
         r.child[s][w] =
            IF w = y THEN (IF s = "left" THEN l ELSE IF y = rr THEN c ELSE rr)
            ELSE IF w = p /\ s = SideOf(t, z) THEN y
            ELSE IF w = m /\ s = SideOf(t, y) THEN c
            ELSE t.child[s][w]
    /\ \A w \in Key : w # z =>
         r.parent[w] =
            IF w = l \/ (w = rr /\ w # y) THEN y
            ELSE IF w = y THEN p
            ELSE IF w = c /\ y # rr THEN m
            ELSE t.parent[w]

\* What Succeed leaves, whether the first key is the right child itself or further down.
LEMMA SucceedLinks ==
    ASSUME NEW t, NEW S, Linked(t, S), NEW z \in S[t.root],
           t.child["left"][z] # NULL, t.child["right"][z] # NULL,
           NEW y, y = subtree_minimum(t, t.child["right"][z]),
           Kin(t, S, z, t.child["left"][z], t.child["right"][z], y, t.parent[y],
               t.child["right"][y], t.parent[z])
    PROVE  Succeeded(Succeed(t, z), t, z, t.child["left"][z], t.child["right"][z], y,
                     t.parent[y], t.child["right"][y], t.parent[z])
<1> DEFINE l == t.child["left"][z]
           rr == t.child["right"][z]
           m == t.parent[y]
           c == t.child["right"][y]
           p == t.parent[z]
           fr == IF m = z THEN t ELSE Attach(replace(t, y, c), "right", y, rr)
           g == replace(fr, z, y)
           r == Attach(g, "left", y, fr.child["left"][z])
<1>1. Kin(t, S, z, l, rr, y, m, c, p) /\ t \in TreeType
  BY DEF Linked
<1>2. Succeed(t, z) = r
  BY DEF Succeed
<1> HIDE DEF l, rr, m, c, p
<1>3. ASSUME m = z PROVE Succeeded(r, t, z, l, rr, y, m, c, p)
  <2>1. fr = t /\ y = rr
    BY <1>1, <1>3 DEF Kin
  <2>2. Replaced(g, t, z, y)
    BY <1>1, <2>1, ReplaceLinks DEF Kin
  <2>3. g \in TreeType /\ fr.child["left"][z] = l
    BY <2>1, <2>2 DEF Replaced, l
  <2> HIDE DEF g
  <2>4. Attached(r, g, "left", y, l)
    BY <1>1, <2>3, AttachLinks, Sides DEF Kin
  <2> HIDE DEF r
  <2>5. c = t.child["right"][rr]
    BY <2>1 DEF c
  <2>6. r \in TreeType /\ SameContents(r, t) /\ r.root = IF p = NULL THEN y ELSE t.root
    BY <2>2, <2>4 DEF Attached, Replaced, SameContents, p
  <2>7. ASSUME NEW s \in Side, NEW w \in Key, w # z
        PROVE  r.child[s][w] =
            IF w = y THEN (IF s = "left" THEN l ELSE IF y = rr THEN c ELSE rr)
            ELSE IF w = p /\ s = SideOf(t, z) THEN y
            ELSE IF w = m /\ s = SideOf(t, y) THEN c
            ELSE t.child[s][w]
    <3>1. r.child[s][w] = IF w = y /\ s = "left" THEN l ELSE g.child[s][w]
      BY <2>4 DEF Attached
    <3>2. g.child[s][w] = IF w = p /\ s = SideOf(t, z) THEN y ELSE t.child[s][w]
      BY <2>2 DEF Replaced, p
    <3>3. s = "left" \/ s = "right"
      BY Sides
    <3>4. y # p /\ w # m
      BY <1>1, <1>3, <2>7 DEF Kin
    <3> QED
      BY <2>1, <2>5, <3>1, <3>2, <3>3, <3>4
  <2>8. ASSUME NEW w \in Key, w # z
        PROVE  r.parent[w] =
            IF w = l \/ (w = rr /\ w # y) THEN y
            ELSE IF w = y THEN p
            ELSE IF w = c /\ y # rr THEN m
            ELSE t.parent[w]
    <3>1. r.parent[w] = IF w = l THEN y ELSE g.parent[w]
      BY <2>4 DEF Attached
    <3>2. g.parent[w] = IF w = y THEN p ELSE t.parent[w]
      BY <2>2 DEF Replaced, p
    <3> QED
      BY <2>1, <3>1, <3>2
  <2> QED
    BY <2>6, <2>7, <2>8 DEF Succeeded
<1>4. ASSUME m # z PROVE Succeeded(r, t, z, l, rr, y, m, c, p)
  <2> DEFINE e == replace(t, y, c)
             f == Attach(e, "right", y, rr)
  <2>1. fr = f /\ y # rr /\ m # NULL
    BY <1>1, <1>4, NullNoKey DEF Kin
  <2>2. Replaced(e, t, y, c)
    BY <1>1, ReplaceLinks DEF Kin
  <2>3. e \in TreeType
    BY <2>2 DEF Replaced
  <2> HIDE DEF e
  <2>4. Attached(f, e, "right", y, rr)
    BY <1>1, <2>3, AttachLinks, Sides DEF Kin
  <2>5. f \in TreeType
    BY <2>4 DEF Attached
  <2> HIDE DEF f
  <2>6. \A s \in Side, w \in Key : f.child[s][w] =
           IF w = y /\ s = "right" THEN rr
           ELSE IF w = m /\ s = SideOf(t, y) THEN c ELSE t.child[s][w]
    BY <2>2, <2>4 DEF Attached, Replaced, m
  <2>7. \A w \in Key : f.parent[w] = IF w = rr THEN y ELSE IF w = c THEN m ELSE t.parent[w]
    BY <2>2, <2>4 DEF Attached, Replaced, m
  <2>8. f.root = t.root /\ SameContents(f, t)
    BY <2>1, <2>2, <2>4 DEF Attached, Replaced, SameContents, m
  <2>9. f.parent[z] = p
    BY <1>1, <2>7 DEF Kin, p
  <2>10. p # NULL => SideOf(f, z) = SideOf(t, z)
    <3> SUFFICES ASSUME p # NULL PROVE f.child["left"][p] = t.child["left"][p]
      BY <2>9 DEF SideOf, p
    <3> QED
      BY <1>1, <2>6, Sides DEF Kin
  <2>11. f.child["left"][z] = l
    BY <1>1, <1>4, <2>6, Sides DEF Kin, l
  <2>12. Replaced(g, f, z, y)
    BY <1>1, <2>1, <2>5, ReplaceLinks DEF Kin
  <2>13. g \in TreeType
    BY <2>12 DEF Replaced
  <2> HIDE DEF g
  <2>14. Attached(r, g, "left", y, l)
    BY <1>1, <2>1, <2>11, <2>13, AttachLinks, Sides DEF Kin
  <2> HIDE DEF r, fr
  <2>15. r \in TreeType /\ SameContents(r, t) /\ r.root = IF p = NULL THEN y ELSE t.root
    BY <2>8, <2>9, <2>12, <2>14 DEF Attached, Replaced, SameContents
  <2>16. ASSUME NEW s \in Side, NEW w \in Key, w # z
        PROVE  r.child[s][w] =
            IF w = y THEN (IF s = "left" THEN l ELSE IF y = rr THEN c ELSE rr)
            ELSE IF w = p /\ s = SideOf(t, z) THEN y
            ELSE IF w = m /\ s = SideOf(t, y) THEN c
            ELSE t.child[s][w]
    <3>1. r.child[s][w] = IF w = y /\ s = "left" THEN l ELSE g.child[s][w]
      BY <2>14 DEF Attached
    <3>2. g.child[s][w] = IF w = p /\ s = SideOf(t, z) THEN y ELSE f.child[s][w]
      BY <2>9, <2>10, <2>12, NullNoKey DEF Replaced
    <3>3. s = "left" \/ s = "right"
      BY Sides
    <3>4. y # p
      BY <1>1 DEF Kin
    <3> QED
      BY <2>1, <2>6, <3>1, <3>2, <3>3, <3>4
  <2>17. ASSUME NEW w \in Key, w # z
        PROVE  r.parent[w] =
            IF w = l \/ (w = rr /\ w # y) THEN y
            ELSE IF w = y THEN p
            ELSE IF w = c /\ y # rr THEN m
            ELSE t.parent[w]
    <3>1. r.parent[w] = IF w = l THEN y ELSE g.parent[w]
      BY <2>14 DEF Attached
    <3>2. g.parent[w] = IF w = y THEN p ELSE f.parent[w]
      BY <2>9, <2>12 DEF Replaced
    <3> QED
      BY <2>1, <2>7, <3>1, <3>2
  <2> QED
    BY <2>15, <2>16, <2>17 DEF Succeeded
<1> HIDE DEF r
<1>5. Succeeded(r, t, z, l, rr, y, m, c, p)
  BY <1>3, <1>4
<1> QED
  BY <1>2, <1>5 DEF l, rr, m, c, p

\* Removing a node with two children is taking the first key on its right out of the
\* tree, which is easy, and putting it at the place of the node.
LEMMA SucceedSubstitutes ==
    ASSUME NEW t, NEW S, Linked(t, S), NEW z \in S[t.root],
           t.child["left"][z] # NULL, t.child["right"][z] # NULL,
           NEW y, y = subtree_minimum(t, t.child["right"][z]),
           Kin(t, S, z, t.child["left"][z], t.child["right"][z], y, t.parent[y],
               t.child["right"][y], t.parent[z])
    PROVE  SameLinks(Forgotten(Succeed(t, z), z),
                     Substituted(Unlinked(t, y, t.child["right"][y]), z, y))
<1> DEFINE l == t.child["left"][z]
           rr == t.child["right"][z]
           m == t.parent[y]
           c == t.child["right"][y]
           p == t.parent[z]
           v == Succeed(t, z)
           r == Forgotten(v, z)
           u == Unlinked(t, y, c)
           x == Substituted(u, z, y)
<1>1. Succeeded(v, t, z, l, rr, y, m, c, p)
  BY SucceedLinks
<1>2. v \in TreeType /\ z \in Key
  BY <1>1 DEF Succeeded, Kin
<1> HIDE DEF v
<1>3. Freed(r, v, z)
  BY <1>2, ForgottenLinks
<1>4. /\ u.root = (IF m = NULL THEN c ELSE t.root)
      /\ \A s \in Side, w \in Key : u.child[s][w] =
            IF w = y THEN NULL ELSE IF t.child[s][w] = y THEN c ELSE t.child[s][w]
      /\ \A w \in Key : u.parent[w] =
            IF w = y THEN NULL ELSE IF w = c THEN m ELSE t.parent[w]
  BY DEF Unlinked
<1> HIDE DEF u
<1>5. /\ x.root = Renamed(z, y, u.root)
      /\ \A s \in Side, w \in Key : x.child[s][w] =
            IF w = z THEN NULL ELSE Renamed(z, y, u.child[s][Renamed(y, z, w)])
      /\ \A w \in Key : x.parent[w] =
            IF w = z THEN NULL ELSE Renamed(z, y, u.parent[Renamed(y, z, w)])
  BY DEF Substituted
<1> HIDE DEF x, r
<1>6. /\ \A s \in Side, w \in Key : t.child[s][w] = z <=> w = p /\ s = SideOf(t, z)
      /\ \A s \in Side, w \in Key : t.child[s][w] = y <=> w = m /\ s = SideOf(t, y)
  <2>1. \A q \in S[t.root], s \in Side, w \in Key :
          t.child[s][w] = q <=> w = t.parent[q] /\ s = SideOf(t, q)
    BY LinksTo
  <2>2. y \in S[t.root]
    BY DEF Kin
  <2> QED
    BY <2>1, <2>2
<1>7. Kin(t, S, z, l, rr, y, m, c, p) /\ (z = t.root <=> p = NULL)
  BY ParentLinks
<1>8. l = t.child["left"][z] /\ rr = t.child["right"][z] /\ p = t.parent[z] /\ c = t.child["right"][y]
  OBVIOUS
<1> HIDE DEF l, rr, m, c, p
<1>9. m # NULL /\ y # NULL /\ z # NULL
  BY <1>7, NullNoKey DEF Kin
<1>10. r \in TreeType /\ r.root = x.root
  BY <1>1, <1>3, <1>4, <1>5, <1>7, <1>9 DEF Freed, Succeeded, Renamed
<1>11. ASSUME NEW s \in Side, NEW w \in Key PROVE r.child[s][w] = x.child[s][w]
  <2>1. CASE w = z
    BY <2>1, <1>3, <1>5 DEF Freed
  <2>2. CASE w = y
    <3>1. x.child[s][w] = Renamed(z, y, u.child[s][z]) /\ w # z
      BY <2>2, <1>5, <1>7 DEF Renamed, Kin
    <3>2. u.child[s][z] = IF t.child[s][z] = y THEN c ELSE t.child[s][z]
      BY <1>2, <1>4, <1>7 DEF Kin
    <3>3. r.child[s][w] = IF s = "left" THEN l ELSE IF y = rr THEN c ELSE rr
      <4>1. y \in Key /\ y # z
        BY <2>2, <3>1
      <4>2. v.child[s][y] = IF s = "left" THEN l ELSE IF y = rr THEN c ELSE rr
        BY <4>1, <1>1 DEF Succeeded
      <4>3. r.child[s][y] = v.child[s][y]
        BY <4>1, <1>3 DEF Freed
      <4> QED
        BY <2>2, <4>2, <4>3
    <3>4. s = "left" \/ s = "right"
      BY Sides
    <3>5. l # y /\ l # z /\ rr # z /\ c # z
      BY <1>7 DEF Kin
    <3> QED
      BY <3>1, <3>2, <3>3, <3>4, <3>5, <1>8 DEF Renamed
  <2>3. CASE w # z /\ w # y
    <3>1. x.child[s][w] = Renamed(z, y, u.child[s][w])
      BY <2>3, <1>5 DEF Renamed
    <3>2. u.child[s][w] = IF t.child[s][w] = y THEN c ELSE t.child[s][w]
      BY <2>3, <1>4
    <3>3. r.child[s][w] = IF w = p /\ s = SideOf(t, z) THEN y
                          ELSE IF w = m /\ s = SideOf(t, y) THEN c
                          ELSE t.child[s][w]
      BY <2>3, <1>1, <1>3 DEF Freed, Succeeded
    <3>4. c # z /\ y # z
      BY <1>7 DEF Kin
    <3> QED
      BY <3>1, <3>2, <3>3, <3>4, <1>6 DEF Renamed
  <2> QED
    BY <2>1, <2>2, <2>3
<1>12. ASSUME NEW w \in Key PROVE r.parent[w] = x.parent[w]
  <2>1. CASE w = z
    BY <2>1, <1>3, <1>5 DEF Freed
  <2>2. CASE w = y
    <3>1. x.parent[w] = Renamed(z, y, u.parent[z]) /\ w # z
      BY <2>2, <1>5, <1>7 DEF Renamed, Kin
    <3>2. u.parent[z] = p
      BY <1>2, <1>4, <1>7, <1>8 DEF Kin
    <3>3. r.parent[w] = p
      <4>1. y # l /\ y # z /\ y \in Key
        BY <1>7 DEF Kin
      <4>2. v.parent[y] = p
        BY <4>1, <1>1 DEF Succeeded
      <4>3. r.parent[y] = v.parent[y]
        BY <4>1, <1>3 DEF Freed
      <4> QED
        BY <2>2, <4>2, <4>3
    <3>4. p # z
      BY <1>7 DEF Kin
    <3> QED
      BY <3>1, <3>2, <3>3, <3>4 DEF Renamed
  <2>3. CASE w # z /\ w # y
    <3>1. x.parent[w] = Renamed(z, y, u.parent[w])
      BY <2>3, <1>5 DEF Renamed
    <3>2. u.parent[w] = IF w = c THEN m ELSE t.parent[w]
      BY <2>3, <1>4
    <3>3. r.parent[w] = IF w = l \/ w = rr THEN y
                        ELSE IF w = c /\ y # rr THEN m
                        ELSE t.parent[w]
      BY <2>3, <1>1, <1>3 DEF Freed, Succeeded
    <3>4. (t.parent[w] = z <=> w = l \/ w = rr) /\ c # l /\ c # rr /\ (m = z <=> y = rr)
      BY <1>7 DEF Kin
    <3>5. w = c => t.parent[w] = y
      <4> SUFFICES ASSUME w = c PROVE t.parent[w] = y
        OBVIOUS
      <4>1. c # NULL /\ y \in S[t.root]
        BY <1>7, NullNoKey DEF Kin
      <4>2. ChildOf(t, S, "right", y, c)
        BY <4>1, Sides, ChildLinks DEF c
      <4> QED
        BY <4>2 DEF ChildOf
    <3> QED
      BY <3>1, <3>2, <3>3, <3>4, <3>5 DEF Renamed
  <2> QED
    BY <2>1, <2>2, <2>3
<1>13. SameLinks(r, x)
  BY <1>10, <1>11, <1>12 DEF SameLinks
<1> QED
  BY <1>13 DEF r, x, u, v, c

\* z is out of the tree; its record is not touched yet.
Removed(r, t, S, z) == \E Q : Linked(r, Q) /\ Q[r.root] = S[t.root] \ {z}

\* The tree without a node that lacks a child.
LEMMA SpliceRemoves ==
    ASSUME NEW t, NEW S, Linked(t, S), NEW z \in S[t.root], NEW side \in Side,
           t.child[side][z] = NULL
    PROVE  Removed(Forgotten(replace(t, z, t.child[Opposite(side)][z]), z), t, S, z)
<1> DEFINE c == t.child[Opposite(side)][z]
           r == Forgotten(replace(t, z, c), z)
           u == Unlinked(t, z, c)
           Q == Without(S, z)
<1>1. SameLinks(r, u)
  BY SpliceUnlinks
<1>5. c = t.child[Opposite(side)][z] /\ u = Unlinked(t, z, c)
      /\ Q = Without(S, z)
  OBVIOUS
<1> HIDE DEF c, r, u, Q
<1>2. Linked(u, Q) /\ Q[u.root] = S[t.root] \ {z}
  BY <1>5, UnlinkedLinked
<1>3. Linked(r, Q)
  BY <1>1, <1>2, SameLinksLinked
<1>4. Q[r.root] = S[t.root] \ {z}
  BY <1>1, <1>2 DEF SameLinks
<1> QED
  BY <1>3, <1>4 DEF Removed, r, c

\* The tree without a node that has two children.
LEMMA SucceedRemoves ==
    ASSUME NEW t, NEW S, Linked(t, S), NEW z \in S[t.root],
           t.child["left"][z] # NULL, t.child["right"][z] # NULL
    PROVE  Removed(Forgotten(Succeed(t, z), z), t, S, z)
<1> DEFINE rr == t.child["right"][z]
           y == subtree_minimum(t, rr)
           c == t.child["right"][y]
           u == Unlinked(t, y, c)
           x == Substituted(u, z, y)
           r == Forgotten(Succeed(t, z), z)
           Q == Without(S, y)
           P == WithAt(Q, z, y)
<1>1. rr \in S[t.root]
  BY Sides, ChildLinks DEF ChildOf
<1>2. FirstBelow(t, S, rr, y)
  BY <1>1, MinimumFound
<1>3. y = subtree_minimum(t, t.child["right"][z])
  OBVIOUS
<1> HIDE DEF y
<1>4. Kin(t, S, z, t.child["left"][z], t.child["right"][z], y, t.parent[y],
               t.child["right"][y], t.parent[z])
  BY <1>2, SuccessorKin
<1>5. SameLinks(r, x)
  BY <1>3, <1>4, SucceedSubstitutes
<1>6. y \in S[t.root] /\ y # z /\ y \in Key /\ t.child["left"][y] = NULL
  BY <1>4 DEF Kin
<1>7. c = t.child[Opposite("left")][y] /\ "left" \in Side
  BY Sides
<1>14. u = Unlinked(t, y, c) /\ Q = Without(S, y)
  OBVIOUS
<1>15. x = Substituted(u, z, y) /\ P = WithAt(Q, z, y)
  OBVIOUS
<1> HIDE DEF c, u, Q, x, P
<1>8. Linked(u, Q) /\ Q[u.root] = S[t.root] \ {y}
  BY <1>6, <1>7, <1>14, UnlinkedLinked
<1>9. Neighbours(S[t.root] \ {y}, z, y)
  BY <1>2, SuccessorNeighbours
<1>10. z \in Q[u.root] /\ y \notin Q[u.root] /\ Neighbours(Q[u.root], z, y)
  BY <1>6, <1>8, <1>9
<1>16. Moved(Substituted(u, z, y), WithAt(Q, z, y), Q[u.root], z, y)
  BY <1>6, <1>8, <1>10, SubstitutedLinked
<1>11. Linked(x, P) /\ P[x.root] = (Q[u.root] \ {z}) \cup {y}
  BY <1>15, <1>16 DEF Moved
<1> HIDE DEF r
<1>12. Linked(r, P)
  BY <1>5, <1>11, SameLinksLinked
<1>13. P[r.root] = S[t.root] \ {z}
  BY <1>5, <1>6, <1>8, <1>11 DEF SameLinks
<1> QED
  BY <1>12, <1>13 DEF Removed, r

\* The tree in which nothing but z itself points to z any more.
TakenOut(t, z) ==
    LET left == t.child["left"][z]
        right == t.child["right"][z]
    IN  IF left = NULL THEN replace(t, z, right)
        ELSE IF right = NULL THEN replace(t, z, left)
        ELSE Succeed(t, z)

\* In all four cases the tree is left without z, and with the contents it had.
LEMMA TakenOutRemoves ==
    ASSUME NEW t, NEW S, Linked(t, S), NEW z \in S[t.root]
    PROVE  /\ TakenOut(t, z) \in TreeType
           /\ SameContents(TakenOut(t, z), t)
           /\ Removed(Forgotten(TakenOut(t, z), z), t, S, z)
<1> DEFINE left == t.child["left"][z]
           right == t.child["right"][z]
           Right(w) == w \in TreeType /\ SameContents(w, t) /\ Removed(Forgotten(w, z), t, S, z)
<1>1. t \in TreeType /\ z \in Key /\ left \in Key \cup {NULL} /\ right \in Key \cup {NULL}
      /\ t.child[Opposite("left")][z] = right /\ t.child[Opposite("right")][z] = left
  BY Nested, Sides DEF Linked, TreeType
<1>2. ASSUME NEW c \in Key \cup {NULL}
      PROVE  replace(t, z, c) \in TreeType /\ SameContents(replace(t, z, c), t)
  BY <1>1, ReplaceLinks DEF Replaced
<1>3. ASSUME left = NULL PROVE Right(replace(t, z, right))
  BY <1>1, <1>2, <1>3, Sides, SpliceRemoves
<1>4. ASSUME right = NULL PROVE Right(replace(t, z, left))
  BY <1>1, <1>2, <1>4, Sides, SpliceRemoves
<1>5. ASSUME left # NULL, right # NULL PROVE Right(Succeed(t, z))
  <2> DEFINE y == subtree_minimum(t, right)
  <2>1. right \in S[t.root]
    BY <1>5, Sides, ChildLinks DEF ChildOf
  <2>2. FirstBelow(t, S, right, y)
    BY <2>1, MinimumFound
  <2>3. y = subtree_minimum(t, t.child["right"][z])
    OBVIOUS
  <2> HIDE DEF y
  <2>4. Kin(t, S, z, left, right, y, t.parent[y], t.child["right"][y], t.parent[z])
    BY <1>5, <2>2, SuccessorKin
  <2>5. Succeeded(Succeed(t, z), t, z, left, right, y, t.parent[y], t.child["right"][y], t.parent[z])
    BY <1>5, <2>3, <2>4, SucceedLinks
  <2>6. Removed(Forgotten(Succeed(t, z), z), t, S, z)
    BY <1>5, SucceedRemoves
  <2> QED
    BY <2>5, <2>6 DEF Succeeded
<1>6. Right(TakenOut(t, z))
  <2> HIDE DEF Right
  <2> QED
    BY <1>3, <1>4, <1>5 DEF TakenOut
<1> QED
  BY <1>6

\* After a removal the tree holds what it held but the key.
LEMMA RemoveHolds ==
    ASSUME NEW t, NEW N, Holds(t, N, t.record), NEW z \in Key
    PROVE  Holds(tree_remove(t, z), N \ {z}, [t.record EXCEPT ![z] = NULL])
<1> DEFINE record == [t.record EXCEPT ![z] = NULL]
<1>1. PICK S : Linked(t, S) /\ S[t.root] = N
  BY DEF Holds
<1>2. t \in TreeType /\ t.record \in [Key -> State \cup {NULL}]
  BY <1>1 DEF Linked, TreeType
<1>3. record \in [Key -> State \cup {NULL}] /\ record[z] = NULL
      /\ \A x \in Key : x # z => record[x] = t.record[x]
  BY <1>2
<1>4. \A x \in Key : record[x] # NULL <=> x \in N \ {z}
  BY <1>3 DEF Holds
<1>5. Has(t, z) <=> z \in N
  BY <1>1, HasKey
<1> HIDE DEF record
<1>6. ASSUME z \notin N PROVE Holds(tree_remove(t, z), N \ {z}, record)
  <2>1. tree_remove(t, z) = t /\ N \ {z} = N
    BY <1>5, <1>6 DEF tree_remove
  <2>2. \A x \in Key : record[x] = t.record[x]
    BY <1>3, <1>6 DEF Holds
  <2>3. record = t.record
    BY <1>2, <1>3, <2>2
  <2> QED
    BY <2>1, <2>3
<1>7. ASSUME z \in N PROVE Holds(tree_remove(t, z), N \ {z}, record)
  <2> DEFINE up == splay(t, z)
             w == TakenOut(up, z)
             r == Forgotten(w, z)
  <2>1. tree_remove(t, z) = r
    BY <1>5, <1>7 DEF tree_remove, TakenOut
  <2>2. Rearranged(up, t, S)
    BY <1>1, <1>7, SplayRearranges
  <2> HIDE DEF up
  <2>3. PICK Q : Linked(up, Q) /\ Q[up.root] = N
    BY <1>1, <2>2 DEF Rearranged
  <2>4. SameContents(up, t)
    BY <2>2 DEF Rearranged
  <2>5. w \in TreeType /\ SameContents(w, up) /\ Removed(r, up, Q, z)
    BY <1>7, <2>3, TakenOutRemoves
  <2> HIDE DEF w
  <2>6. Freed(r, w, z)
    BY <2>5, ForgottenLinks
  <2> HIDE DEF r
  <2>7. r.record = record /\ r.node_count = t.node_count - 1
    BY <2>4, <2>5, <2>6 DEF Freed, SameContents, record
  <2>8. Cardinality(N \ {z}) = t.node_count - 1
    <3>1. IsFiniteSet(N)
      BY <1>1, FiniteKeys
    <3>2. Cardinality(N \ {z}) = Cardinality(N) - 1
      BY <3>1, <1>7, FS_RemoveElement
    <3> QED
      BY <3>2 DEF Holds
  <2>9. \E P : Linked(r, P) /\ P[r.root] = N \ {z}
    BY <2>3, <2>5 DEF Removed
  <2>10. Holds(r, N \ {z}, record)
    BY <1>4, <2>7, <2>8, <2>9 DEF Holds
  <2> QED
    BY <2>1, <2>10
<1> QED
  BY <1>6, <1>7 DEF record

-----------------------------------------------------------------------------
(* The keys from the left to the right.                                    *)

\* InOrder, as a function of the node at the top.
Below(t, b) ==
    /\ b \in [Key \cup {NULL} -> Seq(Key)]
    /\ b[NULL] = <<>>
    /\ \A x \in Key : b[x] = b[t.child["left"][x]] \o <<x>> \o b[t.child["right"][x]]

\* The walk over the tree ends.
LEMMA BelowDefinition ==
    ASSUME NEW t, NEW S, Linked(t, S)
    PROVE  \E b : Below(t, b) /\ InOrder(t) = b[t.root]
<1> DEFINE left(x) == t.child["left"][x]
           right(x) == t.child["right"][x]
           l == [x \in Key |-> left(x)]
           r == [x \in Key |-> right(x)]
           height == [x \in Key |-> Cardinality(S[x])]
           B == Cardinality(Key)
           V == Seq(Key)
           G == [x \in Key |-> [u \in V |-> [v \in V |-> u \o <<x>> \o v]]]
           Eq(p) == p = [x \in Key \cup {NULL} |->
                           IF x = NULL THEN <<>> ELSE p[left(x)] \o <<x>> \o p[right(x)]]
<1>1. \A x \in Key : left(x) \in Key \cup {NULL} /\ right(x) \in Key \cup {NULL}
  BY Sides DEF Linked, TreeType
<1>2. /\ \A x \in Key : l[x] # NULL => height[l[x]] < height[x]
      /\ \A x \in Key : r[x] # NULL => height[r[x]] < height[x]
  BY <1>1, Heights, Sides
<1>3. l \in [Key -> Key \cup {NULL}] /\ r \in [Key -> Key \cup {NULL}]
      /\ height \in [Key -> 0 .. B] /\ B \in Nat
  BY <1>1, Heights
<1>4. G \in [Key -> [V -> [V -> V]]] /\ <<>> \in V
  OBVIOUS
<1>5. PICK h \in [Key \cup {NULL} -> V] : Solves(h, Key, NULL, l, r, <<>>, G)
  <2> HIDE DEF l, r, height, V, G, B, left, right
  <2> QED
    BY <1>2, <1>3, <1>4, NullNoKey, RecursiveDefinition
<1>6. h[NULL] = <<>> /\ \A x \in Key : h[x] = h[left(x)] \o <<x>> \o h[right(x)]
  BY <1>1, <1>5 DEF Solves
<1>7. Eq(h)
  <2> HIDE DEF left, right, V
  <2> QED
    BY <1>5, <1>6, NullNoKey
<1> DEFINE p == CHOOSE q : Eq(q)
<1>8. Eq(p)
  BY <1>7
<1>9. InOrder(t) = p[t.root]
  BY DEF InOrder
<1>10. DOMAIN p = Key \cup {NULL} /\ p[NULL] = <<>>
       /\ \A x \in Key : p[x] = p[left(x)] \o <<x>> \o p[right(x)]
  <2> HIDE DEF p, left, right
  <2> QED
    BY <1>8, NullNoKey
<1> HIDE DEF p
<1>11. \A x \in Key : p[x] = h[x]
  <2>1. \A x \in Key : p[l[x]] = h[l[x]] /\ p[r[x]] = h[r[x]] => p[x] = h[x]
    BY <1>6, <1>10
  <2>2. p[NULL] = h[NULL]
    BY <1>6, <1>10
  <2> HIDE DEF l, r, height, V, G, B, left, right
  <2>3. Alike(p, h, Key, NULL, l, r)
    BY <2>1, <2>2 DEF Alike
  <2> QED
    BY <1>2, <1>3, <2>3, NullNoKey, OneSolution
<1>12. p \in [Key \cup {NULL} -> Seq(Key)]
  <2>1. \A x \in Key \cup {NULL} : p[x] \in V
    BY <1>5, <1>6, <1>10, <1>11
  <2>2. p = [x \in DOMAIN p |-> p[x]]
    <3> HIDE DEF left, right
    <3> QED
      BY <1>8, <1>10
  <2> QED
    BY <1>10, <2>1, <2>2
<1> QED
  BY <1>9, <1>10, <1>12 DEF Below

\* q lists the keys A, each of them once and the smaller ones first.
Lists(q, A) ==
    /\ q \in Seq(Key)
    /\ Range(q) = A
    /\ Len(q) = Cardinality(A)
    /\ \A n \in 1 .. Len(q) - 1 : q[n] < q[n + 1]

\* The lists of what is on the left of x and on its right, with x between them.
LEMMA Joined ==
    ASSUME NEW A \in SUBSET Key, NEW B \in SUBSET Key, NEW x \in Key, NEW p, NEW q,
           Lists(p, A), Lists(q, B), \A a \in A : a < x, \A b \in B : x < b
    PROVE  Lists(p \o <<x>> \o q, {x} \cup A \cup B)
<1> DEFINE c == p \o <<x>> \o q
<1>1. p \in Seq(Key) /\ q \in Seq(Key) /\ Len(p) \in Nat /\ Len(q) \in Nat
  BY DEF Lists
<1>2. c \in Seq(Key) /\ Len(c) = Len(p) + 1 + Len(q)
  BY <1>1
<1>3. \A i \in 1 .. Len(p) : c[i] = p[i]
  BY <1>1
<1>4. c[Len(p) + 1] = x
  BY <1>1
<1>5. \A i \in 1 .. Len(q) : c[Len(p) + 1 + i] = q[i]
  BY <1>1
<1>6. A = {p[i] : i \in 1 .. Len(p)} /\ B = {q[i] : i \in 1 .. Len(q)}
  <2>1. Range(p) = A /\ Range(q) = B
    BY DEF Lists
  <2>2. DOMAIN p = 1 .. Len(p) /\ DOMAIN q = 1 .. Len(q)
    BY <1>1
  <2> QED
    BY <2>1, <2>2 DEF Range
<1> HIDE DEF c
<1>7. Range(c) = {c[i] : i \in 1 .. Len(c)}
  BY <1>2 DEF Range
<1>8. ASSUME NEW i \in 1 .. Len(c)
      PROVE  \/ i \in 1 .. Len(p) /\ c[i] = p[i]
             \/ i = Len(p) + 1 /\ c[i] = x
             \/ i - Len(p) - 1 \in 1 .. Len(q) /\ c[i] = q[i - Len(p) - 1]
  <2>1. CASE i <= Len(p)
    BY <1>1, <1>3, <2>1
  <2>2. CASE i = Len(p) + 1
    BY <1>4, <2>2
  <2>3. CASE i > Len(p) + 1
    <3> DEFINE j == i - Len(p) - 1
    <3>1. j \in 1 .. Len(q) /\ i = Len(p) + 1 + j
      BY <1>1, <1>2, <2>3
    <3> HIDE DEF j
    <3>2. c[i] = q[j]
      BY <1>5, <3>1
    <3> QED
      BY <3>1, <3>2 DEF j
  <2> QED
    BY <1>1, <2>1, <2>2, <2>3
<1>9. \A i \in 1 .. Len(c) : c[i] \in {x} \cup A \cup B
  BY <1>6, <1>8
<1>10. ASSUME NEW a \in {x} \cup A \cup B PROVE \E i \in 1 .. Len(c) : c[i] = a
  <2>1. CASE a \in A
    <3>1. PICK i \in 1 .. Len(p) : a = p[i]
      BY <1>6, <2>1
    <3>2. i \in 1 .. Len(c)
      BY <1>1, <1>2
    <3> QED
      BY <3>1, <3>2, <1>3
  <2>2. CASE a = x
    <3>1. Len(p) + 1 \in 1 .. Len(c)
      BY <1>1, <1>2
    <3> QED
      BY <3>1, <2>2, <1>4
  <2>3. CASE a \in B
    <3>1. PICK i \in 1 .. Len(q) : a = q[i]
      BY <1>6, <2>3
    <3>2. Len(p) + 1 + i \in 1 .. Len(c)
      BY <1>1, <1>2
    <3> QED
      BY <3>1, <3>2, <1>5
  <2> QED
    BY <2>1, <2>2, <2>3
<1>11. Range(c) = {x} \cup A \cup B
  BY <1>7, <1>9, <1>10
<1>12. Len(c) = Cardinality({x} \cup A \cup B)
  <2>1. IsFiniteSet(A) /\ IsFiniteSet(B) /\ Cardinality(A) \in Nat /\ Cardinality(B) \in Nat
    BY KeyAssumption, FS_Subset, FS_CardinalityType
  <2>2. Key \subseteq Int
    BY KeyAssumption
  <2>3. A \cap B = {} /\ x \notin A \cup B
    <3>1. ASSUME NEW k \in A, k \in B PROVE FALSE
      <4>1. k < x /\ x < k /\ k \in Int /\ x \in Int
        BY <3>1, <2>2
      <4> QED
        BY <4>1
    <3>2. x \in Int /\ ~(x < x)
      BY <2>2
    <3> QED
      BY <3>1, <3>2
  <2>4. IsFiniteSet(A \cup B) /\ Cardinality(A \cup B) = Cardinality(A) + Cardinality(B)
    <3>1. Cardinality(A \cap B) = 0
      BY <2>3, FS_EmptySet
    <3>2. IsFiniteSet(A \cup B)
          /\ Cardinality(A \cup B) = Cardinality(A) + Cardinality(B) - Cardinality(A \cap B)
      BY <2>1, FS_Union
    <3> QED
      BY <2>1, <3>1, <3>2
  <2>5. Cardinality((A \cup B) \cup {x}) = Cardinality(A \cup B) + 1
    BY <2>3, <2>4, FS_AddElement
  <2>6. (A \cup B) \cup {x} = {x} \cup A \cup B
    OBVIOUS
  <2>7. Len(p) = Cardinality(A) /\ Len(q) = Cardinality(B)
    BY DEF Lists
  <2>8. Cardinality({x} \cup A \cup B) = Cardinality(A) + Cardinality(B) + 1
    BY <2>4, <2>5, <2>6
  <2> QED
    BY <1>2, <2>1, <2>7, <2>8
<1>13. ASSUME NEW n \in 1 .. Len(c) - 1 PROVE c[n] < c[n + 1]
  <2>1. CASE n < Len(p)
    <3>1. n \in 1 .. Len(p) - 1 /\ n \in 1 .. Len(p) /\ n + 1 \in 1 .. Len(p)
      BY <1>1, <1>2, <2>1
    <3> QED
      BY <3>1, <1>3 DEF Lists
  <2>2. CASE n = Len(p)
    <3>1. n \in 1 .. Len(p)
      BY <1>1, <2>2
    <3>2. c[n] \in A
      BY <3>1, <1>3, <1>6
    <3> QED
      BY <3>2, <2>2, <1>4
  <2>3. CASE n = Len(p) + 1
    <3>1. 1 \in 1 .. Len(q) /\ n + 1 = Len(p) + 1 + 1
      BY <1>1, <1>2, <2>3
    <3>2. c[n + 1] \in B
      BY <3>1, <1>5, <1>6
    <3> QED
      BY <3>2, <2>3, <1>4
  <2>4. CASE n > Len(p) + 1
    <3> DEFINE j == n - Len(p) - 1
    <3>1. j \in 1 .. Len(q) - 1 /\ j \in 1 .. Len(q) /\ j + 1 \in 1 .. Len(q)
          /\ n = Len(p) + 1 + j /\ n + 1 = Len(p) + 1 + (j + 1)
      BY <1>1, <1>2, <2>4
    <3> HIDE DEF j
    <3> QED
      BY <3>1, <1>5 DEF Lists
  <2> QED
    BY <1>1, <2>1, <2>2, <2>3, <2>4
<1>14. Lists(c, {x} \cup A \cup B)
  BY <1>2, <1>11, <1>12, <1>13 DEF Lists
<1> QED
  BY <1>14 DEF c

\* InOrder lists the keys of the tree.
LEMMA InOrderLists ==
    ASSUME NEW t, NEW S, Linked(t, S)
    PROVE  Lists(InOrder(t), S[t.root])
<1>1. PICK b : Below(t, b) /\ InOrder(t) = b[t.root]
  BY BelowDefinition
<1> DEFINE Good == {x \in S[t.root] : Lists(b[x], S[x])}
<1>2. Lists(<<>>, {})
  BY FS_EmptySet DEF Lists, Range
<1>3. S[NULL] = {} /\ b[NULL] = <<>>
  BY <1>1 DEF Linked, Below
<1>4. ASSUME NEW x \in S[t.root], \A side \in Side : t.child[side][x] \in Good \cup {NULL}
      PROVE  Lists(b[x], S[x])
  <2> DEFINE l == t.child["left"][x]
             r == t.child["right"][x]
  <2>1. x \in Key
    BY Nested
  <2>2. Lists(b[l], S[l]) /\ Lists(b[r], S[r])
    BY <1>2, <1>3, <1>4, Sides
  <2>3. S[x] = {x} \cup S[l] \cup S[r] /\ (\A u \in S[l] : u < x) /\ (\A u \in S[r] : x < u)
    BY Sides DEF Linked, NodeRight, Down, OnSide
  <2>4. S[x] \subseteq Key
    BY <2>1 DEF Linked, SubtreesType
  <2>5. b[x] = b[l] \o <<x>> \o b[r]
    BY <2>1, <1>1 DEF Below
  <2> HIDE DEF l, r
  <2>6. S[l] \in SUBSET Key /\ S[r] \in SUBSET Key
    BY <2>3, <2>4
  <2>7. Lists(b[l] \o <<x>> \o b[r], {x} \cup S[l] \cup S[r])
    BY <2>1, <2>2, <2>3, <2>6, Joined
  <2> QED
    BY <2>3, <2>5, <2>7
<1>5. S[t.root] \subseteq Good
  <2>1. \A x \in S[t.root] :
              (\A side \in Side : t.child[side][x] \in Good \cup {NULL}) => x \in Good
    BY <1>4
  <2> HIDE DEF Good
  <2> QED
    BY <2>1, FromLeavesUp
<1>6. CASE t.root = NULL
  BY <1>1, <1>2, <1>3, <1>6
<1>7. CASE t.root # NULL
  <2>1. t.root \in S[t.root]
    BY <1>7 DEF Linked
  <2> QED
    BY <2>1, <1>1, <1>5
<1> QED
  BY <1>6, <1>7

-----------------------------------------------------------------------------
(* What users of the tree see.                                             *)

\* A set of keys that is not empty has a greatest one.
LEMMA GreatestKey ==
    ASSUME NEW A \in SUBSET Key, A # {}
    PROVE  \E m \in A : \A y \in A : m >= y
<1> DEFINE T == {n \in Nat : \A B \in SUBSET Key :
                    Cardinality(B) = n /\ B # {} => \E m \in B : \A y \in B : m >= y}
<1>1. \A B \in SUBSET Key : IsFiniteSet(B) /\ Cardinality(B) \in Nat
  BY KeyAssumption, FS_Subset, FS_CardinalityType
<1>2. Key \subseteq Int
  BY KeyAssumption
<1>3. 0 \in T
  <2>1. \A B \in SUBSET Key : Cardinality(B) = 0 => B = {}
    BY <1>1, FS_EmptySet
  <2> QED
    BY <2>1
<1>4. ASSUME NEW n \in Nat, n \in T PROVE n + 1 \in T
  <2> SUFFICES ASSUME NEW B \in SUBSET Key, Cardinality(B) = n + 1, B # {}
               PROVE  \E m \in B : \A y \in B : m >= y
    OBVIOUS
  <2>1. PICK a \in B : TRUE
    OBVIOUS
  <2> DEFINE C == B \ {a}
  <2>2. C \in SUBSET Key /\ B = C \cup {a} /\ a \in Int /\ B \subseteq Int
    BY <1>2
  <2>3. Cardinality(C) = n
    BY <1>1, <2>1, FS_RemoveElement
  <2> HIDE DEF C
  <2>4. CASE C = {}
    BY <2>2, <2>4
  <2>5. CASE C # {}
    <3>1. PICK m \in C : \A y \in C : m >= y
      BY <1>4, <2>2, <2>3, <2>5
    <3>2. m \in Int /\ m \in B
      BY <2>2
    <3>3. CASE m >= a
      BY <2>2, <3>1, <3>2, <3>3
    <3>4. CASE a >= m
      <4>1. \A y \in C : a >= y
        BY <2>2, <3>1, <3>2, <3>4
      <4> QED
        BY <2>1, <2>2, <4>1
    <3> QED
      BY <2>2, <3>2, <3>3, <3>4
  <2> QED
    BY <2>4, <2>5
<1>5. Cardinality(A) \in T
  <2> HIDE DEF T
  <2>1. Nat \subseteq T
    BY <1>3, <1>4, ByCounting
  <2> QED
    BY <2>1, <1>1
<1> QED
  BY <1>5

\* Keys of which some come after all others have the same greatest one as all.
LEMMA SameGreatest ==
    ASSUME NEW P, NEW K \in SUBSET Key, P \subseteq K, K # {},
           \A u \in K : \E v \in P : u <= v
    PROVE  P # {} /\ Max(P) = Max(K)
<1>1. PICK m \in K : \A y \in K : m >= y
  BY GreatestKey
<1>2. K \subseteq Int
  BY KeyAssumption
<1>3. PICK v \in P : m <= v
  BY <1>1
<1>4. m \in P
  <2>1. v \in K /\ m >= v /\ v \in Int /\ m \in Int
    BY <1>1, <1>2, <1>3
  <2> QED
    BY <2>1, <1>3
<1>5. \A x \in K : (\A y \in K : x >= y) => x = m
  BY <1>1, <1>2
<1>6. \A x \in P : (\A y \in P : x >= y) => x = m
  BY <1>1, <1>2, <1>4
<1>7. Max(K) = m
  BY <1>1, <1>5 DEF Max
<1>8. Max(P) = m
  BY <1>1, <1>4, <1>6 DEF Max
<1> QED
  BY <1>4, <1>7, <1>8

\* Both searches end at the right node.
LEMMA RightLookups ==
    ASSUME NEW t, NEW S, Linked(t, S), NEW key \in Key
    PROVE  LET keys == Range(InOrder(t))
           IN  /\ Has(t, key) <=> key \in keys
               /\ Nearest(t, key) =
                    IF \E x \in keys : x <= key THEN Max({x \in keys : x <= key}) ELSE NULL
<1> DEFINE keys == Range(InOrder(t))
           path == Range(Path(t, key))
           P == {x \in path : x <= key}
           K == {x \in keys : x <= key}
<1>1. keys = S[t.root]
  BY InOrderLists DEF Lists
<1>2. Has(t, key) <=> key \in keys
  BY <1>1, HasKey
<1>3. path \subseteq keys /\ \A u \in keys : u <= key => \E v \in path : u <= v /\ v <= key
  <2>1. CASE t.root = NULL
    <3>0. Path(t, key) = <<>> /\ S[t.root] = {}
      BY <2>1, WholePath
    <3>1. path = {} /\ keys = {}
      BY <3>0, <1>1 DEF Range
    <3> QED
      BY <3>1
  <2>2. CASE t.root # NULL
    BY <2>2, <1>1, WholePath DEF SearchRight
  <2> QED
    BY <2>1, <2>2
<1>4. keys \subseteq Key
  BY <1>1, FiniteKeys
<1>5. Nearest(t, key) = IF P = {} THEN NULL ELSE Max(P)
  BY DEF Nearest
<1> HIDE DEF keys, path
<1>6. P \subseteq K /\ K \in SUBSET Key /\ \A u \in K : \E v \in P : u <= v
  BY <1>3, <1>4
<1>7. (\E x \in keys : x <= key) <=> K # {}
  OBVIOUS
<1> HIDE DEF P, K
<1>8. ASSUME K # {} PROVE P # {} /\ Max(P) = Max(K)
  BY <1>6, <1>8, SameGreatest
<1>9. K = {} => P = {}
  BY <1>6
<1>10. Nearest(t, key) = IF \E x \in keys : x <= key THEN Max(K) ELSE NULL
  BY <1>5, <1>7, <1>8, <1>9
<1> QED
  BY <1>2, <1>10 DEF keys, K

\* A tree with right links, records and count is well formed.
LEMMA HoldsWellFormed ==
    ASSUME NEW t, NEW N, Holds(t, N, t.record)
    PROVE  WellFormed(t)
<1> DEFINE keys == InOrder(t)
<1>1. PICK S : Linked(t, S) /\ S[t.root] = N
  BY DEF Holds
<1>2. Lists(keys, N)
  BY <1>1, InOrderLists
<1> HIDE DEF keys
<1>3. Range(keys) = N /\ t.node_count = Len(keys) /\ \A n \in 1 .. Len(keys) - 1 : keys[n] < keys[n + 1]
  BY <1>2 DEF Lists, Holds
<1>4. t.root # NULL => t.parent[t.root] = NULL
  BY <1>1 DEF Linked
<1>5. ASSUME NEW x \in Key, NEW side \in Side, t.child[side][x] # NULL
      PROVE  {x, t.child[side][x]} \subseteq N /\ t.parent[t.child[side][x]] = x
  <2>1. x \in N
    BY <1>1, <1>5 DEF Linked, NodeFree
  <2>2. Down(t, S, N, x)
    BY <1>1, <2>1 DEF Linked, NodeRight
  <2> QED
    BY <1>5, <2>1, <2>2 DEF Down
<1>6. ASSUME NEW x \in Key, t.parent[x] # NULL
      PROVE  \E side \in Side : t.child[side][t.parent[x]] = x
  <2>1. x \in N
    BY <1>1, <1>6 DEF Linked, NodeFree
  <2> QED
    BY <1>1, <1>6, <2>1, ParentLinks
<1>7. \A x \in Key : t.record[x] # NULL <=> x \in N
  BY DEF Holds
<1> QED
  BY <1>3, <1>4, <1>5, <1>6, <1>7 DEF WellFormed, keys

\* A key that is not in the tree has no record, so that tree_find reads the record.
LEMMA FindRecord ==
    ASSUME NEW t, NEW N, Holds(t, N, t.record), NEW key \in Key
    PROVE  tree_find(t, key) = t.record[key]
<1>1. PICK S : Linked(t, S) /\ S[t.root] = N
  BY DEF Holds
<1>2. Has(t, key) <=> key \in N
  BY <1>1, HasKey
<1> QED
  BY <1>2 DEF tree_find, Holds

-----------------------------------------------------------------------------
(* The table.                                                              *)

\* The inductive invariant: the links of the tree are right for the lines that have a
\* record.
TableInv == \E N : Holds(tree, N, tree.record)

\* It is there from the start, and setState, snoops and evictions keep it.
THEOREM TableInvHolds == TableSpec => []TableInv
<1>1. TableInit => TableInv
  <2> SUFFICES ASSUME TableInit PROVE Holds(tree_new, {}, tree_new.record)
    BY DEF TableInit, TableInv
  <2> DEFINE Q == [x \in Key \cup {NULL} |-> {}]
             t == tree_new
  <2>1. NoKeys \in [Key -> Key \cup {NULL}] /\ NoKeys \in [Key -> State \cup {NULL}]
        /\ \A x \in Key : NoKeys[x] = NULL
    BY DEF NoKeys
  <2>2. t.root = NULL /\ t.parent = NoKeys /\ t.record = NoKeys /\ t.node_count = 0
        /\ \A s \in Side : t.child[s] = NoKeys
    BY DEF tree_new
  <2>3. t \in TreeType
    <3> HIDE DEF NoKeys
    <3> QED
      BY <2>1 DEF tree_new, TreeType
  <2>4. Q \in SubtreesType /\ \A x \in Key \cup {NULL} : Q[x] = {}
    BY DEF SubtreesType
  <2> HIDE DEF t, Q
  <2>5. \A x \in Key : NodeFree(t, Q, x)
    BY <2>1, <2>2, <2>4 DEF NodeFree
  <2>6. Linked(t, Q) /\ Q[t.root] = {}
    BY <2>2, <2>3, <2>4, <2>5 DEF Linked
  <2>7. Holds(t, {}, t.record)
    BY <2>1, <2>2, <2>6, FS_EmptySet DEF Holds
  <2> QED
    BY <2>7 DEF t
<1>2. TableInv /\ [TableNext]_tableVars => TableInv'
  <2> SUFFICES ASSUME TableInv, [TableNext]_tableVars PROVE TableInv'
    OBVIOUS
  <2>1. PICK N : Holds(tree, N, tree.record)
    BY DEF TableInv
  <2>2. ASSUME NEW M, NEW record, Holds(tree', M, record) PROVE TableInv'
    BY <2>2 DEF TableInv, Holds
  <2>3. ASSUME NEW a \in Key, NEW st \in State, SetState(a, st) PROVE TableInv'
    BY <2>1, <2>2, <2>3, InsertHolds DEF SetState
  <2>4. ASSUME NEW a \in Key, tree' = tree_remove(tree, a) PROVE TableInv'
    BY <2>1, <2>2, <2>4, RemoveHolds
  <2>5. ASSUME tree' = tree PROVE TableInv'
    BY <2>1, <2>2, <2>5
  <2> QED
    BY <2>3, <2>4, <2>5 DEF TableNext, SnoopInvalid, Evict, tableVars
<1> QED
  BY <1>1, <1>2, PTL DEF TableSpec

\* However lines are inserted and removed, the tree stays a search tree.
THEOREM TreeWellFormedHolds == TableSpec => []TreeWellFormed
<1>1. TableInv => TreeWellFormed
  BY HoldsWellFormed DEF TableInv, TreeWellFormed
<1> QED
  BY <1>1, TableInvHolds, PTL

\* Every search ends at the right node.
THEOREM LookupsRightHold == TableSpec => []LookupsRight
<1>1. TableInv => LookupsRight
  <2> SUFFICES ASSUME TableInv PROVE LookupsRight
    OBVIOUS
  <2>1. PICK S : Linked(tree, S)
    BY DEF TableInv, Holds
  <2> QED
    BY <2>1, RightLookups DEF LookupsRight
<1> QED
  BY <1>1, TableInvHolds, PTL

\* What getState makes of a record.
Shown(record, a) == IF record[a] = NULL THEN "INVALID" ELSE record[a]

\* The table shows the records of the tree.
LEMMA TableShows ==
    ASSUME NEW t, NEW N, Holds(t, N, t.record), NEW a \in Key
    PROVE  (IF tree_find(t, a) = NULL THEN "INVALID" ELSE tree_find(t, a)) = Shown(t.record, a)
  BY FindRecord DEF Shown

\* The table is a function from lines to states, of which a call changes one value.
THEOREM LineStatesImplemented == TableSpec => ImplementsLineStates
<1> DEFINE shown == [a \in Key |-> getState(a)]
<1>1. TableInit => Table!Init
  <2> SUFFICES ASSUME TableInit PROVE Table!Init
    OBVIOUS
  <2>1. tree.root = NULL /\ tree.record = NoKeys
    BY DEF TableInit, tree_new
  <2>2. ASSUME NEW a \in Key PROVE getState(a) = "INVALID"
    BY <2>1 DEF getState, tree_find, NoKeys
  <2>3. shown = [a \in Key |-> "INVALID"]
    BY <2>2
  <2> QED
    BY <2>3 DEF TableInit, Table!Init
<1>2. ASSUME TableInv, TableInv', [TableNext]_tableVars
      PROVE  [Table!Next]_<<shown, request>>
  <2>1. PICK N : Holds(tree, N, tree.record)
    BY <1>2 DEF TableInv
  <2>2. PICK M : Holds(tree', M, tree'.record)
    BY <1>2 DEF TableInv
  <2>3. \A a \in Key : getState(a) = Shown(tree.record, a)
    BY <2>1, TableShows DEF getState
  <2>4. \A a \in Key : getState(a)' = Shown(tree'.record, a)
    BY <2>2, TableShows DEF getState
  <2>5. tree.record \in [Key -> State \cup {NULL}]
    BY <2>1 DEF Holds, Linked, TreeType
  \* A new record changes what is shown for its line.
  <2>6. ASSUME NEW a \in Key, NEW st, NEW v, tree'.record = [tree.record EXCEPT ![a] = v],
               st = IF v = NULL THEN "INVALID" ELSE v
        PROVE  shown' = [shown EXCEPT ![a] = st]
    <3>1. \A b \in Key : Shown(tree'.record, b) = IF b = a THEN st ELSE Shown(tree.record, b)
      BY <2>5, <2>6 DEF Shown
    <3>2. \A b \in Key : getState(b)' = IF b = a THEN st ELSE getState(b)
      BY <2>3, <2>4, <3>1
    <3>3. shown' = [b \in Key |-> getState(b)']
      OBVIOUS
    <3> HIDE DEF getState
    <3> QED
      BY <3>2, <3>3
  <2>7. ASSUME NEW a \in Key, NEW st \in State, SetState(a, st)
        PROVE  Table!Change(a, st)
    <3>0. Holds(tree_insert(tree, a, st), N \cup {a}, [tree.record EXCEPT ![a] = st])
      BY <2>1, InsertHolds
    <3>1. tree'.record = [tree.record EXCEPT ![a] = st]
      BY <2>7, <3>0 DEF SetState, Holds
    <3>2. shown' = [shown EXCEPT ![a] = st]
      BY <2>6, <3>1, StateAssumption
    <3> QED
      BY <2>7, <3>2 DEF SetState, Table!Change
  <2>8. ASSUME NEW a \in Key, tree' = tree_remove(tree, a)
        PROVE  shown' = [shown EXCEPT ![a] = "INVALID"]
    <3>1. tree'.record = [tree.record EXCEPT ![a] = NULL]
      BY <2>1, <2>8, RemoveHolds DEF Holds
    <3> QED
      BY <2>6, <3>1
  <2>9. ASSUME NEW a \in Key, tree' = tree, getState(a) = "INVALID"
        PROVE  shown' = [shown EXCEPT ![a] = "INVALID"]
    <3>1. shown' = shown
      BY <2>9 DEF getState
    <3>2. shown = [shown EXCEPT ![a] = "INVALID"]
      <4> HIDE DEF getState
      <4> QED
        BY <2>9
    <3> QED
      BY <3>1, <3>2
  <2>10. ASSUME NEW a \in Key, SnoopInvalid(a) \/ Evict(a)
         PROVE  Table!Change(a, "INVALID")
    BY <2>8, <2>9, <2>10 DEF SnoopInvalid, Evict, Table!Change
  <2>11. CASE UNCHANGED tableVars
    BY <2>11 DEF tableVars, getState
  <2>12. CASE TableNext
    BY <2>7, <2>10, <2>12 DEF TableNext, Table!Next
  <2> QED
    BY <1>2, <2>11, <2>12
<1> QED
  BY <1>1, <1>2, TableInvHolds, PTL DEF TableSpec, ImplementsLineStates, Table!Spec
=============================================================================
