----------------------------- MODULE CsimProof -----------------------------
(***************************************************************************)
(* The statistics of csim are those of the contents of its cache, and      *)
(* cache-p4 without victim cache and with LRU does on every trace what     *)
(* csim does, for any number of sets, ways and bytes of a line and traces  *)
(* of any length.                                                          *)
(***************************************************************************)
EXTENDS CsimAgainstP4, FiniteSetTheorems, WellFoundedInduction, TLAPS

-----------------------------------------------------------------------------
(* The inductive invariant.                                                *)

Sets  == 0 .. S - 1
Ways  == 0 .. E - 1
Where == Sets \X Ways

Block == [valid_bit : BOOLEAN, dirty_bit : BOOLEAN, tag : Nat, LRU_counter : Nat]

CsimTypeOK ==
    /\ cache \in [Sets -> [Ways -> Block]]
    /\ stats \in [hits : Nat, misses : Nat, evictions : Nat, dirty_bytes : Int,
                  dirty_evictions : Nat]
    /\ iteration \in Nat

Valid == {x \in Where : cache[x[1]][x[2]].valid_bit}
Dirty == {x \in Valid : cache[x[1]][x[2]].dirty_bit}

Bytes(n) == B * n      \* n lines of them

Counted ==
    /\ stats.misses = stats.evictions + Cardinality(Valid)
    /\ stats.dirty_bytes = Bytes(Cardinality(Dirty))
    /\ stats.dirty_evictions <= Bytes(stats.evictions)

CsimInv == CsimTypeOK /\ Counted

-----------------------------------------------------------------------------
(* Numbers.                                                                *)

\* A line lies in one of the sets, and its tag is a natural number.
LEMMA SetOfLine ==
    ASSUME NEW a \in Line
    PROVE  SetIndex(a) \in Sets /\ TagOf(a) \in Nat
<1>1. a \in Nat /\ S \in Nat \ {0}
  BY CsimAssumption
<1>2. a % S \in 0 .. S - 1
  BY <1>1
<1>3. a \div S \in Nat
  BY <1>1
<1> QED
  BY <1>2, <1>3 DEF SetIndex, TagOf, Sets

\* A set of natural numbers that is not empty has a first one.
LEMMA MinOfNumbers ==
    ASSUME NEW T \in SUBSET Nat, T # {}
    PROVE  Min(T) \in T /\ \A t \in T : Min(T) <= t
<1> DEFINE R == OpToRel(<, Nat)
<1>1. PICK m \in T : \A t \in T : <<t, m>> \notin R
  BY WFMin, NatLessThanWellFounded
<1>2. \A t \in T : ~(t < m)
  BY <1>1 DEF OpToRel
<1>3. \A t \in T : m <= t
  BY <1>2
<1> QED
  BY <1>1, <1>3 DEF Min

\* One more line, one line less.
LEMMA OneMore ==
    ASSUME NEW n \in Nat
    PROVE  /\ Bytes(n + 1) = Bytes(n) + B
           /\ Bytes(n - 1) = Bytes(n) - B
           /\ Bytes(n) \in Nat
           /\ B \in Nat
  BY CsimAssumption DEF Bytes

-----------------------------------------------------------------------------
(* The ways that an access may take.                                       *)

\* The search for a line ends at a way of its set.
LEMMA FirstOf ==
    ASSUME NEW T \in SUBSET Ways, T # {}
    PROVE  Min(T) \in T
<1>1. Ways \subseteq Nat
  BY CsimAssumption DEF Ways
<1> QED
  BY <1>1, MinOfNumbers

\* The victim is one of the ways: some counter of the set is the smallest.
LEMMA VictimIsAWay ==
    ASSUME CsimTypeOK, NEW a \in Line
    PROVE  LRU_index(a) \in Ways
<1> DEFINE counter(w) == cache[SetIndex(a)][w].LRU_counter
           oldest == {w \in Ways : \A v \in Ways : counter(w) <= counter(v)}
           counters == {counter(w) : w \in Ways}
<1>1. \A w \in Ways : counter(w) \in Nat
  BY SetOfLine DEF CsimTypeOK, Block
<1>2. counters \subseteq Nat /\ counters # {}
  <2>1. 0 \in Ways
    BY CsimAssumption DEF Ways
  <2> QED
    BY <1>1, <2>1
<1>3. PICK w \in Ways : Min(counters) = counter(w)
  BY <1>2, MinOfNumbers
<1>4. \A v \in Ways : counter(w) <= counter(v)
  <2> SUFFICES ASSUME NEW v \in Ways PROVE Min(counters) <= counter(v)
    BY <1>3
  <2>1. counter(v) \in counters
    OBVIOUS
  <2> HIDE DEF counters, counter
  <2> QED
    BY <1>2, <2>1, MinOfNumbers
<1>5. Min(oldest) \in Ways
  BY <1>4, FirstOf
<1> QED
  BY <1>5 DEF LRU_index, Ways

-----------------------------------------------------------------------------
(* What taking a way does to the sets of valid and of dirty lines.         *)

\* There are finitely many places.
LEMMA PlacesFinite ==
    /\ IsFiniteSet(Valid) /\ Cardinality(Valid) \in Nat
    /\ IsFiniteSet(Dirty) /\ Cardinality(Dirty) \in Nat
<1>1. 0 \in Int /\ S - 1 \in Int /\ E - 1 \in Int
  BY CsimAssumption
<1>2. IsFiniteSet(Sets) /\ IsFiniteSet(Ways)
  BY <1>1, FS_Interval DEF Sets, Ways
<1>3. IsFiniteSet(Where)
  BY <1>2, FS_Product DEF Where
<1>4. IsFiniteSet(Valid) /\ IsFiniteSet(Dirty)
  BY <1>3, FS_Subset DEF Valid, Dirty
<1> QED
  BY <1>4, FS_CardinalityType

\* The line is valid from now on, and dirty or not as said; no other line changes.
LEMMA HoldsEffect ==
    ASSUME CsimTypeOK, NEW a \in Line, NEW w \in Ways, NEW d \in BOOLEAN,
           Holds(a, w, d), NextLine
    PROVE  /\ cache' \in [Sets -> [Ways -> Block]]
           /\ iteration' \in Nat
           /\ <<SetIndex(a), w>> \in Where
           /\ Valid' = Valid \cup {<<SetIndex(a), w>>}
           /\ Dirty' = IF d THEN Dirty \cup {<<SetIndex(a), w>>}
                       ELSE Dirty \ {<<SetIndex(a), w>>}
<1> DEFINE s == SetIndex(a)
           here == <<s, w>>
           block == [valid_bit |-> TRUE, dirty_bit |-> d, tag |-> TagOf(a),
                     LRU_counter |-> iteration]
<1>1. s \in Sets /\ block \in Block /\ here \in Where
  BY SetOfLine DEF CsimTypeOK, Block, Where
<1>2. cache' = [cache EXCEPT ![s][w] = block]
  BY DEF Holds
<1> HIDE DEF block, s
<1>3. cache' \in [Sets -> [Ways -> Block]] /\ iteration' \in Nat
  BY <1>1, <1>2 DEF CsimTypeOK, NextLine
<1>4. \A x \in Where : cache'[x[1]][x[2]] = IF x = here THEN block ELSE cache[x[1]][x[2]]
  <2> SUFFICES ASSUME NEW t \in Sets, NEW v \in Ways
               PROVE  cache'[t][v] = IF t = s /\ v = w THEN block ELSE cache[t][v]
    BY DEF Where
  <2> QED
    BY <1>1, <1>2 DEF CsimTypeOK
<1>5. block.valid_bit = TRUE /\ block.dirty_bit = d
  BY DEF block
<1>6. Valid' = Valid \cup {here}
  BY <1>1, <1>4, <1>5 DEF Valid
<1>7. Dirty' = IF d THEN Dirty \cup {here} ELSE Dirty \ {here}
  BY <1>1, <1>4, <1>5, <1>6 DEF Dirty, Valid
<1> QED
  BY <1>1, <1>3, <1>6, <1>7 DEF s

\* The numbers of valid and dirty lines after that.
LEMMA HoldsCounts ==
    ASSUME CsimTypeOK, NEW a \in Line, NEW w \in Ways, NEW d \in BOOLEAN,
           Holds(a, w, d), NextLine
    PROVE  LET here == <<SetIndex(a), w>>
               valid == Cardinality(Valid)
               dirty == Cardinality(Dirty)
           IN  /\ Cardinality(Valid') = IF here \in Valid THEN valid ELSE valid + 1
               /\ Cardinality(Dirty') =
                    IF d THEN IF here \in Dirty THEN dirty ELSE dirty + 1
                    ELSE IF here \in Dirty THEN dirty - 1 ELSE dirty
<1>1. /\ Valid' = Valid \cup {<<SetIndex(a), w>>}
      /\ Dirty' = IF d THEN Dirty \cup {<<SetIndex(a), w>>}
                  ELSE Dirty \ {<<SetIndex(a), w>>}
  BY HoldsEffect
<1>2. IsFiniteSet(Valid) /\ IsFiniteSet(Dirty)
  BY PlacesFinite
<1>3. CASE d
  BY <1>1, <1>2, <1>3, FS_AddElement
<1>4. CASE ~d
  BY <1>1, <1>2, <1>4, FS_AddElement, FS_RemoveElement
<1> QED
  BY <1>3, <1>4

-----------------------------------------------------------------------------
(* One lemma for each action.                                              *)

\* A place is valid or dirty as the block there says.
LEMMA PlaceIs ==
    ASSUME CsimTypeOK, NEW a \in Line, NEW w \in Ways
    PROVE  /\ <<SetIndex(a), w>> \in Valid <=> cache[SetIndex(a)][w].valid_bit
           /\ <<SetIndex(a), w>> \in Dirty <=> /\ cache[SetIndex(a)][w].valid_bit
                                               /\ cache[SetIndex(a)][w].dirty_bit
           /\ cache[SetIndex(a)][w].valid_bit \in BOOLEAN
           /\ cache[SetIndex(a)][w].dirty_bit \in BOOLEAN
<1>1. SetIndex(a) \in Sets
  BY SetOfLine
<1>2. <<SetIndex(a), w>> \in Where
  BY <1>1 DEF Where
<1>3. cache[SetIndex(a)][w] \in Block
  BY <1>1 DEF CsimTypeOK
<1> QED
  BY <1>2, <1>3 DEF Valid, Dirty, Block

\* A hit touches a valid line.
LEMMA MatchIsValid ==
    ASSUME CsimTypeOK, NEW a \in Line, Matching(a) # {}
    PROVE  Min(Matching(a)) \in Ways /\ cache[SetIndex(a)][Min(Matching(a))].valid_bit
<1>1. Matching(a) \subseteq Ways
  BY DEF Matching, Ways
<1>2. Min(Matching(a)) \in Matching(a)
  BY <1>1, FirstOf
<1> QED
  BY <1>1, <1>2 DEF Matching

\* A line that comes in without an eviction takes an invalid place.
LEMMA FreeIsInvalid ==
    ASSUME CsimTypeOK, NEW a \in Line, Invalid(a) # {}
    PROVE  Min(Invalid(a)) \in Ways /\ ~cache[SetIndex(a)][Min(Invalid(a))].valid_bit
<1>1. Invalid(a) \subseteq Ways
  BY DEF Invalid, Ways
<1>2. Min(Invalid(a)) \in Invalid(a)
  BY <1>1, FirstOf
<1> QED
  BY <1>1, <1>2 DEF Invalid

\* A line is evicted from a full set.
LEMMA VictimIsValid ==
    ASSUME CsimTypeOK, NEW a \in Line, Invalid(a) = {}
    PROVE  LRU_index(a) \in Ways /\ cache[SetIndex(a)][LRU_index(a)].valid_bit
<1>1. LRU_index(a) \in Ways
  BY VictimIsAWay
<1> QED
  BY <1>1 DEF Invalid, Ways

\* A load that hits changes neither number.
LEMMA LoadHitCounts == ASSUME CsimInv, NEW a \in Line, LoadHit(a) PROVE CsimInv'
<1> DEFINE w == Min(Matching(a))
           d == cache[SetIndex(a)][w].dirty_bit
<1>1. /\ NextLine /\ Matching(a) # {} /\ Holds(a, w, d)
      /\ stats' = [stats EXCEPT !.hits = @ + 1]
  BY DEF LoadHit
<1>2. w \in Ways /\ cache[SetIndex(a)][w].valid_bit
  BY <1>1, MatchIsValid DEF CsimInv
<1> HIDE DEF w
<1>3. d \in BOOLEAN /\ <<SetIndex(a), w>> \in Valid /\ (<<SetIndex(a), w>> \in Dirty <=> d)
  BY <1>2, PlaceIs DEF CsimInv
<1> HIDE DEF d
<1>4. cache' \in [Sets -> [Ways -> Block]] /\ iteration' \in Nat
  BY <1>1, <1>2, <1>3, HoldsEffect DEF CsimInv
<1>5. Cardinality(Valid') = Cardinality(Valid) /\ Cardinality(Dirty') = Cardinality(Dirty)
  BY <1>1, <1>2, <1>3, HoldsCounts DEF CsimInv
<1> QED
  BY <1>1, <1>4, <1>5 DEF CsimInv, CsimTypeOK, Counted

\* A load into a free way adds a valid line.
LEMMA LoadMissCounts == ASSUME CsimInv, NEW a \in Line, LoadMiss(a) PROVE CsimInv'
<1> DEFINE w == Min(Invalid(a))
<1>1. /\ NextLine /\ Invalid(a) # {} /\ Holds(a, w, FALSE)
      /\ stats' = [stats EXCEPT !.misses = @ + 1]
  BY DEF LoadMiss
<1>2. w \in Ways /\ ~cache[SetIndex(a)][w].valid_bit
  BY <1>1, FreeIsInvalid DEF CsimInv
<1> HIDE DEF w
<1>3. <<SetIndex(a), w>> \notin Valid /\ <<SetIndex(a), w>> \notin Dirty
  BY <1>2, PlaceIs DEF CsimInv
<1>4. cache' \in [Sets -> [Ways -> Block]] /\ iteration' \in Nat
  BY <1>1, <1>2, HoldsEffect DEF CsimInv
<1>5. /\ Cardinality(Valid') = Cardinality(Valid) + 1
      /\ Cardinality(Dirty') = Cardinality(Dirty)
  BY <1>1, <1>2, <1>3, HoldsCounts DEF CsimInv
<1> QED
  BY <1>1, <1>4, <1>5, PlacesFinite DEF CsimInv, CsimTypeOK, Counted

\* A store into a free way adds a valid and dirty line.
LEMMA StoreMissCounts == ASSUME CsimInv, NEW a \in Line, StoreMiss(a) PROVE CsimInv'
<1> DEFINE w == Min(Invalid(a))
<1>1. /\ NextLine /\ Invalid(a) # {} /\ Holds(a, w, TRUE)
      /\ stats' = [stats EXCEPT !.misses = @ + 1, !.dirty_bytes = @ + B]
  BY DEF StoreMiss
<1>2. w \in Ways /\ ~cache[SetIndex(a)][w].valid_bit
  BY <1>1, FreeIsInvalid DEF CsimInv
<1> HIDE DEF w
<1>3. <<SetIndex(a), w>> \notin Valid /\ <<SetIndex(a), w>> \notin Dirty
  BY <1>2, PlaceIs DEF CsimInv
<1>4. cache' \in [Sets -> [Ways -> Block]] /\ iteration' \in Nat
  BY <1>1, <1>2, HoldsEffect DEF CsimInv
<1>5. /\ Cardinality(Valid') = Cardinality(Valid) + 1
      /\ Cardinality(Dirty') = Cardinality(Dirty) + 1
  BY <1>1, <1>2, <1>3, HoldsCounts DEF CsimInv
<1>6. /\ Bytes(Cardinality(Dirty) + 1) = Bytes(Cardinality(Dirty)) + B
      /\ B \in Nat
      /\ Bytes(Cardinality(Dirty)) \in Nat
  BY PlacesFinite, OneMore
<1>7. Bytes(Cardinality(Dirty')) = Bytes(Cardinality(Dirty)) + B
  BY <1>5, <1>6
<1>8. /\ stats'.misses = stats.misses + 1
      /\ stats'.evictions = stats.evictions
      /\ stats'.dirty_bytes = stats.dirty_bytes + B
      /\ stats'.dirty_evictions = stats.dirty_evictions
  BY <1>1 DEF CsimInv, CsimTypeOK
<1>9. CsimTypeOK'
  <2>1. stats.misses + 1 \in Nat /\ stats.dirty_bytes + B \in Int
    BY <1>6 DEF CsimInv, CsimTypeOK
  <2> QED
    BY <1>1, <1>4, <2>1 DEF CsimInv, CsimTypeOK
<1>10. (stats.misses = stats.evictions + Cardinality(Valid))'
  BY <1>5, <1>8, PlacesFinite DEF CsimInv, CsimTypeOK, Counted
<1>11. (stats.dirty_bytes = Bytes(Cardinality(Dirty)))'
  BY <1>7, <1>8 DEF CsimInv, CsimTypeOK, Counted
<1>12. (stats.dirty_evictions <= Bytes(stats.evictions))'
  BY <1>8 DEF CsimInv, CsimTypeOK, Counted
<1> QED
  BY <1>9, <1>10, <1>11, <1>12 DEF CsimInv, Counted

\* A store that hits makes the line dirty, if it is not.
LEMMA StoreHitCounts == ASSUME CsimInv, NEW a \in Line, StoreHit(a) PROVE CsimInv'
<1> DEFINE w == Min(Matching(a))
           d == cache[SetIndex(a)][w].dirty_bit
<1>1. /\ NextLine /\ Matching(a) # {} /\ Holds(a, w, TRUE)
      /\ stats' = [stats EXCEPT !.hits = @ + 1,
                                !.dirty_bytes = @ + B - IF d THEN B ELSE 0]
  BY DEF StoreHit, DirtyBytes
<1>2. w \in Ways /\ cache[SetIndex(a)][w].valid_bit
  BY <1>1, MatchIsValid DEF CsimInv
<1> HIDE DEF w
<1>3. d \in BOOLEAN /\ <<SetIndex(a), w>> \in Valid /\ (<<SetIndex(a), w>> \in Dirty <=> d)
  BY <1>2, PlaceIs DEF CsimInv
<1> HIDE DEF d
<1>4. cache' \in [Sets -> [Ways -> Block]] /\ iteration' \in Nat
  BY <1>1, <1>2, HoldsEffect DEF CsimInv
<1>5. /\ Cardinality(Valid') = Cardinality(Valid)
      /\ Cardinality(Dirty') = IF d THEN Cardinality(Dirty) ELSE Cardinality(Dirty) + 1
  BY <1>1, <1>2, <1>3, HoldsCounts DEF CsimInv
<1>6. /\ Bytes(Cardinality(Dirty) + 1) = Bytes(Cardinality(Dirty)) + B
      /\ B \in Nat
      /\ Bytes(Cardinality(Dirty)) \in Nat
  BY PlacesFinite, OneMore
<1>7. Bytes(Cardinality(Dirty')) = Bytes(Cardinality(Dirty)) + (IF d THEN 0 ELSE B)
  BY <1>3, <1>5, <1>6
<1>8. /\ stats'.misses = stats.misses
      /\ stats'.evictions = stats.evictions
      /\ stats'.dirty_bytes = stats.dirty_bytes + B - IF d THEN B ELSE 0
      /\ stats'.dirty_evictions = stats.dirty_evictions
  BY <1>1 DEF CsimInv, CsimTypeOK
<1>9. CsimTypeOK'
  <2>1. /\ stats.hits + 1 \in Nat
        /\ stats.dirty_bytes + B - (IF d THEN B ELSE 0) \in Int
    BY <1>6 DEF CsimInv, CsimTypeOK
  <2> QED
    BY <1>1, <1>4, <2>1 DEF CsimInv, CsimTypeOK
<1>10. (stats.misses = stats.evictions + Cardinality(Valid))'
  BY <1>5, <1>8 DEF CsimInv, CsimTypeOK, Counted
<1>11. (stats.dirty_bytes = Bytes(Cardinality(Dirty)))'
  BY <1>3, <1>6, <1>7, <1>8 DEF CsimInv, CsimTypeOK, Counted
<1>12. (stats.dirty_evictions <= Bytes(stats.evictions))'
  BY <1>8 DEF CsimInv, CsimTypeOK, Counted
<1> QED
  BY <1>9, <1>10, <1>11, <1>12 DEF CsimInv, Counted

\* What a victim takes with it.
LEMMA VictimBytes ==
    ASSUME CsimInv, NEW a \in Line, Invalid(a) = {}
    PROVE  LET w == LRU_index(a)
               d == cache[SetIndex(a)][w].dirty_bit
           IN  /\ w \in Ways /\ d \in BOOLEAN
               /\ <<SetIndex(a), w>> \in Valid
               /\ <<SetIndex(a), w>> \in Dirty <=> d
               /\ DirtyBytes(a, w) = IF d THEN B ELSE 0
  BY VictimIsValid, PlaceIs DEF CsimInv, DirtyBytes

\* A load over a victim may take a dirty line away.
LEMMA LoadEvictCounts == ASSUME CsimInv, NEW a \in Line, LoadEvict(a) PROVE CsimInv'
<1> DEFINE w == LRU_index(a)
           d == cache[SetIndex(a)][w].dirty_bit
           bytes == IF d THEN B ELSE 0
<1>1. /\ NextLine /\ Invalid(a) = {} /\ Holds(a, w, FALSE)
      /\ stats' = [stats EXCEPT !.misses = @ + 1,
                                !.evictions = @ + 1,
                                !.dirty_bytes = @ - DirtyBytes(a, w),
                                !.dirty_evictions = @ + DirtyBytes(a, w)]
  BY DEF LoadEvict
<1>2. /\ w \in Ways /\ d \in BOOLEAN /\ <<SetIndex(a), w>> \in Valid
      /\ <<SetIndex(a), w>> \in Dirty <=> d
      /\ DirtyBytes(a, w) = bytes
  BY <1>1, VictimBytes
<1> HIDE DEF w, d
<1>3. cache' \in [Sets -> [Ways -> Block]] /\ iteration' \in Nat
  BY <1>1, <1>2, HoldsEffect DEF CsimInv
<1>4. /\ Cardinality(Valid') = Cardinality(Valid)
      /\ Cardinality(Dirty') = IF d THEN Cardinality(Dirty) - 1 ELSE Cardinality(Dirty)
  BY <1>1, <1>2, HoldsCounts DEF CsimInv
<1>5. /\ Bytes(Cardinality(Dirty) - 1) = Bytes(Cardinality(Dirty)) - B
      /\ Bytes(stats.evictions + 1) = Bytes(stats.evictions) + B
      /\ Bytes(stats.evictions) \in Nat /\ B \in Nat
      /\ Bytes(Cardinality(Dirty)) \in Nat
  BY PlacesFinite, OneMore DEF CsimInv, CsimTypeOK
<1>6. Bytes(Cardinality(Dirty')) = Bytes(Cardinality(Dirty)) - (IF d THEN B ELSE 0)
  BY <1>2, <1>4, <1>5
<1>7. /\ stats'.misses = stats.misses + 1
      /\ stats'.evictions = stats.evictions + 1
      /\ stats'.dirty_bytes = stats.dirty_bytes - bytes
      /\ stats'.dirty_evictions = stats.dirty_evictions + bytes
  BY <1>1, <1>2 DEF CsimInv, CsimTypeOK
<1>8. bytes \in Nat /\ bytes <= B
  BY <1>5
<1> HIDE DEF bytes
<1>9. CsimTypeOK'
  <2>1. /\ stats.misses + 1 \in Nat /\ stats.evictions + 1 \in Nat
        /\ stats.dirty_bytes - bytes \in Int
        /\ stats.dirty_evictions + bytes \in Nat
    BY <1>5, <1>8 DEF CsimInv, CsimTypeOK
  <2> QED
    BY <1>1, <1>2, <1>3, <2>1 DEF CsimInv, CsimTypeOK
<1>10. (stats.misses = stats.evictions + Cardinality(Valid))'
  BY <1>4, <1>7, PlacesFinite DEF CsimInv, CsimTypeOK, Counted
<1>11. (stats.dirty_bytes = Bytes(Cardinality(Dirty)))'
  BY <1>2, <1>5, <1>6, <1>7 DEF CsimInv, CsimTypeOK, Counted, bytes
<1>12. (stats.dirty_evictions <= Bytes(stats.evictions))'
  BY <1>5, <1>7, <1>8 DEF CsimInv, CsimTypeOK, Counted
<1> QED
  BY <1>9, <1>10, <1>11, <1>12 DEF CsimInv, Counted

\* A store over a victim leaves a dirty line in its place.
LEMMA StoreEvictCounts == ASSUME CsimInv, NEW a \in Line, StoreEvict(a) PROVE CsimInv'
<1> DEFINE w == LRU_index(a)
           d == cache[SetIndex(a)][w].dirty_bit
           bytes == IF d THEN B ELSE 0
<1>1. /\ NextLine /\ Invalid(a) = {} /\ Holds(a, w, TRUE)
      /\ stats' = [stats EXCEPT !.misses = @ + 1,
                                !.evictions = @ + 1,
                                !.dirty_bytes = @ - DirtyBytes(a, w) + B,
                                !.dirty_evictions = @ + DirtyBytes(a, w)]
  BY DEF StoreEvict
<1>2. /\ w \in Ways /\ d \in BOOLEAN /\ <<SetIndex(a), w>> \in Valid
      /\ <<SetIndex(a), w>> \in Dirty <=> d
      /\ DirtyBytes(a, w) = bytes
  BY <1>1, VictimBytes
<1> HIDE DEF w, d
<1>3. cache' \in [Sets -> [Ways -> Block]] /\ iteration' \in Nat
  BY <1>1, <1>2, HoldsEffect DEF CsimInv
<1>4. /\ Cardinality(Valid') = Cardinality(Valid)
      /\ Cardinality(Dirty') = IF d THEN Cardinality(Dirty) ELSE Cardinality(Dirty) + 1
  BY <1>1, <1>2, HoldsCounts DEF CsimInv
<1>5. /\ Bytes(Cardinality(Dirty) + 1) = Bytes(Cardinality(Dirty)) + B
      /\ Bytes(stats.evictions + 1) = Bytes(stats.evictions) + B
      /\ Bytes(stats.evictions) \in Nat /\ B \in Nat
      /\ Bytes(Cardinality(Dirty)) \in Nat
  BY PlacesFinite, OneMore DEF CsimInv, CsimTypeOK
<1>6. Bytes(Cardinality(Dirty')) = Bytes(Cardinality(Dirty)) + (IF d THEN 0 ELSE B)
  BY <1>2, <1>4, <1>5
<1>7. /\ stats'.misses = stats.misses + 1
      /\ stats'.evictions = stats.evictions + 1
      /\ stats'.dirty_bytes = stats.dirty_bytes - bytes + B
      /\ stats'.dirty_evictions = stats.dirty_evictions + bytes
  BY <1>1, <1>2 DEF CsimInv, CsimTypeOK
<1>8. bytes \in Nat /\ bytes <= B
  BY <1>5
<1> HIDE DEF bytes
<1>9. CsimTypeOK'
  <2>1. /\ stats.misses + 1 \in Nat /\ stats.evictions + 1 \in Nat
        /\ stats.dirty_bytes - bytes + B \in Int
        /\ stats.dirty_evictions + bytes \in Nat
    BY <1>5, <1>8 DEF CsimInv, CsimTypeOK
  <2> QED
    BY <1>1, <1>2, <1>3, <2>1 DEF CsimInv, CsimTypeOK
<1>10. (stats.misses = stats.evictions + Cardinality(Valid))'
  BY <1>4, <1>7, PlacesFinite DEF CsimInv, CsimTypeOK, Counted
<1>11. (stats.dirty_bytes = Bytes(Cardinality(Dirty)))'
  BY <1>2, <1>5, <1>6, <1>7 DEF CsimInv, CsimTypeOK, Counted, bytes
<1>12. (stats.dirty_evictions <= Bytes(stats.evictions))'
  BY <1>5, <1>7, <1>8 DEF CsimInv, CsimTypeOK, Counted
<1> QED
  BY <1>9, <1>10, <1>11, <1>12 DEF CsimInv, Counted

-----------------------------------------------------------------------------
(* The invariant.                                                          *)

\* The cache starts empty and nothing has been counted.
LEMMA CsimInvInit == CsimInit => CsimInv
<1> SUFFICES ASSUME CsimInit PROVE CsimInv
  OBVIOUS
<1>1. CsimTypeOK
  BY DEF CsimInit, CsimTypeOK, Sets, Ways, Block
<1>2. \A s \in Sets, w \in Ways : cache[s][w].valid_bit = FALSE
  BY DEF CsimInit, Sets, Ways
<1>3. Valid = {} /\ Dirty = {}
  BY <1>2 DEF Valid, Dirty, Where
<1>4. Cardinality(Valid) = 0 /\ Cardinality(Dirty) = 0
  BY <1>3, FS_EmptySet
<1>5. Bytes(0) = 0
  BY CsimAssumption DEF Bytes
<1> QED
  BY <1>1, <1>4, <1>5 DEF CsimInv, Counted, CsimInit

\* Every step keeps the invariant.
LEMMA CsimInvStep == CsimInv /\ [CsimNext]_csimVars => CsimInv'
<1> SUFFICES ASSUME CsimInv, [CsimNext]_csimVars PROVE CsimInv'
  OBVIOUS
<1>1. CASE \E a \in Line : load(a)
  BY <1>1, LoadHitCounts, LoadMissCounts, LoadEvictCounts DEF load
<1>2. CASE \E a \in Line : store(a)
  BY <1>2, StoreHitCounts, StoreMissCounts, StoreEvictCounts DEF store
<1>3. CASE OtherOp
  BY <1>3 DEF OtherOp, NextLine, CsimInv, CsimTypeOK, Counted, Valid, Dirty
<1>4. CASE UNCHANGED csimVars
  BY <1>4 DEF csimVars, CsimInv, CsimTypeOK, Counted, Valid, Dirty
<1> QED
  BY <1>1, <1>2, <1>3, <1>4 DEF CsimNext

\* It holds in every state.
LEMMA CsimInvHolds == CsimSpec => []CsimInv
  BY CsimInvInit, CsimInvStep, PTL DEF CsimSpec

\* The statistics that csim prints agree with the cache (csim.c:116-292): misses are
\* the lines brought in, and the dirty bytes are those of the dirty lines, whatever
\* is hit, overwritten and evicted.
THEOREM StatisticsRight == CsimSpec => []StatsMatchContents
<1>1. CsimInv => StatsMatchContents
  BY DEF CsimInv, Counted, Bytes, StatsMatchContents, Valid, Dirty, Where, Sets, Ways
<1> QED
  BY <1>1, CsimInvHolds, PTL

-----------------------------------------------------------------------------
(* csim and cache-p4 side by side: counting, stamps and their order.       *)

\* The operators that both take from the community modules are the same: the number
\* of a set.
LEMMA SameCardinality == \A X : P4!Cardinality(X) = Cardinality(X)
  BY DEF P4!Cardinality, Cardinality

\* So does the smallest of a set.
LEMMA SameMin == \A X : P4!Min(X) = Min(X)
  BY DEF P4!Min, Min

\* The arrays of cache-p4: those of its sets, and an empty victim cache.
P4Arrays == [main : [Sets -> [Ways -> P4!Entry]], victim : [P4!VictimWay -> P4!Entry]]

\* The stamp t among those of the arrays c, renumbered.
RankIn(c, t) == P4!Cardinality({u \in P4!Stamps(c) : u < t})

\* cache-p4 has the sets and ways of csim and no victim cache.
LEMMA P4Geometry ==
    /\ P4!Way = Ways /\ P4!VictimWay = {}
    /\ S \in Nat \ {0} /\ E \in Nat \ {0} /\ Line \subseteq Nat
  BY CsimAssumption DEF P4!Way, P4!VictimWay, Ways

\* The fields of an entry.
LEMMA EntryFields ==
    ASSUME NEW e \in P4!Entry
    PROVE  e.valid \in BOOLEAN /\ e.dirty \in BOOLEAN /\ e.tag \in Nat /\ e.LRU \in Nat
  BY DEF P4!Entry

\* The stamps are those of valid lines.
LEMMA StampsOf ==
    ASSUME NEW c \in P4Arrays
    PROVE  /\ P4!Stamps(c) \subseteq Nat
           /\ \A s \in Sets, w \in Ways : c.main[s][w].valid => c.main[s][w].LRU \in P4!Stamps(c)
<1>1. c.main \in [Sets -> [Ways -> P4!Entry]] /\ DOMAIN c.main = Sets
  BY DEF P4Arrays
<1>2. P4!Entries(c) = UNION {{c.main[s][w] : w \in Ways} : s \in Sets}
  BY <1>1, P4Geometry DEF P4!Entries
<1>3. \A s \in Sets, w \in Ways : c.main[s][w] \in P4!Entries(c)
  BY <1>2
<1>4. \A e \in P4!Entries(c) : e \in P4!Entry
  BY <1>1, <1>2
<1>5. P4!Stamps(c) \subseteq Nat
  BY <1>4, EntryFields DEF P4!Stamps
<1>6. \A s \in Sets, w \in Ways : c.main[s][w].valid => c.main[s][w].LRU \in P4!Stamps(c)
  BY <1>3 DEF P4!Stamps
<1> QED
  BY <1>5, <1>6

\* Renumbering keeps the order of stamps, and keeps apart from all later ones a stamp
\* that is there.
LEMMA RanksInOrder ==
    ASSUME NEW c \in P4Arrays, NEW t \in Nat, NEW u \in Nat
    PROVE  /\ RankIn(c, t) \in Nat
           /\ t <= u => RankIn(c, t) <= RankIn(c, u)
           /\ t < u /\ t \in P4!Stamps(c) => RankIn(c, t) < RankIn(c, u)
<1> DEFINE X == P4!Stamps(c)
           before(n) == {x \in X : x < n}
<1>1. X \subseteq Nat
  BY StampsOf
<1>2. ASSUME NEW n \in Nat
      PROVE  IsFiniteSet(before(n)) /\ RankIn(c, n) = Cardinality(before(n))
             /\ RankIn(c, n) \in Nat
  <2>1. before(n) \subseteq 0 .. n
    BY <1>1
  <2>2. IsFiniteSet(0 .. n)
    BY FS_Interval
  <2>3. IsFiniteSet(before(n))
    BY <2>1, <2>2, FS_Subset
  <2>4. RankIn(c, n) = Cardinality(before(n))
    BY SameCardinality DEF RankIn
  <2> QED
    BY <2>3, <2>4, FS_CardinalityType
<1>3. ASSUME t <= u PROVE RankIn(c, t) <= RankIn(c, u)
  <2>1. before(t) \subseteq before(u)
    BY <1>1, <1>3
  <2>2. Cardinality(before(t)) <= Cardinality(before(u))
    BY <1>2, <2>1, FS_Subset
  <2> QED
    BY <1>2, <2>2
<1>4. ASSUME t < u, t \in X PROVE RankIn(c, t) < RankIn(c, u)
  <2>1. before(t) \cup {t} \subseteq before(u) /\ t \notin before(t)
    BY <1>1, <1>4
  <2>2. IsFiniteSet(before(t)) /\ IsFiniteSet(before(u))
    BY <1>2
  <2> HIDE DEF before
  <2>3. Cardinality(before(t) \cup {t}) = Cardinality(before(t)) + 1
    BY <2>1, <2>2, FS_AddElement
  <2>4. Cardinality(before(t) \cup {t}) <= Cardinality(before(u))
    BY <2>1, <2>2, FS_Subset
  <2>5. Cardinality(before(t)) \in Nat /\ Cardinality(before(u)) \in Nat
    BY <2>2, FS_CardinalityType
  <2> QED
    BY <1>2, <2>3, <2>4, <2>5
<1> QED
  BY <1>2, <1>3, <1>4

\* The arrays after an access, with the stamps renumbered.
LEMMA StoreMain ==
    ASSUME main \in [Sets -> [Ways -> P4!Entry]], NEW c \in P4Arrays, NEW n \in Nat,
           P4!Store(c, n)
    PROVE  /\ main' \in [Sets -> [Ways -> P4!Entry]]
           /\ victim' \in [P4!VictimWay -> P4!Entry]
           /\ now' = RankIn(c, n) /\ now' \in Nat
           /\ is_rrip' = is_rrip
           /\ \A s \in Sets, w \in Ways :
                LET e == c.main[s][w]
                    f == main'[s][w]
                IN  /\ f.valid = e.valid
                    /\ e.valid => /\ f.tag = e.tag /\ f.dirty = e.dirty
                                  /\ f.LRU = RankIn(c, e.LRU)
<1> DEFINE ranked(e) == [e EXCEPT !.LRU = IF e.valid THEN RankIn(c, e.LRU) ELSE 0]
<1>1. /\ main' = [s \in Sets |-> [w \in Ways |-> ranked(c.main[s][w])]]
      /\ victim' \in [P4!VictimWay -> P4!Entry]
      /\ now' = RankIn(c, n)
      /\ is_rrip' = is_rrip
  BY P4Geometry DEF P4!Store, RankIn
<1>2. ASSUME NEW e \in P4!Entry
      PROVE  /\ ranked(e) \in P4!Entry
             /\ ranked(e).valid = e.valid
             /\ ranked(e).tag = e.tag /\ ranked(e).dirty = e.dirty
             /\ e.valid => ranked(e).LRU = RankIn(c, e.LRU)
  <2> DEFINE stamp == IF e.valid THEN RankIn(c, e.LRU) ELSE 0
  <2>1. stamp \in Nat
    BY EntryFields, RanksInOrder
  <2>2. ranked(e) = [e EXCEPT !.LRU = stamp]
    OBVIOUS
  <2>3. e.valid => stamp = RankIn(c, e.LRU)
    OBVIOUS
  <2> HIDE DEF stamp, ranked
  <2> QED
    BY <2>1, <2>2, <2>3 DEF P4!Entry
<1>3. \A s \in Sets, w \in Ways : c.main[s][w] \in P4!Entry
  BY DEF P4Arrays
<1> HIDE DEF ranked
<1>4. \A s \in Sets, w \in Ways : main'[s][w] = ranked(c.main[s][w])
  BY <1>1
<1>5. now' \in Nat
  BY <1>1, RanksInOrder
<1>6. main' \in [Sets -> [Ways -> P4!Entry]]
  BY <1>1, <1>2, <1>3
<1> QED
  BY <1>1, <1>2, <1>3, <1>4, <1>5, <1>6

-----------------------------------------------------------------------------
(* The invariant of both sides.                                            *)

\* Without victim cache and under LRU, ...
PlainArrays ==
    /\ ~is_rrip
    /\ main \in [Sets -> [Ways -> P4!Entry]]
    /\ victim \in [P4!VictimWay -> P4!Entry]
    /\ now \in Nat

\* ... no line was used in the future, on either side, ...
UsedBefore ==
    \A s \in Sets, w \in Ways :
        /\ cache[s][w].valid_bit => cache[s][w].LRU_counter < iteration
        /\ main[s][w].valid => main[s][w].LRU < now

\* ... and no line is there twice.
InOneWay ==
    \A s \in Sets, w \in Ways, v \in Ways :
        /\ cache[s][w].valid_bit /\ cache[s][v].valid_bit
        /\ cache[s][w].tag = cache[s][v].tag
        => w = v

BothInv == CsimInv /\ PlainArrays /\ UsedBefore /\ InOneWay /\ SameArrays

\* An empty cache is empty on both sides.
LEMMA BothInvInit == BothInit => BothInv
<1> SUFFICES ASSUME BothInit PROVE BothInv
  OBVIOUS
<1>1. CsimInv
  BY CsimInvInit DEF BothInit
<1>2. /\ main = [s \in Sets |-> [w \in Ways |-> P4!Empty]]
      /\ victim \in [P4!VictimWay -> P4!Entry] /\ now = 0 /\ ~is_rrip
  BY P4Geometry DEF BothInit, P4!ArrayInit, Sets
<1>3. P4!Empty \in P4!Entry /\ P4!Empty.valid = FALSE
  BY DEF P4!Empty, P4!Entry
<1>4. \A s \in Sets, w \in Ways : ~cache[s][w].valid_bit
  BY DEF BothInit, CsimInit, Sets, Ways
<1>5. \A s \in Sets, w \in Ways : main[s][w].valid = FALSE /\ cache[s][w].valid_bit = FALSE
  BY <1>2, <1>3 DEF BothInit, CsimInit, Sets, Ways
<1>6. PlainArrays
  BY <1>2, <1>3 DEF PlainArrays
<1>7. SameArrays
  BY <1>5 DEF SameArrays, Sets, Ways
<1> QED
  BY <1>1, <1>4, <1>5, <1>6, <1>7 DEF BothInv, UsedBefore, InOneWay

-----------------------------------------------------------------------------
(* What an access does on each side.                                       *)

\* Way w of the set of a holds a from now on in the arrays c of cache-p4.
Takes(c, a, w, dirty) ==
    /\ c \in P4Arrays
    /\ c.main[SetIndex(a)][w].valid
    /\ c.main[SetIndex(a)][w].tag = TagOf(a)
    /\ c.main[SetIndex(a)][w].dirty = dirty
    /\ c.main[SetIndex(a)][w].LRU = now
    /\ \A s \in Sets, v \in Ways :
         ~(s = SetIndex(a) /\ v = w) => c.main[s][v] = main[s][v]

\* An entry is put into a way.
LEMMA PutInWay ==
    ASSUME PlainArrays, NEW a \in Line, NEW w \in Ways, NEW e \in P4!Entry,
           e.valid, e.tag = TagOf(a), e.LRU = now,
           NEW c, c = [main |-> [main EXCEPT ![SetIndex(a)] = [@ EXCEPT ![w] = e]],
                       victim |-> victim]
    PROVE  Takes(c, a, w, e.dirty)
<1> DEFINE m == [main EXCEPT ![SetIndex(a)] = [@ EXCEPT ![w] = e]]
<1>1. SetIndex(a) \in Sets /\ main \in [Sets -> [Ways -> P4!Entry]]
  BY SetOfLine DEF PlainArrays
<1>2. m \in [Sets -> [Ways -> P4!Entry]]
  BY <1>1
<1>3. /\ m[SetIndex(a)][w] = e
      /\ \A s \in Sets, v \in Ways : ~(s = SetIndex(a) /\ v = w) => m[s][v] = main[s][v]
  BY <1>1
<1>4. c = [main |-> m, victim |-> victim]
  OBVIOUS
<1> HIDE DEF m
<1>5. c.main = m
  BY ONLY <1>4
<1>6. c \in P4Arrays
  BY ONLY <1>2, <1>4, PlainArrays DEF P4Arrays, PlainArrays
<1>7. \A s \in Sets, v \in Ways :
        ~(s = SetIndex(a) /\ v = w) => c.main[s][v] = main[s][v]
  BY ONLY <1>3, <1>5
<1>8. c.main[SetIndex(a)][w] = e
  BY ONLY <1>3, <1>5
<1>9. e.valid /\ e.tag = TagOf(a) /\ e.LRU = now
  OBVIOUS
<1>10. /\ c.main[SetIndex(a)][w].valid
       /\ c.main[SetIndex(a)][w].tag = TagOf(a)
       /\ c.main[SetIndex(a)][w].LRU = now
       /\ c.main[SetIndex(a)][w].dirty = e.dirty
  BY ONLY <1>8, <1>9, e.dirty = e.dirty, Zenon
<1> QED
  BY ONLY <1>6, <1>7, <1>10, Zenon DEF Takes

\* Where an access finds the line, and which ways are free, is the same on both sides.
LEMMA SameSearch ==
    ASSUME BothInv, NEW a \in Line
    PROVE  /\ P4!Hits(main[SetIndex(a)], TagOf(a)) = Matching(a)
           /\ P4!Free(main[SetIndex(a)]) = Invalid(a)
           /\ P4!Hits(victim, a) = {} /\ P4!Free(victim) = {}
           /\ P4!Set(a) = SetIndex(a) /\ P4!Tag(a) = TagOf(a)
           /\ SetIndex(a) \in Sets /\ TagOf(a) \in Nat
           /\ DOMAIN main[SetIndex(a)] = Ways
           /\ main[SetIndex(a)] \in [Ways -> P4!Entry]
<1>1. SetIndex(a) \in Sets /\ TagOf(a) \in Nat
  BY SetOfLine
<1>2. P4!Set(a) = SetIndex(a) /\ P4!Tag(a) = TagOf(a)
  BY DEF P4!Set, SetIndex, P4!Tag, TagOf
<1>3. main[SetIndex(a)] \in [Ways -> P4!Entry] /\ DOMAIN main[SetIndex(a)] = Ways
  BY <1>1 DEF BothInv, PlainArrays
<1>4. P4!Hits(victim, a) = {} /\ P4!Free(victim) = {}
  BY P4Geometry DEF P4!Hits, P4!Free, BothInv, PlainArrays
<1>5. \A w \in Ways : /\ cache[SetIndex(a)][w].valid_bit = main[SetIndex(a)][w].valid
                      /\ cache[SetIndex(a)][w].valid_bit =>
                            cache[SetIndex(a)][w].tag = main[SetIndex(a)][w].tag
  BY <1>1 DEF BothInv, SameArrays, Sets, Ways
<1>6. P4!Hits(main[SetIndex(a)], TagOf(a)) = Matching(a)
  BY <1>3, <1>5 DEF P4!Hits, Matching, Ways
<1>7. P4!Free(main[SetIndex(a)]) = Invalid(a)
  BY <1>3, <1>5 DEF P4!Free, Invalid, Ways
<1> QED
  BY <1>1, <1>2, <1>3, <1>4, <1>6, <1>7

\* What cache-p4 answers to an access.
Answer(a, isStore) == P4!Access(P4!Arrays, a, isStore, now)

\* A hit touches the line.
LEMMA AnswerHit ==
    ASSUME BothInv, NEW a \in Line, NEW isStore \in BOOLEAN, Matching(a) # {}
    PROVE  LET w == Min(Matching(a))
           IN  /\ Answer(a, isStore).res = "HIT"
               /\ Answer(a, isStore).evicted = {}
               /\ Takes(Answer(a, isStore).arrays, a, w, main[SetIndex(a)][w].dirty \/ isStore)
<1> DEFINE w == Min(Matching(a))
           old == main[SetIndex(a)][w]
           new == P4!Touched(old, isStore, now)
           c == P4!Hit(P4!Arrays, a, isStore, now)
<1>1. PlainArrays /\ CsimTypeOK
  BY DEF BothInv, CsimInv
<1>2. w \in Ways /\ w \in Matching(a)
  <2>1. Matching(a) \subseteq Ways
    BY DEF Matching, Ways
  <2> QED
    BY <2>1, FirstOf
<1>3. old \in P4!Entry /\ old.valid /\ old.tag = TagOf(a)
  <2>1. w \in P4!Hits(main[SetIndex(a)], TagOf(a)) /\ main[SetIndex(a)] \in [Ways -> P4!Entry]
    BY <1>2, SameSearch
  <2> QED
    BY <1>2, <2>1 DEF P4!Hits
<1>4. now \in Nat /\ isStore \in BOOLEAN
  BY <1>1 DEF PlainArrays
<1>5. Answer(a, isStore) = [arrays |-> c, res |-> "HIT", evicted |-> {}]
  BY SameSearch DEF Answer, P4!Access, P4!Arrays
<1>6. c = [main |-> [main EXCEPT ![SetIndex(a)] = [@ EXCEPT ![w] = new]], victim |-> victim]
  BY SameSearch, SameMin DEF P4!Hit, P4!Arrays
<1> HIDE DEF w, old, c
<1>7. /\ new \in P4!Entry /\ new.valid /\ new.tag = TagOf(a) /\ new.LRU = now
      /\ new.dirty = (old.dirty \/ isStore)
  <2> DEFINE d == old.dirty \/ isStore
  <2>1. new = [old EXCEPT !.LRU = now, !.dirty = d, !.RRPV = 0]
    BY DEF P4!Touched
  <2>2. d \in BOOLEAN
    BY <1>3, <1>4 DEF P4!Entry
  <2> HIDE DEF d, new
  <2>3. /\ new.tag = old.tag /\ new.LRU = now /\ new.dirty = d
        /\ new.valid = old.valid
    BY <1>3, <2>1 DEF P4!Entry
  <2>4. new \in P4!Entry
    <3>1. 0 \in 0 .. 1
      OBVIOUS
    <3> QED
      BY <1>3, <1>4, <2>1, <2>2, <3>1 DEF P4!Entry
  <2>5. new.valid
    BY <1>3, <2>3, Zenon
  <2>6. new.tag = TagOf(a) /\ new.LRU = now
    BY <1>3, <2>3
  <2>7. new.dirty = (old.dirty \/ isStore)
    BY <2>3, Zenon DEF d
  <2> QED
    BY <2>4, <2>5, <2>6, <2>7
<1> HIDE DEF new
<1>8. Takes(c, a, w, new.dirty)
  BY <1>1, <1>2, <1>6, <1>7, PutInWay
<1>9. /\ Answer(a, isStore).res = "HIT" /\ Answer(a, isStore).evicted = {}
      /\ Answer(a, isStore).arrays = c
  BY ONLY <1>5
<1> QED
  BY <1>7, <1>8, <1>9 DEF w, old

\* A new line may go to any way of its set.
LEMMA FreshInWay ==
    ASSUME BothInv, NEW a \in Line, NEW isStore \in BOOLEAN, NEW w \in Ways,
           NEW c,
           c = [main |-> [main EXCEPT ![SetIndex(a)] =
                            [@ EXCEPT ![w] = P4!Fresh(TagOf(a), isStore, now)]],
                victim |-> victim]
    PROVE  Takes(c, a, w, isStore)
<1> DEFINE new == P4!Fresh(TagOf(a), isStore, now)
<1>1. PlainArrays
  BY DEF BothInv
<1>2. TagOf(a) \in Nat /\ now \in Nat
  BY <1>1, SetOfLine DEF PlainArrays
<1>3. /\ new \in P4!Entry /\ new.valid /\ new.tag = TagOf(a) /\ new.LRU = now
      /\ new.dirty = isStore
  BY <1>1, <1>2 DEF P4!Fresh, P4!Entry, PlainArrays
<1>4. c = [main |-> [main EXCEPT ![SetIndex(a)] = [@ EXCEPT ![w] = new]], victim |-> victim]
  OBVIOUS
<1> HIDE DEF new
<1>5. Takes(c, a, w, new.dirty)
  BY <1>1, <1>3, <1>4, PutInWay
<1> QED
  BY <1>3, <1>5

\* A miss takes the first free way.
LEMMA AnswerMiss ==
    ASSUME BothInv, NEW a \in Line, NEW isStore \in BOOLEAN,
           Matching(a) = {}, Invalid(a) # {}
    PROVE  /\ Answer(a, isStore).res = "MISS"
           /\ Answer(a, isStore).evicted = {}
           /\ Takes(Answer(a, isStore).arrays, a, Min(Invalid(a)), isStore)
<1> DEFINE c == P4!Fill(P4!Arrays, a, isStore, now)
           w == Min(Invalid(a))
<1>1. w \in Ways
  BY FreeIsInvalid DEF BothInv, CsimInv
<1>2. Answer(a, isStore) = [arrays |-> c, res |-> "MISS", evicted |-> {}]
  BY SameSearch DEF Answer, P4!Access, P4!Arrays, P4!Miss
<1>3. c = [main |-> [main EXCEPT ![SetIndex(a)] =
                       [@ EXCEPT ![w] = P4!Fresh(TagOf(a), isStore, now)]],
           victim |-> victim]
  BY SameSearch, SameMin DEF P4!Fill, P4!Arrays
<1> HIDE DEF w, c
<1>4. Takes(c, a, w, isStore)
  BY <1>1, <1>3, FreshInWay
<1>5. /\ Answer(a, isStore).res = "MISS" /\ Answer(a, isStore).evicted = {}
      /\ Answer(a, isStore).arrays = c
  BY ONLY <1>2
<1> QED
  BY <1>4, <1>5 DEF w

\* In a full set both take out the same line.
LEMMA SameVictim ==
    ASSUME BothInv, NEW a \in Line, Invalid(a) = {}
    PROVE  P4!EvictWay(main[SetIndex(a)]) = LRU_index(a)
<1> DEFINE ways == main[SetIndex(a)]
           counter(w) == cache[SetIndex(a)][w].LRU_counter
<1>1. SetIndex(a) \in Sets /\ DOMAIN ways = Ways /\ ways \in [Ways -> P4!Entry]
  BY SameSearch
<1>2. ASSUME NEW w \in Ways, NEW v \in Ways
      PROVE  counter(w) <= counter(v) <=> ways[w].LRU <= ways[v].LRU
  <2>1. cache[SetIndex(a)][w].valid_bit /\ cache[SetIndex(a)][v].valid_bit
    BY DEF Invalid, Ways
  <2>2. counter(v) < counter(w) <=> ways[v].LRU < ways[w].LRU
    BY <1>1, <2>1 DEF BothInv, SameArrays, Sets, Ways
  <2>3. counter(v) \in Nat /\ counter(w) \in Nat
    BY <1>1 DEF BothInv, CsimInv, CsimTypeOK, Block
  <2>4. ways[v].LRU \in Nat /\ ways[w].LRU \in Nat
    BY <1>1, EntryFields
  <2> QED
    BY <2>2, <2>3, <2>4
<1>3. ~is_rrip
  BY DEF BothInv, PlainArrays
<1> HIDE DEF ways, counter
<1>4. {w \in DOMAIN ways : \A x \in DOMAIN ways : ways[w].LRU <= ways[x].LRU}
        = {w \in Ways : \A v \in Ways : counter(w) <= counter(v)}
  BY <1>1, <1>2
<1>5. P4!EvictWay(ways) = Min({w \in Ways : \A v \in Ways : counter(w) <= counter(v)})
  BY <1>3, <1>4, SameMin DEF P4!EvictWay, P4!Oldest
<1> QED
  BY <1>5 DEF LRU_index, ways, counter, Ways

\* A miss in a full set takes the way of the least recently used line.
LEMMA AnswerEvict ==
    ASSUME BothInv, NEW a \in Line, NEW isStore \in BOOLEAN,
           Matching(a) = {}, Invalid(a) = {}
    PROVE  LET w == LRU_index(a)
           IN  /\ Answer(a, isStore).res = "MISS_EVICT"
               /\ Answer(a, isStore).evicted =
                    {P4!LineOf(main[SetIndex(a)][w].tag, SetIndex(a))}
               /\ Takes(Answer(a, isStore).arrays, a, w, isStore)
<1> DEFINE c == P4!Replace(P4!Arrays, a, isStore, now)
           w == LRU_index(a)
           out == P4!LineOf(main[SetIndex(a)][w].tag, SetIndex(a))
<1>1. w \in Ways
  BY VictimIsAWay DEF BothInv, CsimInv
<1>2. P4!EvictWay(main[SetIndex(a)]) = w
  BY SameVictim
<1> HIDE DEF w
<1>3. Answer(a, isStore) = [arrays |-> c, res |-> "MISS_EVICT", evicted |-> {out}]
  <2>1. Answer(a, isStore) = P4!MissEvict(c, out)
    <3> HIDE DEF c
    <3>1. ~(0 > 0) /\ P4!Arrays = [main |-> main, victim |-> victim]
      BY DEF P4!Arrays
    <3>2. out = P4!LineOf(main[SetIndex(a)][P4!EvictWay(main[SetIndex(a)])].tag, SetIndex(a))
      BY <1>2
    <3> HIDE DEF out
    <3> QED
      BY <3>1, <3>2, SameSearch DEF Answer, P4!Access, c
  <2> QED
    BY <2>1 DEF P4!MissEvict
<1>4. ~is_rrip
  BY DEF BothInv, PlainArrays
<1>5. c = [main |-> [main EXCEPT ![SetIndex(a)] =
                       [@ EXCEPT ![w] = P4!Fresh(TagOf(a), isStore, now)]],
           victim |-> victim]
  BY SameSearch, <1>2, <1>4 DEF P4!Replace, P4!Arrays, P4!Aged
<1> HIDE DEF c, out
<1>6. Takes(c, a, w, isStore)
  BY <1>1, <1>5, FreshInWay
<1>7. /\ Answer(a, isStore).res = "MISS_EVICT" /\ Answer(a, isStore).evicted = {out}
      /\ Answer(a, isStore).arrays = c
  BY ONLY <1>3
<1> QED
  BY <1>6, <1>7 DEF w, out

\* No way but w holds a.
OnlyWay(a, w) ==
    \A v \in Ways : v # w =>
        ~(cache[SetIndex(a)][v].valid_bit /\ cache[SetIndex(a)][v].tag = TagOf(a))

\* What lies in its place as before: on both sides, and in which order.
KeptAt(c, s, v) ==
    /\ cache'[s][v] = cache[s][v]
    /\ main'[s][v].valid = main[s][v].valid
    /\ main[s][v].valid =>
         /\ main'[s][v].tag = main[s][v].tag
         /\ main'[s][v].dirty = main[s][v].dirty
         /\ main[s][v].LRU \in P4!Stamps(c)
         /\ main[s][v].LRU < now
         /\ main'[s][v].LRU = RankIn(c, main[s][v].LRU)
         /\ main'[s][v].LRU < RankIn(c, now)
         /\ cache[s][v].LRU_counter < iteration

\* What was brought in or touched.
NewAt(c, a, w, d) ==
    LET s == SetIndex(a)
    IN  /\ cache'[s][w] = [valid_bit |-> TRUE, dirty_bit |-> d, tag |-> TagOf(a),
                           LRU_counter |-> iteration]
        /\ main'[s][w].valid /\ main'[s][w].tag = TagOf(a) /\ main'[s][w].dirty = d
        /\ main'[s][w].LRU = RankIn(c, now)

BothStep(c, a, w, d) ==
    /\ Holds(a, w, d) /\ NextLine
    /\ Takes(c, a, w, d) /\ P4!Store(c, now + 1)

\* Both sides take the line to the same way and leave the others.
LEMMA BothPlace ==
    ASSUME BothInv, NEW a \in Line, NEW w \in Ways, NEW d \in BOOLEAN, NEW c,
           BothStep(c, a, w, d)
    PROVE  /\ PlainArrays'
           /\ now' = RankIn(c, now + 1) /\ RankIn(c, now) < RankIn(c, now + 1)
           /\ NewAt(c, a, w, d)
           /\ \A s \in Sets, v \in Ways : ~(s = SetIndex(a) /\ v = w) => KeptAt(c, s, v)
<1> DEFINE set == SetIndex(a)
           block == [valid_bit |-> TRUE, dirty_bit |-> d, tag |-> TagOf(a),
                     LRU_counter |-> iteration]
<1>1. /\ CsimTypeOK /\ PlainArrays /\ c \in P4Arrays
      /\ Holds(a, w, d) /\ Takes(c, a, w, d) /\ P4!Store(c, now + 1)
  BY DEF BothInv, CsimInv, BothStep, Takes
<1>2. now \in Nat /\ now + 1 \in Nat /\ main \in [Sets -> [Ways -> P4!Entry]] /\ ~is_rrip
  BY <1>1 DEF PlainArrays
<1>3. set \in Sets
  BY SetOfLine
<1>4. cache' = [cache EXCEPT ![set][w] = block]
  BY <1>1 DEF Holds
<1>5. /\ main' \in [Sets -> [Ways -> P4!Entry]]
      /\ victim' \in [P4!VictimWay -> P4!Entry]
      /\ now' = RankIn(c, now + 1) /\ now' \in Nat
      /\ is_rrip' = is_rrip
      /\ \A s \in Sets, v \in Ways :
           /\ main'[s][v].valid = c.main[s][v].valid
           /\ c.main[s][v].valid =>
                /\ main'[s][v].tag = c.main[s][v].tag
                /\ main'[s][v].dirty = c.main[s][v].dirty
                /\ main'[s][v].LRU = RankIn(c, c.main[s][v].LRU)
  BY <1>1, <1>2, StoreMain
<1>6. PlainArrays'
  BY <1>2, <1>5 DEF PlainArrays
<1>7. /\ c.main[set][w].valid /\ c.main[set][w].tag = TagOf(a)
      /\ c.main[set][w].dirty = d /\ c.main[set][w].LRU = now
      /\ now \in P4!Stamps(c)
  BY <1>1, <1>3, StampsOf DEF Takes
<1>8. RankIn(c, now) < RankIn(c, now + 1)
  BY <1>1, <1>2, <1>7, RanksInOrder
<1> HIDE DEF block, set
<1>9. NewAt(c, a, w, d)
  <2>1. cache'[set][w] = block
    BY <1>1, <1>3, <1>4 DEF CsimTypeOK
  <2>2. main'[set][w].valid
    BY <1>3, <1>5, <1>7
  <2>3. /\ main'[set][w].tag = TagOf(a) /\ main'[set][w].dirty = d
        /\ main'[set][w].LRU = RankIn(c, now)
    BY <1>3, <1>5, <1>7
  <2> QED
    BY <2>1, <2>2, <2>3 DEF NewAt, block, set
<1>10. ASSUME NEW s \in Sets, NEW v \in Ways, ~(s = set /\ v = w)
       PROVE  KeptAt(c, s, v)
  <2>1. c.main[s][v] = main[s][v]
    BY <1>1, <1>10 DEF Takes, set
  <2>2. cache'[s][v] = cache[s][v]
    BY <1>1, <1>3, <1>4, <1>10 DEF CsimTypeOK
  <2>3. main'[s][v].valid = main[s][v].valid
    BY <1>5, <2>1
  <2>4. ASSUME main[s][v].valid
        PROVE  /\ main'[s][v].tag = main[s][v].tag
               /\ main'[s][v].dirty = main[s][v].dirty
               /\ main[s][v].LRU \in P4!Stamps(c)
               /\ main[s][v].LRU < now
               /\ main'[s][v].LRU = RankIn(c, main[s][v].LRU)
               /\ main'[s][v].LRU < RankIn(c, now)
               /\ cache[s][v].LRU_counter < iteration
    <3>1. /\ main'[s][v].tag = main[s][v].tag
          /\ main'[s][v].dirty = main[s][v].dirty
          /\ main'[s][v].LRU = RankIn(c, main[s][v].LRU)
      BY <1>5, <2>1, <2>4
    <3>2. main[s][v].LRU \in P4!Stamps(c)
      BY <1>1, <2>1, <2>4, StampsOf
    <3>3. main[s][v].LRU < now
      BY <2>4 DEF BothInv, UsedBefore
    <3>4. main[s][v].LRU \in Nat
      BY <1>2, EntryFields
    <3>5. RankIn(c, main[s][v].LRU) < RankIn(c, now)
      BY <1>1, <1>2, <3>2, <3>3, <3>4, RanksInOrder
    <3>6. cache[s][v].LRU_counter < iteration
      <4>1. cache[s][v].valid_bit
        BY <2>4 DEF BothInv, SameArrays, Sets, Ways
      <4> QED
        BY <4>1 DEF BothInv, UsedBefore
    <3> QED
      BY <3>1, <3>2, <3>3, <3>5, <3>6
  <2> QED
    BY <2>2, <2>3, <2>4 DEF KeptAt
<1> QED
  BY <1>5, <1>6, <1>8, <1>9, <1>10 DEF set

\* The new line is the last used on both sides, and all others keep their order.
LEMMA SameOrder ==
    ASSUME BothInv, NEW a \in Line, NEW w \in Ways, NEW d \in BOOLEAN, NEW c,
           BothStep(c, a, w, d),
           NEW s \in Sets, NEW v \in Ways, NEW t \in Sets, NEW x \in Ways,
           cache'[s][v].valid_bit, cache'[t][x].valid_bit
    PROVE  cache'[s][v].LRU_counter < cache'[t][x].LRU_counter
              <=> main'[s][v].LRU < main'[t][x].LRU
<1> DEFINE set == SetIndex(a)
           old(p, q) == ~(p = set /\ q = w)
<1>1. c \in P4Arrays /\ now \in Nat /\ iteration \in Nat /\ set \in Sets
  BY SetOfLine DEF BothStep, Takes, BothInv, PlainArrays, CsimInv, CsimTypeOK
<1>2. /\ NewAt(c, a, w, d)
      /\ \A p \in Sets, q \in Ways : old(p, q) => KeptAt(c, p, q)
  BY BothPlace
<1>3. RankIn(c, now) \in Nat
  BY <1>1, RanksInOrder
<1>4. ASSUME NEW p \in Sets, NEW q \in Ways, old(p, q), cache'[p][q].valid_bit
      PROVE  /\ cache'[p][q].LRU_counter = cache[p][q].LRU_counter
             /\ cache[p][q].LRU_counter \in Nat /\ cache[p][q].LRU_counter < iteration
             /\ cache[p][q].valid_bit
             /\ main[p][q].LRU \in Nat /\ main[p][q].LRU \in P4!Stamps(c)
             /\ main'[p][q].LRU = RankIn(c, main[p][q].LRU)
             /\ RankIn(c, main[p][q].LRU) \in Nat
             /\ RankIn(c, main[p][q].LRU) < RankIn(c, now)
  <2>1. KeptAt(c, p, q)
    BY <1>2, <1>4
  <2>2. cache'[p][q] = cache[p][q] /\ cache[p][q].valid_bit
    BY <1>4, <2>1 DEF KeptAt
  <2>3. cache[p][q] \in Block /\ main[p][q] \in P4!Entry
    BY DEF BothInv, CsimInv, CsimTypeOK, PlainArrays
  <2>4. main[p][q].valid
    BY <2>2 DEF BothInv, SameArrays, Sets, Ways
  <2>5. main[p][q].LRU \in Nat /\ RankIn(c, main[p][q].LRU) \in Nat
    BY <1>1, <2>3, EntryFields, RanksInOrder
  <2>6. cache[p][q].LRU_counter \in Nat
    BY <2>3 DEF Block
  <2> QED
    BY <2>1, <2>2, <2>4, <2>5, <2>6 DEF KeptAt
<1>5. ASSUME NEW p \in Sets, NEW q \in Ways, ~old(p, q)
      PROVE  cache'[p][q].LRU_counter = iteration /\ main'[p][q].LRU = RankIn(c, now)
  BY <1>2, <1>5 DEF NewAt
<1>6. CASE old(s, v) /\ old(t, x)
  <2>1. cache[s][v].LRU_counter < cache[t][x].LRU_counter
          <=> main[s][v].LRU < main[t][x].LRU
    BY <1>4, <1>6 DEF BothInv, SameArrays, Sets, Ways
  <2>2. main[s][v].LRU < main[t][x].LRU
          <=> RankIn(c, main[s][v].LRU) < RankIn(c, main[t][x].LRU)
    <3> DEFINE l == main[s][v].LRU
               m == main[t][x].LRU
    <3>1. l \in Nat /\ m \in Nat /\ l \in P4!Stamps(c)
      BY <1>4, <1>6
    <3> HIDE DEF l, m
    <3>2. l < m => RankIn(c, l) < RankIn(c, m)
      BY <1>1, <3>1, RanksInOrder
    <3>3. m <= l => RankIn(c, m) <= RankIn(c, l)
      BY <1>1, <3>1, RanksInOrder
    <3>4. RankIn(c, l) \in Nat /\ RankIn(c, m) \in Nat
      BY <1>1, <3>1, RanksInOrder
    <3>5. l < m <=> RankIn(c, l) < RankIn(c, m)
      BY <3>1, <3>2, <3>3, <3>4
    <3> QED
      BY <3>5 DEF l, m
  <2>3. /\ cache'[s][v].LRU_counter = cache[s][v].LRU_counter
        /\ cache'[t][x].LRU_counter = cache[t][x].LRU_counter
        /\ main'[s][v].LRU = RankIn(c, main[s][v].LRU)
        /\ main'[t][x].LRU = RankIn(c, main[t][x].LRU)
    BY <1>4, <1>6
  <2> QED
    BY <2>1, <2>2, <2>3
<1>7. CASE old(s, v) /\ ~old(t, x)
  <2>1. /\ cache'[s][v].LRU_counter < iteration
        /\ main'[s][v].LRU < RankIn(c, now)
    BY <1>4, <1>7
  <2>2. cache'[t][x].LRU_counter = iteration /\ main'[t][x].LRU = RankIn(c, now)
    BY <1>5, <1>7
  <2> QED
    BY <2>1, <2>2
<1>8. CASE ~old(s, v) /\ old(t, x)
  <2>1. /\ cache'[t][x].LRU_counter \in Nat /\ cache'[t][x].LRU_counter < iteration
        /\ main'[t][x].LRU \in Nat /\ main'[t][x].LRU < RankIn(c, now)
    BY <1>4, <1>8
  <2>2. cache'[s][v].LRU_counter = iteration /\ main'[s][v].LRU = RankIn(c, now)
    BY <1>5, <1>8
  <2> QED
    BY <1>1, <1>3, <2>1, <2>2
<1>9. CASE ~old(s, v) /\ ~old(t, x)
  <2>1. /\ cache'[s][v].LRU_counter = iteration /\ main'[s][v].LRU = RankIn(c, now)
        /\ cache'[t][x].LRU_counter = iteration /\ main'[t][x].LRU = RankIn(c, now)
    BY <1>5, <1>9
  <2> QED
    BY <1>1, <1>3, <2>1
<1> QED
  BY <1>6, <1>7, <1>8, <1>9

\* After an access both sides agree again.
LEMMA BothAgain ==
    ASSUME BothInv, NEW a \in Line, NEW w \in Ways, NEW d \in BOOLEAN, NEW c,
           BothStep(c, a, w, d), OnlyWay(a, w)
    PROVE  PlainArrays' /\ UsedBefore' /\ InOneWay' /\ SameArrays'
<1> DEFINE set == SetIndex(a)
           old(p, q) == ~(p = set /\ q = w)
<1>1. c \in P4Arrays /\ now \in Nat /\ iteration \in Nat /\ set \in Sets
      /\ iteration' = iteration + 1
  BY SetOfLine DEF BothStep, Takes, BothInv, PlainArrays, CsimInv, CsimTypeOK, NextLine
<1>2. /\ PlainArrays'
      /\ now' = RankIn(c, now + 1) /\ RankIn(c, now) < RankIn(c, now + 1)
      /\ NewAt(c, a, w, d)
      /\ \A p \in Sets, q \in Ways : old(p, q) => KeptAt(c, p, q)
  BY BothPlace
<1>3. RankIn(c, now) \in Nat /\ RankIn(c, now + 1) \in Nat
  BY <1>1, RanksInOrder
<1>4. ASSUME NEW s \in Sets, NEW v \in Ways
      PROVE  /\ cache[s][v] \in Block
             /\ main[s][v] \in P4!Entry /\ main[s][v].valid \in BOOLEAN
             /\ main'[s][v] \in P4!Entry /\ main'[s][v].valid \in BOOLEAN
             /\ cache[s][v].valid_bit = main[s][v].valid
  <2>1. cache[s][v] \in Block /\ main[s][v] \in P4!Entry /\ main'[s][v] \in P4!Entry
    BY <1>2 DEF BothInv, CsimInv, CsimTypeOK, PlainArrays
  <2>2. cache[s][v].valid_bit = main[s][v].valid
    BY DEF BothInv, SameArrays, Sets, Ways
  <2> QED
    BY <2>1, <2>2, EntryFields
<1>5. UsedBefore'
  <2> SUFFICES ASSUME NEW s \in Sets, NEW v \in Ways
               PROVE  /\ cache'[s][v].valid_bit => cache'[s][v].LRU_counter < iteration'
                      /\ main'[s][v].valid => main'[s][v].LRU < now'
    BY DEF UsedBefore
  <2>1. CASE old(s, v)
    <3>1. KeptAt(c, s, v)
      BY <1>2, <2>1
    <3>2. ASSUME cache'[s][v].valid_bit PROVE cache'[s][v].LRU_counter < iteration'
      <4>1. cache'[s][v] = cache[s][v] /\ main[s][v].valid
        BY <1>4, <3>1, <3>2 DEF KeptAt
      <4>2. cache[s][v].LRU_counter < iteration /\ cache[s][v].LRU_counter \in Nat
        BY <1>4, <3>1, <4>1 DEF KeptAt, Block
      <4> QED
        BY <1>1, <4>1, <4>2
    <3>3. ASSUME main'[s][v].valid PROVE main'[s][v].LRU < now'
      <4>1. main[s][v].valid
        BY <3>1, <3>3 DEF KeptAt
      <4>2. main'[s][v].LRU < RankIn(c, now) /\ main'[s][v].LRU \in Nat
        BY <1>4, <3>1, <4>1, EntryFields DEF KeptAt
      <4> QED
        BY <1>2, <1>3, <4>2
    <3> QED
      BY <3>2, <3>3
  <2>2. CASE ~old(s, v)
    <3>1. cache'[s][v].LRU_counter = iteration /\ main'[s][v].LRU = RankIn(c, now)
      BY <1>2, <2>2 DEF NewAt
    <3> QED
      BY <1>1, <1>2, <1>3, <3>1
  <2> QED
    BY <2>1, <2>2
<1>6. InOneWay'
  <2> SUFFICES ASSUME NEW s \in Sets, NEW v \in Ways, NEW x \in Ways,
                      cache'[s][v].valid_bit, cache'[s][x].valid_bit,
                      cache'[s][v].tag = cache'[s][x].tag
               PROVE  v = x
    BY DEF InOneWay
  <2>1. ASSUME NEW y \in Ways, NEW z \in Ways, old(s, y), ~old(s, z),
               cache'[s][y].valid_bit, cache'[s][y].tag = cache'[s][z].tag
        PROVE  FALSE
    <3>1. KeptAt(c, s, y)
      BY <1>2, <2>1
    <3>2. cache[s][y].valid_bit /\ cache[s][y].tag = cache'[s][z].tag
      BY <2>1, <3>1 DEF KeptAt
    <3>3. cache'[s][z].tag = TagOf(a) /\ s = set /\ y # w
      BY <1>2, <2>1 DEF NewAt
    <3> QED
      BY <3>2, <3>3 DEF OnlyWay
  <2>2. CASE old(s, v) /\ old(s, x)
    <3>1. KeptAt(c, s, v) /\ KeptAt(c, s, x)
      BY <1>2, <2>2
    <3>2. cache[s][v].valid_bit /\ cache[s][x].valid_bit /\ cache[s][v].tag = cache[s][x].tag
      BY <3>1 DEF KeptAt
    <3> QED
      BY <3>2 DEF BothInv, InOneWay
  <2>3. CASE ~old(s, v) /\ ~old(s, x)
    BY <2>3
  <2>4. CASE ~(old(s, v) <=> old(s, x))
    BY <2>1, <2>4
  <2> QED
    BY <2>2, <2>3, <2>4
<1>7. SameArrays'
  <2>1. ASSUME NEW s \in Sets, NEW v \in Ways
        PROVE  /\ cache'[s][v].valid_bit = main'[s][v].valid
               /\ cache'[s][v].valid_bit =>
                    /\ cache'[s][v].tag = main'[s][v].tag
                    /\ cache'[s][v].dirty_bit = main'[s][v].dirty
    <3>1. CASE old(s, v)
      <4>1. KeptAt(c, s, v)
        BY <1>2, <3>1
      <4>2. cache'[s][v].valid_bit = main'[s][v].valid
        BY <1>4, <4>1 DEF KeptAt
      <4>3. ASSUME cache'[s][v].valid_bit
            PROVE  /\ cache'[s][v].tag = main'[s][v].tag
                   /\ cache'[s][v].dirty_bit = main'[s][v].dirty
        <5>1. cache[s][v].valid_bit /\ main[s][v].valid
          BY <1>4, <4>1, <4>3 DEF KeptAt
        <5>2. cache[s][v].tag = main[s][v].tag /\ cache[s][v].dirty_bit = main[s][v].dirty
          BY <5>1 DEF BothInv, SameArrays, Sets, Ways
        <5> QED
          BY <4>1, <5>1, <5>2 DEF KeptAt
      <4> QED
        BY <4>2, <4>3
    <3>2. CASE ~old(s, v)
      <4>1. s = set /\ v = w
        BY <3>2
      <4>2. /\ cache'[s][v].valid_bit = TRUE /\ cache'[s][v].dirty_bit = d
            /\ cache'[s][v].tag = TagOf(a)
        BY <1>2, <4>1 DEF NewAt
      <4>3. main'[s][v].valid = TRUE /\ main'[s][v].tag = TagOf(a) /\ main'[s][v].dirty = d
        BY <1>2, <1>4, <4>1 DEF NewAt
      <4> QED
        BY <4>2, <4>3
    <3> QED
      BY <3>1, <3>2
  <2>2. ASSUME NEW s \in Sets, NEW v \in Ways, NEW t \in Sets, NEW x \in Ways,
               cache'[s][v].valid_bit, cache'[t][x].valid_bit
        PROVE  cache'[s][v].LRU_counter < cache'[t][x].LRU_counter
                  <=> main'[s][v].LRU < main'[t][x].LRU
    BY <2>2, SameOrder
  <2> QED
    BY <2>1, <2>2 DEF SameArrays, Sets, Ways
<1> QED
  BY <1>2, <1>5, <1>6, <1>7

-----------------------------------------------------------------------------
(* What is evicted.                                                        *)

\* A line is known by its tag and its set.
LEMMA LineOfParts ==
    ASSUME NEW tag \in Nat, NEW set \in Sets
    PROVE  /\ P4!LineOf(tag, set) % S = set
           /\ P4!LineOf(tag, set) \div S = tag
<1>1. S \in Nat /\ S > 0 /\ set \in Nat /\ set < S
  BY CsimAssumption DEF Sets
<1> QED
  BY <1>1, SMTT(30) DEF P4!LineOf

\* The dirty lines of cache-p4.
LEMMA DirtyLines ==
    ASSUME BothInv, NEW s \in Sets, NEW w \in Ways, cache[s][w].valid_bit
    PROVE  P4!LineOf(main[s][w].tag, s) \in P4Dirty <=> cache[s][w].dirty_bit
<1> DEFINE counts(e) == e.valid /\ e.dirty
           inSet(p) == {P4!LineOf(main[p][q].tag, p) : q \in {x \in Ways : counts(main[p][x])}}
           line == P4!LineOf(main[s][w].tag, s)
<1>1. P4Dirty = UNION {inSet(p) : p \in Sets}
  <2>1. P4!Arrays = [main |-> main, victim |-> victim]
    BY DEF P4!Arrays
  <2> QED
    BY <2>1, P4Geometry DEF P4Dirty, P4!HeldWhere, P4!Held, Sets
<1>2. ASSUME NEW p \in Sets, NEW q \in Ways
      PROVE  /\ cache[p][q].valid_bit = main[p][q].valid
             /\ main[p][q].tag \in Nat /\ main[p][q].valid \in BOOLEAN
             /\ main[p][q].dirty \in BOOLEAN
             /\ cache[p][q].valid_bit => /\ cache[p][q].tag = main[p][q].tag
                                         /\ cache[p][q].dirty_bit = main[p][q].dirty
  <2>1. main[p][q] \in P4!Entry
    BY DEF BothInv, PlainArrays
  <2> QED
    BY <2>1, EntryFields DEF BothInv, SameArrays, Sets, Ways
<1>3. ASSUME line \in P4Dirty PROVE cache[s][w].dirty_bit
  <2>1. PICK p \in Sets, q \in Ways : counts(main[p][q]) /\ line = P4!LineOf(main[p][q].tag, p)
    BY <1>1, <1>3
  <2>2. p = s /\ main[p][q].tag = main[s][w].tag
    BY <1>2, <2>1, LineOfParts
  <2>3. cache[s][q].valid_bit /\ cache[s][q].tag = cache[s][w].tag
    BY <1>2, <2>1, <2>2
  <2>4. q = w
    BY <2>3 DEF BothInv, InOneWay
  <2> QED
    BY <1>2, <2>1, <2>2, <2>4
<1>4. ASSUME cache[s][w].dirty_bit PROVE line \in P4Dirty
  <2>1. counts(main[s][w])
    BY <1>2, <1>4
  <2>2. line \in inSet(s)
    BY <2>1
  <2> QED
    BY <1>1, <2>2
<1> QED
  BY <1>3, <1>4

-----------------------------------------------------------------------------
(* One lemma for each outcome of an access.                                *)

\* The answer of cache-p4 is what csim counts.
AnswersAgree ==
    /\ result'.res = "HIT" <=> stats'.hits = stats.hits + 1
    /\ result'.res = "MISS_EVICT" <=> stats'.evictions = stats.evictions + 1
    /\ stats'.dirty_evictions = stats.dirty_evictions
         + IF result'.evicted \cap P4Dirty = {} THEN 0 ELSE B

AgreeAgain == PlainArrays' /\ UsedBefore' /\ InOneWay' /\ SameArrays' /\ AnswersAgree

\* A hit.
LEMMA BothHit ==
    ASSUME BothInv, NEW a \in Line, NEW isStore \in BOOLEAN,
           IF isStore THEN StoreHit(a) ELSE LoadHit(a),
           P4Access(a, isStore)
    PROVE  AgreeAgain
<1> DEFINE w == Min(Matching(a))
           d == IF isStore THEN TRUE ELSE cache[SetIndex(a)][w].dirty_bit
           old == main[SetIndex(a)][w].dirty
           c == Answer(a, isStore).arrays
<1>1. /\ NextLine /\ Matching(a) # {} /\ Holds(a, w, d)
      /\ stats'.hits = stats.hits + 1
      /\ stats'.evictions = stats.evictions
      /\ stats'.dirty_evictions = stats.dirty_evictions
  <2>1. CASE isStore
    BY <2>1 DEF StoreHit, BothInv, CsimInv, CsimTypeOK
  <2>2. CASE ~isStore
    BY <2>2 DEF LoadHit, BothInv, CsimInv, CsimTypeOK
  <2> QED
    BY <2>1, <2>2
<1>2. w \in Ways /\ cache[SetIndex(a)][w].valid_bit /\ SetIndex(a) \in Sets
      /\ cache[SetIndex(a)][w].tag = TagOf(a)
  <2>1. Matching(a) \subseteq Ways
    BY DEF Matching, Ways
  <2>2. w \in Matching(a)
    BY <1>1, <2>1, FirstOf
  <2> QED
    BY <2>1, <2>2, SetOfLine DEF Matching
<1>3. /\ P4!Store(c, now + 1)
      /\ result' = [res |-> Answer(a, isStore).res, evicted |-> Answer(a, isStore).evicted]
  BY DEF P4Access, Answer
<1>4. /\ Answer(a, isStore).res = "HIT" /\ Answer(a, isStore).evicted = {}
      /\ Takes(c, a, w, old \/ isStore)
  BY <1>1, AnswerHit
<1> HIDE DEF w, c
<1>5. OnlyWay(a, w)
  BY <1>2 DEF OnlyWay, BothInv, InOneWay
<1>6. old = cache[SetIndex(a)][w].dirty_bit /\ old \in BOOLEAN
  <2>1. main[SetIndex(a)][w] \in P4!Entry
    BY <1>2 DEF BothInv, PlainArrays
  <2>2. old = cache[SetIndex(a)][w].dirty_bit
    BY <1>2 DEF BothInv, SameArrays, Sets, Ways
  <2> QED
    BY <2>1, <2>2, EntryFields
<1>7. (old \/ isStore) = d /\ d \in BOOLEAN
  BY <1>6
<1>8. Takes(c, a, w, d)
  <2> DEFINE e == old \/ isStore
  <2>1. e = d /\ Takes(c, a, w, e)
    BY <1>4, <1>7
  <2> HIDE DEF e, d
  <2> QED
    BY <2>1
<1> HIDE DEF d
<1>9. PlainArrays' /\ UsedBefore' /\ InOneWay' /\ SameArrays'
  BY <1>1, <1>2, <1>3, <1>5, <1>7, <1>8, BothAgain DEF BothStep
<1>10. result'.res = "HIT" /\ result'.evicted = {}
  BY <1>3, <1>4
<1>11. stats.hits \in Nat /\ stats.evictions \in Nat /\ stats.dirty_evictions \in Nat
  BY DEF BothInv, CsimInv, CsimTypeOK
<1>12. AnswersAgree
  BY <1>1, <1>10, <1>11 DEF AnswersAgree
<1> QED
  BY <1>9, <1>12 DEF AgreeAgain

\* A miss that finds a free way.
LEMMA BothMiss ==
    ASSUME BothInv, NEW a \in Line, NEW isStore \in BOOLEAN,
           IF isStore THEN StoreMiss(a) ELSE LoadMiss(a),
           P4Access(a, isStore)
    PROVE  AgreeAgain
<1> DEFINE w == Min(Invalid(a))
           c == Answer(a, isStore).arrays
<1>1. /\ NextLine /\ Matching(a) = {} /\ Invalid(a) # {} /\ Holds(a, w, isStore)
      /\ stats'.hits = stats.hits
      /\ stats'.evictions = stats.evictions
      /\ stats'.dirty_evictions = stats.dirty_evictions
  <2>1. CASE isStore = TRUE
    BY <2>1 DEF StoreMiss, BothInv, CsimInv, CsimTypeOK
  <2>2. CASE isStore = FALSE
    BY <2>2 DEF LoadMiss, BothInv, CsimInv, CsimTypeOK
  <2> QED
    BY <2>1, <2>2
<1>2. w \in Ways
  BY <1>1, FreeIsInvalid DEF BothInv, CsimInv
<1>3. /\ P4!Store(c, now + 1)
      /\ result' = [res |-> Answer(a, isStore).res, evicted |-> Answer(a, isStore).evicted]
  BY DEF P4Access, Answer
<1>4. /\ Answer(a, isStore).res = "MISS" /\ Answer(a, isStore).evicted = {}
      /\ Takes(c, a, w, isStore)
  BY <1>1, AnswerMiss
<1> HIDE DEF w, c
<1>5. OnlyWay(a, w)
  BY <1>1 DEF OnlyWay, Matching, Ways
<1>6. PlainArrays' /\ UsedBefore' /\ InOneWay' /\ SameArrays'
  BY <1>1, <1>2, <1>3, <1>4, <1>5, BothAgain DEF BothStep
<1>7. result'.res = "MISS" /\ result'.evicted = {}
  BY <1>3, <1>4
<1>8. stats.hits \in Nat /\ stats.evictions \in Nat /\ stats.dirty_evictions \in Nat
  BY DEF BothInv, CsimInv, CsimTypeOK
<1>9. AnswersAgree
  BY <1>1, <1>7, <1>8 DEF AnswersAgree
<1> QED
  BY <1>6, <1>9 DEF AgreeAgain

\* A miss in a full set.
LEMMA BothEvict ==
    ASSUME BothInv, NEW a \in Line, NEW isStore \in BOOLEAN,
           IF isStore THEN StoreEvict(a) ELSE LoadEvict(a),
           P4Access(a, isStore)
    PROVE  AgreeAgain
<1> DEFINE w == LRU_index(a)
           c == Answer(a, isStore).arrays
           out == P4!LineOf(main[SetIndex(a)][w].tag, SetIndex(a))
           d == cache[SetIndex(a)][w].dirty_bit
<1>1. /\ NextLine /\ Matching(a) = {} /\ Invalid(a) = {} /\ Holds(a, w, isStore)
      /\ stats'.hits = stats.hits
      /\ stats'.evictions = stats.evictions + 1
      /\ stats'.dirty_evictions = stats.dirty_evictions + DirtyBytes(a, w)
  <2>1. CASE isStore = TRUE
    BY <2>1 DEF StoreEvict, BothInv, CsimInv, CsimTypeOK
  <2>2. CASE isStore = FALSE
    BY <2>2 DEF LoadEvict, BothInv, CsimInv, CsimTypeOK
  <2> QED
    BY <2>1, <2>2
<1>2. w \in Ways /\ cache[SetIndex(a)][w].valid_bit /\ SetIndex(a) \in Sets
  BY <1>1, VictimIsValid, SetOfLine DEF BothInv, CsimInv
<1>3. /\ P4!Store(c, now + 1)
      /\ result' = [res |-> Answer(a, isStore).res, evicted |-> Answer(a, isStore).evicted]
  BY DEF P4Access, Answer
<1>4. /\ Answer(a, isStore).res = "MISS_EVICT" /\ Answer(a, isStore).evicted = {out}
      /\ Takes(c, a, w, isStore)
  BY <1>1, AnswerEvict
<1>5. DirtyBytes(a, w) = IF d THEN B ELSE 0
  BY DEF DirtyBytes
<1> HIDE DEF w, c
<1>6. out \in P4Dirty <=> d
  BY <1>2, DirtyLines
<1> HIDE DEF out, d
<1>7. OnlyWay(a, w)
  BY <1>1 DEF OnlyWay, Matching, Ways
<1>8. PlainArrays' /\ UsedBefore' /\ InOneWay' /\ SameArrays'
  BY <1>1, <1>2, <1>3, <1>4, <1>7, BothAgain DEF BothStep
<1>9. result'.res = "MISS_EVICT" /\ result'.evicted = {out}
  BY <1>3, <1>4
<1>10. stats.hits \in Nat /\ stats.evictions \in Nat /\ stats.dirty_evictions \in Nat
       /\ B \in Nat
  BY CsimAssumption DEF BothInv, CsimInv, CsimTypeOK
<1>11. AnswersAgree
  <2>1. result'.evicted \cap P4Dirty = {} <=> ~d
    BY <1>6, <1>9
  <2> QED
    BY <1>1, <1>5, <1>9, <1>10, <2>1 DEF AnswersAgree
<1> QED
  BY <1>8, <1>11 DEF AgreeAgain

-----------------------------------------------------------------------------
(* The invariant of both, and what every step shows.                       *)

\* A step of both is one of csim.
LEMMA CsimStepOfBoth == [BothNext]_bothVars => [CsimNext]_csimVars
  BY DEF BothNext, CsimNext, bothVars, csimVars

\* The property of a step.
StepAgrees == SameArrays' /\ (<<cache, stats>>' # <<cache, stats>> => AnswersAgree)

\* Every step keeps both alike.
LEMMA BothInvStep == BothInv /\ [BothNext]_bothVars => BothInv' /\ StepAgrees
<1> SUFFICES ASSUME BothInv, [BothNext]_bothVars PROVE BothInv' /\ StepAgrees
  OBVIOUS
<1>1. CsimInv'
  BY CsimStepOfBoth, CsimInvStep DEF BothInv
<1>2. ASSUME NEW a \in Line, load(a), P4Access(a, FALSE) PROVE AgreeAgain
  BY <1>2, BothHit, BothMiss, BothEvict DEF load
<1>3. ASSUME NEW a \in Line, store(a), P4Access(a, TRUE) PROVE AgreeAgain
  BY <1>3, BothHit, BothMiss, BothEvict DEF store
<1>4. CASE AgreeAgain
  BY <1>1, <1>4 DEF AgreeAgain, BothInv, StepAgrees
<1>5. CASE OtherOp /\ UNCHANGED <<is_rrip, main, victim, result, now>>
  <2>1. /\ UNCHANGED <<cache, stats, is_rrip, main, victim, result, now>>
        /\ iteration' = iteration + 1
    BY <1>5 DEF OtherOp, NextLine
  <2>2. PlainArrays' /\ InOneWay' /\ SameArrays'
    BY <2>1 DEF BothInv, PlainArrays, InOneWay, SameArrays
  <2>3. UsedBefore'
    <3>1. \A s \in Sets, w \in Ways : cache[s][w].LRU_counter \in Nat
      BY DEF BothInv, CsimInv, CsimTypeOK, Block
    <3>2. iteration \in Nat
      BY DEF BothInv, CsimInv, CsimTypeOK
    <3> QED
      BY <2>1, <3>1, <3>2 DEF BothInv, UsedBefore
  <2> QED
    BY <1>1, <2>1, <2>2, <2>3 DEF BothInv, StepAgrees
<1>6. CASE UNCHANGED bothVars
  <2>1. UNCHANGED <<cache, stats, iteration, is_rrip, main, victim, result, now>>
    BY <1>6 DEF bothVars, csimVars
  <2>2. PlainArrays' /\ InOneWay' /\ SameArrays' /\ UsedBefore'
    BY <2>1 DEF BothInv, PlainArrays, InOneWay, SameArrays, UsedBefore
  <2> QED
    BY <1>1, <2>1, <2>2 DEF BothInv, StepAgrees
<1> QED
  BY <1>2, <1>3, <1>4, <1>5, <1>6 DEF BothNext

\* cache-p4 without victim cache and with LRU is csim as a component
\* (cache-p4/cache.c:306-470, csim.c:116-292): on every trace and for any geometry it
\* hits and evicts when csim does, takes out the same lines equally dirty, and holds
\* the same lines in the same ways, used in the same order.
THEOREM CachesAgree == BothSpec => SameAsP4
<1>1. BothInv /\ [BothNext]_bothVars => [StepAgrees]_bothVars
  BY BothInvStep
<1>2. [StepAgrees]_bothVars
        => [/\ SameArrays'
            /\ <<cache, stats>>' # <<cache, stats>> =>
                 /\ result'.res = "HIT" <=> stats'.hits = stats.hits + 1
                 /\ result'.res = "MISS_EVICT" <=> stats'.evictions = stats.evictions + 1
                 /\ stats'.dirty_evictions = stats.dirty_evictions
                      + IF result'.evicted \cap P4Dirty = {} THEN 0 ELSE B]_bothVars
  BY DEF StepAgrees, AnswersAgree
<1> QED
  BY BothInvInit, BothInvStep, <1>1, <1>2, PTL DEF BothSpec, SameAsP4

\* Nor do the statistics depend on running beside it.
THEOREM StatisticsRightBeside == BothSpec => []StatsMatchContents
<1>1. BothSpec => CsimSpec
  BY CsimStepOfBoth, PTL DEF BothSpec, BothInit, CsimSpec
<1> QED
  BY <1>1, StatisticsRight, PTL
=============================================================================
