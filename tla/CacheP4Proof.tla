---------------------------- MODULE CacheP4Proof ----------------------------
(***************************************************************************)
(* Proofs about CacheP4, the cache with tag arrays in front of coherence,  *)
(* bus and memory: for any geometry of the arrays, any delays, any number  *)
(* of accesses outstanding and all five schemes.                           *)
(*                                                                         *)
(* The queue is between two records of the same lines: the arrays, which    *)
(* are updated when an access comes, and coherence, which is told one       *)
(* request at a time. The invariant P4Inv has four parts:                  *)
(*                                                                         *)
(*   ArrayInv  the tag arrays (the first part below)                       *)
(*   Below     types; the memory works in step with the bus, and with one   *)
(*             processor no line ever comes from another cache             *)
(*   Link      the request that has been sent, and it alone, is below: its  *)
(*             line waits, or has been given up and its data is on the bus *)
(*   Asked     the queue leads from coherence to the arrays (QueueOK): the  *)
(*             last request for a line tells whether the arrays have it,   *)
(*             and a line is given up only after it has been granted       *)
(***************************************************************************)
EXTENDS CacheP4, CoherenceProof, FiniteSetTheorems, WellFoundedInduction, TLAPS

-----------------------------------------------------------------------------
(***************************************************************************)
(* The tag arrays are a set of lines: proofs about CacheArray, for any     *)
(* number of sets, ways and victim entries, and under both policies.       *)
(*                                                                         *)
(* First, what an access does is stated as one of five effects (a hit, a    *)
(* swap, a fill, a demotion, a replacement) that say which way holds the    *)
(* new line, which line left it and where that went, and nothing of how the *)
(* way was chosen. Then each effect is shown to preserve Good, the          *)
(* inductive invariant: a line is in one place at most, victims belong to   *)
(* full sets and are older than the lines of their set. Renumbering the     *)
(* stamps preserves it because ranks keep the order of stamps. The last     *)
(* part follows each effect in the set of lines held, and maps it to a step *)
(* of LineStore.                                                           *)
(***************************************************************************)

\* A line is the pair of its set and its tag.
LEMMA LineParts ==
    ASSUME NEW line \in Nat
    PROVE  /\ Set(line) \in 0 .. S - 1
           /\ Tag(line) \in Nat
           /\ LineOf(Tag(line), Set(line)) = line
  BY GeometryAssumption DEF Set, Tag, LineOf

\* And a set and a tag make a line.
LEMMA TagOfLine ==
    ASSUME NEW tag \in Nat, NEW set \in 0 .. S - 1
    PROVE  /\ LineOf(tag, set) \in Nat
           /\ Set(LineOf(tag, set)) = set
           /\ Tag(LineOf(tag, set)) = tag
  BY GeometryAssumption, SMTT(30) DEF Set, Tag, LineOf

\* The smallest of some numbers is one of them.
LEMMA MinOfNumbers ==
    ASSUME NEW T \in SUBSET Nat, T # {}
    PROVE  Min(T) \in T /\ \A t \in T : Min(T) <= t
<1> DEFINE less == OpToRel(<, Nat)
<1>1. PICK m \in T : \A t \in T : <<t, m>> \notin less
  BY WFMin, NatLessThanWellFounded
<1>2. \A t \in T : ~(t < m)
  BY <1>1 DEF OpToRel
<1>3. \A t \in T : m <= t
  BY <1>2
<1> QED
  BY <1>1, <1>3 DEF Min

\* So is the greatest of some numbers below a bound.
LEMMA MaxOfNumbers ==
    ASSUME NEW n \in Nat, NEW T \in SUBSET (0 .. n), T # {}
    PROVE  Max(T) \in T /\ \A t \in T : Max(T) >= t
<1> DEFINE mirror == {n - t : t \in T}
<1>1. mirror \in SUBSET Nat /\ mirror # {}
  <2>1. \A t \in T : n - t \in Nat
    OBVIOUS
  <2> QED
    BY <2>1
<1>2. Min(mirror) \in mirror /\ \A u \in mirror : Min(mirror) <= u
  BY <1>1, MinOfNumbers
<1>3. PICK m \in T : Min(mirror) = n - m
  BY <1>2
<1>4. \A t \in T : n - m <= n - t
  BY <1>2, <1>3
<1>5. \A t \in T : m >= t
  BY <1>4
<1> QED
  BY <1>5 DEF Max

\* Sets have ways, and the victim cache has some if it is configured.
LEMMA WaysAreNumbers ==
    /\ Way \subseteq Nat /\ Way # {}
    /\ VictimWay \subseteq Nat /\ (victim_i > 0 => VictimWay # {})
<1>1. 0 \in Way /\ (victim_i > 0 => 0 \in VictimWay)
  BY GeometryAssumption DEF Way, VictimWay
<1> QED
  BY <1>1, GeometryAssumption DEF Way, VictimWay

-----------------------------------------------------------------------------
(* The choice of a way.                                                    *)

\* The way of a hit has the line.
LEMMA HitWay ==
    ASSUME NEW D \in SUBSET Nat, NEW ways \in [D -> Entry], NEW tag, Hits(ways, tag) # {}
    PROVE  LET w == Min(Hits(ways, tag)) IN w \in D /\ ways[w].valid /\ ways[w].tag = tag
  BY MinOfNumbers DEF Hits

\* The free way that is taken is free.
LEMMA FreeWay ==
    ASSUME NEW D \in SUBSET Nat, NEW ways \in [D -> Entry], Free(ways) # {}
    PROVE  LET w == Min(Free(ways)) IN w \in D /\ ~ways[w].valid
  BY MinOfNumbers DEF Free

\* The oldest way was used no later than any other.
LEMMA OldestWay ==
    ASSUME NEW D \in SUBSET Nat, D # {}, NEW ways \in [D -> Entry]
    PROVE  Oldest(ways) \in D /\ \A x \in D : ways[Oldest(ways)].LRU <= ways[x].LRU
<1> DEFINE stamps == {ways[w].LRU : w \in D}
           oldest == {w \in D : \A x \in D : ways[w].LRU <= ways[x].LRU}
<1>1. stamps \in SUBSET Nat /\ stamps # {}
  BY ZenonT(40) DEF Entry
<1>2. Min(stamps) \in stamps /\ \A t \in stamps : Min(stamps) <= t
  BY <1>1, MinOfNumbers
<1>3. oldest # {}
  <2>1. PICK w \in D : Min(stamps) = ways[w].LRU
    BY <1>2
  <2>2. \A x \in D : ways[x].LRU \in stamps
    OBVIOUS
  <2>3. w \in oldest
    BY <1>2, <2>1, <2>2
  <2> QED
    BY <2>3
<1>4. Min(oldest) \in oldest
  BY <1>3, MinOfNumbers
<1>5. Oldest(ways) = Min(oldest)
  BY DEF Oldest
<1> QED
  BY <1>4, <1>5

\* Ageing changes predictions only.
LEMMA AgedEffect ==
    ASSUME NEW ways \in [Way -> Entry]
    PROVE  /\ Aged(ways) \in [Way -> Entry]
           /\ \A w \in Way : /\ Aged(ways)[w].valid = ways[w].valid
                             /\ Aged(ways)[w].dirty = ways[w].dirty
                             /\ Aged(ways)[w].tag = ways[w].tag
                             /\ Aged(ways)[w].LRU = ways[w].LRU
           /\ is_rrip => \E w \in Way : Aged(ways)[w].RRPV = R
<1>1. CASE ~is_rrip
  BY <1>1 DEF Aged
<1>2. CASE is_rrip
  <2> DEFINE values == {ways[w].RRPV : w \in Way}
             furthest == Max(values)
  <2>1. values \in SUBSET (0 .. R) /\ values # {}
    BY WaysAreNumbers, ZenonT(40) DEF Entry
  <2>2. furthest \in values /\ \A t \in values : furthest >= t
    BY <2>1, MaxOfNumbers, RripAssumption
  <2>3. PICK top \in Way : furthest = ways[top].RRPV
    BY <2>2
  <2>4. furthest \in 0 .. R /\ \A w \in Way : ways[w].RRPV \in 0 .. furthest
    BY <2>1, <2>2 DEF Entry
  <2> HIDE DEF furthest
  <2>5. Aged(ways) = [w \in Way |-> [ways[w] EXCEPT !.RRPV = @ + (R - furthest)]]
    BY <1>2 DEF Aged, furthest
  <2>6. \A w \in Way : ways[w].RRPV + (R - furthest) \in 0 .. R
    BY <2>4, RripAssumption
  <2>7. ways[top].RRPV + (R - furthest) = R
    BY <2>3, <2>4, RripAssumption
  <2>8. \A w \in Way : [ways[w] EXCEPT !.RRPV = @ + (R - furthest)] \in Entry
    BY <2>6 DEF Entry
  <2>9. Aged(ways)[top].RRPV = R
    BY <2>5, <2>7 DEF Entry
  <2>10. Aged(ways) \in [Way -> Entry]
    BY <2>5, <2>8
  <2> QED
    BY <2>5, <2>9, <2>10 DEF Entry
<1> QED
  BY <1>1, <1>2

\* The way that is given up is one of the set, under LRU the oldest.
LEMMA EvictedWay ==
    ASSUME NEW ways \in [Way -> Entry]
    PROVE  /\ EvictWay(ways) \in Way
           /\ ~is_rrip => \A x \in Way : ways[EvictWay(ways)].LRU <= ways[x].LRU
<1>1. CASE ~is_rrip
  BY <1>1, OldestWay, WaysAreNumbers DEF EvictWay
<1>2. CASE is_rrip
  <2>1. {w \in Way : Aged(ways)[w].RRPV = R} # {}
    BY <1>2, AgedEffect
  <2>2. Min({w \in Way : Aged(ways)[w].RRPV = R}) \in Way
    BY <2>1, MinOfNumbers, WaysAreNumbers
  <2> QED
    BY <1>2, <2>2 DEF EvictWay
<1> QED
  BY <1>1, <1>2

-----------------------------------------------------------------------------
(* What an access does to the arrays, whatever way it takes.               *)

ArraysType == [main : [0 .. S - 1 -> [Way -> Entry]], victim : [VictimWay -> Entry]]

SameLine(e, f) == e.valid = f.valid /\ e.dirty = f.dirty /\ e.tag = f.tag /\ e.LRU = f.LRU

\* In d the line is in way w of its set, used at time "now"; the other ways of all
\* sets are those of c.
Placed(c, d, line, w, dirty, now) ==
    LET set == Set(line)
    IN /\ d \in ArraysType
       /\ d.main[set][w].valid
       /\ d.main[set][w].tag = Tag(line)
       /\ d.main[set][w].dirty = dirty
       /\ d.main[set][w].LRU = now
       /\ \A s \in 0 .. S - 1, x \in Way :
            s # set \/ x # w => SameLine(d.main[s][x], c.main[s][x])

\* In d the line that c has in way w of the set is in way v of the victim cache.
MovedOut(c, d, set, w, v) ==
    /\ v \in VictimWay
    /\ d.victim[v].valid = c.main[set][w].valid
    /\ d.victim[v].dirty = c.main[set][w].dirty
    /\ d.victim[v].tag = LineOf(c.main[set][w].tag, set)
    /\ d.victim[v].LRU = c.main[set][w].LRU
    /\ \A x \in VictimWay \ {v} : d.victim[x] = c.victim[x]

\* So of the other ways, which are all that the other lines depend on.
OnlyWay(c, d, line, w) ==
    /\ d.main[Set(line)][w].tag = Tag(line)
    /\ \A s \in 0 .. S - 1, x \in Way :
         s # Set(line) \/ x # w => SameLine(d.main[s][x], c.main[s][x])

Full(c, set) == \A w \in Way : c.main[set][w].valid
InSet(c, line)    == \E w \in Way : c.main[Set(line)][w].valid /\ c.main[Set(line)][w].tag = Tag(line)
InVictim(c, line) == \E v \in VictimWay : c.victim[v].valid /\ c.victim[v].tag = line

\* Under LRU the way given up is one used no later than any other of the set.
GivenUp(c, set, w) ==
    ~is_rrip => \A x \in Way : c.main[set][w].LRU <= c.main[set][x].LRU

\* The five effects.
HitEffect(c, d, line, isStore, now) ==
    \E w \in Way :
        /\ c.main[Set(line)][w].valid
        /\ c.main[Set(line)][w].tag = Tag(line)
        /\ Placed(c, d, line, w, c.main[Set(line)][w].dirty \/ isStore, now)
        /\ d.victim = c.victim

SwapEffect(c, d, line, isStore, now) ==
    \E w \in Way, v \in VictimWay :
        /\ c.victim[v].valid
        /\ c.victim[v].tag = line
        /\ Placed(c, d, line, w, c.victim[v].dirty \/ isStore, now)
        /\ GivenUp(c, Set(line), w)
        /\ MovedOut(c, d, Set(line), w, v)

FillEffect(c, d, line, isStore, now) ==
    \E w \in Way :
        /\ ~c.main[Set(line)][w].valid
        /\ Placed(c, d, line, w, isStore, now)
        /\ d.victim = c.victim

DemoteEffect(c, d, line, isStore, now, v) ==
    \E w \in Way :
        /\ Full(c, Set(line))
        /\ Placed(c, d, line, w, isStore, now)
        /\ GivenUp(c, Set(line), w)
        /\ MovedOut(c, d, Set(line), w, v)

ReplaceEffect(c, d, line, isStore, now, out) ==
    \E w \in Way :
        /\ Full(c, Set(line))
        /\ Placed(c, d, line, w, isStore, now)
        /\ out = LineOf(c.main[Set(line)][w].tag, Set(line))
        /\ d.victim = c.victim

\* What a use does to an entry.
LEMMA TouchedEntry ==
    ASSUME NEW entry \in Entry, NEW isStore \in BOOLEAN, NEW now \in Nat
    PROVE  LET e == Touched(entry, isStore, now)
           IN /\ e \in Entry /\ e.valid = entry.valid /\ e.tag = entry.tag /\ e.LRU = now
              /\ e.dirty = (entry.dirty \/ isStore)
<1>1. (entry.dirty \/ isStore) \in BOOLEAN /\ 0 \in 0 .. R
  BY RripAssumption
<1> DEFINE dirty == entry.dirty \/ isStore
<1>2. dirty \in BOOLEAN
  BY <1>1
<1>3. Touched(entry, isStore, now) = [entry EXCEPT !.LRU = now, !.dirty = dirty, !.RRPV = 0]
  BY DEF Touched
<1> HIDE DEF dirty
<1>4. LET e == Touched(entry, isStore, now)
      IN /\ e \in Entry /\ e.valid = entry.valid /\ e.tag = entry.tag /\ e.LRU = now
         /\ e.dirty = dirty
  BY <1>1, <1>2, <1>3 DEF Entry
<1> QED
  BY <1>4 DEF dirty

\* One way of a set is given a new entry, and the rest of the set is aged or not.
LEMMA PlaceOne ==
    ASSUME NEW c \in ArraysType, NEW d, NEW line \in Nat, NEW w \in Way, NEW e \in Entry,
           NEW ways \in [Way -> Entry], NEW dirty, NEW now,
           \A x \in Way : SameLine(ways[x], c.main[Set(line)][x]),
           d.victim \in [VictimWay -> Entry],
           d = [main |-> [c.main EXCEPT ![Set(line)] = [ways EXCEPT ![w] = e]],
                victim |-> d.victim],
           e.valid = TRUE, e.tag = Tag(line), e.LRU = now, e.dirty = dirty
    PROVE  Placed(c, d, line, w, dirty, now)
<1> DEFINE set == Set(line)
<1>1. set \in 0 .. S - 1 /\ c.main \in [0 .. S - 1 -> [Way -> Entry]]
  BY LineParts DEF ArraysType
<1>2. d.main = [c.main EXCEPT ![set] = [ways EXCEPT ![w] = e]]
  OBVIOUS
<1>3. [ways EXCEPT ![w] = e] \in [Way -> Entry]
  OBVIOUS
<1>4. d.main \in [0 .. S - 1 -> [Way -> Entry]]
  BY <1>1, <1>2, <1>3
<1>5. d \in ArraysType
  BY <1>4 DEF ArraysType
<1>6. d.main[set] = [ways EXCEPT ![w] = e]
  BY <1>1, <1>2
<1>7. d.main[set][w] = e
  BY <1>6
<1>8. ASSUME NEW s \in 0 .. S - 1, NEW x \in Way, s # set \/ x # w
      PROVE  SameLine(d.main[s][x], c.main[s][x])
  <2>1. CASE s # set
    BY <1>1, <1>2, <2>1 DEF SameLine
  <2>2. CASE s = set
    <3>1. x # w
      BY <1>8, <2>2
    <3>2. d.main[set][x] = ways[x]
      BY <1>6, <3>1
    <3> QED
      BY <2>2, <3>2
  <2> QED
    BY <2>1, <2>2
<1> QED
  BY <1>5, <1>7, <1>8 DEF Placed

\* What the fields of the arrays are.
LEMMA FieldsOf ==
    ASSUME NEW c \in ArraysType
    PROVE  /\ \A s \in 0 .. S - 1, w \in Way :
                /\ c.main[s][w].valid \in BOOLEAN
                /\ c.main[s][w].dirty \in BOOLEAN
                /\ c.main[s][w].tag \in Nat
                /\ c.main[s][w].LRU \in Nat
           /\ \A v \in VictimWay :
                /\ c.victim[v].valid \in BOOLEAN
                /\ c.victim[v].dirty \in BOOLEAN
                /\ c.victim[v].tag \in Nat
                /\ c.victim[v].LRU \in Nat
<1>1. \A s \in 0 .. S - 1, w \in Way : c.main[s][w] \in Entry
  BY DEF ArraysType
<1>2. \A v \in VictimWay : c.victim[v] \in Entry
  BY DEF ArraysType
<1> QED
  BY <1>1, <1>2 DEF Entry

\* A hit in the set.
LEMMA HitIs ==
    ASSUME NEW c \in ArraysType, NEW line \in Nat, NEW isStore \in BOOLEAN, NEW now \in Nat,
           Hits(c.main[Set(line)], Tag(line)) # {}
    PROVE  HitEffect(c, Hit(c, line, isStore, now), line, isStore, now)
<1> DEFINE set == Set(line)
           w   == Min(Hits(c.main[set], Tag(line)))
           e   == Touched(c.main[set][w], isStore, now)
           d   == Hit(c, line, isStore, now)
<1>1. set \in 0 .. S - 1 /\ c.main[set] \in [Way -> Entry]
  BY LineParts DEF ArraysType
<1>2. w \in Way /\ c.main[set][w].valid /\ c.main[set][w].tag = Tag(line)
  BY <1>1, HitWay, WaysAreNumbers
<1>3. /\ e \in Entry /\ e.valid = TRUE /\ e.tag = Tag(line) /\ e.LRU = now
      /\ e.dirty = (c.main[set][w].dirty \/ isStore)
  <2>1. c.main[set][w] \in Entry /\ c.main[set][w].valid \in BOOLEAN
    BY <1>1, <1>2 DEF Entry
  <2> QED
    BY <1>2, <2>1, TouchedEntry
<1>4. d = [main |-> [c.main EXCEPT ![set] = [c.main[set] EXCEPT ![w] = e]],
           victim |-> c.victim]
  BY <1>1, <1>2 DEF Hit, ArraysType
<1>5. d.victim = c.victim /\ c.victim \in [VictimWay -> Entry]
  BY <1>4 DEF ArraysType
<1>6. \A x \in Way : SameLine(c.main[set][x], c.main[set][x])
  BY DEF SameLine
<1> HIDE DEF d, e, w
<1>7. Placed(c, d, line, w, c.main[set][w].dirty \/ isStore, now)
  BY <1>1, <1>2, <1>3, <1>4, <1>5, <1>6, PlaceOne
<1> QED
  BY <1>2, <1>5, <1>7 DEF HitEffect, d

\* A miss while the set has a free way.
LEMMA FillIs ==
    ASSUME NEW c \in ArraysType, NEW line \in Nat, NEW isStore \in BOOLEAN, NEW now \in Nat,
           Free(c.main[Set(line)]) # {}
    PROVE  FillEffect(c, Fill(c, line, isStore, now), line, isStore, now)
<1> DEFINE set == Set(line)
           w   == Min(Free(c.main[set]))
           e   == Fresh(Tag(line), isStore, now)
           d   == Fill(c, line, isStore, now)
<1>1. set \in 0 .. S - 1 /\ c.main[set] \in [Way -> Entry] /\ Tag(line) \in Nat
  BY LineParts DEF ArraysType
<1>2. w \in Way /\ ~c.main[set][w].valid
  BY <1>1, FreeWay, WaysAreNumbers
<1>3. e \in Entry /\ e.valid = TRUE /\ e.tag = Tag(line) /\ e.LRU = now /\ e.dirty = isStore
  <2> HIDE DEF d
  <2>1. (IF is_rrip THEN R - 1 ELSE 0) \in 0 .. R
    BY RripAssumption
  <2> QED
    BY <1>1, <2>1 DEF Fresh, Entry
<1>4. d = [main |-> [c.main EXCEPT ![set] = [c.main[set] EXCEPT ![w] = e]],
           victim |-> c.victim]
  BY <1>1, <1>2 DEF Fill, ArraysType
<1>5. d.victim = c.victim /\ c.victim \in [VictimWay -> Entry]
  BY <1>4 DEF ArraysType
<1>6. \A x \in Way : SameLine(c.main[set][x], c.main[set][x])
  BY DEF SameLine
<1> HIDE DEF d, e, w
<1>7. Placed(c, d, line, w, isStore, now)
  BY <1>1, <1>2, <1>3, <1>4, <1>5, <1>6, PlaceOne
<1> QED
  BY <1>2, <1>5, <1>7 DEF FillEffect, d

\* What a full set gives up, as its ageing leaves it.
LEMMA AgedOut ==
    ASSUME NEW c \in ArraysType, NEW set \in 0 .. S - 1
    PROVE  LET w   == EvictWay(c.main[set])
               out == [Aged(c.main[set])[w] EXCEPT !.tag = LineOf(@, set)]
           IN /\ w \in Way
              /\ GivenUp(c, set, w)
              /\ Aged(c.main[set]) \in [Way -> Entry]
              /\ \A x \in Way : SameLine(Aged(c.main[set])[x], c.main[set][x])
              /\ out \in Entry
              /\ out.valid = c.main[set][w].valid
              /\ out.dirty = c.main[set][w].dirty
              /\ out.tag = LineOf(c.main[set][w].tag, set)
              /\ out.LRU = c.main[set][w].LRU
<1> DEFINE ways == c.main[set]
           w    == EvictWay(ways)
           out  == [Aged(ways)[w] EXCEPT !.tag = LineOf(@, set)]
<1>1. ways \in [Way -> Entry]
  BY DEF ArraysType
<1>2. w \in Way /\ GivenUp(c, set, w)
  BY <1>1, EvictedWay DEF GivenUp
<1> HIDE DEF w
<1>3. /\ Aged(ways) \in [Way -> Entry]
      /\ \A x \in Way : SameLine(Aged(ways)[x], ways[x])
  BY <1>1, AgedEffect DEF SameLine
<1>4. ways[w].tag \in Nat /\ LineOf(ways[w].tag, set) \in Nat
  BY <1>1, <1>2, TagOfLine DEF Entry
<1>5. /\ out \in Entry
      /\ out.valid = Aged(ways)[w].valid
      /\ out.dirty = Aged(ways)[w].dirty
      /\ out.tag = LineOf(ways[w].tag, set)
      /\ out.LRU = Aged(ways)[w].LRU
  BY <1>2, <1>3, <1>4 DEF Entry, SameLine
<1> HIDE DEF out
<1>6. /\ out.valid = ways[w].valid
      /\ out.dirty = ways[w].dirty
      /\ out.LRU = ways[w].LRU
  BY <1>2, <1>3, <1>5 DEF SameLine
<1> QED
  BY <1>2, <1>3, <1>5, <1>6 DEF w, out

\* A miss in a full set, without a victim cache.
LEMMA ReplaceIs ==
    ASSUME NEW c \in ArraysType, NEW line \in Nat, NEW isStore \in BOOLEAN, NEW now \in Nat,
           Full(c, Set(line))
    PROVE  ReplaceEffect(c, Replace(c, line, isStore, now), line, isStore, now,
                         LineOf(c.main[Set(line)][EvictWay(c.main[Set(line)])].tag, Set(line)))
<1> DEFINE set  == Set(line)
           w    == EvictWay(c.main[set])
           aged == Aged(c.main[set])
           e    == Fresh(Tag(line), isStore, now)
           d    == Replace(c, line, isStore, now)
<1>1. set \in 0 .. S - 1 /\ Tag(line) \in Nat
  BY LineParts
<1>2. /\ w \in Way /\ aged \in [Way -> Entry]
      /\ \A x \in Way : SameLine(aged[x], c.main[set][x])
  BY <1>1, AgedOut
<1>3. e \in Entry /\ e.valid = TRUE /\ e.tag = Tag(line) /\ e.LRU = now /\ e.dirty = isStore
  <2> HIDE DEF d
  <2>1. (IF is_rrip THEN R - 1 ELSE 0) \in 0 .. R
    BY RripAssumption
  <2> QED
    BY <1>1, <2>1 DEF Fresh, Entry
<1>4. d = [main |-> [c.main EXCEPT ![set] = [aged EXCEPT ![w] = e]], victim |-> c.victim]
  BY <1>1, <1>2 DEF Replace, ArraysType
<1>5. d.victim = c.victim /\ c.victim \in [VictimWay -> Entry]
  BY <1>4 DEF ArraysType
<1> HIDE DEF d, e, w, aged
<1>6. Placed(c, d, line, w, isStore, now)
  BY <1>1, <1>2, <1>3, <1>4, <1>5, PlaceOne
<1>7. ReplaceEffect(c, d, line, isStore, now, LineOf(c.main[set][w].tag, set))
  BY <1>2, <1>5, <1>6 DEF ReplaceEffect
<1> QED
  BY <1>7 DEF d, w

\* A miss in a full set, with a victim cache.
LEMMA DemoteIs ==
    ASSUME NEW c \in ArraysType, NEW line \in Nat, NEW isStore \in BOOLEAN, NEW now \in Nat,
           NEW v \in VictimWay, Full(c, Set(line))
    PROVE  DemoteEffect(c, Demote(c, line, isStore, now, v), line, isStore, now, v)
<1> DEFINE set  == Set(line)
           w    == EvictWay(c.main[set])
           aged == Aged(c.main[set])
           e    == Fresh(Tag(line), isStore, now)
           out  == [aged[w] EXCEPT !.tag = LineOf(@, set)]
           d    == Demote(c, line, isStore, now, v)
<1>1. set \in 0 .. S - 1 /\ Tag(line) \in Nat
  BY LineParts
<1>2. /\ w \in Way /\ GivenUp(c, set, w) /\ aged \in [Way -> Entry]
      /\ \A x \in Way : SameLine(aged[x], c.main[set][x])
      /\ out \in Entry
      /\ out.valid = c.main[set][w].valid
      /\ out.dirty = c.main[set][w].dirty
      /\ out.tag = LineOf(c.main[set][w].tag, set)
      /\ out.LRU = c.main[set][w].LRU
  BY <1>1, AgedOut
<1>3. e \in Entry /\ e.valid = TRUE /\ e.tag = Tag(line) /\ e.LRU = now /\ e.dirty = isStore
  <2> HIDE DEF d
  <2>1. (IF is_rrip THEN R - 1 ELSE 0) \in 0 .. R
    BY RripAssumption
  <2> QED
    BY <1>1, <2>1 DEF Fresh, Entry
<1> HIDE DEF e, w, aged, out
<1>4. d = [c EXCEPT !.main[set] = [aged EXCEPT ![w] = e], !.victim[v] = out]
  BY DEF Demote, e, w, aged, out
<1>5. c = [main |-> c.main, victim |-> c.victim]
  BY DEF ArraysType
<1>6. d = [main |-> [c.main EXCEPT ![set] = [aged EXCEPT ![w] = e]],
           victim |-> [c.victim EXCEPT ![v] = out]]
  BY <1>4, <1>5
<1> HIDE DEF d
<1>7. d.victim = [c.victim EXCEPT ![v] = out] /\ c.victim \in [VictimWay -> Entry]
  BY <1>6 DEF ArraysType
<1>8. d.victim \in [VictimWay -> Entry] /\ MovedOut(c, d, set, w, v)
  BY <1>2, <1>7 DEF MovedOut
<1>9. Placed(c, d, line, w, isStore, now)
  BY <1>1, <1>2, <1>3, <1>6, <1>7, <1>8, PlaceOne
<1> QED
  BY <1>2, <1>8, <1>9 DEF DemoteEffect, d

\* A hit in the victim cache.
LEMMA SwapIs ==
    ASSUME NEW c \in ArraysType, NEW line \in Nat, NEW isStore \in BOOLEAN, NEW now \in Nat,
           Hits(c.victim, line) # {}
    PROVE  SwapEffect(c, Swap(c, line, isStore, now), line, isStore, now)
<1> DEFINE set  == Set(line)
           v    == Min(Hits(c.victim, line))
           w    == EvictWay(c.main[set])
           aged == Aged(c.main[set])
           back == Touched(c.victim[v], isStore, now)
           e    == [back EXCEPT !.tag = Tag(line)]
           out  == [aged[w] EXCEPT !.tag = LineOf(@, set)]
           d    == Swap(c, line, isStore, now)
<1>1. set \in 0 .. S - 1 /\ Tag(line) \in Nat /\ c.victim \in [VictimWay -> Entry]
  BY LineParts DEF ArraysType
<1>2. v \in VictimWay /\ c.victim[v].valid /\ c.victim[v].tag = line
  BY <1>1, HitWay, WaysAreNumbers
<1>3. /\ w \in Way /\ GivenUp(c, set, w) /\ aged \in [Way -> Entry]
      /\ \A x \in Way : SameLine(aged[x], c.main[set][x])
      /\ out \in Entry
      /\ out.valid = c.main[set][w].valid
      /\ out.dirty = c.main[set][w].dirty
      /\ out.tag = LineOf(c.main[set][w].tag, set)
      /\ out.LRU = c.main[set][w].LRU
  BY <1>1, AgedOut
<1>4. /\ back \in Entry /\ back.valid = TRUE /\ back.LRU = now
      /\ back.dirty = (c.victim[v].dirty \/ isStore)
  <2>1. c.victim[v] \in Entry /\ c.victim[v].valid \in BOOLEAN
    BY <1>1, <1>2 DEF Entry
  <2> QED
    BY <1>2, <2>1, TouchedEntry
<1> HIDE DEF back
<1>5. /\ e \in Entry /\ e.valid = TRUE /\ e.tag = Tag(line) /\ e.LRU = now
      /\ e.dirty = back.dirty
  BY <1>1, <1>4 DEF Entry
<1> HIDE DEF e, w, aged, out, v
<1>6. d = [c EXCEPT !.main[set] = [aged EXCEPT ![w] = e], !.victim[v] = out]
  BY DEF Swap, back, e, w, aged, out, v
<1>7. c = [main |-> c.main, victim |-> c.victim]
  BY DEF ArraysType
<1>8. d = [main |-> [c.main EXCEPT ![set] = [aged EXCEPT ![w] = e]],
           victim |-> [c.victim EXCEPT ![v] = out]]
  BY <1>6, <1>7
<1> HIDE DEF d
<1>9. d.victim = [c.victim EXCEPT ![v] = out]
  BY <1>8
<1>10. d.victim \in [VictimWay -> Entry] /\ MovedOut(c, d, set, w, v)
  BY <1>1, <1>2, <1>3, <1>9 DEF MovedOut
<1>11. Placed(c, d, line, w, back.dirty, now)
  BY <1>3, <1>8, <1>5, <1>10, PlaceOne
<1> QED
  BY <1>2, <1>3, <1>4, <1>10, <1>11 DEF SwapEffect, d

-----------------------------------------------------------------------------
(* Every answer of an access is one of the effects.                        *)

Missed(c, line) == ~InSet(c, line) /\ ~InVictim(c, line)

AccessEffect(c, d, res, evicted, line, isStore, now) ==
    \/ res = "HIT" /\ evicted = {} /\ InSet(c, line) /\ HitEffect(c, d, line, isStore, now)
    \/ res = "HIT" /\ evicted = {} /\ ~InSet(c, line) /\ SwapEffect(c, d, line, isStore, now)
    \/ res = "MISS" /\ evicted = {} /\ Missed(c, line) /\ FillEffect(c, d, line, isStore, now)
    \/ /\ res = "MISS" /\ evicted = {} /\ Missed(c, line)
       /\ \E v \in VictimWay :
            ~c.victim[v].valid /\ DemoteEffect(c, d, line, isStore, now, v)
    \/ /\ res = "MISS_EVICT" /\ Missed(c, line)
       /\ \E v \in VictimWay :
            /\ \A x \in VictimWay : c.victim[x].valid /\ c.victim[v].LRU <= c.victim[x].LRU
            /\ evicted = {c.victim[v].tag}
            /\ DemoteEffect(c, d, line, isStore, now, v)
    \/ /\ res = "MISS_EVICT" /\ Missed(c, line) /\ VictimWay = {}
       /\ \E out \in Nat : evicted = {out} /\ ReplaceEffect(c, d, line, isStore, now, out)

\* The five branches of an access.
LEMMA AccessIs ==
    ASSUME NEW c \in ArraysType, NEW line \in Nat, NEW isStore \in BOOLEAN, NEW now \in Nat
    PROVE  LET a == Access(c, line, isStore, now)
           IN AccessEffect(c, a.arrays, a.res, a.evicted, line, isStore, now)
<1> DEFINE set  == Set(line)
           ways == c.main[set]
           a    == Access(c, line, isStore, now)
<1>1. /\ set \in 0 .. S - 1 /\ ways \in [Way -> Entry] /\ c.victim \in [VictimWay -> Entry]
      /\ Tag(line) \in Nat
  BY LineParts DEF ArraysType
<1>2. InSet(c, line) <=> Hits(ways, Tag(line)) # {}
  BY <1>1 DEF InSet, Hits
<1>3. InVictim(c, line) <=> Hits(c.victim, line) # {}
  BY <1>1 DEF InVictim, Hits
<1>4. Full(c, set) <=> Free(ways) = {}
  BY <1>1 DEF Full, Free
<1>5. CASE Hits(ways, Tag(line)) # {}
  <2>1. a = [arrays |-> Hit(c, line, isStore, now), res |-> "HIT", evicted |-> {}]
    BY <1>5 DEF Access
  <2>2. HitEffect(c, Hit(c, line, isStore, now), line, isStore, now)
    BY <1>5, HitIs
  <2> QED
    BY <1>2, <1>5, <2>1, <2>2 DEF AccessEffect
<1>6. CASE Hits(ways, Tag(line)) = {} /\ Hits(c.victim, line) # {}
  <2>1. a = [arrays |-> Swap(c, line, isStore, now), res |-> "HIT", evicted |-> {}]
    BY <1>6 DEF Access
  <2>2. SwapEffect(c, Swap(c, line, isStore, now), line, isStore, now)
    BY <1>6, SwapIs
  <2> QED
    BY <1>2, <1>6, <2>1, <2>2 DEF AccessEffect
<1>7. CASE Hits(ways, Tag(line)) = {} /\ Hits(c.victim, line) = {}
  <2>1. Missed(c, line)
    BY <1>2, <1>3, <1>7 DEF Missed
  <2>2. CASE Free(ways) # {}
    <3>1. a = [arrays |-> Fill(c, line, isStore, now), res |-> "MISS", evicted |-> {}]
      BY <1>7, <2>2 DEF Access, Miss
    <3>2. FillEffect(c, Fill(c, line, isStore, now), line, isStore, now)
      BY <2>2, FillIs
    <3> QED
      BY <2>1, <3>1, <3>2 DEF AccessEffect
  <2>3. CASE Free(ways) = {} /\ Free(c.victim) # {}
    <3> DEFINE v == Min(Free(c.victim))
    <3>1. a = [arrays |-> Demote(c, line, isStore, now, v), res |-> "MISS", evicted |-> {}]
      BY <1>7, <2>3 DEF Access, Miss
    <3>2. v \in VictimWay /\ ~c.victim[v].valid
      BY <1>1, <2>3, FreeWay, WaysAreNumbers
    <3> HIDE DEF v
    <3>3. DemoteEffect(c, Demote(c, line, isStore, now, v), line, isStore, now, v)
      BY <1>4, <2>3, <3>2, DemoteIs
    <3> QED
      BY <2>1, <3>1, <3>2, <3>3 DEF AccessEffect
  <2>4. CASE Free(ways) = {} /\ Free(c.victim) = {} /\ victim_i > 0
    <3> DEFINE v == Oldest(c.victim)
    <3>1. a = [arrays |-> Demote(c, line, isStore, now, v), res |-> "MISS_EVICT",
               evicted |-> {c.victim[v].tag}]
      BY <1>7, <2>4 DEF Access, MissEvict
    <3>2. v \in VictimWay /\ \A x \in VictimWay : c.victim[v].LRU <= c.victim[x].LRU
      BY <1>1, <2>4, OldestWay, WaysAreNumbers
    <3>3. \A x \in VictimWay : c.victim[x].valid
      BY <1>1, <2>4 DEF Free
    <3> HIDE DEF v
    <3>4. DemoteEffect(c, Demote(c, line, isStore, now, v), line, isStore, now, v)
      BY <1>4, <2>4, <3>2, DemoteIs
    <3> QED
      BY <2>1, <3>1, <3>2, <3>3, <3>4 DEF AccessEffect
  <2>5. CASE Free(ways) = {} /\ Free(c.victim) = {} /\ ~(victim_i > 0)
    <3> DEFINE w   == EvictWay(ways)
               out == LineOf(ways[w].tag, set)
    <3>1. a = [arrays |-> Replace(c, line, isStore, now), res |-> "MISS_EVICT",
               evicted |-> {out}]
      BY <1>7, <2>5 DEF Access, MissEvict
    <3>2. VictimWay = {}
      BY <2>5, GeometryAssumption DEF VictimWay
    <3>3. w \in Way
      BY <1>1, EvictedWay
    <3>4. ways[w].tag \in Nat
      BY <1>1, <3>3 DEF Entry
    <3>5. out \in Nat
      BY <1>1, <3>4, TagOfLine
    <3>6. ReplaceEffect(c, Replace(c, line, isStore, now), line, isStore, now, out)
      BY <1>4, <2>5, ReplaceIs
    <3> HIDE DEF out
    <3> QED
      BY <2>1, <3>1, <3>2, <3>5, <3>6 DEF AccessEffect
  <2> QED
    BY <2>2, <2>3, <2>4, <2>5
<1> QED
  BY <1>5, <1>6, <1>7

-----------------------------------------------------------------------------
(* The inductive invariant. "now" is the time stamp of the current tick.   *)

\* A line is in one way of its set at most, in one way of the victim cache at most,
\* and not in both.
MainUnique(c) ==
    \A s \in 0 .. S - 1 : \A x, y \in Way :
        /\ c.main[s][x].valid
        /\ c.main[s][y].valid
        /\ c.main[s][x].tag = c.main[s][y].tag
        => x = y

VictimUnique(c) ==
    \A x, y \in VictimWay :
        c.victim[x].valid /\ c.victim[y].valid /\ c.victim[x].tag = c.victim[y].tag => x = y

Apart(c) == \A v \in VictimWay : c.victim[v].valid => ~InSet(c, c.victim[v].tag)

HomesFull(c) == \A v \in VictimWay : c.victim[v].valid => Full(c, Set(c.victim[v].tag))

Older(c) ==
    ~is_rrip =>
        \A v \in VictimWay, w \in Way :
            c.victim[v].valid => c.victim[v].LRU <= c.main[Set(c.victim[v].tag)][w].LRU

\* No line was used in the future.
Stamped(c, now) ==
    \A s \in 0 .. S - 1, w \in Way : c.main[s][w].valid => c.main[s][w].LRU <= now

Good(c, now) ==
    /\ c \in ArraysType
    /\ MainUnique(c)
    /\ VictimUnique(c)
    /\ Apart(c)
    /\ HomesFull(c)
    /\ Older(c)
    /\ Stamped(c, now)

\* What a new line leaves true of the sets.
SetsKept(c, d, line, now) ==
    /\ d \in ArraysType /\ MainUnique(d) /\ Stamped(d, now)
    /\ \A s \in 0 .. S - 1 :
         (\A x \in Way : c.main[s][x].valid) => \A x \in Way : d.main[s][x].valid
    /\ \A s \in 0 .. S - 1, x \in Way :
         (\A y \in Way : c.main[s][y].valid) => d.main[s][x].LRU >= c.main[s][x].LRU
    /\ \A l \in Nat : InSet(d, l) => l = line \/ InSet(c, l)

LEMMA PlacedKeeps ==
    ASSUME NEW c, NEW d, NEW line \in Nat, NEW w \in Way, NEW dirty, NEW now \in Nat,
           Good(c, now), Placed(c, d, line, w, dirty, now),
           \A x \in Way \ {w} :
              c.main[Set(line)][x].valid => c.main[Set(line)][x].tag # Tag(line)
    PROVE  SetsKept(c, d, line, now)
<1> DEFINE set == Set(line)
<1>1. set \in 0 .. S - 1
  BY LineParts
<1>2. d \in ArraysType /\ c \in ArraysType
  BY DEF Placed, Good
<1>3. MainUnique(d)
  <2> SUFFICES ASSUME NEW s \in 0 .. S - 1, NEW x \in Way, NEW y \in Way,
                      d.main[s][x].valid, d.main[s][y].valid,
                      d.main[s][x].tag = d.main[s][y].tag, x # y
               PROVE  FALSE
    BY DEF MainUnique
  <2>1. CASE s # set
    BY <2>1 DEF Placed, SameLine, Good, MainUnique
  <2>2. CASE s = set /\ x # w /\ y # w
    BY <2>2 DEF Placed, SameLine, Good, MainUnique
  <2>3. CASE s = set /\ (x = w \/ y = w)
    BY <2>3 DEF Placed, SameLine
  <2> QED
    BY <2>1, <2>2, <2>3
<1>4. Stamped(d, now)
  <2> SUFFICES ASSUME NEW s \in 0 .. S - 1, NEW x \in Way, d.main[s][x].valid
               PROVE  d.main[s][x].LRU <= now
    BY DEF Stamped
  <2>1. CASE s = set /\ x = w
    BY <2>1 DEF Placed
  <2>2. CASE s # set \/ x # w
    <3>1. SameLine(d.main[s][x], c.main[s][x])
      BY <2>2 DEF Placed
    <3> QED
      BY <3>1 DEF SameLine, Good, Stamped
  <2> QED
    BY <2>1, <2>2
<1>5. ASSUME NEW s \in 0 .. S - 1, NEW x \in Way, \A y \in Way : c.main[s][y].valid
      PROVE  d.main[s][x].valid /\ d.main[s][x].LRU >= c.main[s][x].LRU
  <2>1. CASE s = set /\ x = w
    <3>1. c.main[set][w].valid /\ c.main[set][w].LRU <= now
      BY <1>1, <1>5, <2>1 DEF Good, Stamped
    <3> QED
      BY <2>1, <3>1 DEF Placed
  <2>2. CASE s # set \/ x # w
    <3>1. SameLine(d.main[s][x], c.main[s][x])
      BY <2>2 DEF Placed
    <3>2. c.main[s][x].LRU \in Nat
      BY <1>2, FieldsOf
    <3> QED
      BY <1>5, <3>1, <3>2 DEF SameLine
  <2> QED
    BY <2>1, <2>2
<1>6. ASSUME NEW l \in Nat, InSet(d, l), l # line PROVE InSet(c, l)
  <2>1. Set(l) \in 0 .. S - 1 /\ Tag(l) \in Nat
    BY LineParts
  <2>2. PICK x \in Way : d.main[Set(l)][x].valid /\ d.main[Set(l)][x].tag = Tag(l)
    BY <1>6 DEF InSet
  <2>3. ~(Set(l) = set /\ x = w)
    <3>1. SUFFICES ASSUME Set(l) = set, x = w PROVE FALSE
      OBVIOUS
    <3>2. Tag(l) = Tag(line)
      BY <2>2, <3>1 DEF Placed
    <3> QED
      BY <1>6, <3>1, <3>2, LineParts
  <2>4. SameLine(d.main[Set(l)][x], c.main[Set(l)][x])
    BY <2>1, <2>3 DEF Placed
  <2> QED
    BY <2>2, <2>4 DEF SameLine, InSet
<1> QED
  BY <1>2, <1>3, <1>4, <1>5, <1>6 DEF SetsKept

\* An access that leaves the victim cache alone, and whose line is not in it.
LEMMA VictimKept ==
    ASSUME NEW c, NEW d, NEW line \in Nat, NEW w \in Way, NEW dirty, NEW now \in Nat,
           Good(c, now), Placed(c, d, line, w, dirty, now),
           \A x \in Way \ {w} :
              c.main[Set(line)][x].valid => c.main[Set(line)][x].tag # Tag(line),
           d.victim = c.victim, ~InVictim(c, line)
    PROVE  Good(d, now)
<1>1. /\ d \in ArraysType /\ MainUnique(d) /\ Stamped(d, now)
      /\ \A s \in 0 .. S - 1 :
           (\A x \in Way : c.main[s][x].valid) => \A x \in Way : d.main[s][x].valid
      /\ \A s \in 0 .. S - 1, x \in Way :
           (\A y \in Way : c.main[s][y].valid) => d.main[s][x].LRU >= c.main[s][x].LRU
      /\ \A l \in Nat : InSet(d, l) => l = line \/ InSet(c, l)
  <2>1. SetsKept(c, d, line, now)
    BY PlacedKeeps
  <2> QED
    BY <2>1 DEF SetsKept
<1>2. \A v \in VictimWay : /\ c.victim[v].tag \in Nat
                           /\ Set(c.victim[v].tag) \in 0 .. S - 1
                           /\ c.victim[v].LRU \in Nat
  <2>1. \A v \in VictimWay : c.victim[v].tag \in Nat /\ c.victim[v].LRU \in Nat
    BY DEF Good, ArraysType, Entry
  <2> QED
    BY <2>1, LineParts
<1>3. VictimUnique(d)
  BY DEF Good, VictimUnique
<1>4. Apart(d)
  <2> SUFFICES ASSUME NEW v \in VictimWay, c.victim[v].valid, InSet(d, c.victim[v].tag)
               PROVE  FALSE
    BY DEF Apart
  <2>1. c.victim[v].tag # line
    BY DEF InVictim
  <2> QED
    BY <1>1, <1>2, <2>1 DEF Good, Apart
<1>5. HomesFull(d)
  BY <1>1, <1>2 DEF Good, HomesFull, Full
<1>6. Older(d)
  <2> SUFFICES ASSUME ~is_rrip, NEW v \in VictimWay, NEW x \in Way, c.victim[v].valid
               PROVE  c.victim[v].LRU <= d.main[Set(c.victim[v].tag)][x].LRU
    BY DEF Older
  <2> DEFINE s == Set(c.victim[v].tag)
  <2>1. s \in 0 .. S - 1 /\ \A y \in Way : c.main[s][y].valid
    BY <1>2 DEF Good, HomesFull, Full
  <2>2. d.main[s][x].LRU >= c.main[s][x].LRU
    BY <1>1, <2>1
  <2>3. c.victim[v].LRU <= c.main[s][x].LRU
    BY DEF Good, Older
  <2>4. c.main[s][x].LRU \in Nat /\ d.main[s][x].LRU \in Nat /\ c.victim[v].LRU \in Nat
    <3>1. c \in ArraysType /\ d \in ArraysType
      BY <1>1 DEF Good
    <3>2. c.main[s][x].LRU \in Nat
      BY <2>1, <3>1, FieldsOf
    <3>3. d.main[s][x].LRU \in Nat
      BY <2>1, <3>1, FieldsOf
    <3> QED
      BY <1>2, <3>2, <3>3
  <2> DEFINE l1 == c.victim[v].LRU
             l2 == c.main[s][x].LRU
             l3 == d.main[s][x].LRU
  <2>5. l1 \in Nat /\ l2 \in Nat /\ l3 \in Nat /\ l1 <= l2 /\ l3 >= l2
    BY <2>2, <2>3, <2>4
  <2>6. l1 <= l3
    <3> HIDE DEF l1, l2, l3
    <3> QED
      BY <2>5
  <2> QED
    BY <2>6
<1> QED
  BY <1>1, <1>3, <1>4, <1>5, <1>6 DEF Good

\* An access that moves a line of a full set to way v of the victim cache.
LEMMA VictimTaken ==
    ASSUME NEW c, NEW d, NEW line \in Nat, NEW w \in Way, NEW v \in VictimWay, NEW dirty,
           NEW now \in Nat,
           Good(c, now), Placed(c, d, line, w, dirty, now), MovedOut(c, d, Set(line), w, v),
           GivenUp(c, Set(line), w), Full(c, Set(line)), ~InSet(c, line),
           \A x \in VictimWay \ {v} : c.victim[x].valid => c.victim[x].tag # line
    PROVE  Good(d, now)
<1> DEFINE set == Set(line)
           out == LineOf(c.main[set][w].tag, set)
<1>1. /\ d \in ArraysType /\ MainUnique(d) /\ Stamped(d, now)
      /\ \A s \in 0 .. S - 1 :
           (\A x \in Way : c.main[s][x].valid) => \A x \in Way : d.main[s][x].valid
      /\ \A s \in 0 .. S - 1, x \in Way :
           (\A y \in Way : c.main[s][y].valid) => d.main[s][x].LRU >= c.main[s][x].LRU
      /\ \A l \in Nat : InSet(d, l) => l = line \/ InSet(c, l)
  <2>1. \A x \in Way \ {w} :
           c.main[Set(line)][x].valid => c.main[Set(line)][x].tag # Tag(line)
    BY DEF InSet
  <2>2. SetsKept(c, d, line, now)
    BY <2>1, PlacedKeeps
  <2> QED
    BY <2>2 DEF SetsKept
<1>2. \A x \in VictimWay : /\ c.victim[x].tag \in Nat
                           /\ Set(c.victim[x].tag) \in 0 .. S - 1
                           /\ c.victim[x].LRU \in Nat
  <2>1. \A x \in VictimWay : c.victim[x].tag \in Nat /\ c.victim[x].LRU \in Nat
    BY DEF Good, ArraysType, Entry
  <2> QED
    BY <2>1, LineParts
<1>3. set \in 0 .. S - 1 /\ c.main[set][w].tag \in Nat /\ c.main[set][w].valid
  <2>1. set \in 0 .. S - 1
    BY LineParts
  <2> QED
    BY <2>1 DEF Good, ArraysType, Entry, Full
<1>4. out \in Nat /\ Set(out) = set /\ Tag(out) = c.main[set][w].tag
  BY <1>3, TagOfLine
<1>5. InSet(c, out)
  BY <1>3, <1>4 DEF InSet
<1>6. ~InSet(d, out)
  <2> SUFFICES ASSUME NEW x \in Way, d.main[set][x].valid, d.main[set][x].tag = Tag(out)
               PROVE  FALSE
    BY <1>4 DEF InSet
  <2>1. CASE x = w
    <3>1. c.main[set][w].tag = Tag(line)
      BY <1>4, <2>1 DEF Placed
    <3> QED
      BY <1>3, <3>1 DEF InSet
  <2>2. CASE x # w
    <3>1. SameLine(d.main[set][x], c.main[set][x])
      BY <1>3, <2>2 DEF Placed
    <3> QED
      BY <1>3, <1>4, <2>2, <3>1 DEF SameLine, Good, MainUnique
  <2> QED
    BY <2>1, <2>2
<1> HIDE DEF out
<1>7. d.victim[v].tag = out /\ \A x \in VictimWay \ {v} : d.victim[x] = c.victim[x]
  BY DEF MovedOut, out
<1>8. \A x \in VictimWay : c.victim[x].valid => c.victim[x].tag # out
  BY <1>5 DEF Good, Apart
<1>9. VictimUnique(d)
  BY <1>7, <1>8 DEF Good, VictimUnique
<1>10. Apart(d)
  <2> SUFFICES ASSUME NEW x \in VictimWay, d.victim[x].valid, InSet(d, d.victim[x].tag)
               PROVE  FALSE
    BY DEF Apart
  <2>1. CASE x = v
    BY <1>6, <1>7, <2>1
  <2>2. CASE x # v
    <3>1. c.victim[x].tag # line /\ d.victim[x] = c.victim[x]
      BY <1>7, <2>2
    <3> QED
      BY <1>1, <1>2, <3>1 DEF Good, Apart
  <2> QED
    BY <2>1, <2>2
<1>11. HomesFull(d)
  <2> SUFFICES ASSUME NEW x \in VictimWay, d.victim[x].valid
               PROVE  Full(d, Set(d.victim[x].tag))
    BY DEF HomesFull
  <2>1. CASE x = v
    BY <1>1, <1>3, <1>4, <1>7, <2>1 DEF Full
  <2>2. CASE x # v
    BY <1>1, <1>2, <1>7, <2>2 DEF Good, HomesFull, Full
  <2> QED
    BY <2>1, <2>2
<1>12. Older(d)
  <2> SUFFICES ASSUME ~is_rrip, NEW x \in VictimWay, NEW y \in Way, d.victim[x].valid
               PROVE  d.victim[x].LRU <= d.main[Set(d.victim[x].tag)][y].LRU
    BY DEF Older
  <2>1. CASE x = v
    <3>1. c.main[set][w].LRU <= c.main[set][y].LRU /\ d.victim[v].LRU = c.main[set][w].LRU
      BY DEF GivenUp, MovedOut
    <3>2. d.main[set][y].LRU >= c.main[set][y].LRU
      BY <1>1, <1>3 DEF Full
    <3>3. c.main[set][w].LRU \in Nat /\ c.main[set][y].LRU \in Nat /\ d.main[set][y].LRU \in Nat
      BY <1>1, <1>3, FieldsOf DEF Good
    <3> QED
      BY <1>4, <1>7, <2>1, <3>1, <3>2, <3>3
  <2>2. CASE x # v
    <3> DEFINE s == Set(c.victim[x].tag)
    <3>1. d.victim[x] = c.victim[x] /\ s \in 0 .. S - 1
      BY <1>2, <1>7, <2>2
    <3>2. \A z \in Way : c.main[s][z].valid
      BY <3>1 DEF Good, HomesFull, Full
    <3>3. d.main[s][y].LRU >= c.main[s][y].LRU
      BY <1>1, <3>1, <3>2
    <3>4. c.victim[x].LRU <= c.main[s][y].LRU
      BY <3>1 DEF Good, Older
    <3>5. c.main[s][y].LRU \in Nat /\ d.main[s][y].LRU \in Nat /\ c.victim[x].LRU \in Nat
      BY <1>1, <1>2, <3>1, FieldsOf DEF Good
    <3> QED
      <4> DEFINE l1 == c.victim[x].LRU
                 l2 == c.main[s][y].LRU
                 l3 == d.main[s][y].LRU
      <4>1. l1 \in Nat /\ l2 \in Nat /\ l3 \in Nat /\ l1 <= l2 /\ l3 >= l2
        BY <3>3, <3>4, <3>5
      <4>2. l1 <= l3
        <5> HIDE DEF l1, l2, l3
        <5> QED
          BY <4>1
      <4> QED
        BY <3>1, <4>2
  <2> QED
    BY <2>1, <2>2
<1> QED
  BY <1>1, <1>9, <1>10, <1>11, <1>12 DEF Good

\* An access keeps the arrays good.
LEMMA AccessGood ==
    ASSUME NEW c, NEW line \in Nat, NEW isStore \in BOOLEAN, NEW now \in Nat, Good(c, now)
    PROVE  Good(Access(c, line, isStore, now).arrays, now)
<1> DEFINE a == Access(c, line, isStore, now)
           d == a.arrays
           set == Set(line)
<1>1. AccessEffect(c, d, a.res, a.evicted, line, isStore, now)
  BY AccessIs DEF Good
<1>2. set \in 0 .. S - 1
  BY LineParts
<1> SUFFICES Good(d, now)
  OBVIOUS
<1> HIDE DEF d, a
<1>3. CASE InSet(c, line) /\ HitEffect(c, d, line, isStore, now)
  <2>1. PICK w \in Way : /\ c.main[set][w].valid
                         /\ c.main[set][w].tag = Tag(line)
                         /\ Placed(c, d, line, w, c.main[set][w].dirty \/ isStore, now)
                         /\ d.victim = c.victim
    BY <1>3 DEF HitEffect
  <2>2. \A x \in Way \ {w} : c.main[set][x].valid => c.main[set][x].tag # Tag(line)
    BY <1>2, <2>1 DEF Good, MainUnique
  <2>3. ~InVictim(c, line)
    BY <1>3 DEF Good, Apart, InVictim
  <2> QED
    BY <2>1, <2>2, <2>3, VictimKept
<1>4. CASE ~InSet(c, line) /\ SwapEffect(c, d, line, isStore, now)
  <2>1. PICK w \in Way, v \in VictimWay :
               /\ c.victim[v].valid /\ c.victim[v].tag = line
               /\ Placed(c, d, line, w, c.victim[v].dirty \/ isStore, now)
               /\ GivenUp(c, set, w)
               /\ MovedOut(c, d, set, w, v)
    BY <1>4 DEF SwapEffect
  <2>2. Full(c, set)
    BY <2>1 DEF Good, HomesFull
  <2>3. \A x \in VictimWay \ {v} : c.victim[x].valid => c.victim[x].tag # line
    BY <2>1 DEF Good, VictimUnique
  <2> QED
    BY <1>4, <2>1, <2>2, <2>3, VictimTaken
<1>5. CASE Missed(c, line) /\ FillEffect(c, d, line, isStore, now)
  <2>1. PICK w \in Way : Placed(c, d, line, w, isStore, now) /\ d.victim = c.victim
    BY <1>5 DEF FillEffect
  <2>2. ~InVictim(c, line)
      /\ \A x \in Way \ {w} : c.main[set][x].valid => c.main[set][x].tag # Tag(line)
    BY <1>5 DEF Missed, InSet
  <2> QED
    BY <2>1, <2>2, VictimKept
<1>6. ASSUME Missed(c, line), NEW v \in VictimWay, DemoteEffect(c, d, line, isStore, now, v)
      PROVE  Good(d, now)
  <2>1. PICK w \in Way : /\ Full(c, set)
                         /\ Placed(c, d, line, w, isStore, now)
                         /\ GivenUp(c, set, w)
                         /\ MovedOut(c, d, set, w, v)
    BY <1>6 DEF DemoteEffect
  <2>2. ~InSet(c, line) /\ \A x \in VictimWay : c.victim[x].valid => c.victim[x].tag # line
    BY <1>6 DEF Missed, InVictim
  <2> QED
    BY <2>1, <2>2, VictimTaken
<1>7. ASSUME Missed(c, line), NEW out, ReplaceEffect(c, d, line, isStore, now, out)
      PROVE  Good(d, now)
  <2>1. PICK w \in Way : Placed(c, d, line, w, isStore, now) /\ d.victim = c.victim
    BY <1>7 DEF ReplaceEffect
  <2>2. ~InVictim(c, line)
      /\ \A x \in Way \ {w} : c.main[set][x].valid => c.main[set][x].tag # Tag(line)
    BY <1>7 DEF Missed, InSet
  <2> QED
    BY <2>1, <2>2, VictimKept
<1> QED
  BY <1>1, <1>3, <1>4, <1>5, <1>6, <1>7 DEF AccessEffect

-----------------------------------------------------------------------------
(* Renumbering the time stamps.                                            *)

Rank(c, t)   == Cardinality({u \in Stamps(c) : u < t})
Ranked(c, e) == [e EXCEPT !.LRU = IF e.valid THEN Rank(c, e.LRU) ELSE 0]

Renumbered(c) ==
    [main   |-> [s \in 0 .. S - 1 |-> [w \in Way |-> Ranked(c, c.main[s][w])]],
     victim |-> [v \in VictimWay |-> Ranked(c, c.victim[v])]]

\* Renumbering keeps the order of the stamps.
LEMMA RankKeepsOrder ==
    ASSUME NEW c \in ArraysType, NEW t \in Nat, NEW u \in Nat, t <= u
    PROVE  Rank(c, t) \in Nat /\ Rank(c, u) \in Nat /\ Rank(c, t) <= Rank(c, u)
<1> DEFINE before(n) == {x \in Stamps(c) : x < n}
<1>1. Stamps(c) \subseteq Nat
  <2>1. DOMAIN c.main = 0 .. S - 1
    BY DEF ArraysType
  <2>2. ASSUME NEW e \in Entries(c) PROVE e.LRU \in Nat
    <3>1. CASE \E v \in VictimWay : e = c.victim[v]
      BY <3>1, FieldsOf
    <3>2. CASE \E s \in 0 .. S - 1 : e \in {c.main[s][w] : w \in Way}
      BY <3>2, FieldsOf
    <3> QED
      BY <2>1, <2>2, <3>1, <3>2 DEF Entries
  <2> QED
    BY <2>2 DEF Stamps
<1>2. ASSUME NEW n \in Nat PROVE IsFiniteSet(before(n)) /\ Rank(c, n) \in Nat
  <2>1. before(n) \subseteq 0 .. n
    BY <1>1
  <2>2. IsFiniteSet(0 .. n)
    BY FS_Interval
  <2>3. IsFiniteSet(before(n))
    BY <2>1, <2>2, FS_Subset
  <2> QED
    BY <2>3, FS_CardinalityType DEF Rank
<1>3. before(t) \subseteq before(u)
  BY <1>1
<1>4. Cardinality(before(t)) <= Cardinality(before(u))
  BY <1>2, <1>3, FS_Subset
<1> QED
  BY <1>2, <1>4 DEF Rank

\* Ranking changes nothing but the stamp of an entry.
LEMMA RankedEntry ==
    ASSUME NEW c \in ArraysType, NEW e \in Entry
    PROVE  /\ Ranked(c, e) \in Entry
           /\ Ranked(c, e).valid = e.valid
           /\ Ranked(c, e).dirty = e.dirty
           /\ Ranked(c, e).tag = e.tag
           /\ Ranked(c, e).LRU = IF e.valid THEN Rank(c, e.LRU) ELSE 0
<1>1. e.LRU \in Nat
  BY DEF Entry
<1>2. Rank(c, e.LRU) \in Nat
  BY <1>1, RankKeepsOrder
<1>3. (IF e.valid THEN Rank(c, e.LRU) ELSE 0) \in Nat
  BY <1>2
<1> QED
  BY <1>3 DEF Ranked, Entry

\* All that renumbering changes is the stamps.
LEMMA RenumberedLines ==
    ASSUME NEW c \in ArraysType
    PROVE  /\ Renumbered(c) \in ArraysType
           /\ \A s \in 0 .. S - 1, w \in Way :
                LET e == c.main[s][w]
                    f == Renumbered(c).main[s][w]
                IN /\ f.valid = e.valid /\ f.dirty = e.dirty /\ f.tag = e.tag
                   /\ f.LRU = IF e.valid THEN Rank(c, e.LRU) ELSE 0
           /\ \A v \in VictimWay :
                LET e == c.victim[v]
                    f == Renumbered(c).victim[v]
                IN /\ f.valid = e.valid /\ f.dirty = e.dirty /\ f.tag = e.tag
                   /\ f.LRU = IF e.valid THEN Rank(c, e.LRU) ELSE 0
<1>1. \A s \in 0 .. S - 1, w \in Way : c.main[s][w] \in Entry
  BY DEF ArraysType
<1>2. \A v \in VictimWay : c.victim[v] \in Entry
  BY DEF ArraysType
<1>3. \A s \in 0 .. S - 1, w \in Way : Renumbered(c).main[s][w] = Ranked(c, c.main[s][w])
  BY DEF Renumbered
<1>4. \A v \in VictimWay : Renumbered(c).victim[v] = Ranked(c, c.victim[v])
  BY DEF Renumbered
<1>5. Renumbered(c) \in ArraysType
  <2>1. \A s \in 0 .. S - 1, w \in Way : Ranked(c, c.main[s][w]) \in Entry
    BY <1>1, RankedEntry
  <2>2. \A v \in VictimWay : Ranked(c, c.victim[v]) \in Entry
    BY <1>2, RankedEntry
  <2> QED
    BY <2>1, <2>2 DEF Renumbered, ArraysType
<1>6. ASSUME NEW s \in 0 .. S - 1, NEW w \in Way
      PROVE  LET e == c.main[s][w]
                 f == Renumbered(c).main[s][w]
             IN /\ f.valid = e.valid /\ f.dirty = e.dirty /\ f.tag = e.tag
                /\ f.LRU = IF e.valid THEN Rank(c, e.LRU) ELSE 0
  BY <1>1, <1>3, RankedEntry
<1>7. ASSUME NEW v \in VictimWay
      PROVE  LET e == c.victim[v]
                 f == Renumbered(c).victim[v]
             IN /\ f.valid = e.valid /\ f.dirty = e.dirty /\ f.tag = e.tag
                /\ f.LRU = IF e.valid THEN Rank(c, e.LRU) ELSE 0
  BY <1>2, <1>4, RankedEntry
<1> QED
  BY <1>5, <1>6, <1>7

\* Renumbering keeps the invariant.
LEMMA RenumberedGood ==
    ASSUME NEW c, NEW now \in Nat, Good(c, now)
    PROVE  Good(Renumbered(c), Rank(c, now))
<1> DEFINE d == Renumbered(c)
<1>1. c \in ArraysType
  BY DEF Good
<1>2. d \in ArraysType
  BY <1>1, RenumberedLines
<1>3. ASSUME NEW s \in 0 .. S - 1, NEW w \in Way
      PROVE  /\ d.main[s][w].valid = c.main[s][w].valid
             /\ d.main[s][w].tag = c.main[s][w].tag
             /\ c.main[s][w].valid => d.main[s][w].LRU = Rank(c, c.main[s][w].LRU)
  BY <1>1, RenumberedLines
<1>4. ASSUME NEW v \in VictimWay
      PROVE  /\ d.victim[v].valid = c.victim[v].valid
             /\ d.victim[v].tag = c.victim[v].tag
             /\ c.victim[v].valid => d.victim[v].LRU = Rank(c, c.victim[v].LRU)
  BY <1>1, RenumberedLines
<1> HIDE DEF d
<1>5. \A v \in VictimWay : c.victim[v].tag \in Nat /\ Set(c.victim[v].tag) \in 0 .. S - 1
  BY <1>1, FieldsOf, LineParts
<1>6. MainUnique(d)
  BY <1>3 DEF Good, MainUnique
<1>7. VictimUnique(d)
  BY <1>4 DEF Good, VictimUnique
<1>8. Apart(d)
  BY <1>3, <1>4, <1>5 DEF Good, Apart, InSet
<1>9. HomesFull(d)
  BY <1>3, <1>4, <1>5 DEF Good, HomesFull, Full
<1>10. Stamped(d, Rank(c, now))
  <2> SUFFICES ASSUME NEW s \in 0 .. S - 1, NEW w \in Way, d.main[s][w].valid
               PROVE  d.main[s][w].LRU <= Rank(c, now)
    BY DEF Stamped
  <2>1. c.main[s][w].valid /\ d.main[s][w].LRU = Rank(c, c.main[s][w].LRU)
    BY <1>3
  <2>2. c.main[s][w].LRU \in Nat /\ c.main[s][w].LRU <= now
    BY <1>1, <2>1, FieldsOf DEF Good, Stamped
  <2> QED
    BY <1>1, <2>1, <2>2, RankKeepsOrder
<1>11. Older(d)
  <2> SUFFICES ASSUME ~is_rrip, NEW v \in VictimWay, NEW w \in Way, d.victim[v].valid
               PROVE  d.victim[v].LRU <= d.main[Set(d.victim[v].tag)][w].LRU
    BY DEF Older
  <2> DEFINE s == Set(c.victim[v].tag)
  <2>1. /\ c.victim[v].valid /\ s \in 0 .. S - 1 /\ Set(d.victim[v].tag) = s
        /\ d.victim[v].LRU = Rank(c, c.victim[v].LRU)
    BY <1>4, <1>5
  <2>2. c.main[s][w].valid
    BY <2>1 DEF Good, HomesFull, Full
  <2>3. d.main[s][w].LRU = Rank(c, c.main[s][w].LRU)
    BY <1>3, <2>1, <2>2
  <2>4. c.victim[v].LRU <= c.main[s][w].LRU
    BY <2>1 DEF Good, Older
  <2>5. c.victim[v].LRU \in Nat /\ c.main[s][w].LRU \in Nat
    BY <1>1, <2>1, FieldsOf
  <2> QED
    BY <1>1, <2>1, <2>3, <2>4, <2>5, RankKeepsOrder
<1> QED
  BY <1>2, <1>6, <1>7, <1>8, <1>9, <1>10, <1>11 DEF Good, d

\* What Store makes of the arrays it is given.
LEMMA StoreEffect ==
    ASSUME NEW c, NEW now \in Nat, Good(c, now), ArrayTypeOK, Store(c, now)
    PROVE  /\ Arrays' = Renumbered(c)
           /\ iteration' = Rank(c, now)
           /\ iteration' \in Nat
           /\ is_rrip' = is_rrip
<1>1. c \in ArraysType
  BY DEF Good
<1>2. DOMAIN main = 0 .. S - 1
  BY DEF ArrayTypeOK
<1>3. main' = [s \in 0 .. S - 1 |-> [w \in Way |-> Ranked(c, c.main[s][w])]]
  BY <1>2 DEF Store, Ranked, Rank
<1>4. victim' = [v \in VictimWay |-> Ranked(c, c.victim[v])]
  BY DEF Store, Ranked, Rank
<1>5. iteration' = Rank(c, now) /\ is_rrip' = is_rrip
  BY DEF Store, Rank
<1>6. Rank(c, now) \in Nat
  BY <1>1, RankKeepsOrder
<1> QED
  BY <1>3, <1>4, <1>5, <1>6 DEF Arrays, Renumbered

ArrayInv == ArrayTypeOK /\ Good(Arrays, iteration)

\* So does storing arrays that have it.
LEMMA StoreGood ==
    ASSUME NEW c, NEW now \in Nat, Good(c, now), ArrayTypeOK, Store(c, now),
           result' \in Result
    PROVE  ArrayInv'
<1> DEFINE d == Renumbered(c)
           n == Rank(c, now)
<1>1. Arrays' = d /\ iteration' = n /\ iteration' \in Nat /\ is_rrip' = is_rrip
  BY StoreEffect
<1>2. Good(d, n)
  BY RenumberedGood
<1> HIDE DEF d, n
<1>3. Good(Arrays, iteration)'
  BY <1>1, <1>2
     DEF Good, MainUnique, VictimUnique, Apart, InSet, HomesFull, Full, Older, Stamped
<1>4. main' = d.main /\ victim' = d.victim
  BY <1>1 DEF Arrays
<1>5. ArrayTypeOK'
  BY <1>1, <1>2, <1>4 DEF ArrayTypeOK, Good, ArraysType
<1> QED
  BY <1>3, <1>5 DEF ArrayInv

\* Empty arrays have the invariant.
LEMMA ArrayInvInit == ArrayInit => ArrayInv
<1> SUFFICES ASSUME ArrayInit PROVE ArrayInv
  OBVIOUS
<1>1. Empty \in Entry /\ Empty.valid = FALSE
  BY RripAssumption DEF Empty, Entry
<1>2. /\ main = [s \in 0 .. S - 1 |-> [w \in Way |-> Empty]]
      /\ victim = [v \in VictimWay |-> Empty]
      /\ Arrays = [main |-> main, victim |-> victim]
  BY DEF ArrayInit, Arrays
<1>3. ArrayTypeOK
  BY <1>1, <1>2 DEF ArrayInit, ArrayTypeOK, NoResult, Result
<1>4. Arrays \in ArraysType
  BY <1>1, <1>2 DEF ArraysType
<1>5. /\ \A s \in 0 .. S - 1, w \in Way : ~Arrays.main[s][w].valid
      /\ \A v \in VictimWay : ~Arrays.victim[v].valid
  BY <1>1, <1>2
<1>6. Good(Arrays, iteration)
  BY <1>4, <1>5
     DEF Good, MainUnique, VictimUnique, Apart, HomesFull, Older, Stamped
<1> QED
  BY <1>3, <1>6 DEF ArrayInv

\* Every step keeps it.
LEMMA ArrayInvStep == ArrayInv /\ [ArrayNext]_arrayVars => ArrayInv'
<1> SUFFICES ASSUME ArrayInv, [ArrayNext]_arrayVars PROVE ArrayInv'
  OBVIOUS
<1>1. ArrayTypeOK /\ Good(Arrays, iteration) /\ iteration \in Nat
  BY DEF ArrayInv, ArrayTypeOK
<1>2. ASSUME NEW line \in Line, NEW isStore \in BOOLEAN, AccessOne(line, isStore)
      PROVE  ArrayInv'
  <2> DEFINE a == Access(Arrays, line, isStore, iteration)
  <2>1. line \in Nat
    BY LineAssumption
  <2>2. Good(a.arrays, iteration)
    BY <1>1, <2>1, AccessGood
  <2>3. AccessEffect(Arrays, a.arrays, a.res, a.evicted, line, isStore, iteration)
    BY <1>1, <2>1, AccessIs DEF Good
  <2>4. Store(a.arrays, iteration) /\ result' = [res |-> a.res, evicted |-> a.evicted]
    BY <1>2 DEF AccessOne
  <2> HIDE DEF a
  <2>5. a.res \in {"HIT", "MISS", "MISS_EVICT"} /\ a.evicted \subseteq Nat
    <3>1. \A v \in VictimWay : Arrays.victim[v].tag \in Nat
      BY <1>1, FieldsOf DEF Good
    <3> QED
      BY <2>3, <3>1 DEF AccessEffect
  <2>6. result' \in Result
    BY <2>4, <2>5 DEF Result
  <2> QED
    BY <1>1, <2>2, <2>4, <2>6, StoreGood
<1>3. CASE ArrayTick
  <2>1. Good(Arrays, iteration + 1)
    <3>1. Arrays \in ArraysType
      BY <1>1 DEF Good
    <3>2. Stamped(Arrays, iteration + 1)
      BY <1>1, <3>1, FieldsOf DEF Good, Stamped
    <3> QED
      BY <1>1, <3>2 DEF Good
  <2>2. Store(Arrays, iteration + 1) /\ result' \in Result /\ iteration + 1 \in Nat
    BY <1>1, <1>3 DEF ArrayTick, ArrayTypeOK
  <2> QED
    BY <1>1, <2>1, <2>2, StoreGood
<1>4. CASE UNCHANGED arrayVars
  BY <1>1, <1>4
     DEF arrayVars, ArrayInv, ArrayTypeOK, Arrays, Good, MainUnique, VictimUnique, Apart,
         InSet, HomesFull, Full, Older, Stamped
<1> QED
  BY <1>2, <1>3, <1>4 DEF ArrayNext

\* So it always holds.
LEMMA ArrayInvHolds == ArraySpec => []ArrayInv
  BY ArrayInvInit, ArrayInvStep, PTL DEF ArraySpec

\* Sets, ways and stamps stay what the arrays of cache-p4/cache.c hold, predictions
\* stay below 2^k, and an evicted line is a line.
THEOREM ArraysTypeCorrect == ArraySpec => []ArrayTypeOK
<1>1. ArrayInv => ArrayTypeOK
  BY DEF ArrayInv
<1> QED
  BY <1>1, ArrayInvHolds, PTL

\* A line lies in the victim cache only while all ways of its set are valid: the
\* assertion that the swap makes of the set (assert_set_all_valid) never fails, for
\* any geometry and either policy.
THEOREM HomeSetsStayFull == ArraySpec => []HomeSetsFull
<1>1. ArrayInv => HomeSetsFull
  <2> SUFFICES ASSUME ArrayInv, NEW v \in VictimWay, victim[v].valid
               PROVE  Free(main[Set(victim[v].tag)]) = {}
    BY DEF HomeSetsFull
  <2>1. Arrays.main = main /\ Arrays.victim = victim /\ Good(Arrays, iteration) /\ ArrayTypeOK
    BY DEF Arrays, ArrayInv
  <2>2. Full(Arrays, Set(victim[v].tag))
    BY <2>1 DEF Good, HomesFull
  <2>3. Set(victim[v].tag) \in 0 .. S - 1
    <3>1. victim[v].tag \in Nat
      BY <2>1 DEF ArrayTypeOK, Entry
    <3> QED
      BY <3>1, LineParts
  <2>4. DOMAIN main[Set(victim[v].tag)] = Way
    BY <2>1, <2>3 DEF ArrayTypeOK
  <2> QED
    BY <2>1, <2>2, <2>4 DEF Full, Free
<1> QED
  BY <1>1, ArrayInvHolds, PTL

\* Under LRU no line of the victim cache was used after a line of its set, for any
\* geometry: swaps and demotions keep the two caches together in LRU order.
THEOREM VictimsStayOlder == ArraySpec => []VictimsAreOlder
<1>1. ArrayInv => VictimsAreOlder
  BY DEF ArrayInv, Good, Older, VictimsAreOlder, Arrays
<1> QED
  BY <1>1, ArrayInvHolds, PTL

-----------------------------------------------------------------------------
(* The lines that the arrays stand for.                                    *)

\* Way w of the set of l, or way v of the victim cache, has line l.
AtWay(c, l, w, dirtyOnly) ==
    /\ c.main[Set(l)][w].valid
    /\ c.main[Set(l)][w].tag = Tag(l)
    /\ dirtyOnly => c.main[Set(l)][w].dirty

AtVictim(c, l, v, dirtyOnly) ==
    /\ c.victim[v].valid
    /\ c.victim[v].tag = l
    /\ dirtyOnly => c.victim[v].dirty

Has(c, l, dirtyOnly) ==
    \/ \E w \in Way : AtWay(c, l, w, dirtyOnly)
    \/ \E v \in VictimWay : AtVictim(c, l, v, dirtyOnly)

LEMMA HeldIff ==
    ASSUME NEW c \in ArraysType, NEW dirtyOnly \in BOOLEAN, NEW l
    PROVE  l \in Held(c, dirtyOnly) <=> l \in Nat /\ Has(c, l, dirtyOnly)
<1> DEFINE counts(e) == e.valid /\ (dirtyOnly => e.dirty)
           inSet(s)  == {LineOf(c.main[s][w].tag, s) : w \in {x \in Way : counts(c.main[s][x])}}
           inSets    == {inSet(s) : s \in 0 .. S - 1}
           inVictim  == {c.victim[v].tag : v \in {x \in VictimWay : counts(c.victim[x])}}
<1>1. Held(c, dirtyOnly) = (UNION inSets) \cup inVictim
  BY DEF Held
<1>2. ASSUME l \in UNION inSets
      PROVE  l \in Nat /\ \E w \in Way : AtWay(c, l, w, dirtyOnly)
  <2>1. PICK s \in 0 .. S - 1 : l \in inSet(s)
    BY <1>2
  <2>2. PICK w \in Way : counts(c.main[s][w]) /\ l = LineOf(c.main[s][w].tag, s)
    BY <2>1
  <2>3. l \in Nat /\ Set(l) = s /\ Tag(l) = c.main[s][w].tag
    BY <2>2, FieldsOf, TagOfLine
  <2> QED
    BY <2>2, <2>3 DEF AtWay
<1>3. ASSUME l \in Nat, NEW w \in Way, AtWay(c, l, w, dirtyOnly)
      PROVE  l \in UNION inSets
  <2>1. Set(l) \in 0 .. S - 1 /\ LineOf(Tag(l), Set(l)) = l
    BY <1>3, LineParts
  <2>2. counts(c.main[Set(l)][w]) /\ LineOf(c.main[Set(l)][w].tag, Set(l)) = l
    BY <1>3, <2>1 DEF AtWay
  <2>3. l \in inSet(Set(l))
    BY <2>2
  <2> HIDE DEF inSet
  <2> QED
    BY <2>1, <2>3
<1>4. l \in inVictim <=> \E v \in VictimWay : AtVictim(c, l, v, dirtyOnly)
  BY DEF AtVictim
<1>5. l \in inVictim => l \in Nat
  BY FieldsOf
<1> HIDE DEF inSets, inVictim
<1> QED
  BY <1>1, <1>2, <1>3, <1>4, <1>5 DEF Has

\* Renumbering the stamps moves no line.
LEMMA RenumberedHeld ==
    ASSUME NEW c \in ArraysType, NEW dirtyOnly \in BOOLEAN
    PROVE  Held(Renumbered(c), dirtyOnly) = Held(c, dirtyOnly)
<1>1. Renumbered(c) \in ArraysType
  BY RenumberedLines
<1>2. ASSUME NEW l \in Nat PROVE Has(Renumbered(c), l, dirtyOnly) <=> Has(c, l, dirtyOnly)
  <2>1. Set(l) \in 0 .. S - 1
    BY LineParts
  <2>2. \A w \in Way : AtWay(Renumbered(c), l, w, dirtyOnly) <=> AtWay(c, l, w, dirtyOnly)
    BY <2>1, RenumberedLines DEF AtWay
  <2>3. \A v \in VictimWay :
          AtVictim(Renumbered(c), l, v, dirtyOnly) <=> AtVictim(c, l, v, dirtyOnly)
    BY RenumberedLines DEF AtVictim
  <2> QED
    BY <2>2, <2>3 DEF Has
<1> QED
  BY <1>1, <1>2, HeldIff

\* After an access its line is held, dirty if the way it was put in says so.
LEMMA NewLineHeld ==
    ASSUME NEW c, NEW d, NEW line \in Nat, NEW w \in Way, NEW dirty, NEW now \in Nat,
           Good(d, now), Placed(c, d, line, w, dirty, now), NEW dirtyOnly \in BOOLEAN
    PROVE  Has(d, line, dirtyOnly) <=> (dirtyOnly => dirty)
<1>1. Set(line) \in 0 .. S - 1
  BY LineParts
<1>2. d.main[Set(line)][w].valid /\ d.main[Set(line)][w].tag = Tag(line)
      /\ d.main[Set(line)][w].dirty = dirty
  BY DEF Placed
<1>3. \A x \in Way : AtWay(d, line, x, dirtyOnly) => x = w
  BY <1>1, <1>2 DEF Good, MainUnique, AtWay
<1>4. InSet(d, line)
  BY <1>2 DEF InSet
<1>5. \A v \in VictimWay : ~AtVictim(d, line, v, dirtyOnly)
  BY <1>4 DEF Good, Apart, AtVictim
<1>6. AtWay(d, line, w, dirtyOnly) <=> (dirtyOnly => dirty)
  BY <1>2 DEF AtWay
<1> QED
  BY <1>3, <1>5, <1>6 DEF Has

\* Where another line than the new one lay in its set it still lies, unless in way w.
LEMMA OtherWays ==
    ASSUME NEW c, NEW d, NEW line \in Nat, NEW w \in Way, OnlyWay(c, d, line, w),
           NEW dirtyOnly \in BOOLEAN,
           NEW l \in Nat, l # line, NEW x \in Way
    PROVE  AtWay(d, l, x, dirtyOnly)
             <=> AtWay(c, l, x, dirtyOnly) /\ ~(Set(l) = Set(line) /\ x = w)
<1>1. Set(l) \in 0 .. S - 1
  BY LineParts
<1>2. CASE Set(l) = Set(line) /\ x = w
  <2>1. Tag(l) # Tag(line)
    BY <1>2, LineParts
  <2> QED
    BY <1>2, <2>1 DEF AtWay, OnlyWay
<1>3. CASE ~(Set(l) = Set(line) /\ x = w)
  <2>1. SameLine(d.main[Set(l)][x], c.main[Set(l)][x])
    BY <1>1, <1>3 DEF OnlyWay
  <2> QED
    BY <1>3, <2>1 DEF SameLine, AtWay
<1> QED
  BY <1>2, <1>3

\* The victim cache is the same in c and d; line l lies in way w of its set.
VictimsStay(c, d) == d.victim = c.victim
LiesIn(c, l, w)   == c.main[Set(l)][w].valid /\ c.main[Set(l)][w].tag = Tag(l)

\* An access that overwrites no other line changes nothing for the others.
LEMMA OthersKept ==
    ASSUME NEW c, NEW d, NEW line \in Nat, NEW w \in Way, OnlyWay(c, d, line, w),
           VictimsStay(c, d)
    PROVE  \A b \in BOOLEAN, l \in Nat :
              \/ l = line
              \/ Set(l) = Set(line) /\ LiesIn(c, l, w)
              \/ Has(d, l, b) <=> Has(c, l, b)
<1> SUFFICES ASSUME NEW b \in BOOLEAN, NEW l \in Nat, l # line,
                    ~(Set(l) = Set(line) /\ LiesIn(c, l, w))
             PROVE  Has(d, l, b) <=> Has(c, l, b)
  OBVIOUS
<1>1. \A x \in Way :
        AtWay(d, l, x, b) <=> AtWay(c, l, x, b) /\ ~(Set(l) = Set(line) /\ x = w)
  BY OtherWays
<1>2. \A x \in Way : AtWay(d, l, x, b) <=> AtWay(c, l, x, b)
  BY <1>1 DEF AtWay, LiesIn
<1>3. \A v \in VictimWay : AtVictim(d, l, v, b) <=> AtVictim(c, l, v, b)
  BY DEF AtVictim, VictimsStay
<1> QED
  BY <1>2, <1>3 DEF Has

\* A line that moves to the victim cache drops the one that lay there, no other.
LEMMA OthersMoved ==
    ASSUME NEW c, NEW d, NEW line \in Nat, NEW w \in Way, NEW v \in VictimWay,
           NEW now, Good(c, now), OnlyWay(c, d, line, w),
           MovedOut(c, d, Set(line), w, v), NEW dirtyOnly \in BOOLEAN,
           NEW l \in Nat, l # line
    PROVE  Has(d, l, dirtyOnly)
             <=> Has(c, l, dirtyOnly) /\ ~(c.victim[v].valid /\ c.victim[v].tag = l)
<1> DEFINE set == Set(line)
           out == LineOf(c.main[set][w].tag, set)
<1>1. set \in 0 .. S - 1 /\ c.main[set][w].tag \in Nat
  BY LineParts, FieldsOf DEF Good
<1>2. out \in Nat /\ Set(out) = set /\ Tag(out) = c.main[set][w].tag
  BY <1>1, TagOfLine
<1>3. \A x \in Way : AtWay(d, l, x, dirtyOnly)
        <=> AtWay(c, l, x, dirtyOnly) /\ ~(Set(l) = set /\ x = w)
  BY OtherWays
<1>4. \A x \in VictimWay \ {v} : AtVictim(d, l, x, dirtyOnly) <=> AtVictim(c, l, x, dirtyOnly)
  BY DEF MovedOut, AtVictim
<1>5. AtVictim(d, l, v, dirtyOnly) <=> AtWay(c, l, w, dirtyOnly) /\ Set(l) = set
  <2>1. l = out <=> Set(l) = set /\ Tag(l) = c.main[set][w].tag
    BY <1>2, LineParts
  <2> QED
    BY <2>1 DEF AtVictim, AtWay, MovedOut
<1>6. ASSUME c.victim[v].valid, c.victim[v].tag = l
      PROVE  /\ \A x \in Way : ~AtWay(c, l, x, dirtyOnly)
             /\ \A x \in VictimWay \ {v} : ~AtVictim(c, l, x, dirtyOnly)
  <2>1. ~InSet(c, l)
    BY <1>6 DEF Good, Apart
  <2> QED
    BY <1>6, <2>1 DEF InSet, AtWay, AtVictim, Good, VictimUnique
<1>7. AtVictim(c, l, v, dirtyOnly) => c.victim[v].valid /\ c.victim[v].tag = l
  BY DEF AtVictim
<1> HIDE DEF out, set
<1>8. ASSUME Has(d, l, dirtyOnly)
      PROVE  Has(c, l, dirtyOnly) /\ ~(c.victim[v].valid /\ c.victim[v].tag = l)
  <2>1. \/ \E x \in Way : AtWay(c, l, x, dirtyOnly)
        \/ \E x \in VictimWay \ {v} : AtVictim(c, l, x, dirtyOnly)
    BY <1>3, <1>4, <1>5, <1>8 DEF Has
  <2> QED
    BY <1>6, <2>1 DEF Has
<1>9. ASSUME Has(c, l, dirtyOnly), ~(c.victim[v].valid /\ c.victim[v].tag = l)
      PROVE  Has(d, l, dirtyOnly)
  <2>1. CASE \E x \in Way : AtWay(c, l, x, dirtyOnly)
    <3>1. PICK x \in Way : AtWay(c, l, x, dirtyOnly)
      BY <2>1
    <3>2. CASE Set(l) = set /\ x = w
      BY <1>5, <3>1, <3>2 DEF Has
    <3>3. CASE ~(Set(l) = set /\ x = w)
      BY <1>3, <3>1, <3>3 DEF Has
    <3> QED
      BY <3>2, <3>3
  <2>2. CASE \E x \in VictimWay : AtVictim(c, l, x, dirtyOnly)
    BY <1>4, <1>7, <1>9, <2>2 DEF Has
  <2> QED
    BY <1>9, <2>1, <2>2 DEF Has
<1> QED
  BY <1>8, <1>9

\* Of the lines other than the new one, d holds those that c holds, except "out".
Others(c, d, line, out) ==
    \A b \in BOOLEAN : \A l \in Nat \ {line} :
        Has(d, l, b) <=> Has(c, l, b) /\ l \notin out

\* So d holds all of these and the new line.
HeldNow(c, d, line, dirty, out) ==
    /\ Held(d, FALSE) = (Held(c, FALSE) \ out) \cup {line}
    /\ Held(d, TRUE) =
         ((Held(c, TRUE) \ out) \ {line}) \cup IF dirty THEN {line} ELSE {}

\* The held lines after an access, from what it does to each of them.
LEMMA HeldFrom ==
    ASSUME NEW c \in ArraysType, NEW d \in ArraysType, NEW line \in Nat, NEW dirty \in BOOLEAN,
           NEW out,
           \A b \in BOOLEAN : Has(d, line, b) <=> (b => dirty),
           Others(c, d, line, out)
    PROVE  HeldNow(c, d, line, dirty, out)
<1>1. \A l, b : b \in BOOLEAN => (l \in Held(c, b) <=> l \in Nat /\ Has(c, l, b))
  BY HeldIff
<1>2. \A l, b : b \in BOOLEAN => (l \in Held(d, b) <=> l \in Nat /\ Has(d, l, b))
  BY HeldIff
<1>3. ASSUME NEW l PROVE l \in Held(d, FALSE) <=> l \in (Held(c, FALSE) \ out) \cup {line}
  BY <1>1, <1>2 DEF Others
<1>4. ASSUME NEW l
      PROVE  l \in Held(d, TRUE)
               <=> l \in ((Held(c, TRUE) \ out) \ {line}) \cup IF dirty THEN {line} ELSE {}
  BY <1>1, <1>2 DEF Others
<1> QED
  BY <1>3, <1>4 DEF HeldNow

\* A line is held if a lookup finds it, dirty or not.
LEMMA HeldIfFound ==
    ASSUME NEW c \in ArraysType, NEW line \in Nat
    PROVE  /\ line \in Held(c, FALSE) <=> InSet(c, line) \/ InVictim(c, line)
           /\ line \in Held(c, TRUE) => line \in Held(c, FALSE)
<1>1. line \in Held(c, FALSE) <=> Has(c, line, FALSE)
  BY HeldIff
<1>2. line \in Held(c, TRUE) => Has(c, line, TRUE)
  BY HeldIff
<1>3. Has(c, line, TRUE) => Has(c, line, FALSE)
  BY DEF Has, AtWay, AtVictim
<1>4. Has(c, line, FALSE) <=> InSet(c, line) \/ InVictim(c, line)
  BY DEF Has, AtWay, AtVictim, InSet, InVictim
<1> QED
  BY <1>1, <1>2, <1>3, <1>4

\* A full set holds E lines, not counting those of it in the victim cache.
LEMMA FullSetHolds ==
    ASSUME NEW c, NEW now \in Nat, Good(c, now), NEW set \in 0 .. S - 1, Full(c, set)
    PROVE  Cardinality({l \in Held(c, FALSE) : Set(l) = set}) >= E
<1> DEFINE lines == {l \in Held(c, FALSE) : Set(l) = set}
           at == [w \in Way |-> LineOf(c.main[set][w].tag, set)]
           in == [v \in VictimWay |-> c.victim[v].tag]
           all == {at[w] : w \in Way} \cup {in[v] : v \in VictimWay}
<1>1. c \in ArraysType
  BY DEF Good
<1>2. \A w \in Way : /\ at[w] \in Nat
                     /\ Set(at[w]) = set
                     /\ Tag(at[w]) = c.main[set][w].tag
  BY <1>1, FieldsOf, TagOfLine
<1>3. \A w \in Way : at[w] \in lines
  <2> SUFFICES ASSUME NEW w \in Way PROVE at[w] \in lines
    OBVIOUS
  <2>1. AtWay(c, at[w], w, FALSE)
    BY <1>2 DEF AtWay, Full
  <2>2. Has(c, at[w], FALSE)
    BY <2>1 DEF Has
  <2>3. at[w] \in Held(c, FALSE)
    BY <1>1, <1>2, <2>2, HeldIff
  <2> QED
    BY <1>2, <2>3
<1>4. at \in Injection(Way, lines)
  <2>1. \A w, x \in Way : at[w] = at[x] => w = x
    BY <1>2 DEF Good, MainUnique, Full
  <2>2. at \in [Way -> lines]
    BY <1>3
  <2> HIDE DEF at, lines
  <2> QED
    BY <2>1, <2>2 DEF Injection, IsInjective
<1>5. lines \subseteq all
  <2> SUFFICES ASSUME NEW l \in Held(c, FALSE), Set(l) = set PROVE l \in all
    OBVIOUS
  <2>1. l \in Nat /\ Has(c, l, FALSE)
    BY <1>1, HeldIff
  <2>2. ASSUME NEW w \in Way, AtWay(c, l, w, FALSE) PROVE l = at[w]
    BY <1>2, <2>1, <2>2, LineParts DEF AtWay
  <2>3. ASSUME NEW v \in VictimWay, AtVictim(c, l, v, FALSE) PROVE l = in[v]
    BY <2>3 DEF AtVictim
  <2> HIDE DEF at, in
  <2> QED
    BY <2>1, <2>2, <2>3 DEF Has
<1>6. IsFiniteSet(Way) /\ Cardinality(Way) = E /\ IsFiniteSet(VictimWay)
  BY FS_Interval, GeometryAssumption DEF Way, VictimWay
<1> HIDE DEF at, in, lines
<1>7. IsFiniteSet({at[w] : w \in Way}) /\ IsFiniteSet({in[v] : v \in VictimWay})
  <2>1. at \in Surjection(Way, {at[w] : w \in Way})
    BY DEF Surjection, at
  <2>2. in \in Surjection(VictimWay, {in[v] : v \in VictimWay})
    BY DEF Surjection, in
  <2> QED
    BY <1>6, <2>1, <2>2, FS_Surjection
<1>8. IsFiniteSet(all)
  BY <1>7, FS_Union
<1>9. IsFiniteSet(lines)
  BY <1>5, <1>8, FS_Subset
<1>10. Cardinality(Way) <= Cardinality(lines) /\ Cardinality(lines) \in Nat
  BY <1>4, <1>9, FS_Injection, FS_CardinalityType
<1> QED
  BY <1>6, <1>10, GeometryAssumption DEF lines

\* What an access says and does, as a set of lines sees it.
StoreEffectOf(c, d, res, evicted, line, isStore) ==
    LET stored == IF isStore THEN {line} ELSE {}
    IN \/ /\ line \in Held(c, FALSE) /\ res = "HIT" /\ evicted = {}
          /\ Held(d, FALSE) = Held(c, FALSE)
          /\ Held(d, TRUE) = Held(c, TRUE) \cup stored
       \/ /\ line \notin Held(c, FALSE)
          /\ \/ evicted = {} /\ res = "MISS"
             \/ /\ \E out \in Held(c, FALSE) : evicted = {out}
                /\ res = "MISS_EVICT"
                /\ Cardinality({l \in Held(c, FALSE) : Set(l) = Set(line)}) >= E
          /\ Held(d, FALSE) = (Held(c, FALSE) \ evicted) \cup {line}
          /\ Held(d, TRUE) = (Held(c, TRUE) \ evicted) \cup stored

\* Every access is a step of a set of lines.
LEMMA AccessIsStore ==
    ASSUME NEW c, NEW line \in Nat, NEW isStore \in BOOLEAN, NEW now \in Nat, Good(c, now)
    PROVE  LET a == Access(c, line, isStore, now)
           IN StoreEffectOf(c, a.arrays, a.res, a.evicted, line, isStore)
<1> DEFINE a == Access(c, line, isStore, now)
           d == a.arrays
           set == Set(line)
<1>1. AccessEffect(c, d, a.res, a.evicted, line, isStore, now)
  BY AccessIs DEF Good
<1>2. Good(d, now)
  BY AccessGood
<1>3. c \in ArraysType /\ d \in ArraysType /\ set \in 0 .. S - 1
  BY <1>2, LineParts DEF Good
<1> SUFFICES StoreEffectOf(c, d, a.res, a.evicted, line, isStore)
  OBVIOUS
<1> DEFINE res == a.res
           evicted == a.evicted
<1> HIDE DEF a, d, res, evicted
<1>4. /\ line \in Held(c, FALSE) <=> InSet(c, line) \/ InVictim(c, line)
      /\ line \in Held(c, TRUE) => line \in Held(c, FALSE)
  BY <1>3, HeldIfFound
<1>5. ASSUME NEW w \in Way, NEW dirty \in BOOLEAN, Placed(c, d, line, w, dirty, now), NEW out,
             Others(c, d, line, out)
      PROVE  HeldNow(c, d, line, dirty, out)
  <2>1. \A b \in BOOLEAN : Has(d, line, b) <=> (b => dirty)
    BY <1>2, <1>5, NewLineHeld
  <2> QED
    BY <1>3, <1>5, <2>1, HeldFrom
\* A hit, in the set or in the victim cache.
<1>6. ASSUME NEW w \in Way, NEW was \in BOOLEAN,
             Placed(c, d, line, w, was \/ isStore, now),
             was <=> line \in Held(c, TRUE), line \in Held(c, FALSE),
             \A b \in BOOLEAN : \A l \in Nat \ {line} : Has(d, l, b) <=> Has(c, l, b)
      PROVE  /\ Held(d, FALSE) = Held(c, FALSE)
             /\ Held(d, TRUE) = Held(c, TRUE) \cup IF isStore THEN {line} ELSE {}
  <2>1. (was \/ isStore) \in BOOLEAN
    BY Zenon
  <2>2. Others(c, d, line, {})
    BY <1>6 DEF Others
  <2>3. HeldNow(c, d, line, was \/ isStore, {})
    BY <1>5, <1>6, <2>1, <2>2
  <2> QED
    BY <1>6, <2>3 DEF HeldNow
<1>7. CASE res = "HIT" /\ evicted = {} /\ InSet(c, line) /\ HitEffect(c, d, line, isStore, now)
  <2>1. PICK w \in Way : /\ c.main[set][w].valid
                         /\ c.main[set][w].tag = Tag(line)
                         /\ Placed(c, d, line, w, c.main[set][w].dirty \/ isStore, now)
                         /\ OnlyWay(c, d, line, w)
                         /\ d.victim = c.victim
    BY <1>7 DEF HitEffect, Placed, OnlyWay
  <2>2. c.main[set][w].dirty \in BOOLEAN
    BY <1>3, FieldsOf
  <2>3. c.main[set][w].dirty <=> line \in Held(c, TRUE)
    <3>1. line \in Held(c, TRUE) <=> Has(c, line, TRUE)
      BY <1>3, HeldIff
    <3>2. \A v \in VictimWay : ~AtVictim(c, line, v, TRUE)
      BY <1>7 DEF Good, Apart, AtVictim
    <3>3. \A x \in Way : AtWay(c, line, x, TRUE) => x = w
      BY <1>3, <2>1 DEF Good, MainUnique, AtWay
    <3>4. AtWay(c, line, w, TRUE) <=> c.main[set][w].dirty
      BY <2>1 DEF AtWay
    <3> QED
      BY <3>1, <3>2, <3>3, <3>4 DEF Has
  <2>4. \A b \in BOOLEAN : \A l \in Nat \ {line} : Has(d, l, b) <=> Has(c, l, b)
    <3> SUFFICES ASSUME NEW b \in BOOLEAN, NEW l \in Nat \ {line}
                 PROVE  Has(d, l, b) <=> Has(c, l, b)
      OBVIOUS
    <3>1. ~(Set(l) = set /\ LiesIn(c, l, w))
      BY <2>1, LineParts DEF LiesIn
    <3>2. l \in Nat /\ l # line
      OBVIOUS
    <3>3. OnlyWay(c, d, line, w) /\ VictimsStay(c, d)
      BY <2>1 DEF VictimsStay
    <3> QED
      BY <3>1, <3>2, <3>3, OthersKept
  <2>5. line \in Held(c, FALSE)
    BY <1>4, <1>7
  <2>6. /\ Held(d, FALSE) = Held(c, FALSE)
        /\ Held(d, TRUE) = Held(c, TRUE) \cup IF isStore THEN {line} ELSE {}
    BY <1>6, <2>1, <2>2, <2>3, <2>4, <2>5
  <2> QED
    BY <1>7, <2>5, <2>6 DEF StoreEffectOf, res, evicted
<1>8. CASE /\ res = "HIT" /\ evicted = {} /\ ~InSet(c, line)
           /\ SwapEffect(c, d, line, isStore, now)
  <2>1. PICK w \in Way, v \in VictimWay :
               /\ c.victim[v].valid /\ c.victim[v].tag = line
               /\ Placed(c, d, line, w, c.victim[v].dirty \/ isStore, now)
               /\ OnlyWay(c, d, line, w)
               /\ MovedOut(c, d, set, w, v)
    BY <1>8 DEF SwapEffect, Placed, OnlyWay
  <2>2. c.victim[v].dirty \in BOOLEAN
    BY <1>3, FieldsOf
  <2>3. c.victim[v].dirty <=> line \in Held(c, TRUE)
    <3>1. line \in Held(c, TRUE) <=> Has(c, line, TRUE)
      BY <1>3, HeldIff
    <3>2. \A x \in VictimWay : AtVictim(c, line, x, TRUE) => x = v
      BY <2>1 DEF Good, VictimUnique, AtVictim
    <3>3. \A x \in Way : ~AtWay(c, line, x, TRUE)
      BY <1>8 DEF InSet, AtWay
    <3>4. AtVictim(c, line, v, TRUE) <=> c.victim[v].dirty
      BY <2>1 DEF AtVictim
    <3> QED
      BY <3>1, <3>2, <3>3, <3>4 DEF Has
  <2>4. \A b \in BOOLEAN : \A l \in Nat \ {line} : Has(d, l, b) <=> Has(c, l, b)
    <3> SUFFICES ASSUME NEW b \in BOOLEAN, NEW l \in Nat \ {line}
                 PROVE  Has(d, l, b) <=> Has(c, l, b)
      OBVIOUS
    <3>1. Has(d, l, b) <=> Has(c, l, b) /\ ~(c.victim[v].valid /\ c.victim[v].tag = l)
      BY <2>1, OthersMoved
    <3> QED
      BY <2>1, <3>1
  <2>5. line \in Held(c, FALSE)
    BY <1>4, <2>1 DEF InVictim
  <2>6. /\ Held(d, FALSE) = Held(c, FALSE)
        /\ Held(d, TRUE) = Held(c, TRUE) \cup IF isStore THEN {line} ELSE {}
    BY <1>6, <2>1, <2>2, <2>3, <2>4, <2>5
  <2> QED
    BY <1>8, <2>5, <2>6 DEF StoreEffectOf, res, evicted
\* A miss.
<1>9. ASSUME Missed(c, line), NEW w \in Way, Placed(c, d, line, w, isStore, now), NEW out,
             Others(c, d, line, out)
      PROVE  /\ line \notin Held(c, FALSE)
             /\ Held(d, FALSE) = (Held(c, FALSE) \ out) \cup {line}
             /\ Held(d, TRUE) = (Held(c, TRUE) \ out) \cup IF isStore THEN {line} ELSE {}
  <2>1. line \notin Held(c, FALSE) /\ line \notin Held(c, TRUE)
    BY <1>4, <1>9 DEF Missed
  <2>2. HeldNow(c, d, line, isStore, out)
    BY <1>5, <1>9
  <2> QED
    BY <2>1, <2>2 DEF HeldNow
<1>10. CASE res = "MISS" /\ evicted = {} /\ Missed(c, line)
            /\ FillEffect(c, d, line, isStore, now)
  <2>1. PICK w \in Way : /\ ~c.main[set][w].valid
                         /\ Placed(c, d, line, w, isStore, now)
                         /\ OnlyWay(c, d, line, w)
                         /\ d.victim = c.victim
    BY <1>10 DEF FillEffect, Placed, OnlyWay
  <2>2. Others(c, d, line, {})
    <3> SUFFICES ASSUME NEW b \in BOOLEAN, NEW l \in Nat \ {line}
                 PROVE  Has(d, l, b) <=> Has(c, l, b)
      BY DEF Others
    <3>1. ~(Set(l) = set /\ LiesIn(c, l, w))
      BY <2>1 DEF LiesIn
    <3>2. l \in Nat /\ l # line
      OBVIOUS
    <3>3. OnlyWay(c, d, line, w) /\ VictimsStay(c, d)
      BY <2>1 DEF VictimsStay
    <3> QED
      BY <3>1, <3>2, <3>3, OthersKept
  <2>3. /\ line \notin Held(c, FALSE)
        /\ Held(d, FALSE) = (Held(c, FALSE) \ {}) \cup {line}
        /\ Held(d, TRUE) = (Held(c, TRUE) \ {}) \cup IF isStore THEN {line} ELSE {}
    BY <1>9, <1>10, <2>1, <2>2
  <2> QED
    BY <1>10, <2>3 DEF StoreEffectOf, res, evicted
<1>11. CASE /\ res = "MISS" /\ evicted = {} /\ Missed(c, line)
            /\ \E v \in VictimWay :
                 ~c.victim[v].valid /\ DemoteEffect(c, d, line, isStore, now, v)
  <2>1. PICK v \in VictimWay, w \in Way : /\ ~c.victim[v].valid
                                          /\ Placed(c, d, line, w, isStore, now)
                                          /\ OnlyWay(c, d, line, w)
                                          /\ MovedOut(c, d, set, w, v)
    BY <1>11 DEF DemoteEffect, Placed, OnlyWay
  <2>2. Others(c, d, line, {})
    BY <2>1, OthersMoved DEF Others
  <2>3. /\ line \notin Held(c, FALSE)
        /\ Held(d, FALSE) = (Held(c, FALSE) \ {}) \cup {line}
        /\ Held(d, TRUE) = (Held(c, TRUE) \ {}) \cup IF isStore THEN {line} ELSE {}
    BY <1>9, <1>11, <2>1, <2>2
  <2> QED
    BY <1>11, <2>3 DEF StoreEffectOf, res, evicted
<1>12. CASE /\ res = "MISS_EVICT" /\ Missed(c, line)
            /\ \E v \in VictimWay :
                 /\ \A x \in VictimWay : c.victim[x].valid /\ c.victim[v].LRU <= c.victim[x].LRU
                 /\ evicted = {c.victim[v].tag}
                 /\ DemoteEffect(c, d, line, isStore, now, v)
  <2>1. PICK v \in VictimWay, w \in Way : /\ c.victim[v].valid
                                          /\ evicted = {c.victim[v].tag}
                                          /\ Full(c, set)
                                          /\ Placed(c, d, line, w, isStore, now)
                                          /\ OnlyWay(c, d, line, w)
                                          /\ MovedOut(c, d, set, w, v)
    BY <1>12 DEF DemoteEffect, Placed, OnlyWay
  <2>2. Others(c, d, line, evicted)
    <3>1. \A b \in BOOLEAN : \A l \in Nat \ {line} :
            Has(d, l, b) <=> Has(c, l, b) /\ ~(c.victim[v].valid /\ c.victim[v].tag = l)
      BY <2>1, OthersMoved
    <3> QED
      BY <2>1, <3>1 DEF Others
  <2>3. /\ line \notin Held(c, FALSE)
        /\ Held(d, FALSE) = (Held(c, FALSE) \ evicted) \cup {line}
        /\ Held(d, TRUE) = (Held(c, TRUE) \ evicted) \cup IF isStore THEN {line} ELSE {}
    BY <1>9, <1>12, <2>1, <2>2
  <2>4. c.victim[v].tag \in Held(c, FALSE)
    <3>1. c.victim[v].tag \in Nat
      BY <1>3, FieldsOf
    <3> QED
      BY <1>3, <2>1, <3>1, HeldIfFound DEF InVictim
  <2>5. Cardinality({l \in Held(c, FALSE) : Set(l) = set}) >= E
    BY <1>3, <2>1, FullSetHolds
  <2> QED
    BY <1>12, <2>1, <2>3, <2>4, <2>5 DEF StoreEffectOf, res, evicted
<1>13. CASE /\ res = "MISS_EVICT" /\ Missed(c, line) /\ VictimWay = {}
            /\ \E out \in Nat : evicted = {out} /\ ReplaceEffect(c, d, line, isStore, now, out)
  <2>1. PICK out \in Nat, w \in Way : /\ evicted = {out}
                                      /\ Full(c, set)
                                      /\ Placed(c, d, line, w, isStore, now)
                                      /\ OnlyWay(c, d, line, w)
                                      /\ out = LineOf(c.main[set][w].tag, set)
                                      /\ d.victim = c.victim
    BY <1>13 DEF ReplaceEffect, Placed, OnlyWay
  <2>2. Set(out) = set /\ Tag(out) = c.main[set][w].tag
    BY <1>3, <2>1, FieldsOf, TagOfLine
  <2>3. Others(c, d, line, evicted)
    <3> SUFFICES ASSUME NEW b \in BOOLEAN, NEW l \in Nat \ {line}
                 PROVE  Has(d, l, b) <=> Has(c, l, b) /\ l # out
      BY <2>1 DEF Others
    <3>1. CASE l = out
      <4>1. \A x \in Way : ~AtWay(d, l, x, b)
        <5> SUFFICES ASSUME NEW x \in Way, AtWay(d, l, x, b) PROVE FALSE
          OBVIOUS
        <5>1. AtWay(c, l, x, b) /\ x # w
          BY <2>1, <2>2, <3>1, OtherWays
        <5> QED
          BY <1>3, <2>1, <2>2, <3>1, <5>1, ZenonT(40) DEF AtWay, Good, MainUnique, Full
      <4> QED
        BY <1>13, <3>1, <4>1 DEF Has
    <3>2. CASE l # out
      <4>1. ~(Set(l) = set /\ LiesIn(c, l, w))
        BY <2>1, <2>2, <3>2, LineParts DEF LiesIn
      <4>2. l \in Nat /\ l # line
        OBVIOUS
      <4>3. OnlyWay(c, d, line, w) /\ VictimsStay(c, d)
        BY <2>1 DEF VictimsStay
      <4>4. Has(d, l, b) <=> Has(c, l, b)
        BY <4>1, <4>2, <4>3, OthersKept
      <4> QED
        BY <3>2, <4>4
    <3> QED
      BY <3>1, <3>2
  <2>4. /\ line \notin Held(c, FALSE)
        /\ Held(d, FALSE) = (Held(c, FALSE) \ evicted) \cup {line}
        /\ Held(d, TRUE) = (Held(c, TRUE) \ evicted) \cup IF isStore THEN {line} ELSE {}
    BY <1>9, <1>13, <2>1, <2>3
  <2>5. out \in Held(c, FALSE)
    <3>1. InSet(c, out)
      BY <2>1, <2>2 DEF InSet, Full
    <3> QED
      BY <1>3, <3>1, HeldIfFound
  <2>6. Cardinality({l \in Held(c, FALSE) : Set(l) = set}) >= E
    BY <1>3, <2>1, FullSetHolds
  <2> QED
    BY <1>13, <2>1, <2>4, <2>5, <2>6 DEF StoreEffectOf, res, evicted
<1> QED
  BY <1>1, <1>7, <1>8, <1>10, <1>11, <1>12, <1>13 DEF AccessEffect, res, evicted

-----------------------------------------------------------------------------
(* The arrays implement LineStore.                                         *)

\* Empty arrays hold no line.
LEMMA StoresNothingAtFirst == ArrayInit => Lines!Init
<1> SUFFICES ASSUME ArrayInit PROVE Lines!Init
  OBVIOUS
<1>1. ArrayInv
  BY ArrayInvInit
<1>2. Arrays \in ArraysType
  BY <1>1 DEF ArrayInv, Good
<1>3. ASSUME NEW l \in Nat, NEW b \in BOOLEAN PROVE ~Has(Arrays, l, b)
  <2>1. Set(l) \in 0 .. S - 1
    BY LineParts
  <2>2. \A w \in Way : ~Arrays.main[Set(l)][w].valid
    BY <2>1 DEF ArrayInit, Arrays, Empty
  <2>3. \A v \in VictimWay : ~Arrays.victim[v].valid
    BY DEF ArrayInit, Arrays, Empty
  <2> QED
    BY <2>2, <2>3 DEF Has, AtWay, AtVictim
<1>4. HeldWhere(FALSE) = {} /\ HeldWhere(TRUE) = {}
  <2>1. \A b \in BOOLEAN : \A l : l \in Held(Arrays, b) => FALSE
    BY <1>2, <1>3, HeldIff
  <2> QED
    BY <2>1 DEF HeldWhere
<1>5. result = [res |-> "HIT", evicted |-> {}]
  BY DEF ArrayInit, NoResult
<1> QED
  BY <1>4, <1>5 DEF Lines!Init

\* The held lines after a Store.
LEMMA StoreHolds ==
    ASSUME NEW c, NEW now \in Nat, Good(c, now), ArrayTypeOK, Store(c, now)
    PROVE  HeldWhere(FALSE)' = Held(c, FALSE) /\ HeldWhere(TRUE)' = Held(c, TRUE)
<1>1. Arrays' = Renumbered(c)
  BY StoreEffect
<1>2. c \in ArraysType
  BY DEF Good
<1>3. /\ Held(Renumbered(c), FALSE) = Held(c, FALSE)
      /\ Held(Renumbered(c), TRUE) = Held(c, TRUE)
  BY <1>2, RenumberedHeld
<1>4. HeldWhere(FALSE)' = Held(Arrays', FALSE) /\ HeldWhere(TRUE)' = Held(Arrays', TRUE)
  BY DEF HeldWhere, Held, LineOf
<1> QED
  BY <1>1, <1>3, <1>4

\* An access is a hit or a miss of the set of lines, whatever was swapped,
\* demoted or renamed for it.
LEMMA AccessStores ==
    ASSUME ArrayInv, NEW line \in Line, NEW isStore \in BOOLEAN, AccessOne(line, isStore)
    PROVE  Lines!Next
<1> DEFINE a == Access(Arrays, line, isStore, iteration)
           held == HeldWhere(FALSE)
           dirty == HeldWhere(TRUE)
           stored == IF isStore THEN {line} ELSE {}
<1>1. Good(Arrays, iteration) /\ ArrayTypeOK /\ iteration \in Nat /\ line \in Nat
  BY LineAssumption DEF ArrayInv, ArrayTypeOK
<1>2. Good(a.arrays, iteration)
  BY <1>1, AccessGood
<1>3. StoreEffectOf(Arrays, a.arrays, a.res, a.evicted, line, isStore)
  BY <1>1, AccessIsStore
<1>4. Store(a.arrays, iteration) /\ result' = [res |-> a.res, evicted |-> a.evicted]
  BY DEF AccessOne
<1>5. held' = Held(a.arrays, FALSE) /\ dirty' = Held(a.arrays, TRUE)
  BY <1>1, <1>2, <1>4, StoreHolds
<1>6. held = Held(Arrays, FALSE) /\ dirty = Held(Arrays, TRUE)
  BY DEF HeldWhere
<1> HIDE DEF a, held, dirty
<1>7. CASE /\ line \in held /\ a.res = "HIT" /\ a.evicted = {}
           /\ held' = held /\ dirty' = dirty \cup stored
  <2>1. Lines!Hit(line, isStore)
    BY <1>4, <1>7 DEF Lines!Hit, held, dirty
  <2> QED
    BY <2>1 DEF Lines!Next
<1>8. CASE /\ line \notin held
           /\ a.evicted = {} /\ a.res = "MISS"
           /\ held' = (held \ a.evicted) \cup {line}
           /\ dirty' = (dirty \ a.evicted) \cup stored
  <2>1. Lines!Miss(line, isStore, {})
    BY <1>4, <1>8 DEF Lines!Miss, held, dirty
  <2> QED
    BY <2>1 DEF Lines!Next
<1>9. CASE /\ line \notin held
           /\ \E out \in held : a.evicted = {out}
           /\ a.res = "MISS_EVICT"
           /\ Cardinality({l \in held : Set(l) = Set(line)}) >= E
           /\ held' = (held \ a.evicted) \cup {line}
           /\ dirty' = (dirty \ a.evicted) \cup stored
  <2>1. PICK out \in held : a.evicted = {out}
    BY <1>9
  <2>2. {out} # {}
    OBVIOUS
  <2>3. \A lines : Lines!Cardinality(lines) = Cardinality(lines)
    BY DEF Lines!Cardinality, Cardinality
  <2>4. Lines!Miss(line, isStore, {out})
    BY <1>4, <1>9, <2>1, <2>2, <2>3 DEF Lines!Miss, held, dirty
  <2> QED
    BY <2>1, <2>4 DEF Lines!Next, held
<1> QED
  BY <1>3, <1>5, <1>6, <1>7, <1>8, <1>9 DEF StoreEffectOf

\* Every step of the arrays is a step of LineStore or changes none of its state.
LEMMA StepStores == ArrayInv /\ [ArrayNext]_arrayVars => [Lines!Next]_(Lines!vars)
<1> SUFFICES ASSUME ArrayInv, [ArrayNext]_arrayVars
             PROVE  Lines!Next \/ UNCHANGED Lines!vars
  OBVIOUS
<1>1. CASE \E line \in Line, isStore \in BOOLEAN : AccessOne(line, isStore)
  BY <1>1, AccessStores
<1>2. CASE ArrayTick
  <2>1. Good(Arrays, iteration) /\ ArrayTypeOK /\ iteration + 1 \in Nat
    BY DEF ArrayInv, ArrayTypeOK
  <2>2. Good(Arrays, iteration + 1)
    <3>1. Arrays \in ArraysType
      BY <2>1 DEF Good
    <3>2. Stamped(Arrays, iteration + 1)
      BY <2>1, <3>1, FieldsOf DEF Good, Stamped, ArrayTypeOK
    <3> QED
      BY <2>1, <3>2 DEF Good
  <2>3. Store(Arrays, iteration + 1) /\ result' = result
    BY <1>2 DEF ArrayTick
  <2>4. /\ HeldWhere(FALSE)' = Held(Arrays, FALSE)
        /\ HeldWhere(TRUE)' = Held(Arrays, TRUE)
    BY <2>1, <2>2, <2>3, StoreHolds
  <2> QED
    BY <2>3, <2>4 DEF Lines!vars, HeldWhere
<1>3. CASE UNCHANGED arrayVars
  BY <1>3 DEF arrayVars, Lines!vars, HeldWhere, Held, Arrays, LineOf
<1> QED
  BY <1>1, <1>2, <1>3 DEF ArrayNext

\* The main sets and the victim cache implement one set of lines: no access loses,
\* doubles or renames a line or its dirty bit, the line reported as evicted is the one
\* that left, and none leaves while its set has room. For any number of sets, ways and
\* victim entries, under LRU and under RRIP.
THEOREM ArraysImplementLineStore == ArraySpec => ImplementsLineStore
<1>1. ArrayInit => Lines!Init
  BY StoresNothingAtFirst
<1>2. ArrayInv /\ [ArrayNext]_arrayVars => [Lines!Next]_(Lines!vars)
  BY StepStores
<1> QED
  BY <1>1, <1>2, ArrayInvHolds, PTL DEF ArraySpec, ImplementsLineStore, Lines!Spec

-----------------------------------------------------------------------------
(* The request queue between the arrays and coherence.                     *)

\* The queue: for each access its coherence requests, oldest access first.
Queue == Seq(Seq(PendingRequest))
Pos   == Nat \ {0}

\* Request j of access i gives up a line.
GivesUp(q, i, j) == At(q, i, j) /\ q[i][j].requestType = "INV"

\* It is the first one for its line.
FirstAsked(q, i, j) ==
    /\ At(q, i, j)
    /\ \A k, l \in Pos : At(q, k, l) /\ Before(k, l, i, j) => q[k][l].addr # q[i][j].addr

\* It is the next one for the line that request l of access k is for.
Follows(q, k, l, i, j) ==
    /\ At(q, k, l) /\ At(q, i, j) /\ Before(k, l, i, j)
    /\ q[k][l].addr = q[i][j].addr
    /\ \A m, n \in Pos :
         At(q, m, n) /\ Before(k, l, m, n) /\ Before(m, n, i, j) => q[m][n].addr # q[i][j].addr

\* The lines in the arrays are asked for or granted, ...
HeldAsked(q, H, c) ==
    \A a \in H :
        /\ Unasked(q, a) => c[a] \in Readable
        /\ \A i, j \in Pos : LastFor(q, a, i, j) => q[i][j].requestType = "PERM"

\* ... and the others given up, asked to be given up or never granted.
OthersGiven(q, H, c) ==
    S > 1 =>
      \A a \in Line \ H :
        /\ Unasked(q, a) => c[a] \notin Readable
        /\ \A i, j \in Pos : LastFor(q, a, i, j) => q[i][j].requestType = "INV"

\* A line is given up only when it is granted, or will be by then.
FirstGranted(q, c, started) ==
    \A i, j \in Pos :
        GivesUp(q, i, j) /\ FirstAsked(q, i, j) /\ ~(started /\ i = 1 /\ j = 1) =>
            c[q[i][j].addr] \in Readable

\* A line that was asked for or given up earlier in the queue is asked for before it is
\* given up (again).
AskedBefore(q) ==
    \A i, j, k, l \in Pos :
        GivesUp(q, i, j) /\ Follows(q, k, l, i, j) => q[k][l].requestType = "PERM"

\* An eviction is followed by a request in the same access.
RowPaired(x) ==
    \A j \in DOMAIN x : x[j].requestType = "INV" =>
        j + 1 \in DOMAIN x /\ x[j + 1].requestType = "PERM"

\* ... in every access.
Paired(q) == \A i \in DOMAIN q : RowPaired(q[i])

\* The queue q between the lines H of the arrays and the states c of coherence.
QueueOK(q, H, c, started) ==
    /\ q \in Queue
    /\ HeldAsked(q, H, c)
    /\ OthersGiven(q, H, c)
    /\ FirstGranted(q, c, started)
    /\ AskedBefore(q)

-----------------------------------------------------------------------------
\* Positions in the queue are positive, and hold requests.
LEMMA AtType ==
    ASSUME NEW q \in Queue, NEW i, NEW j, At(q, i, j)
    PROVE  i \in Pos /\ j \in Pos /\ q[i][j] \in PendingRequest
  BY DEF At, Queue, Pos

\* Unasked, by positions.
LEMMA UnaskedIff ==
    ASSUME NEW q \in Queue, NEW a
    PROVE  Unasked(q, a) <=> \A i, j \in Pos : At(q, i, j) => q[i][j].addr # a
  BY AtType DEF At, Unasked

\* LastFor, by positions.
LEMMA LastForIff ==
    ASSUME NEW q \in Queue, NEW a, NEW i, NEW j
    PROVE  LastFor(q, a, i, j) <=>
             /\ At(q, i, j)
             /\ q[i][j].addr = a
             /\ \A k, l \in Pos : At(q, k, l) /\ Before(i, j, k, l) => q[k][l].addr # a
  BY AtType DEF At, LastFor

-----------------------------------------------------------------------------
\* The position of a request before the first request of the queue is taken off.
Off(i, j) == IF i = 1 THEN j + 1 ELSE j
\* The queue without its first request (Dequeued, for any queue).
Without(q) == <<Tail(Head(q))>> \o Tail(q)

\* Taking the first request off moves the rest of its access, and nothing else.
LEMMA WithoutShape ==
    ASSUME NEW q \in Queue, q # <<>>, Head(q) # <<>>
    PROVE  LET d == Without(q)
           IN /\ d \in Queue /\ Len(d) = Len(q) /\ d # <<>>
              /\ Head(d) = Tail(Head(q))
              /\ At(q, 1, 1) /\ q[1][1] = Head(Head(q)) /\ q[1][1] \in PendingRequest
              /\ \A i, j \in Pos :
                   /\ At(d, i, j) <=> At(q, i, Off(i, j))
                   /\ At(d, i, j) => d[i][j] = q[i][Off(i, j)]
<1> DEFINE d == Without(q)
           t == Tail(Head(q))
<1>1. Head(q) \in Seq(PendingRequest) /\ Tail(q) \in Queue /\ Len(Tail(q)) = Len(q) - 1
      /\ Len(q) \in Nat /\ Len(q) > 0
  BY DEF Queue
<1>2. t \in Seq(PendingRequest) /\ Len(t) = Len(Head(q)) - 1
      /\ \A j \in 1 .. Len(t) : t[j] = Head(q)[j + 1]
  BY <1>1
<1>3. \A i \in 1 .. Len(q) - 1 : Tail(q)[i] = q[i + 1]
  BY <1>1 DEF Queue
<1>4. Head(q) = q[1]
  BY DEF Queue
<1> HIDE DEF t
<1>5. d = <<t>> \o Tail(q)
  BY DEF Without, t
<1>6. d \in Queue /\ Len(d) = Len(q) /\ d[1] = t
      /\ \A i \in 2 .. Len(q) : d[i] = Tail(q)[i - 1]
  BY <1>1, <1>2, <1>5 DEF Queue
<1>7. \A i \in 2 .. Len(q) : d[i] = q[i]
  BY <1>1, <1>3, <1>6
<1> HIDE DEF d
<1>8. DOMAIN d = 1 .. Len(q) /\ DOMAIN q = 1 .. Len(q)
  BY <1>1, <1>6 DEF Queue
<1>9. DOMAIN t = 1 .. Len(t) /\ DOMAIN q[1] = 1 .. Len(t) + 1 /\ Len(t) \in Nat
  BY <1>1, <1>2, <1>4
<1>10. ASSUME NEW i \in Pos, NEW j \in Pos
       PROVE  /\ At(d, i, j) <=> At(q, i, Off(i, j))
              /\ At(d, i, j) => d[i][j] = q[i][Off(i, j)]
  <2>1. CASE i = 1
    BY <1>1, <1>2, <1>4, <1>6, <1>8, <1>9, <2>1 DEF At, Off, Pos
  <2>2. CASE i # 1
    BY <1>1, <1>7, <1>8, <2>2 DEF At, Off, Pos
  <2> QED
    BY <2>1, <2>2
<1>11. At(q, 1, 1) /\ q[1][1] = Head(Head(q)) /\ q[1][1] \in PendingRequest
  BY <1>1, <1>4, <1>8, <1>9 DEF At
<1>12. Head(d) = t /\ d # <<>>
  BY <1>1, <1>6, <1>8 DEF Queue
<1> QED
  BY <1>6, <1>10, <1>11, <1>12 DEF d, t

-----------------------------------------------------------------------------
\* Taking it off does not change the order of the others.
LEMMA OffKeepsOrder ==
    ASSUME NEW i \in Pos, NEW j \in Pos, NEW k \in Pos, NEW l \in Pos
    PROVE  /\ Off(i, j) \in Pos
           /\ Before(i, Off(i, j), k, Off(k, l)) <=> Before(i, j, k, l)
           /\ Before(1, 1, i, Off(i, j))
           /\ ~(i = 1 /\ Off(i, j) = 1)
  BY DEF Off, Pos, Before

\* Every request but the first is still there.
LEMMA WithoutCovers ==
    ASSUME NEW q \in Queue, q # <<>>, Head(q) # <<>>, NEW k \in Pos, NEW l \in Pos, At(q, k, l)
    PROVE  \/ k = 1 /\ l = 1
           \/ \E j \in Pos : l = Off(k, j) /\ At(Without(q), k, j)
<1> SUFFICES ASSUME ~(k = 1 /\ l = 1)
             PROVE  \E j \in Pos : l = Off(k, j) /\ At(Without(q), k, j)
  OBVIOUS
<1> DEFINE j == IF k = 1 THEN l - 1 ELSE l
<1>1. j \in Pos /\ l = Off(k, j)
  BY DEF Pos, Off
<1> HIDE DEF j
<1>2. At(Without(q), k, j)
  BY <1>1, WithoutShape
<1> QED
  BY <1>1, <1>2

\* What is last for a line without the first request is last with it.
LEMMA WithoutLast ==
    ASSUME NEW q \in Queue, q # <<>>, Head(q) # <<>>, NEW a, NEW i \in Pos, NEW j \in Pos,
           LastFor(Without(q), a, i, j)
    PROVE  LastFor(q, a, i, Off(i, j)) /\ q[i][Off(i, j)] = Without(q)[i][j]
<1> DEFINE d == Without(q)
           n == Off(i, j)
<1>1. d \in Queue /\ At(d, i, j) /\ d[i][j].addr = a
  BY WithoutShape, LastForIff DEF LastFor
<1>2. At(q, i, n) /\ q[i][n] = d[i][j] /\ n \in Pos
  BY <1>1, WithoutShape, OffKeepsOrder
<1>3. ASSUME NEW k \in Pos, NEW l \in Pos, At(q, k, l), Before(i, n, k, l)
      PROVE  q[k][l].addr # a
  <2>1. ~(k = 1 /\ l = 1)
    BY <1>2, <1>3 DEF Before, Pos
  <2>2. PICK m \in Pos : l = Off(k, m) /\ At(d, k, m)
    BY <1>3, <2>1, WithoutCovers
  <2>3. d[k][m] = q[k][l] /\ Before(i, j, k, m)
    <3>1. d[k][m] = q[k][Off(k, m)]
      BY <2>2, WithoutShape
    <3>2. Before(i, j, k, m)
      BY <1>3, <2>2, OffKeepsOrder
    <3> QED
      BY <2>2, <3>1, <3>2
  <2>4. LastFor(d, a, i, j)
    OBVIOUS
  <2> HIDE DEF d, n
  <2> QED
    BY <1>1, <2>2, <2>3, <2>4, LastForIff
<1> QED
  BY <1>1, <1>2, <1>3, LastForIff

\* A line nothing else is asked for was not asked for, or last by the first request.
LEMMA WithoutUnasked ==
    ASSUME NEW q \in Queue, q # <<>>, Head(q) # <<>>, NEW a, Unasked(Without(q), a)
    PROVE  IF q[1][1].addr = a THEN LastFor(q, a, 1, 1) ELSE Unasked(q, a)
<1>1. \A k, l \in Pos : At(q, k, l) /\ ~(k = 1 /\ l = 1) => q[k][l].addr # a
  <2> SUFFICES ASSUME NEW k \in Pos, NEW l \in Pos, At(q, k, l), ~(k = 1 /\ l = 1)
               PROVE  q[k][l].addr # a
    OBVIOUS
  <2>1. PICK m \in Pos : l = Off(k, m) /\ At(Without(q), k, m)
    BY WithoutCovers
  <2>2. Without(q)[k][m] = q[k][l] /\ Without(q) \in Queue
    BY <2>1, WithoutShape
  <2> QED
    BY <2>1, <2>2, UnaskedIff
<1>2. CASE q[1][1].addr = a
  <2>1. At(q, 1, 1)
    BY WithoutShape
  <2>2. \A k, l \in Pos : Before(1, 1, k, l) => ~(k = 1 /\ l = 1)
    BY DEF Before
  <2> QED
    BY <1>1, <1>2, <2>1, <2>2, LastForIff
<1>3. CASE q[1][1].addr # a
  <2>1. \A k, l \in Pos : At(q, k, l) => q[k][l].addr # a
    BY <1>1, <1>3
  <2> QED
    BY <1>3, <2>1, UnaskedIff
<1> QED
  BY <1>2, <1>3

\* What is first for a line without the first request was first, or followed it.
LEMMA WithoutFirst ==
    ASSUME NEW q \in Queue, q # <<>>, Head(q) # <<>>, NEW i \in Pos, NEW j \in Pos,
           FirstAsked(Without(q), i, j)
    PROVE  IF q[1][1].addr = Without(q)[i][j].addr THEN Follows(q, 1, 1, i, Off(i, j))
           ELSE FirstAsked(q, i, Off(i, j))
<1> DEFINE d == Without(q)
           n == Off(i, j)
<1>1. At(d, i, j) /\ At(q, i, n) /\ q[i][n] = d[i][j] /\ n \in Pos
  BY WithoutShape, OffKeepsOrder DEF FirstAsked
<1>2. \A k, l \in Pos : At(q, k, l) /\ Before(k, l, i, n) /\ ~(k = 1 /\ l = 1) =>
          q[k][l].addr # q[i][n].addr
  <2> SUFFICES ASSUME NEW k \in Pos, NEW l \in Pos, At(q, k, l), Before(k, l, i, n),
                      ~(k = 1 /\ l = 1)
               PROVE  q[k][l].addr # q[i][n].addr
    OBVIOUS
  <2>1. PICK m \in Pos : l = Off(k, m) /\ At(d, k, m)
    BY WithoutCovers
  <2>2. d[k][m] = q[k][l] /\ Before(k, m, i, j)
    <3>1. d[k][m] = q[k][Off(k, m)]
      BY <2>1, WithoutShape
    <3>2. Before(k, m, i, j)
      BY <2>1, OffKeepsOrder
    <3> QED
      BY <2>1, <3>1, <3>2
  <2> QED
    BY <1>1, <2>1, <2>2 DEF FirstAsked
<1>3. At(q, 1, 1) /\ Before(1, 1, i, n) /\ 1 \in Pos
  BY <1>1, WithoutShape, OffKeepsOrder DEF Pos
<1>4. \A m, k \in Pos : Before(1, 1, m, k) => ~(m = 1 /\ k = 1)
  BY DEF Before
<1> HIDE DEF d, n
<1>5. CASE q[1][1].addr = d[i][j].addr
  BY <1>1, <1>2, <1>3, <1>4, <1>5 DEF Follows, d, n
<1>6. CASE q[1][1].addr # d[i][j].addr
  BY <1>1, <1>2, <1>3, <1>6 DEF FirstAsked, d, n
<1> QED
  BY <1>5, <1>6 DEF d

\* What follows a request of the rest follows it in the whole queue.
LEMMA WithoutFollows ==
    ASSUME NEW q \in Queue, q # <<>>, Head(q) # <<>>,
           NEW i \in Pos, NEW j \in Pos, NEW k \in Pos, NEW l \in Pos,
           Follows(Without(q), k, l, i, j)
    PROVE  Follows(q, k, Off(k, l), i, Off(i, j)) /\ q[k][Off(k, l)] = Without(q)[k][l]
<1> DEFINE d == Without(q)
           n == Off(i, j)
           o == Off(k, l)
<1>1. /\ At(d, i, j) /\ At(q, i, n) /\ q[i][n] = d[i][j] /\ n \in Pos
      /\ At(d, k, l) /\ At(q, k, o) /\ q[k][o] = d[k][l] /\ o \in Pos
      /\ Before(k, o, i, n) /\ q[k][o].addr = q[i][n].addr
  <2>1. At(d, i, j) /\ At(d, k, l) /\ Before(k, l, i, j) /\ d[k][l].addr = d[i][j].addr
    BY DEF Follows
  <2>2. At(q, i, n) /\ q[i][n] = d[i][j] /\ At(q, k, o) /\ q[k][o] = d[k][l]
    BY <2>1, WithoutShape
  <2>3. n \in Pos /\ o \in Pos /\ Before(k, o, i, n)
    BY <2>1, OffKeepsOrder
  <2> QED
    BY <2>1, <2>2, <2>3
<1>2. ASSUME NEW x \in Pos, NEW y \in Pos, At(q, x, y), Before(k, o, x, y), Before(x, y, i, n)
      PROVE  q[x][y].addr # q[i][n].addr
  <2>1. ~(x = 1 /\ y = 1)
    BY <1>1, <1>2 DEF Before, Pos
  <2>2. PICK m \in Pos : y = Off(x, m) /\ At(d, x, m)
    BY <1>2, <2>1, WithoutCovers
  <2>3. d[x][m] = q[x][y] /\ Before(k, l, x, m) /\ Before(x, m, i, j)
    <3>1. d[x][m] = q[x][Off(x, m)]
      BY <2>2, WithoutShape
    <3>2. Before(k, l, x, m) /\ Before(x, m, i, j)
      BY <1>2, <2>2, OffKeepsOrder
    <3> QED
      BY <2>2, <3>1, <3>2
  <2> QED
    BY <1>1, <2>2, <2>3 DEF Follows
<1> QED
  BY <1>1, <1>2 DEF Follows

\* The first request is done: its line is granted or given up.
Served(q, c, c2) ==
    /\ \A a \in Line \ {q[1][1].addr} : c2[a] \in Readable <=> c[a] \in Readable
    /\ c2[q[1][1].addr] \in Readable <=> q[1][1].requestType = "PERM"

\* The first request is done and taken off: what is left of the queue fits the new states.
LEMMA QueueServed ==
    ASSUME NEW q, NEW H, H \subseteq Line, NEW c, NEW c2, NEW started,
           QueueOK(q, H, c, started),
           q # <<>>, Head(q) # <<>>, Served(q, c, c2), Line = Addr
    PROVE  QueueOK(Without(q), H, c2, FALSE)
<1> DEFINE d == Without(q)
           x == q[1][1]
<1>1. q \in Queue /\ d \in Queue /\ x \in PendingRequest
  BY WithoutShape DEF QueueOK
<1>2. x.addr \in Line /\ x.requestType \in {"PERM", "INV"}
  BY <1>1 DEF PendingRequest
<1> HIDE DEF d, x
<1>0. 1 \in Pos /\ At(q, 1, 1) 
  BY <1>1, WithoutShape DEF Pos
<1>3. HeldAsked(d, H, c2)
  <2> SUFFICES ASSUME NEW a \in H
               PROVE  /\ Unasked(d, a) => c2[a] \in Readable
                      /\ \A i, j \in Pos : LastFor(d, a, i, j) => d[i][j].requestType = "PERM"
    BY DEF HeldAsked
  <2>1. ASSUME Unasked(d, a) PROVE c2[a] \in Readable
    <3>1. CASE x.addr = a
      BY <1>0, <1>1, <2>1, <3>1, WithoutUnasked DEF QueueOK, HeldAsked, Served, d, x
    <3>2. CASE x.addr # a
      BY <1>1, <2>1, <3>2, WithoutUnasked DEF QueueOK, HeldAsked, Served, d, x
    <3> QED
      BY <3>1, <3>2
  <2>2. ASSUME NEW i \in Pos, NEW j \in Pos, LastFor(d, a, i, j)
        PROVE  d[i][j].requestType = "PERM"
    <3>1. LastFor(q, a, i, Off(i, j)) /\ q[i][Off(i, j)] = d[i][j] /\ Off(i, j) \in Pos
      BY <1>1, <2>2, WithoutLast, OffKeepsOrder DEF d
    <3> QED
      BY <3>1 DEF QueueOK, HeldAsked
  <2> QED
    BY <2>1, <2>2
<1>4. OthersGiven(d, H, c2)
  <2> SUFFICES ASSUME S > 1, NEW a \in Line \ H
               PROVE  /\ Unasked(d, a) => c2[a] \notin Readable
                      /\ \A i, j \in Pos : LastFor(d, a, i, j) => d[i][j].requestType = "INV"
    BY DEF OthersGiven
  <2>1. ASSUME Unasked(d, a) PROVE c2[a] \notin Readable
    <3>1. CASE x.addr = a
      BY <1>0, <1>1, <2>1, <3>1, WithoutUnasked DEF QueueOK, OthersGiven, Served, d, x
    <3>2. CASE x.addr # a
      BY <1>1, <2>1, <3>2, WithoutUnasked DEF QueueOK, OthersGiven, Served, d, x
    <3> QED
      BY <3>1, <3>2
  <2>2. ASSUME NEW i \in Pos, NEW j \in Pos, LastFor(d, a, i, j)
        PROVE  d[i][j].requestType = "INV"
    <3>1. LastFor(q, a, i, Off(i, j)) /\ q[i][Off(i, j)] = d[i][j] /\ Off(i, j) \in Pos
      BY <1>1, <2>2, WithoutLast, OffKeepsOrder DEF d
    <3> QED
      BY <3>1 DEF QueueOK, OthersGiven
  <2> QED
    BY <2>1, <2>2
<1>5. FirstGranted(d, c2, FALSE)
  <2> SUFFICES ASSUME NEW i \in Pos, NEW j \in Pos, GivesUp(d, i, j), FirstAsked(d, i, j)
               PROVE  c2[d[i][j].addr] \in Readable
    BY DEF FirstGranted
  <2>1. /\ At(d, i, j) /\ At(q, i, Off(i, j)) /\ q[i][Off(i, j)] = d[i][j]
        /\ GivesUp(q, i, Off(i, j)) /\ Off(i, j) \in Pos /\ ~(i = 1 /\ Off(i, j) = 1)
    <3>1. At(d, i, j) /\ d[i][j].requestType = "INV"
      BY DEF GivesUp
    <3>2. At(q, i, Off(i, j)) /\ q[i][Off(i, j)] = d[i][j]
      BY <1>1, <3>1, WithoutShape DEF d
    <3> QED
      BY <3>1, <3>2, OffKeepsOrder DEF GivesUp
  <2>2. CASE x.addr = d[i][j].addr
    <3>1. Follows(q, 1, 1, i, Off(i, j))
      BY <1>1, <2>2, WithoutFirst DEF d, x
    <3>2. x.requestType = "PERM"
      BY <1>0, <2>1, <3>1 DEF QueueOK, AskedBefore, x
    <3> QED
      BY <2>2, <3>2 DEF Served, x
  <2>3. CASE x.addr # d[i][j].addr
    <3>1. FirstAsked(q, i, Off(i, j))
      BY <1>1, <2>3, WithoutFirst DEF d, x
    <3>2. c[d[i][j].addr] \in Readable
      BY <2>1, <3>1 DEF QueueOK, FirstGranted
    <3>3. d[i][j].addr \in Line
      BY <1>1, <2>1, AtType DEF PendingRequest
    <3> QED
      BY <2>3, <3>2, <3>3 DEF Served, x
  <2> QED
    BY <2>2, <2>3
<1>6. AskedBefore(d)
  <2> SUFFICES ASSUME NEW i \in Pos, NEW j \in Pos, NEW k \in Pos, NEW l \in Pos,
                      GivesUp(d, i, j), Follows(d, k, l, i, j)
               PROVE  d[k][l].requestType = "PERM"
    BY DEF AskedBefore
  <2>1. GivesUp(q, i, Off(i, j)) /\ Off(i, j) \in Pos /\ Off(k, l) \in Pos
    <3>1. At(d, i, j) /\ d[i][j].requestType = "INV"
      BY DEF GivesUp
    <3>2. At(q, i, Off(i, j)) /\ q[i][Off(i, j)] = d[i][j]
      BY <1>1, <3>1, WithoutShape DEF d
    <3> QED
      BY <3>1, <3>2, OffKeepsOrder DEF GivesUp
  <2>2. Follows(q, k, Off(k, l), i, Off(i, j)) /\ q[k][Off(k, l)] = d[k][l]
    BY <1>1, WithoutFollows DEF d
  <2> QED
    BY <2>1, <2>2 DEF QueueOK, AskedBefore
<1> QED
  BY <1>1, <1>3, <1>4, <1>5, <1>6 DEF QueueOK, d

\* Taking off an access without requests moves all others one access up.
LEMMA TailShape ==
    ASSUME NEW q \in Queue, q # <<>>, Head(q) = <<>>
    PROVE  /\ Tail(q) \in Queue
           /\ \A i, j \in Pos :
                /\ At(Tail(q), i, j) <=> At(q, i + 1, j)
                /\ At(Tail(q), i, j) => Tail(q)[i][j] = q[i + 1][j]
           /\ \A i, j \in Pos : At(q, i, j) => i - 1 \in Pos
<1> DEFINE t == Tail(q)
<1>1. t \in Queue /\ Len(t) = Len(q) - 1 /\ Len(q) \in Nat /\ Len(q) > 0
  BY DEF Queue
<1>2. \A i \in 1 .. Len(q) - 1 : t[i] = q[i + 1]
  BY <1>1 DEF Queue
<1>3. DOMAIN t = 1 .. Len(q) - 1 /\ DOMAIN q = 1 .. Len(q)
  BY <1>1 DEF Queue
<1>4. q[1] = <<>>
  BY DEF Queue
<1> HIDE DEF t
<1>5. ASSUME NEW i \in Pos, NEW j \in Pos
      PROVE  /\ At(t, i, j) <=> At(q, i + 1, j)
             /\ At(t, i, j) => t[i][j] = q[i + 1][j]
             /\ At(q, i, j) => i - 1 \in Pos
  <2>1. i \in DOMAIN t <=> i + 1 \in DOMAIN q
    BY <1>1, <1>3 DEF Pos
  <2>2. i \in DOMAIN t => t[i] = q[i + 1]
    BY <1>2, <1>3
  <2>3. At(q, i, j) => i # 1
    BY <1>4 DEF At
  <2> QED
    BY <2>1, <2>2, <2>3 DEF At, Pos
<1> QED
  BY <1>1, <1>5 DEF t

\* An access without requests is answered and leaves the queue: nothing else changes.
LEMMA QueuePopped ==
    ASSUME NEW q, NEW H, NEW c, NEW started, QueueOK(q, H, c, started), q # <<>>, Head(q) = <<>>
    PROVE  QueueOK(Tail(q), H, c, FALSE)
<1> DEFINE t == Tail(q)
<1>1. q \in Queue /\ t \in Queue
  BY TailShape DEF QueueOK
<1>2. \A i, j \in Pos :
        /\ i + 1 \in Pos
        /\ At(t, i, j) <=> At(q, i + 1, j)
        /\ At(t, i, j) => t[i][j] = q[i + 1][j]
  <2>1. \A i \in Pos : i + 1 \in Pos
    BY DEF Pos
  <2> QED
    BY <1>1, <2>1, TailShape, ZenonT(40)
<1>3. \A i, j, k, l \in Pos : Before(i + 1, j, k + 1, l) <=> Before(i, j, k, l)
  BY DEF Before, Pos
<1>4. ASSUME NEW i \in Pos, NEW j \in Pos, At(q, i, j)
      PROVE  \E k \in Pos : i = k + 1 /\ At(t, k, j) /\ t[k][j] = q[i][j]
  <2>1. i - 1 \in Pos /\ i = (i - 1) + 1
    BY <1>1, <1>4, TailShape DEF Pos
  <2>2. PICK k \in Pos : i = k + 1
    BY <2>1
  <2> QED
    BY <1>2, <1>4, <2>2
<1> HIDE DEF t
<1>5. ASSUME NEW a, NEW i \in Pos, NEW j \in Pos, LastFor(t, a, i, j)
      PROVE  LastFor(q, a, i + 1, j) /\ q[i + 1][j] = t[i][j]
  <2>1. At(t, i, j) /\ t[i][j].addr = a
        /\ \A k, l \in Pos : At(t, k, l) /\ Before(i, j, k, l) => t[k][l].addr # a
    BY <1>1, <1>5, LastForIff
  <2>2. \A k, l \in Pos : At(q, k, l) /\ Before(i + 1, j, k, l) => q[k][l].addr # a
    <3> SUFFICES ASSUME NEW k \in Pos, NEW l \in Pos, At(q, k, l), Before(i + 1, j, k, l)
                 PROVE  q[k][l].addr # a
      OBVIOUS
    <3>1. PICK m \in Pos : k = m + 1 /\ At(t, m, l) /\ t[m][l] = q[k][l]
      BY <1>4
    <3>2. Before(i, j, m, l)
      BY <1>3, <3>1
    <3> QED
      BY <2>1, <3>1, <3>2
  <2>3. At(q, i + 1, j) /\ q[i + 1][j] = t[i][j]
    BY <1>2, <2>1
  <2> QED
    BY <1>1, <2>1, <2>2, <2>3, LastForIff
<1>6. ASSUME NEW a, Unasked(t, a) PROVE Unasked(q, a)
  <2> SUFFICES ASSUME NEW k \in Pos, NEW l \in Pos, At(q, k, l)
               PROVE  q[k][l].addr # a
    BY <1>1, UnaskedIff
  <2>1. PICK m \in Pos : k = m + 1 /\ At(t, m, l) /\ t[m][l] = q[k][l]
    BY <1>4
  <2> QED
    BY <1>1, <1>6, <2>1, UnaskedIff
<1>7. HeldAsked(t, H, c)
  <2> SUFFICES ASSUME NEW a \in H
               PROVE  /\ Unasked(t, a) => c[a] \in Readable
                      /\ \A i, j \in Pos : LastFor(t, a, i, j) => t[i][j].requestType = "PERM"
    BY DEF HeldAsked
  <2> QED
    BY <1>2, <1>5, <1>6 DEF QueueOK, HeldAsked
<1>8. OthersGiven(t, H, c)
  <2> SUFFICES ASSUME S > 1, NEW a \in Line \ H
               PROVE  /\ Unasked(t, a) => c[a] \notin Readable
                      /\ \A i, j \in Pos : LastFor(t, a, i, j) => t[i][j].requestType = "INV"
    BY DEF OthersGiven
  <2> QED
    BY <1>2, <1>5, <1>6 DEF QueueOK, OthersGiven
<1>9. ASSUME NEW i \in Pos, NEW j \in Pos, GivesUp(t, i, j)
      PROVE  GivesUp(q, i + 1, j) /\ q[i + 1][j] = t[i][j]
  BY <1>2, <1>9 DEF GivesUp
<1>10. FirstGranted(t, c, FALSE)
  <2> SUFFICES ASSUME NEW i \in Pos, NEW j \in Pos, GivesUp(t, i, j), FirstAsked(t, i, j)
               PROVE  c[t[i][j].addr] \in Readable
    BY DEF FirstGranted
  <2>1. GivesUp(q, i + 1, j) /\ q[i + 1][j] = t[i][j] /\ i + 1 # 1 /\ i + 1 \in Pos
    BY <1>9 DEF Pos
  <2>2. FirstAsked(q, i + 1, j)
    <3>1. ASSUME NEW k \in Pos, NEW l \in Pos, At(q, k, l), Before(k, l, i + 1, j)
          PROVE  q[k][l].addr # t[i][j].addr
      <4>1. PICK m \in Pos : k = m + 1 /\ At(t, m, l) /\ t[m][l] = q[k][l]
        BY <1>4, <3>1
      <4>2. Before(m, l, i, j)
        BY <1>3, <3>1, <4>1
      <4> QED
        BY <4>1, <4>2 DEF FirstAsked
    <3> QED
      BY <2>1, <3>1 DEF FirstAsked, GivesUp
  <2> QED
    BY <2>1, <2>2 DEF QueueOK, FirstGranted
<1>11. AskedBefore(t)
  <2> SUFFICES ASSUME NEW i \in Pos, NEW j \in Pos, NEW k \in Pos, NEW l \in Pos,
                      GivesUp(t, i, j), Follows(t, k, l, i, j)
               PROVE  t[k][l].requestType = "PERM"
    BY DEF AskedBefore
  <2>1. GivesUp(q, i + 1, j) /\ q[i + 1][j] = t[i][j]
    BY <1>9
  <2>2. /\ At(q, k + 1, l) /\ q[k + 1][l] = t[k][l] /\ Before(k + 1, l, i + 1, j)
        /\ q[k + 1][l].addr = q[i + 1][j].addr
    BY <1>2, <1>3, <2>1 DEF Follows
  <2>3. \A m, n \in Pos :
          At(q, m, n) /\ Before(k + 1, l, m, n) /\ Before(m, n, i + 1, j) =>
              q[m][n].addr # q[i + 1][j].addr
    <3> SUFFICES ASSUME NEW m \in Pos, NEW n \in Pos, At(q, m, n),
                        Before(k + 1, l, m, n), Before(m, n, i + 1, j)
                 PROVE  q[m][n].addr # q[i + 1][j].addr
      OBVIOUS
    <3>1. PICK o \in Pos : m = o + 1 /\ At(t, o, n) /\ t[o][n] = q[m][n]
      BY <1>4
    <3>2. Before(k, l, o, n) /\ Before(o, n, i, j)
      BY <1>3, <3>1
    <3> QED
      BY <2>1, <3>1, <3>2 DEF Follows
  <2>4. Follows(q, k + 1, l, i + 1, j)
    BY <2>1, <2>2, <2>3 DEF Follows, GivesUp
  <2> QED
    BY <1>2, <2>1, <2>2, <2>4 DEF QueueOK, AskedBefore
<1> QED
  BY <1>1, <1>7, <1>8, <1>10, <1>11 DEF QueueOK, t

\* The first request is sent: what becomes of its line does not matter yet.
LEMMA QueueStarted ==
    ASSUME NEW q, NEW H, H \subseteq Line, NEW c, NEW c2, NEW started, QueueOK(q, H, c, started),
           q # <<>>, Head(q) # <<>>, Line = Addr,
           \A a \in Line \ {q[1][1].addr} : c2[a] \in Readable <=> c[a] \in Readable
    PROVE  QueueOK(q, H, c2, TRUE)
<1> DEFINE x == q[1][1]
<1>1. q \in Queue /\ At(q, 1, 1) /\ 1 \in Pos
  BY WithoutShape DEF QueueOK, Pos
<1>2. \A a : Unasked(q, a) => a # x.addr
  BY <1>1, UnaskedIff
<1>3. HeldAsked(q, H, c2)
  BY <1>2 DEF QueueOK, HeldAsked
<1>4. OthersGiven(q, H, c2)
  BY <1>2 DEF QueueOK, OthersGiven
<1>5. FirstGranted(q, c2, TRUE)
  <2> SUFFICES ASSUME NEW i \in Pos, NEW j \in Pos, GivesUp(q, i, j), FirstAsked(q, i, j),
                      ~(i = 1 /\ j = 1)
               PROVE  c2[q[i][j].addr] \in Readable
    BY DEF FirstGranted
  <2>1. Before(1, 1, i, j)
    BY DEF Before, Pos
  <2>2. x.addr # q[i][j].addr
    BY <1>1, <2>1 DEF FirstAsked
  <2>3. c[q[i][j].addr] \in Readable
    BY DEF QueueOK, FirstGranted
  <2>4. q[i][j].addr \in Line
    BY <1>1, AtType DEF GivesUp, PendingRequest
  <2> QED
    BY <2>2, <2>3, <2>4
<1> QED
  BY <1>3, <1>4, <1>5 DEF QueueOK

-----------------------------------------------------------------------------
(* A new access.                                                           *)

\* The queue with an access at its end.
LEMMA RowShape ==
    ASSUME NEW q \in Queue, NEW x \in Seq(PendingRequest)
    PROVE  LET p == Append(q, x)
           IN /\ p \in Queue
              /\ \A i, j \in Pos :
                   /\ At(p, i, j) <=> At(q, i, j) \/ (i = Len(q) + 1 /\ j \in DOMAIN x)
                   /\ At(q, i, j) => i # Len(q) + 1 /\ p[i][j] = q[i][j]
                   /\ i = Len(q) + 1 => p[i][j] = x[j]
<1> DEFINE p == Append(q, x)
<1>1. p \in Queue /\ Len(p) = Len(q) + 1 /\ Len(q) \in Nat
  BY DEF Queue
<1>2. p[Len(q) + 1] = x /\ \A i \in 1 .. Len(q) : p[i] = q[i]
  BY DEF Queue
<1>3. DOMAIN p = 1 .. Len(q) + 1 /\ DOMAIN q = 1 .. Len(q)
  BY <1>1 DEF Queue
<1> HIDE DEF p
<1>4. ASSUME NEW i \in Pos, NEW j \in Pos
      PROVE  /\ At(p, i, j) <=> At(q, i, j) \/ (i = Len(q) + 1 /\ j \in DOMAIN x)
             /\ At(q, i, j) => i # Len(q) + 1 /\ p[i][j] = q[i][j]
             /\ i = Len(q) + 1 => p[i][j] = x[j]
  BY <1>1, <1>2, <1>3 DEF At, Pos
<1> QED
  BY <1>1, <1>4 DEF p

\* One more request at the end of the newest access: it comes after all others.
LEMMA OneMoreShape ==
    ASSUME NEW q \in Queue, NEW x \in Seq(PendingRequest), NEW r \in PendingRequest
    PROVE  LET p == Append(q, x)
               d == Append(q, Append(x, r))
               n == Len(q) + 1
               m == Len(x) + 1
           IN /\ p \in Queue /\ d \in Queue /\ n \in Pos /\ m \in Pos
              /\ At(d, n, m) /\ d[n][m] = r /\ ~At(p, n, m)
              /\ \A i, j \in Pos :
                   /\ At(d, i, j) <=> At(p, i, j) \/ (i = n /\ j = m)
                   /\ At(p, i, j) => d[i][j] = p[i][j] /\ Before(i, j, n, m)
<1> DEFINE p == Append(q, x)
           y == Append(x, r)
           d == Append(q, y)
           n == Len(q) + 1
           m == Len(x) + 1
<1>1. y \in Seq(PendingRequest) /\ Len(x) \in Nat /\ DOMAIN x = 1 .. Len(x)
      /\ DOMAIN y = 1 .. m /\ y[m] = r /\ \A j \in 1 .. Len(x) : y[j] = x[j]
  OBVIOUS
<1>2. n \in Pos /\ m \in Pos /\ Len(q) \in Nat /\ DOMAIN q = 1 .. Len(q)
  BY <1>1 DEF Pos, Queue
<1>3. \A i, j \in Pos : At(q, i, j) => i < n
  BY <1>2 DEF At
<1>4. /\ p \in Queue
      /\ \A i, j \in Pos :
           /\ At(p, i, j) <=> At(q, i, j) \/ (i = n /\ j \in DOMAIN x)
           /\ At(q, i, j) => i # n /\ p[i][j] = q[i][j]
           /\ i = n => p[i][j] = x[j]
  BY RowShape
<1> HIDE DEF y
<1>5. /\ d \in Queue
      /\ \A i, j \in Pos :
           /\ At(d, i, j) <=> At(q, i, j) \/ (i = n /\ j \in DOMAIN y)
           /\ At(q, i, j) => i # n /\ d[i][j] = q[i][j]
           /\ i = n => d[i][j] = y[j]
  BY <1>1, RowShape
<1> HIDE DEF p, d, n, m
<1>6. m \notin DOMAIN x /\ \A j \in Pos : j \in DOMAIN y <=> j \in DOMAIN x \/ j = m
  BY <1>1 DEF m, Pos
<1>7. \A j \in DOMAIN x : y[j] = x[j] /\ j < m
  BY <1>1 DEF m
<1>8. ~At(p, n, m)
  BY <1>2, <1>4, <1>6
<1>9. At(d, n, m) /\ d[n][m] = r
  BY <1>1, <1>2, <1>5, <1>6
<1>10. ASSUME NEW i \in Pos, NEW j \in Pos
       PROVE  /\ At(d, i, j) <=> At(p, i, j) \/ (i = n /\ j = m)
              /\ At(p, i, j) => d[i][j] = p[i][j] /\ Before(i, j, n, m)
  <2>1. At(d, i, j) <=> At(p, i, j) \/ (i = n /\ j = m)
    BY <1>4, <1>5, <1>6
  <2>2. At(q, i, j) => d[i][j] = p[i][j] /\ Before(i, j, n, m)
    BY <1>3, <1>4, <1>5 DEF Before
  <2>3. i = n /\ j \in DOMAIN x => d[i][j] = p[i][j] /\ Before(i, j, n, m)
    BY <1>4, <1>5, <1>7 DEF Before
  <2> QED
    BY <1>4, <2>1, <2>2, <2>3
<1>11. p \in Queue /\ d \in Queue /\ n \in Pos /\ m \in Pos
  BY <1>2, <1>4, <1>5
<1> QED
  BY <1>8, <1>9, <1>10, <1>11 DEF p, d, n, m, y

\* An access without requests changes nothing.
LEMMA QueueEmptyRow ==
    ASSUME NEW q, NEW H, NEW c, NEW started, QueueOK(q, H, c, started)
    PROVE  QueueOK(Append(q, <<>>), H, c, started)
<1> DEFINE p == Append(q, <<>>)
<1>1. q \in Queue /\ <<>> \in Seq(PendingRequest)
  BY DEF QueueOK
<1>2. /\ p \in Queue
      /\ \A i, j \in Pos :
           /\ At(p, i, j) <=> At(q, i, j)
           /\ At(q, i, j) => p[i][j] = q[i][j]
  <2> DEFINE none == <<>>
  <2>1. none \in Seq(PendingRequest) /\ \A j : j \notin DOMAIN none
    OBVIOUS
  <2>2. p = Append(q, none)
    OBVIOUS
  <2> HIDE DEF none, p
  <2> QED
    BY <1>1, <2>1, <2>2, RowShape
<1> HIDE DEF p
<1>3. \A a : Unasked(p, a) <=> Unasked(q, a)
  BY <1>1, <1>2, UnaskedIff
<1>4. \A a : \A i, j \in Pos : LastFor(p, a, i, j) => LastFor(q, a, i, j) /\ p[i][j] = q[i][j]
  BY <1>1, <1>2, LastForIff
<1>5. HeldAsked(p, H, c)
  BY <1>3, <1>4 DEF QueueOK, HeldAsked
<1>6. OthersGiven(p, H, c)
  BY <1>3, <1>4 DEF QueueOK, OthersGiven
<1>7. FirstGranted(p, c, started)
  <2> SUFFICES ASSUME NEW i \in Pos, NEW j \in Pos, GivesUp(p, i, j), FirstAsked(p, i, j),
                      ~(started /\ i = 1 /\ j = 1)
               PROVE  c[p[i][j].addr] \in Readable
    BY DEF FirstGranted
  <2>1. GivesUp(q, i, j) /\ p[i][j] = q[i][j]
    BY <1>2 DEF GivesUp
  <2>2. FirstAsked(q, i, j)
    BY <1>2 DEF FirstAsked
  <2> QED
    BY <2>1, <2>2 DEF QueueOK, FirstGranted
<1>8. AskedBefore(p)
  <2> SUFFICES ASSUME NEW i \in Pos, NEW j \in Pos, NEW k \in Pos, NEW l \in Pos,
                      GivesUp(p, i, j), Follows(p, k, l, i, j)
               PROVE  p[k][l].requestType = "PERM"
    BY DEF AskedBefore
  <2>1. GivesUp(q, i, j) /\ p[i][j] = q[i][j]
    BY <1>2 DEF GivesUp
  <2>2. Follows(q, k, l, i, j) /\ p[k][l] = q[k][l]
    BY <1>2 DEF Follows
  <2> QED
    BY <2>1, <2>2 DEF QueueOK, AskedBefore
<1> QED
  BY <1>2, <1>5, <1>6, <1>7, <1>8 DEF QueueOK, p

\* One more request in the newest access, and what it means for the lines in the
\* arrays: one that is asked for gets in (unless the arrays are not told), one
\* that is given up has been in and leaves.
Means(r, H, H2) ==
    /\ \A a \in Line \ {r.addr} : a \in H2 <=> a \in H
    /\ r.requestType = "PERM" => r.addr \in H2 \/ S = 1
    /\ r.requestType = "INV" => r.addr \in H /\ r.addr \notin H2

\* One more request keeps the queue right for the lines that the arrays then hold.
LEMMA QueueOneMore ==
    ASSUME NEW q \in Queue, NEW x \in Seq(PendingRequest), NEW r \in PendingRequest,
           NEW H, NEW H2, NEW c, NEW started,
           H2 \subseteq Line, QueueOK(Append(q, x), H, c, started), Means(r, H, H2), Line = Addr
    PROVE  QueueOK(Append(q, Append(x, r)), H2, c, started)
<1> DEFINE p == Append(q, x)
           d == Append(q, Append(x, r))
           n == Len(q) + 1
           m == Len(x) + 1
<1>1. /\ p \in Queue /\ d \in Queue /\ n \in Pos /\ m \in Pos
      /\ At(d, n, m) /\ d[n][m] = r /\ ~At(p, n, m)
      /\ \A i, j \in Pos :
           /\ At(d, i, j) <=> At(p, i, j) \/ (i = n /\ j = m)
           /\ At(p, i, j) => d[i][j] = p[i][j] /\ Before(i, j, n, m)
  BY OneMoreShape
<1>2. QueueOK(p, H, c, started) /\ r.addr \in Line /\ r.requestType \in {"PERM", "INV"}
  BY DEF PendingRequest
<1> HIDE DEF p, d, n, m
<1>3. ASSUME NEW a, Unasked(d, a) PROVE Unasked(p, a) /\ a # r.addr
  BY <1>1, <1>3, UnaskedIff
<1>4. ASSUME NEW a, NEW i \in Pos, NEW j \in Pos, LastFor(d, a, i, j), ~(i = n /\ j = m)
      PROVE  LastFor(p, a, i, j) /\ a # r.addr /\ d[i][j] = p[i][j]
  <2>1. /\ At(p, i, j) /\ d[i][j] = p[i][j] /\ d[i][j].addr = a
        /\ \A k, l \in Pos : At(d, k, l) /\ Before(i, j, k, l) => d[k][l].addr # a
    BY <1>1, <1>4, LastForIff
  <2>2. a # r.addr
    BY <1>1, <2>1
  <2>3. \A k, l \in Pos : At(p, k, l) /\ Before(i, j, k, l) => p[k][l].addr # a
    BY <1>1, <2>1
  <2> QED
    BY <1>1, <2>1, <2>2, <2>3, LastForIff
<1>5. ASSUME NEW i \in Pos, NEW j \in Pos, GivesUp(d, i, j), ~(i = n /\ j = m)
      PROVE  GivesUp(p, i, j) /\ d[i][j] = p[i][j]
  BY <1>1, <1>5 DEF GivesUp
<1>6. HeldAsked(d, H2, c)
  <2> SUFFICES ASSUME NEW a \in H2
               PROVE  /\ Unasked(d, a) => c[a] \in Readable
                      /\ \A i, j \in Pos : LastFor(d, a, i, j) => d[i][j].requestType = "PERM"
    BY DEF HeldAsked
  <2>1. a # r.addr => a \in H
    BY DEF Means
  <2>2. ASSUME Unasked(d, a) PROVE c[a] \in Readable
    BY <1>2, <1>3, <2>1, <2>2 DEF QueueOK, HeldAsked
  <2>3. ASSUME NEW i \in Pos, NEW j \in Pos, LastFor(d, a, i, j)
        PROVE  d[i][j].requestType = "PERM"
    <3>1. CASE i = n /\ j = m
      BY <1>1, <1>2, <2>3, <3>1 DEF LastFor, Means
    <3>2. CASE ~(i = n /\ j = m)
      BY <1>2, <1>4, <2>1, <2>3, <3>2 DEF QueueOK, HeldAsked
    <3> QED
      BY <3>1, <3>2
  <2> QED
    BY <2>2, <2>3
<1>7. OthersGiven(d, H2, c)
  <2> SUFFICES ASSUME S > 1, NEW a \in Line \ H2
               PROVE  /\ Unasked(d, a) => c[a] \notin Readable
                      /\ \A i, j \in Pos : LastFor(d, a, i, j) => d[i][j].requestType = "INV"
    BY DEF OthersGiven
  <2>1. a # r.addr => a \in Line \ H
    BY DEF Means
  <2>2. ASSUME Unasked(d, a) PROVE c[a] \notin Readable
    BY <1>2, <1>3, <2>1, <2>2 DEF QueueOK, OthersGiven
  <2>3. ASSUME NEW i \in Pos, NEW j \in Pos, LastFor(d, a, i, j)
        PROVE  d[i][j].requestType = "INV"
    <3>1. CASE i = n /\ j = m
      BY <1>1, <1>2, <2>3, <3>1 DEF LastFor, Means
    <3>2. CASE ~(i = n /\ j = m)
      BY <1>2, <1>4, <2>1, <2>3, <3>2 DEF QueueOK, OthersGiven
    <3> QED
      BY <3>1, <3>2
  <2> QED
    BY <2>2, <2>3
<1>8. FirstGranted(d, c, started)
  <2> SUFFICES ASSUME NEW i \in Pos, NEW j \in Pos, GivesUp(d, i, j), FirstAsked(d, i, j),
                      ~(started /\ i = 1 /\ j = 1)
               PROVE  c[d[i][j].addr] \in Readable
    BY DEF FirstGranted
  <2>1. CASE i = n /\ j = m
    <3>1. r.requestType = "INV" /\ r.addr \in H
      BY <1>1, <2>1 DEF GivesUp, Means
    <3>2. \A k, l \in Pos : At(p, k, l) => p[k][l].addr # r.addr
      BY <1>1, <2>1 DEF FirstAsked
    <3>3. Unasked(p, r.addr)
      BY <1>1, <3>2, UnaskedIff
    <3> QED
      BY <1>1, <1>2, <2>1, <3>1, <3>3 DEF QueueOK, HeldAsked
  <2>2. CASE ~(i = n /\ j = m)
    <3>1. GivesUp(p, i, j) /\ d[i][j] = p[i][j]
      BY <1>5, <2>2
    <3>2. FirstAsked(p, i, j)
      BY <1>1, <3>1 DEF FirstAsked, GivesUp
    <3> QED
      BY <1>2, <3>1, <3>2 DEF QueueOK, FirstGranted
  <2> QED
    BY <2>1, <2>2
<1>9. AskedBefore(d)
  <2> SUFFICES ASSUME NEW i \in Pos, NEW j \in Pos, NEW k \in Pos, NEW l \in Pos,
                      GivesUp(d, i, j), Follows(d, k, l, i, j)
               PROVE  d[k][l].requestType = "PERM"
    BY DEF AskedBefore
  <2>0. At(p, k, l) /\ d[k][l] = p[k][l]
    <3>1. At(d, k, l) /\ At(d, i, j) /\ Before(k, l, i, j)
      BY DEF Follows
    <3>2. ~(k = n /\ l = m)
      BY <1>1, <3>1 DEF Before, Pos
    <3> QED
      BY <1>1, <3>1, <3>2
  <2>1. CASE i = n /\ j = m
    <3>1. r.requestType = "INV" /\ r.addr \in H
      BY <1>1, <2>1 DEF GivesUp, Means
    <3>2. p[k][l].addr = r.addr
      BY <1>1, <2>0, <2>1 DEF Follows
    <3>3. \A y, z \in Pos : At(p, y, z) /\ Before(k, l, y, z) => p[y][z].addr # r.addr
      BY <1>1, <2>1 DEF Follows
    <3>4. LastFor(p, r.addr, k, l)
      BY <1>1, <2>0, <3>2, <3>3, LastForIff
    <3> QED
      BY <1>2, <2>0, <3>1, <3>4 DEF QueueOK, HeldAsked
  <2>2. CASE ~(i = n /\ j = m)
    <3>1. GivesUp(p, i, j) /\ d[i][j] = p[i][j]
      BY <1>5, <2>2
    <3>2. Follows(p, k, l, i, j)
      BY <1>1, <2>0, <3>1 DEF Follows, GivesUp
    <3> QED
      BY <1>2, <2>0, <3>1, <3>2 DEF QueueOK, AskedBefore
  <2> QED
    BY <2>1, <2>2
<1> QED
  BY <1>1, <1>6, <1>7, <1>8, <1>9 DEF QueueOK, d

\* The requests of a single line are paired.
LEMMA PairedRows ==
    ASSUME NEW line, NEW isLoad, NEW out
    PROVE  /\ RowPaired(<<>>)
           /\ RowPaired(<<Perm(line, isLoad)>>)
           /\ RowPaired(<<Inv(out, isLoad), Perm(line, isLoad)>>)
<1>1. RowPaired(<<>>)
  BY DEF RowPaired
<1>2. RowPaired(<<Perm(line, isLoad)>>)
  BY DEF RowPaired, Perm
<1>3. RowPaired(<<Inv(out, isLoad), Perm(line, isLoad)>>)
  <2> DEFINE x == <<Inv(out, isLoad), Perm(line, isLoad)>>
  <2>1. DOMAIN x = 1 .. 2 /\ x[1].requestType = "INV" /\ x[2].requestType = "PERM"
    BY DEF Inv, Perm
  <2> HIDE DEF x
  <2>2. RowPaired(x)
    BY <2>1 DEF RowPaired
  <2> QED
    BY <2>2 DEF x
<1> QED
  BY <1>1, <1>2, <1>3

\* So are those of one line after those of another.
LEMMA PairedConcat ==
    ASSUME NEW x \in Seq(PendingRequest), NEW y \in Seq(PendingRequest), RowPaired(x), RowPaired(y)
    PROVE  RowPaired(x \o y)
<1> DEFINE z == x \o y
<1>1. z \in Seq(PendingRequest) /\ Len(z) = Len(x) + Len(y) /\ Len(x) \in Nat /\ Len(y) \in Nat
  OBVIOUS
<1>2. /\ \A j \in 1 .. Len(x) : z[j] = x[j]
      /\ \A j \in 1 .. Len(y) : z[Len(x) + j] = y[j]
  OBVIOUS
<1>3. DOMAIN z = 1 .. Len(x) + Len(y) /\ DOMAIN x = 1 .. Len(x) /\ DOMAIN y = 1 .. Len(y)
  BY <1>1
<1> HIDE DEF z
<1>4. ASSUME NEW j \in DOMAIN z, z[j].requestType = "INV"
      PROVE  j + 1 \in DOMAIN z /\ z[j + 1].requestType = "PERM"
  <2>1. CASE j \in DOMAIN x
    <3>1. j + 1 \in DOMAIN x /\ x[j + 1].requestType = "PERM"
      BY <1>2, <1>3, <1>4, <2>1 DEF RowPaired
    <3> QED
      BY <1>1, <1>2, <1>3, <3>1
  <2>2. CASE j \notin DOMAIN x
    <3> DEFINE i == j - Len(x)
    <3>1. i \in DOMAIN y /\ j = Len(x) + i /\ i \in Nat
      BY <1>1, <1>3, <2>2
    <3>2. i + 1 \in DOMAIN y /\ y[i + 1].requestType = "PERM"
      BY <1>2, <1>3, <1>4, <3>1 DEF RowPaired
    <3>3. Len(x) + (i + 1) = j + 1
      BY <1>1, <3>1
    <3> HIDE DEF i
    <3>4. z[j + 1] = y[i + 1]
      BY <1>2, <1>3, <3>2, <3>3
    <3>5. j + 1 \in DOMAIN z
      BY <1>1, <1>3, <3>1, <3>2
    <3> QED
      BY <3>2, <3>4, <3>5
  <2> QED
    BY <2>1, <2>2
<1> QED
  BY <1>4 DEF RowPaired, z

\* A new access with paired requests.
LEMMA PairedAppend ==
    ASSUME NEW q \in Queue, Paired(q), NEW x \in Seq(PendingRequest), RowPaired(x)
    PROVE  Paired(Append(q, x))
  BY DEF Paired, Queue

\* Taking the first request off leaves what follows the evictions of the others.
LEMMA PairedWithout ==
    ASSUME NEW q \in Queue, q # <<>>, Head(q) # <<>>, Paired(q)
    PROVE  Paired(Without(q))
<1> DEFINE t == Tail(q[1])
           d == Without(q)
<1>1. q[1] = Head(q) /\ q[1] \in Seq(PendingRequest) /\ q[1] # <<>> /\ RowPaired(q[1])
  BY DEF Queue, Paired
<1>2. t \in Seq(PendingRequest) /\ Len(t) = Len(q[1]) - 1 /\ Len(q[1]) \in Nat
      /\ \A j \in 1 .. Len(t) : t[j] = q[1][j + 1]
  BY <1>1
<1>3. RowPaired(t)
  <2> SUFFICES ASSUME NEW j \in DOMAIN t, t[j].requestType = "INV"
               PROVE  j + 1 \in DOMAIN t /\ t[j + 1].requestType = "PERM"
    BY DEF RowPaired
  <2>1. DOMAIN t = 1 .. Len(q[1]) - 1 /\ DOMAIN q[1] = 1 .. Len(q[1])
    BY <1>1, <1>2
  <2> HIDE DEF t
  <2>2. j \in Nat /\ j + 1 \in DOMAIN q[1] /\ q[1][j + 1].requestType = "INV"
    BY <1>2, <2>1
  <2>3. j + 2 \in DOMAIN q[1] /\ q[1][j + 2].requestType = "PERM"
    BY <1>1, <2>2 DEF RowPaired
  <2>4. j + 1 \in DOMAIN t /\ t[j + 1] = q[1][j + 2]
    BY <1>2, <2>1, <2>2, <2>3
  <2> QED
    BY <2>3, <2>4
<1> HIDE DEF t
<1>4. d = <<t>> \o Tail(q)
  BY <1>1 DEF Without, t
<1>5. DOMAIN d = DOMAIN q /\ d[1] = t /\ \A i \in DOMAIN q : i # 1 => d[i] = q[i]
  BY <1>2, <1>4 DEF Queue
<1> QED
  BY <1>3, <1>5 DEF Paired, d

\* Answering an access leaves the others as they are.
LEMMA PairedPopped ==
    ASSUME NEW q \in Queue, q # <<>>, Paired(q)
    PROVE  Paired(Tail(q))
<1>1. \A i \in DOMAIN Tail(q) : i + 1 \in DOMAIN q /\ Tail(q)[i] = q[i + 1]
  BY DEF Queue
<1> QED
  BY <1>1 DEF Paired

\* The lists of requests that Needs makes.
LEMMA MoreRequests ==
    ASSUME NEW x \in Seq(PendingRequest), NEW r \in PendingRequest, NEW s \in PendingRequest
    PROVE  /\ x \o <<r>> = Append(x, r)
           /\ x \o <<r, s>> = Append(Append(x, r), s)
           /\ Append(x, r) \in Seq(PendingRequest)
           /\ <<r>> \in Seq(PendingRequest)
           /\ <<r, s>> \in Seq(PendingRequest)
  OBVIOUS

\* The requests of a line take the queue along with the arrays.
LEMMA NeedsAsked ==
    ASSUME NEW c, NEW now \in Nat, Good(c, now), Held(c, FALSE) \subseteq Line, Line = Addr,
           NEW line \in Line, NEW isLoad \in BOOLEAN,
           NEW q \in Queue, NEW x \in Seq(PendingRequest), NEW states, NEW started,
           QueueOK(Append(q, x), Held(c, FALSE), states, started)
    PROVE  LET answer == Access(c, line, ~isLoad, now)
               needs  == Needs(answer, line, isLoad)
               held   == Held(answer.arrays, FALSE)
           IN /\ needs \in Seq(PendingRequest)
              /\ RowPaired(needs)
              /\ held \subseteq Line
              /\ line \in held
              /\ QueueOK(Append(q, x \o needs), held, states, started)
<1> DEFINE isStore == ~isLoad
           answer == Access(c, line, isStore, now)
           needs == Needs(answer, line, isLoad)
           held == Held(c, FALSE)
           held2 == Held(answer.arrays, FALSE)
           p == Perm(line, isLoad)
<1>1. line \in Nat /\ isStore \in BOOLEAN
  BY LineAssumption
<1> HIDE DEF isStore
<1>2. StoreEffectOf(c, answer.arrays, answer.res, answer.evicted, line, isStore)
  BY <1>1, AccessIsStore
<1>3. p \in PendingRequest /\ p.addr = line /\ p.requestType = "PERM"
  BY DEF Perm, PendingRequest
<1> HIDE DEF answer, held, held2, p
<1>4. ASSUME held2 = held \cup {line}, answer.res # "MISS_EVICT"
      PROVE  /\ needs \in Seq(PendingRequest)
             /\ RowPaired(needs)
             /\ held2 \subseteq Line
             /\ line \in held2
             /\ QueueOK(Append(q, x \o needs), held2, states, started)
  <2>1. needs = <<p>>
    BY <1>4 DEF Needs, p
  <2>2. Means(p, held, held2)
    BY <1>3, <1>4 DEF Means
  <2>3. held2 \subseteq Line
    BY <1>4 DEF held
  <2>4. QueueOK(Append(q, Append(x, p)), held2, states, started)
    BY <1>3, <2>2, <2>3, QueueOneMore DEF held
  <2>5. RowPaired(<<p>>)
    BY PairedRows DEF p
  <2> HIDE DEF needs
  <2>6. needs \in Seq(PendingRequest) /\ x \o needs = Append(x, p)
    BY <1>3, <2>1, MoreRequests
  <2> QED
    BY <1>4, <2>1, <2>3, <2>4, <2>5, <2>6
<1>5. ASSUME NEW out \in held, answer.evicted = {out}, answer.res = "MISS_EVICT",
             line \notin held, held2 = (held \ answer.evicted) \cup {line}
      PROVE  /\ needs \in Seq(PendingRequest)
             /\ RowPaired(needs)
             /\ held2 \subseteq Line
             /\ line \in held2
             /\ QueueOK(Append(q, x \o needs), held2, states, started)
  <2> DEFINE i == Inv(out, isLoad)
             between == held \ {out}
  <2>1. (CHOOSE o \in answer.evicted : TRUE) = out
    BY <1>5
  <2>2. i \in PendingRequest /\ i.addr = out /\ i.requestType = "INV"
    BY DEF Inv, PendingRequest, held
  <2>3. needs = <<i, p>>
    BY <1>5, <2>1 DEF Needs, p
  <2>4. RowPaired(<<i, p>>)
    BY PairedRows DEF p
  <2> HIDE DEF i
  <2>5. Means(i, held, between) /\ Means(p, between, held2)
    BY <1>3, <1>5, <2>2 DEF Means
  <2>6. between \subseteq Line /\ held2 \subseteq Line /\ line \in held2
    BY <1>5 DEF held
  <2>7. QueueOK(Append(q, Append(x, i)), between, states, started)
    BY <2>2, <2>5, <2>6, QueueOneMore DEF held
  <2>8. QueueOK(Append(q, Append(Append(x, i), p)), held2, states, started)
    BY <1>3, <2>2, <2>5, <2>6, <2>7, QueueOneMore, MoreRequests
  <2> HIDE DEF needs
  <2>9. needs \in Seq(PendingRequest) /\ x \o needs = Append(Append(x, i), p)
    BY <1>3, <2>2, <2>3, MoreRequests
  <2> QED
    BY <2>3, <2>4, <2>6, <2>8, <2>9
<1> QED
  BY <1>2, <1>4, <1>5 DEF StoreEffectOf, answer, isStore, held, held2

\* What is granted can be read.
LEMMA GrantedReadable ==
    ASSUME NEW isRead \in BOOLEAN, NEW st \in SchemeStates, Cache(isRead, st).permAvail
    PROVE  Cache(isRead, st).next \in Readable
<1> USE DEF SchemeStates, Granted, Waiting, Asking, Readable, Writable, Cache
<1>1. CASE cs = "MI"
  BY <1>1 DEF CacheMI
<1>2. CASE cs = "MSI"
  BY <1>2 DEF CacheMSI, CacheCommon
<1>3. CASE cs = "MESI"
  BY <1>3 DEF CacheMESI, CacheCommon
<1>4. CASE cs = "MOESI"
  BY <1>4 DEF CacheMOESI, CacheMESI, CacheCommon
<1>5. CASE cs = "MESIF"
  BY <1>5 DEF CacheMESIF, CacheMESI, CacheCommon
<1> QED
  BY <1>1, <1>2, <1>3, <1>4, <1>5, SchemeAssumption DEF Scheme

\* What the cache is told of a delivery: data for a line that waits, and nothing for
\* one that has been given up.
LEMMA DeliveryCallback ==
    /\ \A st \in SchemeStates \cap Transient : Snoop("DATA", st).ca = "DATA_RECV"
    /\ Snoop("DATA", "INVALID").ca = "NO_ACTION"
    /\ Snoop("DATA", "INVALID").next = "INVALID"
<1> USE DEF SchemeStates, Quiet, Drop, Reply, Received, AwaitFill, BusRequest, BusReply,
            Transient, ReadTransient, WriteTransient, Snoop
<1>1. CASE cs = "MI"
  BY <1>1 DEF SnoopMI
<1>2. CASE cs = "MSI"
  BY <1>2 DEF SnoopMSI
<1>3. CASE cs = "MESI"
  BY <1>3 DEF SnoopMESI
<1>4. CASE cs = "MOESI"
  BY <1>4 DEF SnoopMOESI, SnoopMESI
<1>5. CASE cs = "MESIF"
  BY <1>5 DEF SnoopMESIF, SnoopMESI
<1> QED
  BY <1>1, <1>2, <1>3, <1>4, <1>5, SchemeAssumption DEF Scheme

\* Readable lines do not wait.
LEMMA ReadableStable == Readable \cap Transient = {} /\ "INVALID" \notin Readable \cup Transient
  BY DEF Readable, Writable, Transient, ReadTransient, WriteTransient

\* There is one processor.
LEMMA OneProc == Proc = {procNum} /\ procNum \in Proc /\ procNum = 0
  BY OneProcessorAssumption DEF Proc, procNum

-----------------------------------------------------------------------------
\* What asking coherence for the first request does to the states c: it is granted and
\* done, or it waits.
AskEffect(q, H, c, r) ==
    LET answer == Cache(r.isLoad, c[r.addr])
        c2 == [c EXCEPT ![r.addr] = answer.next]
    IN /\ c2 \in [Addr -> SchemeStates]
       /\ \A a \in Addr \ {r.addr} : c2[a] = c[a]
       /\ answer.permAvail =>
            /\ QueueOK(Without(q), H, c2, FALSE)
            /\ answer.send = "NO_REQ"
            /\ \A a \in Addr : c2[a] \notin Transient
       /\ ~answer.permAvail =>
            /\ QueueOK(q, H, c2, TRUE)
            /\ answer.send \in BusRequest
            /\ c2[r.addr] \in Transient

\* A permission that is asked for keeps the queue right, granted or not.
LEMMA AskFirst ==
    ASSUME NEW q, NEW H, H \subseteq Line, Line = Addr, NEW c \in [Addr -> SchemeStates],
           QueueOK(q, H, c, FALSE), q # <<>>, Head(q) # <<>>,
           \A a \in Addr : c[a] \notin Transient,
           NEW r, r = q[1][1], r.requestType = "PERM"
    PROVE  AskEffect(q, H, c, r)
<1> DEFINE answer == Cache(r.isLoad, c[r.addr])
           c2 == [c EXCEPT ![r.addr] = answer.next]
<1>1. q \in Queue /\ r \in PendingRequest
  BY WithoutShape DEF QueueOK
<1>2. r.isLoad \in BOOLEAN /\ r.addr \in Addr /\ c[r.addr] \in SchemeStates
      /\ c[r.addr] \notin Transient
  BY <1>1 DEF PendingRequest
<1>3. /\ answer.next \in SchemeStates
      /\ answer.send \in {"NO_REQ"} \cup BusRequest
  BY <1>2, CacheAnswer
<1>4. /\ answer.permAvail => answer.send = "NO_REQ" /\ answer.next \notin Transient
      /\ ~answer.permAvail => answer.next \in Transient /\ answer.send # "NO_REQ"
  BY <1>2, HitOrAsk
<1>5. answer.permAvail => answer.next \in Readable
  BY <1>2, GrantedReadable
<1> HIDE DEF answer
<1>6. c2 \in [Addr -> SchemeStates] /\ c2[r.addr] = answer.next
      /\ \A a \in Addr \ {r.addr} : c2[a] = c[a]
  BY <1>2, <1>3
<1> HIDE DEF c2
<1>7. ASSUME answer.permAvail PROVE QueueOK(Without(q), H, c2, FALSE)
  <2>1. Served(q, c, c2)
    BY <1>5, <1>6, <1>7 DEF Served
  <2> QED
    BY <2>1, QueueServed
<1>8. ASSUME ~answer.permAvail PROVE QueueOK(q, H, c2, TRUE)
  BY <1>6, QueueStarted
<1> QED
  BY <1>3, <1>4, <1>6, <1>7, <1>8 DEF answer, c2, AskEffect

-----------------------------------------------------------------------------
\* The lines in the arrays.
Held0 == HeldWhere(FALSE)

\* Types below the cache; one processor never transfers a line to another.
Below ==
    /\ MemTypeOK
    /\ BusTypeOK
    /\ StatesInv
    /\ MemoryServesBus
    /\ pendingRequest # NULL =>
         /\ pendingRequest.currentState # "TRANSFERING_CACHE"
         /\ ~pendingRequest.shared

\* The request that has been sent, and it alone, is under way below.
Link ==
    /\ isStarted \in BOOLEAN
    /\ ~isStarted =>
         /\ pendingRequest = NULL
         /\ queuedRequests[procNum] = <<>>
         /\ \A a \in Addr : coherStates[procNum][a] \notin Transient
    /\ isStarted =>
         /\ memReqQueue # <<>> /\ Head(memReqQueue) # <<>>
         /\ \A a \in Addr \ {Current.addr} : coherStates[procNum][a] \notin Transient
         /\ Current.requestType = "PERM" => coherStates[procNum][Current.addr] \in Transient
         /\ Current.requestType = "INV" =>
              coherStates[procNum][Current.addr] = "INVALID" /\ pendingRequest # NULL
         /\ pendingRequest # NULL =>
              queuedRequests[procNum] = <<>> /\ pendingRequest.addr = Current.addr
         /\ pendingRequest = NULL =>
              /\ Len(queuedRequests[procNum]) = 1
              /\ queuedRequests[procNum][1].addr = Current.addr

\* The queue and the arrays.
Asked ==
    /\ Held0 \subseteq Line
    /\ QueueOK(memReqQueue, Held0, coherStates[procNum], isStarted)
    /\ Paired(memReqQueue)
    /\ Len(memReqQueue) <= MaxOutstanding

\* The inductive invariant of P4Spec.
P4Inv == Below /\ Link /\ Asked /\ ArrayInv /\ ticked \in BOOLEAN

\* The invariant holds at first.
LEMMA P4InvInit == P4Init => P4Inv
<1> SUFFICES ASSUME P4Init PROVE P4Inv
  OBVIOUS
<1>1. BusInv
  BY BusInvInit DEF P4Init
<1>2. pendingRequest = NULL /\ queuedRequests[procNum] = <<>>
      /\ \A a \in Addr : coherStates[procNum][a] = "INVALID"
  BY OneProc DEF P4Init, Init, BusInit
<1>3. Below
  BY <1>1, <1>2 DEF Below, BusInv
<1>4. Link
  BY <1>2, ReadableStable DEF Link, P4Init
<1>5. ArrayInv
  BY ArrayInvInit DEF P4Init
<1>6. Held0 = {}
  <2>1. Lines!Init
    BY StoresNothingAtFirst DEF P4Init
  <2> QED
    BY <2>1 DEF Lines!Init, Held0
<1>7. memReqQueue = <<>> /\ memReqQueue \in Queue /\ \A i : i \notin DOMAIN memReqQueue
  BY DEF P4Init, Queue
<1>8. \A i, j : ~At(memReqQueue, i, j)
  BY <1>7 DEF At
<1>9. QueueOK(memReqQueue, Held0, coherStates[procNum], isStarted)
  <2>1. HeldAsked(memReqQueue, Held0, coherStates[procNum])
    BY <1>6 DEF HeldAsked
  <2>2. OthersGiven(memReqQueue, Held0, coherStates[procNum])
    BY <1>2, <1>8, ReadableStable, OneProcessorAssumption DEF OthersGiven, LastFor
  <2>3. FirstGranted(memReqQueue, coherStates[procNum], isStarted) /\ AskedBefore(memReqQueue)
    BY <1>8 DEF FirstGranted, AskedBefore, GivesUp
  <2> QED
    BY <1>7, <2>1, <2>2, <2>3 DEF QueueOK
<1>10. Paired(memReqQueue) /\ Len(memReqQueue) <= MaxOutstanding
  BY <1>7, OutstandingAssumption DEF Paired
<1> QED
  BY <1>3, <1>4, <1>5, <1>6, <1>9, <1>10 DEF P4Inv, Asked, P4Init

\* An access that is not a load is a store.
LEMMA LoadOrStore == ASSUME NEW isLoad \in BOOLEAN PROVE \E isStore \in BOOLEAN : isStore = ~isLoad
  OBVIOUS

\* A memory access takes a step of the arrays.
LEMMA AccessIsArrayStep ==
    ASSUME ArrayInv, NEW line \in Line, NEW isLoad \in BOOLEAN, AccessOne(line, ~isLoad)
    PROVE  ArrayInv'
<1>1. PICK isStore \in BOOLEAN : isStore = ~isLoad
  BY LoadOrStore
<1>2. AccessOne(line, isStore)
  BY <1>1
<1>3. ArrayNext
  BY <1>2 DEF ArrayNext
<1> QED
  BY <1>3, ArrayInvStep

\* The requests of a new access start from none.
LEMMA NoRowYet ==
    ASSUME NEW y \in Seq(PendingRequest)
    PROVE  <<>> \in Seq(PendingRequest) /\ <<>> \o y = y
  OBVIOUS

\* What one access does to the arrays and the queue that is extended by its needs.
LEMMA AccessStep ==
    ASSUME P4Inv, NEW line \in Line, NEW isLoad \in BOOLEAN
    PROVE  LET first == Access(Arrays, line, ~isLoad, iteration)
               needs == Needs(first, line, isLoad)
               held  == Held(first.arrays, FALSE)
           IN /\ Good(first.arrays, iteration)
              /\ held \subseteq Line
              /\ needs \in Seq(PendingRequest)
              /\ RowPaired(needs)
              /\ QueueOK(Append(memReqQueue, needs), held, coherStates[procNum], isStarted)
<1> DEFINE isStore == ~isLoad
           first == Access(Arrays, line, isStore, iteration)
           needs == Needs(first, line, isLoad)
           held == Held(first.arrays, FALSE)
           none == <<>>
<1>1. /\ Good(Arrays, iteration) /\ iteration \in Nat /\ line \in Nat /\ isStore \in BOOLEAN
      /\ Held(Arrays, FALSE) = Held0
      /\ Held0 \subseteq Line /\ Line = Addr
      /\ memReqQueue \in Queue
      /\ QueueOK(memReqQueue, Held0, coherStates[procNum], isStarted)
  BY LineAssumption, OneProcessorAssumption
     DEF P4Inv, Asked, ArrayInv, ArrayTypeOK, Held0, HeldWhere, QueueOK
<1>2. QueueOK(Append(memReqQueue, none), Held0, coherStates[procNum], isStarted)
  BY <1>1, QueueEmptyRow
<1>3. none \in Seq(PendingRequest)
  OBVIOUS
<1> HIDE DEF isStore, none
<1>4. Good(first.arrays, iteration)
  BY <1>1, AccessGood
<1>5. /\ needs \in Seq(PendingRequest)
      /\ RowPaired(needs)
      /\ held \subseteq Line
      /\ QueueOK(Append(memReqQueue, none \o needs), held, coherStates[procNum], isStarted)
  BY <1>1, <1>2, <1>3, NeedsAsked, ZenonT(40) DEF isStore
<1> HIDE DEF first, held, needs
<1>6. none \o needs = needs
  BY <1>5, NoRowYet DEF none
<1> QED
  BY <1>4, <1>5, <1>6 DEF first, held, needs, isStore

\* An access within one line extends arrays and queue together.
LEMMA P4InvWithin ==
    ASSUME P4Inv, NEW line \in Line, NEW isLoad \in BOOLEAN, MemoryRequestWithin(line, isLoad)
    PROVE  /\ ArrayInv'
           /\ Held0' \subseteq Line
           /\ Paired(memReqQueue')
           /\ QueueOK(memReqQueue', Held0', coherStates[procNum], isStarted)
<1> DEFINE first == Access(Arrays, line, ~isLoad, iteration)
           needs == Needs(first, line, isLoad)
           held == Held(first.arrays, FALSE)
<1>1. /\ Good(first.arrays, iteration)
      /\ held \subseteq Line
      /\ needs \in Seq(PendingRequest)
      /\ RowPaired(needs)
      /\ QueueOK(Append(memReqQueue, needs), held, coherStates[procNum], isStarted)
  BY AccessStep
<1>2. memReqQueue' = Append(memReqQueue, needs) /\ Store(first.arrays, iteration)
  BY DEF MemoryRequestWithin, AccessOne
<1>3. ArrayInv /\ ArrayTypeOK /\ iteration \in Nat /\ memReqQueue \in Queue /\ Paired(memReqQueue)
  BY DEF P4Inv, ArrayInv, ArrayTypeOK, Asked, QueueOK
<1>4. ArrayInv'
  BY <1>3, AccessIsArrayStep DEF MemoryRequestWithin
<1> HIDE DEF needs, first
<1>5. Held0' = held
  BY <1>1, <1>2, <1>3, StoreHolds DEF Held0
<1> QED
  BY <1>1, <1>2, <1>3, <1>4, <1>5, PairedAppend

\* An access that runs on into the next line does so twice.
LEMMA P4InvAcross ==
    ASSUME P4Inv, NEW line \in Line, NEW isLoad \in BOOLEAN, MemoryRequestAcross(line, isLoad)
    PROVE  /\ ArrayInv'
           /\ Held0' \subseteq Line
           /\ Paired(memReqQueue')
           /\ QueueOK(memReqQueue', Held0', coherStates[procNum], isStarted)
<1> DEFINE isStore == ~isLoad
           first == Access(Arrays, line, ~isLoad, iteration)
           second == Access(first.arrays, line + 1, ~isLoad, iteration)
           needs == Needs(first, line, isLoad)
           more == Needs(second, line + 1, isLoad)
           held == Held(first.arrays, FALSE)
           held2 == Held(second.arrays, FALSE)
           p == Perm(line + 1, isLoad)
<1>1. /\ Good(first.arrays, iteration)
      /\ held \subseteq Line
      /\ needs \in Seq(PendingRequest)
      /\ RowPaired(needs)
      /\ QueueOK(Append(memReqQueue, needs), held, coherStates[procNum], isStarted)
  BY AccessStep
<1>2. ArrayInv /\ ArrayTypeOK /\ iteration \in Nat /\ memReqQueue \in Queue /\ Paired(memReqQueue)
      /\ Line = Addr
  BY OneProcessorAssumption DEF P4Inv, ArrayInv, ArrayTypeOK, Asked, QueueOK
<1>3. line + 1 \in Line /\ line + 1 \in Nat
  BY LineAssumption DEF MemoryRequestAcross
<1>4. CASE S = 1
  <2>1. AccessOne(line, ~isLoad) /\ memReqQueue' = Append(memReqQueue, Append(needs, p))
    BY <1>4 DEF MemoryRequestAcross
  <2>2. Store(first.arrays, iteration)
    BY <2>1 DEF AccessOne
  <2>3. ArrayInv'
    BY <1>2, <2>1, AccessIsArrayStep
  <2>4. p \in PendingRequest /\ p.requestType = "PERM" /\ RowPaired(<<p>>)
    BY <1>2, <1>3, PairedRows DEF Perm, PendingRequest
  <2> HIDE DEF needs, first, p
  <2>5. Held0' = held
    BY <1>1, <1>2, <2>2, StoreHolds DEF Held0
  <2>6. Means(p, held, held)
    BY <1>4, <2>4 DEF Means
  <2>7. QueueOK(memReqQueue', held, coherStates[procNum], isStarted)
    BY <1>1, <1>2, <2>1, <2>4, <2>6, QueueOneMore
  <2>8. RowPaired(Append(needs, p)) /\ Append(needs, p) \in Seq(PendingRequest)
    BY <1>1, <2>4, PairedConcat, MoreRequests
  <2> QED
    BY <1>1, <1>2, <2>1, <2>3, <2>5, <2>7, <2>8, PairedAppend
<1>5. CASE S # 1
  <2>1. /\ Store(second.arrays, iteration)
        /\ result' = [res |-> second.res, evicted |-> second.evicted]
        /\ memReqQueue' = Append(memReqQueue, needs \o more)
    BY <1>5 DEF MemoryRequestAcross
  <2>2. isStore \in BOOLEAN /\ second = Access(first.arrays, line + 1, isStore, iteration)
    OBVIOUS
  <2> HIDE DEF isStore, first, needs
  <2>3. /\ more \in Seq(PendingRequest)
        /\ RowPaired(more)
        /\ held2 \subseteq Line
        /\ QueueOK(Append(memReqQueue, needs \o more), held2, coherStates[procNum], isStarted)
    BY <1>1, <1>2, <1>3, NeedsAsked, ZenonT(40)
  <2> HIDE DEF second, more
  <2>4. Good(second.arrays, iteration)
    BY <1>1, <1>2, <1>3, <2>2, AccessGood
  <2>5. AccessEffect(first.arrays, second.arrays, second.res, second.evicted, line + 1, isStore,
                     iteration)
    BY <1>1, <1>2, <1>3, <2>2, AccessIs DEF Good
  <2>6. result' \in Result
    <3>1. \A v \in VictimWay : first.arrays.victim[v].tag \in Nat
      BY <1>1, FieldsOf DEF Good
    <3>2. second.res \in {"HIT", "MISS", "MISS_EVICT"} /\ second.evicted \subseteq Nat
      BY <2>5, <3>1 DEF AccessEffect
    <3> QED
      BY <2>1, <3>2 DEF Result
  <2>7. ArrayInv'
    BY <1>2, <2>1, <2>4, <2>6, StoreGood
  <2>8. Held0' = held2
    BY <1>2, <2>1, <2>4, StoreHolds DEF Held0
  <2>9. RowPaired(needs \o more) /\ needs \o more \in Seq(PendingRequest)
    BY <1>1, <2>3, PairedConcat
  <2> QED
    BY <1>2, <2>1, <2>3, <2>7, <2>8, <2>9, PairedAppend
<1> QED
  BY <1>4, <1>5

\* A memory access keeps the invariant: below the cache nothing happens.
LEMMA P4InvMemoryRequest ==
    ASSUME P4Inv, NEW line \in Line, NEW isLoad \in BOOLEAN, MemoryRequest(line, isLoad)
    PROVE  P4Inv'
<1>1. /\ ArrayInv'
      /\ Held0' \subseteq Line
      /\ Paired(memReqQueue')
      /\ QueueOK(memReqQueue', Held0', coherStates[procNum], isStarted)
  BY P4InvWithin, P4InvAcross DEF MemoryRequest
<1>2. /\ Len(memReqQueue) < MaxOutstanding
      /\ UNCHANGED <<vars, isStarted, ticked>>
      /\ \E x : memReqQueue' = Append(memReqQueue, x)
  BY DEF MemoryRequest, MemoryRequestWithin, MemoryRequestAcross
<1>3. memReqQueue \in Queue /\ memReqQueue' \in Queue
  BY <1>1 DEF P4Inv, Asked, QueueOK
<1>4. /\ Len(memReqQueue') <= MaxOutstanding
      /\ memReqQueue # <<>> => memReqQueue' # <<>> /\ Head(memReqQueue') = Head(memReqQueue)
  BY <1>2, <1>3, OutstandingAssumption DEF Queue
<1>5. Below'
  BY <1>2 DEF P4Inv, Below, vars, memVars, busVars, MemTypeOK, BusTypeOK, StatesInv, MemoryServesBus
<1>6. Link'
  BY <1>2, <1>4 DEF P4Inv, Link, Current, vars, memVars, busVars
<1>7. Asked'
  BY <1>1, <1>2, <1>4 DEF Asked, vars
<1> QED
  BY <1>1, <1>2, <1>5, <1>6, <1>7 DEF P4Inv

\* Time passes in the arrays: they hold the same lines.
LEMMA TickOfArrays ==
    ASSUME ArrayInv, ArrayTick
    PROVE  ArrayInv' /\ Held0' = Held0
<1>1. Good(Arrays, iteration) /\ ArrayTypeOK /\ iteration + 1 \in Nat
  BY DEF ArrayInv, ArrayTypeOK
<1>2. ArrayInv'
  BY ArrayInvStep DEF ArrayNext
<1>3. Good(Arrays, iteration + 1)
  <2>1. Arrays \in ArraysType
    BY <1>1 DEF Good
  <2>2. Stamped(Arrays, iteration + 1)
    BY <1>1, <2>1, FieldsOf DEF Good, Stamped, ArrayTypeOK
  <2> QED
    BY <1>1, <2>2 DEF Good
<1>4. Store(Arrays, iteration + 1)
  BY DEF ArrayTick
<1>5. HeldWhere(FALSE)' = Held(Arrays, FALSE)
  BY <1>1, <1>3, <1>4, StoreHolds
<1> QED
  BY <1>2, <1>5 DEF Held0, HeldWhere

\* What P4Inv asks of everything but the arrays, after a step that leaves the lines
\* in them alone.
Progress ==
    /\ Below'
    /\ Link'
    /\ QueueOK(memReqQueue', Held0, coherStates'[procNum], isStarted')
    /\ Paired(memReqQueue')
    /\ Len(memReqQueue') <= MaxOutstanding

\* With one processor the request on the bus is its own; it waits for its turn or for
\* the memory, which is never told that another cache has the line.
LEMMA BelowContext ==
    ASSUME Below
    PROVE  /\ ~Squelch
           /\ countDown \in Nat /\ memCountDown \in Nat
           /\ MemLeft(Squelch) = IF memCountDown = 0 THEN 0 ELSE memCountDown - 1
           /\ pendingRequest # NULL =>
                /\ pendingRequest \in PendingReq
                /\ pendingRequest.procNum = procNum
                /\ pendingRequest.addr \in Addr
                /\ pendingRequest.brt \in BusRequest \cup {"DATA"}
                /\ ~pendingRequest.shared
                /\ countDown > 0
                /\ \/ /\ pendingRequest.currentState = "WAITING_CACHE"
                      /\ memRequest = NULL
                      /\ memCountDown = 0
                      /\ ~DataAvail
                   \/ /\ pendingRequest.currentState = "WAITING_MEMORY"
                      /\ memRequest # NULL
                      /\ memCountDown = countDown
                      /\ DataAvail <=> countDown = 1
           /\ pendingRequest = NULL =>
                countDown = 0 /\ memRequest = NULL /\ memCountDown = 0
<1>1. ~Squelch /\ countDown \in Nat /\ memCountDown \in Nat
      /\ MemLeft(Squelch) = IF memCountDown = 0 THEN 0 ELSE memCountDown - 1
  BY DramAssumption, DelayAssumption, TransferAssumption
     DEF Below, Squelch, MemTypeOK, BusTypeOK, LongestDelay, MemLeft
<1>2. pendingRequest = NULL => countDown = 0 /\ memRequest = NULL /\ memCountDown = 0
  BY <1>1 DEF Below, MemoryServesBus
<1>3. ASSUME pendingRequest # NULL
      PROVE  /\ pendingRequest \in PendingReq
             /\ pendingRequest.procNum = procNum
             /\ pendingRequest.addr \in Addr
             /\ pendingRequest.brt \in BusRequest \cup {"DATA"}
             /\ ~pendingRequest.shared
             /\ countDown > 0
             /\ pendingRequest.currentState \in {"WAITING_CACHE", "WAITING_MEMORY"}
  BY <1>3, OneProc DEF Below, BusTypeOK, PendingReq, MemoryServesBus
<1>4. ASSUME pendingRequest # NULL, pendingRequest.currentState = "WAITING_CACHE"
      PROVE  memRequest = NULL /\ memCountDown = 0 /\ ~DataAvail
  BY <1>1, <1>4 DEF Below, MemoryServesBus, DataAvail, MemCallsBack, MemReleases
<1>5. ASSUME pendingRequest # NULL, pendingRequest.currentState = "WAITING_MEMORY"
      PROVE  /\ memRequest # NULL
             /\ memCountDown = countDown
             /\ DataAvail <=> countDown = 1
  BY <1>1, <1>3, <1>5 DEF Below, MemoryServesBus, DataAvail, MemCallsBack, MemReleases
<1> QED
  BY <1>1, <1>2, <1>3, <1>4, <1>5

\* A tick that only counts.
LEMMA P4InvCountDown ==
    ASSUME P4Inv, CountDown, UNCHANGED <<coherStates, memReqQueue, isStarted>>
    PROVE  Progress
<1>1. Below /\ Link /\ Asked
  BY DEF P4Inv
<1>2. /\ countDown' = countDown - 1 /\ countDown > 0
      /\ UNCHANGED <<pendingRequest, queuedRequests, lastProc>>
      /\ memCountDown' = MemLeft(Squelch)
      /\ memRequest' = IF memRequest # NULL /\ MemLeft(Squelch) = 0 THEN NULL ELSE memRequest
  BY DEF CountDown, MemTick, MemReleases
<1>3. pendingRequest # NULL /\ countDown \in Nat /\ memCountDown \in Nat
      /\ MemLeft(Squelch) = IF memCountDown = 0 THEN 0 ELSE memCountDown - 1
  BY <1>1, <1>2, BelowContext
<1>4. countDown # 1
  BY <1>1, <1>3, BelowContext DEF CountDown, Expires
<1>5. MemTypeOK' /\ BusTypeOK'
  <2>1. MemTypeOK'
    BY <1>1, <1>2, <1>3, DramAssumption DEF Below, MemTypeOK
  <2>2. BusTypeOK'
    BY <1>1, <1>2, <1>3, DramAssumption, DelayAssumption, TransferAssumption
       DEF Below, BusTypeOK, LongestDelay
  <2> QED
    BY <2>1, <2>2
<1>6. MemoryServesBus'
  <2>1. CASE pendingRequest.currentState = "WAITING_CACHE"
    BY <1>1, <1>2, <1>3, <1>4, <2>1, BelowContext DEF MemoryServesBus
  <2>2. CASE pendingRequest.currentState = "WAITING_MEMORY"
    <3>1. memCountDown = countDown /\ memRequest # NULL
      BY <1>1, <1>3, <2>2, BelowContext
    <3> QED
      BY <1>1, <1>2, <1>3, <1>4, <2>2, <3>1 DEF Below, MemoryServesBus
  <2> QED
    BY <1>1, <1>3, <2>1, <2>2, BelowContext
<1>7. Below'
  BY <1>1, <1>2, <1>5, <1>6 DEF Below, StatesInv
<1>8. Link'
  BY <1>1, <1>2 DEF Link, Current
<1> QED
  BY <1>1, <1>7, <1>8 DEF Asked, Progress

\* Nothing to do below: the request that has been sent would be there.
LEMMA P4InvIdle ==
    ASSUME P4Inv, IdleTick, UNCHANGED <<coherStates, memReqQueue, isStarted>>
    PROVE  Progress
<1>1. Below /\ Link /\ Asked /\ countDown = 0 /\ UNCHANGED busVars /\ MemTick(Squelch)
  BY DEF P4Inv, IdleTick
<1>2. memRequest = NULL /\ memCountDown = 0 /\ pendingRequest = NULL
  BY <1>1, BelowContext
<1>3. memRequest' = NULL /\ memCountDown' = 0
  BY <1>2 DEF MemTick, MemReleases, MemLeft, IdleTick
<1>4. Below'
  BY <1>1, <1>2, <1>3
     DEF Below, MemTypeOK, BusTypeOK, StatesInv, MemoryServesBus, busVars
<1>5. Link'
  BY <1>1 DEF Link, Current, busVars
<1> QED
  BY <1>1, <1>4, <1>5 DEF Asked, Progress

\* A request that takes the bus, also one that carries data.
LEMMA OnTheBus ==
    ASSUME NEW brt \in BusRequest \cup {"DATA"}, NEW a \in Addr
    PROVE  LET p == Admitted(brt, a, procNum)
           IN /\ p \in PendingReq /\ p # NULL
              /\ p.addr = a /\ p.currentState = "WAITING_CACHE" /\ ~p.shared
<1>1. Admitted(brt, a, procNum) \in PendingReq
  BY OneProc DEF Admitted, PendingReq
<1> QED
  BY <1>1, NoPendingAssumption DEF Admitted

\* Below after a request has taken the free bus.
LEMMA BelowAdmitted ==
    ASSUME Below, pendingRequest = NULL, NEW brt \in BusRequest \cup {"DATA"}, NEW a \in Addr,
           pendingRequest' = Admitted(brt, a, procNum),
           countDown' = CACHE_DELAY, UNCHANGED memVars,
           queuedRequests' \in [Proc -> Seq(QueuedReq)], lastProc' \in Proc, StatesInv'
    PROVE  Below'
<1>1. memRequest = NULL /\ memCountDown = 0
  BY BelowContext
<1>2. /\ pendingRequest' \in PendingReq /\ pendingRequest' # NULL
      /\ pendingRequest'.currentState = "WAITING_CACHE" /\ ~pendingRequest'.shared
  BY OnTheBus
<1>3. CACHE_DELAY \in 0 .. LongestDelay /\ CACHE_DELAY > 0
  BY DramAssumption, DelayAssumption, TransferAssumption DEF LongestDelay
<1>4. BusTypeOK'
  BY <1>2, <1>3 DEF BusTypeOK
<1>5. MemTypeOK'
  BY DEF Below, MemTypeOK, memVars
<1>6. MemoryServesBus'
  BY <1>1, <1>2, <1>3 DEF MemoryServesBus, memVars
<1> QED
  BY <1>2, <1>4, <1>5, <1>6 DEF Below

\* A queue of one.
LEMMA QueueOfOne ==
    ASSUME NEW X, NEW s \in Seq(X), Len(s) = 1
    PROVE  Head(s) \in X /\ Head(s) = s[1] /\ Tail(s) = <<>>
<1>1. Head(s) \in X /\ Head(s) = s[1] /\ Tail(s) \in Seq(X) /\ Len(Tail(s)) = 0
  OBVIOUS
<1> DEFINE t == Tail(s)
<1>2. t \in Seq(X) /\ Len(t) = 0
  BY <1>1
<1> HIDE DEF t
<1>3. t = <<>>
  BY <1>2
<1> QED
  BY <1>1, <1>3 DEF t

\* The request that waits takes the free bus.
LEMMA P4InvArbitrate ==
    ASSUME P4Inv, Arbitrate, UNCHANGED <<coherStates, memReqQueue, isStarted>>
    PROVE  Progress
<1>1. Below /\ Link /\ Asked /\ countDown = 0 /\ MemTick(Squelch) /\ isStarted \in BOOLEAN
  BY DEF P4Inv, Arbitrate, Link
<1>2. pendingRequest = NULL /\ memRequest = NULL /\ memCountDown = 0
  BY <1>1, BelowContext
<1>3. memRequest' = NULL /\ memCountDown' = 0
  BY <1>1, <1>2 DEF MemTick, MemReleases, MemLeft
<1>4. PICK k \in 0 .. processorCount - 1 :
        LET winner == (k + lastProc) % processorCount
            first  == Head(queuedRequests[winner])
        IN /\ queuedRequests[winner] # <<>>
           /\ pendingRequest' = Admitted(first.brt, first.addr, winner)
           /\ queuedRequests' = [queuedRequests EXCEPT ![winner] = Tail(@)]
           /\ countDown' = CACHE_DELAY
           /\ lastProc' = NextProc(winner)
  BY DEF Arbitrate
<1>5. /\ (k + lastProc) % processorCount = procNum
      /\ NextProc(procNum) \in Proc
  BY <1>1, OneProc, OneProcessorAssumption DEF Below, BusTypeOK, NextProc, Proc
<1> DEFINE first == Head(queuedRequests[procNum])
<1>6. /\ queuedRequests[procNum] # <<>>
      /\ pendingRequest' = Admitted(first.brt, first.addr, procNum)
      /\ queuedRequests' = [queuedRequests EXCEPT ![procNum] = Tail(@)]
      /\ countDown' = CACHE_DELAY
      /\ lastProc' \in Proc
  BY <1>4, <1>5
<1>7. queuedRequests \in [Proc -> Seq(QueuedReq)] /\ queuedRequests[procNum] \in Seq(QueuedReq)
  BY <1>1, OneProc DEF Below, BusTypeOK
<1>8. isStarted /\ Len(queuedRequests[procNum]) = 1
      /\ queuedRequests[procNum][1].addr = Current.addr
  BY <1>1, <1>2, <1>6 DEF Link
<1>9. first \in QueuedReq /\ first.addr = Current.addr /\ Tail(queuedRequests[procNum]) = <<>>
  BY <1>7, <1>8, QueueOfOne
<1>10. queuedRequests' \in [Proc -> Seq(QueuedReq)] /\ queuedRequests'[procNum] = <<>>
  BY <1>6, <1>7, <1>9, OneProc
<1>11. first.brt \in BusRequest \cup {"DATA"} /\ first.addr \in Addr
  BY <1>9 DEF QueuedReq
<1> HIDE DEF first
<1>12. /\ pendingRequest' \in PendingReq /\ pendingRequest' # NULL
       /\ pendingRequest'.addr = Current.addr
  BY <1>6, <1>9, <1>11, OnTheBus
<1>13. Below'
  <2>1. UNCHANGED memVars
    BY <1>2, <1>3 DEF memVars
  <2>2. StatesInv'
    BY <1>1 DEF Below, StatesInv
  <2> QED
    BY <1>1, <1>2, <1>6, <1>10, <1>11, <2>1, <2>2, BelowAdmitted
<1>14. Link'
  BY <1>1, <1>2, <1>8, <1>10, <1>12 DEF Link, Current
<1> QED
  BY <1>1, <1>13, <1>14 DEF Asked, Progress

\* Nobody else sees a request: it goes to the memory.
LEMMA P4InvSnoop ==
    ASSUME P4Inv, SnoopBroadcast, UNCHANGED <<memReqQueue, isStarted>>
    PROVE  Progress
<1>1. Below /\ Link /\ Asked
  BY DEF P4Inv
<1>2. countDown > 0 /\ ~DataAvail /\ pendingRequest.currentState = "WAITING_CACHE"
  BY DEF SnoopBroadcast, SnoopEnabled, Expires
<1>3. /\ pendingRequest # NULL
      /\ pendingRequest \in PendingReq
      /\ pendingRequest.procNum = procNum
      /\ pendingRequest.addr \in Addr
      /\ pendingRequest.brt \in BusRequest \cup {"DATA"}
  BY <1>1, <1>2, BelowContext
<1>4. Snoopers = {}
  BY <1>3, OneProc DEF Snoopers
<1>5. Replies = {}
  BY <1>4 DEF Replies
<1>6. coherStates' = coherStates
  BY <1>1, <1>4 DEF SnoopBroadcast, Below, StatesInv
<1>7. /\ pendingRequest' = Snooped({})
      /\ countDown' = DRAM_FETCH_TICKS
      /\ memRequest' = [addr |-> pendingRequest.addr, procNum |-> pendingRequest.procNum]
      /\ memCountDown' = DRAM_FETCH_TICKS
      /\ UNCHANGED <<queuedRequests, lastProc>>
  BY <1>5 DEF SnoopBroadcast, BusAfterSnoop, MemBusReq
<1>8. /\ pendingRequest' \in PendingReq
      /\ pendingRequest'.addr = pendingRequest.addr
      /\ pendingRequest'.procNum = procNum
      /\ pendingRequest'.currentState = "WAITING_MEMORY"
      /\ ~pendingRequest'.shared
  <2>1. Snooped({}) \in PendingReq
    BY <1>3, OneProc DEF Snooped, PendingReq
  <2>2. /\ Snooped({}).addr = pendingRequest.addr
        /\ Snooped({}).procNum = procNum
        /\ Snooped({}).currentState = "WAITING_MEMORY"
    BY <1>3 DEF Snooped
  <2>3. ~Snooped({}).shared
    BY DEF Snooped
  <2> QED
    BY <1>7, <2>1, <2>2, <2>3
<1>9. pendingRequest' # NULL
  BY <1>8, NoPendingAssumption
<1>10. memRequest' \in MemReq /\ memRequest' # NULL
  BY <1>3, <1>7, NullAssumption, OneProc DEF MemReq
<1>11. DRAM_FETCH_TICKS \in 0 .. LongestDelay /\ DRAM_FETCH_TICKS > 0
  BY DramAssumption, DelayAssumption, TransferAssumption DEF LongestDelay
<1>12. MemTypeOK' /\ BusTypeOK'
  <2>1. MemTypeOK'
    BY <1>7, <1>10, <1>11 DEF MemTypeOK
  <2>2. BusTypeOK'
    BY <1>1, <1>7, <1>8, <1>11 DEF Below, BusTypeOK
  <2> QED
    BY <2>1, <2>2
<1>13. MemoryServesBus'
  BY <1>3, <1>7, <1>8, <1>9, <1>10, <1>11 DEF MemoryServesBus
<1>14. Below'
  BY <1>1, <1>6, <1>8, <1>12, <1>13 DEF Below, StatesInv
<1>15. Link'
  BY <1>1, <1>3, <1>6, <1>7, <1>8, <1>9 DEF Link, Current
<1> QED
  BY <1>1, <1>6, <1>14, <1>15 DEF Asked, Progress

\* The queue that P4Inv speaks of.
LEMMA QueueContext ==
    ASSUME P4Inv
    PROVE  /\ memReqQueue \in Queue /\ Len(memReqQueue) <= MaxOutstanding
           /\ Paired(memReqQueue)
           /\ coherStates[procNum] \in [Addr -> SchemeStates]
           /\ Held0 \subseteq Line /\ Line = Addr
           /\ QueueOK(memReqQueue, Held0, coherStates[procNum], isStarted)
           /\ memReqQueue # <<>> /\ Head(memReqQueue) # <<>> =>
                /\ Current = memReqQueue[1][1]
                /\ Current \in PendingRequest
                /\ Current.addr \in Addr
                /\ Dequeued = Without(memReqQueue)
                /\ Dequeued \in Queue /\ Len(Dequeued) = Len(memReqQueue)
                /\ Dequeued # <<>>
                /\ Paired(Dequeued)
<1>1. /\ memReqQueue \in Queue /\ Len(memReqQueue) <= MaxOutstanding
      /\ Paired(memReqQueue)
      /\ Held0 \subseteq Line
      /\ QueueOK(memReqQueue, Held0, coherStates[procNum], isStarted)
  BY DEF P4Inv, Asked, QueueOK
<1>2. coherStates[procNum] \in [Addr -> SchemeStates] /\ Line = Addr
  BY OneProc, OneProcessorAssumption DEF P4Inv, Below, StatesInv
<1>3. ASSUME memReqQueue # <<>>, Head(memReqQueue) # <<>>
      PROVE  /\ Current = memReqQueue[1][1]
             /\ Current \in PendingRequest
             /\ Current.addr \in Addr
             /\ Dequeued = Without(memReqQueue)
             /\ Dequeued \in Queue /\ Len(Dequeued) = Len(memReqQueue)
             /\ Dequeued # <<>>
             /\ Paired(Dequeued)
  <2>1. Dequeued = Without(memReqQueue)
    BY DEF Dequeued, Without
  <2>2. /\ Without(memReqQueue) \in Queue /\ Len(Without(memReqQueue)) = Len(memReqQueue)
        /\ Without(memReqQueue) # <<>>
        /\ memReqQueue[1][1] = Head(Head(memReqQueue)) /\ memReqQueue[1][1] \in PendingRequest
    BY <1>1, <1>3, WithoutShape
  <2>3. Current = memReqQueue[1][1] /\ Current \in PendingRequest
    BY <2>2 DEF Current
  <2>4. Current.addr \in Addr
    BY <2>3 DEF PendingRequest
  <2>5. Paired(Without(memReqQueue))
    BY <1>1, <1>3, PairedWithout
  <2> QED
    BY <2>1, <2>2, <2>3, <2>4, <2>5
<1> QED
  BY <1>1, <1>2, <1>3

\* A delivery completes the current request, and the cache is told so: a line that
\* waited can be read, one that was given up stays so.
AnswersCurrent ==
    /\ Current.requestType = "PERM" =>
         /\ coherStates[procNum][Current.addr] \in Transient
         /\ Reaction(procNum, Delivered).ca = "DATA_RECV"
         /\ Reaction(procNum, Delivered).next \in Readable
         /\ Reaction(procNum, Delivered).next \in SchemeStates
    /\ Current.requestType = "INV" =>
         /\ coherStates[procNum][Current.addr] = "INVALID"
         /\ Reaction(procNum, Delivered).ca = "NO_ACTION"
         /\ Reaction(procNum, Delivered).next = "INVALID"
    /\ Current.requestType \in {"PERM", "INV"}

\* A delivery is data from the memory for the current request.
LEMMA DeliveryToCurrent ==
    ASSUME P4Inv, DeliveryEnabled
    PROVE  /\ isStarted
           /\ pendingRequest # NULL
           /\ pendingRequest.procNum = procNum
           /\ memReqQueue # <<>> /\ Head(memReqQueue) # <<>>
           /\ pendingRequest.addr = Current.addr
           /\ queuedRequests[procNum] = <<>>
           /\ MemLeft(Squelch) = 0 /\ memRequest # NULL
           /\ Reaction(procNum, Delivered) = Snoop("DATA", coherStates[procNum][Current.addr])
           /\ AnswersCurrent
<1>1. Below /\ Link /\ DataAvail /\ pendingRequest # NULL
  <2>1. Below /\ Link /\ Expires /\ pendingRequest # NULL
    BY BelowContext DEF P4Inv, DeliveryEnabled, Expires
  <2>2. DataAvail
    BY <2>1, BelowContext DEF DeliveryEnabled
  <2> QED
    BY <2>1, <2>2
<1>2. /\ pendingRequest.procNum = procNum /\ ~pendingRequest.shared
      /\ memRequest # NULL /\ MemLeft(Squelch) = 0
  <2>1. pendingRequest.procNum = procNum /\ ~pendingRequest.shared
    BY <1>1, BelowContext
  <2>2. memRequest # NULL /\ MemLeft(Squelch) = 0
    BY <1>1 DEF DataAvail, MemCallsBack, MemReleases
  <2> QED
    BY <2>1, <2>2
<1>3. /\ isStarted
      /\ memReqQueue # <<>> /\ Head(memReqQueue) # <<>>
      /\ pendingRequest.addr = Current.addr
      /\ queuedRequests[procNum] = <<>>
  BY <1>1 DEF Link
<1>4. Current \in PendingRequest /\ Current.addr \in Addr
      /\ coherStates[procNum][Current.addr] \in SchemeStates
  BY <1>3, QueueContext
<1>5. Delivered = "DATA"
  BY <1>1, <1>2 DEF Delivered
<1>6. Reaction(procNum, Delivered) = Snoop("DATA", coherStates[procNum][Current.addr])
  BY <1>3, <1>5 DEF Reaction
<1>7. ASSUME Current.requestType = "PERM"
      PROVE  /\ coherStates[procNum][Current.addr] \in Transient
             /\ Reaction(procNum, Delivered).ca = "DATA_RECV"
             /\ Reaction(procNum, Delivered).next \in Readable
             /\ Reaction(procNum, Delivered).next \in SchemeStates
  <2>1. coherStates[procNum][Current.addr] \in SchemeStates \cap Transient
    BY <1>1, <1>3, <1>4, <1>7 DEF Link
  <2>2. "DATA" \in BusReply
    BY DEF BusReply
  <2> QED
    BY <1>6, <2>1, <2>2, DeliveryCallback, DeliveryReaction
<1>8. ASSUME Current.requestType = "INV"
      PROVE  /\ coherStates[procNum][Current.addr] = "INVALID"
             /\ Reaction(procNum, Delivered).ca = "NO_ACTION"
             /\ Reaction(procNum, Delivered).next = "INVALID"
  <2>1. coherStates[procNum][Current.addr] = "INVALID"
    BY <1>1, <1>3, <1>8 DEF Link
  <2> QED
    BY <1>6, <2>1, DeliveryCallback
<1>9. Current.requestType \in {"PERM", "INV"}
  BY <1>4 DEF PendingRequest
<1>10. isStarted /\ pendingRequest # NULL /\ pendingRequest.procNum = procNum
       /\ memReqQueue # <<>> /\ Head(memReqQueue) # <<>>
       /\ pendingRequest.addr = Current.addr /\ queuedRequests[procNum] = <<>>
       /\ MemLeft(Squelch) = 0 /\ memRequest # NULL
  BY <1>1, <1>2, <1>3
<1>11. AnswersCurrent
  BY <1>7, <1>8, <1>9 DEF AnswersCurrent
<1> QED
  BY <1>6, <1>10, <1>11

\* Below after a delivery: the bus and the memory are free.
LEMMA BelowFree ==
    ASSUME Below, MemLeft(Squelch) = 0, memRequest # NULL, MemTick(Squelch),
           pendingRequest' = NULL, countDown' = 0, UNCHANGED lastProc,
           queuedRequests' \in [Proc -> Seq(QueuedReq)], StatesInv'
    PROVE  Below'
<1>1. memRequest' = NULL /\ memCountDown' = 0
  BY DEF MemTick, MemReleases
<1>2. MemTypeOK' /\ BusTypeOK'
  BY <1>1, DramAssumption, DelayAssumption, TransferAssumption
     DEF Below, MemTypeOK, BusTypeOK, LongestDelay
<1>3. MemoryServesBus'
  BY <1>1 DEF MemoryServesBus
<1> QED
  BY <1>2, <1>3 DEF Below

\* The line has come: the current request is done.
LEMMA P4InvDeliverLine ==
    ASSUME P4Inv, DeliverLine
    PROVE  Progress
<1> DEFINE reaction == Reaction(procNum, Delivered)
           c == coherStates[procNum]
           c2 == coherStates'[procNum]
           q == memReqQueue
<1>1. /\ DeliveryEnabled /\ BusAfterDelivery
      /\ reaction.ca # "NO_ACTION"
      /\ coherStates' =
           [coherStates EXCEPT ![pendingRequest.procNum][pendingRequest.addr] =
              Reaction(pendingRequest.procNum, Delivered).next]
  BY DEF DeliverLine, Deliver
<1>2. /\ isStarted
      /\ pendingRequest.procNum = procNum
      /\ q # <<>> /\ Head(q) # <<>>
      /\ pendingRequest.addr = Current.addr
      /\ queuedRequests[procNum] = <<>>
      /\ MemLeft(Squelch) = 0 /\ memRequest # NULL
      /\ AnswersCurrent
  BY <1>1, DeliveryToCurrent
<1>3. /\ Current.requestType = "PERM"
      /\ reaction.ca = "DATA_RECV"
      /\ reaction.next \in Readable
      /\ reaction.next \in SchemeStates
  BY <1>1, <1>2 DEF AnswersCurrent
<1>4. memReqQueue' = Dequeued /\ isStarted' = FALSE
  BY <1>3 DEF DeliverLine
<1>5. Below /\ Link /\ coherStates \in [Proc -> [Addr -> SchemeStates]]
  BY DEF P4Inv, Below, StatesInv
<1>6. /\ q \in Queue /\ Len(q) <= MaxOutstanding
      /\ c \in [Addr -> SchemeStates]
      /\ Held0 \subseteq Line /\ Line = Addr
      /\ QueueOK(q, Held0, c, isStarted)
      /\ Current = q[1][1]
      /\ Current.addr \in Addr
      /\ Dequeued = Without(q)
      /\ Len(Dequeued) = Len(q)
      /\ Paired(Dequeued)
  BY <1>2, QueueContext
<1> HIDE DEF reaction
<1>7. coherStates' = [coherStates EXCEPT ![procNum] = [c EXCEPT ![Current.addr] = reaction.next]]
  BY <1>1, <1>2, <1>5, <1>6, OneProc DEF reaction
<1>8. c2 = [c EXCEPT ![Current.addr] = reaction.next] /\ c2 \in [Addr -> SchemeStates]
      /\ coherStates' \in [Proc -> [Addr -> SchemeStates]]
  <2>1. [c EXCEPT ![Current.addr] = reaction.next] \in [Addr -> SchemeStates]
    BY <1>3, <1>6
  <2> QED
    BY <1>5, <1>7, <2>1, OneProc
<1>9. c2[Current.addr] = reaction.next /\ \A a \in Addr \ {Current.addr} : c2[a] = c[a]
  BY <1>6, <1>8
<1> HIDE DEF c, c2
<1>10. Served(q, c, c2)
  BY <1>3, <1>6, <1>9 DEF Served
<1>11. QueueOK(Without(q), Held0, c2, FALSE)
  BY <1>2, <1>6, <1>10, QueueServed
<1>12. Below'
  <2>1. /\ MemTick(Squelch) /\ pendingRequest' = NULL /\ countDown' = 0
        /\ UNCHANGED <<queuedRequests, lastProc>>
    BY <1>1 DEF BusAfterDelivery
  <2>2. StatesInv' /\ queuedRequests' \in [Proc -> Seq(QueuedReq)]
    BY <1>5, <1>8, <2>1 DEF StatesInv, Below, BusTypeOK
  <2> QED
    BY <1>2, <1>5, <2>1, <2>2, BelowFree
<1>13. Link'
  <2>1. pendingRequest' = NULL /\ queuedRequests'[procNum] = <<>>
    BY <1>1, <1>2 DEF BusAfterDelivery
  <2>2. \A a \in Addr : c2[a] \notin Transient
    <3>1. c2[Current.addr] \notin Transient
      BY <1>3, <1>9, ReadableStable
    <3>2. \A a \in Addr \ {Current.addr} : c[a] \notin Transient
      BY <1>2, <1>5 DEF Link, c
    <3> QED
      BY <1>9, <3>1, <3>2
  <2> QED
    BY <1>4, <2>1, <2>2 DEF Link, c2
<1> QED
  BY <1>4, <1>6, <1>11, <1>12, <1>13 DEF Progress, c2

\* An eviction is followed by the request for the line that takes its place.
LEMMA EvictionFollowed ==
    ASSUME NEW q \in Queue, Paired(q), q # <<>>, Head(q) # <<>>, q[1][1].requestType = "INV"
    PROVE  /\ Head(Without(q)) # <<>>
           /\ Without(q)[1][1].requestType = "PERM"
           /\ Without(q)[1][1] = Head(Head(Without(q)))
           /\ Len(Head(q)) > 1
<1>1. At(q, 1, 1) /\ Head(Without(q)) = Tail(Head(q)) /\ Without(q) \in Queue /\ Without(q) # <<>>
      /\ q[1] \in Seq(PendingRequest) /\ Head(q) = q[1]
  BY WithoutShape DEF Queue
<1>2. 1 \in DOMAIN q /\ 1 \in DOMAIN q[1]
  BY <1>1 DEF At
<1>3. RowPaired(q[1])
  BY <1>2 DEF Paired
<1>4. 1 + 1 \in DOMAIN q[1] /\ q[1][1 + 1].requestType = "PERM"
  BY <1>2, <1>3 DEF RowPaired
<1>5. DOMAIN q[1] = 1 .. Len(q[1])
  BY <1>1
<1>6. Len(q[1]) >= 2
  BY <1>1, <1>4, <1>5
<1>7. Tail(q[1]) # <<>>
  <2> DEFINE row == q[1]
             rest == Tail(row)
  <2>1. row \in Seq(PendingRequest) /\ Len(row) >= 2
    BY <1>1, <1>6
  <2> HIDE DEF row
  <2>2. Len(rest) # 0
    <3>1. Len(row) \in Nat /\ row # <<>>
      BY <2>1
    <3>2. Len(rest) = Len(row) - 1
      BY <2>1, <3>1
    <3> QED
      BY <2>1, <3>1, <3>2
  <2> HIDE DEF rest
  <2>3. rest # <<>>
    BY <2>2
  <2> QED
    BY <2>3 DEF rest, row
<1>8. /\ \A i, j \in Pos : At(Without(q), i, j) => Without(q)[i][j] = q[i][Off(i, j)]
      /\ Without(q)[1][1] = Head(Head(Without(q))) /\ At(Without(q), 1, 1)
  <2>1. \A i, j \in Pos : At(Without(q), i, j) => Without(q)[i][j] = q[i][Off(i, j)]
    BY WithoutShape
  <2>2. Head(Without(q)) # <<>>
    BY <1>1, <1>7
  <2>3. Without(q)[1][1] = Head(Head(Without(q))) /\ At(Without(q), 1, 1)
    BY <1>1, <2>2, WithoutShape
  <2> QED
    BY <2>1, <2>3
<1>9. Off(1, 1) = 1 + 1 /\ 1 \in Pos
  BY DEF Off, Pos
<1>10. Without(q)[1][1] = q[1][1 + 1]
  BY <1>8, <1>9
<1> QED
  BY <1>1, <1>4, <1>6, <1>7, <1>8, <1>10

\* The eviction is done and the next request, for the line that replaces it, is sent
\* from inside the callback: it queues behind the one that is being delivered.
LEMMA P4InvDeliverEviction ==
    ASSUME P4Inv, DeliverEviction
    PROVE  Progress
<1> DEFINE q == memReqQueue
           d == Dequeued
           c == coherStates[procNum]
           r == d[1][1]
           answer == Cache(r.isLoad, c[r.addr])
           c2 == [c EXCEPT ![r.addr] = answer.next]
<1>1. DeliveryEnabled /\ Reaction(procNum, Delivered).ca = "NO_ACTION"
  BY DEF DeliverEviction
<1>2. /\ isStarted
      /\ q # <<>> /\ Head(q) # <<>>
      /\ pendingRequest.addr = Current.addr
      /\ queuedRequests[procNum] = <<>>
      /\ MemLeft(Squelch) = 0 /\ memRequest # NULL
      /\ AnswersCurrent
  BY <1>1, DeliveryToCurrent
<1>3. /\ Current.requestType = "INV"
      /\ Reaction(procNum, Delivered).next = "INVALID"
      /\ c[Current.addr] = "INVALID"
  BY <1>1, <1>2 DEF AnswersCurrent
<1>4. /\ q \in Queue /\ Paired(q) /\ Len(q) <= MaxOutstanding
      /\ c \in [Addr -> SchemeStates]
      /\ Held0 \subseteq Line /\ Line = Addr
      /\ QueueOK(q, Held0, c, isStarted)
      /\ Current = q[1][1]
      /\ d = Without(q)
      /\ d \in Queue /\ Len(d) = Len(q) /\ d # <<>>
      /\ Paired(d)
  BY <1>2, QueueContext
<1>5. Head(d) # <<>> /\ r.requestType = "PERM" /\ r = Head(Head(d))
  BY <1>2, <1>3, <1>4, EvictionFollowed
<1>6. Below /\ Link /\ coherStates \in [Proc -> [Addr -> SchemeStates]]
  BY DEF P4Inv, Below, StatesInv
<1>7. \A a \in Addr : c[a] \notin Transient
  BY <1>2, <1>3, <1>6, ReadableStable DEF Link
<1>8. QueueOK(d, Held0, c, FALSE)
  <2>1. Served(q, c, c)
    BY <1>3, <1>4, ReadableStable DEF Served
  <2> QED
    BY <1>2, <1>4, <2>1, QueueServed
<1>9. r \in PendingRequest /\ r.addr \in Addr
  <2>1. r \in PendingRequest
    BY <1>4, <1>5, WithoutShape
  <2> QED
    BY <2>1 DEF PendingRequest
<1>10. /\ coherStates' = [coherStates EXCEPT ![procNum][r.addr] = answer.next]
       /\ IF answer.permAvail
          THEN /\ isStarted' = FALSE
               /\ memReqQueue' = <<Tail(Head(d))>> \o Tail(d)
          ELSE /\ isStarted' = TRUE
               /\ memReqQueue' = d
       /\ queuedRequests' =
            IF answer.send = "NO_REQ" THEN queuedRequests
            ELSE [queuedRequests EXCEPT ![procNum] =
                    Append(@, [brt |-> answer.send, addr |-> r.addr])]
       /\ pendingRequest' = NULL
       /\ countDown' = 0
       /\ MemTick(Squelch)
       /\ UNCHANGED lastProc
  BY <1>2, <1>3, <1>5 DEF DeliverEviction
<1>11. /\ c2 \in [Addr -> SchemeStates]
       /\ \A a \in Addr \ {r.addr} : c2[a] = c[a]
       /\ answer.permAvail =>
            /\ QueueOK(Without(d), Held0, c2, FALSE)
            /\ answer.send = "NO_REQ"
            /\ \A a \in Addr : c2[a] \notin Transient
       /\ ~answer.permAvail =>
            /\ QueueOK(d, Held0, c2, TRUE)
            /\ answer.send \in BusRequest
            /\ c2[r.addr] \in Transient
  <2> HIDE DEF d, r
  <2>1. r = d[1][1]
    BY DEF r
  <2> HIDE DEF c
  <2>2. AskEffect(d, Held0, c, r)
    BY <1>4, <1>5, <1>7, <1>8, <2>1, AskFirst
  <2> QED
    BY <2>2 DEF AskEffect
<1> HIDE DEF d, r, answer, q
<1>12. coherStates' \in [Proc -> [Addr -> SchemeStates]] /\ coherStates'[procNum] = c2
  <2>1. coherStates' = [coherStates EXCEPT ![procNum] = c2]
    BY <1>6, <1>9, <1>10, OneProc
  <2> HIDE DEF c2
  <2> QED
    BY <1>6, <1>11, <2>1, OneProc
<1> HIDE DEF c2, c
<1>13. CASE answer.permAvail
  <2>1. isStarted' = FALSE /\ memReqQueue' = Without(d) /\ queuedRequests' = queuedRequests
        /\ pendingRequest' = NULL
    BY <1>10, <1>11, <1>13 DEF Without
  <2>2. Below'
    <3>1. StatesInv' /\ queuedRequests' \in [Proc -> Seq(QueuedReq)]
      BY <1>6, <1>12, <2>1 DEF StatesInv, Below, BusTypeOK
    <3> QED
      BY <1>2, <1>6, <1>10, <3>1, BelowFree
  <2>3. Link'
    <3>1. \A a \in Addr : coherStates'[procNum][a] \notin Transient
      BY <1>11, <1>12, <1>13
    <3>2. queuedRequests'[procNum] = <<>>
      BY <1>2, <2>1
    <3> QED
      BY <2>1, <3>1, <3>2 DEF Link
  <2>4. Paired(Without(d)) /\ Len(Without(d)) = Len(d)
    BY <1>4, <1>5, PairedWithout, WithoutShape
  <2>5. QueueOK(memReqQueue', Held0, coherStates'[procNum], isStarted')
    BY <1>11, <1>12, <1>13, <2>1
  <2> QED
    BY <1>4, <2>1, <2>2, <2>3, <2>4, <2>5 DEF Progress, q
<1>14. CASE ~answer.permAvail
  <2>1. isStarted' = TRUE /\ memReqQueue' = d /\ pendingRequest' = NULL
    BY <1>10, <1>14
  <2>2. answer.send # "NO_REQ" /\ [brt |-> answer.send, addr |-> r.addr] \in QueuedReq
    BY <1>9, <1>11, <1>14 DEF BusRequest, QueuedReq
  <2>3. /\ queuedRequests' \in [Proc -> Seq(QueuedReq)]
        /\ Len(queuedRequests'[procNum]) = 1
        /\ queuedRequests'[procNum][1].addr = r.addr
    <3>1. queuedRequests \in [Proc -> Seq(QueuedReq)] /\ procNum \in Proc
      BY <1>6, OneProc DEF Below, BusTypeOK
    <3> DEFINE x == [brt |-> answer.send, addr |-> r.addr]
    <3>2. x.addr = r.addr
      OBVIOUS
    <3>3. queuedRequests' = [queuedRequests EXCEPT ![procNum] = Append(@, x)]
      BY <1>10, <2>2
    <3> HIDE DEF x
    <3>4. x \in QueuedReq
      BY <2>2 DEF x
    <3>5. Append(queuedRequests[procNum], x) \in Seq(QueuedReq)
      BY <3>1, <3>4
    <3>6. queuedRequests'[procNum] = Append(queuedRequests[procNum], x)
      BY <3>1, <3>3
    <3>7. Append(queuedRequests[procNum], x) = <<x>>
      BY <1>2, <3>1, <3>4
    <3>8. queuedRequests' \in [Proc -> Seq(QueuedReq)]
      BY <3>1, <3>3, <3>5
    <3>9. Len(queuedRequests'[procNum]) = 1 /\ queuedRequests'[procNum][1] = x
      BY <3>6, <3>7
    <3> QED
      BY <3>2, <3>8, <3>9
  <2>4. Below'
    <3>1. StatesInv'
      BY <1>12 DEF StatesInv
    <3> QED
      BY <1>2, <1>6, <1>10, <2>3, <3>1, BelowFree
  <2>5. Current' = r
    BY <1>5, <2>1 DEF Current
  <2>6. Link'
    BY <1>4, <1>5, <1>7, <1>11, <1>12, <1>14, <2>1, <2>3, <2>5 DEF Link
  <2>7. QueueOK(memReqQueue', Held0, coherStates'[procNum], isStarted')
    BY <1>11, <1>12, <1>14, <2>1
  <2> QED
    BY <1>4, <2>1, <2>4, <2>6, <2>7 DEF Progress, q
<1> QED
  BY <1>13, <1>14

\* A line that is to be given up next is granted.
LEMMA NextGivenUp ==
    ASSUME P4Inv, memReqQueue # <<>>, Head(memReqQueue) # <<>>, ~isStarted,
           Current.requestType = "INV"
    PROVE  coherStates[procNum][Current.addr] \in Readable
<1>1. /\ memReqQueue \in Queue
      /\ Current = memReqQueue[1][1]
      /\ FirstGranted(memReqQueue, coherStates[procNum], isStarted)
  BY QueueContext DEF QueueOK
<1>2. At(memReqQueue, 1, 1) /\ 1 \in Pos
  BY <1>1, WithoutShape DEF Pos
<1>3. \A k, l \in Pos : ~Before(k, l, 1, 1)
  BY DEF Pos, Before
<1>4. GivesUp(memReqQueue, 1, 1) /\ FirstAsked(memReqQueue, 1, 1)
  BY <1>1, <1>2, <1>3 DEF GivesUp, FirstAsked
<1> QED
  BY <1>1, <1>2, <1>4 DEF FirstGranted

\* The eviction is sent: its data takes the bus.
LEMMA P4InvHandleInvReq ==
    ASSUME P4Inv, memReqQueue # <<>>, Head(memReqQueue) # <<>>, ~isStarted,
           Current.requestType = "INV", HandleInvReq
    PROVE  Progress
<1> DEFINE q == memReqQueue
           c == coherStates[procNum]
           c2 == coherStates'[procNum]
<1>1. /\ q \in Queue /\ Paired(q) /\ Len(q) <= MaxOutstanding
      /\ c \in [Addr -> SchemeStates]
      /\ Held0 \subseteq Line /\ Line = Addr
      /\ QueueOK(q, Held0, c, isStarted)
      /\ Current = q[1][1]
      /\ Current.addr \in Addr
  BY QueueContext
<1>2. c[Current.addr] \in Readable
  BY NextGivenUp
<1>3. Below /\ Link /\ pendingRequest = NULL /\ queuedRequests[procNum] = <<>>
      /\ coherStates \in [Proc -> [Addr -> SchemeStates]]
      /\ \A a \in Addr : c[a] \notin Transient
  BY DEF P4Inv, Link, Below, StatesInv
<1>4. /\ coherStates' = [coherStates EXCEPT ![procNum][Current.addr] = "INVALID"]
      /\ pendingRequest' = Admitted("DATA", Current.addr, procNum)
      /\ countDown' = CACHE_DELAY
      /\ UNCHANGED <<queuedRequests, lastProc>>
      /\ UNCHANGED memVars
      /\ isStarted' = TRUE
      /\ memReqQueue' = memReqQueue
  BY <1>2, <1>3, ReadableStable DEF HandleInvReq, InvlReq, BusReqData, BusReq
<1>5. coherStates' = [coherStates EXCEPT ![procNum] = [c EXCEPT ![Current.addr] = "INVALID"]]
  BY <1>1, <1>3, <1>4, OneProc
<1>6. c2 = [c EXCEPT ![Current.addr] = "INVALID"] /\ c2 \in [Addr -> SchemeStates]
      /\ coherStates' \in [Proc -> [Addr -> SchemeStates]]
  <2>1. [c EXCEPT ![Current.addr] = "INVALID"] \in [Addr -> SchemeStates]
    BY <1>1, SchemeStatesType
  <2> QED
    BY <1>3, <1>5, <2>1, OneProc
<1>7. c2[Current.addr] = "INVALID" /\ \A a \in Addr \ {Current.addr} : c2[a] = c[a]
  BY <1>1, <1>6
<1> HIDE DEF c, c2
<1>8. QueueOK(q, Held0, c2, TRUE)
  BY <1>1, <1>7, QueueStarted
<1>9. /\ pendingRequest' \in PendingReq /\ pendingRequest' # NULL
      /\ pendingRequest'.addr = Current.addr
  BY <1>1, <1>4, OnTheBus
<1>10. Below'
  <2>1. StatesInv' /\ queuedRequests' \in [Proc -> Seq(QueuedReq)] /\ lastProc' \in Proc
    BY <1>3, <1>4, <1>6 DEF StatesInv, Below, BusTypeOK
  <2> QED
    BY <1>1, <1>3, <1>4, <2>1, BelowAdmitted
<1>11. Link'
  <2>1. Current' = Current /\ memReqQueue' = memReqQueue /\ isStarted'
    BY <1>4 DEF Current
  <2>2. queuedRequests'[procNum] = <<>>
    BY <1>3, <1>4
  <2>3. \A a \in Addr \ {Current.addr} : c2[a] \notin Transient
    BY <1>3, <1>7
  <2> QED
    BY <1>4, <1>7, <1>9, <2>1, <2>2, <2>3 DEF Link, c2
<1> QED
  BY <1>1, <1>4, <1>8, <1>10, <1>11 DEF Progress, c2

\* The permission is asked for: the request takes the free bus, unless the line is
\* granted at once.
LEMMA P4InvHandlePermReq ==
    ASSUME P4Inv, memReqQueue # <<>>, Head(memReqQueue) # <<>>, ~isStarted,
           Current.requestType = "PERM", HandlePermReq
    PROVE  Progress
<1> DEFINE q == memReqQueue
           c == coherStates[procNum]
           r == Current
           answer == Cache(r.isLoad, c[r.addr])
           c2 == [c EXCEPT ![r.addr] = answer.next]
<1>1. /\ q \in Queue /\ Paired(q) /\ Len(q) <= MaxOutstanding
      /\ c \in [Addr -> SchemeStates]
      /\ Held0 \subseteq Line /\ Line = Addr
      /\ QueueOK(q, Held0, c, isStarted)
      /\ Current = q[1][1]
      /\ Current.addr \in Addr
      /\ Dequeued = Without(q)
      /\ Len(Dequeued) = Len(q) /\ Paired(Dequeued)
  BY QueueContext
<1>2. Below /\ Link /\ pendingRequest = NULL /\ queuedRequests[procNum] = <<>>
      /\ coherStates \in [Proc -> [Addr -> SchemeStates]]
      /\ \A a \in Addr : c[a] \notin Transient
      /\ isStarted = FALSE
  BY DEF P4Inv, Link, Below, StatesInv
<1>3. /\ coherStates' = [coherStates EXCEPT ![procNum][r.addr] = answer.next]
      /\ IF answer.send = "NO_REQ" THEN UNCHANGED busVars
                                   ELSE BusReq(answer.send, r.addr, procNum)
      /\ UNCHANGED memVars
      /\ isStarted' = ~answer.permAvail
      /\ memReqQueue' = IF answer.permAvail THEN Dequeued ELSE memReqQueue
  BY DEF HandlePermReq, PermReq
<1>4. AskEffect(q, Held0, c, r)
  <2> HIDE DEF q, c
  <2>1. QueueOK(q, Held0, c, FALSE)
    BY <1>1, <1>2
  <2> QED
    BY <1>1, <1>2, <2>1, AskFirst DEF q
<1>5. /\ c2 \in [Addr -> SchemeStates]
      /\ \A a \in Addr \ {r.addr} : c2[a] = c[a]
      /\ answer.permAvail =>
           /\ QueueOK(Without(q), Held0, c2, FALSE)
           /\ answer.send = "NO_REQ"
           /\ \A a \in Addr : c2[a] \notin Transient
      /\ ~answer.permAvail =>
           /\ QueueOK(q, Held0, c2, TRUE)
           /\ answer.send \in BusRequest
           /\ c2[r.addr] \in Transient
  BY <1>4 DEF AskEffect
<1> HIDE DEF answer, q
<1>6. coherStates' \in [Proc -> [Addr -> SchemeStates]] /\ coherStates'[procNum] = c2
  <2>1. coherStates' = [coherStates EXCEPT ![procNum] = c2]
    BY <1>1, <1>2, <1>3, OneProc
  <2> HIDE DEF c2
  <2> QED
    BY <1>2, <1>5, <2>1, OneProc
<1> HIDE DEF c2, c, r
<1>7. CASE answer.permAvail
  <2>1. /\ isStarted' = FALSE /\ memReqQueue' = Without(q)
        /\ UNCHANGED <<pendingRequest, queuedRequests, countDown, lastProc>>
    BY <1>1, <1>3, <1>5, <1>7 DEF busVars
  <2>2. Below'
    BY <1>2, <1>3, <1>6, <2>1
       DEF Below, MemTypeOK, BusTypeOK, StatesInv, MemoryServesBus, memVars
  <2>3. Link'
    <3>1. \A a \in Addr : coherStates'[procNum][a] \notin Transient
      BY <1>5, <1>6, <1>7
    <3> QED
      BY <1>2, <2>1, <3>1 DEF Link
  <2>4. QueueOK(memReqQueue', Held0, coherStates'[procNum], isStarted')
    BY <1>5, <1>6, <1>7, <2>1
  <2> QED
    BY <1>1, <2>1, <2>2, <2>3, <2>4 DEF Progress
<1>8. CASE ~answer.permAvail
  <2>1. isStarted' = TRUE /\ memReqQueue' = q
    BY <1>3, <1>8 DEF q
  <2>2. /\ answer.send \in BusRequest \cup {"DATA"}
        /\ pendingRequest' = Admitted(answer.send, r.addr, procNum)
        /\ countDown' = CACHE_DELAY
        /\ UNCHANGED <<queuedRequests, lastProc>>
    BY <1>2, <1>3, <1>5, <1>8 DEF BusReq, BusRequest
  <2>3. r.addr \in Addr /\ r = Current
    BY <1>1 DEF r
  <2>4. pendingRequest' # NULL /\ pendingRequest'.addr = r.addr
    BY <2>2, <2>3, OnTheBus
  <2>5. Below'
    <3>1. StatesInv' /\ queuedRequests' \in [Proc -> Seq(QueuedReq)] /\ lastProc' \in Proc
      BY <1>2, <1>6, <2>2 DEF StatesInv, Below, BusTypeOK
    <3> QED
      BY <1>2, <1>3, <2>2, <2>3, <3>1, BelowAdmitted
  <2>6. Link'
    <3>1. Current' = r /\ memReqQueue' = memReqQueue /\ isStarted'
      BY <2>1, <2>3 DEF Current, q
    <3>2. \A a \in Addr \ {r.addr} : coherStates'[procNum][a] \notin Transient
      BY <1>2, <1>5, <1>6
    <3>3. coherStates'[procNum][r.addr] \in Transient
      BY <1>5, <1>6, <1>8
    <3>4. queuedRequests'[procNum] = <<>>
      BY <1>2, <2>2
    <3>5. r.requestType = "PERM"
      BY <2>3
    <3> QED
      BY <2>1, <2>4, <3>1, <3>2, <3>3, <3>4, <3>5 DEF Link
  <2>7. QueueOK(memReqQueue', Held0, coherStates'[procNum], isStarted')
    BY <1>5, <1>6, <1>8, <2>1
  <2> QED
    BY <1>1, <2>1, <2>5, <2>6, <2>7 DEF Progress, q
<1> QED
  BY <1>7, <1>8

\* Nothing but the first access and its mark change.
LEMMA P4InvAdvanceQueue ==
    ASSUME P4Inv, AdvanceQueue
    PROVE  Progress
<1>1. CASE UNCHANGED <<vars, memReqQueue, isStarted>>
  <2>1. Below'
    BY <1>1 DEF P4Inv, Below, vars, memVars, busVars, MemTypeOK, BusTypeOK, StatesInv,
                MemoryServesBus
  <2>2. Link'
    BY <1>1 DEF P4Inv, Link, Current, vars, memVars, busVars
  <2> QED
    BY <1>1, <2>1, <2>2 DEF P4Inv, Asked, Progress, vars
<1>2. CASE /\ memReqQueue # <<>> /\ Head(memReqQueue) = <<>>
           /\ memReqQueue' = Tail(memReqQueue)
           /\ UNCHANGED <<vars, isStarted>>
  <2>1. /\ memReqQueue \in Queue /\ Paired(memReqQueue) /\ Len(memReqQueue) <= MaxOutstanding
        /\ QueueOK(memReqQueue, Held0, coherStates[procNum], isStarted)
    BY QueueContext
  <2>2. isStarted = FALSE
    BY <1>2 DEF P4Inv, Link
  <2>3. QueueOK(Tail(memReqQueue), Held0, coherStates[procNum], FALSE)
    BY <1>2, <2>1, QueuePopped
  <2>4. Paired(Tail(memReqQueue))
    BY <1>2, <2>1, PairedPopped
  <2>5. Len(Tail(memReqQueue)) <= MaxOutstanding
    BY <1>2, <2>1, OutstandingAssumption DEF Queue
  <2>6. Below'
    BY <1>2 DEF P4Inv, Below, vars, memVars, busVars, MemTypeOK, BusTypeOK, StatesInv,
                MemoryServesBus
  <2>7. Link'
    <3>1. UNCHANGED <<pendingRequest, queuedRequests, coherStates, isStarted>>
      BY <1>2 DEF vars, busVars
    <3> QED
      BY <2>2, <3>1 DEF P4Inv, Link
  <2>8. coherStates' = coherStates
    BY <1>2 DEF vars
  <2> QED
    BY <1>2, <2>2, <2>3, <2>4, <2>5, <2>6, <2>7, <2>8 DEF Progress
<1>3. CASE /\ memReqQueue # <<>> /\ Head(memReqQueue) # <<>>
           /\ ~isStarted /\ Current.requestType = "INV" /\ HandleInvReq
  BY <1>3, P4InvHandleInvReq
<1>4. CASE /\ memReqQueue # <<>> /\ Head(memReqQueue) # <<>>
           /\ ~isStarted /\ Current.requestType = "PERM" /\ HandlePermReq
  BY <1>4, P4InvHandlePermReq
<1> QED
  BY <1>1, <1>2, <1>3, <1>4 DEF AdvanceQueue

\* Every step keeps the invariant.
LEMMA P4InvStep == P4Inv /\ [P4Next]_p4Vars => P4Inv'
<1> SUFFICES ASSUME P4Inv, [P4Next]_p4Vars PROVE P4Inv'
  OBVIOUS
<1>1. ASSUME NEW line \in Line, NEW isLoad \in BOOLEAN, MemoryRequest(line, isLoad)
      PROVE  P4Inv'
  BY <1>1, P4InvMemoryRequest
<1>2. CASE TickBelow
  <2>1. ArrayInv' /\ Held0' = Held0 /\ ticked' = TRUE
    BY <1>2, TickOfArrays DEF TickBelow, P4Inv
  <2> SUFFICES Progress
    BY <2>1 DEF P4Inv, Asked, Progress
  <2>2. CASE /\ CountDown \/ Arbitrate \/ IdleTick
             /\ UNCHANGED <<coherStates, memReqQueue, isStarted>>
    BY <2>2, P4InvCountDown, P4InvArbitrate, P4InvIdle
  <2>3. CASE SnoopBroadcast /\ UNCHANGED <<memReqQueue, isStarted>>
    BY <2>3, P4InvSnoop
  <2>4. CASE DeliverLine
    BY <2>4, P4InvDeliverLine
  <2>5. CASE DeliverEviction
    BY <2>5, P4InvDeliverEviction
  <2> QED
    BY <1>2, <2>2, <2>3, <2>4, <2>5 DEF TickBelow
<1>3. CASE AdvanceQueue
  <2>1. Progress
    BY <1>3, P4InvAdvanceQueue
  <2>2. UNCHANGED arrayVars /\ ticked' = FALSE
    BY <1>3 DEF AdvanceQueue
  <2>3. ArrayInv'
    BY <2>2, ArrayInvStep DEF P4Inv
  <2>4. Held0' = Held0
    BY <2>2 DEF Held0, HeldWhere, Held, Arrays, LineOf, arrayVars
  <2> QED
    BY <2>1, <2>2, <2>3, <2>4 DEF P4Inv, Asked, Progress
<1>4. CASE UNCHANGED p4Vars
  <2>1. UNCHANGED <<vars, memReqQueue, isStarted, ticked>> /\ UNCHANGED arrayVars
    BY <1>4 DEF p4Vars, queueVars
  <2>2. ArrayInv'
    BY <2>1, ArrayInvStep DEF P4Inv
  <2>3. Held0' = Held0
    BY <2>1 DEF Held0, HeldWhere, Held, Arrays, LineOf, arrayVars
  <2>4. Below'
    BY <2>1 DEF P4Inv, Below, vars, memVars, busVars, MemTypeOK, BusTypeOK, StatesInv,
                MemoryServesBus
  <2>5. Link'
    BY <2>1 DEF P4Inv, Link, Current, vars, memVars, busVars
  <2> QED
    BY <2>1, <2>2, <2>3, <2>4, <2>5 DEF P4Inv, Asked, vars
<1> QED
  BY <1>1, <1>2, <1>3, <1>4 DEF P4Next

\* The invariant that the theorems rest on.
THEOREM P4InvHolds == P4Spec => []P4Inv
<1>1. P4Init => P4Inv
  BY P4InvInit
<1>2. P4Inv /\ [P4Next]_p4Vars => P4Inv'
  BY P4InvStep
<1> QED
  BY <1>1, <1>2, PTL DEF P4Spec

-----------------------------------------------------------------------------
\* Cache, coherence, bus and memory keep to their types, and an access that has been
\* sent is in the queue. In all five schemes, for any geometry, any delays and any
\* number of accesses outstanding.
THEOREM CacheTypeCorrect == P4Spec => []P4TypeOK
<1>1. P4Inv => P4TypeOK
  <2> SUFFICES ASSUME P4Inv PROVE P4TypeOK
    OBVIOUS
  <2>1. coherStates \in [Proc -> [Addr -> CoherenceState]]
    <3>1. [Addr -> SchemeStates] \subseteq [Addr -> CoherenceState]
      BY SchemeStatesType
    <3> QED
      BY <3>1 DEF P4Inv, Below, StatesInv
  <2>2. TypeOK /\ ArrayTypeOK
    BY <2>1 DEF P4Inv, Below, TypeOK, ArrayInv
  <2>3. memReqQueue \in Seq(Seq(PendingRequest)) /\ Len(memReqQueue) <= MaxOutstanding
    BY QueueContext DEF Queue
  <2>4. ticked \in BOOLEAN
    BY DEF P4Inv
  <2>5. isStarted \in BOOLEAN /\ (isStarted => memReqQueue # <<>> /\ Head(memReqQueue) # <<>>)
    BY DEF P4Inv, Link
  <2> QED
    BY <2>2, <2>3, <2>4, <2>5 DEF P4TypeOK
<1> QED
  BY <1>1, P4InvHolds, PTL

\* The arrays run ahead of coherence by exactly the requests in the queue: the last
\* request for a line tells whether the arrays hold it, and with none in the queue they
\* hold it exactly when coherence has granted it.
THEOREM ArraysAheadOfCoherence == P4Spec => []ArraysMatchCoherence
<1>1. P4Inv => ArraysMatchCoherence
  <2> SUFFICES ASSUME P4Inv, S > 1, NEW a \in Line
               PROVE  /\ Unasked(memReqQueue, a) =>
                           (a \in HeldWhere(FALSE) <=> coherStates[procNum][a] \in Readable)
                      /\ \A i \in DOMAIN memReqQueue : \A j \in DOMAIN memReqQueue[i] :
                           LastFor(memReqQueue, a, i, j) =>
                              (a \in HeldWhere(FALSE) <=> memReqQueue[i][j].requestType = "PERM")
    BY DEF ArraysMatchCoherence
  <2>1. /\ memReqQueue \in Queue
        /\ HeldAsked(memReqQueue, Held0, coherStates[procNum])
        /\ OthersGiven(memReqQueue, Held0, coherStates[procNum])
    BY QueueContext DEF QueueOK
  <2>2. Unasked(memReqQueue, a) => (a \in Held0 <=> coherStates[procNum][a] \in Readable)
    BY <2>1 DEF HeldAsked, OthersGiven
  <2>3. ASSUME NEW i \in DOMAIN memReqQueue, NEW j \in DOMAIN memReqQueue[i],
               LastFor(memReqQueue, a, i, j)
        PROVE  a \in Held0 <=> memReqQueue[i][j].requestType = "PERM"
    <3>1. At(memReqQueue, i, j)
      BY DEF At
    <3>2. i \in Pos /\ j \in Pos
      BY <2>1, <3>1, AtType
    <3>3. a \in Held0 => memReqQueue[i][j].requestType = "PERM"
      BY <2>1, <2>3, <3>2 DEF HeldAsked
    <3>4. a \notin Held0 => memReqQueue[i][j].requestType = "INV"
      BY <2>1, <2>3, <3>2 DEF OthersGiven
    <3> QED
      BY <3>3, <3>4
  <2> QED
    BY <2>2, <2>3 DEF Held0
<1> QED
  BY <1>1, P4InvHolds, PTL

\* The request that has been sent, and it alone, is on the bus or waits for it, also
\* when it was sent from inside the callback of the one before.
THEOREM SentRequestUnderWay == P4Spec => []StartedIsUnderWay
<1>1. P4Inv => StartedIsUnderWay
  <2> SUFFICES ASSUME P4Inv, NEW a \in Addr
               PROVE  Outstanding(procNum, a) = IF isStarted /\ Current.addr = a THEN 1 ELSE 0
    BY DEF StartedIsUnderWay
  <2>1. Below /\ Link /\ isStarted \in BOOLEAN
        /\ queuedRequests[procNum] \in Seq(QueuedReq)
    BY OneProc DEF P4Inv, Link, Below, BusTypeOK
  <2>2. Cardinality({}) = 0 /\ Cardinality({1}) = 1
    BY FS_EmptySet, FS_Singleton
  <2>3. ASSUME queuedRequests[procNum] = <<>> PROVE QueuedFor(procNum, a) = {}
    BY <2>3 DEF QueuedFor
  <2>4. CASE ~isStarted
    <3>1. QueuedFor(procNum, a) = {} /\ ~OnBus(procNum, a)
      BY <2>1, <2>3, <2>4 DEF Link, OnBus
    <3> QED
      BY <2>2, <2>4, <3>1 DEF Outstanding
  <2>5. CASE isStarted /\ pendingRequest # NULL
    <3>1. QueuedFor(procNum, a) = {} /\ pendingRequest.addr = Current.addr
      BY <2>1, <2>3, <2>5 DEF Link
    <3>2. OnBus(procNum, a) <=> Current.addr = a
      BY <2>1, <2>5, <3>1, BelowContext DEF OnBus
    <3> QED
      BY <2>2, <2>5, <3>1, <3>2 DEF Outstanding
  <2>6. CASE isStarted /\ pendingRequest = NULL
    <3>1. Len(queuedRequests[procNum]) = 1 /\ queuedRequests[procNum][1].addr = Current.addr
      BY <2>1, <2>6 DEF Link
    <3>2. ~OnBus(procNum, a)
      BY <2>6 DEF OnBus
    <3>3. QueuedFor(procNum, a) = IF Current.addr = a THEN {1} ELSE {}
      BY <3>1 DEF QueuedFor
    <3> QED
      BY <2>2, <2>6, <3>2, <3>3 DEF Outstanding
  <2> QED
    BY <2>1, <2>4, <2>5, <2>6
<1> QED
  BY <1>1, P4InvHolds, PTL

\* A callback finds the request that it answers, and an eviction is followed by a
\* request of the same access: the queue is never dereferenced in vain, whatever the
\* scheme.
THEOREM CallbacksAnswerCurrent == P4Spec => []CallbackAnswersCurrent
<1>1. P4Inv => CallbackAnswersCurrent
  <2> SUFFICES ASSUME P4Inv, DeliveryEnabled
               PROVE  LET ca == Reaction(procNum, Delivered).ca
                      IN  /\ isStarted
                          /\ ca = "DATA_RECV" =>
                               Current.requestType = "PERM" /\ Current.addr = pendingRequest.addr
                          /\ ca = "NO_ACTION" =>
                               Current.requestType = "INV" /\ Len(Head(memReqQueue)) > 1
    BY DEF CallbackAnswersCurrent
  <2>1. /\ isStarted
        /\ memReqQueue # <<>> /\ Head(memReqQueue) # <<>>
        /\ pendingRequest.addr = Current.addr
        /\ AnswersCurrent
    BY DeliveryToCurrent
  <2>2. memReqQueue \in Queue /\ Paired(memReqQueue) /\ Current = memReqQueue[1][1]
    BY <2>1, QueueContext
  <2>3. Current.requestType = "INV" => Len(Head(memReqQueue)) > 1
    BY <2>1, <2>2, EvictionFollowed
  <2> QED
    BY <2>1, <2>3 DEF AnswersCurrent
<1> QED
  BY <1>1, P4InvHolds, PTL

\* Under MI, where coherence flushes every line that it has granted, a line that is to be
\* given up is moreover one that has to be written back: none of the queue's assertions
\* fails.
THEOREM AssertionsOfQueueHold == ASSUME cs = "MI" PROVE P4Spec => []QueueAssertionsHold
<1>1. P4Inv => EvictionIsFlushed
  <2> SUFFICES ASSUME P4Inv, memReqQueue # <<>>, Head(memReqQueue) # <<>>,
                      Current.requestType = "INV", ~isStarted
               PROVE  Flush(coherStates[procNum][Current.addr])
    BY DEF EvictionIsFlushed
  <2>1. coherStates[procNum][Current.addr] \in Readable
    BY NextGivenUp
  <2> QED
    BY <2>1, ReadableStable DEF Flush
<1> QED
  BY <1>1, P4InvHolds, CallbacksAnswerCurrent, PTL DEF QueueAssertionsHold

=============================================================================
