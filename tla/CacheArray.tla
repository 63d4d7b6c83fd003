----------------------------- MODULE CacheArray -----------------------------
(***************************************************************************)
(* The tag arrays of cache-p4/cache.c: S sets of E ways, and a fully        *)
(* associative victim cache of victim_i lines that takes what the sets     *)
(* give up. Sets replace by LRU or by RRIP (option -R), the victim cache    *)
(* always by LRU.                                                          *)
(*                                                                         *)
(* An address is the number of its line. A line is kept under the tag      *)
(* line \div S in its set, and under its whole number in the victim cache. *)
(*                                                                         *)
(* Only the order of time stamps is ever used. After every step they are   *)
(* renumbered from 0, so that a run of any length has finitely many states. *)
(***************************************************************************)
EXTENDS FiniteSetsExt, Integers

CONSTANTS
    Line,               \* line numbers
    S, E,               \* sets, and ways of a set
    victim_i,           \* entries of the victim cache, 0 for none
    R                   \* largest prediction value of RRIP, 2^k - 1

ASSUME LineAssumption     == Line \subseteq Nat
ASSUME GeometryAssumption == S \in Nat \ {0} /\ E \in Nat \ {0} /\ victim_i \in Nat
ASSUME RripAssumption     == R \in Nat \ {0}

VARIABLES
    is_rrip,            \* do sets replace by RRIP?
    main,               \* set -> way -> entry
    victim,             \* way -> entry
    iteration,          \* the time stamp of this tick
    result              \* what the last access returned

arrayVars == <<is_rrip, main, victim, iteration, result>>

Way       == 0 .. E - 1
VictimWay == 0 .. victim_i - 1

Entry == [valid : BOOLEAN, dirty : BOOLEAN, tag : Nat, LRU : Nat, RRPV : 0 .. R]
Empty == [valid |-> FALSE, dirty |-> FALSE, tag |-> 0, LRU |-> 0, RRPV |-> 0]

Result == [res : {"HIT", "MISS", "MISS_EVICT"}, evicted : SUBSET Nat]

ArrayTypeOK ==
    /\ is_rrip \in BOOLEAN
    /\ main \in [0 .. S - 1 -> [Way -> Entry]]
    /\ victim \in [VictimWay -> Entry]
    /\ iteration \in Nat
    /\ result \in Result

NoResult == [res |-> "HIT", evicted |-> {}]

ArrayInit ==
    /\ is_rrip \in BOOLEAN
    /\ main = [s \in 0 .. S - 1 |-> [w \in Way |-> Empty]]
    /\ victim = [v \in VictimWay |-> Empty]
    /\ iteration = 0
    /\ result = NoResult

-----------------------------------------------------------------------------
(* Addresses, tags and entries.                                            *)

Set(line) == line % S
Tag(line) == line \div S
LineOf(tag, set) == tag * S + set

Hits(ways, tag) == {w \in DOMAIN ways : ways[w].valid /\ ways[w].tag = tag}
Free(ways)      == {w \in DOMAIN ways : ~ways[w].valid}

Touched(entry, isStore, now) ==
    [entry EXCEPT !.LRU = now, !.dirty = @ \/ isStore, !.RRPV = 0]

\* RRIP expects a new line to be used again later than one that was hit. (Without
\* RRIP the prediction is never used.)
Fresh(tag, isStore, now) ==
    [valid |-> TRUE, dirty |-> isStore, tag |-> tag, LRU |-> now,
     RRPV |-> IF is_rrip THEN R - 1 ELSE 0]

-----------------------------------------------------------------------------
(* find_evict, in a full set.                                              *)

\* Slip: the comparison is the wrong way round.
Newest(ways) ==
    Min({w \in DOMAIN ways : \A x \in DOMAIN ways : ways[w].LRU >= ways[x].LRU})

Oldest(ways) ==
    Min({w \in DOMAIN ways : \A x \in DOMAIN ways : ways[w].LRU <= ways[x].LRU})

\* Slip: the predictions are raised once more when one has arrived at R already.
AgedTwice(ways) ==
    IF is_rrip THEN [w \in DOMAIN ways |-> [ways[w] EXCEPT !.RRPV = @ + 1]] ELSE ways

\* Every prediction is raised until one is R.
Aged(ways) ==
    LET furthest == Max({ways[w].RRPV : w \in DOMAIN ways})
    IN IF is_rrip
       THEN [w \in DOMAIN ways |-> [ways[w] EXCEPT !.RRPV = @ + (R - furthest)]]
       ELSE ways

EvictWay(ways) ==
    IF is_rrip THEN Min({w \in DOMAIN ways : Aged(ways)[w].RRPV = R})
    ELSE Oldest(ways)

-----------------------------------------------------------------------------
(* cache_access and cache_access_victim. "c" has the arrays before the     *)
(* access, the answer has them after it.                                   *)

Hit(c, line, isStore, now) ==
    LET w == Min(Hits(c.main[Set(line)], Tag(line)))
    IN [c EXCEPT !.main[Set(line)][w] = Touched(@, isStore, now)]

\* Slip: the line that goes to the victim cache keeps its short tag.
SwapTags(c, line, isStore, now) ==
    LET set == Set(line)
        v   == Min(Hits(c.victim, line))
        w   == EvictWay(c.main[set])
    IN [c EXCEPT
          !.main[set] = [Aged(@) EXCEPT ![w] =
              [Touched(c.victim[v], isStore, now) EXCEPT !.tag = Tag(line)]],
          !.victim[v] = Aged(c.main[set])[w]]

\* The line comes back from the victim cache in exchange for one of its set.
Swap(c, line, isStore, now) ==
    LET set == Set(line)
        v   == Min(Hits(c.victim, line))
        w   == EvictWay(c.main[set])
    IN [c EXCEPT
          !.main[set] = [Aged(@) EXCEPT ![w] =
              [Touched(c.victim[v], isStore, now) EXCEPT !.tag = Tag(line)]],
          !.victim[v] = [Aged(c.main[set])[w] EXCEPT !.tag = LineOf(@, set)]]

Fill(c, line, isStore, now) ==
    [c EXCEPT !.main[Set(line)][Min(Free(c.main[Set(line)]))] =
        Fresh(Tag(line), isStore, now)]

\* The line replaces one of its set, which goes to way v of the victim cache.
Demote(c, line, isStore, now, v) ==
    LET set == Set(line)
        w   == EvictWay(c.main[set])
    IN [c EXCEPT
          !.main[set] = [Aged(@) EXCEPT ![w] = Fresh(Tag(line), isStore, now)],
          !.victim[v] = [Aged(c.main[set])[w] EXCEPT !.tag = LineOf(@, set)]]

\* The line replaces one of its set, and there is no victim cache.
Replace(c, line, isStore, now) ==
    LET w == EvictWay(c.main[Set(line)])
    IN [c EXCEPT !.main[Set(line)] =
          [Aged(@) EXCEPT ![w] = Fresh(Tag(line), isStore, now)]]

Miss(c)          == [arrays |-> c, res |-> "MISS", evicted |-> {}]
MissEvict(c, out) == [arrays |-> c, res |-> "MISS_EVICT", evicted |-> {out}]

Access(c, line, isStore, now) ==
    LET ways == c.main[Set(line)]
    IN CASE Hits(ways, Tag(line)) # {} ->
              [arrays |-> Hit(c, line, isStore, now), res |-> "HIT", evicted |-> {}]
         [] Hits(ways, Tag(line)) = {} /\ Hits(c.victim, line) # {} ->
              [arrays |-> Swap(c, line, isStore, now), res |-> "HIT", evicted |-> {}]
         [] OTHER ->
              IF Free(ways) # {} THEN Miss(Fill(c, line, isStore, now))
              ELSE IF Free(c.victim) # {}
              THEN Miss(Demote(c, line, isStore, now, Min(Free(c.victim))))
              ELSE IF victim_i > 0
              THEN LET v == Oldest(c.victim)
                   IN MissEvict(Demote(c, line, isStore, now, v), c.victim[v].tag)
              ELSE MissEvict(Replace(c, line, isStore, now),
                             LineOf(ways[EvictWay(ways)].tag, Set(line)))

-----------------------------------------------------------------------------
(* Time.                                                                   *)

Arrays == [main |-> main, victim |-> victim]

Entries(c) ==
    (UNION {{c.main[s][w] : w \in Way} : s \in DOMAIN c.main})
    \cup {c.victim[v] : v \in VictimWay}

Stamps(c) == {e.LRU : e \in {x \in Entries(c) : x.valid}}

\* The arrays become c at time "now", with the time stamps renumbered.
Store(c, now) ==
    LET rank(t)    == Cardinality({u \in Stamps(c) : u < t})
        ranked(e)  == [e EXCEPT !.LRU = IF e.valid THEN rank(@) ELSE 0]
    IN /\ main' = [s \in DOMAIN main |-> [w \in Way |-> ranked(c.main[s][w])]]
       /\ victim' = [v \in VictimWay |-> ranked(c.victim[v])]
       /\ iteration' = rank(now)
       /\ UNCHANGED is_rrip

AccessOne(line, isStore) ==
    LET answer == Access(Arrays, line, isStore, iteration)
    IN /\ Store(answer.arrays, iteration)
       /\ result' = [res |-> answer.res, evicted |-> answer.evicted]

ArrayTick == Store(Arrays, iteration + 1) /\ UNCHANGED result

ArrayNext ==
    \/ \E line \in Line, isStore \in BOOLEAN : AccessOne(line, isStore)
    \/ ArrayTick

ArraySpec == ArrayInit /\ [][ArrayNext]_arrayVars

-----------------------------------------------------------------------------
\* A line is in the victim cache only while its set is full: a swap relies on it
\* (assert_set_all_valid, cache.c:286), and a line that found a free way while an
\* old copy lay in the victim cache would be there twice.
HomeSetsFull ==
    \A v \in VictimWay : victim[v].valid => Free(main[Set(victim[v].tag)]) = {}

\* Under LRU a line in the victim cache was used no later than any line that is
\* still in its set, however often lines have been swapped: what leaves the cache
\* is the least recently used of all lines of its set.
VictimsAreOlder ==
    ~is_rrip =>
        \A v \in VictimWay, w \in Way :
            victim[v].valid => victim[v].LRU <= main[Set(victim[v].tag)][w].LRU

\* The lines, or only the dirty ones, that the arrays c stand for.
Held(c, dirtyOnly) ==
    LET counts(e) == e.valid /\ (dirtyOnly => e.dirty)
    IN (UNION {{LineOf(c.main[s][w].tag, s) : w \in {x \in Way : counts(c.main[s][x])}} :
                s \in 0 .. S - 1})
       \cup {c.victim[v].tag : v \in {x \in VictimWay : counts(c.victim[x])}}

HeldWhere(dirtyOnly) == Held(Arrays, dirtyOnly)

Lines == INSTANCE LineStore WITH held <- HeldWhere(FALSE), dirty <- HeldWhere(TRUE)

\* The arrays implement a set of lines: sets, ways, swaps and rewritten tags never
\* lose, double or rename a line or its dirty bit, and the evicted line that the
\* cache reports is the one that left.
ImplementsLineStore == Lines!Spec

=============================================================================
