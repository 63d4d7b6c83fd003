----------------------------- MODULE LineStore -----------------------------
(***************************************************************************)
(* What the tag array of a cache promises: it holds lines, knows which of  *)
(* them are dirty, takes in every line that is accessed, and drops at most *)
(* one line for it, which it names. How the lines are laid out in sets,    *)
(* ways and a victim cache, and which line is dropped, is left open, except *)
(* that nothing is dropped while the set of the new line is not full.      *)
(***************************************************************************)
EXTENDS FiniteSets, Naturals

CONSTANTS
    Line,               \* line numbers
    Set(_),             \* the set a line belongs to
    E                   \* ways of a set

VARIABLES held, dirty, result

vars == <<held, dirty, result>>

Init ==
    /\ held = {}
    /\ dirty = {}
    /\ result = [res |-> "HIT", evicted |-> {}]

Hit(line, isStore) ==
    /\ line \in held
    /\ result' = [res |-> "HIT", evicted |-> {}]
    /\ dirty' = dirty \cup IF isStore THEN {line} ELSE {}
    /\ UNCHANGED held

\* "out" is the line that makes room, if any.
Miss(line, isStore, out) ==
    /\ line \notin held
    /\ out # {} => Cardinality({l \in held : Set(l) = Set(line)}) >= E
    /\ held' = (held \ out) \cup {line}
    /\ dirty' = (dirty \ out) \cup IF isStore THEN {line} ELSE {}
    /\ result' = [res |-> IF out = {} THEN "MISS" ELSE "MISS_EVICT", evicted |-> out]

Next ==
    \E line \in Line, isStore \in BOOLEAN :
        \/ Hit(line, isStore)
        \/ Miss(line, isStore, {})
        \/ \E l \in held : Miss(line, isStore, {l})

Spec == Init /\ [][Next]_vars
=============================================================================
