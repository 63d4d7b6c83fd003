---------------------------- MODULE LineStates -----------------------------
(***************************************************************************)
(* What coherence expects of its table of states: a function from lines to *)
(* states, of which each call changes the value it names and no other.     *)
(***************************************************************************)
CONSTANTS
    Addr,
    State               \* "INVALID" is one of them

VARIABLES
    coherStates,        \* line -> state
    request             \* the last call: line and new state

Init ==
    /\ coherStates = [a \in Addr |-> "INVALID"]
    /\ request = [addr |-> CHOOSE a \in Addr : TRUE, state |-> "INVALID"]

Change(a, st) ==
    /\ coherStates' = [coherStates EXCEPT ![a] = st]
    /\ request' = [addr |-> a, state |-> st]

Next == \E a \in Addr, st \in State : Change(a, st)

Spec == Init /\ [][Next]_<<coherStates, request>>
=============================================================================
