(* The tag arrays of cache-p4 with LRU and with RRIP: main sets and victim cache together are one set of lines, whatever is swapped, demoted and renamed, and RRIP predictions stay in range. *)
SPECIFICATION ArraySpec
CONSTANTS
    Line <- OddLines
    S = 2
    E = 2
    victim_i = 1
    R = 3
INVARIANTS
    ArrayTypeOK
    HomeSetsFull
    VictimsAreOlder
PROPERTIES
    ImplementsLineStore
