(* The splay tree behind the states of lines, with any insertions, changes and removals of five keys: it stays a well-formed search tree, searches end where they should, and the table is a function from lines to states. *)
SPECIFICATION TableSpec
CONSTANTS
    Key <- FiveKeys
    State = {"SHARED_STATE", "MODIFIED"}
    NULL = NULL
INVARIANTS
    TreeWellFormed
    LookupsRight
PROPERTIES
    ImplementsLineStates
