(* csim and the arrays of cache-p4 side by side on any trace of up to six lines: the statistics of csim are those of its contents, and cache-p4 answers, evicts and ends as csim does. *)
SPECIFICATION BothSpec
CONSTANTS
    Line <- ThreeAndOne
    S = 2
    E = 2
    B = 2
    TraceLength = 6
CHECK_DEADLOCK FALSE
INVARIANTS
    StatsMatchContents
PROPERTIES
    SameAsP4
