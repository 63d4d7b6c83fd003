(* The predictor of branch-p2 in all its models: lookups stay in the tables, a predicted jump has a target, and branches with steady outcomes are learnt. *)
SPECIFICATION LoopingSpec
CONSTANTS
    Pc <- Branches
    Target <- Targets
    MAX_TAG = 2
    HISTORY = 2
    Mix <- BitXor
    NULL = NULL
INVARIANTS
    BranchTypeOK
    TakenHasTarget
PROPERTIES
    LearnsSteadyBranches
