---------------------------- MODULE MCSimulator ----------------------------
(***************************************************************************)
(* Simulator on small instances. The scheme is a constant of the           *)
(* simulator; to take all of them in one run it is chosen here in the      *)
(* initial state. MSI is left out: a line of it may wait for ever (run     *)
(* msi_lost_request).                                                      *)
(***************************************************************************)
EXTENDS Simulator, Functions

CONSTANTS
    a1, a2,
    Schemes,            \* the schemes of the run; cs itself is not used
    TotalOps            \* bound: operations in all traces together

TwoLines == {a1, a2}

VARIABLE scheme         \* the option -s of this execution

Under(s) == INSTANCE Simulator WITH cs <- s

AnyInit ==
    /\ scheme \in Schemes
    /\ SimInit
    /\ SumFunction(opsLeft) <= TotalOps

\* SimNext under that scheme, which two of its actions depend on.
AnyNext ==
    \/ \E s \in Schemes : scheme = s /\ Under(s)!BelowTicks /\ UNCHANGED scheme
    \/ Callbacks /\ UNCHANGED scheme
    \/ WaitOnMemory /\ UNCHANGED scheme
    \/ WaitOnBranch /\ UNCHANGED scheme
    \/ TraceEnded /\ UNCHANGED scheme
    \/ \E s \in Schemes, a \in Addr, isRead \in BOOLEAN :
        scheme = s /\ Under(s)!IssueMemOp(a, isRead) /\ UNCHANGED scheme
    \/ \E mispredicted \in BOOLEAN : IssueBranch(mispredicted) /\ UNCHANGED scheme
    \/ IssueALU /\ UNCHANGED scheme
    \/ EndOfTick /\ UNCHANGED scheme

AnySpec ==
    /\ AnyInit
    /\ [][AnyNext]_<<systemVars, scheme>>
    /\ WF_<<systemVars, scheme>>(AnyNext)

\* CallbackAssertionsHold under the scheme of the execution.
AllCallbackAssertionsHold ==
    \A s \in Schemes : scheme = s => Under(s)!CallbackAssertionsHold

=============================================================================
