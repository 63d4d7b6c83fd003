-------------------------- MODULE LinePermissions --------------------------
(***************************************************************************)
(* What a coherence component promises its caches, without bus, messages   *)
(* or waiting: each processor may read, write or not touch each line; the  *)
(* right to write is exclusive and is given only when nobody else has any  *)
(* right left. Rights are given one at a time; any number of processors may *)
(* give up or weaken their right to a line together.                       *)
(***************************************************************************)
CONSTANTS Proc, Addr

VARIABLE perm           \* processor -> address -> what it may do

Right == {"none", "read", "write"}

Weaker == {<<"none", "read">>, <<"none", "write">>, <<"read", "write">>}
AtMost(r, s) == r = s \/ <<r, s>> \in Weaker

Init == perm = [p \in Proc |-> [a \in Addr |-> "none"]]

\* p is given the right r to line a; nobody else holds a right that excludes it.
Grant(p, a, r) ==
    /\ \A q \in Proc \ {p} :
         perm[q][a] \in IF r = "write" THEN {"none"} ELSE {"none", "read"}
    /\ perm' = [perm EXCEPT ![p][a] = r]

\* Some processors give up or weaken their right to line a.
Surrender(a) ==
    \E rights \in [Proc -> Right] :
        /\ \A q \in Proc : AtMost(rights[q], perm[q][a])
        /\ perm' = [q \in Proc |-> [perm[q] EXCEPT ![a] = rights[q]]]

Next ==
    \E a \in Addr :
        \/ \E p \in Proc : Grant(p, a, "read")
        \/ \E p \in Proc : Grant(p, a, "write")
        \/ Surrender(a)

Spec == Init /\ [][Next]_perm
=============================================================================
