-------------------------- MODULE MCPathAllocator --------------------------
(***************************************************************************)
(* PathAllocator on a handful of flows.                                    *)
(***************************************************************************)
EXTENDS PathAllocator

\* Siblings, a pair inside the pod and one that leaves it, all routed ones
\* charged to edge row 0, and two more flows that share its core paths.
Mixed == {<<1, 2>>, <<1, 3>>, <<4, 5>>, <<2, 6>>, <<9, 13>>}

\* A full sibling flow next to two flows that leave the pod.
Crowded == {<<1, 2>>, <<3, 9>>, <<4, 13>>}
=============================================================================
