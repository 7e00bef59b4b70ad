---------------------------- MODULE SlotContract ----------------------------
(***************************************************************************)
(* What the arbiter promises for one time slot (README.txt lines 19-23),   *)
(* without saying how it chooses: the chunks granted in the slot never ask *)
(* a host link, an edge uplink, an aggregate switch or a core path for     *)
(* more than Cap packets, nor a pod for more than 2 * Cap routed packets.  *)
(***************************************************************************)
EXTENDS SlotLoad

VARIABLE grants     \* the grants of the current slot, in order

Feasible(s) ==
    /\ \A h \in Host : Load(s, Touching(h)) <= Cap
    /\ \A k \in Path : Load(s, Crossing(k)) <= Cap
    /\ \A p \in Pod, a \in Agg : Load(s, Via(p, a)) <= Cap
    /\ \A h \in Host, a \in Agg : Load(s, Uplink(h, a)) <= Cap
    /\ \A p \in Pod : Load(s, Through(p)) <= 2 * Cap

-----------------------------------------------------------------------------
NewSlot == grants' = << >>

Allocate ==
    /\ \E g \in Grant : grants' = Append(grants, g)
    /\ Feasible(grants')

Init == grants = << >>

Next == NewSlot \/ Allocate

Spec == Init /\ [][Next]_grants
=============================================================================
