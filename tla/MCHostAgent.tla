---------------------------- MODULE MCHostAgent ----------------------------
(***************************************************************************)
(* A host that gets the four replies of a full slot and two of the next.   *)
(***************************************************************************)
EXTENDS HostAgent

R(t, d) == [slot |-> t, dest |-> d, flow |-> 50]

TwoSlots == <<R(1, 5), R(1, 9), R(1, 5), R(1, 5), R(2, 9), R(2, 9)>>
=============================================================================
