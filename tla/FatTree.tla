------------------------------ MODULE FatTree ------------------------------
(***************************************************************************)
(* The k = 4 fat tree of fat.py and the index arithmetic that              *)
(* process_demands.c does on it: sixteen hosts in four pods, two edge      *)
(* (TOR) and two aggregate switches per pod, four core switches.           *)
(*                                                                         *)
(* A VLAN id (src << 4) + dest + 1000 * k is abstracted to its path k.     *)
(* Path k leaves the pod through aggregate switch k % 2.                   *)
(***************************************************************************)
EXTENDS Integers

Host == 1..16
Pod  == 0..3
Path == 0..3
Agg  == 0..1

\* (h - 1) / 4, the pod of a host, numbered from 0 as in pod_vlanid.
PodOf(h) == (h - 1) \div 4

\* The edge switch of every host; C's table has a dummy entry for host 0.
host_to_switch ==
    <<7, 7, 8, 8, 11, 11, 12, 12, 15, 15, 16, 16, 19, 19, 20, 20>>

in_same_pod(src, dest) == PodOf(src) = PodOf(dest)

are_sibblings(src, dest) == host_to_switch[src] = host_to_switch[dest]

AggOf(k) == k % 2

\* The core switch whose counter get_vlanid charges for path k.
CoreSwitch(k) == CASE k = 0 -> 1 [] k = 1 -> 3 [] k = 2 -> 2 [] k = 3 -> 4

\* The number of VLAN ids that get_appropriate_vlanid tries for a pair.
NumPaths(src, dest) == IF in_same_pod(src, dest) THEN 2 ELSE 4

(***************************************************************************)
(* Rows of torswitch_port_capacity.  The C expression is one too small:    *)
(* hosts 1 and 2 give row -1, which get_vlanid corrects to 0 for a source  *)
(* and leaves at -1 for a destination.  Row -1 lies in the unused tail of  *)
(* pod_vlanid, which is cleared with every slot, so it is a row of its own.*)
(***************************************************************************)
TorRow == -1..7

DestRow(h) == (h - 1) \div 2 - 1
SrcRow(h)  == IF DestRow(h) = -1 THEN 0 ELSE DestRow(h)
=============================================================================
