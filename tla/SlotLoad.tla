------------------------------ MODULE SlotLoad ------------------------------
(***************************************************************************)
(* The grants of a time slot and the load they put on the network.  A      *)
(* grant is one host_reply: Chunk packets from src to dest on a path, for  *)
(* the demand named by its port.                                           *)
(***************************************************************************)
EXTENDS FatTree, Sequences, FiniteSets

CONSTANTS
    Chunk,      \* packets in one grant (flow = 50 in find_path)
    Cap,        \* packets a link carries in one slot (200)
    Port        \* the ports that demands are labelled with

ASSUME ChunkCapAssumption ==
    /\ Chunk \in Nat \ {0}
    /\ Cap \in Nat
    /\ Chunk <= Cap

Grant == [src : Host, dest : Host, path : Path, port : Port]

\* The number of grants of s that lie in T, and the packets they stand for.
Count(s, T) == Cardinality({i \in DOMAIN s : s[i] \in T})
Load(s, T)  == Chunk * Count(s, T)

(* The grants that use a part of the network.                              *)

Touching(h) == {g \in Grant : g.src = h \/ g.dest = h}

\* Siblings meet at their edge switch: no aggregate switch is involved.
Routed == {g \in Grant : ~ are_sibblings(g.src, g.dest)}

Crossing(k) == {g \in Routed : ~ in_same_pod(g.src, g.dest) /\ g.path = k}

Through(p) == {g \in Routed : PodOf(g.src) = p \/ PodOf(g.dest) = p}

Via(p, a) == {g \in Through(p) : AggOf(g.path) = a}

Inside(p, a) == {g \in Via(p, a) : in_same_pod(g.src, g.dest)}

\* The link between the edge switch of host h and aggregate switch a.
Uplink(h, a) ==
    {g \in Routed : /\ AggOf(g.path) = a
                    /\ are_sibblings(g.src, h) \/ are_sibblings(g.dest, h)}
=============================================================================
