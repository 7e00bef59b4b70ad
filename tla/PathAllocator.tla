--------------------------- MODULE PathAllocator ---------------------------
(***************************************************************************)
(* The per-slot resource tables of process_demands.c and the choice of a   *)
(* path for one chunk: the body of find_path's loop with the               *)
(* get_appropriate_vlanid and get_vlanid it calls, and the clearing of the *)
(* tables at the start of a slot.  Which demand asks for the chunk, and    *)
(* when, is left to the Arbiter module; here every flow may ask at any     *)
(* time.                                                                   *)
(***************************************************************************)
EXTENDS SlotLoad

CONSTANT Flow       \* the <<src, dest>> pairs that hosts send demands for

ASSUME FlowAssumption ==
    Flow \subseteq {f \in Host \X Host : f[1] # f[2]}

VARIABLES
    tor_link_capacity,          \* per host: packets sent plus packets received
    torswitch_port_capacity,    \* per edge switch row and uplink
    pod_vlanid,                 \* per pod and aggregate switch
    coreswitch_port_capacity,   \* per path: the one core port it is charged to
    prev_vlanid,                \* per flow: its last path, -1 before the first
    reply                       \* the grants of this slot; reply_index is its length

tables == <<tor_link_capacity, torswitch_port_capacity, pod_vlanid,
            coreswitch_port_capacity>>
allocVars == <<tables, prev_vlanid, reply>>

\* Add one chunk to the counters x and y, twice to one when they coincide.
Charge(counter, x, y) ==
    [z \in DOMAIN counter |-> counter[z] + (IF z = x THEN Chunk ELSE 0)
                                         + (IF z = y THEN Chunk ELSE 0)]

\* Slip: the counter is taken for the capacity that is left.
SpendOne(counter, x) ==
    [z \in DOMAIN counter |-> counter[z] - (IF z = x THEN Chunk ELSE 0)]

ChargeOne(counter, x) ==
    [z \in DOMAIN counter |-> counter[z] + (IF z = x THEN Chunk ELSE 0)]

HasTwoLeft(counter, x, y) ==
    counter[x] + Chunk <= Cap /\ counter[y] + Chunk <= Cap

\* Slip: only the receiving host's link is checked.
LinksHaveRoomDestOnly(src, dest) == tor_link_capacity[dest] + Chunk <= Cap

\* The capacity check of find_path on the links of both end hosts.
LinksHaveRoom(src, dest) == HasTwoLeft(tor_link_capacity, dest, src)

\* Slip: the core port is not checked.
PathHasRoomNoCore(src, dest, k) ==
    /\ HasTwoLeft(pod_vlanid, <<PodOf(src), AggOf(k)>>, <<PodOf(dest), AggOf(k)>>)
    /\ HasTwoLeft(torswitch_port_capacity, <<SrcRow(src), AggOf(k)>>,
                                           <<DestRow(dest), AggOf(k)>>)

\* Slip: the pods' aggregate switches are not checked.
PathHasRoomNoPod(src, dest, k) ==
    /\ in_same_pod(src, dest) \/ coreswitch_port_capacity[k] + Chunk <= Cap
    /\ HasTwoLeft(torswitch_port_capacity, <<SrcRow(src), AggOf(k)>>,
                                           <<DestRow(dest), AggOf(k)>>)

\* get_vlanid's checks for path k: core port, both pods, both edge switches.
PathHasRoom(src, dest, k) ==
    /\ in_same_pod(src, dest) \/ coreswitch_port_capacity[k] + Chunk <= Cap
    /\ HasTwoLeft(pod_vlanid, <<PodOf(src), AggOf(k)>>, <<PodOf(dest), AggOf(k)>>)
    /\ HasTwoLeft(torswitch_port_capacity, <<SrcRow(src), AggOf(k)>>,
                                           <<DestRow(dest), AggOf(k)>>)

\* The i-th path that get_appropriate_vlanid tries, counting from 0: it
\* resumes after the pair's previous path and wraps around.
Try(src, dest, i) == (prev_vlanid[<<src, dest>>] + 1 + i) % NumPaths(src, dest)

\* The first i tries find no room.
NoRoomInFirst(src, dest, i) ==
    \A j \in 0..(i - 1) : ~ PathHasRoom(src, dest, Try(src, dest, j))

NoPath(src, dest) == NoRoomInFirst(src, dest, NumPaths(src, dest))

-----------------------------------------------------------------------------
AllocInit ==
    /\ tor_link_capacity = [h \in Host |-> 0]
    /\ torswitch_port_capacity = [x \in TorRow \X Agg |-> 0]
    /\ pod_vlanid = [x \in Pod \X Agg |-> 0]
    /\ coreswitch_port_capacity = [k \in Path |-> 0]
    /\ prev_vlanid = [f \in Flow |-> -1]
    /\ reply = << >>

\* Slip: the memset of pod_vlanid is missing.
ClearSlotKeepsPods ==
    /\ tor_link_capacity' = [h \in Host |-> 0]
    /\ torswitch_port_capacity' = [x \in TorRow \X Agg |-> 0]
    /\ coreswitch_port_capacity' = [k \in Path |-> 0]
    /\ reply' = << >>
    /\ UNCHANGED <<prev_vlanid, pod_vlanid>>

\* The top of process_demands' loop: all tables to zero, but prev_vlanid stays.
ClearSlot ==
    /\ tor_link_capacity' = [h \in Host |-> 0]
    /\ torswitch_port_capacity' = [x \in TorRow \X Agg |-> 0]
    /\ pod_vlanid' = [x \in Pod \X Agg |-> 0]
    /\ coreswitch_port_capacity' = [k \in Path |-> 0]
    /\ reply' = << >>
    /\ UNCHANGED prev_vlanid

\* The part of a grant that siblings and routed pairs share.
Reply(src, dest, port, k) ==
    /\ LinksHaveRoom(src, dest)
    /\ tor_link_capacity' = Charge(tor_link_capacity, dest, src)
    /\ prev_vlanid' = [prev_vlanid EXCEPT ![<<src, dest>>] = k]
    /\ reply' = Append(reply, [src |-> src, dest |-> dest,
                               path |-> k, port |-> port])

\* Siblings get path 0 and cost nothing beyond their two links.
GrantSibling(src, dest, port) ==
    /\ are_sibblings(src, dest)
    /\ Reply(src, dest, port, 0)
    /\ UNCHANGED <<torswitch_port_capacity, pod_vlanid, coreswitch_port_capacity>>

\* Slip: a pair inside a pod is charged once.
ChargePathOnce(src, dest, k) ==
    /\ torswitch_port_capacity' =
         Charge(torswitch_port_capacity, <<SrcRow(src), 0>>, <<DestRow(dest), 0>>)
    /\ pod_vlanid' =
         IF in_same_pod(src, dest)
         THEN ChargeOne(pod_vlanid, <<PodOf(src), AggOf(k)>>)
         ELSE Charge(pod_vlanid, <<PodOf(src), AggOf(k)>>, <<PodOf(dest), AggOf(k)>>)
    /\ coreswitch_port_capacity' =
         IF in_same_pod(src, dest)
         THEN coreswitch_port_capacity
         ELSE ChargeOne(coreswitch_port_capacity, k)

\* get_vlanid's updates for path k.  Every path charges uplink 0 of the edge
\* switches, the odd ones too, although it is uplink 1 they were checked on.
ChargePath(src, dest, k) ==
    /\ torswitch_port_capacity' =
         Charge(torswitch_port_capacity, <<SrcRow(src), 0>>, <<DestRow(dest), 0>>)
    /\ pod_vlanid' =
         Charge(pod_vlanid, <<PodOf(src), AggOf(k)>>, <<PodOf(dest), AggOf(k)>>)
    /\ coreswitch_port_capacity' =
         IF in_same_pod(src, dest)
         THEN coreswitch_port_capacity
         ELSE ChargeOne(coreswitch_port_capacity, k)

\* Other pairs take the first path with room.
GrantRouted(src, dest, port) ==
    /\ ~ are_sibblings(src, dest)
    /\ \E i \in 0..(NumPaths(src, dest) - 1) :
         LET k == Try(src, dest, i) IN
         /\ NoRoomInFirst(src, dest, i)
         /\ PathHasRoom(src, dest, k)
         /\ Reply(src, dest, port, k)
         /\ ChargePath(src, dest, k)

GrantChunk(src, dest, port) ==
    \/ GrantSibling(src, dest, port)
    \/ GrantRouted(src, dest, port)

\* find_path gives up: a link is full, or no path has room.
Refused(src, dest) ==
    \/ ~ LinksHaveRoom(src, dest)
    \/ ~ are_sibblings(src, dest) /\ NoPath(src, dest)

AllocNext ==
    \/ ClearSlot
    \/ \E f \in Flow, port \in Port : GrantChunk(f[1], f[2], port)

AllocSpec == AllocInit /\ [][AllocNext]_allocVars

-----------------------------------------------------------------------------
\* The tables have their types: chunks are added to counters that start at 0.
AllocTypeOK ==
    /\ tor_link_capacity \in [Host -> Nat]
    /\ torswitch_port_capacity \in [TorRow \X Agg -> Nat]
    /\ pod_vlanid \in [Pod \X Agg -> Nat]
    /\ coreswitch_port_capacity \in [Path -> Nat]
    /\ prev_vlanid \in [Flow -> -1..3]
    /\ reply \in Seq(Grant)

\* The one counter a host has is exactly what it sends plus what it receives
\* in the slot's replies (find_path lines 319 and 373-374), within its link.
HostLinks ==
    \A h \in Host : /\ tor_link_capacity[h] = Load(reply, Touching(h))
                    /\ tor_link_capacity[h] <= Cap

\* The core counter of a path is exactly the load of the replies that use it.
CorePaths ==
    \A k \in Path : /\ coreswitch_port_capacity[k] = Load(reply, Crossing(k))
                    /\ coreswitch_port_capacity[k] <= Cap

\* A pod counter is the load through its aggregate switch, where pairs inside
\* the pod count twice (get_vlanid lines 95-96 with src and dest in one pod).
PodCounters ==
    \A p \in Pod, a \in Agg :
        pod_vlanid[<<p, a>>] = Load(reply, Via(p, a)) + Load(reply, Inside(p, a))

\* README.txt line 22, for every aggregate switch: whatever the counters say,
\* no aggregate switch is asked to carry more than Cap packets in a slot.
AggregateLoad == \A p \in Pod, a \in Agg : Load(reply, Via(p, a)) <= Cap

\* The edge uplinks: torswitch_port_capacity uses the wrong row for all hosts
\* and the wrong column for odd paths, and still no uplink is overcommitted.
UplinkLoad == \A h \in Host, a \in Agg : Load(reply, Uplink(h, a)) <= Cap

\* README.txt line 23: at most 2 * Cap routed packets in a pod.
PodLoad == \A p \in Pod : Load(reply, Through(p)) <= 2 * Cap

\* pod_vlanid overshoots the capacity by at most one chunk: a pair inside a pod
\* is checked for one chunk and charged for two.
PodOvershoot == \A x \in Pod \X Agg : pod_vlanid[x] <= Cap + Chunk

\* While a slot has no reply its first demand cannot be refused: nothing of an
\* earlier slot survives in the tables (lines 509-521).
FreshSlotServes ==
    reply = << >> => \A f \in Flow : ~ Refused(f[1], f[2])

-----------------------------------------------------------------------------
\* Every slot the allocator fills keeps the contract of SlotContract.
Contract == INSTANCE SlotContract WITH grants <- reply

ContractSpec == Contract!Spec

-----------------------------------------------------------------------------
(* What the documentation says and the code does not keep.                 *)

\* README.txt line 23: "the total number of packets in a pod should not exceed
\* 400", siblings' packets, which cross no aggregate switch, among them.
InPod(p) == {g \in Grant : PodOf(g.src) = p \/ PodOf(g.dest) = p}
PodTotal == \A p \in Pod : Load(reply, InPod(p)) <= 2 * Cap
=============================================================================
