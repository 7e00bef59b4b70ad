------------------------ MODULE SourceRoutingProofs ------------------------
(***************************************************************************)
(* The controller's rules for every set of flows, of switches that start   *)
(* with their tables and of switches that lose them: each hop of a packet, *)
(* whatever part of the tables is there, is one that the arbiter charged.  *)
(***************************************************************************)
EXTENDS SourceRouting, TLAPS

\* The switches of a pod, by the path bit that picks the aggregate switch and
\* by the pair of hosts an edge switch serves.
AggregateOf(pod, k) == 4 * pod + 5 + AggOf(k)
EdgeOf(h) == 4 * PodOf(h) + 7 + ((h - 1) % 4) \div 2

\* The switches that a packet of flow f may be at on path k.
RouteOf(f, k) ==
    {EdgeOf(f[1]), EdgeOf(f[2])}
      \cup (IF are_sibblings(f[1], f[2]) THEN {}
            ELSE {AggregateOf(PodOf(f[1]), k), AggregateOf(PodOf(f[2]), k)})
      \cup (IF in_same_pod(f[1], f[2]) THEN {} ELSE {CoreSwitch(k)})

Place == {"nobody", "switch", "host", "dropped"} \X Nat

\* The inductive invariant: a packet under way is on the route of its flow.
OnRoute ==
    /\ packet \in [vlan : Nat, at : Place, from : Place]
    /\ packet.at = Nobody \/
         \E f \in Flow : \E k \in RulePaths(7, f[1], f[2]) :
            /\ packet.vlan = VlanId(f[1], f[2], k)
            /\ packet.at[1] \in {"switch", "host", "dropped"}
            /\ packet.at[1] = "switch" => packet.at[2] \in RouteOf(f, k)
            /\ packet.at[1] = "host" => packet.at[2] = f[2]

-----------------------------------------------------------------------------
(* The network's arithmetic.                                               *)

\* A VLAN id gives back its source, destination and path.
LEMMA Decode ==
    ASSUME NEW s \in Host, NEW d \in Host, NEW k \in Path
    PROVE  /\ PathOf(VlanId(s, d, k)) = k
           /\ SrcOf(VlanId(s, d, k)) = s
           /\ DestOf(VlanId(s, d, k)) = d
           /\ VlanId(s, d, k) \in Nat
<1>1. 16 * s + d \in 17..272 /\ k \in 0..3
  BY DEF Host, Path
<1>2. /\ VlanId(s, d, k) = (16 * s + d) + 1000 * k
      /\ VlanId(s, d, k) % 1000 = 16 * s + d
      /\ VlanId(s, d, k) \div 1000 = k
  BY <1>1 DEF VlanId, Host
<1>3. CASE d = 16
  BY <1>2, <1>3 DEF BaseOf, PathOf, SrcOf, DestOf, Host, Path, VlanId
<1>4. CASE d # 16
  BY <1>2, <1>4 DEF BaseOf, PathOf, SrcOf, DestOf, Host, Path, VlanId
<1>. QED  BY <1>3, <1>4

\* host_to_switch numbers the edge switches pod by pod, two hosts each.
LEMMA EdgeSwitch ==
    ASSUME NEW h \in Host
    PROVE  host_to_switch[h] = EdgeOf(h)
BY DEF Host, host_to_switch, EdgeOf, PodOf

LEMMA Levels ==
    /\ \A h \in Host : /\ PodOf(h) \in Pod /\ EdgeOf(h) \in Switch
                       /\ Level(EdgeOf(h)) = 3 /\ switch_pod(EdgeOf(h)) = PodOf(h)
    /\ \A pod \in Pod, k \in Path :
         LET sw == AggregateOf(pod, k) IN
         /\ sw \in Switch /\ Level(sw) = 2 /\ switch_pod(sw) = pod
         /\ (sw - 1) % 2 = AggOf(k)
    /\ \A k \in Path : CoreSwitch(k) \in Switch /\ Level(CoreSwitch(k)) = 1
BY DEF Host, Pod, Path, PodOf, EdgeOf, Level, Core, Switch, switch_pod, AggregateOf,
       AggOf, CoreSwitch

\* Siblings share an edge switch, which is to be in the same half of a pod.
LEMMA Siblings ==
    ASSUME NEW s \in Host, NEW d \in Host
    PROVE  /\ are_sibblings(s, d) <=> EdgeOf(s) = EdgeOf(d)
           /\ are_sibblings(s, d) => in_same_pod(s, d)
BY EdgeSwitch DEF are_sibblings, in_same_pod, EdgeOf, Host, PodOf

LEMMA PathsOfFlow ==
    ASSUME NEW f \in Flow
    PROVE  /\ f[1] \in Host /\ f[2] \in Host /\ f[1] # f[2]
           /\ RulePaths(7, f[1], f[2]) \subseteq Path
BY RoutingAssumption DEF RulePaths, Path

-----------------------------------------------------------------------------
(* The hops.                                                               *)

\* At its destination's edge switch a packet goes to its destination.
LEMMA LastHop ==
    ASSUME NEW s \in Host, NEW d \in Host, NEW k \in Path
    PROVE  Neighbour(EdgeOf(d), get_edge_port(EdgeOf(d), VlanId(s, d, k)))
             = <<"host", d>>
<1>1. get_edge_port(EdgeOf(d), VlanId(s, d, k)) = IF d % 2 = 0 THEN 4 ELSE 3
  BY Decode, EdgeSwitch DEF get_edge_port
<1>2. Level(EdgeOf(d)) = 3 /\ switch_pod(EdgeOf(d)) = PodOf(d)
  BY Levels
<1>3. (EdgeOf(d) - 1) % 2 = ((d - 1) % 4) \div 2
  BY DEF EdgeOf, PodOf, Host
<1>4. 4 * PodOf(d) + 2 * (((d - 1) % 4) \div 2) + (IF d % 2 = 0 THEN 4 ELSE 3) - 2 = d
  BY DEF PodOf, Host
<1>. QED  BY <1>1, <1>2, <1>3, <1>4 DEF Neighbour

\* From another edge switch, up to the aggregate switch of the path.
LEMMA FirstHop ==
    ASSUME NEW s \in Host, NEW d \in Host, NEW k \in Path, EdgeOf(s) # EdgeOf(d)
    PROVE  Neighbour(EdgeOf(s), get_edge_port(EdgeOf(s), VlanId(s, d, k)))
             = <<"switch", AggregateOf(PodOf(s), k)>>
<1>1. get_edge_port(EdgeOf(s), VlanId(s, d, k)) = IF k % 2 = 0 THEN 1 ELSE 2
  BY Decode, EdgeSwitch DEF get_edge_port
<1>2. Level(EdgeOf(s)) = 3 /\ switch_pod(EdgeOf(s)) = PodOf(s) /\ PodOf(s) \in Int
  BY Levels DEF Pod
<1>3. k % 2 \in {0, 1}
  BY DEF Path
<1>. QED  BY <1>1, <1>2, <1>3 DEF Neighbour, AggregateOf, AggOf

\* From an aggregate switch of the destination's pod, down.
LEMMA DownHop ==
    ASSUME NEW s \in Host, NEW d \in Host, NEW k \in Path
    PROVE  LET sw == AggregateOf(PodOf(d), k) IN
           Neighbour(sw, get_aggregate_port(sw, VlanId(s, d, k)))
             = <<"switch", EdgeOf(d)>>
<1> DEFINE sw == AggregateOf(PodOf(d), k)
<1>1. Level(sw) = 2 /\ switch_pod(sw) = PodOf(d) /\ PodOf(d) \in Pod
  BY Levels
<1>2. get_aggregate_port(sw, VlanId(s, d, k)) = IF (d - 1) % 4 <= 1 THEN 3 ELSE 4
  BY <1>1, Decode DEF get_aggregate_port
<1>3. ((d - 1) % 4) \div 2 = IF (d - 1) % 4 <= 1 THEN 0 ELSE 1
  BY DEF Host
<1> HIDE DEF sw
<1>. QED  BY <1>1, <1>2, <1>3 DEF Neighbour, EdgeOf, Pod, sw

\* From an aggregate switch of another pod, up to the core switch of the path.
LEMMA UpHop ==
    ASSUME NEW s \in Host, NEW d \in Host, NEW k \in Path, PodOf(s) # PodOf(d)
    PROVE  LET sw == AggregateOf(PodOf(s), k) IN
           Neighbour(sw, get_aggregate_port(sw, VlanId(s, d, k)))
             = <<"switch", CoreSwitch(k)>>
<1> DEFINE sw == AggregateOf(PodOf(s), k)
<1>1. /\ Level(sw) = 2 /\ switch_pod(sw) = PodOf(s) /\ PodOf(s) \in Pod
      /\ (sw - 1) % 2 = AggOf(k)
  BY Levels
<1>2. get_aggregate_port(sw, VlanId(s, d, k)) = IF k < 2 THEN 1 ELSE 2
  BY <1>1, Decode DEF get_aggregate_port
<1>3. 2 * AggOf(k) + (IF k < 2 THEN 1 ELSE 2) = CoreSwitch(k)
  BY DEF AggOf, CoreSwitch, Path
<1> HIDE DEF sw
<1>. QED  BY <1>1, <1>2, <1>3 DEF Neighbour, sw

\* From the core switch of the path, down to its aggregate switch of the pod.
LEMMA CoreHop ==
    ASSUME NEW s \in Host, NEW d \in Host, NEW k \in Path
    PROVE  Neighbour(CoreSwitch(k), CorePort(VlanId(s, d, k)))
             = <<"switch", AggregateOf(PodOf(d), k)>>
<1>1. Level(CoreSwitch(k)) = 1 /\ PodOf(d) \in Pod
  BY Levels
<1>2. CorePort(VlanId(s, d, k)) = PodOf(d) + 1
  BY Decode DEF CorePort
<1>3. (IF CoreSwitch(k) <= 2 THEN 0 ELSE 1) = AggOf(k)
  BY DEF CoreSwitch, AggOf, Path
<1>. QED  BY <1>1, <1>2, <1>3 DEF Neighbour, AggregateOf, Pod

\* So every hop stays on the route and ends at the destination.
LEMMA HopOnRoute ==
    ASSUME NEW f \in Flow, NEW k \in RulePaths(7, f[1], f[2]), NEW sw \in RouteOf(f, k)
    PROVE  LET next == Neighbour(sw, OutPort(sw, VlanId(f[1], f[2], k))) IN
           \/ next = <<"host", f[2]>>
           \/ \E to \in RouteOf(f, k) : next = <<"switch", to>>
<1> DEFINE s == f[1]
           d == f[2]
           v == VlanId(s, d, k)
<1>1. s \in Host /\ d \in Host /\ k \in Path
  BY PathsOfFlow
<1> HIDE DEF s, d
<1>2. CASE sw = EdgeOf(d)
  BY <1>1, <1>2, LastHop, Levels DEF OutPort, d, s
<1>3. CASE sw = EdgeOf(s) /\ EdgeOf(s) # EdgeOf(d)
  <2>1. AggregateOf(PodOf(s), k) \in RouteOf(f, k)
    BY <1>1, <1>3, Siblings DEF RouteOf, s, d
  <2>. QED  BY <1>1, <1>3, <2>1, FirstHop, Levels DEF OutPort, d, s
<1>4. CASE sw = AggregateOf(PodOf(d), k)
  <2>1. EdgeOf(d) \in RouteOf(f, k)
    BY DEF RouteOf, d
  <2>2. OutPort(sw, v) = get_aggregate_port(sw, v)
    BY <1>1, <1>4, Levels DEF OutPort
  <2>. QED  BY <1>1, <1>4, <2>1, <2>2, DownHop DEF d, s
<1>5. CASE sw = AggregateOf(PodOf(s), k) /\ PodOf(s) # PodOf(d)
  <2>1. CoreSwitch(k) \in RouteOf(f, k)
    BY <1>5 DEF RouteOf, in_same_pod, s, d
  <2>2. OutPort(sw, v) = get_aggregate_port(sw, v)
    BY <1>1, <1>5, Levels DEF OutPort
  <2>. QED  BY <1>1, <1>5, <2>1, <2>2, UpHop DEF d, s
<1>6. CASE sw = CoreSwitch(k) /\ PodOf(s) # PodOf(d)
  <2>1. AggregateOf(PodOf(d), k) \in RouteOf(f, k)
    BY <1>1, <1>6, Siblings DEF RouteOf, in_same_pod, s, d
  <2>2. OutPort(sw, v) = CorePort(v)
    BY <1>1, <1>6, Levels DEF OutPort
  <2>. QED  BY <1>1, <1>6, <2>1, <2>2, CoreHop DEF d, s
<1>. QED  BY <1>2, <1>3, <1>4, <1>5, <1>6 DEF RouteOf, in_same_pod, s, d

-----------------------------------------------------------------------------
(* The tables.                                                             *)

\* Ids are installed in the order of the loop, each after its predecessor.
LEMMA TableOrder ==
    /\ Last \in BaseIds /\ \A b \in BaseIds : b <= Last
    /\ \A u \in BaseIds \cup {0} : u < Last =>
         (CHOOSE b \in BaseIds : b > u /\ \A c \in BaseIds : c > u => b <= c) \in BaseIds
<1>1. PICK lo \in BaseIds, hi \in BaseIds : BaseIds = lo..hi
  BY RoutingAssumption
<1>2. BaseIds \subseteq Int /\ \A b \in BaseIds : 0 < b /\ lo <= b /\ b <= hi
  BY <1>1, RoutingAssumption
<1>3. Last \in BaseIds /\ \A b \in BaseIds : b <= Last
  BY <1>2 DEF Last
<1>4. ASSUME NEW u \in BaseIds \cup {0}, u < Last
      PROVE  (CHOOSE b \in BaseIds : b > u /\ \A c \in BaseIds : c > u => b <= c)
               \in BaseIds
  <2>1. \E b \in BaseIds : b > u /\ \A c \in BaseIds : c > u => b <= c
    <3>1. CASE u = 0
      BY <1>2, <3>1
    <3>2. CASE u \in BaseIds
      <4>1. u + 1 \in BaseIds
        BY <1>1, <1>2, <1>3, <1>4, <3>2
      <4>2. u + 1 > u /\ \A c \in BaseIds : c > u => u + 1 <= c
        BY <1>2, <3>2
      <4>. QED  BY <4>1, <4>2
    <3>. QED  BY <3>1, <3>2
  <2>. QED  BY <2>1
<1>. QED  BY <1>3, <1>4

LEMMA TableType ==
    ASSUME upTo \in [Switch -> BaseIds \cup {0}], [Next]_vars
    PROVE  upTo' \in [Switch -> BaseIds \cup {0}]
<1>1. ASSUME NEW sw \in Switch, Install(sw) PROVE upTo' \in [Switch -> BaseIds \cup {0}]
  BY <1>1, TableOrder DEF Install
<1>2. ASSUME NEW sw \in Switch, SwitchIn(sw) PROVE upTo' \in [Switch -> BaseIds \cup {0}]
  BY <1>2 DEF SwitchIn
<1>. QED  BY <1>1, <1>2 DEF Next, SendPacket, Move, Forward, TableMiss, Leave, vars

-----------------------------------------------------------------------------
(* The packet.                                                             *)

LEMMA SendOnRoute == OnRoute /\ SendPacket => OnRoute'
<1> SUFFICES ASSUME OnRoute, SendPacket PROVE OnRoute'
  OBVIOUS
<1>1. PICK f \in Flow, k \in Path : k \in RulePaths(7, f[1], f[2]) /\
        packet' = [vlan |-> VlanId(f[1], f[2], k),
                   at |-> <<"switch", host_to_switch[f[1]]>>,
                   from |-> <<"host", f[1]>>]
  BY PathsOfFlow DEF SendPacket
<1>2. f[1] \in Host /\ f[2] \in Host /\ k \in Path
  BY PathsOfFlow
<1>3. host_to_switch[f[1]] = EdgeOf(f[1]) /\ EdgeOf(f[1]) \in Switch
  BY <1>2, EdgeSwitch, Levels
<1>4. packet' \in [vlan : Nat, at : Place, from : Place]
  BY <1>1, <1>2, <1>3, Decode DEF Place, Host, Switch
<1>5. EdgeOf(f[1]) \in RouteOf(f, k)
  BY DEF RouteOf
<1>. QED  BY <1>1, <1>3, <1>4, <1>5 DEF OnRoute

LEMMA ForwardOnRoute == OnRoute /\ Forward => OnRoute'
<1> SUFFICES ASSUME OnRoute, Forward PROVE OnRoute'
  OBVIOUS
<1> DEFINE sw == packet.at[2]
           next == Neighbour(sw, OutPort(sw, packet.vlan))
<1>1. /\ packet \in [vlan : Nat, at : Place, from : Place] /\ packet.at[1] = "switch"
      /\ packet.at # Nobody
  BY DEF OnRoute, Forward, Nobody
<1>2. PICK f \in Flow, k \in Path : k \in RulePaths(7, f[1], f[2]) /\
        packet.vlan = VlanId(f[1], f[2], k) /\ sw \in RouteOf(f, k)
  BY <1>1, PathsOfFlow DEF OnRoute
<1>3. next = <<"host", f[2]>> \/ \E to \in RouteOf(f, k) : next = <<"switch", to>>
  BY <1>2, HopOnRoute
<1>4. f[1] \in Host /\ f[2] \in Host /\ k \in Path
  BY PathsOfFlow
<1>5. RouteOf(f, k) \subseteq Nat
  BY <1>4, Levels DEF RouteOf, Switch
<1>6. next \in Place /\ <<"dropped", sw>> \in Place
  BY <1>2, <1>3, <1>4, <1>5 DEF Place, Host
<1> HIDE DEF next
<1>7. packet' = IF next = packet.from THEN [packet EXCEPT !.at = <<"dropped", sw>>]
                ELSE [packet EXCEPT !.at = next, !.from = packet.at]
  BY DEF Forward, next
<1> HIDE DEF sw
<1>8. /\ packet' \in [vlan : Nat, at : Place, from : Place]
      /\ packet'.vlan = packet.vlan
      /\ packet'.at = <<"dropped", sw>> \/ packet'.at = next
  BY <1>1, <1>6, <1>7
<1>. QED  BY <1>2, <1>3, <1>8 DEF OnRoute

LEMMA LeaveOnRoute == OnRoute /\ (TableMiss \/ Leave) => OnRoute'
<1> SUFFICES ASSUME OnRoute, TableMiss \/ Leave PROVE OnRoute'
  OBVIOUS
<1>1. packet \in [vlan : Nat, at : Place, from : Place]
  BY DEF OnRoute
<1>2. CASE TableMiss
  <2>1. packet.at # Nobody /\ packet' = [packet EXCEPT !.at = <<"dropped", packet.at[2]>>]
    BY <1>2 DEF TableMiss, Nobody
  <2>2. <<"dropped", packet.at[2]>> \in Place
    BY <1>1 DEF Place
  <2>. QED  BY <1>1, <2>1, <2>2 DEF OnRoute
<1>3. CASE Leave
  BY <1>3 DEF Leave, Idle, OnRoute, Nobody, Place
<1>. QED  BY <1>2, <1>3

-----------------------------------------------------------------------------
RoutingInv == upTo \in [Switch -> BaseIds \cup {0}] /\ OnRoute

\* Whatever rules have arrived (install_rules), a packet stays on its route.
THEOREM RoutingInvariant == Spec => []RoutingInv
<1>1. Init => RoutingInv
  BY TableOrder DEF Init, RoutingInv, OnRoute, Idle, Nobody, Place
<1>2. RoutingInv /\ [Next]_vars => RoutingInv'
  <2> SUFFICES ASSUME RoutingInv, [Next]_vars PROVE RoutingInv'
    OBVIOUS
  <2>1. upTo' \in [Switch -> BaseIds \cup {0}]
    BY TableType DEF RoutingInv
  <2>2. CASE SendPacket \/ Move
    BY <2>1, <2>2, SendOnRoute, ForwardOnRoute, LeaveOnRoute DEF RoutingInv, Move
  <2>3. CASE UNCHANGED packet
    BY <2>1, <2>3 DEF RoutingInv, OnRoute
  <2>. QED  BY <2>2, <2>3 DEF Next, SwitchIn, Install, vars
<1>. QED  BY <1>1, <1>2, PTL DEF Spec

\* Every table is a first part of the loop's ids, and a packet is in one place.
THEOREM RoutingTypes == Spec => []RoutingTypeOK
<1>1. RoutingInv => RoutingTypeOK
  BY DEF RoutingInv, OnRoute, RoutingTypeOK, Place
<1>. QED  BY <1>1, RoutingInvariant, PTL

\* No packet reaches a host it is not for, whatever flows there are and while
\* any tables are lost and filled again (install_rules, switch_in).
THEOREM NobodyElse == Spec => []NeverMisdelivered
<1>1. RoutingInv => NeverMisdelivered
  <2> SUFFICES ASSUME RoutingInv, packet.at[1] = "host"
               PROVE  packet.at[2] = DestOf(packet.vlan)
    BY DEF NeverMisdelivered
  <2>1. PICK f \in Flow, k \in Path : k \in RulePaths(7, f[1], f[2]) /\
          packet.vlan = VlanId(f[1], f[2], k) /\ packet.at[2] = f[2]
    BY PathsOfFlow DEF RoutingInv, OnRoute, Nobody
  <2>. QED  BY <2>1, PathsOfFlow, Decode
<1>. QED  BY <1>1, RoutingInvariant, PTL

\* The switches that a packet crosses are those whose counters get_vlanid
\* charged for its path: the two tables agree for every pair and path.
THEOREM ArbiterAndControllerAgree == Spec => []ChargedWhereItGoes
<1>1. RoutingInv => ChargedWhereItGoes
  <2> SUFFICES ASSUME RoutingInv, packet.at[1] = "switch" PROVE ChargedWhereItGoes
    BY DEF ChargedWhereItGoes
  <2>1. PICK f \in Flow, k \in Path : k \in RulePaths(7, f[1], f[2]) /\
          packet.vlan = VlanId(f[1], f[2], k) /\ packet.at[2] \in RouteOf(f, k)
    BY PathsOfFlow DEF RoutingInv, OnRoute, Nobody
  <2>2. /\ f[1] \in Host /\ f[2] \in Host /\ k \in Path
        /\ PathOf(packet.vlan) = k /\ SrcOf(packet.vlan) = f[1]
        /\ DestOf(packet.vlan) = f[2]
    BY <2>1, PathsOfFlow, Decode
  <2>3. PodOf(f[1]) \in Pod /\ PodOf(f[2]) \in Pod
    BY <2>2, Levels
  <2>. QED  BY <2>1, <2>2, <2>3, Levels DEF ChargedWhereItGoes, RouteOf
<1>. QED  BY <1>1, RoutingInvariant, PTL

\* Traffic of siblings never leaves their edge switch, traffic of a pod never
\* reaches the core: there the arbiter charges nothing for it.
THEOREM LocalTraffic == Spec => []StaysBelow
<1>1. RoutingInv => StaysBelow
  <2> SUFFICES ASSUME RoutingInv, packet.at[1] = "switch" PROVE StaysBelow
    BY DEF StaysBelow
  <2>1. PICK f \in Flow, k \in Path : k \in RulePaths(7, f[1], f[2]) /\
          packet.vlan = VlanId(f[1], f[2], k) /\ packet.at[2] \in RouteOf(f, k)
    BY PathsOfFlow DEF RoutingInv, OnRoute, Nobody
  <2>2. /\ f[1] \in Host /\ f[2] \in Host /\ k \in Path
        /\ SrcOf(packet.vlan) = f[1] /\ DestOf(packet.vlan) = f[2]
    BY <2>1, PathsOfFlow, Decode
  <2>3. /\ PodOf(f[1]) \in Pod /\ PodOf(f[2]) \in Pod
        /\ are_sibblings(f[1], f[2]) => in_same_pod(f[1], f[2])
    BY <2>2, Levels, Siblings
  <2>. QED  BY <2>1, <2>2, <2>3, Levels DEF StaysBelow, RouteOf
<1>. QED  BY <1>1, RoutingInvariant, PTL
=============================================================================
