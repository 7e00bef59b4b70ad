--------------------------- MODULE SourceRouting ---------------------------
(***************************************************************************)
(* The controller of source_routing.py, which fills the switches' tables   *)
(* with one rule per VLAN id, and the packets that the switches forward by *)
(* them over the links of fat.py, also while tables are being filled.      *)
(*                                                                         *)
(* Switches 1..4 are core, then every pod has two aggregate and two edge   *)
(* switches.  VLAN ids are the code's numbers.                             *)
(***************************************************************************)
EXTENDS FatTree, Sequences, FiniteSets

CONSTANTS
    BaseIds,    \* the base VLAN ids the controller loops over (18..271)
    Boot,       \* the switches whose tables are complete at the start
    Flapping,   \* the switches that may connect again
    Flow        \* the <<src, dest>> pairs that hosts send packets for

\* range(18, 272) has no gaps; the arbiter grants no path to oneself.
ASSUME RoutingAssumption ==
    /\ BaseIds \subseteq 1..999
    /\ \E lo, hi \in BaseIds : BaseIds = lo..hi
    /\ Flow \subseteq {f \in Host \X Host : f[1] # f[2]}

Switch == 1..20
Core   == 1..4
Level(sw) == IF sw \in Core THEN 1 ELSE IF (sw - 1) % 4 < 2 THEN 2 ELSE 3

\* The pod of a switch beyond the core, numbered from 0.
switch_pod(sw) == (sw - 5) \div 4

\* The links of fat.py, in the order that gives them their ports.
Nobody == <<"nobody", 0>>
Neighbour(sw, port) ==
    LET pod == switch_pod(sw)
        first == 4 * pod + 5        \* first switch of the pod
        low == (sw - 1) % 2         \* second switch of its level?
    IN CASE Level(sw) = 1 ->
              <<"switch", 4 * (port - 1) + 5 + (IF sw <= 2 THEN 0 ELSE 1)>>
         [] Level(sw) = 2 ->
              IF port <= 2 THEN <<"switch", 2 * low + port>>
                           ELSE <<"switch", first + port - 1>>
         [] Level(sw) = 3 ->
              IF port <= 2 THEN <<"switch", first + port - 1>>
                           ELSE <<"host", 4 * pod + 2 * low + port - 2>>

-----------------------------------------------------------------------------
(* VLAN ids: (src << 4) + dest + 1000 * path.                              *)

VlanId(src, dest, k) == 16 * src + dest + 1000 * k
BaseOf(vlan) == vlan % 1000
PathOf(vlan) == vlan \div 1000

\* dest 16 reads as 0 and carries into src.
DestOf(vlan) == IF BaseOf(vlan) % 16 = 0 THEN 16 ELSE BaseOf(vlan) % 16
SrcOf(vlan)  == IF BaseOf(vlan) % 16 = 0 THEN BaseOf(vlan) \div 16 - 1
                                         ELSE BaseOf(vlan) \div 16

\* Slip: the path bit that picks the core switch is used at the edge.
EdgePortSwapped(sw, vlan) ==
    IF host_to_switch[DestOf(vlan)] = sw
    THEN IF DestOf(vlan) % 2 = 0 THEN 4 ELSE 3
    ELSE IF PathOf(vlan) < 2 THEN 1 ELSE 2

\* Slip: the ports of even and odd hosts are exchanged.
EdgePortParity(sw, vlan) ==
    IF host_to_switch[DestOf(vlan)] = sw
    THEN IF DestOf(vlan) % 2 = 0 THEN 3 ELSE 4
    ELSE IF PathOf(vlan) % 2 = 0 THEN 1 ELSE 2

get_edge_port(sw, vlan) ==
    IF host_to_switch[DestOf(vlan)] = sw
    THEN IF DestOf(vlan) % 2 = 0 THEN 4 ELSE 3
    ELSE IF PathOf(vlan) % 2 = 0 THEN 1 ELSE 2

\* Slip: hosts are counted from 0 in one of the two places.
AggregatePortShifted(sw, vlan) ==
    IF DestOf(vlan) \div 4 = switch_pod(sw)
    THEN IF (DestOf(vlan) - 1) % 4 <= 1 THEN 3 ELSE 4
    ELSE IF PathOf(vlan) < 2 THEN 1 ELSE 2

\* Slip: the edge switch is chosen by the host's parity.
AggregatePortParity(sw, vlan) ==
    IF PodOf(DestOf(vlan)) = switch_pod(sw)
    THEN IF (DestOf(vlan) - 1) % 2 = 0 THEN 3 ELSE 4
    ELSE IF PathOf(vlan) < 2 THEN 1 ELSE 2

get_aggregate_port(sw, vlan) ==
    IF PodOf(DestOf(vlan)) = switch_pod(sw)
    THEN IF (DestOf(vlan) - 1) % 4 <= 1 THEN 3 ELSE 4
    ELSE IF PathOf(vlan) < 2 THEN 1 ELSE 2

CorePort(vlan) == PodOf(DestOf(vlan)) + 1

\* The paths for which a switch gets a rule.
RulePaths(sw, src, dest) ==
    IF are_sibblings(src, dest) THEN IF Level(sw) = 3 THEN {0} ELSE {}
    ELSE IF in_same_pod(src, dest) THEN IF Level(sw) = 1 THEN {} ELSE {0, 1}
    ELSE Path

OutPort(sw, vlan) ==
    CASE Level(sw) = 1 -> CorePort(vlan)
      [] Level(sw) = 2 -> get_aggregate_port(sw, vlan)
      [] Level(sw) = 3 -> get_edge_port(sw, vlan)

-----------------------------------------------------------------------------
VARIABLES
    upTo,       \* per switch: the last base id whose rules it has, 0 if none
    packet      \* the packet under way: its vlan, where it is, where from

vars == <<upTo, packet>>

Idle == [vlan |-> 0, at |-> Nobody, from |-> Nobody]
Last == CHOOSE b \in BaseIds : \A c \in BaseIds : c <= b

HasRule(sw, vlan) ==
    /\ BaseOf(vlan) \in BaseIds /\ BaseOf(vlan) <= upTo[sw]
    /\ PathOf(vlan) \in RulePaths(sw, SrcOf(vlan), DestOf(vlan))

Init ==
    /\ upTo = [sw \in Switch |-> IF sw \in Boot THEN Last ELSE 0]
    /\ packet = Idle

\* switch_in: the switch connects, its table is deleted.
SwitchIn(sw) ==
    /\ sw \in Flapping
    /\ upTo' = [upTo EXCEPT ![sw] = 0]
    /\ UNCHANGED packet

\* Slip: the id after the last one is installed too.
InstallPastLast(sw) ==
    /\ upTo[sw] <= Last
    /\ upTo' = [upTo EXCEPT ![sw] =
         IF \E b \in BaseIds : b > @
         THEN CHOOSE b \in BaseIds : b > @ /\ \A c \in BaseIds : c > @ => b <= c
         ELSE Last + 1]
    /\ UNCHANGED packet

\* The rules of the next id reach the switch; ids go up.
Install(sw) ==
    /\ upTo[sw] < Last
    /\ upTo' = [upTo EXCEPT ![sw] =
         CHOOSE b \in BaseIds : b > @ /\ \A c \in BaseIds : c > @ => b <= c]
    /\ UNCHANGED packet

\* A host sends a packet tagged with one of the ids the arbiter may grant.
SendPacket ==
    /\ packet = Idle
    /\ \E f \in Flow : \E k \in RulePaths(7, f[1], f[2]) :
         packet' = [vlan |-> VlanId(f[1], f[2], k),
                    at |-> <<"switch", host_to_switch[f[1]]>>,
                    from |-> <<"host", f[1]>>]
    /\ UNCHANGED upTo

\* A packet whose rule names a port goes to that port's neighbour; OpenFlow
\* drops one that would leave by the port it came in by.
Forward ==
    /\ packet.at[1] = "switch"
    /\ LET sw == packet.at[2]
           next == Neighbour(sw, OutPort(sw, packet.vlan)) IN
       /\ HasRule(sw, packet.vlan)
       /\ packet' = IF next = packet.from
                    THEN [packet EXCEPT !.at = <<"dropped", sw>>]
                    ELSE [packet EXCEPT !.at = next, !.from = packet.at]
    /\ UNCHANGED upTo

\* No rule: the packet goes to the controller, which has no handler for it.
TableMiss ==
    /\ packet.at[1] = "switch"
    /\ ~ HasRule(packet.at[2], packet.vlan)
    /\ packet' = [packet EXCEPT !.at = <<"dropped", packet.at[2]>>]
    /\ UNCHANGED upTo

Leave ==
    /\ packet.at[1] \in {"host", "dropped"}
    /\ packet' = Idle
    /\ UNCHANGED upTo

Move == Forward \/ TableMiss \/ Leave

Next ==
    \/ \E sw \in Switch : SwitchIn(sw) \/ Install(sw)
    \/ SendPacket
    \/ Move

Spec == Init /\ [][Next]_vars

\* Switches forward what they have.
FairSpec == Spec /\ WF_vars(Move)

-----------------------------------------------------------------------------
RoutingTypeOK ==
    /\ upTo \in [Switch -> BaseIds \cup {0}]
    /\ packet.vlan \in Nat
    /\ packet.at[1] \in {"nobody", "switch", "host", "dropped"}

\* No packet reaches a host it is not for, whatever part of the tables is there.
NeverMisdelivered == packet.at[1] = "host" => packet.at[2] = DestOf(packet.vlan)

\* A packet crosses the core switch that the arbiter charges for its path, and
\* the aggregate switch too: get_vlanid's tables and the controller's rules,
\* which nothing ties together in the code, agree.
ChargedWhereItGoes ==
    LET v == packet.vlan IN
    packet.at[1] = "switch" =>
        LET sw == packet.at[2] IN
        /\ Level(sw) = 1 => sw = CoreSwitch(PathOf(v))
        /\ Level(sw) = 2 => /\ (sw - 1) % 2 = AggOf(PathOf(v))
                            /\ switch_pod(sw) \in {PodOf(SrcOf(v)), PodOf(DestOf(v))}

\* Traffic between siblings stays below the aggregate switches, and traffic in
\* a pod below the core: the arbiter does not charge it there.
StaysBelow ==
    packet.at[1] = "switch" =>
        LET v == packet.vlan sw == packet.at[2] IN
        /\ are_sibblings(SrcOf(v), DestOf(v)) => Level(sw) = 3
        /\ in_same_pod(SrcOf(v), DestOf(v)) => Level(sw) # 1

\* While all tables are complete the rules have no gap, no loop and no way
\* back: a packet under way arrives, unless a switch loses its table first.
Complete  == \A sw \in Switch : upTo[sw] = Last
Delivered == packet.at[1] = "switch" /\ Complete
                 ~> packet.at[1] = "host" \/ ~ Complete
=============================================================================
