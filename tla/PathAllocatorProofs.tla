------------------------ MODULE PathAllocatorProofs ------------------------
(***************************************************************************)
(* PathAllocator for every Chunk, Cap, Port and Flow: its tables are       *)
(* exact, no part of the network is overcommitted, and every behaviour is  *)
(* one of SlotContract.                                                    *)
(***************************************************************************)
EXTENDS PathAllocator, FiniteSetTheorems, TLAPS

\* While the slot has no reply nothing is charged.
FreshTables ==
    reply = << >> => /\ tor_link_capacity = [h \in Host |-> 0]
                     /\ torswitch_port_capacity = [x \in TorRow \X Agg |-> 0]
                     /\ pod_vlanid = [x \in Pod \X Agg |-> 0]
                     /\ coreswitch_port_capacity = [k \in Path |-> 0]

\* The inductive invariant: capacity follows only because the counters are
\* related to the replies, so HostLinks, CorePaths and PodCounters go together.
AllocInv ==
    /\ AllocTypeOK
    /\ HostLinks
    /\ CorePaths
    /\ PodCounters
    /\ AggregateLoad
    /\ PodOvershoot
    /\ FreshTables

-----------------------------------------------------------------------------
(* How the load of a sequence of grants changes when a grant is appended,  *)
(* and how the loads of two sets of grants relate.                         *)

\* The grants of a sequence that lie in T are finitely many.
LEMMA CountFinite ==
    ASSUME NEW s \in Seq(Grant), NEW T
    PROVE  /\ IsFiniteSet({i \in DOMAIN s : s[i] \in T})
           /\ Count(s, T) \in Nat
<1>1. IsFiniteSet(1..Len(s)) /\ DOMAIN s = 1..Len(s)
  BY FS_Interval
<1>2. IsFiniteSet({i \in DOMAIN s : s[i] \in T})
  BY <1>1, FS_Subset
<1>. QED  BY <1>2, FS_CardinalityType DEF Count

\* A grant is counted once, by exactly the sets it lies in.
LEMMA CountAppend ==
    ASSUME NEW s \in Seq(Grant), NEW g \in Grant, NEW T
    PROVE  Count(Append(s, g), T) = Count(s, T) + (IF g \in T THEN 1 ELSE 0)
<1> DEFINE n == Len(s) + 1
           old == {i \in DOMAIN s : s[i] \in T}
           new == {i \in DOMAIN Append(s, g) : Append(s, g)[i] \in T}
<1>1. IsFiniteSet(old) /\ n \notin old
  BY CountFinite
<1>2. DOMAIN Append(s, g) = (DOMAIN s) \cup {n}
  OBVIOUS
<1>3. Append(s, g)[n] = g /\ \A i \in DOMAIN s : Append(s, g)[i] = s[i]
  OBVIOUS
<1>4. CASE g \in T
  <2>1. new = old \cup {n}
    BY <1>2, <1>3, <1>4
  <2>. QED  BY <1>1, <1>4, <2>1, FS_AddElement DEF Count
<1>5. CASE g \notin T
  <2>1. new = old
    BY <1>2, <1>3, <1>5
  <2>2. Count(Append(s, g), T) = Count(s, T)
    BY <2>1 DEF Count
  <2>3. Count(s, T) \in Nat
    BY CountFinite
  <2>. QED  BY <1>5, <2>2, <2>3
<1>. QED  BY <1>4, <1>5

\* Appending a grant loads the sets it lies in by one chunk.
LEMMA LoadAppend ==
    ASSUME NEW s \in Seq(Grant), NEW g \in Grant, NEW T
    PROVE  Load(Append(s, g), T) = Load(s, T) + (IF g \in T THEN Chunk ELSE 0)
<1>1. Count(s, T) \in Nat /\ Chunk \in Nat
  BY CountFinite, ChunkCapAssumption
<1>2. Chunk * (Count(s, T) + 1) = Chunk * Count(s, T) + Chunk
  BY <1>1
<1>. QED  BY <1>1, <1>2, CountAppend DEF Load

LEMMA LoadType ==
    ASSUME NEW s \in Seq(Grant), NEW T
    PROVE  Load(s, T) \in Nat
<1>1. Count(s, T) \in Nat /\ Chunk \in Nat
  BY CountFinite, ChunkCapAssumption
<1>. QED  BY <1>1 DEF Load

\* A new slot loads nothing.
LEMMA LoadEmpty ==
    ASSUME NEW T
    PROVE  Load(<< >>, T) = 0
<1>1. {i \in DOMAIN << >> : << >>[i] \in T} = {}
  OBVIOUS
<1>2. Count(<< >>, T) = 0
  BY <1>1, FS_EmptySet DEF Count
<1>. QED  BY <1>2, ChunkCapAssumption DEF Load

\* A part of the network carries no more than the whole it belongs to.
LEMMA LoadMonotone ==
    ASSUME NEW s \in Seq(Grant), NEW T, NEW U, T \subseteq U
    PROVE  Load(s, T) <= Load(s, U)
<1> DEFINE inT == {i \in DOMAIN s : s[i] \in T}
           inU == {i \in DOMAIN s : s[i] \in U}
<1>1. inT \subseteq inU /\ IsFiniteSet(inU)
  BY CountFinite
<1>2. Count(s, T) <= Count(s, U)
  BY <1>1, FS_Subset DEF Count
<1>3. Count(s, T) \in Nat /\ Count(s, U) \in Nat /\ Chunk \in Nat
  BY CountFinite, ChunkCapAssumption
<1>. QED  BY <1>2, <1>3 DEF Load

\* A whole carries no more than the sum of its parts.
LEMMA LoadUnion ==
    ASSUME NEW s \in Seq(Grant), NEW T, NEW U
    PROVE  Load(s, T \cup U) <= Load(s, T) + Load(s, U)
<1> DEFINE inT == {i \in DOMAIN s : s[i] \in T}
           inU == {i \in DOMAIN s : s[i] \in U}
           inTU == {i \in DOMAIN s : s[i] \in T \cup U}
<1>1. inTU = inT \cup inU /\ IsFiniteSet(inT) /\ IsFiniteSet(inU)
  BY CountFinite
<1>2. IsFiniteSet(inT \cap inU) /\ Cardinality(inT \cap inU) \in Nat
  BY <1>1, FS_Intersection, FS_CardinalityType
<1>3. Count(s, T \cup U) <= Count(s, T) + Count(s, U)
  <2>1. Cardinality(inTU)
          = Cardinality(inT) + Cardinality(inU) - Cardinality(inT \cap inU)
    BY <1>1, FS_Union
  <2>2. Cardinality(inT) \in Nat /\ Cardinality(inU) \in Nat
    BY <1>1, FS_CardinalityType
  <2>. QED  BY <1>2, <2>1, <2>2 DEF Count
<1>4. /\ Count(s, T \cup U) \in Nat
      /\ Count(s, T) \in Nat
      /\ Count(s, U) \in Nat
      /\ Chunk \in Nat
  BY CountFinite, ChunkCapAssumption
<1>5. Chunk * Count(s, T \cup U) <= Chunk * (Count(s, T) + Count(s, U))
  BY <1>3, <1>4
<1>6. Chunk * (Count(s, T) + Count(s, U))
        = Chunk * Count(s, T) + Chunk * Count(s, U)
  BY <1>4
<1>. QED  BY <1>4, <1>5, <1>6 DEF Load

-----------------------------------------------------------------------------
(* Arithmetic on hosts, pods and edge rows.                                *)

LEMMA PodType == \A h \in Host : PodOf(h) \in Pod
BY DEF Host, Pod, PodOf

LEMMA RowType == \A h \in Host : DestRow(h) \in TorRow /\ SrcRow(h) \in TorRow
BY DEF Host, TorRow, DestRow, SrcRow

LEMMA AggType == \A k \in Path : AggOf(k) \in Agg
BY DEF Path, Agg, AggOf

LEMMA FlowType ==
    ASSUME NEW f \in Flow
    PROVE  f[1] \in Host /\ f[2] \in Host /\ f[1] # f[2] /\ f = <<f[1], f[2]>>
BY FlowAssumption

\* The paths tried are paths, the first and the last of them too.
LEMMA TryType ==
    ASSUME AllocTypeOK, NEW f \in Flow, NEW i \in 0..3
    PROVE  Try(f[1], f[2], i) \in Path
<1>1. prev_vlanid[f] \in -1..3 /\ prev_vlanid[<<f[1], f[2]>>] = prev_vlanid[f]
  BY FlowType DEF AllocTypeOK
<1>2. NumPaths(f[1], f[2]) \in {2, 4}
  BY DEF NumPaths
<1>3. \A n \in -1..3 : (n + 1 + i) % 2 \in Path /\ (n + 1 + i) % 4 \in Path
  BY DEF Path
<1>. QED  BY <1>1, <1>2, <1>3 DEF Try

-----------------------------------------------------------------------------
\* Every state begins a slot with empty tables.
LEMMA InitAlloc == AllocInit => AllocInv
<1> SUFFICES ASSUME AllocInit PROVE AllocInv
  OBVIOUS
<1>1. AllocTypeOK
  BY DEF AllocInit, AllocTypeOK
<1>2. \A T : Load(reply, T) = 0
  BY LoadEmpty DEF AllocInit
<1>3. HostLinks /\ CorePaths /\ PodCounters /\ AggregateLoad
  BY <1>2, ChunkCapAssumption
     DEF AllocInit, HostLinks, CorePaths, PodCounters, AggregateLoad
<1>4. PodOvershoot /\ FreshTables
  BY ChunkCapAssumption DEF AllocInit, PodOvershoot, FreshTables
<1>. QED  BY <1>1, <1>3, <1>4 DEF AllocInv

\* Clearing the tables begins a slot like the first.
LEMMA ClearAlloc == AllocInv /\ ClearSlot => AllocInv'
<1> SUFFICES ASSUME AllocInv, ClearSlot PROVE AllocInv'
  OBVIOUS
<1>1. AllocTypeOK'
  BY DEF AllocInv, ClearSlot, AllocTypeOK
<1>2. \A T : Load(reply', T) = 0
  BY LoadEmpty DEF ClearSlot
<1>3. HostLinks' /\ CorePaths' /\ PodCounters' /\ AggregateLoad'
  BY <1>2, ChunkCapAssumption
     DEF ClearSlot, HostLinks, CorePaths, PodCounters, AggregateLoad
<1>4. PodOvershoot' /\ FreshTables'
  BY ChunkCapAssumption DEF ClearSlot, PodOvershoot, FreshTables
<1>. QED  BY <1>1, <1>3, <1>4 DEF AllocInv

-----------------------------------------------------------------------------
\* A grant charges its two links, each once, and both had room.
LEMMA ReplyAlloc ==
    ASSUME AllocInv, NEW f \in Flow, NEW port \in Port, NEW k \in Path,
           Reply(f[1], f[2], port, k)
    PROVE  LET g == [src |-> f[1], dest |-> f[2], path |-> k, port |-> port]
           IN  /\ g \in Grant
               /\ reply' = Append(reply, g)
               /\ reply' \in Seq(Grant)
               /\ reply' # << >>
               /\ tor_link_capacity' \in [Host -> Nat]
               /\ prev_vlanid' \in [Flow -> -1..3]
               /\ HostLinks'
<1> DEFINE g == [src |-> f[1], dest |-> f[2], path |-> k, port |-> port]
<1>1. f[1] \in Host /\ f[2] \in Host /\ f[1] # f[2]
  BY FlowType
<1>2. g \in Grant
  BY <1>1 DEF Grant
<1>3. reply \in Seq(Grant) /\ tor_link_capacity \in [Host -> Nat]
  BY DEF AllocInv, AllocTypeOK
<1>4. reply' = Append(reply, g)
  BY DEF Reply
<1>5. reply' \in Seq(Grant) /\ reply' # << >>
  BY <1>2, <1>3, <1>4
<1>6. tor_link_capacity' =
        [h \in Host |-> tor_link_capacity[h]
                          + (IF h = f[2] THEN Chunk ELSE 0)
                          + (IF h = f[1] THEN Chunk ELSE 0)]
  BY <1>3 DEF Reply, Charge
<1>7. tor_link_capacity' \in [Host -> Nat]
  BY <1>3, <1>6, ChunkCapAssumption
<1>8. prev_vlanid' \in [Flow -> -1..3]
  <2>1. k \in -1..3
    BY DEF Path
  <2>2. prev_vlanid \in [Flow -> -1..3]
    BY DEF AllocInv, AllocTypeOK
  <2>3. prev_vlanid' = [prev_vlanid EXCEPT ![<<f[1], f[2]>>] = k]
    BY DEF Reply
  <2>. QED  BY <2>1, <2>2, <2>3
<1>9. HostLinks'
  <2> SUFFICES ASSUME NEW h \in Host
               PROVE  /\ tor_link_capacity'[h] = Load(reply', Touching(h))
                      /\ tor_link_capacity'[h] <= Cap
    BY DEF HostLinks
  <2>1. tor_link_capacity[h] = Load(reply, Touching(h)) /\ tor_link_capacity[h] <= Cap
    BY DEF AllocInv, HostLinks
  <2>2. g \in Touching(h) <=> (h = f[1] \/ h = f[2])
    BY <1>2 DEF Touching
  <2>3. Load(reply', Touching(h))
          = Load(reply, Touching(h)) + (IF g \in Touching(h) THEN Chunk ELSE 0)
    BY <1>2, <1>3, <1>4, LoadAppend
  <2>4. tor_link_capacity[h] \in Nat /\ Chunk \in Nat
    BY <1>3, ChunkCapAssumption
  <2>5. tor_link_capacity'[h] = tor_link_capacity[h]
                                  + (IF h = f[1] \/ h = f[2] THEN Chunk ELSE 0)
    BY <1>1, <1>6, <2>4
  <2>6. h = f[1] \/ h = f[2] => tor_link_capacity[h] + Chunk <= Cap
    BY DEF Reply, LinksHaveRoom, HasTwoLeft
  <2>. QED  BY <2>1, <2>2, <2>3, <2>4, <2>5, <2>6
<1>. QED  BY <1>2, <1>4, <1>5, <1>7, <1>8, <1>9

\* A sibling grant lies in none of the routed sets, whose loads stay.
LEMMA SiblingAlloc ==
    ASSUME AllocInv, NEW f \in Flow, NEW port \in Port,
           GrantSibling(f[1], f[2], port)
    PROVE  AllocInv'
<1> DEFINE g == [src |-> f[1], dest |-> f[2], path |-> 0, port |-> port]
<1>1. Reply(f[1], f[2], port, 0) /\ 0 \in Path
  BY DEF GrantSibling, Path
<1>2. /\ g \in Grant
      /\ reply \in Seq(Grant)
      /\ reply' = Append(reply, g)
      /\ reply' \in Seq(Grant)
      /\ reply' # << >>
      /\ tor_link_capacity' \in [Host -> Nat]
      /\ prev_vlanid' \in [Flow -> -1..3]
      /\ HostLinks'
  BY <1>1, ReplyAlloc DEF AllocInv, AllocTypeOK
<1>3. UNCHANGED <<torswitch_port_capacity, pod_vlanid, coreswitch_port_capacity>>
  BY DEF GrantSibling
<1>4. g \notin Routed
  BY DEF GrantSibling, Routed
<1>5. ASSUME NEW T, T \subseteq Routed
      PROVE  Load(reply', T) = Load(reply, T)
  <2>1. Load(reply', T) = Load(reply, T) + (IF g \in T THEN Chunk ELSE 0)
    BY <1>2, LoadAppend
  <2>2. Load(reply, T) \in Nat
    BY <1>2, LoadType
  <2>. QED  BY <1>4, <1>5, <2>1, <2>2
<1>6. /\ \A k \in Path : Crossing(k) \subseteq Routed
      /\ \A p \in Pod, a \in Agg : /\ Via(p, a) \subseteq Routed
                                   /\ Inside(p, a) \subseteq Routed
  BY DEF Crossing, Via, Inside, Through
<1>7. AllocTypeOK'
  BY <1>2, <1>3 DEF AllocInv, AllocTypeOK
<1>8. CorePaths'
  BY <1>3, <1>5, <1>6 DEF AllocInv, CorePaths
<1>9. PodCounters' /\ AggregateLoad'
  BY <1>3, <1>5, <1>6 DEF AllocInv, PodCounters, AggregateLoad
<1>10. PodOvershoot'
  BY <1>3 DEF AllocInv, PodOvershoot
<1>11. FreshTables'
  BY <1>2 DEF FreshTables
<1>. QED  BY <1>2, <1>7, <1>8, <1>9, <1>10, <1>11 DEF AllocInv

\* A routed grant.  Its path had room at its core port and both aggregate
\* switches; a pair inside a pod is charged twice at one of them.
LEMMA RoutedAlloc ==
    ASSUME AllocInv, NEW f \in Flow, NEW port \in Port,
           GrantRouted(f[1], f[2], port)
    PROVE  AllocInv'
<1>1. PICK i \in 0..(NumPaths(f[1], f[2]) - 1) :
        LET k == Try(f[1], f[2], i) IN
        /\ PathHasRoom(f[1], f[2], k)
        /\ Reply(f[1], f[2], port, k)
        /\ ChargePath(f[1], f[2], k)
  BY DEF GrantRouted
<1> DEFINE k == Try(f[1], f[2], i)
           g == [src |-> f[1], dest |-> f[2], path |-> k, port |-> port]
           ps == PodOf(f[1])
           pd == PodOf(f[2])
           agg == AggOf(k)
<1>2. k \in Path
  <2>1. i \in 0..3
    BY DEF NumPaths
  <2>. QED  BY <2>1, TryType DEF AllocInv
<1>3. /\ PathHasRoom(f[1], f[2], k)
      /\ Reply(f[1], f[2], port, k)
      /\ ChargePath(f[1], f[2], k)
  BY <1>1
<1> HIDE DEF k
<1>4. /\ g \in Grant
      /\ reply \in Seq(Grant)
      /\ reply' = Append(reply, g)
      /\ reply' \in Seq(Grant)
      /\ reply' # << >>
      /\ tor_link_capacity' \in [Host -> Nat]
      /\ prev_vlanid' \in [Flow -> -1..3]
      /\ HostLinks'
  BY <1>2, <1>3, ReplyAlloc DEF AllocInv, AllocTypeOK
<1>5. /\ f[1] \in Host /\ f[2] \in Host
      /\ ps \in Pod /\ pd \in Pod /\ agg \in Agg
      /\ Chunk \in Nat \ {0} /\ Cap \in Nat
  BY <1>2, FlowType, PodType, AggType, ChunkCapAssumption
<1>6. ~ are_sibblings(f[1], f[2])
  BY DEF GrantRouted
<1>7. ASSUME NEW T
      PROVE  /\ Load(reply', T) = Load(reply, T) + (IF g \in T THEN Chunk ELSE 0)
             /\ Load(reply, T) \in Nat
  BY <1>4, LoadAppend, LoadType
<1>8. CorePaths' /\ coreswitch_port_capacity' \in [Path -> Nat]
  <2>1. coreswitch_port_capacity \in [Path -> Nat]
    BY DEF AllocInv, AllocTypeOK
  <2>2. coreswitch_port_capacity' =
          [x \in Path |-> coreswitch_port_capacity[x]
             + (IF x = k /\ ~ in_same_pod(f[1], f[2]) THEN Chunk ELSE 0)]
    <3>1. CASE in_same_pod(f[1], f[2])
      BY <1>3, <2>1, <3>1 DEF ChargePath
    <3>2. CASE ~ in_same_pod(f[1], f[2])
      BY <1>3, <2>1, <3>2 DEF ChargePath, ChargeOne
    <3>. QED  BY <3>1, <3>2
  <2>3. ASSUME NEW x \in Path
        PROVE  /\ coreswitch_port_capacity'[x] = Load(reply', Crossing(x))
               /\ coreswitch_port_capacity'[x] <= Cap
    <3>1. g \in Crossing(x) <=> (x = k /\ ~ in_same_pod(f[1], f[2]))
      BY <1>4, <1>6 DEF Crossing, Routed
    <3>2. /\ coreswitch_port_capacity[x] = Load(reply, Crossing(x))
          /\ coreswitch_port_capacity[x] <= Cap
      BY DEF AllocInv, CorePaths
    <3>3. x = k /\ ~ in_same_pod(f[1], f[2])
            => coreswitch_port_capacity[x] + Chunk <= Cap
      BY <1>3 DEF PathHasRoom
    <3>. QED  BY <1>5, <1>7, <2>1, <2>2, <3>1, <3>2, <3>3
  <2>4. coreswitch_port_capacity' \in [Path -> Nat]
    BY <1>5, <2>1, <2>2
  <2>. QED  BY <2>3, <2>4 DEF CorePaths
<1>9. /\ pod_vlanid \in [Pod \X Agg -> Nat]
      /\ pod_vlanid' =
           [x \in Pod \X Agg |-> pod_vlanid[x] + (IF x = <<ps, agg>> THEN Chunk ELSE 0)
                                               + (IF x = <<pd, agg>> THEN Chunk ELSE 0)]
      /\ pod_vlanid' \in [Pod \X Agg -> Nat]
  <2>1. pod_vlanid \in [Pod \X Agg -> Nat]
    BY DEF AllocInv, AllocTypeOK
  <2>2. pod_vlanid' =
           [x \in Pod \X Agg |-> pod_vlanid[x] + (IF x = <<ps, agg>> THEN Chunk ELSE 0)
                                               + (IF x = <<pd, agg>> THEN Chunk ELSE 0)]
    BY <1>3, <2>1 DEF ChargePath, Charge
  <2>. QED  BY <1>5, <2>1, <2>2
<1>10. ASSUME NEW p \in Pod, NEW a \in Agg
       PROVE  /\ pod_vlanid'[<<p, a>>]
                   = Load(reply', Via(p, a)) + Load(reply', Inside(p, a))
              /\ Load(reply', Via(p, a)) <= Cap
              /\ pod_vlanid'[<<p, a>>] <= Cap + Chunk
  <2> DEFINE here == a = agg
             out  == p = ps
             in   == p = pd
  <2>1. g \in Via(p, a) <=> here /\ (out \/ in)
    BY <1>4, <1>6 DEF Via, Through, Routed
  <2>2. g \in Inside(p, a) <=> here /\ out /\ in
    BY <2>1 DEF Inside, in_same_pod
  <2>3. /\ pod_vlanid[<<p, a>>]
             = Load(reply, Via(p, a)) + Load(reply, Inside(p, a))
        /\ pod_vlanid[<<p, a>>] <= Cap + Chunk
        /\ Load(reply, Via(p, a)) <= Cap
        /\ pod_vlanid[<<p, a>>] \in Nat
    BY <1>9 DEF AllocInv, PodCounters, PodOvershoot, AggregateLoad
  <2>4. pod_vlanid'[<<p, a>>] = pod_vlanid[<<p, a>>]
                                  + (IF here /\ out THEN Chunk ELSE 0)
                                  + (IF here /\ in THEN Chunk ELSE 0)
    BY <1>9
  <2>5. here /\ (out \/ in) => pod_vlanid[<<p, a>>] + Chunk <= Cap
    BY <1>3 DEF PathHasRoom, HasTwoLeft
  <2>6. /\ Load(reply', Via(p, a))
             = Load(reply, Via(p, a)) + (IF here /\ (out \/ in) THEN Chunk ELSE 0)
        /\ Load(reply', Inside(p, a))
             = Load(reply, Inside(p, a)) + (IF here /\ out /\ in THEN Chunk ELSE 0)
        /\ Load(reply, Via(p, a)) \in Nat
        /\ Load(reply, Inside(p, a)) \in Nat
    BY <1>7, <2>1, <2>2
  <2> HIDE DEF here, out, in
  <2>7. pod_vlanid'[<<p, a>>]
          = Load(reply', Via(p, a)) + Load(reply', Inside(p, a))
    BY <1>5, <2>3, <2>4, <2>6
  <2>8. Load(reply', Via(p, a)) <= Cap
    BY <1>5, <2>3, <2>5, <2>6
  <2>9. pod_vlanid'[<<p, a>>] <= Cap + Chunk
    BY <1>5, <2>3, <2>4, <2>5
  <2>. QED  BY <2>7, <2>8, <2>9
<1>11. PodCounters' /\ AggregateLoad' /\ PodOvershoot'
  <2>1. \A x \in Pod \X Agg : \E p \in Pod, a \in Agg : x = <<p, a>>
    OBVIOUS
  <2>2. PodOvershoot'
    BY <1>10, <2>1 DEF PodOvershoot
  <2>. QED  BY <1>10, <2>2 DEF PodCounters, AggregateLoad
<1>12. torswitch_port_capacity' \in [TorRow \X Agg -> Nat]
  <2>1. torswitch_port_capacity \in [TorRow \X Agg -> Nat]
    BY DEF AllocInv, AllocTypeOK
  <2>. QED  BY <1>3, <1>5, <2>1 DEF ChargePath, Charge
<1>13. AllocTypeOK'
  BY <1>4, <1>8, <1>9, <1>12 DEF AllocTypeOK
<1>14. FreshTables'
  BY <1>4 DEF FreshTables
<1>. QED  BY <1>4, <1>8, <1>11, <1>13, <1>14 DEF AllocInv

-----------------------------------------------------------------------------
\* Siblings are in one pod: the table of edge switches agrees with the pods.
LEMMA SiblingsSharePod ==
    ASSUME NEW h \in Host, NEW j \in Host, are_sibblings(h, j)
    PROVE  PodOf(h) = PodOf(j)
<1>1. ASSUME NEW i \in Host
      PROVE  host_to_switch[i] \in Int /\ PodOf(i) = (host_to_switch[i] - 7) \div 4
  <2>1. CASE i \in 1..4
    BY <2>1 DEF host_to_switch, PodOf
  <2>2. CASE i \in 5..8
    BY <2>2 DEF host_to_switch, PodOf
  <2>3. CASE i \in 9..12
    BY <2>3 DEF host_to_switch, PodOf
  <2>4. CASE i \in 13..16
    BY <2>4 DEF host_to_switch, PodOf
  <2>. QED  BY <2>1, <2>2, <2>3, <2>4 DEF Host
<1>. QED  BY <1>1 DEF are_sibblings

\* An uplink is part of the aggregate switch it leads to.
LEMMA UplinkFromAggregate ==
    ASSUME AllocInv
    PROVE  UplinkLoad
<1> SUFFICES ASSUME NEW h \in Host, NEW a \in Agg
             PROVE  Load(reply, Uplink(h, a)) <= Cap
  BY DEF UplinkLoad
<1>1. Uplink(h, a) \subseteq Via(PodOf(h), a)
  BY SiblingsSharePod DEF Uplink, Via, Through, Routed, Grant
<1>2. reply \in Seq(Grant) /\ PodOf(h) \in Pod
  BY PodType DEF AllocInv, AllocTypeOK
<1>3. Load(reply, Uplink(h, a)) <= Load(reply, Via(PodOf(h), a))
  BY <1>1, <1>2, LoadMonotone
<1>4. Load(reply, Via(PodOf(h), a)) <= Cap
  BY <1>2 DEF AllocInv, AggregateLoad
<1>. QED  BY <1>2, <1>3, <1>4, LoadType, ChunkCapAssumption

\* Every routed grant of a pod goes through one of its two aggregate switches.
LEMMA PodFromAggregates ==
    ASSUME AllocInv
    PROVE  PodLoad
<1> SUFFICES ASSUME NEW p \in Pod
             PROVE  Load(reply, Through(p)) <= 2 * Cap
  BY DEF PodLoad
<1>1. \A g \in Grant : AggOf(g.path) = 0 \/ AggOf(g.path) = 1
  BY AggType DEF Grant, Agg
<1>2. Through(p) = Via(p, 0) \cup Via(p, 1)
  BY <1>1 DEF Via, Through, Routed
<1>3. reply \in Seq(Grant)
  BY DEF AllocInv, AllocTypeOK
<1>4. Load(reply, Through(p)) <= Load(reply, Via(p, 0)) + Load(reply, Via(p, 1))
  BY <1>2, <1>3, LoadUnion
<1>5. Load(reply, Via(p, 0)) <= Cap /\ Load(reply, Via(p, 1)) <= Cap
  BY DEF AllocInv, AggregateLoad, Agg
<1>. QED  BY <1>3, <1>4, <1>5, LoadType, ChunkCapAssumption

\* With empty tables the first path tried has room.
LEMMA FreshFromTables ==
    ASSUME AllocInv
    PROVE  FreshSlotServes
<1> SUFFICES ASSUME reply = << >>, NEW f \in Flow
             PROVE  ~ Refused(f[1], f[2])
  BY DEF FreshSlotServes
<1>1. /\ tor_link_capacity = [h \in Host |-> 0]
      /\ torswitch_port_capacity = [x \in TorRow \X Agg |-> 0]
      /\ pod_vlanid = [x \in Pod \X Agg |-> 0]
      /\ coreswitch_port_capacity = [k \in Path |-> 0]
  BY DEF AllocInv, FreshTables
<1>2. f[1] \in Host /\ f[2] \in Host /\ 0 + Chunk <= Cap
  BY FlowType, ChunkCapAssumption
<1>3. LinksHaveRoom(f[1], f[2])
  BY <1>1, <1>2 DEF LinksHaveRoom, HasTwoLeft
<1> DEFINE k == Try(f[1], f[2], 0)
<1>4. k \in Path
  BY TryType DEF AllocInv
<1> HIDE DEF k
<1>5. AggOf(k) \in Agg /\ PodOf(f[1]) \in Pod /\ PodOf(f[2]) \in Pod
  BY <1>2, <1>4, AggType, PodType
<1>6. SrcRow(f[1]) \in TorRow /\ DestRow(f[2]) \in TorRow
  BY <1>2, RowType
<1>7. PathHasRoom(f[1], f[2], k)
  BY <1>1, <1>2, <1>4, <1>5, <1>6 DEF PathHasRoom, HasTwoLeft
<1>8. ~ NoPath(f[1], f[2])
  <2>1. 0 \in 0..(NumPaths(f[1], f[2]) - 1)
    BY DEF NumPaths
  <2>. QED  BY <1>7, <2>1 DEF NoPath, NoRoomInFirst, k
<1>. QED  BY <1>3, <1>8 DEF Refused

-----------------------------------------------------------------------------
\* Every step of the allocator keeps the invariant.
LEMMA NextAlloc == AllocInv /\ [AllocNext]_allocVars => AllocInv'
<1> SUFFICES ASSUME AllocInv, [AllocNext]_allocVars PROVE AllocInv'
  OBVIOUS
<1>1. CASE ClearSlot
  BY <1>1, ClearAlloc
<1>2. ASSUME NEW f \in Flow, NEW port \in Port, GrantChunk(f[1], f[2], port)
      PROVE  AllocInv'
  BY <1>2, SiblingAlloc, RoutedAlloc DEF GrantChunk
<1>3. CASE UNCHANGED allocVars
  BY <1>3 DEF allocVars, tables, AllocInv, AllocTypeOK, HostLinks, CorePaths,
              PodCounters, AggregateLoad, PodOvershoot, FreshTables
<1>. QED  BY <1>1, <1>2, <1>3 DEF AllocNext

\* Clearing the tables and every grant of find_path keep all parts of AllocInv.
THEOREM AllocInvariant == AllocSpec => []AllocInv
<1>. QED  BY InitAlloc, NextAlloc, PTL DEF AllocSpec

\* The tables keep their types and are exact: each counter of a host link, of
\* a core path and of a pod equals the load of the slot's replies.
THEOREM TablesExact ==
    AllocSpec => [](AllocTypeOK /\ HostLinks /\ CorePaths /\ PodCounters)
<1>1. AllocInv => AllocTypeOK /\ HostLinks /\ CorePaths /\ PodCounters
  BY DEF AllocInv
<1>. QED  BY <1>1, AllocInvariant, PTL

\* process_demands and find_path never take the tables, prev_vlanid or the
\* replies out of their ranges, whatever is asked for.
THEOREM AllocTypes == AllocSpec => []AllocTypeOK
<1>. QED  BY TablesExact, PTL

\* No aggregate switch, uplink or pod carries more than README.txt allows, and
\* a pod counter passes the capacity by at most one chunk.
THEOREM NothingOvercommitted ==
    AllocSpec => [](AggregateLoad /\ UplinkLoad /\ PodLoad /\ PodOvershoot)
<1>1. AllocInv => AggregateLoad /\ UplinkLoad /\ PodLoad /\ PodOvershoot
  BY UplinkFromAggregate, PodFromAggregates DEF AllocInv
<1>. QED  BY <1>1, AllocInvariant, PTL

\* The core counter of every path is the load that crosses it, within its
\* capacity: what find_path refuses and grants it decides on true numbers.
THEOREM CorePathsHold == AllocSpec => []CorePaths
<1>. QED  BY TablesExact, PTL

\* A pod counter is the load through its aggregate switch, with the pairs inside
\* the pod counted twice, whatever was granted before (get_vlanid, lines 95-96).
THEOREM PodCountersHold == AllocSpec => []PodCounters
<1>. QED  BY TablesExact, PTL

\* No edge uplink is overcommitted, although get_vlanid indexes the table of the
\* uplinks with the wrong rows and charges the wrong column: what keeps them is
\* the check of the aggregate switch they lead to (UplinkFromAggregate).
THEOREM UplinksHold == AllocSpec => []UplinkLoad
<1>. QED  BY NothingOvercommitted, PTL

\* The double charge of a pair inside a pod never takes a pod counter further
\* than one chunk past the capacity.
THEOREM OvershootBounded == AllocSpec => []PodOvershoot
<1>. QED  BY NothingOvercommitted, PTL

\* The first demand of every slot is served.
THEOREM FreshSlot == AllocSpec => []FreshSlotServes
<1>. QED  BY FreshFromTables, AllocInvariant, PTL

-----------------------------------------------------------------------------
(* The number of replies, from the sum of the links that they charge.      *)

\* No slot has more replies than the links of sixteen hosts allow, two links a
\* reply.  Nothing in find_path tests reply_index against the 240 entries of
\* reply: with chunks of 50 and links of 200 the bound is 32.
RepliesFit == Chunk * Len(reply) <= 8 * Cap

FourLinks(c, h) == c[h] + c[h + 1] + c[h + 2] + c[h + 3]
LinkTotal(c) == FourLinks(c, 1) + FourLinks(c, 5) + FourLinks(c, 9) + FourLinks(c, 13)

\* A chunk that is added at one host is added once to the four it belongs to.
LEMMA FourLinksCharged ==
    ASSUME NEW c \in [Host -> Nat], NEW d \in [Host -> Nat], NEW x \in Host,
           \A h \in Host : d[h] = c[h] + (IF h = x THEN Chunk ELSE 0),
           NEW n \in {1, 5, 9, 13}
    PROVE  /\ FourLinks(d, n) = FourLinks(c, n) + (IF x \in n..(n + 3) THEN Chunk ELSE 0)
           /\ FourLinks(c, n) \in Nat
<1>1. Chunk \in Nat
  BY ChunkCapAssumption
<1>2. n \in Host /\ n + 1 \in Host /\ n + 2 \in Host /\ n + 3 \in Host
  BY DEF Host
<1>3. \A h \in Host : c[h] \in Nat
  OBVIOUS
<1>4. x \in Int /\ n \in Int
  BY DEF Host
<1>5. /\ d[n] = c[n] + (IF n = x THEN Chunk ELSE 0)
      /\ d[n + 1] = c[n + 1] + (IF n + 1 = x THEN Chunk ELSE 0)
      /\ d[n + 2] = c[n + 2] + (IF n + 2 = x THEN Chunk ELSE 0)
      /\ d[n + 3] = c[n + 3] + (IF n + 3 = x THEN Chunk ELSE 0)
  BY <1>2
<1>6. c[n] \in Nat /\ c[n + 1] \in Nat /\ c[n + 2] \in Nat /\ c[n + 3] \in Nat
  BY <1>2, <1>3
<1>7. CASE x \in n..(n + 3)
  BY <1>1, <1>4, <1>5, <1>6, <1>7 DEF FourLinks
<1>8. CASE x \notin n..(n + 3)
  BY <1>1, <1>4, <1>5, <1>6, <1>8 DEF FourLinks
<1>. QED  BY <1>7, <1>8

LEMMA OneLinkCharged ==
    ASSUME NEW c \in [Host -> Nat], NEW d \in [Host -> Nat], NEW x \in Host,
           \A h \in Host : d[h] = c[h] + (IF h = x THEN Chunk ELSE 0)
    PROVE  LinkTotal(d) = LinkTotal(c) + Chunk
<1>1. Chunk \in Nat
  BY ChunkCapAssumption
<1>2. \A n \in {1, 5, 9, 13} :
        /\ FourLinks(d, n) = FourLinks(c, n) + (IF x \in n..(n + 3) THEN Chunk ELSE 0)
        /\ FourLinks(c, n) \in Nat
  BY FourLinksCharged
<1>3. x \in 1..16
  BY DEF Host
<1>. QED  BY <1>1, <1>2, <1>3 DEF LinkTotal

\* Every reply charges two links.
TwoLinksEach == LinkTotal(tor_link_capacity) = 2 * (Chunk * Len(reply))

\* A grant charges the link of its destination and then that of its source.
LEMMA GrantChargesTwo ==
    ASSUME AllocInv, TwoLinksEach, NEW f \in Flow, NEW port \in Port,
           GrantChunk(f[1], f[2], port)
    PROVE  TwoLinksEach'
<1>1. PICK k : Reply(f[1], f[2], port, k)
  BY DEF GrantChunk, GrantSibling, GrantRouted
<1>2. f[1] \in Host /\ f[2] \in Host
  BY FlowType
<1>3. /\ tor_link_capacity \in [Host -> Nat] /\ reply \in Seq(Grant)
      /\ Chunk \in Nat
  BY ChunkCapAssumption DEF AllocInv, AllocTypeOK
<1> DEFINE mid == [h \in Host |-> tor_link_capacity[h]
                                    + (IF h = f[2] THEN Chunk ELSE 0)]
           end == [h \in Host |-> mid[h] + (IF h = f[1] THEN Chunk ELSE 0)]
<1>4. mid \in [Host -> Nat] /\ end \in [Host -> Nat]
  BY <1>3
<1>5. tor_link_capacity' = end
  BY <1>1, <1>3 DEF Reply, Charge
<1>6. LinkTotal(mid) = LinkTotal(tor_link_capacity) + Chunk
  BY <1>2, <1>3, <1>4, OneLinkCharged
<1>7. LinkTotal(end) = LinkTotal(mid) + Chunk
  <2>1. \A h \in Host : end[h] = mid[h] + (IF h = f[1] THEN Chunk ELSE 0)
    OBVIOUS
  <2> HIDE DEF mid, end
  <2>. QED  BY <1>2, <1>4, <2>1, OneLinkCharged
<1> HIDE DEF mid, end
<1>8. Len(reply') = Len(reply) + 1 /\ Len(reply) \in Nat
  BY <1>1, <1>3 DEF Reply
<1>9. Chunk * Len(reply') = Chunk * Len(reply) + Chunk
  BY <1>3, <1>8
<1>10. Chunk * Len(reply) \in Nat
  BY <1>3, <1>8
<1>11. LinkTotal(tor_link_capacity') = LinkTotal(tor_link_capacity) + Chunk + Chunk
  BY <1>5, <1>6, <1>7
<1>12. LinkTotal(tor_link_capacity') = 2 * (Chunk * Len(reply)) + Chunk + Chunk
  BY <1>11 DEF TwoLinksEach
<1>. QED  BY <1>3, <1>9, <1>10, <1>12 DEF TwoLinksEach

\* Sixteen links within their capacity leave room for so many replies.
LEMMA RepliesFromLinks ==
    ASSUME AllocInv, TwoLinksEach
    PROVE  RepliesFit
<1>1. \A h \in 1..16 : tor_link_capacity[h] \in Nat /\ tor_link_capacity[h] <= Cap
  BY DEF AllocInv, AllocTypeOK, HostLinks, Host
<1>2. Cap \in Nat
  BY ChunkCapAssumption
<1>3. Chunk * Len(reply) \in Nat
  <2>1. Chunk \in Nat /\ Len(reply) \in Nat
    BY ChunkCapAssumption DEF AllocInv, AllocTypeOK
  <2>. QED  BY <2>1
<1>4. \A n \in {1, 5, 9, 13} : /\ FourLinks(tor_link_capacity, n) \in Nat
                               /\ FourLinks(tor_link_capacity, n) <= 4 * Cap
  <2> SUFFICES ASSUME NEW n \in {1, 5, 9, 13}
               PROVE  /\ FourLinks(tor_link_capacity, n) \in Nat
                      /\ FourLinks(tor_link_capacity, n) <= 4 * Cap
    OBVIOUS
  <2>1. n \in 1..16 /\ n + 1 \in 1..16 /\ n + 2 \in 1..16 /\ n + 3 \in 1..16
    OBVIOUS
  <2> DEFINE a == tor_link_capacity[n]
             b == tor_link_capacity[n + 1]
             c == tor_link_capacity[n + 2]
             d == tor_link_capacity[n + 3]
  <2>2. /\ a \in 0..Cap /\ b \in 0..Cap
        /\ c \in 0..Cap /\ d \in 0..Cap
    <3>1. \A h \in 1..16 : tor_link_capacity[h] \in 0..Cap
      BY <1>1, <1>2
    <3>. QED  BY <2>1, <3>1, Zenon
  <2> HIDE DEF a, b, c, d
  <2>3. a + b + c + d \in Nat /\ a + b + c + d <= 4 * Cap
    BY <1>2, <2>2
  <2>. QED  BY <2>3 DEF FourLinks, a, b, c, d
<1>5. LinkTotal(tor_link_capacity) <= 16 * Cap
  BY <1>2, <1>4 DEF LinkTotal
<1>. QED  BY <1>2, <1>3, <1>5 DEF TwoLinksEach, RepliesFit

\* The replies of a slot never fill the array that holds them.
THEOREM RepliesBounded == AllocSpec => []RepliesFit
<1>1. AllocInit => TwoLinksEach
  <2> SUFFICES ASSUME AllocInit PROVE TwoLinksEach
    OBVIOUS
  <2>1. \A h \in 1..16 : tor_link_capacity[h] = 0
    BY DEF AllocInit, Host
  <2>2. Len(reply) = 0 /\ Chunk * 0 = 0
    BY ChunkCapAssumption DEF AllocInit
  <2>. QED  BY <2>1, <2>2 DEF TwoLinksEach, LinkTotal, FourLinks
<1>2. AllocInv /\ TwoLinksEach /\ [AllocNext]_allocVars => TwoLinksEach'
  <2> SUFFICES ASSUME AllocInv, TwoLinksEach, [AllocNext]_allocVars
               PROVE  TwoLinksEach'
    OBVIOUS
  <2>1. CASE ClearSlot
    <3>1. \A h \in 1..16 : tor_link_capacity'[h] = 0
      BY <2>1 DEF ClearSlot, Host
    <3>2. Len(reply') = 0 /\ Chunk * 0 = 0
      BY <2>1, ChunkCapAssumption DEF ClearSlot
    <3>. QED  BY <3>1, <3>2 DEF TwoLinksEach, LinkTotal, FourLinks
  <2>2. ASSUME NEW f \in Flow, NEW port \in Port, GrantChunk(f[1], f[2], port)
        PROVE  TwoLinksEach'
    BY <2>2, GrantChargesTwo
  <2>3. CASE UNCHANGED allocVars
    BY <2>3 DEF allocVars, tables, TwoLinksEach, LinkTotal
  <2>. QED  BY <2>1, <2>2, <2>3 DEF AllocNext
<1>3. AllocInv /\ TwoLinksEach => RepliesFit
  BY RepliesFromLinks
<1>. QED  BY <1>1, <1>2, <1>3, AllocInvariant, PTL DEF AllocSpec

-----------------------------------------------------------------------------
\* The contract speaks of the same hosts, grants and loads.
LEMMA SameNetwork ==
    /\ Contract!Host = Host /\ Contract!Path = Path
    /\ Contract!Pod = Pod /\ Contract!Agg = Agg
    /\ Contract!Grant = Grant /\ Contract!Routed = Routed
<1>1. /\ Contract!Host = Host /\ Contract!Path = Path
      /\ Contract!Pod = Pod /\ Contract!Agg = Agg
  BY DEF Contract!Host, Host, Contract!Path, Path,
         Contract!Pod, Pod, Contract!Agg, Agg
<1>2. Contract!Grant = Grant
  BY <1>1 DEF Contract!Grant, Grant
<1>3. Contract!host_to_switch = host_to_switch
  BY DEF Contract!host_to_switch, host_to_switch
<1>4. Contract!Routed = Routed
  BY <1>2, <1>3 DEF Contract!Routed, Routed, Contract!are_sibblings, are_sibblings
<1>. QED  BY <1>1, <1>2, <1>4

LEMMA SameLoads ==
    /\ \A s, T : Contract!Load(s, T) = Load(s, T)
    /\ \A h : Contract!Touching(h) = Touching(h)
    /\ \A k : Contract!Crossing(k) = Crossing(k)
    /\ \A p : Contract!Through(p) = Through(p)
    /\ \A p, a : Contract!Via(p, a) = Via(p, a)
    /\ \A h, a : Contract!Uplink(h, a) = Uplink(h, a)
<1>1. \A s, T : Contract!Load(s, T) = Load(s, T)
  BY DEF Contract!Load, Load, Contract!Count, Count,
         Contract!Cardinality, Cardinality,
         Contract!IsFiniteSet, IsFiniteSet
<1>2. \A h : Contract!PodOf(h) = PodOf(h) /\ Contract!AggOf(h) = AggOf(h)
  BY DEF Contract!PodOf, PodOf, Contract!AggOf, AggOf
<1>3. \A h : Contract!Touching(h) = Touching(h)
  BY SameNetwork DEF Contract!Touching, Touching
<1>4. \A k : Contract!Crossing(k) = Crossing(k)
  BY SameNetwork, <1>2
     DEF Contract!Crossing, Crossing, Contract!in_same_pod, in_same_pod
<1>5. \A p : Contract!Through(p) = Through(p)
  BY SameNetwork, <1>2 DEF Contract!Through, Through
<1>6. \A p, a : Contract!Via(p, a) = Via(p, a)
  BY <1>2, <1>5 DEF Contract!Via, Via
<1>7. \A h, a : Contract!Uplink(h, a) = Uplink(h, a)
  BY SameNetwork, <1>2
     DEF Contract!Uplink, Uplink, Contract!are_sibblings, are_sibblings,
         Contract!host_to_switch, host_to_switch
<1>. QED  BY <1>1, <1>3, <1>4, <1>5, <1>6, <1>7

\* The replies of a state that satisfies the invariant are feasible.
LEMMA FeasibleReplies ==
    ASSUME AllocInv
    PROVE  Contract!Feasible(reply)
<1>1. \A h \in Host : Load(reply, Touching(h)) <= Cap
  BY DEF AllocInv, HostLinks
<1>2. \A k \in Path : Load(reply, Crossing(k)) <= Cap
  BY DEF AllocInv, CorePaths
<1>3. \A p \in Pod, a \in Agg : Load(reply, Via(p, a)) <= Cap
  BY DEF AllocInv, AggregateLoad
<1>4. \A h \in Host, a \in Agg : Load(reply, Uplink(h, a)) <= Cap
  BY UplinkFromAggregate DEF UplinkLoad
<1>5. \A p \in Pod : Load(reply, Through(p)) <= 2 * Cap
  BY PodFromAggregates DEF PodLoad
<1>. QED  BY <1>1, <1>2, <1>3, <1>4, <1>5, SameNetwork, SameLoads
          DEF Contract!Feasible

\* A step of the allocator begins a slot, appends one grant or changes no reply.
LEMMA ReplySteps ==
    ASSUME AllocInv, [AllocNext]_allocVars
    PROVE  [Contract!NewSlot \/ \E g \in Grant : reply' = Append(reply, g)]_reply
<1>1. CASE ClearSlot
  BY <1>1 DEF ClearSlot, Contract!NewSlot
<1>2. ASSUME NEW f \in Flow, NEW port \in Port, GrantSibling(f[1], f[2], port)
      PROVE  \E g \in Grant : reply' = Append(reply, g)
  <2>1. Reply(f[1], f[2], port, 0) /\ 0 \in Path
    BY <1>2 DEF GrantSibling, Path
  <2>. QED  BY <2>1, ReplyAlloc
<1>3. ASSUME NEW f \in Flow, NEW port \in Port, GrantRouted(f[1], f[2], port)
      PROVE  \E g \in Grant : reply' = Append(reply, g)
  <2>1. PICK i \in 0..(NumPaths(f[1], f[2]) - 1) :
          Reply(f[1], f[2], port, Try(f[1], f[2], i))
    BY <1>3 DEF GrantRouted
  <2>2. i \in 0..3
    BY DEF NumPaths
  <2>3. Try(f[1], f[2], i) \in Path
    BY <2>2, TryType DEF AllocInv
  <2>. QED  BY <2>1, <2>3, ReplyAlloc
<1>4. CASE UNCHANGED allocVars
  BY <1>4 DEF allocVars
<1>. QED  BY <1>1, <1>2, <1>3, <1>4 DEF AllocNext, GrantChunk

\* Whatever the flows, every behaviour of the allocator fulfils the contract:
\* it starts with an empty slot and every grant leaves the slot feasible.
THEOREM AllocFulfilsContract == AllocSpec => ContractSpec
<1>1. AllocInit => Contract!Init
  BY DEF AllocInit, Contract!Init
<1>2. AllocInv => Contract!Feasible(reply)
  BY FeasibleReplies
<1>3. AllocInv /\ Contract!Feasible(reply)' /\ [AllocNext]_allocVars
        => [Contract!Next]_reply
  <2> SUFFICES ASSUME AllocInv, Contract!Feasible(reply)', [AllocNext]_allocVars
               PROVE  [Contract!Next]_reply
    OBVIOUS
  <2>1. [Contract!NewSlot \/ \E g \in Grant : reply' = Append(reply, g)]_reply
    BY ReplySteps
  <2>. QED  BY <2>1, SameNetwork DEF Contract!Next, Contract!Allocate
<1>. QED  BY <1>1, <1>2, <1>3, AllocInvariant, PTL
          DEF AllocSpec, ContractSpec, Contract!Spec
=============================================================================
