--------------------------- MODULE ArbiterProofs ---------------------------
(***************************************************************************)
(* The arbiter for every set of clients and all their traffic: the request *)
(* arrays hold what was stored and nothing behind it, whatever             *)
(* process_demands reads without a lock, and the whole arbiter allocates   *)
(* as PathAllocator does.                                                  *)
(***************************************************************************)
EXTENDS Arbiter, PathAllocatorProofs, FiniteSetTheorems

\* What a client sends, and what a slot of an array can hold: a demand of a
\* flow that is served, or nothing to serve.
Demand == {e \in Entry : <<e.src, e.dest>> \in Flow}
Item   == {e \in Entry : e.flow = 0 \/ <<e.src, e.dest>> \in Flow}

\* The demands, by client and number: all, and those still on their way to an
\* array.
AllDemands == {x \in Client \X (0..ReqSize) : x[2] \in DOMAIN Traffic[x[1]]}
Unstored(h) ==
    Len(inbox[h]) + (IF gpc[h] \in {"lock", "port"} THEN 1 ELSE 0)
OnTheWay == {x \in AllDemands : x[2] > Len(Traffic[x[1]]) - Unstored(x[1])}

QueueTypes ==
    /\ inbox \in [Client -> Seq(Demand)]
    /\ gpc \in [Client -> {"read", "lock", "port", "signal"}]
    /\ demand \in [Client -> Item]
    /\ request \in [Class -> [Slot -> Item]]
    /\ len \in [Class -> Nat]
    /\ lock \in [Class -> Client \cup {0}]

ServerTypes ==
    /\ ppc \in {"top", "check", "wait", "asleep", "load", "visit", "find",
                "remove", "send"}
    /\ cls \in Class
    /\ i \in Slot /\ req_len \in Slot
    /\ cur \in Item
    /\ sent \in Nat
    /\ outbox \in [Client -> Seq(Grant)]

\* The arrays never hold more than was sent: this keeps len within them.
DemandsCounted ==
    /\ \A h \in Client : Unstored(h) <= Len(Traffic[h])
    /\ len[5] + len[6] + len[7] + Cardinality(OnTheWay) <= Cardinality(AllDemands)

\* A store has the lock of its class, and has not written the port yet.
StoreLocked ==
    /\ \A h \in Client : gpc[h] \in {"lock", "port"} => ClassOf(demand[h].port) \in Class
    /\ \A h \in Client, c \in Class :
         Storing(h, c) => lock[c] = h /\ request[c][len[c]].port = 0

\* While find_path works, its request is in the array, or in the slot that a
\* store is writing, and it is one of a flow.
ServesStored ==
    ppc \in {"find", "remove"} =>
        /\ i < req_len
        /\ i < len[cls] \/ (i = len[cls] /\ \E h \in Client : Storing(h, cls))
        /\ <<cur.src, cur.dest>> \in Flow

QueueInv ==
    /\ QueueTypes
    /\ ServerTypes
    /\ DemandsCounted
    /\ StoreLocked
    /\ StaleSlotsEmpty
    /\ ServesStored
    /\ FindsItsRequest

ArbInv == AllocInv /\ QueueInv

-----------------------------------------------------------------------------
(* Counting demands.                                                       *)

LEMMA DemandsFinite ==
    /\ IsFiniteSet(AllDemands) /\ Cardinality(AllDemands) \in Nat
    /\ Cardinality(AllDemands) < ReqSize
<1>1. IsFiniteSet(Host)
  <2>1. 1 \in Int /\ 16 \in Int
    OBVIOUS
  <2>2. IsFiniteSet(1..16)
    BY <2>1, FS_Interval, Zenon
  <2>. QED  BY <2>2 DEF Host
<1>2. IsFiniteSet(Client)
  BY <1>1, FS_Subset, TrafficAssumption
<1>3. IsFiniteSet(0..ReqSize)
  BY FS_Interval, TrafficAssumption
<1>4. IsFiniteSet(Client \X (0..ReqSize))
  BY <1>2, <1>3, FS_Product
<1>5. IsFiniteSet(AllDemands)
  BY <1>4, FS_Subset DEF AllDemands
<1>. QED  BY <1>5, FS_CardinalityType, TrafficAssumption DEF AllDemands

LEMMA SizeType == ReqSize \in Nat /\ ReqSize > 0 /\ 0 \in Slot
BY DemandsFinite, TrafficAssumption DEF Slot

LEMMA OnTheWayFinite == IsFiniteSet(OnTheWay) /\ Cardinality(OnTheWay) \in Nat
<1>1. OnTheWay \in SUBSET AllDemands
  BY DEF OnTheWay
<1>. QED  BY <1>1, DemandsFinite, FS_Subset, FS_CardinalityType

\* No array is ever full.
LEMMA LenInSlot ==
    ASSUME QueueTypes, DemandsCounted
    PROVE  \A c \in Class : len[c] \in Slot
<1>1. len[5] \in Nat /\ len[6] \in Nat /\ len[7] \in Nat
  BY DEF QueueTypes, Class
<1>2. /\ len[5] + len[6] + len[7] + Cardinality(OnTheWay) < ReqSize
      /\ Cardinality(OnTheWay) \in Nat /\ ReqSize \in Nat
  BY <1>1, DemandsFinite, OnTheWayFinite, SizeType DEF DemandsCounted
<1>. QED  BY <1>1, <1>2 DEF Class, Slot

LEMMA TrafficType ==
    /\ Traffic \in [Client -> Seq(Demand)] /\ Client \subseteq Host
    /\ \A h \in Client : Len(Traffic[h]) \in Nat /\ DOMAIN Traffic[h] = 1..Len(Traffic[h])
                         /\ Len(Traffic[h]) < ReqSize
<1>1. ASSUME NEW h \in Client
      PROVE  Traffic[h] \in Seq(Demand) /\ Len(Traffic[h]) \in Nat
             /\ DOMAIN Traffic[h] = 1..Len(Traffic[h])
  <2>1. Traffic[h] \in Seq(Entry)
    BY TrafficAssumption
  <2>2. \A n \in 1..Len(Traffic[h]) : Traffic[h][n] \in Demand
    BY <2>1, TrafficAssumption DEF Demand
  <2>. QED  BY <2>1, <2>2
<1>. QED  BY <1>1, TrafficAssumption

LEMMA EmptyType == Empty \in Item /\ Empty.port = 0 /\ Empty.flow = 0
BY TrafficAssumption DEF Empty, Item, Entry

LEMMA ItemType ==
    /\ Demand \subseteq Item /\ Item \subseteq Entry
    /\ \A d \in Item : d.flow \in Nat /\ d.port \in Port
    /\ \A d \in Item, p \in Port : [d EXCEPT !.port = p] \in Item
    /\ \A d \in Item, n \in Nat : d.flow > 0 => [d EXCEPT !.flow = n] \in Item
    /\ \A d \in Item : d.flow > 0 => <<d.src, d.dest>> \in Flow
BY DEF Demand, Item, Entry

-----------------------------------------------------------------------------
(* Sorting and removing.                                                   *)

\* Sorting moves items below n and leaves the others where they are.
LEMMA SortedItems ==
    ASSUME NEW a \in [Slot -> Item], NEW n \in Slot, NEW b \in Sorted(a, n)
    PROVE  /\ b \in [Slot -> Item]
           /\ \A s \in Slot : s >= n => b[s] = a[s]
<1>1. PICK p \in [0..(n - 1) -> 0..(n - 1)] :
        b = [s \in DOMAIN a |-> IF s < n THEN a[p[s]] ELSE a[s]]
  BY DEF Sorted
<1>2. n \in Nat /\ 0..(n - 1) \subseteq Slot /\ Slot \subseteq Nat
  BY SizeType DEF Slot
<1>3. \A s \in Slot : s < n => s \in 0..(n - 1)
  BY <1>2
<1>. QED  BY <1>1, <1>2, <1>3

\* Removing slot s copies slot n, the one past the end, into slot n - 1.
LEMMA ShiftItems ==
    ASSUME NEW a \in [Slot -> Item], NEW n \in Slot, NEW s \in 0..(n - 1)
    PROVE  /\ Shift(a, s, n) \in [Slot -> Item]
           /\ \A t \in Slot : t >= n - 1 =>
                Shift(a, s, n)[t] = IF t = n - 1 THEN a[n] ELSE a[t]
<1>1. n \in Nat /\ \A t \in Slot : t \in Nat /\ (t < n => t + 1 \in Slot)
  BY SizeType DEF Slot
<1>. QED  BY <1>1 DEF Shift

-----------------------------------------------------------------------------
(* Every step of the arbiter is one of the allocator, or none.             *)

LEMMA StepAllocates ==
    ASSUME ArbInv, [Next]_vars
    PROVE  [AllocNext]_allocVars
<1>1. CASE FindPath
  <2>1. <<cur.src, cur.dest>> \in Flow /\ cur.port \in Port
    BY <1>1, ItemType DEF FindPath, ArbInv, QueueInv, ServesStored, ServerTypes
  <2>2. \E f \in Flow, port \in Port : GrantChunk(f[1], f[2], port)
    <3>1. GrantChunk(<<cur.src, cur.dest>>[1], <<cur.src, cur.dest>>[2], cur.port)
      BY <1>1 DEF FindPath
    <3>. QED  BY <2>1, <3>1
  <2>. QED  BY <2>2 DEF AllocNext
<1>2. CASE NewSlot
  BY <1>2 DEF NewSlot, AllocNext
<1>3. CASE \E h \in Client : Receive(h)
  BY <1>3 DEF Receive, ReadDemand, BeginStore, EndStore, Signal
<1>4. CASE CheckQueues \/ Wait \/ LoadClass \/ Visit \/ PassOver \/ GiveUp \/ Remove
             \/ EndClass \/ SendReply \/ EndSlot \/ SpuriousWake
  BY <1>4 DEF CheckQueues, Wait, LoadClass, Visit, PassOver, GiveUp, Remove,
              EndClass, SendReply, EndSlot, SpuriousWake
<1>5. CASE UNCHANGED vars
  BY <1>5 DEF vars
<1>. QED  BY <1>1, <1>2, <1>3, <1>4, <1>5 DEF Next, Serve

-----------------------------------------------------------------------------
(* The receive threads.                                                    *)

\* What a thread has stored or read is no longer on its way.
LEMMA FewerOnTheWay ==
    ASSUME QueueTypes, QueueTypes', DemandsCounted, UNCHANGED len,
           \A h \in Client : Unstored(h)' <= Unstored(h)
    PROVE  DemandsCounted'
<1>1. \A h \in Client : Unstored(h) \in Nat /\ Unstored(h)' \in Nat
  BY DEF QueueTypes, Unstored
<1>2. \A x \in AllDemands : x[1] \in Client /\ x[2] \in Nat /\ Len(Traffic[x[1]]) \in Nat
  BY TrafficType, SizeType DEF AllDemands
<1>3. OnTheWay' \in SUBSET OnTheWay
  BY <1>1, <1>2 DEF OnTheWay, AllDemands
<1>4. /\ Cardinality(OnTheWay)' <= Cardinality(OnTheWay)
      /\ Cardinality(OnTheWay) \in Nat /\ Cardinality(OnTheWay)' \in Nat
  BY <1>3, OnTheWayFinite, FS_Subset, FS_CardinalityType
<1>5. len[5] \in Nat /\ len[6] \in Nat /\ len[7] \in Nat /\ Cardinality(AllDemands) \in Nat
  BY DemandsFinite DEF QueueTypes, Class
<1>6. \A h \in Client : Unstored(h)' <= Len(Traffic[h])
  BY <1>1, TrafficType DEF DemandsCounted
<1>7. UNCHANGED Cardinality(AllDemands)
  BY DEF AllDemands
<1>. QED  BY <1>4, <1>5, <1>6, <1>7 DEF DemandsCounted

\* What find_path works on stays as it is when no request, no lock that a store
\* holds and nothing of process_demands changes.
LEMMA ServiceUntouched ==
    ASSUME QueueInv, UNCHANGED <<request, len>>, UNCHANGED <<i, req_len, cur>>,
           ppc' \in {"find", "remove"} => UNCHANGED <<ppc, cls>>,
           \A x \in Client, c \in Class : Storing(x, c)' = Storing(x, c)
    PROVE  ServesStored' /\ FindsItsRequest' /\ StaleSlotsEmpty'
<1>1. ServesStored'
  BY DEF QueueInv, ServerTypes, ServesStored
<1>2. FindsItsRequest'
  BY DEF QueueInv, FindsItsRequest
<1>3. StaleSlotsEmpty'
  BY DEF QueueInv, StaleSlotsEmpty
<1>. QED  BY <1>1, <1>2, <1>3

LEMMA ReadQueue ==
    ASSUME QueueInv, NEW h \in Client, ReadDemand(h)
    PROVE  QueueInv'
<1>1. /\ inbox[h] \in Seq(Demand) /\ inbox[h] # << >> /\ gpc[h] = "read"
      /\ Head(inbox[h]) \in Demand /\ Tail(inbox[h]) \in Seq(Demand)
      /\ Len(Tail(inbox[h])) = Len(inbox[h]) - 1 /\ Len(inbox[h]) \in Nat
  BY DEF QueueInv, QueueTypes, ReadDemand
<1>2. QueueTypes'
  BY <1>1, ItemType DEF QueueInv, QueueTypes, ReadDemand, queueVars
<1>3. DemandsCounted'
  <2>1. ASSUME NEW x \in Client
        PROVE  Unstored(x)' <= Unstored(x)
    <3>1. CASE x = h
      BY <1>1, <3>1 DEF Unstored, QueueInv, QueueTypes, ReadDemand
    <3>2. CASE x # h
      <4>1. inbox'[x] = inbox[x] /\ gpc'[x] = gpc[x] /\ Len(inbox[x]) \in Nat
        BY <3>2 DEF QueueInv, QueueTypes, ReadDemand
      <4>. QED  BY <4>1 DEF Unstored
    <3>. QED  BY <3>1, <3>2
  <2>. QED  BY <1>2, <2>1, FewerOnTheWay DEF QueueInv, ReadDemand, queueVars
<1>4. \A x \in Client, c \in Class : Storing(x, c)' = Storing(x, c)
  BY <1>1 DEF Storing, QueueInv, QueueTypes, ReadDemand
<1>5. StoreLocked'
  <2>1. \A x \in Client : gpc'[x] \in {"lock", "port"}
                            => ClassOf(demand'[x].port) \in Class
    BY <1>1 DEF QueueInv, QueueTypes, StoreLocked, ReadDemand
  <2>. QED  BY <2>1, <1>4 DEF QueueInv, StoreLocked, ReadDemand, queueVars
<1>6. ServesStored' /\ FindsItsRequest' /\ StaleSlotsEmpty'
  BY <1>4, ServiceUntouched DEF ReadDemand, queueVars, procVars
<1>7. ServerTypes'
  BY DEF QueueInv, ServerTypes, ReadDemand, procVars
<1>. QED  BY <1>2, <1>3, <1>5, <1>6, <1>7 DEF QueueInv

LEMMA SignalQueue ==
    ASSUME QueueInv, NEW h \in Client, Signal(h)
    PROVE  QueueInv'
<1>1. gpc[h] = "signal" /\ UNCHANGED <<inbox, demand, request, len, lock>>
  BY DEF Signal, queueVars
<1>2. QueueTypes'
  BY <1>1 DEF QueueInv, QueueTypes, Signal
<1>3. DemandsCounted'
  <2>1. \A x \in Client : Unstored(x)' <= Unstored(x)
    BY <1>1 DEF Unstored, QueueInv, QueueTypes, Signal
  <2>. QED  BY <1>1, <1>2, <2>1, FewerOnTheWay DEF QueueInv
<1>4. \A x \in Client, c \in Class : Storing(x, c)' = Storing(x, c)
  BY <1>1 DEF Storing, QueueInv, QueueTypes, Signal
<1>5. StoreLocked'
  <2>1. \A x \in Client : gpc'[x] \in {"lock", "port"} => gpc[x] = gpc'[x]
    BY <1>1 DEF QueueInv, QueueTypes, Signal
  <2>. QED  BY <2>1, <1>1, <1>4 DEF QueueInv, StoreLocked
<1>6. ServesStored' /\ FindsItsRequest' /\ StaleSlotsEmpty'
  <2>1. ppc' \in {"find", "remove"} => UNCHANGED <<ppc, cls>>
    BY DEF Signal, WakeUp
  <2>. QED  BY <2>1, <1>1, <1>4, ServiceUntouched DEF Signal
<1>7. ServerTypes'
  BY DEF QueueInv, ServerTypes, Signal, WakeUp, Class
<1>. QED  BY <1>2, <1>3, <1>5, <1>6, <1>7 DEF QueueInv

\* The two halves of a store exclude each other, and the receive threads that
\* have not the lock write nothing.
LEMMA OneWriter ==
    ASSUME QueueInv, NEW h \in Client, NEW x \in Client, NEW c \in Class,
           Storing(h, c), Storing(x, c)
    PROVE  x = h
BY DEF QueueInv, StoreLocked

LEMMA UnlockedIdle ==
    ASSUME QueueInv, NEW c \in Class, lock[c] = 0
    PROVE  /\ \A x \in Client : ~ Storing(x, c)
           /\ \A s \in Slot : s >= len[c] => request[c][s] = Empty
<1>1. 0 \notin Client
  BY TrafficType DEF Host
<1>2. \A x \in Client : ~ Storing(x, c)
  BY <1>1 DEF QueueInv, StoreLocked
<1>. QED  BY <1>2 DEF QueueInv, StaleSlotsEmpty

LEMMA BeginStoreQueue ==
    ASSUME QueueInv, NEW h \in Client, BeginStore(h)
    PROVE  QueueInv'
<1> DEFINE c == ClassOf(demand[h].port)
<1>1. gpc[h] = "lock" /\ c \in Class
  BY DEF QueueInv, StoreLocked, BeginStore
<1>2. /\ lock[c] = 0 /\ lock' = [lock EXCEPT ![c] = h]
      /\ gpc' = [gpc EXCEPT ![h] = "port"]
      /\ request' = [request EXCEPT ![c][len[c]] =
                       [demand[h] EXCEPT !.port = request[c][len[c]].port]]
      /\ UNCHANGED <<inbox, demand, len, ppc, cls, i, req_len, cur, sent, outbox>>
  BY DEF BeginStore, procVars
<1>3. \A d \in Class, x \in Client : Storing(x, d)' <=> Storing(x, d) \/ (x = h /\ d = c)
  BY <1>1, <1>2 DEF Storing, QueueInv, QueueTypes
<1> HIDE DEF c
<1>4. /\ \A x \in Client : ~ Storing(x, c)
      /\ \A s \in Slot : s >= len[c] => request[c][s] = Empty
      /\ len[c] \in Slot /\ len[c] \in Nat
  BY <1>1, <1>2, UnlockedIdle, LenInSlot DEF QueueInv, QueueTypes
<1>5. request[c][len[c]].port = 0 /\ [demand[h] EXCEPT !.port = 0] \in Item
      /\ [demand[h] EXCEPT !.port = 0].port = 0
  <2>1. request[c][len[c]] = Empty /\ demand[h] \in Item /\ 0 \in Port
    BY <1>4, TrafficAssumption DEF QueueInv, QueueTypes
  <2>. QED  BY <2>1, EmptyType, ItemType DEF Item, Entry
<1>6. QueueTypes'
  BY <1>1, <1>2, <1>4, <1>5 DEF QueueInv, QueueTypes
<1>7. DemandsCounted'
  <2>1. \A x \in Client : Unstored(x)' <= Unstored(x)
    BY <1>1, <1>2 DEF Unstored, QueueInv, QueueTypes
  <2>. QED  BY <1>2, <1>6, <2>1, FewerOnTheWay DEF QueueInv
<1>8. \A d \in Class, s \in Slot :
        request'[d][s] = IF d = c /\ s = len[c] THEN [demand[h] EXCEPT !.port = 0]
                         ELSE request[d][s]
  BY <1>1, <1>2, <1>4, <1>5 DEF QueueInv, QueueTypes
<1>9. StoreLocked'
  <2>1. \A x \in Client : gpc'[x] \in {"lock", "port"} => gpc[x] \in {"lock", "port"}
    BY <1>1, <1>2 DEF QueueInv, QueueTypes
  <2>2. ASSUME NEW x \in Client, NEW d \in Class, Storing(x, d)'
        PROVE  lock'[d] = x /\ request'[d][len'[d]].port = 0
    <3>1. CASE x = h /\ d = c
      BY <1>1, <1>2, <1>4, <1>5, <1>8, <3>1 DEF QueueInv, QueueTypes
    <3>2. CASE Storing(x, d)
      <4>1. d # c /\ len[d] \in Slot
        BY <1>4, <3>2, LenInSlot DEF QueueInv
      <4>2. lock[d] = x /\ request[d][len[d]].port = 0
        BY <3>2 DEF QueueInv, StoreLocked
      <4>. QED  BY <1>1, <1>2, <1>8, <4>1, <4>2 DEF QueueInv, QueueTypes
    <3>. QED  BY <1>3, <2>2, <3>1, <3>2
  <2>. QED  BY <1>2, <2>1, <2>2 DEF QueueInv, StoreLocked
<1>10. StaleSlotsEmpty'
  BY <1>2, <1>3, <1>8 DEF QueueInv, StaleSlotsEmpty
<1>11. ServesStored'
  BY <1>2, <1>3 DEF QueueInv, ServesStored, ServerTypes
<1>12. FindsItsRequest'
  <2>1. ppc \in {"find", "remove"} => ~ (cls = c /\ i = len[c])
    BY <1>4 DEF QueueInv, ServesStored, ServerTypes, Slot
  <2>2. ppc \in {"find", "remove"} => request'[cls][i] = request[cls][i]
    BY <1>8, <2>1 DEF QueueInv, ServerTypes
  <2>. QED  BY <1>2, <2>2 DEF QueueInv, FindsItsRequest
<1>13. ServerTypes'
  BY <1>2 DEF QueueInv, ServerTypes
<1>. QED  BY <1>6, <1>7, <1>9, <1>10, <1>11, <1>12, <1>13 DEF QueueInv

\* The demand stored is the first of its client's that was on its way.
LEMMA StoredOnce ==
    ASSUME QueueInv, NEW h \in Client, gpc[h] = "port", UNCHANGED inbox,
           gpc' = [gpc EXCEPT ![h] = "signal"]
    PROVE  /\ Cardinality(OnTheWay)' = Cardinality(OnTheWay) - 1
           /\ \A x \in Client : Unstored(x)' <= Unstored(x)
<1>1. /\ \A x \in Client : Len(inbox[x]) \in Nat
      /\ \A x \in Client : Unstored(x)' = IF x = h THEN Unstored(x) - 1 ELSE Unstored(x)
      /\ \A x \in Client : Unstored(x) \in Nat /\ Unstored(x) <= Len(Traffic[x])
      /\ Unstored(h) > 0
  BY DEF QueueInv, QueueTypes, DemandsCounted, Unstored
<1> DEFINE n == Len(Traffic[h]) - Unstored(h) + 1
<1>2. /\ n \in 1..Len(Traffic[h]) /\ n \in 0..ReqSize
      /\ n > Len(Traffic[h]) - Unstored(h) /\ ~ (n > Len(Traffic[h]) - Unstored(h)')
      /\ \A m \in Nat : m > Len(Traffic[h]) - Unstored(h) /\ m # n
                           => m > Len(Traffic[h]) - Unstored(h)'
      /\ \A m \in Nat : m > Len(Traffic[h]) - Unstored(h)' => m > Len(Traffic[h]) - Unstored(h)
  BY <1>1, TrafficType, SizeType
<1> HIDE DEF n
<1>3. <<h, n>> \in OnTheWay
  BY <1>2, TrafficType DEF OnTheWay, AllDemands
<1>4. OnTheWay' = OnTheWay \ {<<h, n>>}
  <2>1. \A x \in AllDemands : /\ x[1] \in Client /\ x[2] \in Nat
                              /\ x = <<x[1], x[2]>>
    BY SizeType DEF AllDemands
  <2>2. ASSUME NEW x \in AllDemands
        PROVE  (x[2] > Len(Traffic[x[1]]) - Unstored(x[1])')
                 <=> (x[2] > Len(Traffic[x[1]]) - Unstored(x[1])) /\ x # <<h, n>>
    <3>1. CASE x[1] = h
      BY <1>2, <2>1, <3>1
    <3>2. CASE x[1] # h
      BY <1>1, <2>1, <3>2
    <3>. QED  BY <3>1, <3>2
  <2>3. OnTheWay' = {x \in AllDemands : x[2] > Len(Traffic[x[1]]) - Unstored(x[1])'}
    BY DEF OnTheWay, AllDemands
  <2>. QED  BY <2>2, <2>3 DEF OnTheWay
<1>5. Cardinality(OnTheWay)' = Cardinality(OnTheWay) - 1
  BY <1>3, <1>4, OnTheWayFinite, FS_RemoveElement
<1>. QED  BY <1>1, <1>5

LEMMA EndStoreQueue ==
    ASSUME QueueInv, NEW h \in Client, EndStore(h)
    PROVE  QueueInv'
<1> DEFINE c == ClassOf(demand[h].port)
<1>1. gpc[h] = "port" /\ c \in Class /\ Storing(h, c)
  BY DEF QueueInv, StoreLocked, EndStore, Storing
<1>2. /\ request' = [request EXCEPT ![c][len[c]].port = demand[h].port]
      /\ len' = [len EXCEPT ![c] = @ + 1]
      /\ lock' = [lock EXCEPT ![c] = 0]
      /\ gpc' = [gpc EXCEPT ![h] = "signal"]
      /\ UNCHANGED <<inbox, demand, ppc, cls, i, req_len, cur, sent, outbox>>
  BY DEF EndStore, procVars
<1>3. /\ \A d \in Class, x \in Client : Storing(x, d)' <=> Storing(x, d) /\ x # h
      /\ \A d \in Class : Storing(h, d) => d = c
  BY <1>1, <1>2 DEF Storing, QueueInv, QueueTypes
<1> HIDE DEF c
<1>4. /\ \A d \in Class : len[d] \in Slot /\ len[d] \in Nat
      /\ \A s \in Slot : s \in Nat
      /\ request[c][len[c]].port = 0 /\ request[c][len[c]] \in Item
      /\ demand[h].port \in Port
  BY <1>1, LenInSlot, SizeType, ItemType DEF QueueInv, QueueTypes, StoreLocked, Slot
<1>5. [request[c][len[c]] EXCEPT !.port = demand[h].port] \in Item
  BY <1>4, ItemType
<1>6. QueueTypes'
  BY <1>1, <1>2, <1>4, <1>5 DEF QueueInv, QueueTypes
<1>7. DemandsCounted'
  <2>1. /\ Cardinality(OnTheWay)' = Cardinality(OnTheWay) - 1
        /\ \A x \in Client : Unstored(x)' <= Unstored(x)
    BY <1>1, <1>2, StoredOnce
  <2>2. \A x \in Client : Unstored(x)' <= Len(Traffic[x])
    <3>1. \A x \in Client : Unstored(x) \in Nat /\ Unstored(x)' \in Nat
      BY <1>6 DEF QueueInv, QueueTypes, Unstored
    <3>. QED  BY <2>1, <3>1, TrafficType DEF QueueInv, DemandsCounted
  <2>3. len'[5] + len'[6] + len'[7] = len[5] + len[6] + len[7] + 1
    BY <1>1, <1>2, <1>4 DEF QueueInv, QueueTypes, Class
  <2>4. /\ Cardinality(AllDemands)' = Cardinality(AllDemands)
        /\ Cardinality(AllDemands) \in Nat /\ Cardinality(OnTheWay) \in Nat
        /\ len[5] + len[6] + len[7] \in Nat
    BY <1>4, DemandsFinite, OnTheWayFinite DEF AllDemands, Class
  <2>5. len'[5] + len'[6] + len'[7] + Cardinality(OnTheWay)' <= Cardinality(AllDemands)'
    BY <2>1, <2>3, <2>4 DEF QueueInv, DemandsCounted
  <2>. QED  BY <2>2, <2>5 DEF DemandsCounted
<1>8. \A d \in Class, s \in Slot :
        request'[d][s] = IF d = c /\ s = len[c]
                         THEN [request[c][len[c]] EXCEPT !.port = demand[h].port]
                         ELSE request[d][s]
  BY <1>1, <1>2, <1>4 DEF QueueInv, QueueTypes
<1>9. StoreLocked'
  <2>1. \A x \in Client : gpc'[x] \in {"lock", "port"} => gpc[x] \in {"lock", "port"}
    BY <1>1, <1>2 DEF QueueInv, QueueTypes
  <2>2. ASSUME NEW x \in Client, NEW d \in Class, Storing(x, d)'
        PROVE  lock'[d] = x /\ request'[d][len'[d]].port = 0
    <3>1. Storing(x, d) /\ x # h
      BY <1>3, <2>2
    <3>2. d # c
      BY <1>1, <3>1, OneWriter
    <3>3. lock[d] = x /\ request[d][len[d]].port = 0
      BY <3>1 DEF QueueInv, StoreLocked
    <3>. QED  BY <1>1, <1>2, <1>4, <1>8, <3>2, <3>3 DEF QueueInv, QueueTypes
  <2>. QED  BY <1>2, <2>1, <2>2 DEF QueueInv, StoreLocked
<1>10. \A d \in Class : len'[d] = IF d = c THEN len[c] + 1 ELSE len[d]
  BY <1>1, <1>2 DEF QueueInv, QueueTypes
<1>11. StaleSlotsEmpty'
  <2> SUFFICES ASSUME NEW d \in Class, NEW s \in Slot, s >= len'[d]
               PROVE  \/ request'[d][s] = Empty
                      \/ \E x \in Client : s = len'[d] /\ Storing(x, d)'
    BY DEF StaleSlotsEmpty
  <2>1. CASE d = c
    <3>1. s >= len[c] /\ s # len[c]
      BY <1>1, <1>4, <1>10, <2>1
    <3>. QED  BY <1>8, <2>1, <3>1 DEF QueueInv, StaleSlotsEmpty
  <2>2. CASE d # c
    BY <1>3, <1>8, <1>10, <2>2 DEF QueueInv, StaleSlotsEmpty
  <2>. QED  BY <2>1, <2>2
<1>12. ServesStored'
  <2> SUFFICES ASSUME ppc \in {"find", "remove"}
               PROVE  i < len'[cls] \/ (i = len'[cls] /\ \E x \in Client : Storing(x, cls)')
    BY <1>2 DEF QueueInv, ServesStored
  <2>1. /\ i \in Nat /\ cls \in Class
        /\ i < len[cls] \/ (i = len[cls] /\ \E x \in Client : Storing(x, cls))
    BY <1>4 DEF QueueInv, ServesStored, ServerTypes
  <2>2. CASE cls = c
    BY <1>1, <1>4, <1>10, <2>1, <2>2
  <2>3. CASE cls # c
    <3>1. len'[cls] = len[cls]
      BY <1>10, <2>1, <2>3
    <3>2. ASSUME NEW x \in Client, Storing(x, cls)
          PROVE  Storing(x, cls)'
      <4>1. x # h
        BY <1>3, <2>1, <2>3, <3>2
      <4>. QED  BY <1>2, <3>2, <4>1 DEF Storing, QueueInv, QueueTypes
    <3>. QED  BY <2>1, <3>1, <3>2
  <2>. QED  BY <2>2, <2>3
<1>13. FindsItsRequest'
  <2> SUFFICES ASSUME ppc \in {"find", "remove"}
               PROVE  FindsItsRequest'
    BY <1>2 DEF FindsItsRequest
  <2>1. cls \in Class /\ i \in Slot
    BY DEF QueueInv, ServerTypes
  <2>2. CASE cls = c /\ i = len[c]
    <3>1. request'[cls][i] = [request[cls][i] EXCEPT !.port = demand[h].port]
      BY <1>8, <2>1, <2>2
    <3>2. /\ request'[cls][i].src = request[cls][i].src
          /\ request'[cls][i].dest = request[cls][i].dest
          /\ request'[cls][i].flow = request[cls][i].flow
      BY <1>4, <2>2, <3>1 DEF Item, Entry
    <3>3. cur.port = 0
      BY <1>4, <2>2 DEF QueueInv, FindsItsRequest
    <3>. QED  BY <1>2, <3>2, <3>3 DEF QueueInv, FindsItsRequest
  <2>3. CASE ~ (cls = c /\ i = len[c])
    <3>1. request'[cls][i] = request[cls][i]
      BY <1>8, <2>1, <2>3
    <3>. QED  BY <1>2, <3>1 DEF QueueInv, FindsItsRequest
  <2>. QED  BY <2>2, <2>3
<1>14. ServerTypes'
  BY <1>2 DEF QueueInv, ServerTypes
<1>. QED  BY <1>6, <1>7, <1>9, <1>11, <1>12, <1>13, <1>14 DEF QueueInv

-----------------------------------------------------------------------------
(* process_demands.                                                        *)

\* Steps that leave the receive threads and the arrays alone.
LEMMA ArraysUntouched ==
    ASSUME QueueInv, UNCHANGED <<recvVars, queueVars>>,
           ServerTypes', ServesStored', FindsItsRequest'
    PROVE  QueueInv'
<1>1. QueueTypes' /\ StoreLocked' /\ StaleSlotsEmpty'
  BY DEF recvVars, queueVars, QueueInv, QueueTypes, StoreLocked, StaleSlotsEmpty, Storing
<1>2. DemandsCounted'
  <2>1. \A x \in Client : Unstored(x)' = Unstored(x) /\ Unstored(x) \in Nat
    BY DEF recvVars, Unstored, QueueInv, QueueTypes
  <2>. QED  BY <1>1, <2>1, FewerOnTheWay DEF QueueInv, queueVars
<1>. QED  BY <1>1, <1>2 DEF QueueInv

LEMMA SleepQueue ==
    ASSUME QueueInv, NewSlot \/ CheckQueues \/ Wait \/ SpuriousWake
    PROVE  QueueInv'
<1>1. UNCHANGED <<recvVars, queueVars, i, req_len, cur, sent, outbox>>
  BY DEF NewSlot, CheckQueues, Wait, SpuriousWake
<1>2. /\ ppc' \in {"check", "wait", "load", "asleep"}
      /\ cls' = cls \/ cls' = 7
  BY DEF NewSlot, CheckQueues, Wait, SpuriousWake, WakeUp
<1>3. ServerTypes'
  BY <1>1, <1>2 DEF QueueInv, ServerTypes, Class
<1>4. ServesStored' /\ FindsItsRequest'
  BY <1>2 DEF ServesStored, FindsItsRequest
<1>. QED  BY <1>1, <1>3, <1>4, ArraysUntouched

LEMMA VisitQueue ==
    ASSUME QueueInv, Visit
    PROVE  QueueInv'
<1>1. /\ ppc = "visit" /\ ppc' = "find" /\ i < req_len
      /\ cur' = request[cls][i] /\ request[cls][i].flow > 0
      /\ UNCHANGED <<recvVars, queueVars, request, len, gpc, demand, cls, i, req_len,
                     sent, outbox>>
  BY DEF Visit, Eligible, recvVars, queueVars
<1>2. /\ cls \in Class /\ i \in Slot /\ request[cls][i] \in Item
      /\ i \in Nat /\ len[cls] \in Nat
  BY SizeType DEF QueueInv, QueueTypes, ServerTypes, Slot
<1>3. ServerTypes'
  BY <1>1, <1>2 DEF QueueInv, ServerTypes
<1>4. ServesStored'
  <2>1. i < len[cls] \/ (i = len[cls] /\ \E h \in Client : Storing(h, cls))
    <3>1. request[cls][i] # Empty
      BY <1>1, EmptyType
    <3>. QED  BY <1>2, <3>1 DEF QueueInv, StaleSlotsEmpty
  <2>2. \A h \in Client : Storing(h, cls) => Storing(h, cls)'
    BY <1>1 DEF Storing
  <2>3. <<request[cls][i].src, request[cls][i].dest>> \in Flow
    BY <1>1, <1>2, ItemType
  <2>. QED  BY <1>1, <2>1, <2>2, <2>3 DEF ServesStored
<1>5. FindsItsRequest'
  BY <1>1 DEF FindsItsRequest
<1>. QED  BY <1>1, <1>3, <1>4, <1>5, ArraysUntouched

LEMMA MoveOnQueue ==
    ASSUME QueueInv, PassOver \/ GiveUp
    PROVE  QueueInv'
<1>1. /\ i < req_len /\ i' = i + 1 /\ ppc' = "visit"
      /\ UNCHANGED <<recvVars, queueVars, cls, req_len, cur, sent, outbox>>
  BY DEF PassOver, GiveUp, QueueInv, ServesStored
<1>2. i + 1 \in Slot
  BY <1>1, SizeType DEF QueueInv, ServerTypes, Slot
<1>3. ServerTypes'
  BY <1>1, <1>2 DEF QueueInv, ServerTypes
<1>4. ServesStored' /\ FindsItsRequest'
  BY <1>1 DEF ServesStored, FindsItsRequest
<1>. QED  BY <1>1, <1>3, <1>4, ArraysUntouched

LEMMA EndQueue ==
    ASSUME AllocInv, QueueInv, EndClass \/ SendReply \/ EndSlot
    PROVE  QueueInv'
<1>1. /\ ppc' \in {"load", "send", "top"} /\ cls' \in Class /\ sent' \in Nat
      /\ UNCHANGED <<recvVars, queueVars, i, req_len, cur>>
  BY DEF EndClass, SendReply, EndSlot, QueueInv, ServerTypes, Class
<1>2. outbox' \in [Client -> Seq(Grant)]
  <2>1. CASE SendReply
    <3>1. sent + 1 \in 1..Len(reply) /\ reply \in Seq(Grant)
      BY <2>1 DEF SendReply, QueueInv, ServerTypes, AllocInv, AllocTypeOK
    <3>2. reply[sent + 1] \in Grant
      BY <3>1
    <3> DEFINE g == reply[sent + 1]
    <3>3. outbox' = [outbox EXCEPT ![g.src] = Append(@, g)]
      BY <2>1 DEF SendReply
    <3>4. /\ outbox \in [Client -> Seq(Grant)]
          /\ \A x \in Client : Append(outbox[x], g) \in Seq(Grant)
      BY <3>2 DEF QueueInv, ServerTypes
    <3> HIDE DEF g
    <3>. QED  BY <3>3, <3>4
  <2>2. CASE EndClass \/ EndSlot
    BY <2>2 DEF EndClass, EndSlot, QueueInv, ServerTypes
  <2>. QED  BY <2>1, <2>2
<1>3. ServerTypes'
  BY <1>1, <1>2 DEF QueueInv, ServerTypes
<1>4. ServesStored' /\ FindsItsRequest'
  BY <1>1 DEF ServesStored, FindsItsRequest
<1>. QED  BY <1>1, <1>3, <1>4, ArraysUntouched

\* With the lock of a class free, sorting its requests touches nothing of a
\* store, of another class or past the end.
LEMMA SortedQueue ==
    ASSUME QueueInv, NEW c \in Class, lock[c] = 0, NEW n \in Slot, n <= len[c],
           NEW a \in [Slot -> Item], NEW b \in Sorted(a, n),
           \A s \in Slot : s >= n => a[s] = Empty,
           len' = [len EXCEPT ![c] = n], request' = [request EXCEPT ![c] = b],
           UNCHANGED <<recvVars, lock>>
    PROVE  QueueTypes' /\ StoreLocked' /\ StaleSlotsEmpty' /\ DemandsCounted'
<1>1. /\ b \in [Slot -> Item] /\ \A s \in Slot : s >= n => b[s] = Empty
      /\ n \in Nat /\ \A d \in Class : len[d] \in Nat
  <2>1. b \in [Slot -> Item] /\ \A s \in Slot : s >= n => b[s] = a[s]
    BY SortedItems
  <2>. QED  BY <2>1, SizeType DEF Slot, QueueInv, QueueTypes
<1>2. /\ \A d \in Class : len'[d] = IF d = c THEN n ELSE len[d]
      /\ \A d \in Class : request'[d] = IF d = c THEN b ELSE request[d]
  BY DEF QueueInv, QueueTypes
<1>3. /\ \A x \in Client, d \in Class : Storing(x, d)' <=> Storing(x, d)
      /\ \A x \in Client : ~ Storing(x, c)
  BY UnlockedIdle DEF Storing, recvVars
<1>4. QueueTypes'
  BY <1>1 DEF QueueInv, QueueTypes, recvVars
<1>5. StoreLocked'
  <2>1. \A x \in Client, d \in Class : Storing(x, d)' =>
          lock'[d] = x /\ request'[d][len'[d]].port = 0
    BY <1>2, <1>3 DEF QueueInv, StoreLocked
  <2>. QED  BY <2>1 DEF QueueInv, StoreLocked, recvVars
<1>6. StaleSlotsEmpty'
  <2> SUFFICES ASSUME NEW d \in Class, NEW s \in Slot, s >= len'[d]
               PROVE  \/ request'[d][s] = Empty
                      \/ \E x \in Client : s = len'[d] /\ Storing(x, d)'
    BY DEF StaleSlotsEmpty
  <2>1. CASE d = c
    BY <1>1, <1>2, <2>1
  <2>2. CASE d # c
    BY <1>2, <1>3, <2>2 DEF QueueInv, StaleSlotsEmpty
  <2>. QED  BY <2>1, <2>2
<1>7. DemandsCounted'
  <2>1. UNCHANGED <<Cardinality(AllDemands), Cardinality(OnTheWay)>>
    BY DEF recvVars, AllDemands, OnTheWay, Unstored
  <2>2. \A x \in Client : Unstored(x)' <= Len(Traffic[x])
    BY DEF recvVars, QueueInv, DemandsCounted, Unstored
  <2>3. len'[5] + len'[6] + len'[7] <= len[5] + len[6] + len[7]
    BY <1>1, <1>2 DEF Class
  <2>4. /\ len[5] + len[6] + len[7] \in Nat /\ len'[5] + len'[6] + len'[7] \in Nat
        /\ Cardinality(AllDemands) \in Nat /\ Cardinality(OnTheWay) \in Nat
    BY <1>1, <1>2, DemandsFinite, OnTheWayFinite DEF Class
  <2>5. len'[5] + len'[6] + len'[7] + Cardinality(OnTheWay)' <= Cardinality(AllDemands)'
    BY <2>1, <2>3, <2>4 DEF QueueInv, DemandsCounted
  <2>. QED  BY <2>2, <2>5 DEF DemandsCounted
<1>. QED  BY <1>4, <1>5, <1>6, <1>7

LEMMA LoadQueue ==
    ASSUME QueueInv, LoadClass
    PROVE  QueueInv'
<1>1. /\ cls \in Class /\ len[cls] \in Slot /\ lock[cls] = 0
      /\ request[cls] \in [Slot -> Item]
      /\ \A s \in Slot : s >= len[cls] => request[cls][s] = Empty
  BY LenInSlot, UnlockedIdle DEF QueueInv, QueueTypes, ServerTypes, LoadClass
<1>2. PICK b \in Sorted(request[cls], len[cls]) : request' = [request EXCEPT ![cls] = b]
  BY DEF LoadClass
<1>3. len' = [len EXCEPT ![cls] = len[cls]] /\ len[cls] <= len[cls]
  BY <1>1 DEF LoadClass, QueueInv, QueueTypes, Slot
<1>4. QueueTypes' /\ StoreLocked' /\ StaleSlotsEmpty' /\ DemandsCounted'
  BY <1>1, <1>2, <1>3, SortedQueue DEF LoadClass
<1>5. ServerTypes'
  BY <1>1, SizeType DEF QueueInv, ServerTypes, LoadClass
<1>6. ServesStored' /\ FindsItsRequest'
  BY DEF ServesStored, FindsItsRequest, LoadClass
<1>. QED  BY <1>4, <1>5, <1>6 DEF QueueInv

LEMMA RemoveQueue ==
    ASSUME QueueInv, Remove
    PROVE  QueueInv'
<1>1. /\ cls \in Class /\ len[cls] \in Slot /\ lock[cls] = 0 /\ i \in Slot
      /\ request[cls] \in [Slot -> Item]
      /\ \A s \in Slot : s >= len[cls] => request[cls][s] = Empty
      /\ i < len[cls]
  BY LenInSlot, UnlockedIdle
     DEF QueueInv, QueueTypes, ServerTypes, ServesStored, Remove
<1>2. /\ len[cls] - 1 \in Slot /\ len[cls] - 1 <= len[cls]
      /\ i \in 0..(len[cls] - 1) /\ i + 1 \in Slot
  BY <1>1, SizeType DEF Slot
<1> DEFINE a == Shift(request[cls], i, len[cls])
<1>3. /\ a \in [Slot -> Item]
      /\ \A t \in Slot : t >= len[cls] - 1 =>
           a[t] = IF t = len[cls] - 1 THEN request[cls][len[cls]] ELSE request[cls][t]
  <2>1. request[cls] \in [Slot -> Item] /\ len[cls] \in Slot /\ i \in 0..(len[cls] - 1)
    BY <1>1, <1>2
  <2>. QED  BY <2>1, ShiftItems, Zenon
<1>4. PICK b \in Sorted(a, len[cls] - 1) : request' = [request EXCEPT ![cls] = b]
  BY DEF Remove
<1> HIDE DEF a
<1>5. \A s \in Slot : s >= len[cls] - 1 => a[s] = Empty
  <2>1. \A s \in Slot : s >= len[cls] - 1 => s = len[cls] - 1 \/ s >= len[cls]
    BY <1>1 DEF Slot
  <2>2. len[cls] >= len[cls]
    BY <1>1 DEF Slot
  <2>. QED  BY <1>1, <1>3, <2>1, <2>2
<1>6. len' = [len EXCEPT ![cls] = len[cls] - 1] /\ UNCHANGED <<recvVars, lock>>
  BY DEF Remove
<1>7. QueueTypes' /\ StoreLocked' /\ StaleSlotsEmpty' /\ DemandsCounted'
  BY <1>1, <1>2, <1>3, <1>4, <1>5, <1>6, SortedQueue
<1>8. ServerTypes'
  BY <1>1, <1>2 DEF QueueInv, ServerTypes, Remove
<1>9. ServesStored' /\ FindsItsRequest'
  BY DEF ServesStored, FindsItsRequest, Remove
<1>. QED  BY <1>7, <1>8, <1>9 DEF QueueInv

LEMMA FindPathQueue ==
    ASSUME QueueInv, FindPath
    PROVE  QueueInv'
<1> DEFINE d == request[cls][i]
           e == [request[cls][i] EXCEPT !.flow = request[cls][i].flow - 1]
<1>1. /\ ppc = "find" /\ cls \in Class /\ i \in Slot /\ d \in Item
      /\ d.flow \in Nat /\ d.flow > 0
  BY ItemType DEF FindPath, QueueInv, QueueTypes, ServerTypes, FindsItsRequest
<1>2. /\ e \in Item /\ e.flow = d.flow - 1 /\ e.port = d.port
      /\ e.src = d.src /\ e.dest = d.dest
  <2>1. d.flow - 1 \in Nat
    BY <1>1
  <2>. QED  BY <1>1, <2>1, ItemType DEF Item, Entry
<1>3. /\ request' = [request EXCEPT ![cls][i] = e]
      /\ ppc' = IF d.flow = 1 THEN "remove" ELSE "find"
      /\ UNCHANGED <<recvVars, len, lock, cls, i, req_len, cur, sent, outbox>>
  BY <1>1 DEF FindPath, QueueInv, QueueTypes
<1> HIDE DEF e
<1>4. \A c \in Class, s \in Slot :
        request'[c][s] = IF c = cls /\ s = i THEN e ELSE request[c][s]
  BY <1>1, <1>3 DEF QueueInv, QueueTypes
<1>5. \A x \in Client, c \in Class : Storing(x, c)' <=> Storing(x, c)
  BY <1>3 DEF Storing, recvVars
<1>6. QueueTypes'
  BY <1>1, <1>2, <1>3 DEF QueueInv, QueueTypes, recvVars
<1>7. DemandsCounted'
  <2>1. \A x \in Client : Unstored(x)' = Unstored(x) /\ Unstored(x) \in Nat
    BY <1>3 DEF recvVars, Unstored, QueueInv, QueueTypes
  <2>. QED  BY <1>3, <1>6, <2>1, FewerOnTheWay DEF QueueInv
<1>8. StoreLocked'
  <2>1. ASSUME NEW x \in Client, NEW c \in Class, Storing(x, c)'
        PROVE  lock'[c] = x /\ request'[c][len'[c]].port = 0
    <3>1. lock[c] = x /\ request[c][len[c]].port = 0 /\ len[c] \in Slot
      BY <1>5, <2>1, LenInSlot DEF QueueInv, StoreLocked
    <3>. QED  BY <1>2, <1>3, <1>4, <3>1
  <2>. QED  BY <1>3, <2>1 DEF QueueInv, StoreLocked, recvVars
<1>9. ServesStored'
  <2>1. (\E x \in Client : Storing(x, cls)) => (\E x \in Client : Storing(x, cls)')
    BY <1>3 DEF Storing, recvVars
  <2>. QED  BY <1>1, <1>3, <1>5, <2>1 DEF QueueInv, ServesStored
<1>10. StaleSlotsEmpty'
  <2> SUFFICES ASSUME NEW c \in Class, NEW s \in Slot, s >= len[c]
               PROVE  \/ request'[c][s] = Empty
                      \/ \E x \in Client : s = len[c] /\ Storing(x, c)
    BY <1>3, <1>5 DEF StaleSlotsEmpty
  <2>1. CASE c = cls /\ s = i
    <3>1. i \in Nat /\ len[c] \in Nat
      BY <1>1, <2>1, SizeType DEF Slot, QueueInv, QueueTypes
    <3>. QED  BY <1>1, <2>1, <3>1 DEF QueueInv, ServesStored
  <2>2. CASE ~ (c = cls /\ s = i)
    BY <1>4, <2>2 DEF QueueInv, StaleSlotsEmpty
  <2>. QED  BY <2>1, <2>2
<1>11. FindsItsRequest'
  <2>1. request'[cls][i] = e
    BY <1>1, <1>4
  <2>2. (ppc' = "find") <=> (e.flow > 0)
    BY <1>1, <1>2, <1>3
  <2>. QED  BY <1>1, <1>2, <1>3, <2>1, <2>2 DEF QueueInv, FindsItsRequest
<1>12. ServerTypes'
  BY <1>3 DEF QueueInv, ServerTypes
<1>. QED  BY <1>6, <1>7, <1>8, <1>9, <1>10, <1>11, <1>12 DEF QueueInv

-----------------------------------------------------------------------------
LEMMA InitQueue == Init => QueueInv
<1> SUFFICES ASSUME Init PROVE QueueInv
  OBVIOUS
<1>1. QueueTypes
  BY TrafficType, EmptyType DEF Init, QueueTypes
<1>2. ServerTypes
  BY SizeType, EmptyType DEF Init, ServerTypes, Class
<1>3. DemandsCounted
  <2>1. OnTheWay \in SUBSET AllDemands
    BY DEF OnTheWay
  <2>2. Cardinality(OnTheWay) <= Cardinality(AllDemands)
    BY <2>1, DemandsFinite, FS_Subset
  <2>3. \A h \in Client : Unstored(h) <= Len(Traffic[h])
    BY TrafficType DEF Init, Unstored
  <2>. QED  BY <2>2, <2>3, DemandsFinite, OnTheWayFinite DEF Init, DemandsCounted, Class
<1>4. StoreLocked /\ StaleSlotsEmpty
  BY DEF Init, StoreLocked, StaleSlotsEmpty, Storing
<1>5. ServesStored /\ FindsItsRequest
  BY DEF Init, ServesStored, FindsItsRequest
<1>. QED  BY <1>1, <1>2, <1>3, <1>4, <1>5 DEF QueueInv

\* Every step of a thread keeps the arrays, and the allocator's tables.
LEMMA NextArb == ArbInv /\ [Next]_vars => ArbInv'
<1> SUFFICES ASSUME ArbInv, [Next]_vars PROVE ArbInv'
  OBVIOUS
<1>1. AllocInv'
  BY StepAllocates, NextAlloc DEF ArbInv
<1>2. QueueInv /\ AllocInv
  BY DEF ArbInv
<1>3. ASSUME NEW h \in Client, Receive(h) PROVE QueueInv'
  BY <1>2, <1>3, ReadQueue, BeginStoreQueue, EndStoreQueue, SignalQueue DEF Receive
<1>4. ASSUME Serve PROVE QueueInv'
  BY <1>2, <1>4, SleepQueue, LoadQueue, VisitQueue, MoveOnQueue, FindPathQueue,
     RemoveQueue, EndQueue DEF Serve
<1>5. ASSUME SpuriousWake PROVE QueueInv'
  BY <1>2, <1>5, SleepQueue
<1>6. ASSUME UNCHANGED vars PROVE QueueInv'
  BY <1>2, <1>6, ArraysUntouched
     DEF vars, procVars, QueueInv, ServerTypes, ServesStored, FindsItsRequest,
         Storing, recvVars, queueVars
<1>7. QueueInv'
  BY <1>3, <1>4, <1>5, <1>6 DEF Next
<1>. QED  BY <1>1, <1>7 DEF ArbInv

\* Every reachable state of the arbiter satisfies the invariant.
THEOREM ArbiterInvariant == Spec => []ArbInv
<1>1. Init => ArbInv
  BY InitAlloc, InitQueue DEF Init, ArbInv
<1>. QED  BY <1>1, NextArb, PTL DEF Spec

-----------------------------------------------------------------------------
(* What follows from the arrays.                                           *)

\* No store, sort or removal takes an array out of its bounds or puts into it
\* what is not a demand: get_demands does not compare len with 240, but less
\* than 240 demands altogether, counted until they are stored, never exceed it.
THEOREM ArbiterTypes == Spec => []TypeOK
<1>1. ASSUME ArbInv PROVE TypeOK
  <2>1. \A h \in Client : inbox[h] \in Seq(Entry)
    <3>1. Demand \subseteq Entry
      BY DEF Demand
    <3>. QED  BY <1>1, <3>1 DEF ArbInv, QueueInv, QueueTypes
  <2>2. /\ inbox \in [Client -> Seq(Entry)] /\ demand \in [Client -> Entry]
        /\ request \in [Class -> [Slot -> Entry]] /\ cur \in Entry
    BY <1>1, <2>1, ItemType DEF ArbInv, QueueInv, QueueTypes, ServerTypes
  <2>3. len \in [Class -> Slot]
    BY <1>1, LenInSlot DEF ArbInv, QueueInv, QueueTypes
  <2>. QED  BY <1>1, <2>2, <2>3
            DEF TypeOK, ArbInv, AllocInv, QueueInv, QueueTypes, ServerTypes
<1>. QED  BY <1>1, ArbiterInvariant, PTL

\* The loop of process_demands, which runs past len after a removal, never
\* finds a request there that was already served.
THEOREM NothingPastLen == Spec => []StaleSlotsEmpty
<1>1. ArbInv => StaleSlotsEmpty
  BY DEF ArbInv, QueueInv
<1>. QED  BY <1>1, ArbiterInvariant, PTL

\* While find_path works, without the lock, its request stays in its slot.
THEOREM FindsOwnRequest == Spec => []FindsItsRequest
<1>1. ArbInv => FindsItsRequest
  BY DEF ArbInv, QueueInv
<1>. QED  BY <1>1, ArbiterInvariant, PTL

\* With its threads and arrays, the arbiter fills slots as the allocator does:
\* find_path is
\* only ever called for a flow, and no other step touches its tables.
THEOREM ArbiterAllocates == Spec => AllocSpec
<1>1. Init => AllocInit
  BY DEF Init
<1>2. ArbInv /\ [Next]_vars => [AllocNext]_allocVars
  BY StepAllocates
<1>. QED  BY <1>1, <1>2, ArbiterInvariant, PTL DEF Spec, AllocSpec

\* So every slot it fills, for any number of clients, keeps the contract.
THEOREM ArbiterFulfilsContract == Spec => ContractSpec
BY ArbiterAllocates, AllocFulfilsContract, PTL

-----------------------------------------------------------------------------
(* Nobody waits for an empty slot.                                         *)

\* Until the slot's first reply, nothing was removed: the loop is still within
\* the array, and stores write behind it.
FirstInv ==
    /\ ppc \in {"visit", "find"} /\ reply = << >> =>
         /\ i <= req_len /\ req_len <= len[cls]
         /\ \A s \in 0..(i - 1) : request[cls][s].flow = 0
    /\ ppc = "remove" => reply # << >>

\* A step of a receive thread only writes behind the loop.
LEMMA ReceiveFirst ==
    ASSUME ArbInv, FirstInv, NEW h \in Client, Receive(h)
    PROVE  FirstInv'
<1>1. /\ request \in [Class -> [Slot -> Item]] /\ len \in [Class -> Nat]
      /\ \A c \in Class : len[c] \in Slot
      /\ cls \in Class /\ i \in Nat /\ req_len \in Nat
  BY LenInSlot DEF ArbInv, QueueInv, QueueTypes, ServerTypes, Slot
<1>2. CASE ReadDemand(h)
  BY <1>2 DEF ReadDemand, FirstInv, queueVars, procVars, allocVars
<1>3. CASE Signal(h)
  BY <1>3 DEF Signal, WakeUp, FirstInv, queueVars, allocVars
<1>4. CASE BeginStore(h) \/ EndStore(h)
  <2> DEFINE c == ClassOf(demand[h].port)
  <2>1. c \in Class
    BY <1>4 DEF ArbInv, QueueInv, StoreLocked, BeginStore, EndStore
  <2>2. UNCHANGED <<allocVars, procVars>>
    BY <1>4 DEF BeginStore, EndStore
  <2>3. \E e : request' = [request EXCEPT ![c][len[c]] = e]
    BY <1>4 DEF BeginStore, EndStore
  <2>4. len'[cls] \in Nat /\ len[cls] <= len'[cls]
    BY <1>1, <1>4, <2>1 DEF BeginStore, EndStore
  <2>5. \A s \in Slot : s < len[cls] => request'[cls][s] = request[cls][s]
    <3> HIDE DEF c
    <3>. QED  BY <1>1, <2>1, <2>3 DEF Slot
  <2>6. ASSUME ppc' \in {"visit", "find"}, reply' = << >>
        PROVE  /\ i' <= req_len' /\ req_len' <= len'[cls]
               /\ \A s \in 0..(i - 1) : request'[cls][s].flow = 0
    <3>1. /\ i <= req_len /\ req_len <= len[cls]
          /\ \A s \in 0..(i - 1) : request[cls][s].flow = 0
      BY <2>2, <2>6 DEF FirstInv, procVars, allocVars
    <3>2. \A s \in 0..(i - 1) : s \in Slot /\ s < len[cls]
      BY <1>1, <3>1, SizeType DEF Slot
    <3>. QED  BY <1>1, <2>2, <2>4, <2>5, <3>1, <3>2 DEF procVars
  <2>. QED  BY <2>2, <2>6 DEF FirstInv, procVars, allocVars
<1>. QED  BY <1>2, <1>3, <1>4 DEF Receive

\* Before the first reply neither test of the loop refuses a request with flow.
LEMMA PassedServed ==
    ASSUME ArbInv, FirstInv, PassOver \/ GiveUp
    PROVE  FirstInv'
<1>1. /\ i < req_len /\ i' = i + 1 /\ ppc' = "visit" /\ ppc \in {"visit", "find"}
      /\ i \in Nat /\ i \in Slot /\ req_len \in Nat /\ cls \in Class
      /\ UNCHANGED <<request, len, reply, cls, req_len>>
  BY DEF PassOver, GiveUp, ArbInv, QueueInv, ServesStored, ServerTypes, Slot,
         allocVars, queueVars
<1>2. ASSUME reply = << >> PROVE request[cls][i].flow = 0
  <2>1. tor_link_capacity = [h \in Host |-> 0] /\ 0 < Cap
    BY <1>2, ChunkCapAssumption DEF ArbInv, AllocInv, FreshTables
  <2>2. CASE PassOver
    <3>1. request[cls][i] \in Item
      BY <1>1 DEF ArbInv, QueueInv, QueueTypes
    <3>2. request[cls][i].flow > 0 =>
            request[cls][i].src \in Host /\ request[cls][i].dest \in Host
      BY <3>1, ItemType, FlowAssumption
    <3>. QED  BY <2>1, <2>2, <3>1, <3>2, ItemType DEF PassOver, Eligible
  <2>3. CASE GiveUp
    <3>1. <<cur.src, cur.dest>> \in Flow
      BY <2>3 DEF GiveUp, ArbInv, QueueInv, ServesStored
    <3>2. ~ Refused(cur.src, cur.dest)
      BY <1>2, <3>1, FreshFromTables DEF ArbInv, FreshSlotServes
    <3>. QED  BY <2>3, <3>2 DEF GiveUp
  <2>. QED  BY <2>2, <2>3
<1>3. \A s \in 0..i : s = i \/ s \in 0..(i - 1)
  BY <1>1
<1>. QED  BY <1>1, <1>2, <1>3 DEF FirstInv

LEMMA ServeFirst ==
    ASSUME ArbInv, FirstInv, Serve \/ SpuriousWake
    PROVE  FirstInv'
<1>1. CASE NewSlot \/ CheckQueues \/ Wait \/ SpuriousWake
  BY <1>1 DEF NewSlot, CheckQueues, Wait, SpuriousWake, WakeUp, FirstInv
<1>2. CASE LoadClass
  <2>1. len[cls] \in Nat
    BY DEF ArbInv, QueueInv, QueueTypes, ServerTypes
  <2>. QED  BY <1>2, <2>1 DEF LoadClass, FirstInv
<1>3. CASE Visit
  BY <1>3 DEF Visit, FirstInv, allocVars, queueVars
<1>4. CASE PassOver \/ GiveUp
  BY <1>4, PassedServed
<1>5. CASE FindPath
  <2>1. reply' # << >>
    <3>1. reply \in Seq(Grant)
      BY DEF ArbInv, AllocInv, AllocTypeOK
    <3>2. \E g : reply' = Append(reply, g)
      BY <1>5 DEF FindPath, GrantChunk, GrantSibling, GrantRouted, Reply
    <3>. QED  BY <3>1, <3>2
  <2>. QED  BY <2>1 DEF FirstInv
<1>6. CASE Remove
  BY <1>6 DEF Remove, FirstInv, allocVars
<1>7. CASE EndClass \/ SendReply \/ EndSlot
  BY <1>7 DEF EndClass, SendReply, EndSlot, FirstInv
<1>. QED  BY <1>1, <1>2, <1>3, <1>4, <1>5, <1>6, <1>7 DEF Serve

\* A slot without a reply passed over nothing but served requests, whatever the
\* slots before it left in prev_vlanid and the receive threads store meanwhile.
THEOREM FirstServed == Spec => []SlotServesFirst
<1>1. Init => FirstInv
  BY DEF Init, FirstInv
<1>2. ArbInv /\ FirstInv /\ [Next]_vars => FirstInv'
  <2>1. ASSUME ArbInv, FirstInv, UNCHANGED vars PROVE FirstInv'
    BY <2>1 DEF vars, allocVars, queueVars, procVars, FirstInv
  <2>. QED  BY <2>1, ReceiveFirst, ServeFirst DEF Next
<1>3. FirstInv => SlotServesFirst
  BY DEF FirstInv, SlotServesFirst
<1>. QED  BY <1>1, <1>2, <1>3, ArbiterInvariant, PTL DEF Spec

-----------------------------------------------------------------------------
(* The order of the replies.                                               *)

\* An array holds demands of its class, or ports not yet written.
InClass(d, c) == d.port = 0 \/ ClassOf(d.port) = c
ClassRank(c) == IF c = 7 THEN 1 ELSE IF c = 5 THEN 2 ELSE 3

OrderInv ==
    /\ \A c \in Class, s \in Slot : InClass(request[c][s], c)
    /\ ppc \in {"find", "remove"} => InClass(cur, cls)
    /\ ppc \in {"check", "wait", "asleep"} => reply = << >>
    /\ ppc \in {"load", "visit", "find", "remove"} =>
         \A m \in DOMAIN reply :
            reply[m].port # 0 => Rank(reply[m].port) <= ClassRank(cls)
    /\ PriorityOrder

LEMMA RankType ==
    /\ \A port \in Port : Rank(port) \in 1..3
    /\ \A c \in Class : \A port : ClassOf(port) = c => Rank(port) = ClassRank(c)
BY DEF Rank, ClassRank, Class

LEMMA SortedInClass ==
    ASSUME NEW c \in Class, NEW a \in [Slot -> Item], NEW n \in Slot,
           NEW b \in Sorted(a, n), \A s \in Slot : InClass(a[s], c)
    PROVE  \A s \in Slot : InClass(b[s], c)
<1>1. PICK p \in [0..(n - 1) -> 0..(n - 1)] :
        b = [s \in DOMAIN a |-> IF s < n THEN a[p[s]] ELSE a[s]]
  BY DEF Sorted
<1>2. n \in Nat /\ 0..(n - 1) \subseteq Slot /\ \A s \in Slot : s < n => s \in 0..(n - 1)
  BY SizeType DEF Slot
<1>. QED  BY <1>1, <1>2

LEMMA ReceiveOrder ==
    ASSUME ArbInv, OrderInv, NEW h \in Client, Receive(h)
    PROVE  OrderInv'
<1>1. CASE ReadDemand(h)
  BY <1>1 DEF ReadDemand, OrderInv, PriorityOrder, queueVars, procVars, allocVars
<1>2. CASE Signal(h)
  <2>1. reply = << >> \/ UNCHANGED <<ppc, cls>>
    BY <1>2 DEF Signal, OrderInv
  <2>. QED  BY <1>2, <2>1
            DEF Signal, WakeUp, OrderInv, PriorityOrder, queueVars, allocVars
<1>3. CASE BeginStore(h) \/ EndStore(h)
  <2> DEFINE c == ClassOf(demand[h].port)
  <2>1. /\ c \in Class /\ len[c] \in Slot
        /\ request \in [Class -> [Slot -> Item]] /\ demand[h] \in Item
    BY <1>3, LenInSlot DEF ArbInv, QueueInv, QueueTypes, StoreLocked, BeginStore, EndStore
  <2>2. PICK e : request' = [request EXCEPT ![c][len[c]] = e] /\ InClass(e, c)
    <3>1. CASE BeginStore(h)
      <4>1. InClass([demand[h] EXCEPT !.port = request[c][len[c]].port], c)
        BY <2>1 DEF InClass, OrderInv, Item, Entry
      <4>. QED  BY <3>1, <4>1 DEF BeginStore
    <3>2. CASE EndStore(h)
      <4>1. InClass([request[c][len[c]] EXCEPT !.port = demand[h].port], c)
        BY <2>1 DEF InClass, Item, Entry
      <4>2. request' = [request EXCEPT ![c][len[c]] =
                          [request[c][len[c]] EXCEPT !.port = demand[h].port]]
        BY <2>1, <3>2 DEF EndStore
      <4>. QED  BY <4>1, <4>2
    <3>. QED  BY <1>3, <3>1, <3>2
  <2>3. UNCHANGED <<allocVars, procVars>>
    BY <1>3 DEF BeginStore, EndStore
  <2> HIDE DEF c
  <2>4. \A d \in Class, s \in Slot : InClass(request'[d][s], d)
    BY <2>1, <2>2 DEF OrderInv
  <2>. QED  BY <2>3, <2>4 DEF OrderInv, PriorityOrder, InClass, procVars, allocVars
<1>. QED  BY <1>1, <1>2, <1>3 DEF Receive

\* A chunk granted now is of the class being served, or its port was not written.
LEMMA FindPathOrder ==
    ASSUME ArbInv, OrderInv, FindPath
    PROVE  OrderInv'
<1>1. /\ ppc = "find" /\ cls \in Class /\ i \in Slot
      /\ request \in [Class -> [Slot -> Item]]
      /\ request' = [request EXCEPT ![cls][i].flow = @ - 1]
      /\ ppc' \in {"find", "remove"} /\ UNCHANGED <<cls, cur>>
  BY DEF FindPath, ArbInv, QueueInv, QueueTypes, ServerTypes
<1>2. reply \in Seq(Grant) /\ Len(reply) \in Nat
  BY DEF ArbInv, AllocInv, AllocTypeOK
<1>3. PICK g : reply' = Append(reply, g) /\ g.port = cur.port
  <2>1. \E k : reply' = Append(reply, [src |-> cur.src, dest |-> cur.dest,
                                      path |-> k, port |-> cur.port])
    BY DEF FindPath, GrantChunk, GrantSibling, GrantRouted, Reply
  <2>. QED  BY <2>1
<1>4. /\ DOMAIN reply = 1..Len(reply) /\ DOMAIN reply' = 1..(Len(reply) + 1)
      /\ \A m \in DOMAIN reply : reply'[m] = reply[m] /\ reply[m].port \in Port
      /\ reply'[Len(reply) + 1] = g
  <2>1. \A m \in 1..Len(reply) : reply[m] \in Grant
    BY <1>2
  <2>2. \A m \in 1..Len(reply) : reply[m].port \in Port
    BY <2>1 DEF Grant
  <2>. QED  BY <1>2, <1>3, <2>2
<1>5. InClass(cur, cls) /\ cur.port \in Port
  BY <1>1, ItemType DEF OrderInv, ArbInv, QueueInv, ServerTypes
<1>6. g.port # 0 => Rank(g.port) = ClassRank(cls) /\ Rank(g.port) \in 1..3
  BY <1>1, <1>3, <1>5, RankType DEF InClass
<1>7. \A c \in Class, s \in Slot : InClass(request'[c][s], c)
  <2>1. \A c \in Class, s \in Slot : request'[c][s].port = request[c][s].port
    BY <1>1 DEF Item, Entry
  <2>. QED  BY <2>1 DEF OrderInv, InClass
<1>8. \A m \in DOMAIN reply' :
        reply'[m].port # 0 => Rank(reply'[m].port) <= ClassRank(cls)
  <2>1. \A m \in DOMAIN reply :
          reply[m].port # 0 => Rank(reply[m].port) <= ClassRank(cls)
    BY <1>1 DEF OrderInv
  <2>2. \A m \in DOMAIN reply' : m \in DOMAIN reply \/ m = Len(reply) + 1
    BY <1>2, <1>4
  <2>. QED  BY <1>4, <1>6, <2>1, <2>2
<1>9. PriorityOrder'
  <2> SUFFICES ASSUME NEW m \in DOMAIN reply', NEW n \in DOMAIN reply', m < n,
                      reply'[m].port # 0, reply'[n].port # 0
               PROVE  Rank(reply'[m].port) <= Rank(reply'[n].port)
    BY DEF PriorityOrder
  <2>1. m \in DOMAIN reply
    BY <1>2, <1>4
  <2>2. CASE n \in DOMAIN reply
    BY <1>4, <2>1, <2>2 DEF OrderInv, PriorityOrder
  <2>3. CASE n = Len(reply) + 1
    BY <1>4, <1>6, <1>8, <2>3
  <2>. QED  BY <1>2, <1>4, <2>2, <2>3
<1>. QED  BY <1>1, <1>5, <1>7, <1>8, <1>9 DEF OrderInv, InClass

\* Sorting and removing keep an array to its class.
LEMMA ArrayOrder ==
    ASSUME ArbInv, OrderInv, LoadClass \/ Remove
    PROVE  OrderInv'
<1>1. /\ cls \in Class /\ len[cls] \in Slot /\ i \in Slot
      /\ request \in [Class -> [Slot -> Item]] /\ request[cls] \in [Slot -> Item]
  BY LenInSlot DEF ArbInv, QueueInv, QueueTypes, ServerTypes
<1>2. /\ UNCHANGED <<allocVars, cls>> /\ ppc' = "visit"
      /\ ppc \in {"load", "remove"}
  BY DEF LoadClass, Remove
<1>3. PICK b : /\ request' = [request EXCEPT ![cls] = b]
               /\ \A s \in Slot : InClass(b[s], cls)
  <2>1. CASE LoadClass
    <3>1. PICK b \in Sorted(request[cls], len[cls]) :
            request' = [request EXCEPT ![cls] = b]
      BY <2>1 DEF LoadClass
    <3>2. \A s \in Slot : InClass(request[cls][s], cls)
      BY <1>1 DEF OrderInv
    <3>3. \A s \in Slot : InClass(b[s], cls)
      BY <1>1, <3>2, SortedInClass
    <3>. QED  BY <3>1, <3>3
  <2>2. CASE Remove
    <3> DEFINE a == Shift(request[cls], i, len[cls])
               n == len[cls] - 1
    <3>1. /\ len[cls] \in Nat /\ n \in Slot /\ i \in 0..(len[cls] - 1)
          /\ \A s \in Slot : s \in Nat /\ (s < len[cls] => s + 1 \in Slot)
      <4>1. i < len[cls]
        BY <2>2, UnlockedIdle, <1>1
           DEF Remove, ArbInv, QueueInv, ServesStored
      <4>. QED  BY <1>1, <4>1, SizeType DEF Slot
    <3>2. a \in [Slot -> Item]
      BY <1>1, <3>1, ShiftItems, Zenon
    <3>3. \A s \in Slot : InClass(a[s], cls)
      BY <1>1, <3>1 DEF OrderInv, Shift
    <3>4. PICK b \in Sorted(a, n) : request' = [request EXCEPT ![cls] = b]
      BY <2>2 DEF Remove
    <3> HIDE DEF a, n
    <3>5. \A s \in Slot : InClass(b[s], cls)
      BY <1>1, <3>1, <3>2, <3>3, SortedInClass
    <3>. QED  BY <3>4, <3>5
  <2>. QED  BY <2>1, <2>2
<1>4. \A c \in Class, s \in Slot : InClass(request'[c][s], c)
  BY <1>1, <1>3 DEF OrderInv
<1>. QED  BY <1>2, <1>4 DEF OrderInv, PriorityOrder, InClass, allocVars

\* A class is served after those that go before it.
LEMMA ServeOrder ==
    ASSUME ArbInv, OrderInv, Serve \/ SpuriousWake
    PROVE  OrderInv'
<1>1. CASE NewSlot
  BY <1>1 DEF NewSlot, ClearSlot, OrderInv, PriorityOrder, queueVars
<1>2. CASE CheckQueues \/ Wait \/ SpuriousWake
  BY <1>2 DEF CheckQueues, Wait, SpuriousWake, WakeUp, OrderInv, PriorityOrder,
              queueVars, allocVars
<1>3. CASE LoadClass \/ Remove
  BY <1>3, ArrayOrder
<1>4. CASE Visit
  <2>1. InClass(request[cls][i], cls)
    BY DEF OrderInv, ArbInv, QueueInv, ServerTypes
  <2>. QED  BY <1>4, <2>1 DEF Visit, OrderInv, PriorityOrder, InClass, queueVars, allocVars
<1>5. CASE PassOver \/ GiveUp
  BY <1>5 DEF PassOver, GiveUp, OrderInv, PriorityOrder, queueVars, allocVars
<1>6. CASE FindPath
  BY <1>6, FindPathOrder
<1>7. CASE EndClass
  <2>1. /\ reply \in Seq(Grant) /\ DOMAIN reply = 1..Len(reply)
        /\ \A m \in DOMAIN reply : Rank(reply[m].port) \in 1..3
    <3>1. reply \in Seq(Grant)
      BY DEF ArbInv, AllocInv, AllocTypeOK
    <3>2. \A m \in DOMAIN reply : reply[m].port \in Port
      <4>1. \A m \in DOMAIN reply : reply[m] \in Grant
        BY <3>1
      <4>. QED  BY <4>1 DEF Grant
    <3>3. DOMAIN reply = 1..Len(reply)
      BY <3>1
    <3>. QED  BY <3>1, <3>2, <3>3, RankType
  <2>2. UNCHANGED <<request, reply>> /\ ppc = "visit" /\ ppc' \in {"load", "send"}
    BY <1>7 DEF EndClass, allocVars, queueVars
  <2>3. ppc' = "load" => ClassRank(cls') = ClassRank(cls) + 1 /\ ClassRank(cls) \in 1..2
    BY <1>7 DEF EndClass, ClassRank
  <2>4. ppc' = "load" =>
          \A m \in DOMAIN reply :
             reply[m].port # 0 => Rank(reply[m].port) <= ClassRank(cls')
    BY <2>1, <2>2, <2>3 DEF OrderInv
  <2>. QED  BY <2>2, <2>4 DEF OrderInv, PriorityOrder
<1>8. CASE SendReply \/ EndSlot
  BY <1>8 DEF SendReply, EndSlot, OrderInv, PriorityOrder, queueVars, allocVars
<1>. QED  BY <1>1, <1>2, <1>3, <1>4, <1>5, <1>6, <1>7, <1>8 DEF Serve

\* The replies of a slot come in the priority of their classes, whichever class
\* was signalled first and whatever is stored while the slot is filled.
THEOREM RepliesByPriority == Spec => []PriorityOrder
<1>1. Init => OrderInv
  BY EmptyType DEF Init, AllocInit, OrderInv, PriorityOrder, InClass
<1>2. ArbInv /\ OrderInv /\ [Next]_vars => OrderInv'
  <2>1. ASSUME OrderInv, UNCHANGED vars PROVE OrderInv'
    BY <2>1 DEF vars, allocVars, queueVars, procVars, OrderInv, PriorityOrder, InClass
  <2>. QED  BY <2>1, ReceiveOrder, ServeOrder DEF Next
<1>3. OrderInv => PriorityOrder
  BY DEF OrderInv
<1>. QED  BY <1>1, <1>2, <1>3, ArbiterInvariant, PTL DEF Spec
=============================================================================
