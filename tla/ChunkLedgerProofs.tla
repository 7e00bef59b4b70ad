------------------------- MODULE ChunkLedgerProofs -------------------------
(***************************************************************************)
(* No chunk is lost, for every set of clients and all their traffic: each  *)
(* step of the arbiter moves the chunks of a flow from place to place, so  *)
(* that those located and those asked for stay in a bijection.             *)
(***************************************************************************)
EXTENDS ChunkLedger, ArbiterProofs, FunctionTheorems, SequenceTheorems

\* The places of all states, and what each holds of flow f in this one.
Place == {"inbox", "thread", "array", "reply", "outbox"} \X Nat \X Nat

InboxAt(h, n, f) ==
    IF h \in Client /\ n \in 1..Len(inbox[h]) THEN Wanted(inbox[h][n], f) ELSE 0
ThreadAt(h, n, f) ==
    IF h \in Client /\ gpc[h] = "lock" /\ n = 1 THEN Chunks(demand[h], f) ELSE 0
ArrayAt(c, s, f) ==
    IF c \in Class /\ s \in Slot THEN Chunks(request[c][s], f) ELSE 0
ReplyAt(m, n, f) ==
    IF m = 0 /\ n \in Unsent..Len(reply) THEN Granted(reply[n], f) ELSE 0
OutboxAt(h, n, f) ==
    IF h \in Client /\ n \in 1..Len(outbox[h]) THEN Granted(outbox[h][n], f) ELSE 0

Held(p, f) ==
    CASE p[1] = "inbox"  -> InboxAt(p[2], p[3], f)
      [] p[1] = "thread" -> ThreadAt(p[2], p[3], f)
      [] p[1] = "array"  -> ArrayAt(p[2], p[3], f)
      [] p[1] = "reply"  -> ReplyAt(p[2], p[3], f)
      [] p[1] = "outbox" -> OutboxAt(p[2], p[3], f)

Weight(f) == [p \in Place |-> Held(p, f)]

\* Numbered chunks, V[p] of them at place p.
Units(V) == {x \in Place \X Nat : 1 <= x[2] /\ x[2] <= V[x[1]]}

\* A chunk that was granted goes to the client that asked for it.
SourceInv ==
    /\ \A h \in Client : \A n \in 1..Len(inbox[h]) : inbox[h][n].src = h
    /\ \A h \in Client : gpc[h] \in {"lock", "port"} => demand[h].src = h
    /\ \A c \in Class, s \in Slot : request[c][s].flow > 0 => request[c][s].src \in Client
    /\ ppc = "find" => cur.src \in Client
    /\ \A n \in 1..Len(reply) : reply[n].src \in Client

LedgerInv == \A f \in Flow : ExistsBijection(Asked(f), Located(f))

-----------------------------------------------------------------------------
(* Moving weights.                                                         *)

\* What every place holds is moved, as a whole, to a place of its own.
LEMMA AllMoved ==
    ASSUME NEW V \in [Place -> Nat], NEW W \in [Place -> Nat], NEW m \in [Place -> Place],
           \A p \in Place : V[p] > 0 => W[m[p]] = V[p],
           \A p, q \in Place : V[p] > 0 /\ V[q] > 0 /\ m[p] = m[q] => p = q,
           \A q \in Place : W[q] > 0 => \E p \in Place : V[p] > 0 /\ m[p] = q
    PROVE  ExistsBijection(Units(V), Units(W))
<1>. DEFINE g == [x \in Units(V) |-> <<m[x[1]], x[2]>>]
<1>1. \A x \in Units(V) : /\ x[1] \in Place /\ x[2] \in Nat /\ x = <<x[1], x[2]>>
                          /\ 1 <= x[2] /\ x[2] <= V[x[1]] /\ V[x[1]] > 0
  BY DEF Units
<1>2. ASSUME NEW x \in Units(V) PROVE g[x] \in Units(W)
  BY <1>1 DEF Units
<1>3. ASSUME NEW x \in Units(V), NEW y \in Units(V), g[x] = g[y] PROVE x = y
  BY <1>1, <1>3
<1>4. ASSUME NEW y \in Units(W) PROVE \E x \in Units(V) : g[x] = y
  <2>1. y[1] \in Place /\ y[2] \in Nat /\ y = <<y[1], y[2]>> /\ 1 <= y[2] /\ y[2] <= W[y[1]]
    BY DEF Units
  <2>2. PICK p \in Place : V[p] > 0 /\ m[p] = y[1]
    BY <2>1
  <2>3. <<p, y[2]>> \in Units(V)
    BY <2>1, <2>2 DEF Units
  <2>. QED  BY <2>1, <2>2, <2>3
<1>5. g \in Bijection(Units(V), Units(W))
  BY <1>2, <1>3, <1>4, Fun_IsBij
<1>. QED  BY <1>5, Fun_ExistsBij

\* One chunk goes from place a to place b.
LEMMA OneMoved ==
    ASSUME NEW V \in [Place -> Nat], NEW W \in [Place -> Nat],
           NEW a \in Place, NEW b \in Place, a # b, V[a] > 0,
           W[a] = V[a] - 1, W[b] = V[b] + 1,
           \A p \in Place : p # a /\ p # b => W[p] = V[p]
    PROVE  ExistsBijection(Units(V), Units(W))
<1>. DEFINE g == [x \in Units(V) |-> IF x = <<a, V[a]>> THEN <<b, V[b] + 1>> ELSE x]
<1>1. \A x \in Place \X Nat : x[1] \in Place /\ x[2] \in Nat /\ x = <<x[1], x[2]>>
  OBVIOUS
<1>2. \A x : x \in Units(V) <=> x \in Place \X Nat /\ 1 <= x[2] /\ x[2] <= V[x[1]]
  BY DEF Units
<1>3. \A x : x \in Units(W) <=> x \in Place \X Nat /\ 1 <= x[2] /\ x[2] <= W[x[1]]
  BY DEF Units
<1>4. <<a, V[a]>> \in Units(V) /\ <<b, V[b] + 1>> \in Units(W) /\ <<b, V[b] + 1>> \notin Units(V)
  BY <1>2, <1>3
<1>5. ASSUME NEW x \in Place \X Nat, x # <<a, V[a]>>, x # <<b, V[b] + 1>>
      PROVE  x \in Units(V) <=> x \in Units(W)
  <2>1. CASE x[1] = a
    BY <1>1, <1>2, <1>3, <1>5, <2>1
  <2>2. CASE x[1] = b
    BY <1>1, <1>2, <1>3, <1>5, <2>2
  <2>3. CASE x[1] # a /\ x[1] # b
    BY <1>1, <1>2, <1>3, <2>3
  <2>. QED  BY <2>1, <2>2, <2>3
<1>6. <<a, V[a]>> \notin Units(W)
  BY <1>3
<1>7. ASSUME NEW x \in Units(V) PROVE g[x] \in Units(W)
  BY <1>2, <1>4, <1>5
<1>8. ASSUME NEW x \in Units(V), NEW y \in Units(V), g[x] = g[y] PROVE x = y
  BY <1>4, <1>8
<1>9. ASSUME NEW y \in Units(W) PROVE \E x \in Units(V) : g[x] = y
  BY <1>3, <1>4, <1>5, <1>6
<1>10. g \in Bijection(Units(V), Units(W))
  BY <1>7, <1>8, <1>9, Fun_IsBij
<1>. QED  BY <1>10, Fun_ExistsBij

-----------------------------------------------------------------------------
(* Weights and located chunks.                                             *)

LEMMA Numbers ==
    Client \subseteq Nat /\ Class \subseteq Nat /\ Slot \subseteq Nat /\ 0 \notin Client
BY TrafficType, SizeType DEF Host, Class, Slot

LEMMA LedgerTypes ==
    ASSUME ArbInv
    PROVE  /\ \A h \in Client : /\ inbox[h] \in Seq(Demand) /\ Len(inbox[h]) \in Nat
                                /\ DOMAIN inbox[h] = 1..Len(inbox[h])
                                /\ outbox[h] \in Seq(Grant) /\ Len(outbox[h]) \in Nat
                                /\ DOMAIN outbox[h] = 1..Len(outbox[h])
                                /\ demand[h] \in Item
           /\ \A c \in Class, s \in Slot : request[c][s] \in Item
           /\ \A c \in Class : len[c] \in Slot /\ len[c] \in Nat
           /\ reply \in Seq(Grant) /\ Len(reply) \in Nat /\ Unsent \in Nat /\ Unsent >= 1
BY LenProperties, LenInSlot
DEF ArbInv, AllocInv, AllocTypeOK, QueueInv, QueueTypes, ServerTypes, Unsent

LEMMA WeightType == ArbInv => \A f \in Flow : Weight(f) \in [Place -> Nat]
<1>. SUFFICES ASSUME ArbInv, NEW f \in Flow, NEW p \in Place PROVE Held(p, f) \in Nat
  BY DEF Weight
<1>1. \A d \in Item : Chunks(d, f) \in Nat /\ Wanted(d, f) \in Nat
  BY ItemType DEF Chunks, Wanted
<1>2. \A h \in Client, n \in Nat : n \in 1..Len(inbox[h]) => inbox[h][n] \in Item
  BY LedgerTypes, ItemType
<1>. QED
  BY <1>1, <1>2, LedgerTypes
  DEF Held, Place, InboxAt, ThreadAt, ArrayAt, ReplyAt, OutboxAt, Granted

LEMMA UnitsLocated == ArbInv => \A f \in Flow : Located(f) = Units(Weight(f))
<1>. SUFFICES ASSUME ArbInv, NEW f \in Flow PROVE Located(f) = Units(Weight(f))
  OBVIOUS
<1>0. ASSUME NEW k, NEW h, NEW n
      PROVE  <<k, h, n>> \in Places <=>
                \/ k = "inbox" /\ h \in Client /\ n \in 1..Len(inbox[h])
                \/ k = "thread" /\ h \in Client /\ gpc[h] = "lock" /\ n = 1
                \/ k = "array" /\ h \in Class /\ n \in Slot
                \/ k = "reply" /\ h = 0 /\ n \in Unsent..Len(reply)
                \/ k = "outbox" /\ h \in Client /\ n \in 1..Len(outbox[h])
  <2>1. <<k, h, n>> \in UNION {{"inbox"} \X {x} \X DOMAIN inbox[x] : x \in Client}
          <=> k = "inbox" /\ h \in Client /\ n \in 1..Len(inbox[h])
    BY LedgerTypes
  <2>2. <<k, h, n>> \in UNION {{"outbox"} \X {x} \X DOMAIN outbox[x] : x \in Client}
          <=> k = "outbox" /\ h \in Client /\ n \in 1..Len(outbox[h])
    BY LedgerTypes
  <2>3. <<k, h, n>> \in {"thread"} \X {x \in Client : gpc[x] = "lock"} \X {1}
          <=> k = "thread" /\ h \in Client /\ gpc[h] = "lock" /\ n = 1
    OBVIOUS
  <2>4. <<k, h, n>> \in {"array"} \X Class \X Slot <=> k = "array" /\ h \in Class /\ n \in Slot
    OBVIOUS
  <2>5. <<k, h, n>> \in {"reply"} \X {0} \X (Unsent..Len(reply))
          <=> k = "reply" /\ h = 0 /\ n \in Unsent..Len(reply)
    OBVIOUS
  <2>. QED  BY <2>1, <2>2, <2>3, <2>4, <2>5, Zenon DEF Places
<1>1. Places \subseteq Place
  <2>1. ASSUME NEW p \in Places PROVE \E k, h, n : p = <<k, h, n>>
    <3>1. CASE p \in UNION {{"inbox"} \X {h} \X DOMAIN inbox[h] : h \in Client}
      BY <3>1
    <3>2. CASE p \in UNION {{"outbox"} \X {h} \X DOMAIN outbox[h] : h \in Client}
      BY <3>2
    <3>3. CASE p \in {"thread"} \X {h \in Client : gpc[h] = "lock"} \X {1}
      BY <3>3
    <3>4. CASE p \in {"array"} \X Class \X Slot
      BY <3>4
    <3>5. CASE p \in {"reply"} \X {0} \X (Unsent..Len(reply))
      BY <3>5
    <3>. QED  BY <3>1, <3>2, <3>3, <3>4, <3>5 DEF Places
  <2>2. ASSUME NEW k, NEW h, NEW n, <<k, h, n>> \in Places PROVE <<k, h, n>> \in Place
    <3>0. \/ k = "inbox" /\ h \in Client /\ n \in 1..Len(inbox[h])
          \/ k = "thread" /\ h \in Client /\ gpc[h] = "lock" /\ n = 1
          \/ k = "array" /\ h \in Class /\ n \in Slot
          \/ k = "reply" /\ h = 0 /\ n \in Unsent..Len(reply)
          \/ k = "outbox" /\ h \in Client /\ n \in 1..Len(outbox[h])
      BY <1>0, <2>2
    <3>1. h \in Nat
      <4>. 0 \in Nat
        OBVIOUS
      <4>. QED  BY <3>0, Numbers, Zenon
    <3>2. n \in Nat
      <4>1. 1 \in Nat /\ Unsent \in Nat /\ \A a \in Nat : \A b : a..b \subseteq Nat
        BY LedgerTypes
      <4>. QED  BY <3>0, <4>1, Numbers
    <3>3. k \in {"inbox", "thread", "array", "reply", "outbox"}
      BY <3>0
    <3>. QED  BY <3>1, <3>2, <3>3 DEF Place
  <2>. QED  BY <2>1, <2>2
<1>2. ASSUME NEW p \in Place
      PROVE  /\ p \in Places => Held(p, f) = ChunksAt(p, f)
             /\ p \notin Places => Held(p, f) = 0
  <2>1. /\ p = <<p[1], p[2], p[3]>> /\ p[2] \in Nat /\ p[3] \in Nat
        /\ p[1] \in {"inbox", "thread", "array", "reply", "outbox"}
    BY DEF Place
  <2>2. p \in Places <=>
                \/ p[1] = "inbox" /\ p[2] \in Client /\ p[3] \in 1..Len(inbox[p[2]])
                \/ p[1] = "thread" /\ p[2] \in Client /\ gpc[p[2]] = "lock" /\ p[3] = 1
                \/ p[1] = "array" /\ p[2] \in Class /\ p[3] \in Slot
                \/ p[1] = "reply" /\ p[2] = 0 /\ p[3] \in Unsent..Len(reply)
                \/ p[1] = "outbox" /\ p[2] \in Client /\ p[3] \in 1..Len(outbox[p[2]])
    BY <1>0, <2>1
  <2>3. CASE p[1] = "inbox"
    BY <2>2, <2>3 DEF Held, ChunksAt, InboxAt
  <2>4. CASE p[1] = "thread"
    BY <2>2, <2>4 DEF Held, ChunksAt, ThreadAt
  <2>5. CASE p[1] = "array"
    BY <2>2, <2>5 DEF Held, ChunksAt, ArrayAt
  <2>6. CASE p[1] = "reply"
    BY <2>2, <2>6 DEF Held, ChunksAt, ReplyAt
  <2>7. CASE p[1] = "outbox"
    BY <2>2, <2>7 DEF Held, ChunksAt, OutboxAt
  <2>. QED  BY <2>1, <2>3, <2>4, <2>5, <2>6, <2>7
<1>3. Weight(f) \in [Place -> Nat] /\ \A p \in Place : Weight(f)[p] = Held(p, f)
  BY WeightType DEF Weight
<1>4. ASSUME NEW x \in Located(f) PROVE x \in Units(Weight(f))
  <2>1. PICK p \in Places : x \in {p} \X (1..ChunksAt(p, f))
    BY DEF Located
  <2>2. p \in Place /\ Weight(f)[p] = ChunksAt(p, f) /\ Weight(f)[p] \in Nat
    BY <1>1, <1>2, <1>3
  <2>. QED  BY <2>1, <2>2 DEF Units
<1>5. ASSUME NEW x \in Units(Weight(f)) PROVE x \in Located(f)
  <2>1. /\ x[1] \in Place /\ x[2] \in Nat /\ x = <<x[1], x[2]>>
        /\ 1 <= x[2] /\ x[2] <= Weight(f)[x[1]]
    BY DEF Units
  <2>2. x[1] \in Places /\ x[2] \in 1..ChunksAt(x[1], f)
    BY <1>2, <1>3, <2>1
  <2>. QED  BY <2>1, <2>2 DEF Located
<1>. QED  BY <1>4, <1>5

-----------------------------------------------------------------------------
(* The ways in which steps move weights.                                   *)

\* All that place a holds goes to the empty place b.
LEMMA Handed ==
    ASSUME NEW V \in [Place -> Nat], NEW W \in [Place -> Nat],
           NEW a \in Place, NEW b \in Place, a # b,
           V[b] = 0, W[a] = 0, W[b] = V[a],
           \A p \in Place : p # a /\ p # b => W[p] = V[p]
    PROVE  ExistsBijection(Units(V), Units(W))
<1>. DEFINE m == [p \in Place |-> IF p = a THEN b ELSE p]
<1>1. m \in [Place -> Place]
  OBVIOUS
<1>2. \A p \in Place : V[p] > 0 => W[m[p]] = V[p]
  OBVIOUS
<1>3. \A p, q \in Place : V[p] > 0 /\ V[q] > 0 /\ m[p] = m[q] => p = q
  OBVIOUS
<1>4. ASSUME NEW q \in Place, W[q] > 0 PROVE \E p \in Place : V[p] > 0 /\ m[p] = q
  <2>1. CASE q = b
    BY <1>4, <2>1
  <2>2. CASE q # b
    BY <1>4, <2>2
  <2>. QED  BY <2>1, <2>2
<1>. HIDE DEF m
<1>. QED  BY <1>1, <1>2, <1>3, <1>4, AllMoved

\* A permutation of the first n slots of an array.
LEMMA OneToOneOnto ==
    ASSUME NEW n \in Nat, NEW q \in [0..(n - 1) -> 0..(n - 1)],
           \A s, t \in 0..(n - 1) : s < t => q[s] # q[t]
    PROVE  \A t \in 0..(n - 1) : \E s \in 0..(n - 1) : q[s] = t
<1>1. IsFiniteSet(0..(n - 1))
  BY FS_Interval
<1>2. \A s, t \in 0..(n - 1) : q[s] = q[t] => s = t
  OBVIOUS
<1>3. q \in Injection(0..(n - 1), 0..(n - 1))
  BY <1>2, Fun_IsInj
<1>4. q \in Surjection(0..(n - 1), 0..(n - 1))
  BY <1>1, <1>3, FS_Injection
<1>. QED  BY <1>4, Fun_SurjectionProperties

PermutedBy(V, W, c, n, q) ==
    /\ q \in [0..(n - 1) -> 0..(n - 1)]
    /\ \A s, t \in 0..(n - 1) : s < t => q[s] # q[t]
    /\ \A s \in Nat : W[<<"array", c, s>>] = V[<<"array", c, IF s < n THEN q[s] ELSE s>>]
    /\ \A p \in Place : ~ (p[1] = "array" /\ p[2] = c) => W[p] = V[p]

LEMMA Permuted ==
    ASSUME NEW V \in [Place -> Nat], NEW W \in [Place -> Nat], NEW c \in Class,
           NEW n \in Slot, NEW q, PermutedBy(V, W, c, n, q)
    PROVE  ExistsBijection(Units(V), Units(W))
<1>. USE DEF PermutedBy
<1>. DEFINE r(s) == IF s < n THEN q[s] ELSE s
            m == [p \in Place |-> IF p[1] = "array" /\ p[2] = c
                                  THEN <<"array", c, r(p[3])>> ELSE p]
<1>1. n \in Nat /\ c \in Nat
  BY Numbers
<1>2. \A s \in Nat : r(s) \in Nat /\ (s < n <=> r(s) < n)
  BY <1>1
<1>3. \A s, t \in Nat : r(s) = r(t) => s = t
  <2>1. \A s, t \in 0..(n - 1) : q[s] = q[t] => s = t
    BY <1>1
  <2>2. \A s \in Nat : s < n => s \in 0..(n - 1)
    BY <1>1
  <2>. QED  BY <1>2, <2>1, <2>2
<1>4. \A t \in Nat : \E s \in Nat : r(s) = t
  <2>. SUFFICES ASSUME NEW t \in Nat PROVE \E s \in Nat : r(s) = t
    OBVIOUS
  <2>1. CASE t < n
    <3>1. t \in 0..(n - 1)
      BY <1>1, <2>1
    <3>2. PICK s \in 0..(n - 1) : q[s] = t
      BY <1>1, <3>1, OneToOneOnto
    <3>3. s \in Nat /\ s < n
      BY <1>1
    <3>. QED  BY <3>2, <3>3
  <2>2. CASE ~ (t < n)
    BY <2>2
  <2>. QED  BY <2>1, <2>2
<1>. HIDE DEF r
<1>5. \A p \in Place : p[3] \in Nat /\ p = <<p[1], p[2], p[3]>>
  BY DEF Place
<1>6. \A s \in Nat : <<"array", c, s>> \in Place /\ W[<<"array", c, s>>] = V[<<"array", c, r(s)>>]
  BY <1>1 DEF Place, r
<1>7. m \in [Place -> Place]
  BY <1>2, <1>5, <1>6
<1>8. \A p \in Place : V[m[p]] = W[p]
  BY <1>5, <1>6
<1>9. ASSUME NEW p \in Place, NEW u \in Place, m[p] = m[u] PROVE p = u
  <2>1. CASE p[1] = "array" /\ p[2] = c
    <3>1. m[u] = <<"array", c, r(p[3])>>
      BY <1>9, <2>1
    <3>2. u[1] = "array" /\ u[2] = c /\ r(u[3]) = r(p[3])
      BY <3>1
    <3>. QED  BY <1>3, <1>5, <2>1, <3>2
  <2>2. CASE ~ (p[1] = "array" /\ p[2] = c)
    BY <1>9, <2>2
  <2>. QED  BY <2>1, <2>2
<1>10. ASSUME NEW u \in Place PROVE \E p \in Place : m[p] = u
  <2>1. CASE u[1] = "array" /\ u[2] = c
    <3>1. PICK s \in Nat : r(s) = u[3]
      BY <1>4, <1>5
    <3>2. m[<<"array", c, s>>] = <<"array", c, u[3]>>
      BY <1>6, <3>1
    <3>. QED  BY <1>5, <1>6, <2>1, <3>2
  <2>2. CASE ~ (u[1] = "array" /\ u[2] = c)
    BY <2>2
  <2>. QED  BY <2>1, <2>2
<1>. HIDE DEF m
<1>11. \A p \in Place : W[p] > 0 => V[m[p]] = W[p]
  BY <1>8
<1>12. \A p, u \in Place : W[p] > 0 /\ W[u] > 0 /\ m[p] = m[u] => p = u
  BY <1>9
<1>13. \A u \in Place : V[u] > 0 => \E p \in Place : W[p] > 0 /\ m[p] = u
  BY <1>8, <1>10
<1>14. ExistsBijection(Units(W), Units(V))
  BY <1>7, <1>11, <1>12, <1>13, AllMoved
<1>. QED  BY <1>14, Fun_ExistsBijSymmetric

\* The removal of slot i, which holds nothing, from an array with nothing in
\* slot n.
LEMMA MovedDown ==
    ASSUME NEW V \in [Place -> Nat], NEW W \in [Place -> Nat], NEW c \in Class,
           NEW n \in Slot, NEW j \in 0..(n - 1),
           V[<<"array", c, j>>] = 0, V[<<"array", c, n>>] = 0,
           \A s \in Nat : W[<<"array", c, s>>]
                            = V[<<"array", c, IF j <= s /\ s < n THEN s + 1 ELSE s>>],
           \A p \in Place : ~ (p[1] = "array" /\ p[2] = c) => W[p] = V[p]
    PROVE  ExistsBijection(Units(V), Units(W))
<1>. DEFINE r(s) == IF j < s /\ s <= n THEN s - 1 ELSE s
            m == [p \in Place |-> IF p[1] = "array" /\ p[2] = c
                                  THEN <<"array", c, r(p[3])>> ELSE p]
<1>1. n \in Nat /\ c \in Nat /\ j \in Nat /\ j < n
  BY Numbers
<1>2. \A s \in Nat : r(s) \in Nat
  BY <1>1
<1>3. \A p \in Place : p[3] \in Nat /\ p = <<p[1], p[2], p[3]>>
  BY DEF Place
<1>4. \A s \in Nat : <<"array", c, s>> \in Place
  BY <1>1 DEF Place
<1>5. \A s \in Nat : V[<<"array", c, s>>] > 0 => s # j /\ s # n
  BY <1>4
<1>6. \A s \in Nat : s # j /\ s # n =>
         W[<<"array", c, r(s)>>] = V[<<"array", c, s>>]
  <2>. SUFFICES ASSUME NEW s \in Nat, s # j, s # n
                PROVE  W[<<"array", c, r(s)>>] = V[<<"array", c, s>>]
    OBVIOUS
  <2>1. CASE j < s /\ s < n
    <3>1. s - 1 \in Nat /\ j <= s - 1 /\ s - 1 < n /\ (s - 1) + 1 = s /\ r(s) = s - 1
      BY <1>1, <2>1
    <3>. QED  BY <3>1
  <2>2. CASE ~ (j < s /\ s < n)
    <3>1. ~ (j <= s /\ s < n) /\ r(s) = s
      BY <1>1, <2>2
    <3>. QED  BY <3>1
  <2>. QED  BY <2>1, <2>2
<1>7. \A s, t \in Nat : s # j /\ t # j /\ r(s) = r(t) => s = t
  BY <1>1
<1>8. ASSUME NEW t \in Nat, W[<<"array", c, t>>] > 0
      PROVE  \E s \in Nat : V[<<"array", c, s>>] > 0 /\ r(s) = t
  <2>1. CASE j <= t /\ t < n
    <3>1. t + 1 \in Nat /\ V[<<"array", c, t + 1>>] > 0
      BY <1>8, <2>1
    <3>2. r(t + 1) = t
      BY <1>1, <2>1
    <3>. QED  BY <3>1, <3>2
  <2>2. CASE ~ (j <= t /\ t < n)
    <3>1. V[<<"array", c, t>>] > 0
      BY <1>8, <2>2
    <3>2. r(t) = t
      BY <1>1, <1>5, <2>2, <3>1
    <3>. QED  BY <3>1, <3>2
  <2>. QED  BY <2>1, <2>2
<1>. HIDE DEF r
<1>9. m \in [Place -> Place]
  BY <1>2, <1>3, <1>4
<1>10. ASSUME NEW p \in Place, V[p] > 0 PROVE W[m[p]] = V[p]
  BY <1>3, <1>5, <1>6, <1>10
<1>11. ASSUME NEW p \in Place, NEW u \in Place, V[p] > 0, V[u] > 0, m[p] = m[u] PROVE p = u
  <2>1. CASE p[1] = "array" /\ p[2] = c
    <3>1. m[u] = <<"array", c, r(p[3])>>
      BY <1>11, <2>1
    <3>2. u[1] = "array" /\ u[2] = c /\ r(u[3]) = r(p[3])
      BY <3>1
    <3>. QED  BY <1>3, <1>5, <1>7, <1>11, <2>1, <3>2
  <2>2. CASE ~ (p[1] = "array" /\ p[2] = c)
    BY <1>11, <2>2
  <2>. QED  BY <2>1, <2>2
<1>12. ASSUME NEW u \in Place, W[u] > 0 PROVE \E p \in Place : V[p] > 0 /\ m[p] = u
  <2>1. CASE u[1] = "array" /\ u[2] = c
    <3>1. PICK s \in Nat : V[<<"array", c, s>>] > 0 /\ r(s) = u[3]
      BY <1>3, <1>8, <1>12, <2>1
    <3>2. m[<<"array", c, s>>] = <<"array", c, u[3]>>
      BY <1>4, <3>1
    <3>. QED  BY <1>3, <1>4, <2>1, <3>1, <3>2
  <2>2. CASE ~ (u[1] = "array" /\ u[2] = c)
    BY <1>12, <2>2
  <2>. QED  BY <2>1, <2>2
<1>. HIDE DEF m
<1>. QED  BY <1>9, <1>10, <1>11, <1>12, AllMoved

-----------------------------------------------------------------------------
(* Who asked for a chunk.                                                  *)

LEMMA SourceInit == Init => SourceInv
<1>. SUFFICES ASSUME Init PROVE SourceInv
  OBVIOUS
<1>1. \A h \in Client : \A n \in 1..Len(Traffic[h]) : Traffic[h][n].src = h
  BY TrafficType, TrafficAssumption
<1>. QED  BY <1>1 DEF Init, AllocInit, SourceInv, Empty

LEMMA SourceReceive ==
    ASSUME ArbInv, SourceInv, NEW h \in Client, Receive(h)
    PROVE  SourceInv'
<1>. USE DEF ArbInv, QueueInv, QueueTypes
<1>1. CASE ReadDemand(h)
  <2>1. /\ inbox[h] # << >> /\ inbox[h] \in Seq(Demand) /\ gpc[h] = "read"
        /\ inbox' = [inbox EXCEPT ![h] = Tail(@)]
        /\ demand' = [demand EXCEPT ![h] = Head(inbox[h])]
        /\ gpc' \in [Client -> {"read", "lock", "port", "signal"}]
        /\ \A x \in Client : x # h => gpc'[x] = gpc[x]
        /\ UNCHANGED <<request, reply, ppc, cur>>
    BY <1>1 DEF ReadDemand, allocVars, queueVars, procVars
  <2>2. /\ Len(inbox[h]) \in Nat /\ Len(inbox[h]) > 0 /\ Head(inbox[h]) = inbox[h][1]
        /\ Len(Tail(inbox[h])) = Len(inbox[h]) - 1
        /\ \A n \in 1..Len(Tail(inbox[h])) :
             n + 1 \in 1..Len(inbox[h]) /\ Tail(inbox[h])[n] = inbox[h][n + 1]
    BY <2>1, HeadTailProperties, EmptySeq
  <2>3. \A x \in Client : \A n \in 1..Len(inbox'[x]) : inbox'[x][n].src = x
    BY <2>1, <2>2 DEF SourceInv
  <2>4. 1 \in 1..Len(inbox[h])
    BY <2>2
  <2>5. \A x \in Client : gpc'[x] \in {"lock", "port"} => demand'[x].src = x
    BY <2>1, <2>2, <2>4 DEF SourceInv
  <2>. QED  BY <2>1, <2>3, <2>5 DEF SourceInv
<1>2. CASE BeginStore(h)
  <2>. DEFINE c == ClassOf(demand[h].port)
  <2>1. /\ gpc[h] = "lock" /\ gpc' = [gpc EXCEPT ![h] = "port"]
        /\ request' = [request EXCEPT ![c][len[c]] =
                         [demand[h] EXCEPT !.port = request[c][len[c]].port]]
        /\ UNCHANGED <<inbox, demand, reply, ppc, cur>>
    BY <1>2 DEF BeginStore, allocVars, procVars
  <2>2. demand[h].src = h /\ demand[h] \in Item
    BY <2>1 DEF SourceInv
  <2>3. [demand[h] EXCEPT !.port = request[c][len[c]].port].src = h
    BY <2>2 DEF Item, Entry
  <2>. HIDE DEF c
  <2>4. \A d \in Class, s \in Slot : request'[d][s].flow > 0 => request'[d][s].src \in Client
    BY <2>1, <2>3 DEF SourceInv
  <2>5. \A x \in Client : gpc'[x] \in {"lock", "port"} => gpc[x] \in {"lock", "port"}
    BY <2>1
  <2>. QED  BY <2>1, <2>4, <2>5 DEF SourceInv
<1>3. CASE EndStore(h)
  <2>. DEFINE c == ClassOf(demand[h].port)
  <2>1. /\ gpc' = [gpc EXCEPT ![h] = "signal"]
        /\ request' = [request EXCEPT ![c][len[c]].port = demand[h].port]
        /\ UNCHANGED <<inbox, demand, reply, ppc, cur>>
    BY <1>3 DEF EndStore, allocVars, procVars
  <2>. HIDE DEF c
  <2>2. \A d \in Class, s \in Slot : request'[d][s].flow = request[d][s].flow
                                    /\ request'[d][s].src = request[d][s].src
    BY <2>1 DEF Item, Entry
  <2>3. \A x \in Client : gpc'[x] \in {"lock", "port"} => gpc[x] \in {"lock", "port"}
    BY <2>1
  <2>. QED  BY <2>1, <2>2, <2>3 DEF SourceInv
<1>4. CASE Signal(h)
  <2>1. /\ gpc' = [gpc EXCEPT ![h] = "read"] /\ UNCHANGED <<inbox, demand, request, reply, cur>>
        /\ ppc' = "find" => ppc = "find"
    BY <1>4 DEF Signal, WakeUp, allocVars, queueVars
  <2>2. \A x \in Client : gpc'[x] \in {"lock", "port"} => gpc[x] \in {"lock", "port"}
    BY <2>1
  <2>. QED  BY <2>1, <2>2 DEF SourceInv
<1>. QED  BY <1>1, <1>2, <1>3, <1>4 DEF Receive

\* A sorted or shifted array holds requests that it held before.
LEMMA SourceArray ==
    ASSUME SourceInv, NEW a, NEW c \in Class, request \in [Class -> [Slot -> Item]],
           \A s \in Slot : \E t \in Slot : a[s] = request[c][t],
           request' = [request EXCEPT ![c] = a],
           UNCHANGED <<inbox, demand, gpc, reply>>, ppc' # "find"
    PROVE  SourceInv'
<1>1. \A d \in Class, s \in Slot : \E t \in Slot : request'[d][s] = request[d][t]
  OBVIOUS
<1>. QED  BY <1>1 DEF SourceInv

LEMMA SortedFrom ==
    ASSUME NEW a \in [Slot -> Item], NEW n \in Slot, NEW b \in Sorted(a, n)
    PROVE  \E q \in [0..(n - 1) -> 0..(n - 1)] :
             /\ \A s, t \in 0..(n - 1) : s < t => q[s] # q[t]
             /\ \A s \in Slot : b[s] = a[IF s < n THEN q[s] ELSE s]
             /\ \A s \in Slot : s < n => q[s] \in Slot
<1>1. PICK q \in [0..(n - 1) -> 0..(n - 1)] :
        /\ \A s, t \in 0..(n - 1) : s < t => q[s] # q[t] /\ Before(a[q[s]], a[q[t]])
        /\ b = [s \in DOMAIN a |-> IF s < n THEN a[q[s]] ELSE a[s]]
  BY DEF Sorted
<1>2. n \in Nat /\ 0..(n - 1) \subseteq Slot /\ \A s \in Slot : s < n => s \in 0..(n - 1)
  BY SizeType DEF Slot
<1>. QED  BY <1>1, <1>2

LEMMA SortedWithin ==
    ASSUME NEW a \in [Slot -> Item], NEW n \in Slot, NEW b \in Sorted(a, n)
    PROVE  \A s \in Slot : \E t \in Slot : b[s] = a[t]
<1>1. PICK q \in [0..(n - 1) -> 0..(n - 1)] :
        /\ \A s \in Slot : b[s] = a[IF s < n THEN q[s] ELSE s]
        /\ \A s \in Slot : s < n => q[s] \in Slot
  BY SortedFrom
<1>. QED  BY <1>1

LEMMA SourceServe ==
    ASSUME ArbInv, SourceInv, Serve
    PROVE  SourceInv'
<1>. USE DEF ArbInv, QueueInv, QueueTypes
<1>1. CASE NewSlot
  BY <1>1 DEF NewSlot, ClearSlot, SourceInv, recvVars, queueVars
<1>2. CASE CheckQueues \/ Wait \/ PassOver \/ GiveUp \/ EndClass \/ SendReply \/ EndSlot
  <2>1. UNCHANGED <<inbox, demand, gpc, request, reply, cur>> /\ ppc' # "find"
    BY <1>2 DEF CheckQueues, Wait, PassOver, GiveUp, EndClass, SendReply, EndSlot, WakeUp,
                allocVars, recvVars, queueVars
  <2>. QED  BY <2>1 DEF SourceInv
<1>3. CASE Visit
  <2>1. /\ UNCHANGED <<inbox, demand, gpc, request, reply>>
        /\ cur' = request[cls][i] /\ request[cls][i].flow > 0
    BY <1>3 DEF Visit, Eligible, allocVars, recvVars, queueVars
  <2>2. cls \in Class /\ i \in Slot
    BY DEF ServerTypes
  <2>. QED  BY <2>1, <2>2 DEF SourceInv
<1>4. CASE LoadClass
  <2>1. /\ cls \in Class /\ len[cls] \in Slot /\ request[cls] \in [Slot -> Item]
    BY LenInSlot DEF ServerTypes
  <2>2. PICK b \in Sorted(request[cls], len[cls]) : request' = [request EXCEPT ![cls] = b]
    BY <1>4 DEF LoadClass
  <2>3. \A s \in Slot : \E t \in Slot : b[s] = request[cls][t]
    BY <2>1, SortedWithin
  <2>4. UNCHANGED <<inbox, demand, gpc, reply>> /\ ppc' # "find"
    BY <1>4 DEF LoadClass, allocVars, recvVars
  <2>. QED  BY <2>1, <2>2, <2>3, <2>4, SourceArray
<1>5. CASE Remove
  <2>. DEFINE a == Shift(request[cls], i, len[cls])
  <2>1. /\ cls \in Class /\ len[cls] \in Slot /\ i \in Slot /\ i < len[cls]
        /\ request[cls] \in [Slot -> Item] /\ len[cls] \in Nat
    BY <1>5, LenInSlot, UnlockedIdle DEF ServerTypes, ServesStored, Remove
  <2>2. len[cls] - 1 \in Slot /\ i \in 0..(len[cls] - 1)
    BY <2>1, SizeType DEF Slot
  <2>3. \A s \in Slot : \E t \in Slot : a[s] = request[cls][t]
    <3>1. \A s \in Slot : i <= s /\ s < len[cls] => s + 1 \in Slot
      BY <2>1, SizeType DEF Slot
    <3>. QED  BY <2>1, <3>1 DEF Shift
  <2>4. a \in [Slot -> Item]
    BY <2>1, <2>2, ShiftItems
  <2>5. PICK b \in Sorted(a, len[cls] - 1) : request' = [request EXCEPT ![cls] = b]
    BY <1>5 DEF Remove
  <2>. HIDE DEF a
  <2>6. \A s \in Slot : \E t \in Slot : b[s] = a[t]
    BY <2>2, <2>4, SortedWithin
  <2>7. \A s \in Slot : \E t \in Slot : b[s] = request[cls][t]
    BY <2>3, <2>6
  <2>8. UNCHANGED <<inbox, demand, gpc, reply>> /\ ppc' # "find"
    BY <1>5 DEF Remove, allocVars, recvVars
  <2>. QED  BY <2>1, <2>5, <2>7, <2>8, SourceArray
<1>6. CASE FindPath
  <2>1. /\ cur.src \in Client /\ cls \in Class /\ i \in Slot
        /\ request' = [request EXCEPT ![cls][i].flow = @ - 1]
        /\ UNCHANGED <<inbox, demand, gpc, cur>>
    BY <1>6 DEF FindPath, recvVars, ServerTypes, SourceInv
  <2>2. PICK g : reply' = Append(reply, g) /\ g.src = cur.src
    <3>1. PICK k : reply' = Append(reply, [src |-> cur.src, dest |-> cur.dest,
                                           path |-> k, port |-> cur.port])
      BY <1>6 DEF FindPath, GrantChunk, GrantSibling, GrantRouted, Reply
    <3>2. [src |-> cur.src, dest |-> cur.dest, path |-> k, port |-> cur.port].src = cur.src
      OBVIOUS
    <3>. QED  BY <3>1, <3>2
  <2>3. reply \in Seq(Grant) /\ Len(reply) \in Nat
    BY DEF AllocInv, AllocTypeOK
  <2>4. \A n \in 1..Len(reply') : reply'[n].src \in Client
    <3>1. /\ Len(reply') = Len(reply) + 1 /\ reply'[Len(reply) + 1] = g
          /\ \A n \in 1..Len(reply) : reply'[n] = reply[n]
      BY <2>2, <2>3
    <3>. QED  BY <2>1, <2>2, <2>3, <3>1 DEF SourceInv
  <2>5. ASSUME NEW c \in Class, NEW s \in Slot, request'[c][s].flow > 0
        PROVE  request'[c][s].src \in Client
    <3>1. CASE c = cls /\ s = i
      <4>1. request[cls][i].flow > 0
        BY <1>6 DEF FindPath, FindsItsRequest
      <4>2. request'[c][s].src = request[c][s].src
        BY <2>1, <3>1 DEF Item, Entry
      <4>. QED  BY <3>1, <4>1, <4>2 DEF SourceInv
    <3>2. CASE ~ (c = cls /\ s = i)
      BY <2>1, <2>5, <3>2 DEF SourceInv
    <3>. QED  BY <3>1, <3>2
  <2>. QED  BY <2>1, <2>4, <2>5 DEF SourceInv
<1>. QED  BY <1>1, <1>2, <1>3, <1>4, <1>5, <1>6 DEF Serve

LEMMA SourceStep ==
    ASSUME ArbInv, SourceInv, [Next]_vars
    PROVE  SourceInv'
<1>1. CASE SpuriousWake
  BY <1>1 DEF SpuriousWake, WakeUp, SourceInv, allocVars, recvVars, queueVars
<1>2. CASE UNCHANGED vars
  BY <1>2 DEF vars, SourceInv, allocVars, recvVars, queueVars, procVars
<1>. QED  BY <1>1, <1>2, SourceReceive, SourceServe DEF Next

-----------------------------------------------------------------------------
(* Every step moves chunks, or none.                                       *)

Moves(f) == ExistsBijection(Units(Weight(f)), Units(Weight(f)'))

LEMMA Values ==
    ASSUME NEW f, NEW p \in Place
    PROVE  Weight(f)[p] = Held(p, f) /\ Weight(f)'[p] = Held(p, f)'
BY DEF Weight

LEMMA Still ==
    ASSUME NEW f, \A p \in Place : Held(p, f)' = Held(p, f)
    PROVE  Moves(f)
<1>1. Weight(f)' = Weight(f)
  BY DEF Weight
<1>. QED  BY <1>1, Fun_ExistsBijReflexive DEF Moves

\* What a step does not touch.
LEMMA Untouched ==
    ASSUME NEW f, NEW p \in Place
    PROVE  /\ p[1] = "inbox" /\ UNCHANGED inbox => Held(p, f)' = Held(p, f)
           /\ p[1] = "thread" /\ UNCHANGED <<gpc, demand>> => Held(p, f)' = Held(p, f)
           /\ p[1] = "array" /\ UNCHANGED request => Held(p, f)' = Held(p, f)
           /\ p[1] = "reply" /\ UNCHANGED <<reply, Unsent>> => Held(p, f)' = Held(p, f)
           /\ p[1] = "outbox" /\ UNCHANGED outbox => Held(p, f)' = Held(p, f)
           /\ p[1] \in {"inbox", "thread", "array", "reply", "outbox"}
<1>1. p[1] = "inbox" /\ UNCHANGED inbox => Held(p, f)' = Held(p, f)
  BY DEF Held, InboxAt
<1>2. p[1] = "thread" /\ UNCHANGED <<gpc, demand>> => Held(p, f)' = Held(p, f)
  BY DEF Held, ThreadAt
<1>3. p[1] = "array" /\ UNCHANGED request => Held(p, f)' = Held(p, f)
  BY DEF Held, ArrayAt
<1>4. p[1] = "reply" /\ UNCHANGED <<reply, Unsent>> => Held(p, f)' = Held(p, f)
  BY DEF Held, ReplyAt
<1>5. p[1] = "outbox" /\ UNCHANGED outbox => Held(p, f)' = Held(p, f)
  BY DEF Held, OutboxAt
<1>. QED  BY <1>1, <1>2, <1>3, <1>4, <1>5 DEF Place

LEMMA StillSteps ==
    ASSUME NEW f, ArbInv, UNCHANGED <<inbox, gpc, demand, request, reply, outbox, Unsent>>
    PROVE  Moves(f)
BY Untouched, Still

LEMMA NewSlotMoves ==
    ASSUME NEW f, ArbInv, NewSlot
    PROVE  Moves(f)
<1>1. UNCHANGED <<inbox, gpc, demand, request, outbox>>
  BY DEF NewSlot, recvVars, queueVars
<1>2. ASSUME NEW p \in Place, p[1] = "reply" PROVE Held(p, f)' = Held(p, f)
  <2>1. p[3] \in Nat /\ p[3] \notin Unsent..Len(reply)
    BY LedgerTypes DEF Place, NewSlot, Unsent
  <2>2. reply' = << >> /\ Unsent' = 1 /\ p[3] \notin Unsent'..Len(reply')
    BY DEF NewSlot, ClearSlot, Unsent
  <2>. QED  BY <1>2, <2>1, <2>2 DEF Held, ReplyAt
<1>. QED  BY <1>1, <1>2, Untouched, Still

\* The first demand in the socket goes to the thread, the others move up.
LEMMA ReadMoves ==
    ASSUME NEW f \in Flow, NEW h \in Client, ArbInv, ReadDemand(h),
           Weight(f) \in [Place -> Nat], Weight(f)' \in [Place -> Nat]
    PROVE  Moves(f)
<1>. DEFINE V == Weight(f)  W == Weight(f)'
            a == <<"thread", h, 1>>  at(n) == <<"inbox", h, n>>
            m == [p \in Place |-> IF p[1] = "inbox" /\ p[2] = h
                                  THEN IF p[3] <= 1 THEN a ELSE at(p[3] - 1) ELSE p]
<1>1. /\ gpc[h] = "read" /\ inbox[h] # << >> /\ inbox[h] \in Seq(Demand)
      /\ inbox' = [inbox EXCEPT ![h] = Tail(@)]
      /\ demand' = [demand EXCEPT ![h] = Head(inbox[h])]
      /\ gpc' = [gpc EXCEPT ![h] =
                   IF ClassOf(Head(inbox[h]).port) \in Class THEN "lock" ELSE "read"]
      /\ UNCHANGED <<request, reply, outbox, Unsent>>
  BY LedgerTypes DEF ReadDemand, allocVars, queueVars, procVars, Unsent
<1>2. /\ Len(inbox[h]) \in Nat /\ Len(inbox[h]) > 0 /\ Head(inbox[h]) = inbox[h][1]
      /\ Len(Tail(inbox[h])) = Len(inbox[h]) - 1
      /\ \A n \in 1..Len(Tail(inbox[h])) :
           n + 1 \in 1..Len(inbox[h]) /\ Tail(inbox[h])[n] = inbox[h][n + 1]
  BY <1>1, HeadTailProperties, EmptySeq
<1>3. h \in Nat /\ a \in Place /\ \A n \in Nat : at(n) \in Place
  BY Numbers DEF Place
<1>4. inbox \in [Client -> Seq(Demand)] /\ demand \in [Client -> Item] /\ DOMAIN gpc = Client
  BY DEF ArbInv, QueueInv, QueueTypes
<1>5. ASSUME NEW n \in Nat
      PROVE  /\ V[at(n)] = InboxAt(h, n, f) /\ W[at(n)] = InboxAt(h, n, f)'
             /\ V[a] = ThreadAt(h, 1, f) /\ W[a] = ThreadAt(h, 1, f)'
  BY <1>3, Values DEF Held
<1>6. V[a] = 0 /\ V[at(0)] = 0 /\ W[at(0)] = 0
  <2>1. ThreadAt(h, 1, f) = 0
    BY <1>1 DEF ThreadAt
  <2>2. InboxAt(h, 0, f) = 0 /\ InboxAt(h, 0, f)' = 0
    BY DEF InboxAt
  <2>. QED  BY <1>5, <2>1, <2>2
<1>7. W[a] = V[at(1)]
  <2>1. V[at(1)] = Wanted(inbox[h][1], f)
    BY <1>2, <1>5 DEF InboxAt
  <2>2. W[a] = IF gpc'[h] = "lock" THEN Chunks(demand'[h], f) ELSE 0
    BY <1>5 DEF ThreadAt
  <2>. QED  BY <1>1, <1>2, <1>4, <2>1, <2>2 DEF Wanted
<1>8. ASSUME NEW n \in Nat, n >= 1 PROVE W[at(n)] = V[at(n + 1)]
  <2>1. inbox'[h] = Tail(inbox[h])
    BY <1>1, <1>4
  <2>2. n \in 1..Len(Tail(inbox[h])) <=> n + 1 \in 1..Len(inbox[h])
    BY <1>2, <1>8
  <2>. QED  BY <1>2, <1>5, <2>1, <2>2 DEF InboxAt
<1>9. ASSUME NEW p \in Place, p # a, ~ (p[1] = "inbox" /\ p[2] = h) PROVE W[p] = V[p]
  <2>1. p = <<p[1], p[2], p[3]>> /\ p[2] \in Nat /\ p[3] \in Nat
    BY DEF Place
  <2>2. CASE p[1] = "inbox"
    <3>1. p[2] # h /\ (p[2] \in Client => inbox'[p[2]] = inbox[p[2]])
      BY <1>1, <1>4, <1>9, <2>2
    <3>. QED  BY <2>2, <3>1, Values DEF Held, InboxAt
  <2>3. CASE p[1] = "thread"
    <3>1. p[2] = h => p[3] # 1
      BY <1>9, <2>1, <2>3
    <3>2. p[2] # h /\ p[2] \in Client => gpc'[p[2]] = gpc[p[2]] /\ demand'[p[2]] = demand[p[2]]
      BY <1>1, <1>4
    <3>. QED  BY <2>3, <3>1, <3>2, Values DEF Held, ThreadAt
  <2>. QED  BY <1>1, <2>2, <2>3, Values, Untouched
<1>. HIDE DEF V, W
<1>10. \A p \in Place : p[3] \in Nat /\ p = <<p[1], p[2], p[3]>>
  BY DEF Place
<1>11. V \in [Place -> Nat] /\ W \in [Place -> Nat]
  BY DEF V, W
<1>12. m \in [Place -> Place]
  BY <1>3, <1>10
<1>13. ASSUME NEW p \in Place, V[p] > 0 PROVE W[m[p]] = V[p]
  <2>1. CASE p[1] = "inbox" /\ p[2] = h
    <3>1. p = at(p[3]) /\ p[3] # 0
      BY <1>6, <1>10, <1>13, <2>1
    <3>2. CASE p[3] = 1
      BY <1>7, <2>1, <3>1, <3>2
    <3>3. CASE p[3] > 1
      <4>1. p[3] - 1 \in Nat /\ p[3] - 1 >= 1 /\ (p[3] - 1) + 1 = p[3]
        BY <1>10, <3>3
      <4>2. m[p] = at(p[3] - 1)
        BY <1>10, <2>1, <3>3
      <4>. QED  BY <1>8, <3>1, <4>1, <4>2
    <3>. QED  BY <1>10, <3>1, <3>2, <3>3
  <2>2. CASE ~ (p[1] = "inbox" /\ p[2] = h)
    <3>1. p # a
      BY <1>6, <1>13
    <3>. QED  BY <1>9, <2>2, <3>1
  <2>. QED  BY <2>1, <2>2
<1>14. ASSUME NEW p \in Place, NEW q \in Place, V[p] > 0, V[q] > 0, m[p] = m[q] PROVE p = q
  <2>1. p # a /\ q # a /\ p # at(0) /\ q # at(0)
    BY <1>6, <1>14
  <2>2. ASSUME NEW r \in Place, V[r] > 0
        PROVE  \/ r[1] = "inbox" /\ r[2] = h /\ r = at(1) /\ m[r] = a
               \/ r[1] = "inbox" /\ r[2] = h /\ r[3] > 1 /\ r = at(r[3]) /\ m[r] = at(r[3] - 1)
               \/ ~ (r[1] = "inbox" /\ r[2] = h) /\ m[r] = r /\ r # a
    <3>1. r # a /\ r # at(0)
      BY <1>6, <2>2
    <3>2. CASE r[1] = "inbox" /\ r[2] = h
      <4>1. r = at(r[3]) /\ r[3] \in Nat /\ r[3] # 0
        BY <1>10, <3>1, <3>2
      <4>2. m[r] = IF r[3] <= 1 THEN a ELSE at(r[3] - 1)
        BY <3>2
      <4>3. r[3] = 1 \/ r[3] > 1
        BY <4>1
      <4>. QED  BY <3>2, <4>1, <4>2, <4>3
    <3>3. CASE ~ (r[1] = "inbox" /\ r[2] = h)
      BY <3>1, <3>3
    <3>. QED  BY <3>2, <3>3
  <2>3. \A j, k \in Nat : j > 1 /\ k > 1 /\ at(j - 1) = at(k - 1) => j = k
    OBVIOUS
  <2>. QED  BY <1>10, <1>14, <2>2, <2>3
<1>15. ASSUME NEW q \in Place, W[q] > 0 PROVE \E p \in Place : V[p] > 0 /\ m[p] = q
  <2>1. CASE q = a
    <3>1. V[at(1)] > 0 /\ at(1) \in Place
      BY <1>3, <1>7, <1>15, <2>1
    <3>2. m[at(1)] = a
      BY <3>1
    <3>. QED  BY <2>1, <3>1, <3>2
  <2>2. CASE q[1] = "inbox" /\ q[2] = h
    <3>1. q = at(q[3]) /\ q[3] \in Nat /\ q[3] >= 1
      BY <1>6, <1>10, <1>15, <2>2
    <3>2. V[at(q[3] + 1)] > 0 /\ at(q[3] + 1) \in Place
      BY <1>3, <1>8, <1>15, <3>1
    <3>3. m[at(q[3] + 1)] = at(q[3])
      <4>1. q[3] + 1 > 1 /\ (q[3] + 1) - 1 = q[3]
        BY <3>1
      <4>2. m[at(q[3] + 1)] = IF q[3] + 1 <= 1 THEN a ELSE at((q[3] + 1) - 1)
        BY <3>2
      <4>. QED  BY <3>1, <4>1, <4>2
    <3>. QED  BY <3>1, <3>2, <3>3
  <2>3. CASE q # a /\ ~ (q[1] = "inbox" /\ q[2] = h)
    BY <1>9, <1>15, <2>3
  <2>. QED  BY <2>1, <2>2, <2>3
<1>. HIDE DEF m
<1>16. ExistsBijection(Units(V), Units(W))
  BY <1>11, <1>12, <1>13, <1>14, <1>15, AllMoved
<1>. QED  BY <1>16 DEF Moves, V, W

\* The demand goes from its thread to the free slot behind the array.
LEMMA BeginStoreMoves ==
    ASSUME NEW f \in Flow, NEW h \in Client, ArbInv, BeginStore(h),
           Weight(f) \in [Place -> Nat], Weight(f)' \in [Place -> Nat]
    PROVE  Moves(f)
<1>1. PICK c \in Class : c = ClassOf(demand[h].port)
  BY DEF BeginStore, ArbInv, QueueInv, StoreLocked
<1>2. PICK l \in Slot : l = len[c]
  BY LedgerTypes
<1>3. PICK p : p = request[c][l].port
  OBVIOUS
<1>4. PICK d : d = [demand[h] EXCEPT !.port = p]
  OBVIOUS
<1>5. /\ gpc[h] = "lock" /\ lock[c] = 0
      /\ gpc' = [gpc EXCEPT ![h] = "port"]
      /\ request' = [request EXCEPT ![c][l] = d]
      /\ UNCHANGED <<inbox, demand, reply, outbox, Unsent>>
  BY <1>1, <1>2, <1>3, <1>4 DEF BeginStore, allocVars, procVars, Unsent
<1>6. /\ c \in Nat /\ h \in Nat /\ l \in Nat
      /\ request[c][l] = Empty /\ demand[h] \in Item
  BY <1>2, <1>5, Numbers, LedgerTypes, UnlockedIdle DEF ArbInv
<1>7. /\ request \in [Class -> [Slot -> Item]] /\ DOMAIN gpc = Client
  BY DEF ArbInv, QueueInv, QueueTypes
<1>8. PICK w : w = Chunks(demand[h], f)
  OBVIOUS
<1>9. Chunks(Empty, f) = 0 /\ Chunks(d, f) = w
  <2>1. d.src = demand[h].src /\ d.dest = demand[h].dest /\ d.flow = demand[h].flow
    BY <1>4, <1>6 DEF Item, Entry
  <2>. QED  BY <1>8, <2>1 DEF Chunks, Empty
<1>. DEFINE a == <<"thread", h, 1>>  b == <<"array", c, l>>
<1>10. a \in Place /\ b \in Place /\ a # b
  BY <1>6 DEF Place
<1>11. request'[c][l] = d
  BY <1>5, <1>7
<1>12. Weight(f)[b] = 0 /\ Weight(f)'[b] = w
  BY <1>6, <1>9, <1>10, <1>11, Values DEF Held, ArrayAt
<1>13. Weight(f)[a] = w /\ Weight(f)'[a] = 0
  BY <1>5, <1>7, <1>8, <1>10, Values DEF Held, ThreadAt
<1>14. ASSUME NEW q \in Place, q # a, q # b PROVE Weight(f)'[q] = Weight(f)[q]
  <2>1. q = <<q[1], q[2], q[3]>> /\ q[2] \in Nat /\ q[3] \in Nat
    BY DEF Place
  <2>2. CASE q[1] = "thread"
    <3>1. q[2] = h => q[3] # 1
      BY <1>14, <2>1, <2>2
    <3>2. q[2] \in Client /\ q[2] # h => gpc'[q[2]] = gpc[q[2]]
      BY <1>5, <1>7
    <3>. QED  BY <1>5, <2>2, <3>1, <3>2, Values DEF Held, ThreadAt
  <2>3. CASE q[1] = "array"
    <3>1. q[2] \in Class /\ q[3] \in Slot => request'[q[2]][q[3]] = request[q[2]][q[3]]
      BY <1>5, <1>7, <1>14, <2>1, <2>3
    <3>. QED  BY <2>3, <3>1, Values DEF Held, ArrayAt
  <2>. QED  BY <1>5, <2>2, <2>3, Values, Untouched
<1>. HIDE DEF a, b
<1>. QED  BY <1>10, <1>12, <1>13, <1>14, Handed DEF Moves

LEMMA EndStoreMoves ==
    ASSUME NEW f \in Flow, NEW h \in Client, ArbInv, EndStore(h)
    PROVE  Moves(f)
<1>. DEFINE c == ClassOf(demand[h].port)
<1>1. /\ gpc[h] = "port" /\ gpc' = [gpc EXCEPT ![h] = "signal"]
      /\ request' = [request EXCEPT ![c][len[c]].port = demand[h].port]
      /\ UNCHANGED <<inbox, demand, reply, outbox, Unsent>>
  BY DEF EndStore, allocVars, procVars, Unsent
<1>. HIDE DEF c
<1>2. /\ request \in [Class -> [Slot -> Item]] /\ DOMAIN gpc = Client
  BY DEF ArbInv, QueueInv, QueueTypes
<1>3. ASSUME NEW p \in Place, p[1] = "array" PROVE Held(p, f)' = Held(p, f)
  <2>1. p[2] \in Class /\ p[3] \in Slot =>
          /\ request'[p[2]][p[3]].src = request[p[2]][p[3]].src
          /\ request'[p[2]][p[3]].dest = request[p[2]][p[3]].dest
          /\ request'[p[2]][p[3]].flow = request[p[2]][p[3]].flow
    BY <1>1, <1>2 DEF Item, Entry
  <2>. QED  BY <1>3, <2>1 DEF Held, ArrayAt, Chunks
<1>4. ASSUME NEW p \in Place, p[1] = "thread" PROVE Held(p, f)' = Held(p, f)
  BY <1>1, <1>2, <1>4 DEF Held, ThreadAt
<1>. QED  BY <1>1, <1>3, <1>4, Untouched, Still

\* The weights that an array a gives to the places of class c.
ArrayWeight(V, c, a, f) ==
    [p \in Place |-> IF p[1] = "array" /\ p[2] = c
                     THEN IF p[3] \in Slot THEN Chunks(a[p[3]], f) ELSE 0
                     ELSE V[p]]

LEMMA ArrayWeightType ==
    ASSUME NEW f \in Flow, NEW V \in [Place -> Nat], NEW c, NEW a \in [Slot -> Item]
    PROVE  ArrayWeight(V, c, a, f) \in [Place -> Nat]
BY ItemType DEF ArrayWeight, Chunks

LEMMA SortMoves ==
    ASSUME NEW f \in Flow, NEW V \in [Place -> Nat], NEW c \in Class,
           NEW a \in [Slot -> Item], NEW n \in Slot, NEW b \in Sorted(a, n),
           NEW W, W = ArrayWeight(V, c, b, f),
           \A s \in Nat : V[<<"array", c, s>>] = IF s \in Slot THEN Chunks(a[s], f) ELSE 0
    PROVE  ExistsBijection(Units(V), Units(W))
<1>1. PICK q \in [0..(n - 1) -> 0..(n - 1)] :
        /\ \A s, t \in 0..(n - 1) : s < t => q[s] # q[t]
        /\ \A s \in Slot : b[s] = a[IF s < n THEN q[s] ELSE s]
        /\ \A s \in Slot : s < n => q[s] \in Slot
  BY SortedFrom
<1>2. W \in [Place -> Nat]
  BY SortedItems, ArrayWeightType
<1>3. n \in Nat /\ c \in Nat /\ Slot \subseteq Nat /\ \A s \in Nat : s < n => s \in Slot
  BY Numbers, SizeType DEF Slot
<1>4. ASSUME NEW s \in Nat
      PROVE  W[<<"array", c, s>>] = V[<<"array", c, IF s < n THEN q[s] ELSE s>>]
  <2>1. W[<<"array", c, s>>] = IF s \in Slot THEN Chunks(b[s], f) ELSE 0
    BY <1>3 DEF ArrayWeight, Place
  <2>2. CASE s < n
    BY <1>1, <1>3, <2>1, <2>2
  <2>3. CASE ~ (s < n)
    BY <1>1, <2>1, <2>3
  <2>. QED  BY <2>2, <2>3
<1>5. \A p \in Place : ~ (p[1] = "array" /\ p[2] = c) => W[p] = V[p]
  BY DEF ArrayWeight
<1>6. \A s, t \in 0..(n - 1) : s < t => q[s] # q[t]
  BY <1>1
<1>7. PermutedBy(V, W, c, n, q)
  BY <1>4, <1>5, <1>6 DEF PermutedBy
<1>. QED  BY <1>2, <1>7, Permuted

\* After a step that writes array b to class c only.
LEMMA ArrayAfter ==
    ASSUME NEW f \in Flow, ArbInv, NEW c \in Class, NEW b,
           Weight(f) \in [Place -> Nat], Weight(f)' \in [Place -> Nat],
           request' = [request EXCEPT ![c] = b],
           UNCHANGED <<inbox, gpc, demand, reply, outbox, Unsent>>
    PROVE  /\ Weight(f)' = ArrayWeight(Weight(f), c, b, f)
           /\ \A s \in Nat : Weight(f)[<<"array", c, s>>]
                             = IF s \in Slot THEN Chunks(request[c][s], f) ELSE 0
<1>1. request \in [Class -> [Slot -> Item]]
  BY DEF ArbInv, QueueInv, QueueTypes
<1>2. ASSUME NEW p \in Place
      PROVE  Weight(f)'[p] = ArrayWeight(Weight(f), c, b, f)[p]
  <2>1. CASE p[1] = "array" /\ p[2] = c
    <3>1. ArrayWeight(Weight(f), c, b, f)[p] = IF p[3] \in Slot THEN Chunks(b[p[3]], f) ELSE 0
      BY <2>1 DEF ArrayWeight
    <3>2. Weight(f)'[p] = IF p[3] \in Slot THEN Chunks(b[p[3]], f) ELSE 0
      BY <1>1, <2>1, Values DEF Held, ArrayAt
    <3>. QED  BY <3>1, <3>2
  <2>2. CASE p[1] = "array" /\ p[2] # c
    <3>1. ArrayWeight(Weight(f), c, b, f)[p] = Weight(f)[p]
      BY <2>2 DEF ArrayWeight
    <3>2. Weight(f)'[p] = Weight(f)[p]
      BY <1>1, <2>2, Values DEF Held, ArrayAt
    <3>. QED  BY <3>1, <3>2
  <2>3. CASE p[1] # "array"
    <3>1. ArrayWeight(Weight(f), c, b, f)[p] = Weight(f)[p]
      BY <2>3 DEF ArrayWeight
    <3>2. Weight(f)'[p] = Weight(f)[p]
      BY <2>3, Values, Untouched
    <3>. QED  BY <3>1, <3>2
  <2>. QED  BY <2>1, <2>2, <2>3
<1>3. DOMAIN ArrayWeight(Weight(f), c, b, f) = Place
  BY DEF ArrayWeight
<1>4. ArrayWeight(Weight(f), c, b, f)
        = [p \in Place |-> ArrayWeight(Weight(f), c, b, f)[p]]
  BY DEF ArrayWeight
<1>5. Weight(f)' = ArrayWeight(Weight(f), c, b, f)
  BY <1>2, <1>4
<1>6. \A s \in Nat : <<"array", c, s>> \in Place
  BY Numbers DEF Place
<1>. QED  BY <1>5, <1>6, Values DEF Held, ArrayAt

LEMMA LoadMoves ==
    ASSUME NEW f \in Flow, ArbInv, LoadClass,
           Weight(f) \in [Place -> Nat], Weight(f)' \in [Place -> Nat]
    PROVE  Moves(f)
<1>1. /\ cls \in Class /\ len[cls] \in Slot /\ request[cls] \in [Slot -> Item]
  BY LenInSlot DEF ArbInv, QueueInv, QueueTypes, ServerTypes
<1>2. PICK b \in Sorted(request[cls], len[cls]) : request' = [request EXCEPT ![cls] = b]
  BY DEF LoadClass
<1>3. UNCHANGED <<inbox, gpc, demand, reply, outbox, Unsent>>
  BY DEF LoadClass, allocVars, recvVars, Unsent
<1>4. /\ Weight(f)' = ArrayWeight(Weight(f), cls, b, f)
      /\ \A s \in Nat : Weight(f)[<<"array", cls, s>>]
                        = IF s \in Slot THEN Chunks(request[cls][s], f) ELSE 0
  BY <1>1, <1>2, <1>3, ArrayAfter
<1>. QED  BY <1>1, <1>2, <1>4, SortMoves DEF Moves

\* The slot of the served request is empty, and so is the one past the end that
\* adjust_req_arr copies: dropping the one and copying the other loses nothing.
LEMMA RemoveMoves ==
    ASSUME NEW f \in Flow, ArbInv, Remove,
           Weight(f) \in [Place -> Nat], Weight(f)' \in [Place -> Nat]
    PROVE  Moves(f)
<1>. DEFINE n == len[cls]  a == Shift(request[cls], i, n)
            V == Weight(f)  U == ArrayWeight(V, cls, a, f)
<1>1. /\ cls \in Class /\ n \in Slot /\ n \in Nat /\ i \in Slot /\ i < n
      /\ request[cls] \in [Slot -> Item] /\ request[cls][n] = Empty
      /\ request[cls][i].flow = 0
  <2>1. request[cls][i] \in Item
    BY DEF ArbInv, QueueInv, QueueTypes, ServerTypes
  <2>. QED
    BY <2>1, LenInSlot, UnlockedIdle, ItemType
    DEF ArbInv, QueueInv, QueueTypes, ServerTypes, ServesStored, FindsItsRequest, Remove
<1>2. n - 1 \in Slot /\ i \in 0..(n - 1) /\ i \in Nat
  BY <1>1, SizeType DEF Slot
<1>3. a \in [Slot -> Item]
  BY <1>1, <1>2, ShiftItems
<1>4. PICK b \in Sorted(a, n - 1) : request' = [request EXCEPT ![cls] = b]
  BY DEF Remove
<1>5. UNCHANGED <<inbox, gpc, demand, reply, outbox, Unsent>>
  BY DEF Remove, allocVars, recvVars, Unsent
<1>6. /\ Weight(f)' = ArrayWeight(V, cls, b, f)
      /\ \A s \in Nat : V[<<"array", cls, s>>]
                        = IF s \in Slot THEN Chunks(request[cls][s], f) ELSE 0
  BY <1>1, <1>4, <1>5, ArrayAfter
<1>7. \A s \in Nat : <<"array", cls, s>> \in Place
  BY <1>1, Numbers DEF Place
<1>8. U \in [Place -> Nat]
  BY <1>1, <1>3, ArrayWeightType
<1>9. \A s \in Nat : U[<<"array", cls, s>>] = IF s \in Slot THEN Chunks(a[s], f) ELSE 0
  BY <1>7 DEF ArrayWeight
<1>10. ASSUME NEW s \in Nat
       PROVE  U[<<"array", cls, s>>]
                = V[<<"array", cls, IF i <= s /\ s < n THEN s + 1 ELSE s>>]
  <2>1. CASE i <= s /\ s < n
    <3>1. s \in Slot /\ s + 1 \in Slot /\ s + 1 \in Nat
      BY <1>1, <2>1, SizeType DEF Slot
    <3>2. a[s] = request[cls][s + 1]
      BY <1>1, <2>1, <3>1 DEF Shift
    <3>. QED  BY <1>6, <1>9, <2>1, <3>1, <3>2
  <2>2. CASE ~ (i <= s /\ s < n)
    <3>1. s \in Slot => a[s] = request[cls][s]
      BY <1>1, <2>2 DEF Shift
    <3>. QED  BY <1>6, <1>9, <2>2, <3>1
  <2>. QED  BY <2>1, <2>2
<1>11. V[<<"array", cls, i>>] = 0 /\ V[<<"array", cls, n>>] = 0
  <2>1. Chunks(request[cls][i], f) = 0 /\ Chunks(request[cls][n], f) = 0
    BY <1>1 DEF Chunks, Empty
  <2>. QED  BY <1>1, <1>2, <1>6, <2>1
<1>12. \A p \in Place : ~ (p[1] = "array" /\ p[2] = cls) => U[p] = V[p]
  BY DEF ArrayWeight
<1>13. Weight(f)' = ArrayWeight(U, cls, b, f)
  <2>1. ArrayWeight(U, cls, b, f) = ArrayWeight(V, cls, b, f)
    BY DEF ArrayWeight
  <2>. QED  BY <1>6, <2>1
<1>. HIDE DEF U, V, a, n
<1>14. V \in [Place -> Nat]
  BY DEF V
<1>15. ExistsBijection(Units(V), Units(U))
  BY <1>1, <1>2, <1>8, <1>10, <1>11, <1>12, <1>14, MovedDown
<1>16. ExistsBijection(Units(U), Units(Weight(f)'))
  BY <1>1, <1>2, <1>3, <1>4, <1>8, <1>9, <1>13, SortMoves
<1>. QED  BY <1>15, <1>16, Fun_ExistsBijTransitive DEF Moves, V

\* One chunk of the request becomes the last reply.
LEMMA FindPathMoves ==
    ASSUME NEW f \in Flow, ArbInv, FindPath,
           Weight(f) \in [Place -> Nat], Weight(f)' \in [Place -> Nat]
    PROVE  Moves(f)
<1>1. PICK c \in Class, l \in Slot : c = cls /\ l = i
  BY DEF ArbInv, QueueInv, ServerTypes
<1>2. PICK g : reply' = Append(reply, g) /\ g.src = cur.src /\ g.dest = cur.dest
  <2>1. PICK k : reply' = Append(reply, [src |-> cur.src, dest |-> cur.dest,
                                         path |-> k, port |-> cur.port])
    BY DEF FindPath, GrantChunk, GrantSibling, GrantRouted, Reply
  <2>2. PICK g : g = [src |-> cur.src, dest |-> cur.dest, path |-> k, port |-> cur.port]
    OBVIOUS
  <2>. QED  BY <2>1, <2>2
<1>3. /\ request' = [request EXCEPT ![c][l].flow = @ - 1]
      /\ UNCHANGED <<inbox, gpc, demand, outbox>>
      /\ Unsent = 1 /\ Unsent' = 1
  BY <1>1 DEF FindPath, recvVars, Unsent
<1>4. PICK m : m = Len(reply)
  OBVIOUS
<1>5. /\ m \in Nat /\ Len(reply') = m + 1 /\ reply'[m + 1] = g
      /\ \A n \in 1..m : reply'[n] = reply[n]
  BY <1>2, <1>4, LedgerTypes
<1>6. request \in [Class -> [Slot -> Item]] /\ request[c][l] \in Item
  BY DEF ArbInv, QueueInv, QueueTypes
<1>7. /\ request[c][l].src = cur.src /\ request[c][l].dest = cur.dest
      /\ request[c][l].flow > 0 /\ request[c][l].flow \in Nat
  BY <1>1, <1>6, ItemType DEF FindPath, ArbInv, QueueInv, FindsItsRequest
<1>8. /\ request'[c][l].src = request[c][l].src /\ request'[c][l].dest = request[c][l].dest
      /\ request'[c][l].flow = request[c][l].flow - 1
  BY <1>3, <1>6 DEF Item, Entry
<1>. DEFINE a == <<"array", c, l>>  b == <<"reply", 0, m + 1>>
<1>9. a \in Place /\ b \in Place /\ a # b
  BY <1>5, Numbers DEF Place
<1>10. /\ Weight(f)[a] = Chunks(request[c][l], f)
       /\ Weight(f)'[a] = Chunks(request'[c][l], f)
  BY <1>9, Values DEF Held, ArrayAt
<1>11. Weight(f)[b] = 0
  <2>1. m + 1 \notin Unsent..Len(reply)
    BY <1>4, <1>5
  <2>. QED  BY <1>9, <2>1, Values DEF Held, ReplyAt
<1>12. Weight(f)'[b] = Granted(g, f)
  <2>1. m + 1 \in Unsent'..Len(reply')
    BY <1>3, <1>5
  <2>. QED  BY <1>5, <1>9, <2>1, Values DEF Held, ReplyAt
<1>13. ASSUME NEW q \in Place, q # a, q # b PROVE Weight(f)'[q] = Weight(f)[q]
  <2>1. q = <<q[1], q[2], q[3]>> /\ q[2] \in Nat /\ q[3] \in Nat
    BY DEF Place
  <2>2. CASE q[1] = "reply"
    <3>1. CASE q[2] = 0
      <4>1. q[3] # m + 1
        BY <1>13, <2>1, <2>2, <3>1
      <4>2. q[3] \in Unsent..Len(reply) <=> q[3] \in 1..m
        BY <1>3, <1>4
      <4>3. q[3] \in Unsent'..Len(reply') <=> q[3] \in 1..m
        BY <1>3, <1>5, <2>1, <4>1
      <4>. QED  BY <1>5, <2>2, <4>2, <4>3, Values DEF Held, ReplyAt
    <3>. QED  BY <2>2, <3>1, Values DEF Held, ReplyAt
  <2>3. CASE q[1] = "array"
    <3>1. q[2] \in Class /\ q[3] \in Slot => request'[q[2]][q[3]] = request[q[2]][q[3]]
      BY <1>3, <1>6, <1>13, <2>1, <2>3
    <3>. QED  BY <2>3, <3>1, Values DEF Held, ArrayAt
  <2>. QED  BY <1>3, <2>2, <2>3, Values, Untouched
<1>. HIDE DEF a, b
<1>14. CASE <<cur.src, cur.dest>> = f
  <2>1. /\ Weight(f)[a] > 0 /\ Weight(f)'[a] = Weight(f)[a] - 1
        /\ Weight(f)'[b] = Weight(f)[b] + 1
    BY <1>2, <1>7, <1>8, <1>10, <1>11, <1>12, <1>14 DEF Chunks, Granted
  <2>. QED  BY <1>9, <1>13, <2>1, OneMoved DEF Moves
<1>15. CASE <<cur.src, cur.dest>> # f
  <2>1. Weight(f)[a] = 0 /\ Weight(f)'[a] = 0 /\ Weight(f)'[b] = 0
    BY <1>2, <1>7, <1>8, <1>10, <1>12, <1>15 DEF Chunks, Granted
  <2>. QED  BY <1>9, <1>11, <1>13, <2>1, Handed DEF Moves
<1>. QED  BY <1>14, <1>15

\* The first reply not yet written goes to the outbox of its client.
LEMMA SendMoves ==
    ASSUME NEW f \in Flow, ArbInv, SourceInv, SendReply,
           Weight(f) \in [Place -> Nat], Weight(f)' \in [Place -> Nat]
    PROVE  Moves(f)
<1>1. PICK n \in Nat : n = sent + 1
  BY DEF ArbInv, QueueInv, ServerTypes
<1>2. PICK g : g = reply[n]
  OBVIOUS
<1>3. /\ n \in 1..Len(reply) /\ Unsent = n /\ Unsent' = n + 1
      /\ UNCHANGED <<inbox, gpc, demand, request, reply>>
  BY <1>1, LedgerTypes
  DEF SendReply, Unsent, ArbInv, QueueInv, ServerTypes, allocVars, recvVars, queueVars
<1>4. PICK h \in Client : h = g.src
  BY <1>2, <1>3 DEF SourceInv
<1>5. PICK m : m = Len(outbox[h])
  OBVIOUS
<1>6. outbox' = [outbox EXCEPT ![h] = Append(@, g)] /\ outbox \in [Client -> Seq(Grant)]
  BY <1>1, <1>2, <1>4 DEF SendReply, ArbInv, QueueInv, ServerTypes
<1>7. g \in Grant
  BY <1>2, <1>3, LedgerTypes
<1>8. /\ m \in Nat /\ Len(outbox'[h]) = m + 1 /\ outbox'[h][m + 1] = g
      /\ \A k \in 1..m : outbox'[h][k] = outbox[h][k]
  BY <1>5, <1>6, <1>7
<1>. DEFINE a == <<"reply", 0, n>>  b == <<"outbox", h, m + 1>>
<1>9. a \in Place /\ b \in Place /\ a # b
  BY <1>8, Numbers DEF Place
<1>10. Weight(f)[a] = Granted(g, f) /\ Weight(f)'[a] = 0
  <2>1. n \in Unsent..Len(reply) /\ n \notin Unsent'..Len(reply')
    BY <1>3
  <2>. QED  BY <1>2, <1>9, <2>1, Values DEF Held, ReplyAt
<1>11. Weight(f)[b] = 0 /\ Weight(f)'[b] = Granted(g, f)
  <2>1. m + 1 \notin 1..Len(outbox[h]) /\ m + 1 \in 1..Len(outbox'[h])
    BY <1>5, <1>8
  <2>. QED  BY <1>8, <1>9, <2>1, Values DEF Held, OutboxAt
<1>12. ASSUME NEW q \in Place, q # a, q # b PROVE Weight(f)'[q] = Weight(f)[q]
  <2>1. q = <<q[1], q[2], q[3]>> /\ q[2] \in Nat /\ q[3] \in Nat
    BY DEF Place
  <2>2. CASE q[1] = "reply"
    <3>1. CASE q[2] = 0
      <4>1. q[3] # n
        BY <1>12, <2>1, <2>2, <3>1
      <4>2. q[3] \in Unsent..Len(reply) <=> q[3] \in Unsent'..Len(reply')
        BY <1>3, <2>1, <4>1
      <4>. QED  BY <1>3, <2>2, <4>2, Values DEF Held, ReplyAt
    <3>. QED  BY <2>2, <3>1, Values DEF Held, ReplyAt
  <2>3. CASE q[1] = "outbox"
    <3>1. CASE q[2] = h
      <4>1. q[3] # m + 1
        BY <1>12, <2>1, <2>3, <3>1
      <4>2. q[3] \in 1..Len(outbox[h]) <=> q[3] \in 1..m
        BY <1>5
      <4>3. q[3] \in 1..Len(outbox'[h]) <=> q[3] \in 1..m
        BY <1>8, <2>1, <4>1
      <4>4. OutboxAt(h, q[3], f) = IF q[3] \in 1..m THEN Granted(outbox[h][q[3]], f) ELSE 0
        BY <4>2 DEF OutboxAt
      <4>5. OutboxAt(h, q[3], f)' = IF q[3] \in 1..m THEN Granted(outbox'[h][q[3]], f) ELSE 0
        BY <4>3 DEF OutboxAt
      <4>. QED  BY <1>8, <2>3, <3>1, <4>4, <4>5, Values DEF Held
    <3>2. CASE q[2] # h
      <4>1. q[2] \in Client => outbox'[q[2]] = outbox[q[2]]
        BY <1>6, <3>2
      <4>. QED  BY <2>3, <4>1, Values DEF Held, OutboxAt
    <3>. QED  BY <3>1, <3>2
  <2>. QED  BY <1>3, <2>2, <2>3, Values, Untouched
<1>. HIDE DEF a, b
<1>. QED  BY <1>9, <1>10, <1>11, <1>12, Handed DEF Moves

\* The steps that move nothing.
LEMMA IdleMoves ==
    ASSUME NEW f, ArbInv,
           \/ CheckQueues \/ Wait \/ SpuriousWake \/ Visit \/ PassOver \/ GiveUp
           \/ EndClass \/ EndSlot \/ UNCHANGED vars
    PROVE  Moves(f)
<1>1. UNCHANGED <<inbox, gpc, demand, request, reply, outbox>>
  BY DEF CheckQueues, Wait, SpuriousWake, WakeUp, Visit, PassOver, GiveUp, EndClass, EndSlot,
         vars, allocVars, recvVars, queueVars, procVars
<1>2. UNCHANGED Unsent
  <2>1. sent \in Nat
    BY DEF ArbInv, QueueInv, ServerTypes
  <2>2. CASE EndSlot
    BY <2>1, <2>2 DEF EndSlot, allocVars, Unsent
  <2>3. CASE EndClass
    BY <2>3 DEF EndClass, Unsent
  <2>4. CASE CheckQueues \/ Wait \/ SpuriousWake
    BY <1>1, <2>4 DEF CheckQueues, Wait, SpuriousWake, WakeUp, Unsent
  <2>5. CASE Visit \/ PassOver \/ GiveUp
    BY <1>1, <2>5 DEF Visit, PassOver, GiveUp, Unsent
  <2>6. CASE UNCHANGED vars
    BY <2>6 DEF vars, allocVars, procVars, Unsent
  <2>. QED  BY <2>2, <2>3, <2>4, <2>5, <2>6
<1>. QED  BY <1>1, <1>2, StillSteps

LEMMA SignalMoves ==
    ASSUME NEW f, NEW h \in Client, ArbInv, Signal(h)
    PROVE  Moves(f)
<1>1. /\ gpc[h] = "signal" /\ gpc' = [gpc EXCEPT ![h] = "read"] /\ DOMAIN gpc = Client
      /\ UNCHANGED <<inbox, demand, request, reply, outbox, sent>>
      /\ UNCHANGED ppc \/ (ppc = "asleep" /\ ppc' = "load")
  BY DEF Signal, WakeUp, allocVars, queueVars, ArbInv, QueueInv, QueueTypes
<1>2. UNCHANGED Unsent
  BY <1>1 DEF Unsent
<1>3. ASSUME NEW p \in Place, p[1] = "thread" PROVE Held(p, f)' = Held(p, f)
  BY <1>1, <1>3 DEF Held, ThreadAt
<1>. QED  BY <1>1, <1>2, <1>3, Untouched, Still

-----------------------------------------------------------------------------
(* The ledger.                                                             *)

LEMMA AskedFinite == \A f \in Flow : IsFiniteSet(Asked(f))
<1>. SUFFICES ASSUME NEW f \in Flow PROVE IsFiniteSet(Asked(f))
  OBVIOUS
<1>. DEFINE F == [x \in Sending |-> {x} \X (1..Wanted(Traffic[x[1]][x[2]], f))]
            S == {{x} \X (1..Wanted(Traffic[x[1]][x[2]], f)) : x \in Sending}
<1>1. IsFiniteSet(Sending)
  <2>1. 1..ReqSize \subseteq 0..ReqSize
    BY SizeType
  <2>2. Sending \subseteq AllDemands
    BY <2>1 DEF Sending, AllDemands
  <2>. QED  BY <2>2, DemandsFinite, FS_Subset
<1>2. \A T \in S : IsFiniteSet(T)
  <2>. SUFFICES ASSUME NEW x \in Sending
                PROVE  IsFiniteSet({x} \X (1..Wanted(Traffic[x[1]][x[2]], f)))
    OBVIOUS
  <2>1. x[1] \in Client /\ x[2] \in DOMAIN Traffic[x[1]]
    BY DEF Sending
  <2>2. Traffic[x[1]][x[2]] \in Demand
    BY <2>1, TrafficType
  <2>3. Wanted(Traffic[x[1]][x[2]], f) \in Int /\ 1 \in Int
    BY <2>2, ItemType DEF Wanted, Chunks
  <2>4. IsFiniteSet(1..Wanted(Traffic[x[1]][x[2]], f))
    BY <2>3, FS_Interval
  <2>5. IsFiniteSet({x})
    BY FS_Singleton
  <2>. QED  BY <2>4, <2>5, FS_Product
<1>3. F \in Surjection(Sending, S)
  BY DEF Surjection
<1>4. IsFiniteSet(S)
  BY <1>1, <1>3, FS_Surjection
<1>. QED  BY <1>2, <1>4, FS_UNION DEF Asked

\* At the start all that is asked for is in the sockets.
LEMMA LedgerInit == Init => LedgerInv
<1>. SUFFICES ASSUME Init, NEW f \in Flow PROVE ExistsBijection(Asked(f), Located(f))
  BY DEF LedgerInv
<1>1. ArbInv
  BY InitAlloc, InitQueue DEF Init, ArbInv
<1>2. Weight(f) \in [Place -> Nat] /\ Located(f) = Units(Weight(f))
  BY <1>1, WeightType, UnitsLocated
<1>3. ASSUME NEW h \in Nat, NEW n \in Nat
      PROVE  /\ <<"inbox", h, n>> \in Place
             /\ Weight(f)[<<"inbox", h, n>>]
                  = IF h \in Client /\ n \in 1..Len(Traffic[h])
                    THEN Wanted(Traffic[h][n], f) ELSE 0
  <2>1. <<"inbox", h, n>> \in Place
    BY DEF Place
  <2>2. Weight(f)[<<"inbox", h, n>>] = InboxAt(h, n, f)
    BY <2>1, Values DEF Held
  <2>. QED  BY <2>1, <2>2 DEF InboxAt, Init
<1>4. ASSUME NEW p \in Place, p[1] # "inbox" PROVE Weight(f)[p] = 0
  <2>1. Chunks(Empty, f) = 0
    BY DEF Chunks, Empty
  <2>2. /\ \A h \in Client : gpc[h] # "lock" /\ Len(outbox[h]) = 0
        /\ \A c \in Class, s \in Slot : request[c][s] = Empty
        /\ Len(reply) = 0 /\ Unsent = 1
    BY DEF Init, AllocInit, Unsent
  <2>. QED
    BY <1>4, <2>1, <2>2, Values DEF Place, Held, ThreadAt, ArrayAt, ReplyAt, OutboxAt
<1>5. ASSUME NEW h, NEW n
      PROVE  <<h, n>> \in Sending <=> h \in Client /\ n \in 1..Len(Traffic[h])
  <2>1. <<h, n>> \in Sending <=> h \in Client /\ n \in 1..ReqSize /\ n \in DOMAIN Traffic[h]
    BY DEF Sending
  <2>2. h \in Client => DOMAIN Traffic[h] = 1..Len(Traffic[h])
                        /\ Len(Traffic[h]) \in Nat /\ Len(Traffic[h]) < ReqSize
    BY TrafficType
  <2>. QED  BY <2>1, <2>2, SizeType
<1>. DEFINE g == [x \in Asked(f) |-> <<<<"inbox", x[1][1], x[1][2]>>, x[2]>>]
<1>6. ASSUME NEW x \in Asked(f)
      PROVE  /\ x = <<<<x[1][1], x[1][2]>>, x[2]>>
             /\ x[1][1] \in Client /\ x[1][2] \in 1..Len(Traffic[x[1][1]])
             /\ x[2] \in 1..Wanted(Traffic[x[1][1]][x[1][2]], f)
  <2>1. PICK d \in Sending : x \in {d} \X (1..Wanted(Traffic[d[1]][d[2]], f))
    BY DEF Asked
  <2>2. d = <<d[1], d[2]>>
    BY DEF Sending
  <2>3. x[1] = d /\ x = <<x[1], x[2]>> /\ x[2] \in 1..Wanted(Traffic[d[1]][d[2]], f)
    BY <2>1
  <2>. QED  BY <1>5, <2>2, <2>3
<1>7. ASSUME NEW x \in Asked(f) PROVE g[x] \in Units(Weight(f))
  <2>1. /\ x[1][1] \in Nat /\ x[1][2] \in Nat
        /\ Wanted(Traffic[x[1][1]][x[1][2]], f) \in Nat
    <3>1. Traffic[x[1][1]][x[1][2]] \in Item
      BY <1>6, TrafficType, ItemType
    <3>. QED  BY <1>6, <3>1, Numbers, TrafficType, ItemType DEF Wanted, Chunks
  <2>. QED  BY <1>3, <1>6, <2>1 DEF Units
<1>8. ASSUME NEW x \in Asked(f), NEW y \in Asked(f), g[x] = g[y] PROVE x = y
  BY <1>6, <1>8
<1>9. ASSUME NEW y \in Units(Weight(f)) PROVE \E x \in Asked(f) : g[x] = y
  <2>1. /\ y[1] \in Place /\ y[2] \in Nat /\ y = <<y[1], y[2]>>
        /\ 1 <= y[2] /\ y[2] <= Weight(f)[y[1]] /\ Weight(f)[y[1]] \in Nat
    BY <1>2 DEF Units
  <2>2. PICK h \in Nat, n \in Nat : y[1] = <<"inbox", h, n>>
    <3>1. y[1][1] = "inbox"
      BY <1>4, <2>1
    <3>. QED  BY <2>1, <3>1 DEF Place
  <2>3. /\ h \in Client /\ n \in 1..Len(Traffic[h])
        /\ y[2] \in 1..Wanted(Traffic[h][n], f)
    BY <1>3, <2>1, <2>2
  <2>4. <<<<h, n>>, y[2]>> \in Asked(f)
    <3>1. <<h, n>> \in Sending
      BY <1>5, <2>3
    <3>. QED  BY <2>3, <3>1 DEF Asked
  <2>5. g[<<<<h, n>>, y[2]>>] = y
    BY <2>1, <2>2, <2>4
  <2>. QED  BY <2>4, <2>5
<1>10. g \in Bijection(Asked(f), Units(Weight(f)))
  BY <1>7, <1>8, <1>9, Fun_IsBij
<1>. QED  BY <1>2, <1>10, Fun_ExistsBij

LEMMA EveryStepMoves ==
    ASSUME NEW f \in Flow, ArbInv, SourceInv, [Next]_vars,
           Weight(f) \in [Place -> Nat], Weight(f)' \in [Place -> Nat]
    PROVE  Moves(f)
<1>1. ASSUME NEW h \in Client, Receive(h) PROVE Moves(f)
  BY <1>1, ReadMoves, BeginStoreMoves, EndStoreMoves, SignalMoves DEF Receive
<1>2. ASSUME Serve PROVE Moves(f)
  <2>1. CASE NewSlot
    BY <2>1, NewSlotMoves
  <2>2. CASE LoadClass
    BY <2>2, LoadMoves
  <2>3. CASE FindPath
    BY <2>3, FindPathMoves
  <2>4. CASE Remove
    BY <2>4, RemoveMoves
  <2>5. CASE SendReply
    BY <2>5, SendMoves
  <2>. QED  BY <1>2, <2>1, <2>2, <2>3, <2>4, <2>5, IdleMoves DEF Serve
<1>. QED  BY <1>1, <1>2, IdleMoves DEF Next

LEMMA LedgerStep == ArbInv /\ SourceInv /\ LedgerInv /\ [Next]_vars => LedgerInv'
<1>1. (ArbInv => \A f \in Flow : Weight(f) \in [Place -> Nat]
                                 /\ Located(f) = Units(Weight(f)))'
  <2>1. ArbInv => \A f \in Flow : Weight(f) \in [Place -> Nat]
                                  /\ Located(f) = Units(Weight(f))
    BY WeightType, UnitsLocated
  <2>. QED  BY <2>1, PTL
<1>. SUFFICES ASSUME ArbInv, SourceInv, LedgerInv, [Next]_vars, NEW f \in Flow
              PROVE  ExistsBijection(Asked(f), Located(f)')
  BY DEF LedgerInv, Asked, Sending
<1>2. ArbInv'
  BY NextArb
<1>3. Weight(f)' \in [Place -> Nat] /\ Located(f)' = Units(Weight(f)')
  BY <1>1, <1>2 DEF Units, Place
<1>4. Weight(f) \in [Place -> Nat] /\ Located(f) = Units(Weight(f))
  BY WeightType, UnitsLocated
<1>5. ExistsBijection(Located(f), Located(f)')
  <2>1. Moves(f)
    BY <1>3, <1>4, EveryStepMoves
  <2>. QED  BY <1>3, <1>4, <2>1 DEF Moves
<1>6. ExistsBijection(Asked(f), Located(f))
  BY DEF LedgerInv
<1>. QED  BY <1>5, <1>6, Fun_ExistsBijTransitive

\* In every reachable state the chunks located and those asked for are in a
\* bijection, and whoever gets a reply is a client.
THEOREM LedgerInvariant == Spec => [](ArbInv /\ SourceInv /\ LedgerInv)
<1>1. Init => SourceInv /\ LedgerInv
  BY SourceInit, LedgerInit
<1>2. ArbInv /\ SourceInv /\ LedgerInv /\ [Next]_vars => SourceInv' /\ LedgerInv'
  BY SourceStep, LedgerStep
<1>. QED  BY <1>1, <1>2, ArbiterInvariant, PTL DEF Spec

\* No chunk of a flow is lost, served twice or granted to another flow, however
\* stores, sorts, removals and unlocked reads interleave.
THEOREM ChunksNeverLost == Spec => []ChunksConserved
<1>1. ASSUME LedgerInv PROVE ChunksConserved
  BY <1>1, AskedFinite, FS_Bijection DEF LedgerInv, ChunksConserved
<1>. QED  BY <1>1, LedgerInvariant, PTL

=============================================================================
