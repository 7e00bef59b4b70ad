-------------------------- MODULE SequentialProofs --------------------------
(***************************************************************************)
(* The sequential pieces of the code for inputs of any size: sorting and   *)
(* removing in an array of any length, the search for a path, the flow     *)
(* that the parser makes of any volume, and the verdicts of evaluation.py  *)
(* on any trace.                                                           *)
(***************************************************************************)
EXTENDS MCSequential, Sequences, FiniteSetTheorems, FunctionTheorems,
        WellFoundedInduction, TLAPS

Request == [flow : Nat, tag : Nat]

\* The first m slots of the array b in another order.
Orders(m) == {q \in [0..(m - 1) -> 0..(m - 1)] : \A s, t \in 0..(m - 1) : s < t => q[s] # q[t]}
Reordered(b, m, q) == [s \in 0..m |-> IF s < m THEN b[q[s]] ELSE b[s]]

\* The array b of m requests when the removal of slot r has come to slot x.
MovedTo(b, m, r, x) == [s \in 0..m |-> IF r <= s /\ s < x THEN b[s + 1] ELSE b[s]]

SortTypes ==
    /\ n \in Nat \ {0} /\ k \in 0..(n - 1)
    /\ a0 \in [0..n -> Request] /\ a \in [0..n -> Request]
    /\ i \in Nat /\ j \in Nat
    /\ phase \in {"sort", "shift", "done"}

\* The loops of the exchange sort: the slots before i are final, and slot i
\* comes before those that it was compared with.
Sorting ==
    /\ i <= n /\ i < j /\ (j <= n \/ j = i + 1)
    /\ \E q \in Orders(n) : a = Reordered(a0, n, q)
    /\ \A s \in 0..(i - 1), t \in 0..(n - 1) : s < t => Sort!Before(a[s], a[t])
    /\ \A t \in (i + 1)..(j - 1) : Sort!Before(a[i], a[t])

SortInv ==
    /\ SortTypes
    /\ phase = "sort" => Sorting
    /\ phase = "shift" => i \in k..n /\ \E b \in Sort!Sorted(a0, n) : a = MovedTo(b, n, k, i)
    /\ phase = "done" => \E b \in Sort!Sorted(a0, n) : a = Sort!Shift(b, k, n)

-----------------------------------------------------------------------------
(* Sorting and removing.                                                   *)

\* Requests are compared by a total preorder, in which 0 is the last flow.
LEMMA BeforeOrder ==
    /\ \A d, e \in Request : Sort!MustSwap(d, e) <=> ~ Sort!Before(d, e)
    /\ \A d, e \in Request : Sort!Before(d, e) \/ Sort!Before(e, d)
    /\ \A d, e, g \in Request : Sort!Before(d, e) /\ Sort!Before(e, g) => Sort!Before(d, g)
BY DEF Request, Sort!MustSwap, Sort!Before

LEMMA SortedType ==
    ASSUME SortTypes, NEW b \in Sort!Sorted(a0, n)
    PROVE  b \in [0..n -> Request]
<1>1. PICK q \in [0..(n - 1) -> 0..(n - 1)] :
        b = [s \in DOMAIN a0 |-> IF s < n THEN a0[q[s]] ELSE a0[s]]
  BY DEF Sort!Sorted
<1>2. n \in Nat /\ a0 \in [0..n -> Request]
  BY DEF SortTypes
<1>3. \A s \in 0..n : s < n => q[s] \in 0..n
  BY <1>2
<1>. QED  BY <1>1, <1>2, <1>3

LEMMA SortStarts == Sort!Init => SortInv
<1> SUFFICES ASSUME Sort!Init PROVE SortInv
  OBVIOUS
<1>1. /\ n \in Nat \ {0} /\ k \in 0..(n - 1) /\ a = a0
      /\ i = 0 /\ j = 1 /\ phase = "sort"
  BY SequentialAssumption DEF Sort!Init
<1>2. a0 \in [0..n -> Request]
  <2>1. PICK v \in [0..(n - 1) -> 0..MaxFlow] :
          a0 = [s \in 0..n |-> [flow |-> IF s = n THEN 0 ELSE v[s], tag |-> s]]
    BY DEF Sort!Init, Sort!Arrays
  <2>2. \A s \in 0..n : s # n => s \in 0..(n - 1)
    BY <1>1
  <2>3. 0..MaxFlow \subseteq Nat
    BY SequentialAssumption
  <2>4. \A s \in 0..n : (IF s = n THEN 0 ELSE v[s]) \in Nat /\ s \in Nat
    BY <1>1, <2>2, <2>3
  <2>. QED  BY <2>1, <2>4 DEF Request
<1>3. \E q \in Orders(n) : a = Reordered(a0, n, q)
  <2> DEFINE q == [s \in 0..(n - 1) |-> s]
  <2>1. q \in Orders(n)
    BY <1>1 DEF Orders
  <2>2. a0 = Reordered(a0, n, q)
    BY <1>1, <1>2 DEF Reordered
  <2>. QED  BY <1>1, <2>1, <2>2
<1>4. SortTypes
  BY <1>1, <1>2 DEF SortTypes
<1>5. Sorting
  <2>1. \A s \in 0..(i - 1) : FALSE
    BY <1>1
  <2>2. \A t \in (i + 1)..(j - 1) : FALSE
    BY <1>1
  <2>3. i <= n /\ i < j /\ j = i + 1
    BY <1>1
  <2>. QED  BY <1>3, <2>1, <2>2, <2>3 DEF Sorting
<1>. QED  BY <1>1, <1>4, <1>5 DEF SortInv

LEMMA PinnedSort == NoSort => SortInv
<1> SUFFICES ASSUME NoSort PROVE SortInv
  OBVIOUS
<1> DEFINE q == [s \in 0..0 |-> 0]
<1>1. /\ n = 1 /\ k = 0 /\ i = 1 /\ j = 1 /\ phase = "done"
      /\ a0 \in [0..1 -> Request] /\ a = [a0 EXCEPT ![0] = a0[1]]
      /\ a \in [0..1 -> Request]
  BY DEF NoSort, Request
<1>2. a0 \in Sort!Sorted(a0, n)
  <2>1. q \in [0..(n - 1) -> 0..(n - 1)] /\ \A s, t \in 0..(n - 1) : ~ s < t
    BY <1>1
  <2>2. a0 = [s \in DOMAIN a0 |-> IF s < n THEN a0[q[s]] ELSE a0[s]]
    BY <1>1
  <2>. QED  BY <2>1, <2>2 DEF Sort!Sorted
<1>3. a = Sort!Shift(a0, k, n)
  <2>1. \A s \in 0..1 : s = 0 \/ s = 1
    OBVIOUS
  <2>2. \A s \in 0..1 : a[s] = IF k <= s /\ s < n THEN a0[s + 1] ELSE a0[s]
    BY <1>1, <2>1
  <2>. QED  BY <1>1, <2>2 DEF Sort!Shift
<1>4. SortTypes
  BY <1>1 DEF SortTypes
<1>. QED  BY <1>1, <1>2, <1>3, <1>4 DEF SortInv

\* The exchange keeps the array a reordering of the first one.
LEMMA CompareReorders ==
    ASSUME SortTypes, Sorting, Sort!Compare
    PROVE  \E q \in Orders(n) : a' = Reordered(a0, n, q)
<1>1. /\ n \in Nat /\ i \in 0..(n - 1) /\ j \in 0..(n - 1) /\ i # j
      /\ a \in [0..n -> Request]
  BY DEF SortTypes, Sorting, Sort!Compare
<1>2. PICK q \in Orders(n) : a = Reordered(a0, n, q)
  BY DEF Sorting
<1>3. CASE a' = a
  BY <1>2, <1>3
<1>4. CASE a' = [a EXCEPT ![i] = a[j], ![j] = a[i]]
  <2> DEFINE p == [s \in 0..(n - 1) |-> IF s = i THEN q[j] ELSE IF s = j THEN q[i] ELSE q[s]]
  <2>1. q \in [0..(n - 1) -> 0..(n - 1)] /\ \A s, t \in 0..(n - 1) : s # t => q[s] # q[t]
    <3>1. \A s, t \in 0..(n - 1) : s # t => s < t \/ t < s
      BY <1>1
    <3>. QED  BY <1>2, <3>1 DEF Orders
  <2>2. p \in [0..(n - 1) -> 0..(n - 1)]
    BY <1>1, <2>1
  <2>3. \A s, t \in 0..(n - 1) : s # t => p[s] # p[t]
    BY <1>1, <2>1
  <2>4. p \in Orders(n)
    BY <1>1, <2>2, <2>3 DEF Orders
  <2>5. \A s \in 0..n : a'[s] = Reordered(a0, n, p)[s]
    <3>1. \A s \in 0..n : a[s] = IF s < n THEN a0[q[s]] ELSE a0[s]
      BY <1>2 DEF Reordered
    <3>2. \A s \in 0..n : a'[s] = IF s = i THEN a[j] ELSE IF s = j THEN a[i] ELSE a[s]
      BY <1>1, <1>4
    <3>3. \A s \in 0..n : (s < n <=> s \in 0..(n - 1)) /\ i < n /\ j < n /\ i \in 0..n /\ j \in 0..n
      BY <1>1
    <3>. QED  BY <1>1, <3>1, <3>2, <3>3 DEF Reordered
  <2>6. a' = Reordered(a0, n, p)
    BY <1>1, <1>4, <2>5 DEF Reordered
  <2>. QED  BY <2>4, <2>6
<1>. QED  BY <1>3, <1>4 DEF Sort!Compare

LEMMA CompareSorts == SortInv /\ Sort!Compare => SortInv'
<1> SUFFICES ASSUME SortInv, Sort!Compare PROVE SortInv'
  OBVIOUS
<1>1. /\ SortTypes /\ Sorting /\ phase = "sort" /\ phase' = "sort"
      /\ n' = n /\ k' = k /\ a0' = a0 /\ i' = i /\ j' = j + 1
      /\ n \in Nat /\ i \in 0..(n - 1) /\ j \in 0..(n - 1) /\ i < j
      /\ a \in [0..n -> Request]
  BY DEF SortInv, SortTypes, Sorting, Sort!Compare
<1>2. /\ a' \in [0..n -> Request]
      /\ Sort!Before(a'[i], a'[j])
      /\ \A s \in 0..(n - 1) : s # i /\ s # j => a'[s] = a[s]
      /\ \/ a'[i] = a[i] /\ a'[j] = a[j]
         \/ a'[i] = a[j] /\ a'[j] = a[i] /\ ~ Sort!Before(a[i], a[j])
  <2>1. a[i] \in Request /\ a[j] \in Request
    BY <1>1
  <2>2. CASE Sort!Before(a[i], a[j])
    <3>1. a' = a
      BY <2>1, <2>2, BeforeOrder DEF Sort!Compare
    <3>. QED  BY <1>1, <2>2, <3>1
  <2>3. CASE ~ Sort!Before(a[i], a[j])
    <3>1. a' = [a EXCEPT ![i] = a[j], ![j] = a[i]]
      BY <2>1, <2>3, BeforeOrder DEF Sort!Compare
    <3>2. Sort!Before(a[j], a[i])
      BY <2>1, <2>3, BeforeOrder
    <3>3. a'[i] = a[j] /\ a'[j] = a[i]
      BY <1>1, <3>1
    <3>4. a' \in [0..n -> Request] /\ \A s \in 0..(n - 1) : s # i /\ s # j => a'[s] = a[s]
      BY <1>1, <2>1, <3>1
    <3>. QED  BY <2>3, <3>2, <3>3, <3>4
  <2>. QED  BY <2>2, <2>3
<1>3. \A s \in 0..(i - 1), t \in 0..(n - 1) : s < t => Sort!Before(a'[s], a'[t])
  <2> SUFFICES ASSUME NEW s \in 0..(i - 1), NEW t \in 0..(n - 1), s < t
               PROVE  Sort!Before(a'[s], a'[t])
    OBVIOUS
  <2>1. s \in 0..(n - 1) /\ s # i /\ s # j /\ s < i /\ s < j
    BY <1>1
  <2>2. Sort!Before(a[s], a[t]) /\ Sort!Before(a[s], a[i]) /\ Sort!Before(a[s], a[j])
    BY <1>1, <2>1 DEF Sorting
  <2>3. a'[s] = a[s]
    BY <1>2, <2>1
  <2>. QED  BY <1>2, <2>2, <2>3
<1>4. \A t \in (i + 1)..j : Sort!Before(a'[i], a'[t])
  <2> SUFFICES ASSUME NEW t \in (i + 1)..j PROVE Sort!Before(a'[i], a'[t])
    OBVIOUS
  <2>1. CASE t = j
    BY <1>2, <2>1
  <2>2. CASE t # j
    <3>1. t \in (i + 1)..(j - 1) /\ t \in 0..(n - 1) /\ t # i
      BY <1>1, <2>2
    <3>2. Sort!Before(a[i], a[t]) /\ a'[t] = a[t]
      BY <1>1, <1>2, <2>2, <3>1 DEF Sorting
    <3>3. a[i] \in Request /\ a[j] \in Request /\ a[t] \in Request
      BY <1>1, <3>1
    <3>. QED  BY <1>2, <3>2, <3>3, BeforeOrder
  <2>. QED  BY <2>1, <2>2
<1>5. \E q \in Orders(n) : a' = Reordered(a0, n, q)
  BY <1>1, CompareReorders
<1>7. SortTypes'
  BY <1>1, <1>2 DEF SortTypes
<1>8. Sorting'
  <2>1. (j + 1) - 1 = j /\ j + 1 <= n
    BY <1>1
  <2>2. \E q \in Orders(n') : a' = Reordered(a0', n', q)
    BY <1>1, <1>5
  <2>. QED  BY <1>1, <1>3, <1>4, <2>1, <2>2 DEF Sorting, Sort!Before
<1>. QED  BY <1>1, <1>7, <1>8 DEF SortInv

LEMMA NextSlotSorts == SortInv /\ Sort!NextSlot => SortInv'
<1> SUFFICES ASSUME SortInv, Sort!NextSlot PROVE SortInv'
  OBVIOUS
<1>1. /\ SortTypes /\ Sorting /\ phase = "sort" /\ phase' = "sort"
      /\ n' = n /\ k' = k /\ a0' = a0 /\ a' = a /\ i' = i + 1 /\ j' = i + 2
      /\ n \in Nat /\ i \in Nat /\ i < n /\ j \in Nat /\ j >= n
  BY DEF SortInv, SortTypes, Sorting, Sort!NextSlot
<1>2. \A t \in 0..(n - 1) : i < t => Sort!Before(a[i], a[t])
  <2>1. \A t \in 0..(n - 1) : i < t => t \in (i + 1)..(j - 1)
    BY <1>1
  <2>. QED  BY <1>1, <2>1 DEF Sorting
<1>3. \A s \in 0..i, t \in 0..(n - 1) : s < t => Sort!Before(a[s], a[t])
  <2>1. \A s \in 0..i : s = i \/ s \in 0..(i - 1)
    BY <1>1
  <2>. QED  BY <1>1, <1>2, <2>1 DEF Sorting
<1>4. \E q \in Orders(n') : a' = Reordered(a0', n', q)
  BY <1>1 DEF Sorting
<1>5. (i + 1) - 1 = i /\ (i + 1) + 1 = i + 2 /\ ~ \E t \in ((i + 1) + 1)..((i + 2) - 1) : TRUE
  BY <1>1
<1>6. Sorting'
  BY <1>1, <1>3, <1>4, <1>5 DEF Sorting, Sort!Before
<1>7. SortTypes'
  BY <1>1 DEF SortTypes
<1>. QED  BY <1>1, <1>6, <1>7 DEF SortInv

LEMMA EndSortSorted == SortInv /\ Sort!EndSort => SortInv'
<1> SUFFICES ASSUME SortInv, Sort!EndSort PROVE SortInv'
  OBVIOUS
<1>1. /\ SortTypes /\ Sorting /\ phase' = "shift"
      /\ n' = n /\ k' = k /\ a0' = a0 /\ a' = a /\ i' = k /\ j' = j
      /\ n \in Nat /\ i = n /\ k \in 0..(n - 1)
      /\ a0 \in [0..n -> Request] /\ a \in [0..n -> Request]
  BY DEF SortInv, SortTypes, Sorting, Sort!EndSort
<1>2. a \in Sort!Sorted(a0, n)
  <2>1. PICK q \in Orders(n) : a = Reordered(a0, n, q)
    BY <1>1 DEF Sorting
  <2>2. \A s \in 0..(n - 1) : s < n /\ s \in 0..n /\ a[s] = a0[q[s]]
    BY <1>1, <2>1 DEF Reordered
  <2>3. \A s, t \in 0..(n - 1) : s < t => Sort!Before(a0[q[s]], a0[q[t]])
    BY <1>1, <2>2 DEF Sorting
  <2>4. a = [s \in DOMAIN a0 |-> IF s < n THEN a0[q[s]] ELSE a0[s]]
    BY <1>1, <2>1 DEF Reordered
  <2>. QED  BY <2>1, <2>3, <2>4 DEF Orders, Sort!Sorted
<1>3. a = MovedTo(a, n, k, k)
  BY <1>1 DEF MovedTo
<1>4. SortTypes'
  BY <1>1 DEF SortTypes
<1>5. \E b \in Sort!Sorted(a0, n) : a = MovedTo(b, n, k, k)
  BY <1>2, <1>3
<1>6. (i \in k..n)' /\ \E b \in Sort!Sorted(a0', n') : a' = MovedTo(b, n', k', i')
  BY <1>1, <1>5
<1>. QED  BY <1>1, <1>4, <1>6 DEF SortInv

LEMMA MoveDownMoves == SortInv /\ Sort!MoveDown => SortInv'
<1> SUFFICES ASSUME SortInv, Sort!MoveDown PROVE SortInv'
  OBVIOUS
<1>1. /\ SortTypes /\ phase = "shift" /\ phase' = "shift"
      /\ n' = n /\ k' = k /\ a0' = a0 /\ a' = [a EXCEPT ![i] = a[i + 1]]
      /\ i' = i + 1 /\ j' = j
      /\ n \in Nat /\ i \in k..n /\ i < n /\ k \in 0..(n - 1) /\ i \in 0..n /\ i + 1 \in 0..n
      /\ a \in [0..n -> Request]
  BY DEF SortInv, SortTypes, Sort!MoveDown
<1>2. PICK b \in Sort!Sorted(a0, n) : a = MovedTo(b, n, k, i)
  BY <1>1 DEF SortInv
<1>3. b \in [0..n -> Request]
  BY <1>1, SortedType
<1>4. a' = MovedTo(b, n, k, i + 1)
  <2>1. \A s \in 0..n : a[s] = IF k <= s /\ s < i THEN b[s + 1] ELSE b[s]
    BY <1>2 DEF MovedTo
  <2>2. a[i + 1] = b[i + 1]
    BY <1>1, <2>1
  <2>3. \A s \in 0..n : a'[s] = IF k <= s /\ s < i + 1 THEN b[s + 1] ELSE b[s]
    <3> SUFFICES ASSUME NEW s \in 0..n
                 PROVE  a'[s] = IF k <= s /\ s < i + 1 THEN b[s + 1] ELSE b[s]
      OBVIOUS
    <3>1. CASE s = i
      BY <1>1, <2>2, <3>1
    <3>2. CASE s # i
      BY <1>1, <2>1, <3>2
    <3>. QED  BY <3>1, <3>2
  <2>. QED  BY <1>1, <2>3 DEF MovedTo
<1>5. SortTypes'
  <2>1. a' \in [0..n -> Request]
    BY <1>1
  <2>. QED  BY <1>1, <2>1 DEF SortTypes
<1>6. (i \in k..n)' /\ \E d \in Sort!Sorted(a0', n') : a' = MovedTo(d, n', k', i')
  <2>1. \E d \in Sort!Sorted(a0, n) : a' = MovedTo(d, n, k, i + 1)
    BY <1>4
  <2>2. (i \in k..n)'
    BY <1>1
  <2>. QED  BY <1>1, <2>1, <2>2
<1>. QED  BY <1>1, <1>5, <1>6 DEF SortInv

LEMMA EndShiftShifts == SortInv /\ Sort!EndShift => SortInv'
<1> SUFFICES ASSUME SortInv, Sort!EndShift PROVE SortInv'
  OBVIOUS
<1>1. /\ SortTypes /\ phase = "shift" /\ phase' = "done"
      /\ n' = n /\ k' = k /\ a0' = a0 /\ a' = a /\ i' = i /\ j' = j
      /\ n \in Nat /\ i = n /\ k \in 0..(n - 1)
  BY DEF SortInv, SortTypes, Sort!EndShift
<1>2. PICK b \in Sort!Sorted(a0, n) : a = MovedTo(b, n, k, n)
  BY <1>1 DEF SortInv
<1>3. b \in [0..n -> Request]
  BY <1>1, SortedType
<1>4. a = Sort!Shift(b, k, n)
  BY <1>2, <1>3 DEF MovedTo, Sort!Shift
<1>5. \E d \in Sort!Sorted(a0', n') : a' = Sort!Shift(d, k', n')
  BY <1>1, <1>4
<1>6. SortTypes'
  BY <1>1 DEF SortTypes
<1>. QED  BY <1>1, <1>5, <1>6 DEF SortInv

LEMMA SortStill == SortInv /\ UNCHANGED sortVars => SortInv'
BY DEF SortInv, SortTypes, Sorting, sortVars

-----------------------------------------------------------------------------
\* Each iteration of the loops of sort_req_arr and adjust_req_arr keeps SortInv.
THEOREM SortInvariant == Spec => []SortInv
<1>1. Init => SortInv
  BY SortStarts, PinnedSort DEF Init
<1>2. SortInv /\ [Next]_vars => SortInv'
  BY CompareSorts, NextSlotSorts, EndSortSorted, MoveDownMoves, EndShiftShifts, SortStill
  DEF Next, Sort!Next, vars
<1>. QED  BY <1>1, <1>2, PTL DEF Spec

\* In an array of any length the slots before the outer index are final.
THEOREM PrefixesFinal == Spec => []PrefixFinal
<1>1. SortInv => PrefixFinal
  BY DEF SortInv, Sorting, PrefixFinal, Sort!PrefixFinal
<1>. QED  BY <1>1, SortInvariant, PTL

\* sort_req_arr sorts an array of any length, with the empty requests at its end
\* and none of them lost or repeated, and adjust_req_arr then removes slot k and
\* no other.
THEOREM LoopsSortAndRemove == Spec => []LoopsMeetOrder
<1>1. SortInv => LoopsMeetOrder
  <2> SUFFICES ASSUME SortInv PROVE LoopsMeetOrder
    OBVIOUS
  <2>1. ASSUME phase = "shift", i = k PROVE a \in Sort!Sorted(a0, n)
    <3>1. PICK b \in Sort!Sorted(a0, n) : a = MovedTo(b, n, k, k)
      BY <2>1 DEF SortInv
    <3>2. b \in [0..n -> Request]
      BY SortedType DEF SortInv
    <3>3. MovedTo(b, n, k, k) = b
      BY <3>2 DEF MovedTo, SortInv, SortTypes
    <3>. QED  BY <3>1, <3>3
  <2>. QED  BY <2>1 DEF SortInv, LoopsMeetOrder, Sort!LoopsMeetOrder
<1>. QED  BY <1>1, SortInvariant, PTL

-----------------------------------------------------------------------------
(* The search for a path.                                                  *)

\* The paths tried so far: in the first round those behind prev, and then from
\* path 0 to temp; test l leaves temp at l - 1 or behind it.
ProbeTypes ==
    /\ same_pod \in BOOLEAN /\ fits \subseteq 0..(Probe!NumPaths - 1)
    /\ prev \in -1..(Probe!NumPaths - 1) /\ temp \in -1..(Probe!NumPaths - 1)
    /\ test \in 1..(Probe!NumPaths + 2) /\ round \in 0..Probe!NumPaths

Probing ==
    /\ test \in 2..(Probe!NumPaths + 1) => temp >= test - 2
    /\ test = Probe!NumPaths + 2 => temp = 0
    /\ round = 0 /\ test <= Probe!NumPaths + 1 =>
         temp >= prev /\ \A x \in fits : ~ (prev < x /\ x <= temp)
    /\ round = 0 /\ test = Probe!NumPaths + 2 => \A x \in fits : ~ (prev < x \/ x = 0)
    /\ round >= 1 => temp >= 0 /\ \A x \in fits : ~ (prev < x \/ x <= temp)
    /\ round = 1 /\ test = Probe!NumPaths + 2 => fits = {}
    /\ round >= 2 => fits = {}

ProbeInv ==
    /\ ProbeTypes
    /\ result = Probe!Open => Probing
    /\ CircularFirstFit

\* The first path with room behind prev, or else the first one.
LEMMA FirstFound ==
    ASSUME ProbeTypes, NEW y \in fits,
           \/ prev < y /\ \A x \in fits : ~ (prev < x /\ x < y)
           \/ y <= prev /\ \A x \in fits : ~ (prev < x \/ x < y)
    PROVE  \E d \in 0..(Probe!NumPaths - 1) :
             /\ y = (prev + 1 + d) % Probe!NumPaths /\ (prev + 1 + d) % Probe!NumPaths \in fits
             /\ \A e \in 0..(d - 1) : (prev + 1 + e) % Probe!NumPaths \notin fits
<1> DEFINE At(d) == (prev + 1 + d) % Probe!NumPaths
<1>1. /\ Probe!NumPaths \in {2, 4} /\ prev \in -1..(Probe!NumPaths - 1)
      /\ y \in 0..(Probe!NumPaths - 1)
  BY DEF ProbeTypes, Probe!NumPaths
<1>2. CASE prev < y /\ \A x \in fits : ~ (prev < x /\ x < y)
  <2>1. y - prev - 1 \in 0..(Probe!NumPaths - 1) /\ At(y - prev - 1) = y
    BY <1>1, <1>2
  <2>2. \A e \in 0..((y - prev - 1) - 1) : prev < At(e) /\ At(e) < y
    BY <1>1, <1>2
  <2>. QED  BY <1>2, <2>1, <2>2
<1>3. CASE y <= prev /\ \A x \in fits : ~ (prev < x \/ x < y)
  <2>1. /\ Probe!NumPaths - prev - 1 + y \in 0..(Probe!NumPaths - 1)
        /\ At(Probe!NumPaths - prev - 1 + y) = y
    BY <1>1, <1>3
  <2>2. \A e \in 0..((Probe!NumPaths - prev - 1 + y) - 1) : prev < At(e) \/ At(e) < y
    BY <1>1, <1>3
  <2>. QED  BY <1>3, <2>1, <2>2
<1>. QED  BY <1>2, <1>3

LEMMA ProbeStarts == Probe!Init \/ NoProbe => ProbeInv
<1>1. ASSUME Probe!Init PROVE ProbeInv
  BY <1>1 DEF Probe!Init, Probe!NumPaths, Probe!None, Probe!Open, ProbeInv, ProbeTypes,
              Probing, CircularFirstFit, Probe!CircularFirstFit
<1>2. ASSUME NoProbe PROVE ProbeInv
  BY <1>2 DEF NoProbe, Probe!None, Probe!Open, ProbeInv, ProbeTypes, Probe!NumPaths,
              CircularFirstFit, Probe!CircularFirstFit
<1>. QED  BY <1>1, <1>2

LEMMA SkipSearches == ProbeInv /\ Probe!Skip => ProbeInv'
BY DEF Probe!Skip, Probe!Tests, Probe!Rounds, Probe!Applies, Probe!None, Probe!Open,
       ProbeInv, ProbeTypes, Probing, Probe!NumPaths, CircularFirstFit, Probe!CircularFirstFit

LEMMA EndRoundSearches == ProbeInv /\ Probe!EndRound => ProbeInv'
BY DEF Probe!EndRound, Probe!Tests, Probe!Rounds, Probe!Open,
       ProbeInv, ProbeTypes, Probing, Probe!NumPaths, CircularFirstFit, Probe!CircularFirstFit

LEMMA GiveUpSearched == ProbeInv /\ Probe!GiveUp => ProbeInv'
BY DEF Probe!GiveUp, Probe!Rounds, Probe!None, Probe!Open,
       ProbeInv, ProbeTypes, Probing, Probe!NumPaths, CircularFirstFit, Probe!CircularFirstFit

LEMMA TrySearches == ProbeInv /\ Probe!Try => ProbeInv'
<1> SUFFICES ASSUME ProbeInv, Probe!Try PROVE ProbeInv'
  OBVIOUS
<1>1. /\ ProbeTypes /\ Probing
      /\ same_pod' = same_pod /\ prev' = prev /\ fits' = fits /\ round' = round
      /\ test' = test + 1 /\ Probe!NumPaths \in {2, 4} /\ Probe!NumPaths' = Probe!NumPaths
      /\ round < Probe!NumPaths /\ test <= Probe!NumPaths + 1
      /\ Probe!Applies(test)
      /\ temp' = Probe!Move(test)
      /\ result' = IF temp' \in fits THEN temp' ELSE Probe!Open
  BY DEF ProbeInv, Probe!Try, Probe!Tests, Probe!Rounds, Probe!NumPaths
<1>2. \/ test <= Probe!NumPaths /\ temp' = temp + 1 /\ temp < Probe!NumPaths - 1
      \/ test = Probe!NumPaths + 1 /\ temp = Probe!NumPaths - 1 /\ temp' = 0
  BY <1>1 DEF Probe!Applies, Probe!Move, Probe!Tests, Probe!NumPaths, Probe!None,
              ProbeTypes, Probing
<1>3. ProbeTypes'
  BY <1>1, <1>2 DEF ProbeTypes
<1>4. CASE temp' \in fits
  <2>1. \/ prev < temp' /\ \A x \in fits : ~ (prev < x /\ x < temp')
        \/ temp' <= prev /\ \A x \in fits : ~ (prev < x \/ x < temp')
    BY <1>1, <1>2, <1>4 DEF ProbeTypes, Probing
  <2>2. CircularFirstFit'
    BY <1>1, <1>4, <2>1, FirstFound
    DEF CircularFirstFit, Probe!CircularFirstFit, Probe!At, Probe!NumPaths
  <2>3. result' # Probe!Open
    BY <1>1, <1>3, <1>4 DEF Probe!Open, ProbeTypes
  <2>. QED  BY <1>3, <2>2, <2>3 DEF ProbeInv, Probe!Open
<1>5. CASE temp' \notin fits
  <2>1. result' = Probe!Open
    BY <1>1, <1>5
  <2>2. Probing'
    BY <1>1, <1>2, <1>5 DEF Probing, ProbeTypes
  <2>. QED  BY <1>3, <2>1, <2>2 DEF ProbeInv, CircularFirstFit, Probe!CircularFirstFit, Probe!Open
<1>. QED  BY <1>4, <1>5

\* get_appropriate_vlanid tries the paths in circular order, from every start.
THEOREM ProbeInvariant == Spec => []ProbeInv
<1>1. Init => ProbeInv
  BY ProbeStarts DEF Init
<1>2. ProbeInv /\ [Next]_vars => ProbeInv'
  <2>1. ProbeInv /\ UNCHANGED probeVars => ProbeInv'
    <3>1. ProbeTypes /\ UNCHANGED probeVars => ProbeTypes'
      BY DEF probeVars, ProbeTypes, Probe!NumPaths
    <3>2. Probing /\ UNCHANGED probeVars => Probing'
      BY DEF probeVars, Probing, Probe!NumPaths
    <3>3. CircularFirstFit /\ UNCHANGED probeVars => CircularFirstFit'
      BY DEF probeVars, CircularFirstFit, Probe!CircularFirstFit, Probe!At, Probe!NumPaths
    <3>4. UNCHANGED probeVars => result' = result
      BY DEF probeVars
    <3>. QED  BY <3>1, <3>2, <3>3, <3>4 DEF ProbeInv, Probe!Open
  <2>. QED  BY <2>1, SkipSearches, TrySearches, EndRoundSearches, GiveUpSearched
            DEF Next, Probe!Next, vars
<1>. QED  BY <1>1, <1>2, PTL DEF Spec

\* The chain of ifs finds the first path with room in circular order, and -1
\* only when none has room.
THEOREM FirstFit == Spec => []CircularFirstFit
<1>1. ProbeInv => CircularFirstFit
  BY DEF ProbeInv
<1>. QED  BY <1>1, ProbeInvariant, PTL

-----------------------------------------------------------------------------
(* The flow of a volume.                                                   *)

\* A demand whose flow fits the volume of its line, if the line is supported.
Fitting ==
    {d \in [line : Eval!Line, flow : Int] :
        Eval!Supported(d.line) => /\ 50 * d.flow <= Eval!Wanted(d.line)
                                  /\ Eval!Wanted(d.line) <= 100 * d.flow}

ParserInv ==
    /\ file \in Seq(Eval!Line) /\ line \in Seq(Eval!Line)
    /\ packets \in Int
    /\ demands \in Seq(Fitting)

\* A supported volume is counted exactly: no product passes the int, and the
\* number of chunks does not pass the short.
LEMMA Counted ==
    ASSUME NEW v \in Nat, NEW u \in {"K", "M", "G"}
    PROVE  /\ Eval!Bytes(v, u) \in Int
           /\ v * (Eval!UnitBytes[u] \div 1000) < 50 * 32768 =>
                Eval!Packets(Eval!Bytes(v, u)) = v * (Eval!UnitBytes[u] \div 1000)
<1>1. CASE u = "K"
  BY <1>1, SMT DEF Eval!Bytes, Eval!UnitBytes, Eval!MaxInt, Eval!Packets, Eval!Rem, Eval!Quot
<1>2. CASE u = "M"
  BY <1>2, SMT DEF Eval!Bytes, Eval!UnitBytes, Eval!MaxInt, Eval!Packets, Eval!Rem, Eval!Quot
<1>3. CASE u = "G"
  BY <1>3, SMT DEF Eval!Bytes, Eval!UnitBytes, Eval!MaxInt, Eval!Packets, Eval!Rem, Eval!Quot
<1>. QED  BY <1>1, <1>2, <1>3, SMT

LEMMA PacketsType == \A b \in Int : Eval!Packets(b) \in Int
BY DEF Eval!Packets, Eval!Rem, Eval!Quot

LEMMA FlowType == \A p \in Int : Eval!FlowOf(p) \in Int
BY SMT DEF Eval!FlowOf, Eval!ToShort, Eval!Quot

LEMMA FlowFits ==
    \A p \in Nat : 50 <= p /\ p < 50 * 32768 =>
        50 * Eval!FlowOf(p) <= p /\ p <= 100 * Eval!FlowOf(p)
<1> SUFFICES ASSUME NEW p \in Nat, 50 <= p, p < 50 * 32768
             PROVE  50 * Eval!FlowOf(p) <= p /\ p <= 100 * Eval!FlowOf(p)
  OBVIOUS
<1>1. p \div 50 \in 1..32767 /\ 50 * (p \div 50) <= p /\ p <= 50 * (p \div 50) + 49
  BY SMT
<1>2. Eval!FlowOf(p) = p \div 50
  BY <1>1, SMT DEF Eval!FlowOf, Eval!ToShort, Eval!Quot
<1>. QED  BY <1>1, <1>2

LEMMA ParserStep == ParserInv /\ Eval!Next => ParserInv'
<1> SUFFICES ASSUME ParserInv, Eval!Next PROVE ParserInv'
  OBVIOUS
<1>1. CASE Eval!ReadLine
  <2>1. file # << >> /\ file' = Tail(file) /\ line' = <<Head(file)>>
        /\ packets' = packets /\ demands' = demands
    BY <1>1 DEF Eval!ReadLine
  <2>. QED  BY <2>1 DEF ParserInv
<1>2. CASE Eval!SendDemand
  <2> DEFINE l == line[1]
             v == l.volume[1]
             u == l.volume[2]
  <2>1. l \in Eval!Line /\ line' = << >> /\ (file' = file \/ file' = << >>)
    BY <1>2 DEF Eval!SendDemand, ParserInv
  <2>2. v \in Nat /\ u \in {"K", "M", "G"} /\ << >> \in Seq(Eval!Line)
    BY <2>1, SequentialAssumption DEF Eval!Line
  <2>3. /\ packets' = Eval!Packets(IF l.ending = "crlf" THEN Eval!Bytes(v, u) ELSE packets)
        /\ demands' = Append(demands, [line |-> l, flow |-> Eval!FlowOf(packets')])
    BY <1>2 DEF Eval!SendDemand
  <2>4. packets' \in Int /\ Eval!FlowOf(packets') \in Int
    <3>. HIDE DEF v, u
    <3>1. (IF l.ending = "crlf" THEN Eval!Bytes(v, u) ELSE packets) \in Int
      BY <2>2, Counted DEF ParserInv
    <3>. QED  BY <2>3, <3>1, PacketsType, FlowType
  <2>5. ASSUME Eval!Supported(l)
        PROVE  /\ 50 * Eval!FlowOf(packets') <= Eval!Wanted(l)
               /\ Eval!Wanted(l) <= 100 * Eval!FlowOf(packets')
    <3>1. /\ l.ending = "crlf" /\ 50 <= Eval!Wanted(l) /\ Eval!Wanted(l) < 50 * 32768
          /\ Eval!Wanted(l) = v * (Eval!UnitBytes[u] \div 1000)
      BY <2>5, SMT DEF Eval!Supported, Eval!Wanted
    <3>2. packets' = Eval!Wanted(l) /\ packets' \in Nat
      <4>. HIDE DEF l, v, u
      <4>1. v * (Eval!UnitBytes[u] \div 1000) < 50 * 32768
        BY <3>1, SMT
      <4>2. Eval!Packets(Eval!Bytes(v, u)) = v * (Eval!UnitBytes[u] \div 1000)
        BY <2>2, <4>1, Counted, SMT
      <4>3. packets' = Eval!Packets(Eval!Bytes(v, u))
        BY <2>3, <3>1, SMT
      <4>. QED  BY <2>4, <3>1, <4>2, <4>3, SMT
    <3>. QED  BY <3>1, <3>2, FlowFits, SMT
  <2>6. [line |-> l, flow |-> Eval!FlowOf(packets')] \in Fitting
    <3>. HIDE DEF l
    <3>. QED  BY <2>1, <2>4, <2>5 DEF Fitting
  <2>7. demands' \in Seq(Fitting)
    <3>. HIDE DEF l
    <3>. QED  BY <2>3, <2>6 DEF ParserInv
  <2>. QED  BY <2>1, <2>2, <2>4, <2>7 DEF ParserInv
<1>. QED  BY <1>1, <1>2 DEF Eval!Next

\* Whatever lines the file has, command_parser and send_demands keep ParserInv.
THEOREM ParserInvariant == Spec => []ParserInv
<1>1. Init => ParserInv
  <2>1. << >> \in Seq(Eval!Line) /\ << >> \in Seq(Fitting)
    OBVIOUS
  <2>2. ASSUME Eval!EvalInit PROVE ParserInv
    <3>1. PICK m \in 1..MaxLines : file \in [1..m -> Eval!Line]
      BY <2>2 DEF Eval!EvalInit, Eval!Init, Eval!Line
    <3>2. m \in Nat
      BY SequentialAssumption
    <3>3. file \in Seq(Eval!Line)
      BY <3>1, <3>2
    <3>. QED  BY <2>1, <2>2, <3>3 DEF Eval!EvalInit, Eval!Init, ParserInv
  <2>3. NoEval => ParserInv
    BY <2>1 DEF NoEval, ParserInv
  <2>. QED  BY <2>2, <2>3 DEF Init
<1>2. ParserInv /\ [Next]_vars => ParserInv'
  <2>1. ParserInv /\ UNCHANGED Eval!vars => ParserInv'
    BY DEF Eval!vars, ParserInv
  <2>2. Eval!EvalNext => Eval!Next \/ UNCHANGED Eval!vars
    BY DEF Eval!EvalNext, Eval!Parse, Eval!TimeUp, Eval!Arbiter_traffic, Eval!NextHost,
           Eval!Exam_flow, Eval!Analyze_flow
  <2>3. UNCHANGED evalVars => UNCHANGED Eval!vars
    BY DEF evalVars, Eval!vars
  <2>. QED  BY <2>1, <2>2, <2>3, ParserStep DEF Next, vars
<1>. QED  BY <1>1, <1>2, PTL DEF Spec

\* For every volume and any lines before it, the flow of a supported line fits
\* the volume: no product passes an int and no number of chunks a short.
THEOREM VolumesServed == Spec => []VolumeServed
<1>1. ParserInv => VolumeServed
  <2> SUFFICES ASSUME ParserInv, NEW m \in DOMAIN demands
               PROVE  Eval!Supported(demands[m].line) =>
                        /\ 50 * demands[m].flow <= Eval!Wanted(demands[m].line)
                        /\ Eval!Wanted(demands[m].line) <= 100 * demands[m].flow
    BY DEF VolumeServed, Eval!VolumeServed
  <2>1. demands[m] \in Fitting
    BY DEF ParserInv
  <2>. QED  BY <2>1 DEF Fitting
<1>. QED  BY <1>1, ParserInvariant, PTL

-----------------------------------------------------------------------------
(* Sums, as the library folds them.                                        *)

\* A sum counted: f[x] marks for each x in S.
Marks(f, S) == UNION {{x} \X (1..f[x]) : x \in S}

\* Among finite sets there is one that contains no other.
LEMMA SmallestSet ==
    ASSUME NEW T, T # {}, \A s \in T : IsFiniteSet(s)
    PROVE  \E s \in T : \A t \in T : t \subseteq s => t = s
<1> DEFINE U == UNION T
<1>1. T \subseteq FiniteSubsetsOf(U)
  BY DEF FiniteSubsetsOf
<1>2. PICK s \in T : \A t \in T : ~ (<<t, s>> \in StrictSubsetOrdering(U))
  BY <1>1, FS_StrictSubsetOrderingWellFounded, WFMin
<1>3. \A t \in T : t \subseteq s => t = s
  <2> SUFFICES ASSUME NEW t \in T, t \subseteq s, t # s PROVE FALSE
    OBVIOUS
  <2> DEFINE p == <<t, s>>
  <2>1. p \in (SUBSET U) \X (SUBSET U) /\ p[1] = t /\ p[2] = s
    OBVIOUS
  <2>. HIDE DEF p
  <2>2. p \in StrictSubsetOrdering(U)
    BY <2>1 DEF StrictSubsetOrdering
  <2>. QED  BY <1>2, <2>2, Zenon DEF p
<1>. QED  BY <1>3, Zenon

\* Marks grow by f[x] with x.
LEMMA MarksGrow ==
    ASSUME NEW S, NEW f, \A x \in S : f[x] \in Nat, IsFiniteSet(S)
    PROVE  /\ IsFiniteSet(Marks(f, S)) /\ Cardinality(Marks(f, S)) \in Nat
           /\ \A x \in S : Cardinality(Marks(f, S)) =
                                f[x] + Cardinality(Marks(f, S \ {x}))
<1>1. ASSUME NEW x \in S
      PROVE  IsFiniteSet({x} \X (1..f[x])) /\ Cardinality({x} \X (1..f[x])) = f[x]
  <2>1. IsFiniteSet({x}) /\ Cardinality({x}) = 1
    BY FS_Singleton
  <2>2. IsFiniteSet(1..f[x]) /\ Cardinality(1..f[x]) = f[x]
    BY <1>1, FS_Interval
  <2>. QED  BY <1>1, <2>1, <2>2, FS_Product
<1>2. ASSUME NEW R \in SUBSET S PROVE IsFiniteSet(Marks(f, R)) /\ Cardinality(Marks(f, R)) \in Nat
  <2>1. IsFiniteSet(R)
    BY FS_Subset
  <2>2. IsFiniteSet({{x} \X (1..f[x]) : x \in R})
    <3> DEFINE M == {{x} \X (1..f[x]) : x \in R}
               e == [x \in R |-> {x} \X (1..f[x])]
    <3>1. e \in [R -> M] /\ \A m \in M : \E x \in R : e[x] = m
      OBVIOUS
    <3>. HIDE DEF M, e
    <3>2. e \in Surjection(R, M)
      BY <3>1, Fun_IsSurj
    <3>3. IsFiniteSet(M)
      BY <2>1, <3>2, FS_Surjection
    <3>. QED  BY <3>3 DEF M
  <2>3. \A m \in {{x} \X (1..f[x]) : x \in R} : IsFiniteSet(m)
    BY <1>1
  <2>4. IsFiniteSet(Marks(f, R))
    BY <2>2, <2>3, FS_UNION DEF Marks
  <2>. QED  BY <2>4, FS_CardinalityType
<1>3. ASSUME NEW x \in S
      PROVE  Cardinality(Marks(f, S)) = f[x] + Cardinality(Marks(f, S \ {x}))
  <2> DEFINE A == {x} \X (1..f[x])
             B == Marks(f, S \ {x})
  <2>1. Marks(f, S) = A \cup B
    BY DEF Marks
  <2>2. A \cap B = {}
    <3>1. ASSUME NEW m \in A, m \in B PROVE FALSE
      <4>1. m[1] = x
        OBVIOUS
      <4>2. PICK y \in S \ {x} : m \in {y} \X (1..f[y])
        BY <3>1 DEF Marks
      <4>. QED  BY <4>1, <4>2
    <3>. QED  BY <3>1
  <2>3. IsFiniteSet(A) /\ Cardinality(A) = f[x] /\ f[x] \in Nat
    BY <1>1
  <2>4. IsFiniteSet(B) /\ Cardinality(B) \in Nat
    BY <1>2
  <2>. HIDE DEF A, B
  <2>5. Cardinality(A \cup B) = Cardinality(A) + Cardinality(B) - Cardinality({})
    BY <2>2, <2>3, <2>4, FS_Union
  <2>6. Cardinality({}) = 0
    BY FS_EmptySet
  <2>7. Cardinality(A \cup B) = f[x] + Cardinality(B)
    BY <2>3, <2>4, <2>5, <2>6
  <2>. QED  BY <2>1, <2>7 DEF B
<1>. QED  BY <1>2, <1>3

\* The step of the library's fold.
StepOf(f, g, s) == IF s = {} THEN 0 ELSE LET x == CHOOSE x \in s : TRUE IN f[x] + g[s \ {x}]
IsFold(f, S, g) == g = [s \in SUBSET S |-> StepOf(f, g, s)]

LEMMA SumUnfold ==
    ASSUME NEW S, NEW f, NEW g, IsFold(f, S, g)
    PROVE  \E h : IsFold(f, S, h) /\ Eval!SumFunctionOnSet(f, S) = h[S]
BY DEF Eval!SumFunctionOnSet, Eval!FoldFunctionOnSet, Eval!MapThenFoldSet, IsFold, StepOf

\* A fold has but one value.
LEMMA FoldUnique ==
    ASSUME NEW S, IsFiniteSet(S), NEW f, NEW g, NEW h,
           IsFold(f, S, g), IsFold(f, S, h)
    PROVE  g[S] = h[S]
<1> DEFINE T == {r \in SUBSET S : g[r] # h[r]}
<1> SUFFICES ASSUME T # {} PROVE FALSE
  OBVIOUS
<1>1. \A s \in T : IsFiniteSet(s)
  BY FS_Subset
<1>2. T # {}
  OBVIOUS
<1>3. PICK s \in T : \A t \in T : t \subseteq s => t = s
  <2>. HIDE DEF T
  <2>. QED  BY <1>1, <1>2, SmallestSet
<1>4. g[s] = StepOf(f, g, s) /\ h[s] = StepOf(f, h, s)
  <2>. s \in SUBSET S
    OBVIOUS
  <2>. HIDE DEF T
  <2>. QED  BY DEF IsFold
<1>5. CASE s = {}
  BY <1>4, <1>5 DEF StepOf
<1>6. CASE s # {}
  <2> DEFINE x == CHOOSE x \in s : TRUE
  <2>1. x \in s
    BY <1>6
  <2>. HIDE DEF x
  <2>2. s \ {x} \in SUBSET S /\ s \ {x} \subseteq s /\ s \ {x} # s
    BY <2>1
  <2>3. g[s \ {x}] = h[s \ {x}]
    BY <1>3, <2>2
  <2>4. g[s] = f[x] + g[s \ {x}] /\ h[s] = f[x] + h[s \ {x}]
    BY <1>4, <1>6 DEF StepOf, x
  <2>5. g[s] = h[s]
    BY <2>3, <2>4
  <2>. QED  BY <2>5
<1>. QED  BY <1>5, <1>6

\* A sum of naturals is one, and not less than any of them.
LEMMA SumCovers ==
    ASSUME NEW S, NEW f, \A x \in S : f[x] \in Nat, IsFiniteSet(S)
    PROVE  /\ Eval!SumFunctionOnSet(f, S) \in Nat
           /\ \A x \in S : f[x] <= Eval!SumFunctionOnSet(f, S)
<1> DEFINE g == [s \in SUBSET S |-> Cardinality(Marks(f, s))]
<1>1. IsFold(f, S, g)
  <2>1. ASSUME NEW s \in SUBSET S PROVE g[s] = StepOf(f, g, s)
    <3>1. g[s] = Cardinality(Marks(f, s))
      OBVIOUS
    <3>2. CASE s = {}
      <4>1. Marks(f, s) = {}
        BY <3>2 DEF Marks
      <4>. QED  BY <3>1, <3>2, <4>1, FS_EmptySet DEF StepOf
    <3>3. CASE s # {}
      <4> DEFINE x == CHOOSE x \in s : TRUE
      <4>1. x \in s
        BY <3>3
      <4>2. IsFiniteSet(s)
        BY FS_Subset
      <4>. HIDE DEF x
      <4>3. g[s \ {x}] = Cardinality(Marks(f, s \ {x}))
        BY <4>1
      <4>4. Cardinality(Marks(f, s)) = f[x] + Cardinality(Marks(f, s \ {x}))
        BY <4>1, <4>2, MarksGrow
      <4>. HIDE DEF g
      <4>5. StepOf(f, g, s) = f[x] + g[s \ {x}]
        BY <3>3 DEF StepOf, x
      <4>. QED  BY <3>1, <4>3, <4>4, <4>5
    <3>. QED  BY <3>2, <3>3
  <2>. QED  BY <2>1 DEF IsFold
<1>2. g[S] = Cardinality(Marks(f, S))
  OBVIOUS
<1>. HIDE DEF g
<1>3. Eval!SumFunctionOnSet(f, S) = Cardinality(Marks(f, S))
  <2>1. PICK h : IsFold(f, S, h) /\ Eval!SumFunctionOnSet(f, S) = h[S]
    BY <1>1, SumUnfold
  <2>2. g[S] = h[S]
    BY <1>1, <2>1, FoldUnique
  <2>. QED  BY <1>2, <2>1, <2>2
<1>4. ASSUME NEW x \in S PROVE f[x] <= Cardinality(Marks(f, S))
  <2>1. IsFiniteSet(S \ {x})
    BY FS_Subset
  <2>2. Cardinality(Marks(f, S \ {x})) \in Nat
    BY <2>1, MarksGrow
  <2>3. Cardinality(Marks(f, S)) = f[x] + Cardinality(Marks(f, S \ {x}))
    BY MarksGrow
  <2>. QED  BY <2>2, <2>3
<1>. QED  BY <1>3, <1>4, MarksGrow

-----------------------------------------------------------------------------
(* Judging flows.                                                          *)

Verdicts == {"NULL", "SendIncomplete", "RecvIncomplete", "FlowComplete"}

\* Who measures what, and what is left of host hostid.
EvalTypes ==
    /\ DOMAIN spec \subseteq Key /\ spec \in [DOMAIN spec -> Int]
    /\ stage \in {"run", "arbiter", "flows", "done", "error"}
    /\ hostid \in 1..NumHost /\ (stage = "run" => hostid = 1) /\ tmp \in Int
    /\ left \subseteq {x \in DOMAIN spec : hostid \in {Source, Dest[x]}}
    /\ dump \in [1..NumHost -> [DOMAIN spec -> Nat]]
    /\ flow_stat \in [DOMAIN spec -> [send : Int, recv : Int, status : Verdicts]]

\* Host h has been analysed, as far as flow x is concerned.
Analysed(h, x) ==
    \/ stage = "done" \/ h < hostid
    \/ stage = "flows" /\ h = hostid /\ x \notin left

EvalInv ==
    /\ EvalTypes
    /\ \A x \in DOMAIN spec : dump[Dest[x]][x] <= dump[Source][x]
    /\ missing = {} =>
         \A x \in DOMAIN spec :
            /\ Analysed(Source, x) => flow_stat[x].send = dump[Source][x]
            /\ Analysed(Dest[x], x) => flow_stat[x].recv = dump[Dest[x]][x]
    /\ stage = "done" => \A x \in DOMAIN spec : flow_stat[x].status = Eval!Status(x)

LEMMA Ends ==
    /\ NumHost \in Nat /\ Source \in 1..NumHost
    /\ \A x \in Key : Dest[x] \in 1..NumHost /\ Dest[x] # Source
BY SequentialAssumption

LEMMA WantedType == \A l \in Eval!Line : Eval!Wanted(l) \in Nat
<1> SUFFICES ASSUME NEW l \in Eval!Line PROVE Eval!Wanted(l) \in Nat
  OBVIOUS
<1>1. l.volume[1] \in Nat /\ l.volume[2] \in {"K", "M", "G"}
  BY SequentialAssumption DEF Eval!Line
<1>2. Eval!UnitBytes[l.volume[2]] \div 1000 \in Nat
  <2>1. l.volume[2] = "K" \/ l.volume[2] = "M" \/ l.volume[2] = "G"
    BY <1>1
  <2>. QED  BY <2>1, SMT DEF Eval!UnitBytes
<1>. QED  BY <1>1, <1>2 DEF Eval!Wanted

\* Every flow of a traffic file has a last line, and so a volume.
LEMMA SpecType ==
    ASSUME NEW f \in Seq(Eval!Line)
    PROVE  /\ DOMAIN Eval!Traffic_spec(f) \subseteq Key
           /\ Eval!Traffic_spec(f) \in [DOMAIN Eval!Traffic_spec(f) -> Int]
<1> DEFINE Keys == {f[m].key : m \in DOMAIN f}
           Last(x, m) == f[m].key = x /\ \A s \in (m + 1)..Len(f) : f[s].key # x
<1>1. Keys \subseteq Key
  <2>1. \A m \in DOMAIN f : f[m] \in Eval!Line
    OBVIOUS
  <2>2. \A l \in Eval!Line : l.key \in Key
    BY DEF Eval!Line
  <2>. QED  BY <2>1, <2>2
<1>2. ASSUME NEW x \in Keys PROVE \E m \in DOMAIN f : Last(x, m)
  <2> DEFINE T == {m..Len(f) : m \in {s \in DOMAIN f : f[s].key = x}}
  <2>1. T # {}
    OBVIOUS
  <2>2. \A s \in T : IsFiniteSet(s)
    BY FS_Interval
  <2>3. PICK s \in T : \A t \in T : t \subseteq s => t = s
    <3>. HIDE DEF T
    <3>. QED  BY <2>1, <2>2, SmallestSet
  <2>4. PICK m \in DOMAIN f : s = m..Len(f) /\ f[m].key = x
    OBVIOUS
  <2>5. ASSUME NEW r \in (m + 1)..Len(f), f[r].key = x PROVE FALSE
    <3>1. r \in DOMAIN f /\ r..Len(f) \in T
      BY <2>4, <2>5
    <3>2. r..Len(f) \subseteq s
      BY <2>4, <2>5
    <3>3. m \in s /\ m \notin r..Len(f)
      BY <2>4, <2>5
    <3>. HIDE DEF T
    <3>. QED  BY <2>3, <3>1, <3>2, <3>3
  <2>. QED  BY <2>4, <2>5
<1>3. ASSUME NEW x \in Keys
      PROVE  Eval!Wanted(f[CHOOSE m \in DOMAIN f : Last(x, m)]) \in Int
  <2> DEFINE m == CHOOSE m \in DOMAIN f : Last(x, m)
  <2>1. m \in DOMAIN f
    BY <1>2
  <2>2. f[m] \in Eval!Line
    BY <2>1
  <2>. HIDE DEF m
  <2>3. Eval!Wanted(f[m]) \in Int
    BY <2>2, WantedType
  <2>. QED  BY <2>3 DEF m
<1>. QED  BY <1>1, <1>3 DEF Eval!Traffic_spec

LEMMA EvalStarts == Init => EvalInv
<1> SUFFICES ASSUME Init PROVE EvalInv
  OBVIOUS
<1>1. CASE NoEval
  <2>1. EvalTypes
    BY <1>1, Ends DEF NoEval, EvalTypes, Eval!None
  <2>. QED  BY <1>1, <2>1 DEF NoEval, EvalInv
<1>2. CASE Eval!EvalInit
  <2>1. PICK m \in 1..MaxLines : file \in [1..m -> Eval!Line]
    BY <1>2 DEF Eval!EvalInit, Eval!Init, Eval!Line
  <2>2. file \in Seq(Eval!Line)
    BY <2>1, SequentialAssumption
  <2>3. DOMAIN spec \subseteq Key /\ spec \in [DOMAIN spec -> Int]
    BY <1>2, <2>2, SpecType DEF Eval!EvalInit
  <2>4. EvalTypes
    <3>1. dump \in [1..NumHost -> [DOMAIN spec -> Nat]]
      BY <1>2 DEF Eval!EvalInit, Eval!Host
    <3>2. flow_stat \in [DOMAIN spec -> [send : Int, recv : Int, status : Verdicts]]
      <4> DEFINE r == [send |-> 0, recv |-> 0, status |-> "NULL"]
      <4>1. r \in [send : Int, recv : Int, status : Verdicts]
        BY DEF Verdicts
      <4>2. flow_stat = [x \in DOMAIN spec |-> r]
        BY <1>2 DEF Eval!EvalInit
      <4>. HIDE DEF r
      <4>. QED  BY <4>1, <4>2
    <3>3. stage = "run" /\ hostid \in 1..NumHost /\ hostid = 1 /\ tmp \in Int /\ left = {}
      BY <1>2, Ends DEF Eval!EvalInit, Eval!None
    <3>4. left \subseteq {x \in DOMAIN spec : hostid \in {Source, Dest[x]}}
      BY <3>3
    <3>. QED  BY <2>3, <3>1, <3>2, <3>3, <3>4 DEF EvalTypes
  <2>5. \A x \in DOMAIN spec : dump[Dest[x]][x] <= dump[Source][x]
    BY <1>2, <2>3, Ends DEF Eval!EvalInit, Eval!Host
  <2>6. \A x \in DOMAIN spec : ~ Analysed(Source, x) /\ ~ Analysed(Dest[x], x)
    BY <1>2, <2>3, Ends DEF Eval!EvalInit, Analysed
  <2>7. stage # "done"
    BY <1>2 DEF Eval!EvalInit
  <2>. QED  BY <2>4, <2>5, <2>6, <2>7 DEF EvalInv
<1>. QED  BY <1>1, <1>2 DEF Init

\* What was granted for a flow is a natural number, and covers each demand.
LEMMA ServedCovers ==
    ASSUME ParserInv, NEW x
    PROVE  /\ Eval!Served(x) \in Nat
           /\ \A m \in DOMAIN demands :
                demands[m].line.key = x => 100 * demands[m].flow <= Eval!Served(x)
<1> DEFINE f == [m \in DOMAIN demands |->
                     IF demands[m].flow > 0 THEN demands[m].flow ELSE 0]
           S == {m \in DOMAIN demands : demands[m].line.key = x}
<1>1. \A m \in DOMAIN demands : demands[m].flow \in Int
  BY DEF ParserInv, Fitting
<1>2. \A m \in S : f[m] \in Nat /\ demands[m].flow <= f[m]
  BY <1>1
<1>3. IsFiniteSet(S)
  <2>1. S \in SUBSET (1..Len(demands)) /\ Len(demands) \in Nat
    BY DEF ParserInv
  <2>2. IsFiniteSet(1..Len(demands))
    BY <2>1, FS_Interval
  <2>. QED  BY <2>1, <2>2, FS_Subset
<1>4. Eval!Served(x) = 100 * Eval!SumFunctionOnSet(f, S)
  BY DEF Eval!Served
<1>5. \A m \in S : demands[m].flow \in Int
  BY <1>1
<1>6. \A m \in DOMAIN demands : demands[m].line.key = x => m \in S
  OBVIOUS
<1>. HIDE DEF f, S
<1>7. Eval!SumFunctionOnSet(f, S) \in Nat /\ \A m \in S : f[m] <= Eval!SumFunctionOnSet(f, S)
  BY <1>2, <1>3, SumCovers
<1>8. ASSUME NEW m \in S PROVE 100 * demands[m].flow <= Eval!Served(x)
  BY <1>2, <1>4, <1>5, <1>7
<1>. QED  BY <1>4, <1>6, <1>7, <1>8

LEMMA TimeUpKeeps == ASSUME EvalInv, ParserInv, Eval!TimeUp PROVE EvalInv'
<1>1. PICK sent, arrived \in [DOMAIN spec -> UNION {Eval!Amounts(x, Eval!Served(x)) :
                                                        x \in DOMAIN spec}] :
        /\ \A x \in DOMAIN spec : /\ sent[x] \in Eval!Amounts(x, Eval!Served(x))
                                  /\ arrived[x] \in Eval!Amounts(x, sent[x])
        /\ dump' = [h \in 1..NumHost |-> [x \in DOMAIN spec |->
                        IF h = Source THEN sent[x]
                        ELSE IF h = Dest[x] THEN arrived[x] ELSE 0]]
  BY DEF Eval!TimeUp, Eval!Host
<1>2. /\ stage = "run" /\ stage' = "arbiter" /\ hostid' = hostid
      /\ UNCHANGED <<spec, tmp, left, flow_stat>>
  BY DEF Eval!TimeUp
<1>3. /\ DOMAIN spec \subseteq Key /\ spec \in [DOMAIN spec -> Int]
      /\ hostid = 1
  BY <1>2 DEF EvalInv, EvalTypes
<1>4. ASSUME NEW x \in DOMAIN spec
      PROVE  sent[x] \in Nat /\ arrived[x] \in Nat /\ arrived[x] <= sent[x]
  <2>1. spec[x] \in Int /\ Eval!Served(x) \in Int
    BY <1>3, ServedCovers
  <2>2. sent[x] \in Nat
    BY <1>1, <2>1 DEF Eval!Amounts
  <2>. QED  BY <1>1, <2>1, <2>2 DEF Eval!Amounts
<1>5. dump' \in [1..NumHost -> [DOMAIN spec -> Nat]]
  BY <1>1, <1>4
<1>6. EvalTypes'
  BY <1>2, <1>5 DEF EvalInv, EvalTypes
<1>7. ASSUME NEW x \in DOMAIN spec PROVE dump'[Dest[x]][x] <= dump'[Source][x]
  <2>1. dump'[Source][x] = sent[x] /\ dump'[Dest[x]][x] = arrived[x]
    BY <1>1, <1>3, Ends
  <2>. QED  BY <1>4, <2>1
<1>8. \A h \in 1..NumHost : \A x : ~ Analysed(h, x)'
  BY <1>2, <1>3, Ends DEF Analysed
<1>. QED  BY <1>2, <1>3, <1>6, <1>7, <1>8, Ends DEF EvalInv

LEMMA ArbiterTrafficKeeps == ASSUME EvalInv, Eval!Arbiter_traffic PROVE EvalInv'
<1>1. /\ stage = "arbiter" /\ stage' \in {"flows", "error"} /\ hostid' = hostid
      /\ left' = {x \in DOMAIN spec : hostid \in {Source, Dest[x]}}
      /\ UNCHANGED <<spec, dump, missing, tmp, flow_stat>>
  BY DEF Eval!Arbiter_traffic, Eval!runVars
<1>2. EvalTypes'
  BY <1>1 DEF EvalInv, EvalTypes
<1>3. \A x \in DOMAIN spec : /\ Analysed(Source, x)' => Analysed(Source, x)
                             /\ Analysed(Dest[x], x)' => Analysed(Dest[x], x)
  BY <1>1 DEF Analysed
<1>. QED  BY <1>1, <1>2, <1>3 DEF EvalInv

LEMMA AnalyzeFlowKeeps ==
    ASSUME EvalInv, NEW y \in Key, Eval!Analyze_flow(y)
    PROVE  EvalInv'
<1>1. /\ stage = "flows" /\ y \in left /\ left' = left \ {y}
      /\ tmp' = IF <<hostid, "data">> \in missing THEN tmp ELSE dump[hostid][y]
      /\ flow_stat' = Eval!Record(y)
      /\ UNCHANGED <<spec, dump, missing, stage, hostid>>
  BY DEF Eval!Analyze_flow, Eval!runVars
<1>2. y \in DOMAIN spec /\ hostid \in 1..NumHost /\ hostid \in {Source, Dest[y]}
  BY <1>1 DEF EvalInv, EvalTypes
<1>3. tmp' \in Int /\ Eval!Count \in Int /\ dump[hostid][y] \in Nat
  BY <1>1, <1>2 DEF EvalInv, EvalTypes, Eval!Count
<1>4. EvalTypes'
  <2>1. flow_stat' \in [DOMAIN spec -> [send : Int, recv : Int, status : Verdicts]]
    BY <1>1, <1>2, <1>3 DEF EvalInv, EvalTypes, Eval!Record
  <2>. QED  BY <1>1, <1>3, <2>1 DEF EvalInv, EvalTypes
<1>5. ASSUME missing = {}, NEW x \in DOMAIN spec
      PROVE  /\ Analysed(Source, x)' => flow_stat'[x].send = dump[Source][x]
             /\ Analysed(Dest[x], x)' => flow_stat'[x].recv = dump[Dest[x]][x]
  <2>1. x \in Key /\ Dest[x] # Source
    BY Ends DEF EvalInv, EvalTypes
  <2>2. CASE x # y
    <3>1. flow_stat'[x] = flow_stat[x]
      BY <1>1, <2>2 DEF EvalInv, EvalTypes, Eval!Record
    <3>2. /\ Analysed(Source, x)' => Analysed(Source, x)
          /\ Analysed(Dest[x], x)' => Analysed(Dest[x], x)
      BY <1>1, <2>2 DEF Analysed
    <3>. QED  BY <1>5, <3>1, <3>2 DEF EvalInv
  <2>3. CASE x = y
    <3>1. tmp' = dump[hostid][y]
      BY <1>1, <1>5
    <3>2. Eval!Count = dump[hostid][y]
      BY <1>3, <3>1 DEF Eval!Count, Eval!None
    <3>3. CASE hostid = Source
      <4>1. flow_stat'[y] = [flow_stat[y] EXCEPT !.send = Eval!Count]
        BY <1>1, <1>2, <2>1, <2>3, <3>3 DEF EvalInv, EvalTypes, Eval!Record
      <4>2. flow_stat'[y].send = Eval!Count /\ flow_stat'[y].recv = flow_stat[y].recv
        BY <1>2, <4>1 DEF EvalInv, EvalTypes
      <4>3. Analysed(Dest[x], x)' => Analysed(Dest[x], x)
        BY <1>1, <2>1, <2>3, <3>3 DEF Analysed
      <4>. QED  BY <1>5, <2>3, <3>2, <3>3, <4>2, <4>3 DEF EvalInv
    <3>4. CASE hostid = Dest[y]
      <4>1. flow_stat'[y] = [flow_stat[y] EXCEPT !.recv = Eval!Count]
        BY <1>1, <1>2, <3>4 DEF EvalInv, EvalTypes, Eval!Record
      <4>2. flow_stat'[y].recv = Eval!Count /\ flow_stat'[y].send = flow_stat[y].send
        BY <1>2, <4>1 DEF EvalInv, EvalTypes
      <4>3. Analysed(Source, x)' => Analysed(Source, x)
        BY <1>1, <2>1, <2>3, <3>4 DEF Analysed
      <4>. QED  BY <1>5, <2>3, <3>2, <3>4, <4>2, <4>3 DEF EvalInv
    <3>. QED  BY <1>2, <3>3, <3>4
  <2>. QED  BY <2>2, <2>3
<1>. QED  BY <1>1, <1>4, <1>5 DEF EvalInv

LEMMA NextHostKeeps == ASSUME EvalInv, Eval!NextHost PROVE EvalInv'
<1>1. /\ stage = "flows" /\ stage' = "arbiter" /\ left = {}
      /\ hostid < NumHost /\ hostid' = hostid + 1
      /\ UNCHANGED <<spec, dump, missing, tmp, left, flow_stat>>
  BY DEF Eval!NextHost, Eval!runVars
<1>2. EvalTypes'
  <2>1. hostid' \in 1..NumHost
    BY <1>1, Ends DEF EvalInv, EvalTypes
  <2>. QED  BY <1>1, <2>1 DEF EvalInv, EvalTypes
<1>3. \A h \in 1..NumHost : \A x : Analysed(h, x)' => Analysed(h, x)
  BY <1>1, Ends DEF EvalInv, EvalTypes, Analysed
<1>4. \A x \in DOMAIN spec : Source \in 1..NumHost /\ Dest[x] \in 1..NumHost
  BY Ends DEF EvalInv, EvalTypes
<1>. QED  BY <1>1, <1>2, <1>3, <1>4 DEF EvalInv

LEMMA ExamFlowKeeps == ASSUME EvalInv, Eval!Exam_flow PROVE EvalInv'
<1>1. /\ stage = "flows" /\ stage' = "done" /\ left = {} /\ hostid = NumHost
      /\ flow_stat' = [x \in DOMAIN spec |->
                          [flow_stat[x] EXCEPT !.status = Eval!Status(x)]]
      /\ UNCHANGED <<spec, dump, missing, tmp, left, hostid>>
  BY DEF Eval!Exam_flow, Eval!runVars
<1>2. ASSUME NEW x \in DOMAIN spec
      PROVE  /\ flow_stat'[x] \in [send : Int, recv : Int, status : Verdicts]
             /\ flow_stat'[x].send = flow_stat[x].send
             /\ flow_stat'[x].recv = flow_stat[x].recv
             /\ flow_stat'[x].status = Eval!Status(x)
  <2>1. Eval!Status(x) \in Verdicts
    BY DEF Eval!Status, Verdicts
  <2>2. flow_stat[x] \in [send : Int, recv : Int, status : Verdicts]
    BY DEF EvalInv, EvalTypes
  <2>3. flow_stat'[x] = [flow_stat[x] EXCEPT !.status = Eval!Status(x)]
    BY <1>1
  <2>. QED  BY <2>1, <2>2, <2>3
<1>3. EvalTypes'
  <2>1. flow_stat' \in [DOMAIN spec -> [send : Int, recv : Int, status : Verdicts]]
    BY <1>1, <1>2
  <2>. QED  BY <1>1, <2>1 DEF EvalInv, EvalTypes
<1>4. \A h \in 1..NumHost : \A x : Analysed(h, x)
  BY <1>1, Ends DEF Analysed
<1>5. \A x \in DOMAIN spec : Eval!Status(x)' = Eval!Status(x)
  BY <1>1, <1>2 DEF Eval!Status
<1>6. \A x \in DOMAIN spec : Source \in 1..NumHost /\ Dest[x] \in 1..NumHost
  BY Ends DEF EvalInv, EvalTypes
<1>. QED  BY <1>1, <1>2, <1>3, <1>4, <1>5, <1>6 DEF EvalInv

\* Whatever the run leaves of a trace, each of evaluation.py's steps keeps EvalInv.
THEOREM EvaluationInvariant == Spec => []EvalInv
<1>1. EvalInv /\ UNCHANGED <<Eval!runVars, Eval!anaVars>> => EvalInv'
  BY DEF EvalInv, EvalTypes, Analysed, Eval!Status, Eval!runVars, Eval!anaVars
<1>2. EvalInv /\ ParserInv /\ [Next]_vars => EvalInv'
  <2> SUFFICES ASSUME EvalInv, ParserInv, [Next]_vars PROVE EvalInv'
    OBVIOUS
  <2>1. Eval!Parse \/ UNCHANGED evalVars => UNCHANGED <<Eval!runVars, Eval!anaVars>>
    BY DEF Eval!Parse, evalVars, Eval!runVars, Eval!anaVars
  <2>2. UNCHANGED vars => UNCHANGED evalVars
    BY DEF vars
  <2>. QED  BY <1>1, <2>1, <2>2, TimeUpKeeps, ArbiterTrafficKeeps, AnalyzeFlowKeeps,
               NextHostKeeps, ExamFlowKeeps DEF Next, Eval!EvalNext
<1>. QED  BY <1>2, EvalStarts, ParserInvariant, PTL DEF Spec

\* With all captures there, evaluation.py judges each flow of a trace by what its
\* source sent and its destination received, for any number of hosts, lines and
\* demands; and a flow whose supported line was granted and carried is complete.
THEOREM FlowsJudgedRight == Spec => []JudgedRight
<1>1. EvalInv /\ ParserInv => JudgedRight
  <2> SUFFICES ASSUME EvalInv, ParserInv, stage = "done", missing = {}, NEW x \in DOMAIN spec
               PROVE
        LET sent     == dump[Source][x]
            arrived  == dump[Dest[x]][x]
            complete == flow_stat[x].status = "FlowComplete"
        IN /\ complete <=> arrived >= spec[x]
           /\ flow_stat[x].status = "SendIncomplete" <=> sent < spec[x]
           /\ (\E m \in DOMAIN demands :
                   /\ demands[m].line.key = x /\ Eval!Supported(demands[m].line)
                   /\ Eval!Wanted(demands[m].line) = spec[x]
                   /\ arrived = Eval!Served(x)) => complete
    BY DEF JudgedRight, Eval!JudgedRight
  <2> DEFINE sent    == dump[Source][x]
             arrived == dump[Dest[x]][x]
             status  == flow_stat[x].status
  <2>1. /\ spec[x] \in Int /\ sent \in Nat /\ arrived \in Nat
        /\ arrived <= sent
    BY Ends DEF EvalInv, EvalTypes
  <2>2. flow_stat[x].send = sent /\ flow_stat[x].recv = arrived
    BY DEF EvalInv, Analysed
  <2>3. status = IF sent < spec[x] THEN "SendIncomplete"
                 ELSE IF arrived < spec[x] THEN "RecvIncomplete" ELSE "FlowComplete"
    BY <2>2 DEF EvalInv, Eval!Status
  <2>4. ASSUME NEW m \in DOMAIN demands,
               demands[m].line.key = x, Eval!Supported(demands[m].line),
               Eval!Wanted(demands[m].line) = spec[x], arrived = Eval!Served(x)
        PROVE  arrived >= spec[x]
    <3>1. demands[m] \in Fitting
      BY DEF ParserInv
    <3>2. Eval!Wanted(demands[m].line) <= 100 * demands[m].flow /\ demands[m].flow \in Int
      BY <2>4, <3>1 DEF Fitting
    <3>3. 100 * demands[m].flow <= Eval!Served(x) /\ Eval!Served(x) \in Nat
      BY <2>4, ServedCovers
    <3>. HIDE DEF arrived
    <3>. QED  BY <2>1, <2>4, <3>2, <3>3
  <2>. HIDE DEF sent, arrived, status
  <2>5. status = "FlowComplete" <=> arrived >= spec[x]
    BY <2>1, <2>3
  <2>6. status = "SendIncomplete" <=> sent < spec[x]
    BY <2>1, <2>3
  <2>. QED  BY <2>4, <2>5, <2>6 DEF sent, arrived, status
<1>. QED  BY <1>1, EvaluationInvariant, ParserInvariant, PTL
=============================================================================
