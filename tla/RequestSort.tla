---------------------------- MODULE RequestSort ----------------------------
(***************************************************************************)
(* The loops of sort_req_arr and adjust_req_arr, one iteration a step, on  *)
(* an array whose requests carry a tag that tells equal flows apart.       *)
(* Remove in the Arbiter module takes their results from RequestOrder.     *)
(***************************************************************************)
EXTENDS RequestOrder

CONSTANTS
    MaxLen,     \* the longest array
    MaxFlow     \* the largest flow

VARIABLES
    a0,         \* the array before the loops
    n,          \* the number of requests
    k,          \* the slot to remove when the array is sorted
    a,          \* the array
    i, j,       \* the loop indices
    phase       \* "sort", "shift" or "done"

vars == <<a0, n, k, a, i, j, phase>>

\* Slot n is there too: the removal reads it, and it holds an empty request.
Arrays(m) ==
    {[s \in 0..m |-> [flow |-> IF s = m THEN 0 ELSE f[s], tag |-> s]] :
        f \in [0..(m - 1) -> 0..MaxFlow]}

Init ==
    /\ n \in 1..MaxLen
    /\ a0 \in Arrays(n)
    /\ k \in 0..(n - 1)
    /\ a = a0
    /\ i = 0 /\ j = 1
    /\ phase = "sort"

\* Slip: zeros are compared like other flows.
MustSwapPlain(d, e) == d.flow > e.flow

MustSwap(d, e) ==
    \/ d.flow = 0 /\ d.flow < e.flow
    \/ e.flow # 0 /\ d.flow > e.flow

Compare ==
    /\ phase = "sort" /\ i < n /\ j < n
    /\ a' = IF MustSwap(a[i], a[j])
            THEN [a EXCEPT ![i] = a[j], ![j] = a[i]]
            ELSE a
    /\ j' = j + 1
    /\ UNCHANGED <<a0, n, k, i, phase>>

\* Slip: the outer index is not advanced.
NextSlotAgain ==
    /\ phase = "sort" /\ i < n /\ j >= n
    /\ j' = i + 1
    /\ UNCHANGED <<a0, n, k, a, i, phase>>

NextSlot ==
    /\ phase = "sort" /\ i < n /\ j >= n
    /\ i' = i + 1
    /\ j' = i + 2
    /\ UNCHANGED <<a0, n, k, a, phase>>

EndSort ==
    /\ phase = "sort" /\ i >= n
    /\ phase' = "shift"
    /\ i' = k
    /\ UNCHANGED <<a0, n, k, a, j>>

\* Slip: the slot past the last request is not copied.
MoveDownShort ==
    /\ phase = "shift" /\ i < n
    /\ a' = IF i < n - 1 THEN [a EXCEPT ![i] = a[i + 1]] ELSE a
    /\ i' = i + 1
    /\ UNCHANGED <<a0, n, k, j, phase>>

MoveDown ==
    /\ phase = "shift" /\ i < n
    /\ a' = [a EXCEPT ![i] = a[i + 1]]
    /\ i' = i + 1
    /\ UNCHANGED <<a0, n, k, j, phase>>

EndShift ==
    /\ phase = "shift" /\ i >= n
    /\ phase' = "done"
    /\ UNCHANGED <<a0, n, k, a, i, j>>

Next == Compare \/ NextSlot \/ EndSort \/ MoveDown \/ EndShift

Spec == Init /\ [][Next]_vars

-----------------------------------------------------------------------------
\* The slots before i are final: nothing later belongs before them.
PrefixFinal ==
    phase = "sort" =>
        \A s \in 0..(i - 1), t \in 0..(n - 1) : s < t => Before(a[s], a[t])

\* The exchange sort returns one of the arrays that the arbiter model allows,
\* and the removal loop then moves exactly the requests behind slot k.
LoopsMeetOrder ==
    /\ (phase = "shift" /\ i = k) => a \in Sorted(a0, n)
    /\ phase = "done" => \E b \in Sorted(a0, n) : a = Shift(b, k, n)
=============================================================================
