---------------------------- MODULE RequestOrder ----------------------------
(***************************************************************************)
(* What process_demands expects of its request arrays: the order that      *)
(* sort_req_arr establishes and the removal that adjust_req_arr performs.  *)
(* An array is a function from 0..n, a request a record with a flow.       *)
(***************************************************************************)
EXTENDS Naturals

\* Ascending flow, zeros at the end.
Before(d, e) == e.flow = 0 \/ (d.flow # 0 /\ d.flow <= e.flow)

\* The arrays that sorting the first n slots of a may give: equal flows may
\* end in any order.
Sorted(a, n) ==
    {[s \in DOMAIN a |-> IF s < n THEN a[p[s]] ELSE a[s]] :
        p \in {q \in [0..(n - 1) -> 0..(n - 1)] :
                 \A s, t \in 0..(n - 1) :
                    s < t => q[s] # q[t] /\ Before(a[q[s]], a[q[t]])}}

\* Slip: the last slot is not overwritten.
ShiftShort(a, s, n) ==
    [t \in DOMAIN a |-> IF s <= t /\ t < n - 1 THEN a[t + 1] ELSE a[t]]

\* Drop slot s: slots s + 1 to n move one place down.
Shift(a, s, n) == [t \in DOMAIN a |-> IF s <= t /\ t < n THEN a[t + 1] ELSE a[t]]
=============================================================================
