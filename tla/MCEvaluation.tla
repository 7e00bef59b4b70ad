---------------------------- MODULE MCEvaluation ----------------------------
(***************************************************************************)
(* Three hosts of which the second has a traffic file, with flows to the   *)
(* host that is analysed before it and to the one after it, and the        *)
(* volumes of the sample traffic.                                          *)
(***************************************************************************)
EXTENDS Evaluation

Sample == {<<100, "K">>, <<10, "M">>}

DestOfKey == [k \in {"p", "q"} |-> IF k = "p" THEN 1 ELSE 3]
=============================================================================
