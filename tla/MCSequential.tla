---------------------------- MODULE MCSequential ----------------------------
(***************************************************************************)
(* The sequential pieces of the code, run to their end on every small      *)
(* input: the loops behind the operators of Arbiter and PathAllocator      *)
(* (RequestSort, VlanProbe), and a traffic file from its parser to the     *)
(* verdict of evaluation.py (Evaluation with DemandParser).  One of them   *)
(* runs while the others are pinned where they have finished.              *)
(***************************************************************************)
EXTENDS Integers

CONSTANTS MaxLen, MaxFlow, Key, Volumes, Endings, MaxLines, NumHost, Source, Dest

\* Flows have two ends, and volumes one of three units.
ASSUME SequentialAssumption ==
    /\ {MaxLen, MaxFlow, MaxLines, NumHost} \subseteq Nat
    /\ Volumes \subseteq Nat \X {"K", "M", "G"}
    /\ Source \in 1..NumHost /\ Dest \in [Key -> (1..NumHost) \ {Source}]

VARIABLES a0, n, k, a, i, j, phase,
          same_pod, prev, fits, temp, test, round, result,
          file, packets, line, demands,
          stage, spec, dump, missing, tmp, tmp_arbiter, hostid, left, flow_stat

sortVars  == <<a0, n, k, a, i, j, phase>>
probeVars == <<same_pod, prev, fits, temp, test, round, result>>
evalVars  == <<file, packets, line, demands,
               stage, spec, dump, missing, tmp, tmp_arbiter, hostid, left, flow_stat>>
vars == <<sortVars, probeVars, evalVars>>

Sort  == INSTANCE RequestSort
Probe == INSTANCE VlanProbe
Eval  == INSTANCE Evaluation

\* Volumes around the edges of a chunk, one of the sample traffic, the largest
\* that the code's short can count, and two that it cannot.
Sample == {<<49, "K">>, <<50, "K">>, <<99, "K">>, <<100, "K">>,
           <<1638, "M">>, <<1639, "M">>, <<3, "G">>}

\* The second of three hosts has the traffic file, with flows to the host that
\* is analysed before it and to the one after it.
DestOfKey == [x \in {"p", "q"} |-> IF x = "p" THEN 1 ELSE 3]

NoSort ==
    /\ n = 1 /\ k = 0 /\ i = 1 /\ j = 1 /\ phase = "done"
    /\ a0 = [s \in 0..1 |-> [flow |-> 0, tag |-> s]] /\ a = [a0 EXCEPT ![0] = a0[1]]

NoProbe ==
    /\ same_pod = TRUE /\ prev = Probe!None /\ fits = {}
    /\ temp = 0 /\ test = 1 /\ round = 2 /\ result = Probe!None

NoEval ==
    /\ file = << >> /\ packets = 0 /\ line = << >> /\ demands = << >>
    /\ stage = "done" /\ spec = << >> /\ dump = [h \in 1..NumHost |-> << >>]
    /\ missing = {} /\ tmp = Eval!None /\ tmp_arbiter = FALSE
    /\ hostid = NumHost /\ left = {} /\ flow_stat = << >>

Init ==
    \/ Sort!Init /\ NoProbe /\ NoEval
    \/ Probe!Init /\ NoSort /\ NoEval
    \/ Eval!EvalInit /\ NoSort /\ NoProbe

Next ==
    \/ Sort!Next /\ UNCHANGED <<probeVars, evalVars>>
    \/ Probe!Next /\ UNCHANGED <<sortVars, evalVars>>
    \/ Eval!EvalNext /\ UNCHANGED <<sortVars, probeVars>>

Spec == Init /\ [][Next]_vars /\ WF_vars(Next)

-----------------------------------------------------------------------------
\* The exchange sort's invariant: the slots before the outer index are final.
PrefixFinal == Sort!PrefixFinal

\* sort_req_arr and adjust_req_arr compute what Arbiter's Remove and EndStore
\* take from RequestOrder.
LoopsMeetOrder == Sort!LoopsMeetOrder

\* get_appropriate_vlanid is the circular first-fit search of PathAllocator.
CircularFirstFit == Probe!CircularFirstFit

\* A supported line's flow fits its volume (command_parser, send_demands).
VolumeServed == Eval!VolumeServed

\* evaluation.py judges each flow by what was sent and received.
JudgedRight == Eval!JudgedRight

\* All of them come to their end: the first two run while others wait for
\* their results, and an evaluation ends with verdicts or with an error.
AllEnd == <>(phase = "done" /\ result # Probe!Open /\ stage \in {"done", "error"})
=============================================================================
