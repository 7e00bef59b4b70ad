----------------------------- MODULE Evaluation -----------------------------
(***************************************************************************)
(* evaluation.py on one trace: what Descriptor reads in a traffic file,    *)
(* the captures that tcpdump leaves on every host, and how Analyzer judges *)
(* each flow by them.  All flows have one source, whose parser (see        *)
(* DemandParser) makes the demands; each chunk of a demand puts at most    *)
(* 100 packets on the wire (see HostAgent).                                *)
(*                                                                         *)
(* Analyzer filters a host's capture into dump/tmp.pcap, one flow at a     *)
(* time, and measures that file.  tcpdump leaves it as it is when there is *)
(* no capture to read.                                                     *)
(***************************************************************************)
EXTENDS DemandParser, Functions

CONSTANTS
    NumHost,        \* hosts are 1 to NumHost
    Source,         \* the host with the traffic file
    Dest            \* per key: the destination host, another one

Host == 1..NumHost
None == -1          \* no file

VARIABLES
    stage,          \* "run", "arbiter", "flows", "done" or "error"
    spec,           \* Descriptor.traffic: per flow, its volume in packets
    dump,           \* per host and flow: the packets that passed its interface
    missing,        \* <<host, "data">> or <<host, "ctrl">>: captures not there
    tmp,            \* the packets in dump/tmp.pcap, or None
    tmp_arbiter,    \* whether dump/tmp-arbiter.pcap exists
    hostid,         \* the host whose captures are analysed
    left,           \* its flows still to be analysed
    flow_stat       \* per flow: send, recv and status

runVars == <<spec, dump, missing>>
anaVars == <<stage, tmp, tmp_arbiter, hostid, left, flow_stat>>
evalVars == <<vars, runVars, anaVars>>

\* Flows are keyed by source, destination and port: the last line of one wins.
Traffic_spec(f) ==
    [k \in {f[n].key : n \in DOMAIN f} |->
        Wanted(f[CHOOSE n \in DOMAIN f :
                     f[n].key = k /\ \A m \in (n + 1)..Len(f) : f[m].key # k])]

EvalInit ==
    /\ Init
    /\ stage = "run"
    /\ spec = Traffic_spec(file)
    /\ dump = [h \in Host |-> [k \in DOMAIN spec |-> 0]]
    /\ missing = {}
    /\ tmp = None /\ tmp_arbiter = FALSE
    /\ hostid = 1 /\ left = {}
    /\ flow_stat = [k \in DOMAIN spec |-> [send |-> 0, recv |-> 0, status |-> "NULL"]]

-----------------------------------------------------------------------------
\* The most packets that the demands so far let the source transmit for k.
Served(k) ==
    100 * SumFunctionOnSet([n \in DOMAIN demands |->
                                IF demands[n].flow > 0 THEN demands[n].flow ELSE 0],
                           {n \in DOMAIN demands : demands[n].line.key = k})

\* Nothing, one packet less than the volume, or all.
Amounts(k, most) == {n \in {0, spec[k] - 1, most} : 0 <= n /\ n <= most}

\* Execute: cperf and tcpdump run for WAIT_TIME and are killed, wherever they
\* are.  At most one capture has not been written.
TimeUp ==
    /\ stage = "run"
    /\ \E sent, arrived \in [DOMAIN spec -> UNION {Amounts(k, Served(k)) : k \in DOMAIN spec}] :
         /\ \A k \in DOMAIN spec : /\ sent[k] \in Amounts(k, Served(k))
                                   /\ arrived[k] \in Amounts(k, sent[k])
         /\ dump' = [h \in Host |-> [k \in DOMAIN spec |->
                        IF h = Source THEN sent[k]
                        ELSE IF h = Dest[k] THEN arrived[k] ELSE 0]]
    /\ \E x \in {{}} \cup {{c} : c \in Host \X {"data", "ctrl"}} : missing' = x
    /\ stage' = "arbiter"
    /\ UNCHANGED <<vars, spec, tmp, tmp_arbiter, hostid, left, flow_stat>>

\* Arbiter_traffic: without a control capture, and with none analysed before,
\* the error message names a variable that does not exist, and Python stops.
Arbiter_traffic ==
    /\ stage = "arbiter"
    /\ tmp_arbiter' = (tmp_arbiter \/ <<hostid, "ctrl">> \notin missing)
    /\ stage' = IF tmp_arbiter' THEN "flows" ELSE "error"
    /\ left' = {k \in DOMAIN spec : hostid \in {Source, Dest[k]}}
    /\ UNCHANGED <<vars, runVars, tmp, hostid, flow_stat>>

Count == IF tmp' = None THEN 0 ELSE tmp'

\* Slip: the source is asked for first.
RecordSourceFirst(k) ==
    IF Source = hostid
    THEN [flow_stat EXCEPT ![k].recv = Count]
    ELSE [flow_stat EXCEPT ![k].send = Count]

Record(k) ==
    IF Dest[k] = hostid
    THEN [flow_stat EXCEPT ![k].recv = Count]
    ELSE [flow_stat EXCEPT ![k].send = Count]

\* Eval_traffic and Analyze_flow for one flow, in the dictionary's order.
Analyze_flow(k) ==
    /\ stage = "flows" /\ k \in left
    /\ tmp' = IF <<hostid, "data">> \in missing THEN tmp ELSE dump[hostid][k]
    /\ flow_stat' = Record(k)
    /\ left' = left \ {k}
    /\ UNCHANGED <<vars, runVars, stage, tmp_arbiter, hostid>>

NextHost ==
    /\ stage = "flows" /\ left = {}
    /\ hostid < NumHost
    /\ hostid' = hostid + 1
    /\ stage' = "arbiter"
    /\ UNCHANGED <<vars, runVars, tmp, tmp_arbiter, left, flow_stat>>

Status(k) ==
    IF flow_stat[k].send < spec[k] THEN "SendIncomplete"
    ELSE IF flow_stat[k].recv < spec[k] THEN "RecvIncomplete"
    ELSE "FlowComplete"

Exam_flow ==
    /\ stage = "flows" /\ left = {}
    /\ hostid = NumHost
    /\ flow_stat' = [k \in DOMAIN spec |-> [flow_stat[k] EXCEPT !.status = Status(k)]]
    /\ stage' = "done"
    /\ UNCHANGED <<vars, runVars, tmp, tmp_arbiter, hostid, left>>

Parse == stage = "run" /\ Next /\ UNCHANGED <<runVars, anaVars>>

EvalNext ==
    \/ Parse \/ TimeUp
    \/ Arbiter_traffic \/ NextHost \/ Exam_flow
    \/ \E k \in Key : Analyze_flow(k)

EvalSpec == EvalInit /\ [][EvalNext]_evalVars

-----------------------------------------------------------------------------
\* With all captures there, the verdict on a flow follows what its source sent
\* and its destination received, although all measurements share one file; and
\* a flow with a supported line, all of whose packets were granted, sent and
\* received, is complete.
JudgedRight ==
    (stage = "done" /\ missing = {}) =>
        \A k \in DOMAIN spec :
            LET sent     == dump[Source][k]
                arrived  == dump[Dest[k]][k]
                complete == flow_stat[k].status = "FlowComplete"
                ServedBy(d) == /\ d.line.key = k /\ Supported(d.line)
                               /\ Wanted(d.line) = spec[k] /\ arrived = Served(k)
            IN /\ complete <=> arrived >= spec[k]
               /\ flow_stat[k].status = "SendIncomplete" <=> sent < spec[k]
               /\ (\E n \in DOMAIN demands : ServedBy(demands[n])) => complete

-----------------------------------------------------------------------------
(* What a comment says and the code does not keep.                         *)

\* evaluation.py line 188: a capture that does not exist counts as nothing
\* received, so no flow is complete without the captures of both its ends.
CompleteIsCaptured ==
    stage = "done" =>
        \A k \in DOMAIN spec :
            flow_stat[k].status = "FlowComplete" =>
                missing \cap {<<Source, "data">>, <<Dest[k], "data">>} = {}
=============================================================================
