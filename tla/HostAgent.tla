----------------------------- MODULE HostAgent -----------------------------
(***************************************************************************)
(* One host: the thread recieve_demands, which queues the arbiter's        *)
(* replies, and the thread send_packets, which takes them off the queue    *)
(* and transmits them.  They share the queue under response_qlock and the  *)
(* condition variable queue_not_empty, which is signalled outside it.      *)
(* The arbiter writes the replies, slot after slot, until it ends; then    *)
(* the host's main returns and takes send_packets with it.                 *)
(***************************************************************************)
EXTENDS Naturals, Sequences, FiniteSets, Functions

CONSTANTS
    Replies,    \* the replies the arbiter sends this host, in order
    Burst,      \* packets sent back to back (10)
    Limit       \* packets a source may send in a slot (200)

Reply == [slot : Nat, dest : 1..16, flow : Nat]

ASSUME HostAssumption ==
    /\ Replies \in Seq(Reply)
    /\ Burst \in Nat \ {0} /\ Limit \in Nat

\* A reply grants a chunk of 50 packets, and the tables of the arbiter keep the
\* chunks of a source in a slot within the limit (PathAllocator).  The bursts of
\* 10 make up the 100 packets that are sent for a chunk.
ASSUME GrantAssumption ==
    /\ \A n \in DOMAIN Replies : Replies[n].flow = 50
    /\ \A n \in DOMAIN Replies :
         50 * Cardinality({m \in DOMAIN Replies : Replies[m].slot = Replies[n].slot}) <= Limit
    /\ 100 % Burst = 0

VARIABLES
    up,         \* whether the arbiter's end of the connection is open
    due,        \* replies the arbiter has still to write
    inbox,      \* replies on the connection
    rpc,        \* where recieve_demands is
    data,       \* the node it is about to queue: a sequence of at most one
    queue,      \* the queue; queuesize is its length
    spc,        \* where send_packets is
    taken,      \* the reply it transmits: a sequence of at most one
    sent,       \* the replies transmitted, in order
    wire        \* the packets put on the wire for each of them

arbVars  == <<up, due>>
recvVars == <<inbox, rpc, data>>
sendVars == <<spc, taken, sent, wire>>
vars == <<arbVars, recvVars, queue, sendVars>>

Init ==
    /\ up = TRUE /\ due = Replies
    /\ inbox = << >>
    /\ rpc = "read" /\ data = << >>
    /\ queue = << >>
    /\ spc = "dequeue" /\ taken = << >>
    /\ sent = << >> /\ wire = << >>

-----------------------------------------------------------------------------
(* The arbiter.                                                            *)

\* process_demands writes the replies of a slot, sleeps 1.5 ms and goes on to
\* the next slot: the wait for the hosts' acknowledgements is commented out.
WriteReply ==
    /\ up /\ due # << >>
    /\ inbox' = Append(inbox, Head(due))
    /\ due' = Tail(due)
    /\ UNCHANGED <<up, rpc, data, queue, sendVars>>

\* It ends between two replies, with what it has written on the connection.
ArbiterEnds ==
    /\ up
    /\ up' = FALSE
    /\ UNCHANGED <<due, recvVars, queue, sendVars>>

-----------------------------------------------------------------------------
(* recieve_demands                                                         *)

Read ==
    /\ rpc = "read"
    /\ inbox # << >>
    /\ data' = <<Head(inbox)>>
    /\ inbox' = Tail(inbox)
    /\ rpc' = "enqueue"
    /\ UNCHANGED <<arbVars, queue, sendVars>>

\* The connection ends: the thread returns.
ReadEnd ==
    /\ rpc = "read"
    /\ ~ up /\ inbox = << >>
    /\ rpc' = "ended"
    /\ UNCHANGED <<arbVars, inbox, data, queue, sendVars>>

\* Slip: the node is linked in at the front.
EnqueueFront ==
    /\ rpc = "enqueue"
    /\ queue' = data \o queue
    /\ data' = << >>
    /\ rpc' = "signal"
    /\ UNCHANGED <<arbVars, inbox, sendVars>>

\* Slip: the node stays with the reader after it is linked in.
EnqueueKeepsNode ==
    /\ rpc = "enqueue"
    /\ queue' = queue \o data
    /\ rpc' = "signal"
    /\ UNCHANGED <<arbVars, inbox, data, sendVars>>

Enqueue ==
    /\ rpc = "enqueue"
    /\ queue' = queue \o data
    /\ data' = << >>
    /\ rpc' = "signal"
    /\ UNCHANGED <<arbVars, inbox, sendVars>>

\* Only a queue of one is signalled, read after the lock is released; the
\* signal is lost unless send_packets already waits.  (A size that has changed
\* by the time of the signal gives no more than a spurious wakeup.)
Signal ==
    /\ rpc = "signal"
    /\ rpc' = "read"
    /\ spc' = IF Len(queue) = 1 /\ spc = "asleep" THEN "dequeue" ELSE spc
    /\ UNCHANGED <<arbVars, inbox, data, queue, taken, sent, wire>>

-----------------------------------------------------------------------------
(* main                                                                    *)

\* Slip: main joins only the thread of the parser.
ExitUnread ==
    /\ ~ up /\ spc # "gone"
    /\ spc' = "gone"
    /\ UNCHANGED <<arbVars, recvVars, queue, taken, sent, wire>>

\* main joins the parser and recieve_demands, closes the connection and
\* returns; the join of send_packets is commented out, the process ends with it.
Exit ==
    /\ rpc = "ended" /\ spc # "gone"
    /\ spc' = "gone"
    /\ UNCHANGED <<arbVars, recvVars, queue, taken, sent, wire>>

-----------------------------------------------------------------------------
(* send_packets                                                            *)

Dequeue ==
    /\ spc = "dequeue"
    /\ queue # << >>
    /\ taken' = <<Head(queue)>>
    /\ queue' = Tail(queue)
    /\ spc' = "transmit"
    /\ UNCHANGED <<arbVars, recvVars, sent, wire>>

\* Slip: the loop runs to its end once more.
TransmittedOneMore(flow) == Burst * ((flow + 50 + Burst - 1) \div Burst + 1)

\* The loop of sendReceive: i = 1, 1 + Burst, ... up to flow + 50, Burst
\* packets each time.
Transmitted(flow) == Burst * ((flow + 50 + Burst - 1) \div Burst)

\* No reply has dest 100, so the branch that acknowledges a slot is dead and
\* every reply is transmitted.
Transmit ==
    /\ spc = "transmit"
    /\ sent' = sent \o taken
    /\ wire' = Append(wire, Transmitted(taken[1].flow))
    /\ taken' = << >>
    /\ spc' = "dequeue"
    /\ UNCHANGED <<arbVars, recvVars, queue>>

\* Slip: a queue of one counts as empty.
FindShort ==
    /\ spc = "dequeue"
    /\ Len(queue) <= 1
    /\ spc' = "wait"
    /\ UNCHANGED <<arbVars, recvVars, queue, taken, sent, wire>>

FindEmpty ==
    /\ spc = "dequeue"
    /\ queue = << >>
    /\ spc' = "wait"
    /\ UNCHANGED <<arbVars, recvVars, queue, taken, sent, wire>>

\* pthread_cond_wait, without another look at the queue.
Wait ==
    /\ spc = "wait"
    /\ spc' = "asleep"
    /\ UNCHANGED <<arbVars, recvVars, queue, taken, sent, wire>>

SpuriousWake ==
    /\ spc = "asleep"
    /\ spc' = "dequeue"
    /\ UNCHANGED <<arbVars, recvVars, queue, taken, sent, wire>>

-----------------------------------------------------------------------------
Receive == Read \/ ReadEnd \/ Enqueue \/ Signal
Send    == Dequeue \/ Transmit \/ FindEmpty \/ Wait

Next == Receive \/ Send \/ SpuriousWake \/ WriteReply \/ ArbiterEnds \/ Exit

Spec == Init /\ [][Next]_vars

FairSpec == Spec /\ WF_vars(Receive) /\ WF_vars(Send)

-----------------------------------------------------------------------------
\* The type of the state; each thread holds a node exactly while it works on it.
HostTypeOK ==
    /\ up \in BOOLEAN /\ due \in Seq(Reply)
    /\ inbox \in Seq(Reply) /\ data \in Seq(Reply)
    /\ queue \in Seq(Reply) /\ taken \in Seq(Reply) /\ sent \in Seq(Reply)
    /\ rpc \in {"read", "enqueue", "signal", "ended"}
    /\ spc \in {"dequeue", "transmit", "wait", "asleep", "gone"}
    /\ wire \in Seq(Nat)
    /\ Len(data) = (IF rpc = "enqueue" THEN 1 ELSE 0)
    /\ Len(taken) <= 1
    /\ spc = "transmit" => taken # << >>
    /\ spc \notin {"transmit", "gone"} => taken = << >>

\* Every reply is somewhere between the arbiter and the wire, once, and in the
\* order of the arbiter's slots.
InOrderOnce == sent \o taken \o queue \o data \o inbox \o due = Replies

\* The process ends only after the arbiter, and with every reply that was on
\* its connection read: what is lost was queued or in transmission.
ExitAfterReading ==
    spc = "gone" => ~ up /\ sent \o taken \o queue \o due = Replies

\* While send_packets is not about to sleep, or asleep, it will transmit all
\* that is queued, or the process ends.
AwakeSends ==
    queue # << >> /\ spc \in {"dequeue", "transmit"}
        ~> queue = << >> \/ spc = "gone"

\* Twice the README's limit (line 20) is the most a source puts on the wire for
\* a slot: the arbiter grants it Limit packets in chunks of 50, and sendReceive
\* adds 50 to every reply.
OnWire(t) == UNION {{n} \X (1..wire[n]) : n \in {m \in DOMAIN sent : sent[m].slot = t}}

SourceWithinTwice ==
    \A n \in DOMAIN sent : Cardinality(OnWire(sent[n].slot)) <= 2 * Limit

-----------------------------------------------------------------------------
(* What the documentation says and the code does not keep.                 *)

\* README.txt line 30: the next slot is served when the hosts have acknowledged
\* that they have sent all packets of this one.
Outstanding == Range(taken \o queue \o data \o inbox)

SlotsAcknowledged == \A r, q \in Outstanding : r.slot = q.slot
=============================================================================
