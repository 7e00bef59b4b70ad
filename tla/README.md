# A TLA+ model of the congestion-aware routing arbiter

The program is a centralised packet scheduler in the manner of Fastpass for a
k = 4 fat tree of sixteen hosts. Hosts send *demands* to an *arbiter*; in each
time slot the arbiter grants some of them chunks of 50 packets on paths of its
choice, so that no link is asked for more than 200 packets; hosts transmit what
they are granted, tagged with a VLAN id that makes the switches take that path.
This directory holds TLA+ modules for its parts, the TLC configurations that
check them, and proofs, for every value of the constants, of the safety properties
of the allocation, of the arbiter's threads and request arrays, with the
conservation of what hosts ask for, of a host's queue and sender, of the
connections and the reads on them, of the forwarding, and of the sequential
algorithms.

Paths below are relative to the repository; `process_demands.c`,
`get_host_demands.c`, `accept_host_connections.c`, `arbiter_main.c` are under
`_arbiter/src`, the `host_*.c`, `queue.c` and `raw_socket.c` of the host under
`_host/src`.

## 1. Inventory

| Part | Code | State | Operations | What makes it correct |
|---|---|---|---|---|
| Path allocation | `process_demands.c` 21-415, 505-522 | per-slot counters of host links, edge uplinks, pods, core ports; `prev_vlanid`; `reply` | clear at slot start; `find_path` with `get_appropriate_vlanid` and `get_vlanid` | no link, switch or pod above its capacity; counters agree with the replies; nothing of a slot survives in the next |
| Request arrays and serving | `process_demands.c` 434-734, `get_host_demands.c` 56-149 | `request_5000/6000/7000` with `len` and a lock; `no_req_cond` | store, signal, sort, visit, remove, reply, sleep | no chunk lost or served twice; class priority; smallest first; everything is served |
| Connections | `accept_host_connections.c`, `arbiter_main.c`, `host_main.c` | `hostsockfd`, sockets, processes | connect, accept, read, write, die, start again, Control-C | replies reach the process that asked or nobody; reconnecting works; a read returns one whole record |
| Host agent | `host_recieve_demands.c`, `host_send_packet.c`, `queue.c`, `raw_socket.c` 290-355 | the queue, its lock and condition | enqueue, signal, dequeue, transmit, wait, exit | every reply transmitted once, in order; nothing unread at the exit |
| Demand parser | `host_send_demands.c` | `bytes`, `packets`, the file | read a line, send a demand | the flow fits the volume of its line |
| Controller and network | `source_routing.py`, `fat.py` | the switches' tables | install rules when a switch connects | packets arrive, over the path the arbiter charged |
| Evaluation | `evaluation.py` | captures, `dump/tmp.pcap`, `flow_stat` | start, kill after 60 s, analyse host by host, judge | the verdict on a flow is about that flow |
| Not in use | arbiter `queue.c`, `send_path_to_host.c` | `response_queue` | - | its thread is commented out (`arbiter_main.c` 178) |
| Around the system | `arbiter_network.py`, `vlan.py`, `traffic/`, `log/`, old copies `*bkp*`, `ds/`, `hello.c` | - | start-up, samples | - |

**How they interact.** A host parses its traffic file, writes demands to its TCP
connection and reads replies from it. In the arbiter one receive thread per host
appends demands to the array of their class (the thousands of the port) and
signals `no_req_cond`. One thread, `process_demands`, fills a slot after the
other from the three arrays and writes the replies to `hostsockfd`. The host's
receive thread queues them, its sending thread transmits. The switches forward
by the rules that the controller installed.

**What is hard.** Seventeen threads share the request arrays, with locks around
some accesses only; condition variables are signalled outside their mutex and
waited on without a loop; slots follow each other without acknowledgements;
processes die and reconnect; a read may return part of a record; the tables are indexed with arithmetic that is off
by one; allocation and forwarding agree only because two programs use the same
numbers. `hazards` in `PROJECT.json` lists the places, one by one.

## 2. Modules

`FatTree` - topology and index arithmetic. A VLAN id `(src << 4) + dest + 1000k`
is its path `k` here; `SourceRouting` keeps the numbers.

`SlotLoad` - grants (`host_reply`) and the load a sequence of grants puts on a
part of the network. `SlotContract` - the abstract specification of a slot: the
grants are always *feasible* (`README.txt` 19-23).

`PathAllocator` - the tables and one chunk's allocation. `ClearSlot` is the top
of the slot loop; `GrantSibling` and `GrantRouted` are one turn of `find_path`'s
loop with all it calls; `Refused` is when it gives up. Faults of the code that
belong to the behaviour are kept: row -1 of `torswitch_port_capacity`
for hosts 1 and 2 (in the built program the end of `pod_vlanid`, never
written otherwise and cleared each slot, so that it behaves like a row of its
own: `TorRow` starts at -1), the shifted rows of the others, uplink 0 charged for every
path, pairs inside a pod charged twice. It implements `SlotContract` under
`grants <- reply` (`ContractSpec`).

`RequestOrder` - what sorting and removing do to an array. `RequestSort` runs the
two loops of the code, one comparison or one move a step, and checks that they
do that. `VlanProbe` runs the chain of ifs in `get_appropriate_vlanid`, and
checks that it is `PathAllocator`'s circular search.

`Arbiter` extends `PathAllocator` with the receive threads and
`process_demands`. A critical section is one step, but a store is two
(`BeginStore`, `EndStore`), because `process_demands` may read the slot past
`len` in between. Check, wait and signal are separate steps. `find_path` holds
its own copy of the demand (`cur`). Its steps are steps of `PathAllocator` or
change none of its variables (`AllocSpec` as a property, `ArbiterAllocates` as a
theorem), so that what is proved of the allocator holds in the whole arbiter.
`ChunkLedger` says where chunks are: `Places` are the demands in a socket or a
receive thread, the slots of the arrays and the replies, and `Located` has a chunk
of a flow for each one that a place holds. `Asked` has those that hosts ask for,
in the classes the arbiter stores. `ChunksConserved` is that the two are as many.

`Connections` - processes, TCP connections, `accept_connections`, `hostsockfd`
and the reads and writes on it. A read that has begun stays on its descriptor
when the host reconnects. A write to a connection whose process is gone is lost
and may be answered by a reset; a write after the reset raises SIGPIPE, which
ends the arbiter. Each message is whole there; `RecordStream` looks at one
direction byte by byte: what TCP may make of a sequence of writes, and what the
reads, which ask for no more than `n > 0`, take for records.

`HostAgent` - the two threads of a host and their queue, the arbiter's writes,
slot after slot without an acknowledgement, and `main`, which returns after
`recieve_demands` and does not wait for `send_packets` (`Exit`). `DemandParser` -
the conversion of volumes into chunks, with the C arithmetic it depends on.

`Evaluation` extends `DemandParser` with `evaluation.py` on one trace: what its
`Descriptor` reads in the traffic file, the captures that are there when all
processes are killed (`TimeUp`; any flow may be cut off, and one capture may be
missing), and the analyser, which filters one flow after the other into one
file. `tcpdump` and `capinfos` are external: a capture that is missing leaves the
file as it was.

`SourceRouting` - the links of `fat.py`, the rules of `install_rules`, one VLAN
id at a time, a table deleted on reconnect, and a packet on its way. OpenFlow's
forwarding, the miss that drops a packet and its refusal to send a packet back by
its port are external.

Definitions under a comment `Slip:` are the faulty variants that show a property
can fail; no specification uses them.

## 3. Runs

| Run | Module, cfg | What it asks | Distinct states |
|---|---|---|---|
| `alloc` | `MCPathAllocator`, `MCAlloc` | siblings, a pair in a pod and three flows that compete for core paths: exact counters, no overcommitment, the contract | 280,334 |
| `alloc_crowded` | `MCPathAllocator`, `MCAllocCrowded` | *violated*: 400 packets in a pod, siblings included | - |
| `arbiter_mix` | `MCArbiter`, `MCArbiterMix` | three receive threads and `process_demands`, six demands, of all classes and of one that nobody stores, one of them of no chunks: types, conservation, priority, refinement, progress | 135,507 |
| `arbiter_sleeps` | `MCArbiter`, `MCArbiterSleeps` | *violated*: all requests are served | 109 |
| `arbiter_skips` | `MCArbiter`, `MCArbiterSkips` | *violated*: a request is passed over only if the slot is full for it | - |
| `sequential` | `MCSequential`, `MCSequential` | sort and removal loops on every array of up to four requests with flows 0..3; every start and set of free paths; traffic files of up to two lines, both line endings, volumes around the edges, and the evaluation of each | 817,657 |
| `host_agent` | `MCHostAgent`, `MCHostAgent` | six replies of two slots through the queue, from an arbiter that may end at any moment | 1,750 |
| `slots_run_on` | `MCHostAgent`, `MCHostSlots` | *violated*: a host has replies of one slot at a time | - |
| `capture_missing` | `MCEvaluation`, `MCEvaluation` | *violated*: a flow is complete only if both its ends were captured | - |
| `record_stream` | `RecordStream`, `MCRecordStream` | twelve records, segments and reads of any size | 14,982 |
| `routing` | `MCSourceRouting`, `MCRouting` | all 240 pairs, all their ids, one edge switch filling and losing its table | 1,302,285 |
| `connections` | `MCConnections`, `MCConnections` | two hosts, each started at most twice and killed at any moment | 261,446 |

What they show:

* **Allocation.** The host-link, core and pod counters are exactly the load of
  the slot's replies (`HostLinks`, `CorePaths`, `PodCounters`: a pair inside a
  pod counts twice). Aggregate switches, uplinks and pods stay within capacity
  (`AggregateLoad`, `UplinkLoad`, and `PodLoad` in the contract) although the uplink counters are
  wrong: the aggregate switches alone suffice. A pod counter passes 200 by at
  most one chunk (`PodOvershoot`), although the comment on `pod_vlanid` says
  "max 200". A slot never starts with something it cannot serve
  (`FreshSlotServes`).
* **Arbiter.** No chunk is lost, doubled or misdirected between a demand's
  socket and the replies (`ChunksConserved`), whatever is read past the end of
  an array, because what lies there is empty (`StaleSlotsEmpty`), and the request
  under service does not move (`FindsItsRequest`; a torn read can only cost its
  port). Replies keep class priority, and an awake arbiter serves all there is
  (`AwakeDrains`), also what arrives behind a demand of no chunks, and at least
  one chunk in every slot (`SlotServesFirst`).
* **Host.** Replies are transmitted once and in order (`InOrderOnce`); an awake
  sender empties its queue (`AwakeSends`); a slot's replies put at most twice
  the limit on the wire (`SourceWithinTwice`: `sendReceive` adds 50 packets to
  every reply, so 400 where `README.txt` 20 has 200). When the process ends,
  with replies still queued or not, nothing on its connection is unread
  (`ExitAfterReading`).
* **Connections.** Later processes never get less than their place: a reply does
  not go backwards to a replaced process, nor a future demand's forwards
  (`RepliesMoveForward`); every connection is accepted, also past the sixteenth
  (`EveryAccepted`); receive threads find the new connection (`DemandsRead`).
  The arbiter ends by SIGPIPE only after it has lost a reply in silence to a
  process that died: the loss of one reply does not end it (`OneLossSurvived`).
  A record is torn only in a burst that no segment holds (`WholeReads`), and a
  reader that is out of step gets in step when the writer pauses (`InStepAgain`).
* **Network.** Partial tables drop packets and never misdeliver them; complete
  ones deliver all of them (`NeverMisdelivered`, `Delivered`), over the
  aggregate and core switch the arbiter charged (`ChargedWhereItGoes`,
  `StaysBelow`).
* **Parser and evaluation.** A line as in the samples, with a volume below
  1.64 GB, gets a flow that fits it, whatever precedes it (`VolumeServed`). Other
  lines do not: 2G overflows the short, and a bare newline hides the unit. With
  all captures there, each verdict is about what its own flow's source sent and
  destination received, in spite of the one file for all measurements, and a
  flow that the demands cover and that is all received is complete
  (`JudgedRight`). All the sequential code ends (`AllEnd`).

Five runs show where the documentation, or a comment, and the code differ
(`findings`): the lost wakeup before `pthread_cond_wait`, the request that the
loop passes over after a removal, sibling packets that no pod limit counts, the
acknowledgements of a slot that are commented out, and the missing capture that
counts as the flow measured before it. Met in the same models, and recorded as
hazards: the host's own lost wakeup; a demand below 50 packets, which is never
removed and keeps the arbiter from sleeping; a reply with port 0 after a torn
read; the negative flow of a huge volume; in `evaluation.py`, the message about
a missing control capture, which names a variable of another function.

**Bounds and why they are enough.** The allocator's runs are finite because
every grant needs room: all sequences of grants of the flow sets are explored.
`alloc` takes 100 as the capacity,
two chunks, enough to fill every link and path and for the check at one chunk
below the limit; `alloc_crowded` keeps the code's 200. The flow set covers siblings, pairs in a pod and pairs across
pods, with row 0's clash of hosts 1 to 4. In the arbiter's runs links carry two
chunks, so that one demand spans slots; three clients and one server make every
pair of the races in the code, as each involves one receive thread, or two that
compete for a lock, and `process_demands`. `ReqSize` is one more
than the demands. `routing` needs only one switch
with a partial table, as a rule sends a packet to a neighbour whatever
that one's table holds, and a packet meets a switch at most once. `Wrap` is 2
where the code has 16, so that the counter wraps; `Queue` is 1 where
`listen` is given 18, so that a host waits for room; two starts per
host give the old and the new connection. `record_stream` scales 10 bytes in a
segment of 1448 (or 16) to 5 in 14: no whole number of records fits a segment, and twelve
records make bursts of several segments, each torn at another place. Sorting compares two requests at a
time and flows 0, 1, 2, 3 give every order of three and ties.

**Fairness.** `Arbiter`, `HostAgent` and the accept and receive threads of
`Connections`: weak fairness of each thread, as the operating system schedules a
thread that can run. A lock is held for two steps of a thread that can always
take the second, so weak fairness suffices for those that wait. Nothing makes a
spurious wakeup happen, hosts send or die as they like, and switches need not
reconnect. `RecordStream`: what is written is
delivered, and the reader reads. `SourceRouting`: a packet in a switch is
forwarded. The three programs of `sequential` take their next step.

Deadlock is checked except where the program stops: the sequential code at its
end (`sequential`, `capture_missing`), an arbiter interrupted or all hosts used
up (`connections`), a host whose process has ended (`host_agent`,
`slots_run_on`), a stream whose writer has no more to write (`record_stream`).

## 4. Proofs

`PathAllocatorProofs` proves, for every `Flow`, `Port`, and `Chunk <= Cap`
(assumptions `ChunkCapAssumption` and `FlowAssumption`):

* `TablesExact`, `AllocTypes`, `CorePathsHold`, `PodCountersHold`: types,
  `HostLinks`, `CorePaths`, `PodCounters` in every state;
* `NothingOvercommitted`, `UplinksHold`, `OvershootBounded`: `AggregateLoad`,
  `UplinkLoad`, `PodLoad`, `PodOvershoot`;
* `FreshSlot`: `FreshSlotServes`;
* `RepliesBounded`: at most `8 * Cap / Chunk` replies in a slot (`RepliesFit`), 32 for the
  code's numbers, so that `reply_index` stays below the 240 entries of `reply`;
* `AllocFulfilsContract`: `AllocSpec => ContractSpec`.

The capacity bounds are not inductive: a grant is allowed by the *counters*, so
the counters must be known to equal, or bound, the loads. `AllocInv` joins the
types, the three exactness invariants, `AggregateLoad`, `PodOvershoot` and
`FreshTables` (no reply, nothing charged). A pod counter overshoots for pairs
inside a pod, so `AggregateLoad` is not "counter within capacity": it
follows from `PodCounters`, in which the doubled part is never negative, and
the check before the grant. `UplinkLoad` and `PodLoad` then follow without
any counter of their own: an uplink's grants are part of its aggregate switch's,
a pod's are the union of its two aggregate switches'. `RepliesFit` rests on a
second invariant, `TwoLinksEach`: the sixteen link counters sum to two chunks a
reply. Induction has one lemma per action (`ClearAlloc`, `SiblingAlloc`,
`RoutedAlloc`), and `AllocInvariant` is their conclusion. For the refinement,
`SameNetwork` and `SameLoads` identify the operators of the instantiated
contract with those of the module, `FeasibleReplies` turns the invariant into
`Feasible`, and `ReplySteps` shows that a step of the allocator clears, appends
one grant or stutters. The lemmas about loads come first: a grant appended loads
the sets it lies in by one chunk (`LoadAppend`), a part carries no more than the
whole (`LoadMonotone`), a union no more than the sum (`LoadUnion`).

`ArbiterProofs` proves, for every set of clients and every traffic whose demands
together leave one slot of an array free (`TrafficAssumption`):

* `ArbiterTypes`, `NothingPastLen`, `FindsOwnRequest`: `TypeOK`,
  `StaleSlotsEmpty`, `FindsItsRequest`;
* `ArbiterAllocates`: `Spec => AllocSpec`, and by it `ArbiterFulfilsContract`:
  `Spec => ContractSpec`;
* `FirstServed`: `SlotServesFirst`; `RepliesByPriority`: `PriorityOrder`.

`QueueInv` has what these need of each other. `DemandsCounted` keeps `len` inside
the arrays, which no test in the code does: the demands stored and those still
on their way (`OnTheWay`) are never more than all. `StoreLocked` says what the
unlocked reads of `process_demands` can see of a store: one slot, at `len`, whose
port is still 0. `ServesStored` says that `find_path` works on a stored request
or on that slot, and only for a flow. One lemma per action or group of
actions keeps `QueueInv`; `SortedQueue` is shared by the two that sort.
`StepAllocates` maps every step to a step of the allocator or to a stutter, so
`AllocInv` needs no second proof. `FirstServed` and `RepliesByPriority` strengthen it
by `FirstInv` (nothing is removed before the first reply, so stores write behind
the loop) and `OrderInv` (an array holds ports of its class or 0).

`ChunkLedgerProofs` proves `ChunksConserved` (`ChunksNeverLost`) for every set of
clients and every traffic. The number of chunks that are somewhere is a sum over
places, and a sum over data is what the provers cannot do; so the invariant
`LedgerInv` says that there is a bijection between `Asked` and `Located`, and
bijections compose. What a step does to a flow is described by the weights of
the places before and after it: all of what a place has moves to one place of its
own (`AllMoved`; between two places, `Handed`: a read, a store, a write), one
chunk moves (`OneMoved`: a grant), or the slots of an array are renumbered
(`Permuted`: a sort; `MovedDown`: a removal). One lemma per action gives the
weights, and `EveryStepMoves` is their conclusion. It rests on `ArbInv` of
`ArbiterProofs`: what a removal overwrites, a torn store hides, and a read past
`len` serves, is empty. `SourceInv` adds that replies go to clients, so that none
is dropped for want of an outbox.

`HostAgentProofs` proves `HostTypeOK`, `InOrderOnce` and `ExitAfterReading`
(`HostTypes`, `RepliesInOrder`, `ExitReadsAll`) for every sequence of replies and
every burst of at least one packet (`HostAssumption`). `ExitAfterReading` is not
inductive: `HostInv` adds what the receive thread knew when it returned
(`EndedUnread`) and that `main` has joined it (`GoneAfterEnd`). A step moves
replies between two neighbours of the concatenation in `InOrderOnce`, and the
proof regroups it around them (`ConcatAssociative`). `WithinTwice` proves
`SourceWithinTwice` from what the arbiter grants (`GrantAssumption`: one chunk of
50 a reply, `process_demands.c` 259, the chunks of a source within the limit
in each slot, which is `HostLinks` of the allocator, and a burst that divides the
100 packets sent for a chunk): `WireInv` gives every reply that was sent its one run
of the loop in `sendReceive`, and `SentFirst` says that the replies sent are the first of
the arbiter's, each once. The packets are a set, so that the bound is one on cardinalities.

`RecordStreamProofs` proves `WholeReads` (`ReadsAreWhole`) for every size of
record and every segment that holds one (`StreamAssumption`), from the invariant
`StreamInv`: while the most that has waited since the stream was last empty fits
a segment, what has arrived and what was consumed end between two records. Its
only products of variables are multiples of the size, which `WholeApart` and
`WholeStep` keep apart from the steps.

`ConnectionsProofs` proves `ConnTypeOK`, `RepliesMoveForward` and
`OneLossSurvived` (`ConnectionTypes`, `HostsockfdMovesForward`, `SigpipeNeedsTwo`)
for every finite set of hosts, any number of starts and of demands, and any
length of the backlog and modulus (`ConnectionsAssumption`). Forwardness is not
inductive by itself: it needs that the backlog holds a host's connections in the
order of its starts, all younger than `hostsockfd`, and that what is read, stored
or under way is no younger (`ForwardInv`). That SIGPIPE costs two replies
relates four pieces of state that no step reads together. `UpInv` gives each demand one
place in its connection, `ReplyInv` makes it stored, under way or answered and
never two of these, and so a reply that was lost stays lost; `LossInv` has a lost
demand for every connection that is reset, and a write to a reset connection
loses another.

`SourceRoutingProofs` proves all of the network's invariants (`RoutingTypes`,
`NobodyElse`, `ArbiterAndControllerAgree`, `LocalTraffic`) for any set of pairs
and any range of ids that the loop of `install_rules` runs through
(`RoutingAssumption`). A packet that is at a switch says nothing of the rules of
the next, so the invariant `OnRoute` names the switches that a packet of a flow
may be at on a path. The lemmas before it follow the hops (`host_to_switch`, the
arithmetic of VLAN ids and of links): at each of these switches, the one rule that
can be installed for the id leads to the next or to the destination.

`SequentialProofs` proves `PrefixFinal`, `LoopsMeetOrder`, `CircularFirstFit`,
`VolumeServed` and `JudgedRight` of the specification that `sequential` runs, for
arrays of any length, flows of any size, files of any length with any volumes, and
any number of hosts (`SequentialAssumption`). `SortInv` has what the inner loop of the sort knows (slot
`i` comes before those it was compared with), that the array is still a reordering
of the first one, and how far a removal has come; `Before` is a total preorder in
which 0 is last (`BeforeOrder`), which is where an exchange keeps what was
established before it. `ProbeInv` says which paths each `if` of each round leaves
tried: the first round those behind `prev`, the second the rest. `ParserInv` keeps a
demand's flow fitting its volume; `Counted` and `FlowFits` are the arithmetic of the
int and of the short. The parser's variables live from line to line, and the theorem
is that a supported line does not depend on them.

`EvalInv` says which captures have been read: host `hostid` measures one flow after
another into the same two fields per flow and through the same file, and what it
wrote for one end of a flow is not touched when the other end is analysed
(`AnalyzeFlowKeeps`). Of the packets that a capture holds (`Amounts` has three
values of them) the proof uses only that they are natural numbers and that no more
arrive than were sent. That a served flow is complete also needs the sum in `Served`
not to be less than any demand in it. `SumFunctionOnSet` of the community modules is
a fold by a recursive function, and induction over a set is out of the prover's
reach as a rule with an operator parameter; `SumCovers` goes around it by counting
marks, `f[x]` of them for each `x`: their number solves the equation of the fold
(`MarksGrow`), and two solutions agree, because a smallest finite set on which they
differ would have a smaller one (`FoldUnique`, from the library's theorem that
strict inclusion of finite sets is well-founded). The last line of a flow, which
gives its volume, exists by the same argument (`SpecType`).

Model-checked only: liveness under fairness (`AwakeDrains`, `AwakeSends`,
`EveryAccepted`, `DemandsRead`, `InStepAgain`, `Delivered`, `AllEnd`).

## 5. Not modelled

Time: a slot's 1.5 ms, of which the model keeps that slots follow one another
without waiting. Frames byte by byte, logs, the times and rates that
`evaluation.py` reports, and its score (which asks for 94 hosts that used the
arbiter, where three traces of sixteen hosts make at most 48, so that it is 0).
The bound of 240 on a request array is an assumption
(`TrafficAssumption`), as nothing in the code keeps it. Whether a stream without
end of small demands starves a large one. The bytes of a torn record: what the
arbiter does with a demand that is read askew depends on what they happen to be.
The parts listed as not in use or around the system.

## 6. Plan

The order was: allocation and its contract, its proofs, the arbiter's threads,
the two algorithms it abstracts, the host, the network, connections, the parser,
then the connection's bytes, the host's exit, slots without acknowledgements, the
evaluation, and the proofs about host, connections, arbiter, network and algorithms. Left, in order:

1. `Cluster`: arbiter and hosts together, what sources and destinations see of
   two slots that overlap.
2. The dormant queue of the arbiter, whose `dequeue_demand` returns with its lock
   held (`_arbiter/src/queue.c` 113), if it comes into use.
