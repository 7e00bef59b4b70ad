------------------------------ MODULE Arbiter ------------------------------
(***************************************************************************)
(* The arbiter process: one receive thread per connected host (get_demands *)
(* with store_demands) and the thread process_demands, which share the     *)
(* three request arrays, their locks and the condition variable            *)
(* no_req_cond.  The tables and the choice of paths are PathAllocator's.   *)
(*                                                                         *)
(* A demand's flow is counted in chunks of 50 packets.  A critical section *)
(* is one step, except that of store_demands, whose writes process_demands *)
(* can see through its unlocked reads.                                     *)
(***************************************************************************)
EXTENDS PathAllocator, RequestOrder

CONSTANTS
    Client,     \* the hosts with an open connection
    Traffic,    \* Traffic[h]: the demands host h sends, in order
    ReqSize     \* the length of a request array (240)

Class == {5, 6, 7}                  \* request_5000, request_6000, request_7000
ClassOf(port) == port \div 1000

Slot  == 0..(ReqSize - 1)
Empty == [src |-> 0, dest |-> 0, flow |-> 0, port |-> 0]
Entry == [src : Host \cup {0}, dest : Host \cup {0}, flow : Nat, port : Port]

\* Port 0 is what a slot holds before its first demand is complete.  All the
\* demands together leave the last slot of an array free: nothing in the code
\* keeps len within bounds.
ASSUME TrafficAssumption ==
    /\ Client \subseteq Host
    /\ 0 \in Port /\ Port \subseteq Nat
    /\ ReqSize \in Nat
    /\ Traffic \in [Client -> Seq(Entry)]
    /\ \A h \in Client : \A n \in DOMAIN Traffic[h] :
         LET d == Traffic[h][n] IN d.src = h /\ <<d.src, d.dest>> \in Flow
    /\ Cardinality({x \in Client \X (0..ReqSize) : x[2] \in DOMAIN Traffic[x[1]]})
         < ReqSize
    /\ \A h \in Client : Len(Traffic[h]) < ReqSize

VARIABLES
    inbox,      \* per client: demands sent and not yet read from its socket
    gpc,        \* per client: where its receive thread is
    demand,     \* per client: the receive thread's local demand
    request,    \* per class: the array of its request_array
    len,        \* per class: its len
    lock,       \* per class: the client whose thread holds its lock, or 0
    ppc,        \* where process_demands is
    cls,        \* the class it is serving
    i,          \* its loop index
    req_len,    \* its copy of the class' len
    cur,        \* find_path's copy of the demand
    sent,       \* the replies of this slot already written
    outbox      \* per client: the replies written to its socket

recvVars  == <<inbox, gpc, demand>>
queueVars == <<request, len, lock>>
procVars  == <<ppc, cls, i, req_len, cur, sent, outbox>>
vars == <<allocVars, recvVars, queueVars, procVars>>

-----------------------------------------------------------------------------
Init ==
    /\ AllocInit
    /\ inbox = Traffic
    /\ gpc = [h \in Client |-> "read"]
    /\ demand = [h \in Client |-> Empty]
    /\ request = [c \in Class |-> [s \in Slot |-> Empty]]
    /\ len = [c \in Class |-> 0]
    /\ lock = [c \in Class |-> 0]
    /\ ppc = "top" /\ cls = 7 /\ i = 0 /\ req_len = 0 /\ cur = Empty
    /\ sent = 0
    /\ outbox = [h \in Client |-> << >>]

-----------------------------------------------------------------------------
(* The receive thread of host h.                                           *)

\* A demand of another class is read and dropped.
ReadDemand(h) ==
    /\ gpc[h] = "read"
    /\ inbox[h] # << >>
    /\ inbox' = [inbox EXCEPT ![h] = Tail(@)]
    /\ demand' = [demand EXCEPT ![h] = Head(inbox[h])]
    /\ gpc' = [gpc EXCEPT ![h] =
         IF ClassOf(Head(inbox[h]).port) \in Class THEN "lock" ELSE "read"]
    /\ UNCHANGED <<allocVars, queueVars, procVars>>

\* Lock the array and write src, dest and flow; the port is still the slot's.
BeginStore(h) ==
    LET c == ClassOf(demand[h].port) IN
    /\ gpc[h] = "lock"
    /\ lock[c] = 0
    /\ lock' = [lock EXCEPT ![c] = h]
    /\ request' = [request EXCEPT ![c][len[c]] =
                     [demand[h] EXCEPT !.port = request[c][len[c]].port]]
    /\ gpc' = [gpc EXCEPT ![h] = "port"]
    /\ UNCHANGED <<allocVars, inbox, demand, len, procVars>>

\* Slip: the array is kept sorted from here, while process_demands works on it.
EndStoreSorting(h) ==
    LET c == ClassOf(demand[h].port)
        a == [request[c] EXCEPT ![len[c]].port = demand[h].port]
        last == len[c]
    IN
    /\ gpc[h] = "port"
    /\ request' = [request EXCEPT ![c] =
                     [a EXCEPT ![0] = a[last], ![last] = a[0]]]
    /\ len' = [len EXCEPT ![c] = @ + 1]
    /\ lock' = [lock EXCEPT ![c] = 0]
    /\ gpc' = [gpc EXCEPT ![h] = "signal"]
    /\ UNCHANGED <<allocVars, inbox, demand, procVars>>

\* Write the port, count the demand and unlock.
EndStore(h) ==
    LET c == ClassOf(demand[h].port) IN
    /\ gpc[h] = "port"
    /\ request' = [request EXCEPT ![c][len[c]].port = demand[h].port]
    /\ len' = [len EXCEPT ![c] = @ + 1]
    /\ lock' = [lock EXCEPT ![c] = 0]
    /\ gpc' = [gpc EXCEPT ![h] = "signal"]
    /\ UNCHANGED <<allocVars, inbox, demand, procVars>>

WakeUp == ppc' = "load" /\ cls' = 7

\* pthread_cond_signal is lost unless process_demands already waits.
Signal(h) ==
    /\ gpc[h] = "signal"
    /\ gpc' = [gpc EXCEPT ![h] = "read"]
    /\ \/ ppc = "asleep" /\ WakeUp
       \/ ppc # "asleep" /\ UNCHANGED <<ppc, cls>>
    /\ UNCHANGED <<allocVars, inbox, demand, queueVars,
                   i, req_len, cur, sent, outbox>>

Receive(h) == ReadDemand(h) \/ BeginStore(h) \/ EndStore(h) \/ Signal(h)

-----------------------------------------------------------------------------
(* process_demands: going to sleep.                                        *)

\* Slip: only reply_index is reset.
NewSlotKeepsTables ==
    /\ ppc = "top"
    /\ reply' = << >>
    /\ ppc' = "check"
    /\ UNCHANGED <<tables, prev_vlanid, recvVars, queueVars,
                   cls, i, req_len, cur, sent, outbox>>

NewSlot ==
    /\ ppc = "top"
    /\ ClearSlot
    /\ ppc' = "check"
    /\ UNCHANGED <<recvVars, queueVars, cls, i, req_len, cur, sent, outbox>>

\* The three lens are read without their locks.  They only grow while this
\* thread does not serve, so reading them one by one decides as one read does.
CheckQueues ==
    /\ ppc = "check"
    /\ \/ (\A c \in Class : len[c] = 0) /\ ppc' = "wait" /\ UNCHANGED cls
       \/ (\E c \in Class : len[c] # 0) /\ WakeUp
    /\ UNCHANGED <<allocVars, recvVars, queueVars, i, req_len, cur, sent, outbox>>

\* pthread_cond_wait, reached some time after the check.
Wait ==
    /\ ppc = "wait"
    /\ ppc' = "asleep"
    /\ UNCHANGED <<allocVars, recvVars, queueVars,
                   cls, i, req_len, cur, sent, outbox>>

\* POSIX lets the wait return without a signal, and no loop tests for it.
SpuriousWake ==
    /\ ppc = "asleep"
    /\ WakeUp
    /\ UNCHANGED <<allocVars, recvVars, queueVars, i, req_len, cur, sent, outbox>>

-----------------------------------------------------------------------------
(* process_demands: serving one class.                                     *)

\* Copy len under the lock, then sort that many slots without it: only this
\* thread touches them, so the two are one step.
LoadClass ==
    /\ ppc = "load"
    /\ lock[cls] = 0
    /\ req_len' = len[cls]
    /\ i' = 0
    /\ \E a \in Sorted(request[cls], len[cls]) :
         request' = [request EXCEPT ![cls] = a]
    /\ ppc' = "visit"
    /\ UNCHANGED <<allocVars, recvVars, len, lock, cls, cur, sent, outbox>>

\* The tests before find_path: something to send and both links below Cap.
Eligible(d) ==
    /\ d.flow > 0
    /\ tor_link_capacity[d.dest] < Cap
    /\ tor_link_capacity[d.src] < Cap

\* Slot i may already be past len: after a removal req_len is the old len.
Visit ==
    /\ ppc = "visit"
    /\ i < req_len
    /\ Eligible(request[cls][i])
    /\ cur' = request[cls][i]
    /\ ppc' = "find"
    /\ UNCHANGED <<allocVars, recvVars, queueVars, cls, i, req_len, sent, outbox>>

PassOver ==
    /\ ppc = "visit"
    /\ i < req_len
    /\ ~ Eligible(request[cls][i])
    /\ i' = i + 1
    /\ UNCHANGED <<allocVars, recvVars, queueVars,
                   ppc, cls, req_len, cur, sent, outbox>>

\* Slip: no break when the flow is served.
FindPathNoBreak ==
    /\ ppc = "find"
    /\ GrantChunk(cur.src, cur.dest, cur.port)
    /\ request' = [request EXCEPT ![cls][i].flow = @ - 1]
    /\ UNCHANGED <<recvVars, len, lock, ppc, cls, i, req_len, cur, sent, outbox>>

\* find_path grants one chunk and takes it off the request.
FindPath ==
    /\ ppc = "find"
    /\ GrantChunk(cur.src, cur.dest, cur.port)
    /\ request' = [request EXCEPT ![cls][i].flow = @ - 1]
    /\ ppc' = IF request[cls][i].flow = 1 THEN "remove" ELSE "find"
    /\ UNCHANGED <<recvVars, len, lock, cls, i, req_len, cur, sent, outbox>>

\* find_path returns with flow left over.
GiveUp ==
    /\ ppc = "find"
    /\ Refused(cur.src, cur.dest)
    /\ i' = i + 1
    /\ ppc' = "visit"
    /\ UNCHANGED <<allocVars, recvVars, queueVars, cls, req_len, cur, sent, outbox>>

\* Slip: the lock is not taken.
RemoveUnlocked ==
    /\ ppc = "remove"
    /\ req_len' = len[cls]
    /\ len' = [len EXCEPT ![cls] = @ - 1]
    /\ \E a \in Sorted(Shift(request[cls], i, len[cls]), len[cls] - 1) :
         request' = [request EXCEPT ![cls] = a]
    /\ i' = i + 1
    /\ ppc' = "visit"
    /\ UNCHANGED <<allocVars, recvVars, lock, cls, cur, sent, outbox>>

\* A request served to the end is removed under the lock and the rest sorted.
Remove ==
    /\ ppc = "remove"
    /\ lock[cls] = 0
    /\ req_len' = len[cls]
    /\ len' = [len EXCEPT ![cls] = @ - 1]
    /\ \E a \in Sorted(Shift(request[cls], i, len[cls]), len[cls] - 1) :
         request' = [request EXCEPT ![cls] = a]
    /\ i' = i + 1
    /\ ppc' = "visit"
    /\ UNCHANGED <<allocVars, recvVars, lock, cls, cur, sent, outbox>>

\* Slip: request_6000 is served before request_5000.
EndClassInverted ==
    /\ ppc = "visit"
    /\ i >= req_len
    /\ \/ cls = 7 /\ cls' = 6 /\ ppc' = "load"
       \/ cls = 6 /\ cls' = 5 /\ ppc' = "load"
       \/ cls = 5 /\ cls' = 7 /\ ppc' = "send"
    /\ sent' = 0
    /\ UNCHANGED <<allocVars, recvVars, queueVars, i, req_len, cur, outbox>>

\* Slip: request_6000 is not served.
EndClassTwo ==
    /\ ppc = "visit"
    /\ i >= req_len
    /\ \/ cls = 7 /\ cls' = 5 /\ ppc' = "load"
       \/ cls = 5 /\ cls' = 7 /\ ppc' = "send"
    /\ sent' = 0
    /\ UNCHANGED <<allocVars, recvVars, queueVars, i, req_len, cur, outbox>>

\* Latency-sensitive requests first, then 5000, then 6000.
EndClass ==
    /\ ppc = "visit"
    /\ i >= req_len
    /\ \/ cls = 7 /\ cls' = 5 /\ ppc' = "load"
       \/ cls = 5 /\ cls' = 6 /\ ppc' = "load"
       \/ cls = 6 /\ cls' = 7 /\ ppc' = "send"
    /\ sent' = 0
    /\ UNCHANGED <<allocVars, recvVars, queueVars, i, req_len, cur, outbox>>

-----------------------------------------------------------------------------
(* process_demands: the replies of the slot.                               *)

SendReply ==
    /\ ppc = "send"
    /\ sent < Len(reply)
    /\ outbox' = [outbox EXCEPT ![reply[sent + 1].src] = Append(@, reply[sent + 1])]
    /\ sent' = sent + 1
    /\ UNCHANGED <<allocVars, recvVars, queueVars, ppc, cls, i, req_len, cur>>

EndSlot ==
    /\ ppc = "send"
    /\ sent = Len(reply)
    /\ ppc' = "top"
    /\ UNCHANGED <<allocVars, recvVars, queueVars,
                   cls, i, req_len, cur, sent, outbox>>

Serve ==
    \/ NewSlot \/ CheckQueues \/ Wait
    \/ LoadClass \/ Visit \/ PassOver \/ FindPath \/ GiveUp \/ Remove \/ EndClass
    \/ SendReply \/ EndSlot

Next ==
    \/ \E h \in Client : Receive(h)
    \/ Serve
    \/ SpuriousWake

Spec == Init /\ [][Next]_vars

\* Threads that can run eventually run; nothing makes a spurious wakeup happen.
FairSpec == Spec /\ WF_vars(Serve) /\ \A h \in Client : WF_vars(Receive(h))

-----------------------------------------------------------------------------
TypeOK ==
    /\ AllocTypeOK
    /\ inbox \in [Client -> Seq(Entry)]
    /\ gpc \in [Client -> {"read", "lock", "port", "signal"}]
    /\ demand \in [Client -> Entry]
    /\ request \in [Class -> [Slot -> Entry]]
    /\ len \in [Class -> Slot]
    /\ lock \in [Class -> Client \cup {0}]
    /\ ppc \in {"top", "check", "wait", "asleep", "load", "visit", "find",
                "remove", "send"}
    /\ cls \in Class
    /\ i \in Slot /\ req_len \in Slot
    /\ cur \in Entry
    /\ sent \in Nat
    /\ outbox \in [Client -> Seq(Grant)]

\* The store in progress on class c, if there is one.
Storing(h, c) == gpc[h] = "port" /\ ClassOf(demand[h].port) = c

\* Past len an array is empty, except for the slot a store is writing: the
\* loop of process_demands, which runs past len after a removal, never serves
\* a request twice (adjust_req_arr copies slot len over the last request).
StaleSlotsEmpty ==
    \A c \in Class, s \in Slot :
        s >= len[c] =>
            \/ request[c][s] = Empty
            \/ \E h \in Client : s = len[c] /\ Storing(h, c)

\* What find_path works on is the demand it was called for: neither a store
\* nor a removal moves another request into its slot meanwhile.
FindsItsRequest ==
    ppc \in {"find", "remove"} =>
        LET d == request[cls][i] IN
        /\ d.src = cur.src /\ d.dest = cur.dest
        /\ cur.port \in {d.port, 0}
        /\ (ppc = "find") <=> (d.flow > 0)

\* While the slot has no reply, every request passed over was already served:
\* no slot goes by without a chunk for somebody if a request was there.
SlotServesFirst ==
    ppc = "visit" /\ reply = << >> =>
        \A s \in 0..(i - 1) : request[cls][s].flow = 0

\* Replies of a slot come in the priority of their classes; port 0 is a port
\* that was read before the store had written it.
Rank(port) == CASE ClassOf(port) = 7 -> 1 [] ClassOf(port) = 5 -> 2 [] OTHER -> 3
PriorityOrder ==
    \A m, n \in DOMAIN reply :
        m < n /\ reply[m].port # 0 /\ reply[n].port # 0
            => Rank(reply[m].port) <= Rank(reply[n].port)

\* The requests that process_demands would serve if it were running.
Backlog == \E c \in Class : \E s \in 0..(len[c] - 1) : request[c][s].flow > 0

\* Nothing is left to send, to read or to serve.
Drained ==
    /\ ~ Backlog
    /\ \A h \in Client : inbox[h] = << >> /\ gpc[h] # "lock" /\ gpc[h] # "port"

\* Once process_demands is past its check for work it serves all there is and
\* all that comes, whichever threads interleave with it, before it can sleep.
AwakeDrains == Backlog /\ ppc \notin {"wait", "asleep"} ~> ~ Backlog

-----------------------------------------------------------------------------
(* What the documentation promises and the code does not keep.             *)

\* README.txt line 31: "This process continues till all requests are served."
AllServed == <>[]Drained

\* README.txt line 15: requests are processed in increasing order, so that one
\* passed over with flow left is one that the slot has no room for.
PassedOverOnlyIfFull ==
    ppc = "visit" =>
        \A s \in 0..(i - 1) :
            s < len[cls] /\ request[cls][s].flow > 0
                => Refused(request[cls][s].src, request[cls][s].dest)
=============================================================================
