---------------------------- MODULE Connections ----------------------------
(***************************************************************************)
(* The TCP connections between hosts and arbiter: a host connects, is      *)
(* killed and started again; accept_connections keeps the last connection  *)
(* of every host in hostsockfd; the host's receive thread, get_demands,    *)
(* reads from it and process_demands writes to it.                         *)
(*                                                                         *)
(* A connection is <<h, n>>, the n-th of host h; a demand is <<c, m>>, the *)
(* m-th sent on connection c.  What process_demands does between a demand  *)
(* and its reply is the Arbiter module's: here one reply answers a demand. *)
(***************************************************************************)
EXTENDS Naturals, Sequences, FiniteSets, Functions

CONSTANTS
    Client,         \* the hosts
    MaxStarts,      \* how often a host is started
    MaxDemands,     \* the demands it sends each time
    Queue,          \* the length given to listen (18)
    Wrap            \* the modulus of accept_connections' counter (16)

\* There are sixteen hosts.
ASSUME ConnectionsAssumption ==
    /\ IsFiniteSet(Client)
    /\ {MaxStarts, MaxDemands, Queue} \subseteq Nat
    /\ Wrap \in Nat \ {0}

Conn   == Client \X (1..MaxStarts)
Demand == Conn \X (1..MaxDemands)

VARIABLES
    starts,     \* per host: how often it was started
    running,    \* the hosts whose process runs, on their last connection
    written,    \* per connection: the demands written to it so far
    up,         \* per connection: demands not yet read by the arbiter
    down,       \* per connection: replies not yet read by the host
    reset,      \* connections that the host's end has reset
    backlog,    \* connections not yet accepted
    count,      \* the counter of accept_connections
    hostsockfd, \* per host: its last accepted connection, 0 if none
    reading,    \* per host: the connection its receive thread reads, or 0
    stored,     \* demands that wait for their reply
    got,        \* replies read by hosts: [demand, by] records
    arbiter     \* "running", "interrupted" or "killed"

hostVars == <<starts, running, written, got>>
tcpVars  == <<up, down, reset>>
arbVars  == <<backlog, count, hostsockfd, reading, stored, arbiter>>
vars == <<hostVars, tcpVars, arbVars>>

Last(h)  == <<h, starts[h]>>
Open(c)  == c[1] \in running /\ c = Last(c[1])

Init ==
    /\ starts = [h \in Client |-> 0] /\ running = {} /\ got = {}
    /\ written = [c \in Conn |-> 0]
    /\ up = [c \in Conn |-> << >>] /\ down = [c \in Conn |-> << >>]
    /\ reset = {}
    /\ backlog = << >> /\ count = 0
    /\ hostsockfd = [h \in Client |-> 0] /\ reading = [h \in Client |-> 0]
    /\ stored = {} /\ arbiter = "running"

-----------------------------------------------------------------------------
(* The host.                                                               *)

\* The socket of create_server_socket: listen(fd, Queue) lets one more than
\* Queue connections wait for accept; until there is room, connect blocks.
Listening == arbiter = "running" /\ Len(backlog) <= Queue

Connect(h) ==
    /\ h \notin running /\ starts[h] < MaxStarts
    /\ Listening
    /\ starts' = [starts EXCEPT ![h] = @ + 1]
    /\ running' = running \cup {h}
    /\ backlog' = Append(backlog, <<h, starts[h] + 1>>)
    /\ UNCHANGED <<written, got, tcpVars, count, hostsockfd, reading, stored, arbiter>>

SendDemand(h) ==
    LET c == Last(h) IN
    /\ h \in running /\ arbiter = "running"
    /\ written[c] < MaxDemands
    /\ written' = [written EXCEPT ![c] = @ + 1]
    /\ up' = [up EXCEPT ![c] = Append(@, <<c, written[c] + 1>>)]
    /\ UNCHANGED <<starts, running, got, down, reset, arbVars>>

ReadReply(h) ==
    LET c == Last(h) IN
    /\ h \in running /\ down[c] # << >>
    /\ got' = got \cup {[demand |-> Head(down[c]), by |-> c]}
    /\ down' = [down EXCEPT ![c] = Tail(@)]
    /\ UNCHANGED <<starts, running, written, up, reset, arbVars>>

\* Slip: the connection is aborted whenever the process ends.
KillAbort(h) ==
    /\ h \in running
    /\ running' = running \ {h}
    /\ reset' = reset \cup {Last(h)}
    /\ UNCHANGED <<starts, written, got, up, down, arbVars>>

\* The process ends at any time; TCP resets a connection with unread data.
Kill(h) ==
    /\ h \in running
    /\ running' = running \ {h}
    /\ reset' = IF down[Last(h)] # << >> THEN reset \cup {Last(h)} ELSE reset
    /\ UNCHANGED <<starts, written, got, up, down, arbVars>>

\* recieve_demands reads the end of its connection, or an error: main returns.
StopHost(h) ==
    /\ h \in running /\ arbiter # "running"
    /\ down[Last(h)] = << >>
    /\ running' = running \ {h}
    /\ UNCHANGED <<starts, written, got, tcpVars, arbVars>>

-----------------------------------------------------------------------------
(* The arbiter.                                                            *)

\* Slip: the counter is not wrapped, so the loop ends.
AcceptSome ==
    /\ arbiter = "running" /\ backlog # << >>
    /\ count <= Wrap
    /\ hostsockfd' = [hostsockfd EXCEPT ![Head(backlog)[1]] = Head(backlog)[2]]
    /\ backlog' = Tail(backlog)
    /\ count' = count + 1
    /\ UNCHANGED <<hostVars, tcpVars, reading, stored, arbiter>>

\* Slip: the youngest connection first.
AcceptYoungest ==
    LET c == backlog[Len(backlog)] IN
    /\ arbiter = "running" /\ backlog # << >>
    /\ count <= Wrap
    /\ hostsockfd' = [hostsockfd EXCEPT ![c[1]] = c[2]]
    /\ backlog' = SubSeq(backlog, 1, Len(backlog) - 1)
    /\ count' = (count + 1) % Wrap
    /\ UNCHANGED <<hostVars, tcpVars, reading, stored, arbiter>>

\* A second connection of a host replaces the first, which is not closed.
Accept ==
    /\ arbiter = "running" /\ backlog # << >>
    /\ count <= Wrap
    /\ hostsockfd' = [hostsockfd EXCEPT ![Head(backlog)[1]] = Head(backlog)[2]]
    /\ backlog' = Tail(backlog)
    /\ count' = (count + 1) % Wrap
    /\ UNCHANGED <<hostVars, tcpVars, reading, stored, arbiter>>

\* Slip: the receive thread looks its descriptor up once.
CallReadOnce(h) ==
    /\ arbiter = "running" /\ reading[h] = 0
    /\ hostsockfd[h] # 0
    /\ reading' = [reading EXCEPT ![h] = 1]
    /\ UNCHANGED <<hostVars, tcpVars, backlog, count, hostsockfd, stored, arbiter>>

\* The receive thread enters read with the descriptor of the moment.
CallRead(h) ==
    /\ arbiter = "running" /\ reading[h] = 0
    /\ hostsockfd[h] # 0
    /\ reading' = [reading EXCEPT ![h] = hostsockfd[h]]
    /\ UNCHANGED <<hostVars, tcpVars, backlog, count, hostsockfd, stored, arbiter>>

\* Data that came before the end of a connection is still read.
ReadDemand(h) ==
    LET c == <<h, reading[h]>> IN
    /\ arbiter = "running" /\ reading[h] # 0
    /\ up[c] # << >>
    /\ stored' = stored \cup {Head(up[c])}
    /\ up' = [up EXCEPT ![c] = Tail(@)]
    /\ reading' = [reading EXCEPT ![h] = 0]
    /\ UNCHANGED <<hostVars, down, reset, backlog, count, hostsockfd, arbiter>>

\* read returns 0 or -1: the thread goes round its loop.
ReadEnd(h) ==
    LET c == <<h, reading[h]>> IN
    /\ arbiter = "running" /\ reading[h] # 0
    /\ up[c] = << >> /\ ~ Open(c)
    /\ reading' = [reading EXCEPT ![h] = 0]
    /\ UNCHANGED <<hostVars, tcpVars, backlog, count, hostsockfd, stored, arbiter>>

\* process_demands writes a reply to the host's connection of the moment.  On
\* a connection whose host is gone the reply is lost and answered by a reset,
\* sooner or later; once it is reset, write raises SIGPIPE, which nobody handles.
Reply(d) ==
    LET h == d[1][1]
        c == <<h, hostsockfd[h]>>
    IN
    /\ arbiter = "running" /\ d \in stored
    /\ stored' = stored \ {d}
    /\ \/ /\ Open(c)
          /\ down' = [down EXCEPT ![c] = Append(@, d)]
          /\ UNCHANGED <<reset, arbiter>>
       \/ /\ ~ Open(c) /\ c \notin reset
          /\ \/ reset' = reset \cup {c}
             \/ UNCHANGED reset
          /\ UNCHANGED <<down, arbiter>>
       \/ /\ c \in reset
          /\ arbiter' = "killed"
          /\ UNCHANGED <<down, reset>>
    /\ UNCHANGED <<hostVars, up, backlog, count, hostsockfd, reading>>

\* signal_handler: Control-C ends the process, whatever waits in it.
Interrupt ==
    /\ arbiter = "running"
    /\ arbiter' = "interrupted"
    /\ UNCHANGED <<hostVars, tcpVars, backlog, count, hostsockfd, reading, stored>>

-----------------------------------------------------------------------------
GetDemands(h) == CallRead(h) \/ ReadDemand(h) \/ ReadEnd(h)

Next ==
    \/ \E h \in Client : Connect(h) \/ SendDemand(h) \/ ReadReply(h) \/ Kill(h)
                         \/ StopHost(h) \/ GetDemands(h)
    \/ Accept
    \/ \E d \in stored : Reply(d)
    \/ Interrupt

Spec == Init /\ [][Next]_vars

\* The arbiter's threads run; hosts are started and killed at will.
FairSpec ==
    Spec /\ WF_vars(Accept) /\ \A h \in Client : WF_vars(GetDemands(h))

-----------------------------------------------------------------------------
\* The type of the state; the counter never reaches the bound of its loop.
ConnTypeOK ==
    /\ starts \in [Client -> 0..MaxStarts] /\ running \subseteq Client
    /\ written \in [Conn -> 0..MaxDemands]
    /\ up \in [Conn -> Seq(Demand)] /\ down \in [Conn -> Seq(Demand)]
    /\ reset \subseteq Conn
    /\ backlog \in Seq(Conn) /\ Len(backlog) <= Queue + 1 /\ count \in 0..(Wrap - 1)
    /\ hostsockfd \in [Client -> 0..MaxStarts]
    /\ reading \in [Client -> 0..MaxStarts]
    /\ stored \subseteq Demand
    /\ got \subseteq [demand : Demand, by : Conn]
    /\ arbiter \in {"running", "interrupted", "killed"}

\* A host never gets a reply to a demand that only its next process will send,
\* and a process that was replaced gets no reply: hostsockfd moves forward.
RepliesMoveForward ==
    \A h \in Client :
        /\ \A n \in 1..Len(backlog) :
             backlog[n][1] = h => backlog[n][2] > hostsockfd[h]
        /\ \A d \in stored : d[1][1] = h => d[1][2] <= hostsockfd[h]
        /\ \A g \in got : g.by[1] = h => g.demand[1][2] <= g.by[2]

\* The demands of h whose replies nobody will read: written when its process
\* was gone, or not yet read when it went.
LostReplies(h) ==
    {d \in Demand :
        /\ d[1][1] = h /\ d[2] <= written[d[1]]
        /\ d \notin stored \cup Range(up[d[1]])
        /\ \A g \in got : g.demand # d
        /\ h \in running => d \notin Range(down[Last(h)])}

\* SIGPIPE ends the arbiter only if two replies to one host were lost: that one
\* process dies with one reply under way harms nobody else.
OneLossSurvived ==
    arbiter = "killed" => \E h \in Client : Cardinality(LostReplies(h)) >= 2

\* Every connection is accepted, however many came before it.
EveryAccepted ==
    \A c \in Conn :
        (\E n \in DOMAIN backlog : backlog[n] = c)
            ~> (hostsockfd[c[1]] >= c[2] \/ arbiter # "running")

\* A demand is read unless its host has connected again: a receive thread that
\* sits on an ended connection finds its way to the new one.
DemandsRead ==
    \A c \in Conn :
        up[c] # << >>
            ~> (up[c] = << >> \/ starts[c[1]] > c[2] \/ arbiter # "running")
=============================================================================
