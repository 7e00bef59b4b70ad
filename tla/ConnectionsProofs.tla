------------------------- MODULE ConnectionsProofs -------------------------
(***************************************************************************)
(* Connections for any number of hosts that are killed and started any     *)
(* number of times: replies never go back to an earlier process, and only  *)
(* a second lost reply can end the arbiter.                                *)
(***************************************************************************)
EXTENDS Connections, FiniteSetTheorems, SequenceTheorems, TLAPS

\* The demands of a connection arrive in the order they were written.
UpInv ==
    \A c \in Conn :
        /\ Len(up[c]) <= written[c]
        /\ \A n \in 1..Len(up[c]) : up[c][n] = <<c, written[c] - Len(up[c]) + n>>

WasRead(d) == d[2] <= written[d[1]] - Len(up[d[1]])

\* A host's connections are accepted in the order it was started, and nothing
\* is read from or written to one that is younger than hostsockfd.
ForwardInv ==
    /\ \A h \in running : starts[h] >= 1
    /\ \A h \in Client : hostsockfd[h] <= starts[h] /\ reading[h] <= hostsockfd[h]
    /\ \A n \in 1..Len(backlog) :
         /\ backlog[n][2] <= starts[backlog[n][1]]
         /\ backlog[n][2] > hostsockfd[backlog[n][1]]
    /\ \A m, n \in 1..Len(backlog) :
         m < n /\ backlog[m][1] = backlog[n][1] => backlog[m][2] < backlog[n][2]
    /\ \A d \in stored : d[1][2] <= hostsockfd[d[1][1]]
    /\ \A c \in Conn : \A n \in 1..Len(down[c]) :
         /\ down[c][n][1][1] = c[1]
         /\ down[c][n][1][2] <= c[2]
         /\ c[2] <= starts[c[1]]
    /\ \A g \in got : g.demand[1][2] <= g.by[2]

\* A demand that was read is stored, or its one reply is under way, or was read,
\* or is lost.
Waits(d, c) == \E n \in 1..Len(down[c]) : down[c][n] = d
UnderWay(d) == \E c \in Conn : Waits(d, c)
Answered(d) == \E g \in got : g.demand = d

ReplyInv ==
    /\ \A d \in Demand :
         /\ d \in stored \/ UnderWay(d) \/ Answered(d) => WasRead(d)
         /\ ~ (d \in stored /\ (UnderWay(d) \/ Answered(d)))
         /\ ~ (UnderWay(d) /\ Answered(d))
    /\ \A b, c \in Conn : \A m \in 1..Len(down[b]), n \in 1..Len(down[c]) :
         down[b][m] = down[c][n] => b = c /\ m = n

Lost(d) ==
    /\ WasRead(d) /\ d \notin stored /\ ~ Answered(d)
    /\ d[1][1] \in running => ~ Waits(d, Last(d[1][1]))

\* Whatever resets a connection loses a reply to its host.
LossInv ==
    /\ \A c \in reset : \E d \in Demand : d[1][1] = c[1] /\ Lost(d)
    /\ OneLossSurvived

ConnInv == ConnTypeOK /\ UpInv /\ ForwardInv /\ ReplyInv /\ LossInv

-----------------------------------------------------------------------------
(* Connections and demands as pairs, and the queues' types.                *)

LEMMA Pairs ==
    /\ \A c \in Conn : c[1] \in Client /\ c[2] \in 1..MaxStarts /\ c = <<c[1], c[2]>>
    /\ \A h \in Client, n \in 1..MaxStarts : <<h, n>> \in Conn
    /\ \A d \in Demand : d[1] \in Conn /\ d[2] \in 1..MaxDemands /\ d = <<d[1], d[2]>>
    /\ \A c \in Conn, m \in 1..MaxDemands : <<c, m>> \in Demand
BY DEF Conn, Demand

LEMMA Constants ==
    MaxStarts \in Nat /\ MaxDemands \in Nat /\ Queue \in Nat /\ Wrap \in Nat /\ Wrap > 0
BY ConnectionsAssumption

LEMMA Queues ==
    ASSUME ConnTypeOK
    PROVE  /\ \A c \in Conn :
                /\ up[c] \in Seq(Demand) /\ Len(up[c]) \in Nat
                /\ \A n \in 1..Len(up[c]) : up[c][n] \in Demand
                /\ down[c] \in Seq(Demand) /\ Len(down[c]) \in Nat
                /\ \A n \in 1..Len(down[c]) : down[c][n] \in Demand
                /\ written[c] \in 0..MaxDemands
           /\ backlog \in Seq(Conn) /\ Len(backlog) \in Nat
           /\ \A n \in 1..Len(backlog) : backlog[n] \in Conn
           /\ \A h \in Client : starts[h] \in 0..MaxStarts
           /\ \A h \in Client : hostsockfd[h] \in 0..MaxStarts
           /\ \A h \in Client : reading[h] \in 0..MaxStarts
BY LenProperties DEF ConnTypeOK

\* What Tail and Append do to the elements of a queue.
LEMMA Shorter ==
    ASSUME NEW S, NEW s \in Seq(S), s # << >>
    PROVE  /\ Len(s) \in Nat /\ Len(s) > 0 /\ Head(s) = s[1] /\ Head(s) \in S
           /\ Tail(s) \in Seq(S) /\ Len(Tail(s)) = Len(s) - 1
           /\ \A n \in 1..Len(Tail(s)) : n + 1 \in 1..Len(s) /\ Tail(s)[n] = s[n + 1]
<1>1. Len(s) \in Nat /\ Len(s) > 0
  BY EmptySeq, LenProperties
<1>2. Head(s) = s[1]
  OBVIOUS
<1>. QED  BY <1>1, <1>2, HeadTailProperties

LEMMA Longer ==
    ASSUME NEW S, NEW s \in Seq(S), NEW e \in S
    PROVE  /\ Append(s, e) \in Seq(S) /\ Len(Append(s, e)) = Len(s) + 1
           /\ Len(s) \in Nat
           /\ \A n \in 1..Len(Append(s, e)) :
                Append(s, e)[n] = IF n <= Len(s) THEN s[n] ELSE e
<1>1. Len(s) \in Nat
  BY LenProperties
<1>. QED  BY <1>1, AppendProperties

\* The last connection of a host that was started.
LEMMA LastConn ==
    ASSUME ConnTypeOK, NEW h \in Client, starts[h] >= 1
    PROVE  Last(h) \in Conn /\ Last(h)[1] = h /\ Last(h)[2] = starts[h]
BY Pairs, Queues, Constants DEF Last

-----------------------------------------------------------------------------
(* Types.                                                                  *)

LEMMA TypeStep ==
    ASSUME ConnTypeOK, ForwardInv, Next
    PROVE  ConnTypeOK'
<1>. USE Constants
<1>1. ASSUME NEW h \in Client, Connect(h) PROVE ConnTypeOK'
  <2>1. starts[h] + 1 \in 1..MaxStarts /\ <<h, starts[h] + 1>> \in Conn
    BY <1>1, Queues, Pairs DEF Connect
  <2>2. backlog' \in Seq(Conn) /\ Len(backlog') <= Queue + 1
    BY <1>1, <2>1, Queues, Longer DEF Connect, Listening
  <2>. QED  BY <1>1, <2>1, <2>2 DEF Connect, ConnTypeOK, tcpVars
<1>2. ASSUME NEW h \in Client, SendDemand(h) PROVE ConnTypeOK'
  <2>1. Last(h) \in Conn
    BY <1>2, LastConn DEF SendDemand, ForwardInv
  <2>2. written[Last(h)] + 1 \in 1..MaxDemands
    BY <1>2, <2>1, Queues DEF SendDemand
  <2>3. up'[Last(h)] \in Seq(Demand) /\ up' \in [Conn -> Seq(Demand)]
    BY <1>2, <2>1, <2>2, Queues, Pairs, Longer DEF SendDemand, ConnTypeOK
  <2>. QED  BY <1>2, <2>1, <2>2, <2>3 DEF SendDemand, ConnTypeOK, arbVars
<1>3. ASSUME NEW h \in Client, ReadReply(h) PROVE ConnTypeOK'
  <2>1. Last(h) \in Conn
    BY <1>3, LastConn DEF ReadReply, ForwardInv
  <2>2. Head(down[Last(h)]) \in Demand /\ Tail(down[Last(h)]) \in Seq(Demand)
    BY <1>3, <2>1, Queues, Shorter DEF ReadReply
  <2>. QED  BY <1>3, <2>1, <2>2 DEF ReadReply, ConnTypeOK, arbVars
<1>4. ASSUME NEW h \in Client, Kill(h) PROVE ConnTypeOK'
  <2>1. Last(h) \in Conn
    BY <1>4, LastConn DEF Kill, ForwardInv
  <2>. QED  BY <1>4, <2>1 DEF Kill, ConnTypeOK, arbVars
<1>5. ASSUME NEW h \in Client, StopHost(h) PROVE ConnTypeOK'
  BY <1>5 DEF StopHost, ConnTypeOK, arbVars, tcpVars
<1>6. ASSUME NEW h \in Client, CallRead(h) PROVE ConnTypeOK'
  BY <1>6, Queues DEF CallRead, ConnTypeOK, hostVars, tcpVars
<1>7. ASSUME NEW h \in Client, ReadDemand(h) PROVE ConnTypeOK'
  <2>1. <<h, reading[h]>> \in Conn
    BY <1>7, Queues, Pairs DEF ReadDemand
  <2>2. /\ Head(up[<<h, reading[h]>>]) \in Demand
        /\ Tail(up[<<h, reading[h]>>]) \in Seq(Demand)
    BY <1>7, <2>1, Queues, Shorter DEF ReadDemand
  <2>3. stored' \subseteq Demand /\ up' \in [Conn -> Seq(Demand)]
    BY <1>7, <2>1, <2>2 DEF ReadDemand, ConnTypeOK
  <2>4. reading' \in [Client -> 0..MaxStarts]
    BY <1>7 DEF ReadDemand, ConnTypeOK
  <2>5. UNCHANGED <<starts, running, written, down, reset, backlog, count, hostsockfd, got,
                   arbiter>>
    BY <1>7 DEF ReadDemand, hostVars
  <2>. QED  BY <2>3, <2>4, <2>5 DEF ConnTypeOK
<1>8. ASSUME NEW h \in Client, ReadEnd(h) PROVE ConnTypeOK'
  BY <1>8 DEF ReadEnd, ConnTypeOK, hostVars, tcpVars
<1>9. CASE Accept
  <2>1. /\ Head(backlog) \in Conn /\ Tail(backlog) \in Seq(Conn)
        /\ Len(Tail(backlog)) <= Queue + 1
    BY <1>9, Queues, Shorter DEF Accept, ConnTypeOK
  <2>2. Head(backlog)[1] \in Client /\ Head(backlog)[2] \in 0..MaxStarts
    BY <2>1, Pairs
  <2>3. (count + 1) % Wrap \in 0..(Wrap - 1)
    BY DEF ConnTypeOK
  <2>. QED  BY <1>9, <2>1, <2>2, <2>3 DEF Accept, ConnTypeOK, hostVars, tcpVars
<1>10. ASSUME NEW d \in stored, Reply(d) PROVE ConnTypeOK'
  <2>1. d \in Demand /\ d[1][1] \in Client
    BY Pairs DEF ConnTypeOK
  <2>2. <<d[1][1], hostsockfd[d[1][1]]>> \in Conn
    BY <2>1, Pairs, Queues DEF ForwardInv
  <2>3. Append(down[<<d[1][1], hostsockfd[d[1][1]]>>], d) \in Seq(Demand)
    BY <2>1, <2>2, Queues, Longer
  <2>. QED  BY <1>10, <2>1, <2>2, <2>3 DEF Reply, ConnTypeOK, hostVars
<1>11. CASE Interrupt
  BY <1>11 DEF Interrupt, ConnTypeOK, hostVars, tcpVars
<1>. QED
  BY <1>1, <1>2, <1>3, <1>4, <1>5, <1>6, <1>7, <1>8, <1>9, <1>10, <1>11
  DEF Next, GetDemands

-----------------------------------------------------------------------------
(* Demands in the order they were written.                                 *)

LEMMA UpStep ==
    ASSUME ConnTypeOK, ForwardInv, UpInv, Next
    PROVE  UpInv'
<1>. USE Constants
<1>1. ASSUME NEW h \in Client, SendDemand(h) PROVE UpInv'
  <2>. DEFINE c == Last(h)  e == <<c, written[c] + 1>>
  <2>1. c \in Conn
    BY <1>1, LastConn DEF SendDemand, ForwardInv
  <2>2. written[c] \in Nat /\ written[c] + 1 \in 1..MaxDemands /\ e \in Demand
    <3>1. written[c] \in 0..MaxDemands /\ written[c] < MaxDemands
      BY <1>1, <2>1, Queues DEF SendDemand
    <3>2. written[c] + 1 \in 1..MaxDemands
      <4>. HIDE DEF c
      <4>. QED  BY <3>1
    <3>. QED  BY <2>1, <3>1, <3>2, Pairs
  <2>3. /\ Len(Append(up[c], e)) = Len(up[c]) + 1 /\ Len(up[c]) \in Nat
        /\ \A n \in 1..Len(Append(up[c], e)) :
             Append(up[c], e)[n] = IF n <= Len(up[c]) THEN up[c][n] ELSE e
    BY <2>1, <2>2, Queues, Longer
  <2>4. ASSUME NEW b \in Conn, b # c PROVE up'[b] = up[b] /\ written'[b] = written[b]
    BY <1>1, <2>1, <2>4 DEF SendDemand, ConnTypeOK
  <2>5. up'[c] = Append(up[c], e) /\ written'[c] = written[c] + 1
    BY <1>1, <2>1 DEF SendDemand, ConnTypeOK
  <2>6. Len(up'[c]) <= written'[c]
    <3>1. Len(up[c]) <= written[c]
      BY <2>1 DEF UpInv
    <3>. HIDE DEF c, e
    <3>. QED  BY <2>2, <2>3, <2>5, <3>1
  <2>7. ASSUME NEW n \in 1..Len(up'[c])
        PROVE  up'[c][n] = <<c, written'[c] - Len(up'[c]) + n>>
    <3>. HIDE DEF c
    <3>1. CASE n <= Len(up[c])
      <4>1. up[c][n] = <<c, written[c] - Len(up[c]) + n>>
        BY <2>1, <2>3, <2>7, <3>1 DEF UpInv
      <4>2. written'[c] - Len(up'[c]) = written[c] - Len(up[c])
        <5>. HIDE DEF e
        <5>. QED  BY <2>2, <2>3, <2>5
      <4>. QED  BY <2>3, <2>5, <2>7, <3>1, <4>1, <4>2
    <3>2. CASE n > Len(up[c])
      <4>1. n = Len(up[c]) + 1 /\ up'[c][n] = e
        BY <2>3, <2>5, <2>7, <3>2
      <4>. QED  BY <2>2, <2>3, <2>5, <4>1
    <3>. QED  BY <2>3, <3>1, <3>2
  <2>. QED  BY <2>4, <2>6, <2>7 DEF UpInv
<1>2. ASSUME NEW h \in Client, ReadDemand(h) PROVE UpInv'
  <2>. DEFINE c == <<h, reading[h]>>
  <2>1. c \in Conn
    BY <1>2, Queues, Pairs DEF ReadDemand
  <2>2. /\ Len(up[c]) \in Nat /\ Len(up[c]) > 0
        /\ Len(Tail(up[c])) = Len(up[c]) - 1
        /\ \A n \in 1..Len(Tail(up[c])) :
             n + 1 \in 1..Len(up[c]) /\ Tail(up[c])[n] = up[c][n + 1]
    BY <1>2, <2>1, Queues, Shorter DEF ReadDemand
  <2>3. ASSUME NEW b \in Conn, b # c PROVE up'[b] = up[b]
    BY <1>2, <2>1, <2>3 DEF ReadDemand, ConnTypeOK
  <2>4. up'[c] = Tail(up[c]) /\ written' = written
    BY <1>2, <2>1 DEF ReadDemand, ConnTypeOK, hostVars
  <2>5. written[c] \in Nat /\ Len(up[c]) <= written[c]
    BY <2>1, Queues DEF UpInv
  <2>6. ASSUME NEW n \in 1..Len(up'[c])
        PROVE  up'[c][n] = <<c, written'[c] - Len(up'[c]) + n>>
    <3>. HIDE DEF c
    <3>1. up[c][n + 1] = <<c, written[c] - Len(up[c]) + (n + 1)>>
      BY <2>1, <2>2, <2>4, <2>6 DEF UpInv
    <3>2. written[c] - Len(up[c]) + (n + 1) = written'[c] - Len(up'[c]) + n
      <4>1. \A x, y, m \in Nat : x - y + (m + 1) = x - (y - 1) + m
        OBVIOUS
      <4>2. Len(up'[c]) = Len(up[c]) - 1 /\ written'[c] = written[c]
        BY <2>2, <2>4
      <4>3. n \in Nat
        BY <2>2, <4>2
      <4>4. written[c] - Len(up[c]) + (n + 1) = written[c] - (Len(up[c]) - 1) + n
        BY <2>2, <2>5, <4>1, <4>3, Zenon
      <4>. QED  BY <4>2, <4>4, Zenon
    <3>. QED  BY <2>2, <2>4, <2>6, <3>1, <3>2
  <2>7. Len(up'[c]) <= written'[c]
    <3>. HIDE DEF c
    <3>. QED  BY <2>2, <2>4, <2>5
  <2>. QED  BY <2>3, <2>4, <2>6, <2>7 DEF UpInv
<1>3. CASE UNCHANGED <<written, up>>
  BY <1>3 DEF UpInv
<1>. QED
  BY <1>1, <1>2, <1>3
  DEF Next, GetDemands, Connect, ReadReply, Kill, StopHost, CallRead, ReadEnd, Accept,
      Reply, Interrupt, hostVars, tcpVars

-----------------------------------------------------------------------------
(* Connections in the order of starts.                                     *)

LEMMA ForwardStep ==
    ASSUME ConnTypeOK, ForwardInv, UpInv, Next
    PROVE  ForwardInv'
<1>. USE Constants
<1>1. ASSUME NEW h \in Client, Connect(h) PROVE ForwardInv'
  <2>. DEFINE c == <<h, starts[h] + 1>>
  <2>1. c \in Conn /\ starts[h] \in Nat
    BY <1>1, Queues, Pairs DEF Connect
  <2>2. \A g \in Client : starts'[g] = IF g = h THEN starts[h] + 1 ELSE starts[g]
    BY <1>1 DEF Connect, ConnTypeOK
  <2>3. ASSUME NEW g \in Client
        PROVE  starts'[g] >= starts[g] /\ starts[g] \in Nat /\ starts'[g] \in Nat
    <3>1. starts[g] \in 0..MaxStarts /\ (starts'[g] = starts[g] + 1 \/ starts'[g] = starts[g])
      BY <2>2, Queues
    <3>. QED  BY <3>1
  <2>4. \A g \in running' : starts'[g] >= 1
    BY <1>1, <2>1, <2>2 DEF Connect, ForwardInv, ConnTypeOK
  <2>5. \A g \in Client : hostsockfd'[g] <= starts'[g] /\ reading'[g] <= hostsockfd'[g]
    BY <1>1, <2>3, Queues DEF Connect, ForwardInv
  <2>6. /\ Len(backlog') = Len(backlog) + 1 /\ Len(backlog) \in Nat
        /\ \A n \in 1..Len(backlog') :
             backlog'[n] = IF n <= Len(backlog) THEN backlog[n] ELSE c
    BY <1>1, <2>1, Queues, Longer DEF Connect
  <2>7. \A n \in 1..Len(backlog) : backlog[n] \in Conn
    BY Queues
  <2>8. ASSUME NEW n \in 1..Len(backlog')
        PROVE  /\ backlog'[n][2] <= starts'[backlog'[n][1]]
               /\ backlog'[n][2] > hostsockfd'[backlog'[n][1]]
    <3>1. CASE n <= Len(backlog)
      <4>1. n \in 1..Len(backlog) /\ backlog'[n] = backlog[n]
        BY <2>6, <2>8, <3>1
      <4>2. backlog[n][1] \in Client /\ backlog[n][2] \in Nat
        BY <4>1, <2>7, Pairs
      <4>3. /\ backlog[n][2] <= starts[backlog[n][1]]
            /\ backlog[n][2] > hostsockfd[backlog[n][1]]
        BY <4>1 DEF ForwardInv
      <4>4. hostsockfd' = hostsockfd
        BY <1>1 DEF Connect
      <4>5. starts'[backlog[n][1]] >= starts[backlog[n][1]] /\ starts[backlog[n][1]] \in Nat
            /\ starts'[backlog[n][1]] \in Nat
        BY <2>3, <4>2
      <4>. QED  BY <4>1, <4>2, <4>3, <4>4, <4>5
    <3>2. CASE n > Len(backlog)
      <4>1. backlog'[n] = c
        BY <2>6, <2>8, <3>2
      <4>2. hostsockfd[h] <= starts[h] /\ hostsockfd[h] \in Nat /\ hostsockfd' = hostsockfd
        BY <1>1, Queues DEF Connect, ForwardInv
      <4>. QED  BY <2>1, <2>2, <4>1, <4>2
    <3>. QED  BY <2>6, <3>1, <3>2
  <2>9. ASSUME NEW m \in 1..Len(backlog'), NEW n \in 1..Len(backlog'), m < n,
               backlog'[m][1] = backlog'[n][1]
        PROVE  backlog'[m][2] < backlog'[n][2]
    <3>1. m \in 1..Len(backlog) /\ backlog'[m] = backlog[m]
      BY <2>6, <2>9
    <3>2. CASE n <= Len(backlog)
      <4>1. n \in 1..Len(backlog) /\ backlog'[n] = backlog[n]
        BY <2>6, <2>9, <3>2
      <4>. QED  BY <2>9, <3>1, <4>1 DEF ForwardInv
    <3>3. CASE n > Len(backlog)
      <4>1. backlog'[n] = c
        BY <2>6, <2>9, <3>3
      <4>2. backlog[m][1] = h
        BY <2>9, <3>1, <4>1
      <4>3. backlog[m][2] <= starts[h] /\ backlog[m][2] \in Nat
        BY <3>1, <4>2, <2>7, Pairs DEF ForwardInv
      <4>. QED  BY <2>1, <3>1, <4>1, <4>3
    <3>. QED  BY <2>6, <3>2, <3>3
  <2>10. ASSUME NEW b \in Conn, NEW n \in 1..Len(down'[b])
         PROVE  /\ down'[b][n][1][1] = b[1] /\ down'[b][n][1][2] <= b[2]
                /\ b[2] <= starts'[b[1]]
    <3>1. down' = down
      BY <1>1 DEF Connect, tcpVars
    <3>2. b[2] <= starts[b[1]] /\ down[b][n][1][1] = b[1] /\ down[b][n][1][2] <= b[2]
      BY <2>10, <3>1 DEF ForwardInv
    <3>3. b[1] \in Client /\ b[2] \in Nat
      BY Pairs
    <3>4. starts'[b[1]] >= starts[b[1]] /\ starts[b[1]] \in Nat /\ starts'[b[1]] \in Nat
      BY <2>3, <3>3
    <3>. QED  BY <3>1, <3>2, <3>3, <3>4
  <2>11. UNCHANGED <<stored, hostsockfd, got>>
    BY <1>1 DEF Connect
  <2>. QED  BY <2>4, <2>5, <2>8, <2>9, <2>10, <2>11 DEF ForwardInv
<1>2. ASSUME NEW h \in Client, ReadReply(h) PROVE ForwardInv'
  <2>. DEFINE c == Last(h)
  <2>1. c \in Conn
    BY <1>2, LastConn DEF ReadReply, ForwardInv
  <2>2. /\ Len(down[c]) \in Nat /\ Len(down[c]) > 0 /\ Head(down[c]) = down[c][1]
        /\ \A n \in 1..Len(Tail(down[c])) :
             n + 1 \in 1..Len(down[c]) /\ Tail(down[c])[n] = down[c][n + 1]
    BY <1>2, <2>1, Queues, Shorter DEF ReadReply
  <2>3. \A b \in Conn : down'[b] = IF b = c THEN Tail(down[c]) ELSE down[b]
    BY <1>2, <2>1 DEF ReadReply, ConnTypeOK
  <2>4. ASSUME NEW b \in Conn, NEW n \in 1..Len(down'[b])
        PROVE  /\ down'[b][n][1][1] = b[1] /\ down'[b][n][1][2] <= b[2]
               /\ b[2] <= starts[b[1]]
    <3>1. CASE b = c
      <4>1. n + 1 \in 1..Len(down[c]) /\ down'[b][n] = down[c][n + 1]
        BY <2>2, <2>3, <2>4, <3>1
      <4>. QED  BY <2>1, <3>1, <4>1 DEF ForwardInv
    <3>2. CASE b # c
      BY <2>3, <2>4, <3>2 DEF ForwardInv
    <3>. QED  BY <3>1, <3>2
  <2>5. \A g \in got' : g.demand[1][2] <= g.by[2]
    <3>1. 1 \in 1..Len(down[c])
      BY <2>2
    <3>2. down[c][1][1][2] <= c[2]
      BY <2>1, <3>1 DEF ForwardInv
    <3>3. got' = got \cup {[demand |-> down[c][1], by |-> c]}
      BY <1>2, <2>2 DEF ReadReply
    <3>. QED  BY <3>2, <3>3 DEF ForwardInv
  <2>6. UNCHANGED <<starts, running, backlog, hostsockfd, reading, stored>>
    BY <1>2 DEF ReadReply, arbVars
  <2>. QED  BY <2>4, <2>5, <2>6 DEF ForwardInv
<1>3. ASSUME NEW h \in Client, Kill(h) \/ StopHost(h) PROVE ForwardInv'
  BY <1>3 DEF Kill, StopHost, ForwardInv, arbVars, tcpVars
<1>4. ASSUME NEW h \in Client, CallRead(h) PROVE ForwardInv'
  <2>1. \A g \in Client : reading'[g] <= hostsockfd[g]
    BY <1>4, Queues DEF CallRead, ForwardInv, ConnTypeOK
  <2>. QED  BY <1>4, <2>1 DEF CallRead, ForwardInv, hostVars, tcpVars
<1>5. ASSUME NEW h \in Client, ReadDemand(h) PROVE ForwardInv'
  <2>. DEFINE c == <<h, reading[h]>>
  <2>1. c \in Conn
    BY <1>5, Queues, Pairs DEF ReadDemand
  <2>2. \A g \in Client : reading'[g] <= hostsockfd[g]
    BY <1>5, Queues DEF ReadDemand, ForwardInv, ConnTypeOK
  <2>3. /\ Len(up[c]) \in Nat /\ Len(up[c]) > 0 /\ Head(up[c]) = up[c][1]
    BY <1>5, <2>1, Queues, Shorter DEF ReadDemand
  <2>4. Head(up[c])[1] = c
    BY <2>1, <2>3, Queues DEF UpInv
  <2>5. reading[h] <= hostsockfd[h]
    BY DEF ForwardInv
  <2>6. \A d \in stored' : d[1][2] <= hostsockfd[d[1][1]]
    BY <1>5, <2>4, <2>5 DEF ReadDemand, ForwardInv
  <2>. QED  BY <1>5, <2>2, <2>6 DEF ReadDemand, ForwardInv, hostVars
<1>6. ASSUME NEW h \in Client, ReadEnd(h) PROVE ForwardInv'
  <2>1. \A g \in Client : reading'[g] <= hostsockfd[g]
    BY <1>6, Queues DEF ReadEnd, ForwardInv, ConnTypeOK
  <2>. QED  BY <1>6, <2>1 DEF ReadEnd, ForwardInv, hostVars, tcpVars
<1>7. CASE Accept
  <2>. DEFINE c == Head(backlog)
  <2>1. /\ Len(backlog) \in Nat /\ Len(backlog) > 0 /\ c = backlog[1]
        /\ \A n \in 1..Len(Tail(backlog)) :
             n + 1 \in 1..Len(backlog) /\ Tail(backlog)[n] = backlog[n + 1]
    BY <1>7, Queues, Shorter DEF Accept
  <2>2. /\ 1 \in 1..Len(backlog) /\ c \in Conn /\ c[1] \in Client /\ c[2] \in Nat
    BY <2>1, Queues, Pairs
  <2>3. c[2] <= starts[c[1]] /\ c[2] > hostsockfd[c[1]]
    BY <2>1, <2>2 DEF ForwardInv
  <2>4. \A g \in Client : hostsockfd'[g] = IF g = c[1] THEN c[2] ELSE hostsockfd[g]
    BY <1>7, <2>2 DEF Accept, ConnTypeOK
  <2>5. \A g \in Client : /\ hostsockfd'[g] \in Nat /\ hostsockfd[g] \in Nat
                          /\ reading[g] \in Nat /\ starts[g] \in Nat
                          /\ hostsockfd'[g] >= hostsockfd[g]
    BY <2>2, <2>3, <2>4, Queues
  <2>6. UNCHANGED <<starts, running, down, stored, reading, got>>
    BY <1>7 DEF Accept, hostVars, tcpVars
  <2>7. \A g \in Client : hostsockfd'[g] <= starts[g] /\ reading[g] <= hostsockfd'[g]
    BY <2>3, <2>4, <2>5 DEF ForwardInv
  <2>8. ASSUME NEW n \in 1..Len(backlog')
        PROVE  /\ backlog'[n][2] <= starts[backlog'[n][1]]
               /\ backlog'[n][2] > hostsockfd'[backlog'[n][1]]
    <3>1. /\ n + 1 \in 1..Len(backlog) /\ backlog'[n] = backlog[n + 1] /\ 1 < n + 1
      BY <1>7, <2>1, <2>8 DEF Accept
    <3>2. /\ backlog[n + 1][2] <= starts[backlog[n + 1][1]]
          /\ backlog[n + 1][2] > hostsockfd[backlog[n + 1][1]]
          /\ backlog[1][1] = backlog[n + 1][1] => backlog[1][2] < backlog[n + 1][2]
      BY <2>2, <3>1 DEF ForwardInv
    <3>3. backlog[n + 1][1] \in Client
      BY <3>1, Queues, Pairs
    <3>. QED  BY <2>1, <2>4, <3>1, <3>2, <3>3
  <2>9. ASSUME NEW m \in 1..Len(backlog'), NEW n \in 1..Len(backlog'), m < n,
               backlog'[m][1] = backlog'[n][1]
        PROVE  backlog'[m][2] < backlog'[n][2]
    <3>1. /\ n + 1 \in 1..Len(backlog) /\ backlog'[n] = backlog[n + 1]
          /\ m + 1 \in 1..Len(backlog) /\ backlog'[m] = backlog[m + 1]
          /\ m + 1 < n + 1
      BY <1>7, <2>1, <2>9 DEF Accept
    <3>. QED  BY <2>9, <3>1 DEF ForwardInv
  <2>10. ASSUME NEW d \in stored PROVE d[1][2] <= hostsockfd'[d[1][1]]
    <3>1. d[1][1] \in Client /\ d[1][2] \in Nat
      BY Pairs DEF ConnTypeOK
    <3>2. d[1][2] <= hostsockfd[d[1][1]]
      BY DEF ForwardInv
    <3>. QED  BY <2>5, <3>1, <3>2
  <2>. QED  BY <2>6, <2>7, <2>8, <2>9, <2>10 DEF ForwardInv
<1>8. ASSUME NEW d \in stored, Reply(d) PROVE ForwardInv'
  <2>. DEFINE h == d[1][1]  c == <<h, hostsockfd[h]>>
  <2>1. d \in Demand /\ h \in Client /\ d[1][2] \in 1..MaxStarts /\ hostsockfd[h] \in 0..MaxStarts
    BY Pairs, Queues DEF ConnTypeOK
  <2>2. d[1][2] <= hostsockfd[h] /\ hostsockfd[h] <= starts[h]
    BY <2>1 DEF ForwardInv
  <2>3. c \in Conn
    BY <2>1, <2>2, Pairs
  <2>4. UNCHANGED <<starts, running, got, backlog, hostsockfd, reading>> /\ stored' \subseteq stored
    BY <1>8 DEF Reply, hostVars
  <2>5. ASSUME NEW b \in Conn, NEW n \in 1..Len(down'[b])
        PROVE  /\ down'[b][n][1][1] = b[1] /\ down'[b][n][1][2] <= b[2]
               /\ b[2] <= starts[b[1]]
    <3>1. down' = down \/ down' = [down EXCEPT ![c] = Append(@, d)]
      BY <1>8 DEF Reply
    <3>2. CASE down'[b] = down[b]
      BY <2>5, <3>2 DEF ForwardInv
    <3>3. CASE b = c /\ down'[b] = Append(down[b], d)
      <4>1. Append(down[c], d)[n] = IF n <= Len(down[c]) THEN down[c][n] ELSE d
        BY <2>1, <2>3, <2>5, <3>3, Queues, Longer
      <4>2. CASE n <= Len(down[c])
        <5>1. n \in 1..Len(down[c])
          BY <2>5, <4>2, <2>3, <3>3, Queues
        <5>. QED  BY <2>3, <3>3, <4>1, <4>2, <5>1 DEF ForwardInv
      <4>3. CASE ~(n <= Len(down[c]))
        BY <2>2, <3>3, <4>1, <4>3
      <4>. QED  BY <4>2, <4>3
    <3>. QED  BY <3>1, <3>2, <3>3, <2>3 DEF ConnTypeOK
  <2>. QED  BY <2>4, <2>5 DEF ForwardInv
<1>9. CASE UNCHANGED <<starts, running, down, stored, backlog, hostsockfd, reading, got>>
  BY <1>9 DEF ForwardInv
<1>. QED
  BY <1>1, <1>2, <1>3, <1>4, <1>5, <1>6, <1>7, <1>8, <1>9
  DEF Next, GetDemands, SendDemand, Interrupt, arbVars, hostVars, tcpVars

-----------------------------------------------------------------------------
(* One reply to a demand, and lost replies.                                *)

\* What was read stays read.
LEMMA ReadStays ==
    ASSUME ConnTypeOK, ForwardInv, UpInv, Next, NEW d \in Demand, WasRead(d)
    PROVE  WasRead(d)'
<1>. USE Constants
<1>. DEFINE c == d[1]
<1>0. c \in Conn /\ d[2] \in Nat /\ written[c] \in Nat /\ Len(up[c]) \in Nat
  BY Pairs, Queues
<1>1. ASSUME NEW h \in Client, SendDemand(h) PROVE WasRead(d)'
  <2>. DEFINE b == Last(h)  e == <<b, written[b] + 1>>
  <2>1. b \in Conn
    BY <1>1, LastConn DEF SendDemand, ForwardInv
  <2>2. CASE b = c
    <3>1. written[b] + 1 \in 1..MaxDemands
      <4>1. written[b] \in 0..MaxDemands /\ written[b] < MaxDemands
        BY <1>1, <2>1, Queues DEF SendDemand
      <4>. HIDE DEF b
      <4>. QED  BY <4>1
    <3>2. e \in Demand
      BY <2>1, <3>1, Pairs
    <3>3. Len(Append(up[c], e)) = Len(up[c]) + 1
      BY <1>0, <3>2, Queues, Longer
    <3>4. up'[c] = Append(up[c], e) /\ written'[c] = written[c] + 1
      BY <1>0, <1>1, <2>2 DEF SendDemand, ConnTypeOK
    <3>5. written'[c] - Len(up'[c]) = written[c] - Len(up[c])
      <4>. HIDE DEF c, e
      <4>. QED  BY <1>0, <3>3, <3>4
    <3>. QED  BY <3>5 DEF WasRead
  <2>3. CASE b # c
    <3>1. up'[c] = up[c] /\ written'[c] = written[c]
      BY <1>0, <1>1, <2>1, <2>3 DEF SendDemand, ConnTypeOK
    <3>. QED  BY <3>1 DEF WasRead
  <2>. QED  BY <2>2, <2>3
<1>2. ASSUME NEW h \in Client, ReadDemand(h) PROVE WasRead(d)'
  <2>. DEFINE b == <<h, reading[h]>>
  <2>1. b \in Conn
    BY <1>2, Queues, Pairs DEF ReadDemand
  <2>2. written' = written
    BY <1>2 DEF ReadDemand, hostVars
  <2>3. CASE b = c
    <3>1. Len(Tail(up[c])) = Len(up[c]) - 1
      BY <1>0, <1>2, <2>3, Queues, Shorter DEF ReadDemand
    <3>2. up'[c] = Tail(up[c])
      BY <1>0, <1>2, <2>3 DEF ReadDemand, ConnTypeOK
    <3>3. d[2] <= written[c] - Len(up[c])
      BY DEF WasRead
    <3>4. d[2] <= written'[c] - Len(up'[c])
      <4>. HIDE DEF c
      <4>. QED  BY <1>0, <2>2, <3>1, <3>2, <3>3
    <3>. QED  BY <3>4 DEF WasRead
  <2>4. CASE b # c
    <3>1. up'[c] = up[c]
      BY <1>0, <1>2, <2>1, <2>4 DEF ReadDemand, ConnTypeOK
    <3>. QED  BY <2>2, <3>1 DEF WasRead
  <2>. QED  BY <2>3, <2>4
<1>3. CASE UNCHANGED <<written, up>>
  BY <1>3 DEF WasRead
<1>. QED
  BY <1>1, <1>2, <1>3
  DEF Next, GetDemands, Connect, ReadReply, Kill, StopHost, CallRead, ReadEnd, Accept,
      Reply, Interrupt, hostVars, tcpVars

\* The demand that the receive thread reads was not read before.
LEMMA NewDemand ==
    ASSUME ConnTypeOK, UpInv, NEW h \in Client, ReadDemand(h)
    PROVE  \E d \in Demand :
             d[1][1] = h /\ ~ WasRead(d) /\ WasRead(d)' /\ stored' = stored \cup {d}
<1>. DEFINE c == <<h, reading[h]>>
<1>1. c \in Conn
  BY Constants, Queues, Pairs DEF ReadDemand
<1>2. /\ Len(up[c]) \in Nat /\ Len(up[c]) > 0 /\ Head(up[c]) = up[c][1]
      /\ Len(Tail(up[c])) = Len(up[c]) - 1 /\ Head(up[c]) \in Demand
  BY <1>1, Queues, Shorter DEF ReadDemand
<1>3. PICK d \in Demand : d = Head(up[c])
  BY <1>2
<1>4. up'[c] = Tail(up[c]) /\ written'[c] = written[c] /\ stored' = stored \cup {d}
  BY <1>1, <1>3 DEF ReadDemand, hostVars, ConnTypeOK
<1>5. Len(up[c]) <= written[c] /\ written[c] \in Nat
  BY <1>1, Queues DEF UpInv
<1>6. d = <<c, written[c] - Len(up[c]) + 1>>
  BY <1>1, <1>2, <1>3 DEF UpInv
<1>7. d[1][1] = h /\ d[1] = c
  BY <1>6
<1>. HIDE DEF c
<1>8. ~ WasRead(d)
  BY <1>2, <1>5, <1>6 DEF WasRead
<1>9. d[2] <= written'[d[1]] - Len(up'[d[1]])
  <2>1. d[2] = written[c] - Len(up[c]) + 1
    BY <1>6
  <2>2. written'[c] - Len(up'[c]) = written[c] - (Len(up[c]) - 1)
    BY <1>2, <1>4
  <2>. QED  BY <1>2, <1>5, <1>7, <2>1, <2>2
<1>10. WasRead(d)'
  BY <1>9 DEF WasRead
<1>. QED  BY <1>4, <1>7, <1>8, <1>10

\* No demand is answered twice: a reply to it is under way at most once, and
\* not while it is stored or after it was read.
LEMMA ReplyStep ==
    ASSUME ConnTypeOK, ForwardInv, UpInv, ReplyInv, Next
    PROVE  ReplyInv'
<1>. USE Constants
<1>0. ASSUME NEW d \in Demand, WasRead(d) PROVE WasRead(d)'
  BY <1>0, ReadStays
<1>1. ASSUME UNCHANGED <<stored, down, got>> PROVE ReplyInv'
  <2>1. ASSUME NEW d \in Demand
        PROVE  (UnderWay(d)' <=> UnderWay(d)) /\ (Answered(d)' <=> Answered(d))
    BY <1>1 DEF UnderWay, Waits, Answered
  <2>. QED  BY <1>0, <1>1, <2>1 DEF ReplyInv
<1>2. ASSUME NEW h \in Client, ReadReply(h) PROVE ReplyInv'
  <2>. DEFINE c == Last(h)
  <2>1. c \in Conn
    BY <1>2, LastConn DEF ReadReply, ForwardInv
  <2>2. /\ Len(down[c]) \in Nat /\ Len(down[c]) > 0 /\ Head(down[c]) = down[c][1]
        /\ Len(Tail(down[c])) = Len(down[c]) - 1 /\ Head(down[c]) \in Demand
        /\ \A n \in 1..Len(Tail(down[c])) :
             n + 1 \in 1..Len(down[c]) /\ Tail(down[c])[n] = down[c][n + 1]
    BY <1>2, <2>1, Queues, Shorter DEF ReadReply
  <2>3. PICK e \in Demand : e = down[c][1]
    BY <2>2
  <2>4. \A b \in Conn : down'[b] = IF b = c THEN Tail(down[c]) ELSE down[b]
    BY <1>2, <2>1 DEF ReadReply, ConnTypeOK
  <2>. HIDE DEF c
  <2>5. stored' = stored /\ got' = got \cup {[demand |-> e, by |-> c]}
    BY <1>2, <2>2, <2>3 DEF ReadReply, arbVars, c
  <2>6. 1 \in 1..Len(down[c]) /\ UnderWay(e)
    BY <2>1, <2>2, <2>3 DEF UnderWay, Waits
  <2>7. ASSUME NEW b \in Conn, NEW n \in 1..Len(down'[b])
        PROVE  \E m \in 1..Len(down[b]) :
                 m = (IF b = c THEN n + 1 ELSE n) /\ down'[b][n] = down[b][m]
    <3>1. CASE b = c
      BY <2>2, <2>4, <2>7, <3>1
    <3>2. CASE b # c
      BY <2>4, <2>7, <3>2
    <3>. QED  BY <3>1, <3>2
  <2>8. ASSUME NEW d \in Demand, UnderWay(d)' PROVE UnderWay(d) /\ d # e
    <3>0. PICK b \in Conn : \E n \in 1..Len(down'[b]) : down'[b][n] = d
      BY <2>8 DEF UnderWay, Waits
    <3>1. PICK n \in 1..Len(down'[b]) : down'[b][n] = d
      BY <3>0
    <3>2. PICK m \in 1..Len(down[b]) :
            m = (IF b = c THEN n + 1 ELSE n) /\ down[b][m] = d
      BY <2>7, <3>1
    <3>3. ~ (b = c /\ m = 1)
      <4>1. n \in Nat /\ n >= 1
        BY <2>2, <2>4, Queues
      <4>. QED  BY <3>2, <4>1
    <3>4. d # e
      BY <2>1, <2>3, <2>6, <3>2, <3>3 DEF ReplyInv
    <3>. QED  BY <3>2, <3>4 DEF UnderWay, Waits
  <2>9. ASSUME NEW d \in Demand PROVE Answered(d)' <=> Answered(d) \/ d = e
    <3>1. \A g \in got' : g \in got \/ g.demand = e
      BY <2>5
    <3>2. \E g \in got' : g.demand = e
      <4>1. [demand |-> e, by |-> c] \in got' /\ [demand |-> e, by |-> c].demand = e
        BY <2>5
      <4>. QED  BY <4>1
    <3>3. got \subseteq got'
      BY <2>5
    <3>. QED  BY <3>1, <3>2, <3>3 DEF Answered
  <2>10. ASSUME NEW a \in Conn, NEW b \in Conn, NEW m \in 1..Len(down'[a]),
                NEW n \in 1..Len(down'[b]), down'[a][m] = down'[b][n]
         PROVE  a = b /\ m = n
    <3>1. PICK i \in 1..Len(down[a]) :
            i = (IF a = c THEN m + 1 ELSE m) /\ down'[a][m] = down[a][i]
      BY <2>7
    <3>2. PICK j \in 1..Len(down[b]) :
            j = (IF b = c THEN n + 1 ELSE n) /\ down'[b][n] = down[b][j]
      BY <2>7
    <3>3. a = b /\ i = j
      <4>1. down[a][i] = down[b][j]
        BY <2>10, <3>1, <3>2
      <4>. QED  BY <4>1 DEF ReplyInv
    <3>4. m \in Int /\ n \in Int
      OBVIOUS
    <3>. QED  BY <3>1, <3>2, <3>3, <3>4
  <2>11. ASSUME NEW d \in Demand
         PROVE  /\ d \in stored' \/ UnderWay(d)' \/ Answered(d)' => WasRead(d)'
                /\ ~ (d \in stored' /\ (UnderWay(d)' \/ Answered(d)'))
                /\ ~ (UnderWay(d)' /\ Answered(d)')
    BY <1>0, <2>5, <2>6, <2>8, <2>9 DEF ReplyInv
  <2>. QED  BY <2>10, <2>11 DEF ReplyInv
<1>3. ASSUME NEW h \in Client, ReadDemand(h) PROVE ReplyInv'
  <2>1. PICK e \in Demand : ~ WasRead(e) /\ WasRead(e)' /\ stored' = stored \cup {e}
    BY <1>3, NewDemand
  <2>2. down' = down /\ got' = got
    BY <1>3 DEF ReadDemand, hostVars
  <2>3. ASSUME NEW d \in Demand
        PROVE  (UnderWay(d)' <=> UnderWay(d)) /\ (Answered(d)' <=> Answered(d))
    BY <2>2 DEF UnderWay, Waits, Answered
  <2>. QED  BY <1>0, <2>1, <2>2, <2>3 DEF ReplyInv
<1>4. ASSUME NEW e \in stored, Reply(e) PROVE ReplyInv'
  <2>. DEFINE h == e[1][1]  c == <<h, hostsockfd[h]>>
  <2>1. e \in Demand /\ c \in Conn
    <3>1. /\ e \in Demand /\ h \in Client /\ e[1][2] \in 1..MaxStarts
          /\ hostsockfd[h] \in 0..MaxStarts
      BY Pairs, Queues DEF ConnTypeOK
    <3>2. e[1][2] <= hostsockfd[h]
      BY <3>1 DEF ForwardInv
    <3>. QED  BY <3>1, <3>2, Pairs
  <2>2. stored' = stored \ {e} /\ got' = got
    BY <1>4 DEF Reply, hostVars
  <2>3. ASSUME NEW d \in Demand PROVE Answered(d)' <=> Answered(d)
    BY <2>2 DEF Answered
  <2>4. CASE down' = down
    <3>1. \A d \in Demand : UnderWay(d)' <=> UnderWay(d)
      BY <2>4 DEF UnderWay, Waits
    <3>. QED  BY <1>0, <2>2, <2>3, <2>4, <3>1 DEF ReplyInv
  <2>5. CASE down' = [down EXCEPT ![c] = Append(@, e)]
    <3>1. /\ Len(Append(down[c], e)) = Len(down[c]) + 1 /\ Len(down[c]) \in Nat
          /\ \A n \in 1..Len(Append(down[c], e)) :
               Append(down[c], e)[n] = IF n <= Len(down[c]) THEN down[c][n] ELSE e
      BY <2>1, Queues, Longer
    <3>2. \A b \in Conn : down'[b] = IF b = c THEN Append(down[c], e) ELSE down[b]
      BY <2>1, <2>5 DEF ConnTypeOK
    <3>. HIDE DEF c
    <3>3. ASSUME NEW b \in Conn, NEW n \in 1..Len(down'[b])
          PROVE  \/ n \in 1..Len(down[b]) /\ down'[b][n] = down[b][n]
                 \/ b = c /\ n = Len(down[c]) + 1 /\ down'[b][n] = e
      <4>1. CASE b = c
        <5>1. /\ n \in 1..(Len(down[c]) + 1) /\ n \in 1..Len(Append(down[c], e))
              /\ down'[b] = Append(down[c], e)
          BY <3>1, <3>2, <3>3, <4>1
        <5>2. down'[b][n] = IF n <= Len(down[c]) THEN down[c][n] ELSE e
          BY <3>1, <5>1
        <5>. QED  BY <3>1, <4>1, <5>1, <5>2
      <4>2. CASE b # c
        BY <3>2, <3>3, <4>2
      <4>. QED  BY <4>1, <4>2
    <3>4. ~ UnderWay(e) /\ ~ Answered(e) /\ WasRead(e)
      BY <2>1 DEF ReplyInv
    <3>5. \A b \in Conn : \A n \in 1..Len(down[b]) : down[b][n] # e
      BY <3>4 DEF UnderWay, Waits
    <3>6. ASSUME NEW d \in Demand, UnderWay(d)' PROVE UnderWay(d) \/ d = e
      <4>1. PICK b \in Conn : \E n \in 1..Len(down'[b]) : down'[b][n] = d
        BY <3>6 DEF UnderWay, Waits
      <4>. QED  BY <3>3, <4>1 DEF UnderWay, Waits
    <3>7. ASSUME NEW a \in Conn, NEW b \in Conn, NEW m \in 1..Len(down'[a]),
                 NEW n \in 1..Len(down'[b]), down'[a][m] = down'[b][n]
          PROVE  a = b /\ m = n
      <4>1. \/ m \in 1..Len(down[a]) /\ down'[a][m] = down[a][m]
            \/ a = c /\ m = Len(down[c]) + 1 /\ down'[a][m] = e
        BY <3>3
      <4>2. \/ n \in 1..Len(down[b]) /\ down'[b][n] = down[b][n]
            \/ b = c /\ n = Len(down[c]) + 1 /\ down'[b][n] = e
        BY <3>3
      <4>. QED  BY <3>5, <3>7, <4>1, <4>2 DEF ReplyInv
    <3>. QED  BY <1>0, <2>2, <2>3, <3>4, <3>6, <3>7 DEF ReplyInv
  <2>. QED  BY <1>4, <2>4, <2>5 DEF Reply
<1>. QED
  BY <1>1, <1>2, <1>3, <1>4
  DEF Next, GetDemands, Connect, SendDemand, Kill, StopHost, CallRead, ReadEnd, Accept,
      Interrupt, hostVars, tcpVars, arbVars

\* A lost reply stays lost: its host, started again, has a new connection, and
\* the demand is not answered once more.
LEMMA LostStays ==
    ASSUME ConnTypeOK, ForwardInv, UpInv, ReplyInv, Next, NEW d \in Demand, Lost(d)
    PROVE  Lost(d)'
<1>. USE Constants
<1>. DEFINE k == d[1][1]
<1>0. /\ WasRead(d) /\ d \notin stored /\ ~ Answered(d)
      /\ k \in running => ~ Waits(d, Last(k))
      /\ k \in Client /\ WasRead(d)'
  BY ReadStays, Pairs DEF Lost
<1>1. CASE UNCHANGED <<starts, down, stored, got>> /\ running' \subseteq running
  BY <1>0, <1>1 DEF Lost, Answered, Waits, Last
<1>2. ASSUME NEW h \in Client, Connect(h) PROVE Lost(d)'
  <2>1. UNCHANGED <<down, stored, got>> /\ running' = running \cup {h}
    BY <1>2 DEF Connect, tcpVars
  <2>2. CASE k = h
    <3>1. starts[h] + 1 \in 1..MaxStarts /\ starts'[h] = starts[h] + 1 /\ starts[h] \in Nat
      BY <1>2, Queues DEF Connect, ConnTypeOK
    <3>2. PICK c \in Conn : c = <<h, starts[h] + 1>>
      BY <3>1, Pairs
    <3>3. Last(k)' = c
      BY <2>2, <3>1, <3>2 DEF Last
    <3>4. ~ (c[2] <= starts[c[1]])
      BY <3>1, <3>2
    <3>5. \A n \in 1..Len(down[c]) : FALSE
      BY <3>4 DEF ForwardInv
    <3>. QED  BY <1>0, <2>1, <3>3, <3>5 DEF Lost, Answered, Waits
  <2>3. CASE k # h
    <3>1. Last(k)' = Last(k)
      BY <1>0, <1>2, <2>3 DEF Connect, Last, ConnTypeOK
    <3>. QED  BY <1>0, <2>1, <2>3, <3>1 DEF Lost, Answered, Waits
  <2>. QED  BY <2>2, <2>3
<1>3. ASSUME NEW h \in Client, ReadReply(h) PROVE Lost(d)'
  <2>. DEFINE c == Last(h)
  <2>1. c \in Conn /\ c[1] = h
    BY <1>3, LastConn DEF ReadReply, ForwardInv
  <2>2. /\ Len(down[c]) \in Nat /\ Len(down[c]) > 0 /\ Head(down[c]) = down[c][1]
        /\ \A n \in 1..Len(Tail(down[c])) :
             n + 1 \in 1..Len(down[c]) /\ Tail(down[c])[n] = down[c][n + 1]
    BY <1>3, <2>1, Queues, Shorter DEF ReadReply
  <2>3. UNCHANGED <<starts, running, stored>>
    BY <1>3 DEF ReadReply, arbVars
  <2>4. \A b \in Conn : down'[b] = IF b = c THEN Tail(down[c]) ELSE down[b]
    BY <1>3, <2>1 DEF ReadReply, ConnTypeOK
  <2>5. down[c][1] # d
    <3>1. 1 \in 1..Len(down[c])
      BY <2>2
    <3>2. down[c][1][1][1] = h
      BY <2>1, <3>1 DEF ForwardInv
    <3>. QED  BY <1>0, <1>3, <3>1, <3>2 DEF ReadReply, Waits
  <2>6. got' = got \cup {[demand |-> down[c][1], by |-> c]}
    BY <1>3, <2>2 DEF ReadReply
  <2>7. ~ Answered(d)'
    BY <1>0, <2>5, <2>6 DEF Answered
  <2>8. ASSUME k \in running PROVE ~ Waits(d, Last(k))'
    <3>1. PICK b \in Conn : b = Last(k)
      BY <1>0, <2>8, LastConn DEF ForwardInv
    <3>2. Last(k)' = b
      BY <2>3, <3>1 DEF Last
    <3>3. ASSUME NEW n \in 1..Len(down'[b]) PROVE down'[b][n] # d
      <4>. HIDE DEF c
      <4>1. CASE b = c
        <5>1. n + 1 \in 1..Len(down[b]) /\ down'[b][n] = down[b][n + 1]
          BY <2>2, <2>4, <3>3, <4>1
        <5>. QED  BY <1>0, <2>8, <3>1, <5>1 DEF Waits
      <4>2. CASE b # c
        BY <1>0, <2>4, <2>8, <3>1, <3>3, <4>2 DEF Waits
      <4>. QED  BY <4>1, <4>2
    <3>. QED  BY <3>2, <3>3 DEF Waits
  <2>. QED  BY <1>0, <2>3, <2>7, <2>8 DEF Lost
<1>4. ASSUME NEW h \in Client, ReadDemand(h) PROVE Lost(d)'
  <2>1. PICK e \in Demand : ~ WasRead(e) /\ stored' = stored \cup {e}
    BY <1>4, NewDemand
  <2>2. UNCHANGED <<starts, running, down, got>>
    BY <1>4 DEF ReadDemand, hostVars
  <2>. QED  BY <1>0, <2>1, <2>2 DEF Lost, Answered, Waits, Last
<1>5. ASSUME NEW e \in stored, Reply(e) PROVE Lost(d)'
  <2>. DEFINE c == <<e[1][1], hostsockfd[e[1][1]]>>
  <2>1. /\ UNCHANGED <<starts, running, got>> /\ stored' \subseteq stored /\ e # d
        /\ down' = down \/ down' = [down EXCEPT ![c] = Append(@, e)]
    BY <1>0, <1>5 DEF Reply, hostVars
  <2>2. e \in Demand
    BY DEF ConnTypeOK
  <2>3. ASSUME k \in running PROVE ~ Waits(d, Last(k))'
    <3>1. PICK b \in Conn : b = Last(k)
      BY <1>0, <2>3, LastConn DEF ForwardInv
    <3>2. Last(k)' = b
      BY <2>1, <3>1 DEF Last
    <3>3. \A n \in 1..Len(down[b]) : down[b][n] # d
      BY <1>0, <2>3, <3>1 DEF Waits
    <3>4. ASSUME NEW n \in 1..Len(Append(down[b], e)) PROVE Append(down[b], e)[n] # d
      <4>1. /\ Len(Append(down[b], e)) = Len(down[b]) + 1 /\ Len(down[b]) \in Nat
            /\ Append(down[b], e)[n] = IF n <= Len(down[b]) THEN down[b][n] ELSE e
        BY <2>2, <3>4, Queues, Longer
      <4>2. CASE n <= Len(down[b])
        BY <3>3, <4>1, <4>2
      <4>3. CASE ~ (n <= Len(down[b]))
        BY <2>1, <4>1, <4>3
      <4>. QED  BY <4>2, <4>3
    <3>5. down'[b] = down[b] \/ down'[b] = Append(down[b], e)
      BY <2>1 DEF ConnTypeOK
    <3>. QED  BY <3>2, <3>3, <3>4, <3>5 DEF Waits
  <2>. QED  BY <1>0, <2>1, <2>3 DEF Lost, Answered
<1>. QED
  BY <1>1, <1>2, <1>3, <1>4, <1>5
  DEF Next, GetDemands, SendDemand, Kill, StopHost, CallRead, ReadEnd, Accept,
      Interrupt, hostVars, tcpVars, arbVars

\* The demands whose replies nobody will read are the lost ones.
LEMMA LostSet ==
    ConnTypeOK /\ UpInv /\ ForwardInv =>
        \A h \in Client : LostReplies(h) = {d \in Demand : d[1][1] = h /\ Lost(d)}
<1>. SUFFICES ASSUME ConnTypeOK, UpInv, ForwardInv, NEW h \in Client, NEW d \in Demand,
                     d[1][1] = h
              PROVE  d \in LostReplies(h) <=> Lost(d)
  BY DEF LostReplies
<1>1. d[1] \in Conn /\ d[2] \in Nat /\ d[2] >= 1 /\ d = <<d[1], d[2]>>
  BY Pairs, Constants
<1>2. /\ Len(up[d[1]]) \in Nat /\ written[d[1]] \in Nat /\ up[d[1]] \in Seq(Demand)
      /\ Len(up[d[1]]) <= written[d[1]]
  BY <1>1, Queues, Constants DEF UpInv
<1>3. Range(up[d[1]]) = {up[d[1]][n] : n \in 1..Len(up[d[1]])}
  BY <1>2, LenProperties DEF Range
<1>4. \A n \in 1..Len(up[d[1]]) :
        up[d[1]][n] = <<d[1], written[d[1]] - Len(up[d[1]]) + n>>
  BY <1>1 DEF UpInv
<1>5. WasRead(d) <=> d[2] <= written[d[1]] /\ d \notin Range(up[d[1]])
  <2>1. ASSUME WasRead(d), NEW n \in 1..Len(up[d[1]]) PROVE d # up[d[1]][n]
    <3>1. up[d[1]][n][2] = written[d[1]] - Len(up[d[1]]) + n
      BY <1>4
    <3>2. written[d[1]] - Len(up[d[1]]) + n > d[2]
      BY <1>1, <1>2, <2>1 DEF WasRead
    <3>. QED  BY <1>1, <3>1, <3>2
  <2>2. ASSUME ~ WasRead(d), d[2] <= written[d[1]] PROVE d \in Range(up[d[1]])
    <3>1. d[2] > written[d[1]] - Len(up[d[1]])
      BY <1>1, <1>2, <2>2 DEF WasRead
    <3>2. PICK n \in 1..Len(up[d[1]]) : n = d[2] - (written[d[1]] - Len(up[d[1]]))
      BY <1>1, <1>2, <2>2, <3>1
    <3>3. written[d[1]] - Len(up[d[1]]) + n = d[2]
      BY <1>1, <1>2, <3>2
    <3>4. up[d[1]][n] = d
      BY <1>1, <1>4, <3>3
    <3>. QED  BY <1>3, <3>4
  <2>3. WasRead(d) => d[2] <= written[d[1]]
    BY <1>1, <1>2 DEF WasRead
  <2>. QED  BY <1>3, <2>1, <2>2, <2>3
<1>6. h \in running => (d \in Range(down[Last(h)]) <=> Waits(d, Last(h)))
  <2>. SUFFICES ASSUME h \in running
                PROVE  d \in Range(down[Last(h)]) <=> Waits(d, Last(h))
    OBVIOUS
  <2>1. PICK c \in Conn : c = Last(h)
    BY LastConn DEF ForwardInv
  <2>2. Range(down[c]) = {down[c][n] : n \in 1..Len(down[c])}
    BY Queues, LenProperties DEF Range
  <2>. QED  BY <2>1, <2>2 DEF Waits
<1>. QED  BY <1>5, <1>6 DEF LostReplies, Lost, Answered

LEMMA FiniteLoss == \A h \in Client : IsFiniteSet(LostReplies(h))
<1>1. IsFiniteSet(1..MaxStarts) /\ IsFiniteSet(1..MaxDemands)
  BY Constants, FS_Interval
<1>2. IsFiniteSet(Conn)
  BY <1>1, FS_Product, ConnectionsAssumption DEF Conn
<1>3. IsFiniteSet(Demand)
  BY <1>1, <1>2, FS_Product DEF Demand
<1>. QED  BY <1>3, FS_Subset DEF LostReplies

\* A connection is reset when a reply to its host is lost, and the arbiter ends
\* when it writes to that connection again, which loses another one.
LEMMA LossStep ==
    ASSUME ConnInv, ConnTypeOK', UpInv', ForwardInv', Next
    PROVE  LossInv'
<1>. USE Constants DEF ConnInv
<1>1. ASSUME NEW d \in Demand, Lost(d) PROVE Lost(d)'
  BY <1>1, LostStays
<1>2. /\ \A h \in Client : LostReplies(h) = {d \in Demand : d[1][1] = h /\ Lost(d)}
      /\ \A h \in Client : LostReplies(h)' = {d \in Demand : d[1][1] = h /\ Lost(d)'}
  <2>1. (ConnTypeOK /\ UpInv /\ ForwardInv =>
          \A h \in Client : LostReplies(h) = {d \in Demand : d[1][1] = h /\ Lost(d)})'
    BY LostSet, PTL
  <2>. QED  BY <2>1, LostSet
<1>3. /\ \A h \in Client : IsFiniteSet(LostReplies(h)')
      /\ \A h \in Client : IsFiniteSet(LostReplies(h))
  <2>1. (\A h \in Client : IsFiniteSet(LostReplies(h)))'
    BY FiniteLoss, PTL
  <2>. QED  BY <2>1, FiniteLoss
<1>4. ASSUME NEW h \in Client, Cardinality(LostReplies(h)) >= 2
      PROVE  Cardinality(LostReplies(h)') >= 2
  <2>1. LostReplies(h) \subseteq LostReplies(h)'
    BY <1>1, <1>2
  <2>2. Cardinality(LostReplies(h)) <= Cardinality(LostReplies(h)')
    BY <1>3, <2>1, FS_Subset
  <2>. QED  BY <1>3, <1>4, <2>2, FS_CardinalityType
<1>5. ASSUME NEW c \in reset PROVE \E d \in Demand : d[1][1] = c[1] /\ Lost(d)'
  BY <1>1 DEF LossInv
<1>6. CASE reset' = reset /\ (arbiter' = "killed" => arbiter = "killed")
  BY <1>4, <1>5, <1>6 DEF LossInv, OneLossSurvived
<1>7. ASSUME NEW h \in Client, Kill(h) PROVE LossInv'
  <2>. DEFINE c == Last(h)
  <2>1. c \in Conn /\ c[1] = h
    BY <1>7, LastConn DEF Kill, ForwardInv
  <2>2. CASE down[c] = << >>
    BY <1>6, <1>7, <2>2 DEF Kill, arbVars
  <2>3. CASE down[c] # << >>
    <3>1. Len(down[c]) \in Nat /\ Len(down[c]) > 0 /\ 1 \in 1..Len(down[c])
      BY <2>1, <2>3, Queues, Shorter
    <3>2. PICK d \in Demand : d = down[c][1]
      BY <2>1, <3>1, Queues
    <3>3. d[1][1] = h /\ UnderWay(d)
      BY <2>1, <3>1, <3>2 DEF ForwardInv, UnderWay, Waits
    <3>4. WasRead(d) /\ d \notin stored /\ ~ Answered(d)
      BY <3>3 DEF ReplyInv
    <3>5. UNCHANGED <<stored, got>> /\ h \notin running' /\ WasRead(d)'
      BY <1>7, <3>4, ReadStays DEF Kill, arbVars
    <3>6. Lost(d)'
      BY <3>3, <3>4, <3>5 DEF Lost, Answered
    <3>7. reset' = reset \cup {c} /\ arbiter' = arbiter
      BY <1>7, <2>3 DEF Kill, arbVars
    <3>. QED  BY <1>4, <1>5, <2>1, <3>3, <3>6, <3>7 DEF LossInv, OneLossSurvived
  <2>. QED  BY <2>2, <2>3
<1>8. ASSUME NEW d \in stored, Reply(d) PROVE LossInv'
  <2>. DEFINE h == d[1][1]  c == <<h, hostsockfd[h]>>
  <2>1. d \in Demand /\ h \in Client
    BY Pairs DEF ConnTypeOK
  <2>2. CASE UNCHANGED <<reset, arbiter>>
    BY <1>6, <2>2
  <2>3. CASE down' = down
    <3>1. ~ UnderWay(d) /\ ~ Answered(d) /\ WasRead(d) /\ WasRead(d)'
      BY <2>1, ReadStays DEF ReplyInv
    <3>2. UNCHANGED <<starts, running, got>> /\ d \notin stored'
      BY <1>8 DEF Reply, hostVars
    <3>3. h \in running => ~ Waits(d, Last(h))'
      BY <2>1, <2>3, <3>1, <3>2, LastConn DEF UnderWay, Waits, ForwardInv, Last
    <3>4. Lost(d)'
      BY <3>1, <3>2, <3>3 DEF Lost, Answered
    <3>5. CASE reset' = reset \cup {c} /\ arbiter' = arbiter
      <4>1. c[1] = h
        OBVIOUS
      <4>. QED  BY <1>4, <1>5, <2>1, <3>4, <3>5, <4>1 DEF LossInv, OneLossSurvived
    <3>6. CASE c \in reset /\ reset' = reset
      <4>1. PICK e \in Demand : e[1][1] = h /\ Lost(e)
        BY <3>6 DEF LossInv
      <4>2. e # d /\ Lost(e)'
        BY <1>1, <4>1 DEF Lost
      <4>3. {d, e} \subseteq LostReplies(h)'
        BY <1>2, <2>1, <3>4, <4>1, <4>2
      <4>4. IsFiniteSet({d}) /\ Cardinality({d}) = 1
        BY FS_Singleton
      <4>5. Cardinality({d} \cup {e}) = 2
        BY <4>2, <4>4, FS_AddElement
      <4>6. Cardinality({d} \cup {e}) <= Cardinality(LostReplies(h)')
        BY <1>3, <2>1, <4>3, FS_Subset
      <4>7. Cardinality(LostReplies(h)') >= 2
        BY <1>3, <2>1, <4>5, <4>6, FS_CardinalityType
      <4>. QED  BY <1>5, <2>1, <3>6, <4>7 DEF LossInv, OneLossSurvived
    <3>. QED  BY <1>8, <2>2, <3>5, <3>6 DEF Reply
  <2>. QED  BY <1>8, <2>2, <2>3 DEF Reply
<1>. QED
  BY <1>6, <1>7, <1>8
  DEF Next, GetDemands, Connect, SendDemand, ReadReply, StopHost, CallRead, ReadDemand,
      ReadEnd, Accept, Interrupt, hostVars, tcpVars, arbVars

-----------------------------------------------------------------------------
\* Connecting, accepting, reading, replying, dying and starting again keep all
\* parts of the invariant (accept_connections, get_demands, send_path_to_host).
THEOREM ConnectionsInvariant == Spec => []ConnInv
<1>1. Init => ConnInv
  <2>. SUFFICES ASSUME Init PROVE ConnInv
    OBVIOUS
  <2>. USE Constants DEF Init
  <2>1. << >> \in Seq(Demand) /\ << >> \in Seq(Conn) /\ Len(<< >>) = 0
    BY EmptySeq
  <2>2. ConnTypeOK
    BY <2>1 DEF ConnTypeOK
  <2>3. UpInv /\ ForwardInv
    BY <2>1 DEF UpInv, ForwardInv
  <2>4. ReplyInv
    BY <2>1 DEF ReplyInv, UnderWay, Waits, Answered
  <2>. QED  BY <2>2, <2>3, <2>4 DEF ConnInv, LossInv, OneLossSurvived
<1>2. ConnInv /\ [Next]_vars => ConnInv'
  <2>. SUFFICES ASSUME ConnInv, [Next]_vars PROVE ConnInv'
    OBVIOUS
  <2>1. CASE Next
    <3>1. ConnTypeOK' /\ UpInv' /\ ForwardInv' /\ ReplyInv'
      BY <2>1, TypeStep, UpStep, ForwardStep, ReplyStep DEF ConnInv
    <3>2. LossInv'
      BY <2>1, <3>1, LossStep
    <3>. QED  BY <3>1, <3>2 DEF ConnInv
  <2>2. CASE UNCHANGED vars
    <3>. USE <2>2 DEF vars, hostVars, tcpVars, arbVars, ConnInv
    <3>1. ConnTypeOK' /\ UpInv' /\ ForwardInv'
      BY DEF ConnTypeOK, UpInv, ForwardInv
    <3>2. ReplyInv'
      BY DEF ReplyInv, WasRead, UnderWay, Waits, Answered
    <3>3. LossInv'
      <4>1. ASSUME NEW d \in Demand PROVE Lost(d)' <=> Lost(d)
        BY DEF Lost, WasRead, Waits, Answered, Last
      <4>2. ASSUME NEW h \in Client PROVE LostReplies(h)' = LostReplies(h)
        BY DEF LostReplies, Last
      <4>. QED  BY <4>1, <4>2 DEF LossInv, OneLossSurvived
    <3>. QED  BY <3>1, <3>2, <3>3
  <2>. QED  BY <2>1, <2>2
<1>. QED  BY <1>1, <1>2, PTL DEF Spec

\* The backlog keeps within the length given to listen, and the counter of
\* accept_connections never reaches the end of its loop.
THEOREM ConnectionTypes == Spec => []ConnTypeOK
<1>1. ConnInv => ConnTypeOK
  BY DEF ConnInv
<1>. QED  BY <1>1, ConnectionsInvariant, PTL

\* However often hosts are killed and started, a reply reaches the process that
\* sent the demand or a later one, never an earlier one (hostsockfd).
THEOREM HostsockfdMovesForward == Spec => []RepliesMoveForward
<1>1. ConnInv => RepliesMoveForward
  BY DEF ConnInv, ForwardInv, RepliesMoveForward
<1>. QED  BY <1>1, ConnectionsInvariant, PTL

\* SIGPIPE needs a second reply lost to one host, however many hosts there are.
THEOREM SigpipeNeedsTwo == Spec => []OneLossSurvived
<1>1. ConnInv => OneLossSurvived
  BY DEF ConnInv, LossInv
<1>. QED  BY <1>1, ConnectionsInvariant, PTL
=============================================================================
