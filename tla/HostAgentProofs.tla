-------------------------- MODULE HostAgentProofs --------------------------
(***************************************************************************)
(* HostAgent for every sequence of replies, burst and limit: no reply is   *)
(* lost, repeated or overtaken between the arbiter and the wire, and the   *)
(* process ends only when its connection has been read to the end.         *)
(***************************************************************************)
EXTENDS HostAgent, SequenceTheorems, FiniteSetTheorems, TLAPS

\* The receive thread returns only on a connection that has been read empty.
EndedUnread == rpc = "ended" => ~ up /\ inbox = << >>

\* main returns after the receive thread.
GoneAfterEnd == spc = "gone" => rpc = "ended"

\* The inductive invariant: ExitAfterReading follows from where the replies
\* are, from what the receive thread found when it returned, and from main's
\* join of that thread.
HostInv == HostTypeOK /\ InOrderOnce /\ EndedUnread /\ GoneAfterEnd

-----------------------------------------------------------------------------
(* Sequences.                                                              *)

\* A sequence is its first element followed by the others.
LEMMA HeadThenTail ==
    ASSUME NEW S, NEW s \in Seq(S), s # << >>
    PROVE  /\ Head(s) \in S /\ Tail(s) \in Seq(S) /\ <<Head(s)>> \in Seq(S)
           /\ <<Head(s)>> \o Tail(s) = s
<1>1. /\ Head(s) \in S /\ Tail(s) \in Seq(S) /\ Len(Tail(s)) = Len(s) - 1
      /\ \A n \in 1..Len(Tail(s)) : Tail(s)[n] = s[n + 1]
  BY HeadTailProperties
<1>2. <<Head(s)>> \in Seq(S) /\ Len(<<Head(s)>>) = 1 /\ <<Head(s)>>[1] = s[1]
  BY <1>1
<1>3. Len(s) \in Nat /\ Len(s) >= 1
  BY EmptySeq
<1>4. /\ <<Head(s)>> \o Tail(s) \in Seq(S)
      /\ Len(<<Head(s)>> \o Tail(s)) = Len(s)
      /\ \A n \in 1..Len(s) : (<<Head(s)>> \o Tail(s))[n] =
           IF n <= 1 THEN <<Head(s)>>[n] ELSE Tail(s)[n - 1]
  BY <1>1, <1>2, <1>3, ConcatProperties
<1>5. \A n \in 1..Len(s) : (<<Head(s)>> \o Tail(s))[n] = s[n]
  BY <1>1, <1>2, <1>3, <1>4
<1>. QED  BY <1>1, <1>2, <1>4, <1>5, SeqEqual

\* The first element of one sequence, appended to the one before it.
LEMMA FirstMovesOver ==
    ASSUME NEW S, NEW s \in Seq(S), NEW t \in Seq(S), s # << >>
    PROVE  /\ Append(t, Head(s)) \in Seq(S)
           /\ Append(t, Head(s)) \o Tail(s) = t \o s
<1>1. /\ Head(s) \in S /\ Tail(s) \in Seq(S) /\ <<Head(s)>> \in Seq(S)
      /\ <<Head(s)>> \o Tail(s) = s
  BY HeadThenTail
<1>2. Append(t, Head(s)) = t \o <<Head(s)>>
  BY <1>1, AppendIsConcat
<1>3. (t \o <<Head(s)>>) \o Tail(s) = t \o (<<Head(s)>> \o Tail(s))
  BY <1>1, ConcatAssociative
<1>. QED  BY <1>1, <1>2, <1>3, ConcatProperties

\* Concatenations of replies are sequences of replies.
LEMMA ChainType ==
    ASSUME HostTypeOK
    PROVE  /\ sent \o taken \in Seq(Reply)
           /\ sent \o taken \o queue \in Seq(Reply)
           /\ sent \o taken \o queue \o data \in Seq(Reply)
BY ConcatProperties DEF HostTypeOK

-----------------------------------------------------------------------------
(* The arbiter, and main.                                                  *)

LEMMA InitHost == Init => HostInv
<1> SUFFICES ASSUME Init PROVE HostInv
  OBVIOUS
<1>1. HostTypeOK
  BY HostAssumption DEF Init, HostTypeOK
<1>2. InOrderOnce
  BY HostAssumption, ConcatEmptySeq DEF Init, InOrderOnce
<1>. QED  BY <1>1, <1>2 DEF Init, HostInv, EndedUnread, GoneAfterEnd

LEMMA WriteHost == HostInv /\ WriteReply => HostInv'
<1> SUFFICES ASSUME HostInv, WriteReply PROVE HostInv'
  OBVIOUS
<1>1. HostTypeOK /\ due \in Seq(Reply) /\ inbox \in Seq(Reply) /\ due # << >>
  BY DEF HostInv, HostTypeOK, WriteReply
<1>2. /\ inbox' \in Seq(Reply) /\ due' \in Seq(Reply)
      /\ inbox' \o due' = inbox \o due
  BY <1>1, HeadThenTail, FirstMovesOver DEF WriteReply
<1>3. HostTypeOK'
  BY <1>1, <1>2 DEF HostTypeOK, WriteReply, sendVars
<1>4. InOrderOnce'
  <2> DEFINE before == sent \o taken \o queue \o data
  <2>1. before \in Seq(Reply)
    BY <1>1, ChainType
  <2> HIDE DEF before
  <2>2. inbox' \in Seq(Reply) /\ due' \in Seq(Reply)
    BY <1>2
  <2>3. before \o inbox' \o due' = before \o (inbox' \o due')
    BY <2>1, <1>1, <2>2, ConcatAssociative
  <2>4. before \o inbox \o due = before \o (inbox \o due)
    BY <2>1, <1>1, ConcatAssociative
  <2>. QED  BY <1>2, <2>3, <2>4 DEF before, HostInv, InOrderOnce, WriteReply, sendVars
<1>5. EndedUnread' /\ GoneAfterEnd'
  BY DEF HostInv, EndedUnread, GoneAfterEnd, WriteReply, sendVars
<1>. QED  BY <1>3, <1>4, <1>5 DEF HostInv

\* The end of the arbiter and the end of the process leave the replies alone.
LEMMA EndsHost == HostInv /\ (ArbiterEnds \/ Exit \/ ReadEnd) => HostInv'
<1> SUFFICES ASSUME HostInv, ArbiterEnds \/ Exit \/ ReadEnd PROVE HostInv'
  OBVIOUS
<1>1. UNCHANGED <<due, inbox, data, queue, taken, sent, wire>>
  BY DEF ArbiterEnds, Exit, ReadEnd, arbVars, recvVars, sendVars
<1>2. InOrderOnce'
  BY <1>1 DEF HostInv, InOrderOnce
<1>3. HostTypeOK'
  BY <1>1 DEF HostInv, HostTypeOK, ArbiterEnds, Exit, ReadEnd, arbVars, recvVars, sendVars
<1>4. EndedUnread' /\ GoneAfterEnd'
  BY DEF HostInv, EndedUnread, GoneAfterEnd, ArbiterEnds, Exit, ReadEnd,
         arbVars, recvVars, sendVars
<1>. QED  BY <1>2, <1>3, <1>4 DEF HostInv

-----------------------------------------------------------------------------
(* recieve_demands                                                         *)

LEMMA ReadHost == HostInv /\ Read => HostInv'
<1> SUFFICES ASSUME HostInv, Read PROVE HostInv'
  OBVIOUS
<1>1. /\ HostTypeOK /\ data \in Seq(Reply) /\ inbox \in Seq(Reply)
      /\ inbox # << >> /\ data = << >>
  BY EmptySeq DEF HostInv, HostTypeOK, Read
<1>2. /\ data' \in Seq(Reply) /\ inbox' \in Seq(Reply) /\ Len(data') = 1
      /\ data' \o inbox' = data \o inbox
  BY <1>1, HeadThenTail, ConcatEmptySeq DEF Read
<1>3. HostTypeOK'
  BY <1>1, <1>2 DEF HostTypeOK, Read, arbVars, sendVars
<1>4. InOrderOnce'
  <2> DEFINE before == sent \o taken \o queue
  <2>1. before \in Seq(Reply)
    BY <1>1, ChainType
  <2> HIDE DEF before
  <2>2. data' \in Seq(Reply) /\ inbox' \in Seq(Reply)
    BY <1>2
  <2>3. before \o data' \o inbox' = before \o (data' \o inbox')
    BY <2>1, <1>1, <2>2, ConcatAssociative
  <2>4. before \o data \o inbox = before \o (data \o inbox)
    BY <2>1, <1>1, ConcatAssociative
  <2>. QED  BY <1>2, <2>3, <2>4 DEF before, HostInv, InOrderOnce, Read, arbVars, sendVars
<1>5. EndedUnread' /\ GoneAfterEnd'
  BY DEF HostInv, EndedUnread, GoneAfterEnd, Read, arbVars, sendVars
<1>. QED  BY <1>3, <1>4, <1>5 DEF HostInv

LEMMA EnqueueHost == HostInv /\ Enqueue => HostInv'
<1> SUFFICES ASSUME HostInv, Enqueue PROVE HostInv'
  OBVIOUS
<1>1. HostTypeOK /\ queue \in Seq(Reply) /\ data \in Seq(Reply)
  BY DEF HostInv, HostTypeOK
<1>2. /\ queue' \in Seq(Reply) /\ data' \in Seq(Reply) /\ Len(data') = 0
      /\ queue' \o data' = queue \o data
  BY <1>1, ConcatProperties, ConcatEmptySeq, EmptySeq DEF Enqueue
<1>3. HostTypeOK'
  BY <1>1, <1>2 DEF HostTypeOK, Enqueue, arbVars, sendVars
<1>4. InOrderOnce'
  <2> DEFINE before == sent \o taken
  <2>1. before \in Seq(Reply)
    BY <1>1, ChainType
  <2> HIDE DEF before
  <2>2. queue' \in Seq(Reply) /\ data' \in Seq(Reply)
    BY <1>2
  <2>3. before \o queue' \o data' = before \o (queue' \o data')
    BY <2>1, <1>1, <2>2, ConcatAssociative
  <2>4. before \o queue \o data = before \o (queue \o data)
    BY <2>1, <1>1, ConcatAssociative
  <2>. QED  BY <1>2, <2>3, <2>4 DEF before, HostInv, InOrderOnce, Enqueue, arbVars, sendVars
<1>5. EndedUnread' /\ GoneAfterEnd'
  BY DEF HostInv, EndedUnread, GoneAfterEnd, Enqueue, arbVars, sendVars
<1>. QED  BY <1>3, <1>4, <1>5 DEF HostInv

-----------------------------------------------------------------------------
(* send_packets                                                            *)

LEMMA DequeueHost == HostInv /\ Dequeue => HostInv'
<1> SUFFICES ASSUME HostInv, Dequeue PROVE HostInv'
  OBVIOUS
<1>1. /\ HostTypeOK /\ sent \in Seq(Reply) /\ taken \in Seq(Reply)
      /\ queue \in Seq(Reply) /\ queue # << >> /\ taken = << >>
  BY DEF HostInv, HostTypeOK, Dequeue
<1>2. /\ taken' \in Seq(Reply) /\ queue' \in Seq(Reply)
      /\ taken' # << >> /\ Len(taken') = 1
      /\ taken' \o queue' = taken \o queue
  BY <1>1, HeadThenTail, ConcatEmptySeq DEF Dequeue
<1>3. HostTypeOK'
  BY <1>1, <1>2 DEF HostTypeOK, Dequeue, arbVars, recvVars
<1>4. InOrderOnce'
  <2>1. taken' \in Seq(Reply) /\ queue' \in Seq(Reply)
    BY <1>2
  <2>2. sent \o taken' \o queue' = (sent) \o (taken' \o queue')
    BY <1>1, <2>1, ConcatAssociative
  <2>3. sent \o taken \o queue = (sent) \o (taken \o queue)
    BY <1>1, ConcatAssociative
  <2>. QED  BY <1>2, <2>2, <2>3 DEF HostInv, InOrderOnce, Dequeue, arbVars, recvVars
<1>5. EndedUnread' /\ GoneAfterEnd'
  BY DEF HostInv, EndedUnread, GoneAfterEnd, Dequeue, arbVars, recvVars
<1>. QED  BY <1>3, <1>4, <1>5 DEF HostInv

\* The burst is at least one packet, so that the division has a meaning.
LEMMA TransmittedType == \A flow \in Nat : Transmitted(flow) \in Nat
<1> SUFFICES ASSUME NEW flow \in Nat PROVE Transmitted(flow) \in Nat
  OBVIOUS
<1>1. Burst \in Nat /\ Burst > 0
  BY HostAssumption
<1>2. (flow + 50 + Burst - 1) \div Burst \in Nat
  BY <1>1
<1>. QED  BY <1>1, <1>2 DEF Transmitted

LEMMA TransmitHost == HostInv /\ Transmit => HostInv'
<1> SUFFICES ASSUME HostInv, Transmit PROVE HostInv'
  OBVIOUS
<1>1. /\ HostTypeOK /\ sent \in Seq(Reply) /\ taken \in Seq(Reply)
      /\ wire \in Seq(Nat) /\ taken # << >>
  BY DEF HostInv, HostTypeOK, Transmit
<1>2. /\ sent' \in Seq(Reply) /\ taken' \in Seq(Reply)
      /\ sent' \o taken' = sent \o taken
  BY <1>1, ConcatProperties, ConcatEmptySeq, EmptySeq DEF Transmit
<1>3. wire' \in Seq(Nat)
  <2>1. taken[1] \in Reply
    BY <1>1, EmptySeq, ElementOfSeq
  <2>2. Transmitted(taken[1].flow) \in Nat
    BY <2>1, TransmittedType DEF Reply
  <2>. QED  BY <1>1, <2>2, AppendProperties DEF Transmit
<1>4. HostTypeOK'
  BY <1>1, <1>2, <1>3 DEF HostTypeOK, Transmit, arbVars, recvVars
<1>5. InOrderOnce'
  BY <1>2 DEF HostInv, InOrderOnce, Transmit, arbVars, recvVars
<1>6. EndedUnread' /\ GoneAfterEnd'
  BY DEF HostInv, EndedUnread, GoneAfterEnd, Transmit, arbVars, recvVars
<1>. QED  BY <1>4, <1>5, <1>6 DEF HostInv

\* Signals and waits move no reply.
LEMMA WaitHost == HostInv /\ (Signal \/ FindEmpty \/ Wait \/ SpuriousWake) => HostInv'
<1> SUFFICES ASSUME HostInv, Signal \/ FindEmpty \/ Wait \/ SpuriousWake PROVE HostInv'
  OBVIOUS
<1>1. UNCHANGED <<up, due, inbox, data, queue, taken, sent, wire>>
  BY DEF Signal, FindEmpty, Wait, SpuriousWake, arbVars, recvVars
<1>2. InOrderOnce'
  BY <1>1 DEF HostInv, InOrderOnce
<1>3. HostTypeOK'
  BY <1>1 DEF HostInv, HostTypeOK, Signal, FindEmpty, Wait, SpuriousWake, recvVars
<1>4. EndedUnread' /\ GoneAfterEnd'
  BY <1>1 DEF HostInv, EndedUnread, GoneAfterEnd, Signal, FindEmpty, Wait,
              SpuriousWake, recvVars
<1>. QED  BY <1>2, <1>3, <1>4 DEF HostInv

-----------------------------------------------------------------------------
\* Every step of the host or of the arbiter keeps the invariant.
LEMMA NextHost == HostInv /\ [Next]_vars => HostInv'
<1> SUFFICES ASSUME HostInv, [Next]_vars PROVE HostInv'
  OBVIOUS
<1>1. CASE Receive
  BY <1>1, ReadHost, EndsHost, EnqueueHost, WaitHost DEF Receive
<1>2. CASE Send
  BY <1>2, DequeueHost, TransmitHost, WaitHost DEF Send
<1>3. CASE SpuriousWake \/ WriteReply \/ ArbiterEnds \/ Exit
  BY <1>3, WaitHost, WriteHost, EndsHost
<1>4. CASE UNCHANGED vars
  BY <1>4 DEF vars, arbVars, recvVars, sendVars, HostInv, HostTypeOK, InOrderOnce,
              EndedUnread, GoneAfterEnd
<1>. QED  BY <1>1, <1>2, <1>3, <1>4 DEF Next

THEOREM HostInvariant == Spec => []HostInv
<1>. QED  BY InitHost, NextHost, PTL DEF Spec

\* Each thread holds a node exactly while it works on it, and the tables of
\* what was sent keep their types, for every burst.
THEOREM HostTypes == Spec => []HostTypeOK
<1>1. HostInv => HostTypeOK
  BY DEF HostInv
<1>. QED  BY <1>1, HostInvariant, PTL

\* Whatever the replies, no reply is lost, repeated or overtaken on its way from
\* the arbiter through the queue to the wire (enqueue_demand, dequeue_demand).
THEOREM RepliesInOrder == Spec => []InOrderOnce
<1>1. HostInv => InOrderOnce
  BY DEF HostInv
<1>. QED  BY <1>1, HostInvariant, PTL

\* The process ends only after the arbiter and after reading all that was on the
\* connection: main joins recieve_demands before it returns (host_main.c 158).
THEOREM ExitReadsAll == Spec => []ExitAfterReading
<1>1. HostInv => ExitAfterReading
  <2> SUFFICES ASSUME HostInv, spc = "gone" PROVE ExitAfterReading
    BY DEF ExitAfterReading
  <2>1. /\ ~ up /\ inbox = << >> /\ data = << >>
        /\ sent \o taken \o queue \in Seq(Reply)
    BY ChainType, EmptySeq DEF HostInv, HostTypeOK, EndedUnread, GoneAfterEnd
  <2>2. sent \o taken \o queue \o data \o inbox = sent \o taken \o queue
    BY <2>1, ConcatEmptySeq
  <2>. QED  BY <2>1, <2>2 DEF HostInv, InOrderOnce, ExitAfterReading
<1>. QED  BY <1>1, HostInvariant, PTL

-----------------------------------------------------------------------------
(* What a source puts on the wire.                                         *)

\* The loop of sendReceive ran once for every reply that was transmitted.
WireInv ==
    /\ Len(wire) = Len(sent)
    /\ \A n \in 1..Len(sent) : wire[n] = Transmitted(sent[n].flow)

\* A chunk of 50 packets becomes 100 packets, since bursts divide them.
LEMMA TransmittedChunk == Transmitted(50) = 100
<1>1. Burst \in Nat /\ Burst > 0 /\ 100 % Burst = 0
  BY HostAssumption, GrantAssumption
<1>2. PICK k \in Nat : 100 = Burst * k
  BY <1>1
<1>3. (50 + 50 + Burst - 1) \div Burst = k
  BY <1>1, <1>2
<1>. QED  BY <1>2, <1>3 DEF Transmitted

LEMMA WireStep == HostInv /\ WireInv /\ [Next]_vars => WireInv'
<1> SUFFICES ASSUME HostInv, WireInv, [Next]_vars PROVE WireInv'
  OBVIOUS
<1>1. CASE Transmit
  <2>1. /\ sent \in Seq(Reply) /\ taken \in Seq(Reply) /\ wire \in Seq(Nat)
        /\ Len(taken) = 1 /\ Len(sent) \in Nat /\ Len(wire) = Len(sent)
    <3>1. /\ sent \in Seq(Reply) /\ taken \in Seq(Reply) /\ wire \in Seq(Nat)
          /\ taken # << >> /\ Len(taken) <= 1 /\ Len(wire) = Len(sent)
      BY <1>1 DEF HostInv, HostTypeOK, Transmit, WireInv
    <3>2. Len(taken) \in Nat \ {0} /\ Len(sent) \in Nat
      BY <3>1, EmptySeq, LenProperties
    <3>3. \A k \in Nat \ {0} : k <= 1 => k = 1
      OBVIOUS
    <3>. QED  BY <3>1, <3>2, <3>3, Zenon
  <2>2. PICK w \in Nat : w = Transmitted(taken[1].flow)
    <3>1. taken[1] \in Reply
      BY <2>1, ElementOfSeq
    <3>. QED  BY <3>1, TransmittedType DEF Reply
  <2>3. sent' = sent \o taken /\ wire' = Append(wire, w)
    BY <1>1, <2>2 DEF Transmit
  <2>4. /\ Len(sent') = Len(sent) + 1 /\ sent'[Len(sent) + 1] = taken[1]
        /\ \A n \in 1..Len(sent) : sent'[n] = sent[n]
    <3>1. /\ Len(sent \o taken) = Len(sent) + Len(taken)
          /\ \A n \in 1..(Len(sent) + Len(taken)) : (sent \o taken)[n] =
               IF n <= Len(sent) THEN sent[n] ELSE taken[n - Len(sent)]
      BY <2>1, ConcatProperties, Zenon
    <3>2. Len(sent) + 1 \in 1..(Len(sent) + 1) /\ (Len(sent) + 1) - Len(sent) = 1
      BY <2>1
    <3>. QED  BY <2>1, <2>3, <3>1, <3>2
  <2>5. /\ Len(wire') = Len(sent) + 1 /\ wire'[Len(sent) + 1] = w
        /\ \A n \in 1..Len(sent) : wire'[n] = wire[n]
    BY <2>1, <2>3, AppendProperties
  <2>6. ASSUME NEW n \in 1..Len(sent') PROVE wire'[n] = Transmitted(sent'[n].flow)
    <3>1. CASE n = Len(sent) + 1
      BY <2>2, <2>4, <2>5, <3>1
    <3>2. CASE n \in 1..Len(sent)
      BY <2>4, <2>5, <3>2 DEF WireInv
    <3>. QED  BY <2>1, <2>4, <3>1, <3>2
  <2>. QED  BY <2>4, <2>5, <2>6 DEF WireInv
<1>2. CASE UNCHANGED <<sent, wire>>
  BY <1>2 DEF WireInv
<1>. QED
  BY <1>1, <1>2
  DEF Next, Receive, Send, Read, ReadEnd, Enqueue, Signal, Dequeue, FindEmpty, Wait,
      SpuriousWake, WriteReply, ArbiterEnds, Exit, vars, sendVars

\* What was transmitted is what the arbiter sent first.
LEMMA SentFirst ==
    ASSUME HostInv
    PROVE  /\ Len(sent) <= Len(Replies) /\ Len(sent) \in Nat /\ Len(Replies) \in Nat
           /\ \A n \in 1..Len(sent) : sent[n] = Replies[n]
<1>1. ASSUME NEW s \in Seq(Reply), NEW t \in Seq(Reply)
      PROVE  /\ s \o t \in Seq(Reply) /\ Len(s) <= Len(s \o t)
             /\ Len(s) \in Nat /\ Len(s \o t) \in Nat
             /\ \A n \in 1..Len(s) : (s \o t)[n] = s[n]
  BY ConcatProperties, LenProperties
<1>. DEFINE a == sent \o taken  b == a \o queue  c == b \o data  d == c \o inbox
<1>2. /\ sent \in Seq(Reply) /\ taken \in Seq(Reply) /\ queue \in Seq(Reply)
      /\ data \in Seq(Reply) /\ inbox \in Seq(Reply) /\ due \in Seq(Reply)
      /\ d \o due = Replies
  BY DEF HostInv, HostTypeOK, InOrderOnce
<1>3. a \in Seq(Reply) /\ Len(sent) <= Len(a) /\ \A n \in 1..Len(sent) : a[n] = sent[n]
  BY <1>1, <1>2
<1>4. b \in Seq(Reply) /\ Len(a) <= Len(b) /\ \A n \in 1..Len(a) : b[n] = a[n]
  BY <1>1, <1>2, <1>3
<1>. HIDE DEF a
<1>5. c \in Seq(Reply) /\ Len(b) <= Len(c) /\ \A n \in 1..Len(b) : c[n] = b[n]
  BY <1>1, <1>2, <1>4
<1>. HIDE DEF b
<1>6. d \in Seq(Reply) /\ Len(c) <= Len(d) /\ \A n \in 1..Len(c) : d[n] = c[n]
  BY <1>1, <1>2, <1>5
<1>. HIDE DEF c
<1>7. Len(d) <= Len(Replies) /\ \A n \in 1..Len(d) : Replies[n] = d[n]
  <2>1. Len(d) <= Len(d \o due) /\ \A n \in 1..Len(d) : (d \o due)[n] = d[n]
    BY <1>1, <1>2, <1>6
  <2>2. d \o due = Replies
    BY <1>2
  <2>. QED  BY <2>1, <2>2
<1>. HIDE DEF d
<1>8. /\ Len(sent) \in Nat /\ Len(a) \in Nat /\ Len(b) \in Nat /\ Len(c) \in Nat
      /\ Len(d) \in Nat /\ Len(Replies) \in Nat
  BY <1>2, <1>3, <1>4, <1>5, <1>6, HostAssumption, LenProperties
<1>. QED  BY <1>3, <1>4, <1>5, <1>6, <1>7, <1>8

\* The packets of a slot come from replies of that slot, 100 packets each.
LEMMA WireLoad ==
    ASSUME HostInv, WireInv
    PROVE  SourceWithinTwice
<1>. SUFFICES ASSUME NEW k \in DOMAIN sent
              PROVE  Cardinality(OnWire(sent[k].slot)) <= 2 * Limit
  BY DEF SourceWithinTwice
<1>. DEFINE S == {m \in DOMAIN Replies : Replies[m].slot = Replies[k].slot}
<1>1. /\ sent \in Seq(Reply) /\ DOMAIN sent = 1..Len(sent)
      /\ DOMAIN Replies = 1..Len(Replies)
  BY HostAssumption, LenProperties DEF HostInv, HostTypeOK
<1>2. ASSUME NEW n \in DOMAIN sent
      PROVE  /\ n \in DOMAIN Replies /\ sent[n] = Replies[n]
             /\ wire[n] = 100
  <2>1. n \in DOMAIN Replies /\ sent[n] = Replies[n]
    BY <1>1, SentFirst
  <2>2. wire[n] = Transmitted(sent[n].flow) /\ sent[n].flow = 50
    BY <1>1, <2>1, GrantAssumption DEF WireInv
  <2>. QED  BY <2>1, <2>2, TransmittedChunk
<1>3. OnWire(sent[k].slot) \subseteq S \X (1..100)
  <2>. SUFFICES ASSUME NEW n \in DOMAIN sent, sent[n].slot = sent[k].slot
                PROVE  {n} \X (1..wire[n]) \subseteq S \X (1..100)
    BY DEF OnWire
  <2>1. n \in S /\ wire[n] = 100
    BY <1>2
  <2>. QED  BY <2>1
<1>4. IsFiniteSet(S) /\ Cardinality(S) \in Nat
  <2>1. IsFiniteSet(DOMAIN Replies)
    <3>1. Len(Replies) \in Int /\ 1 \in Int
      BY SentFirst
    <3>. QED  BY <1>1, <3>1, FS_Interval
  <2>. QED  BY <2>1, FS_Subset, FS_CardinalityType
<1>5. IsFiniteSet(1..100) /\ Cardinality(1..100) = 100
  <2>1. 1 \in Int /\ 100 \in Int /\ ~ (1 > 100) /\ 100 - 1 + 1 = 100
    OBVIOUS
  <2>2. IsFiniteSet(1..100) /\ Cardinality(1..100) = 100 - 1 + 1
    BY <2>1, FS_Interval, Zenon
  <2>. QED  BY <2>1, <2>2
<1>6. /\ IsFiniteSet(S \X (1..100))
      /\ Cardinality(S \X (1..100)) = Cardinality(S) * 100
  BY <1>4, <1>5, FS_Product
<1>7. Cardinality(OnWire(sent[k].slot)) <= Cardinality(S) * 100
  BY <1>3, <1>6, FS_Subset
<1>8. 50 * Cardinality(S) <= Limit
  BY <1>2, GrantAssumption
<1>9. Cardinality(OnWire(sent[k].slot)) \in Nat
  BY <1>3, <1>6, FS_Subset, FS_CardinalityType
<1>. QED  BY <1>4, <1>7, <1>8, <1>9, HostAssumption

\* No source puts more than twice the README's limit on the wire for a slot,
\* whatever the replies, as long as the arbiter grants within the limit.
THEOREM WithinTwice == Spec => []SourceWithinTwice
<1>1. Init => WireInv
  BY DEF Init, WireInv
<1>. QED  BY <1>1, WireStep, WireLoad, HostInvariant, PTL DEF Spec
=============================================================================
