---------------------------- MODULE RecordStream ----------------------------
(***************************************************************************)
(* One direction of a connection between a host and the arbiter: demands   *)
(* (10 bytes) on the way up, replies (16 bytes) on the way down.  Both are *)
(* written whole and read by a call of read that may return any part; what *)
(* comes is taken for a record, and the bytes it lacks are those of the    *)
(* record before.  The contents of the bytes do not matter here, only      *)
(* their places in the stream: a byte is the number of those before it.    *)
(***************************************************************************)
EXTENDS Naturals

CONSTANTS
    Size,       \* the bytes of a record
    Mss,        \* the most bytes of a TCP segment
    Total       \* the records the writer has to write

ASSUME StreamAssumption ==
    /\ Size \in Nat \ {0} /\ Mss \in Nat /\ Total \in Nat
    /\ Size <= Mss

VARIABLES
    written,    \* records written
    arrived,    \* bytes that have arrived at the reader's end
    consumed,   \* bytes that calls of read have returned
    peak        \* the most bytes that waited for a segment since the
                \* stream was last empty

vars == <<written, arrived, consumed, peak>>

Waiting == written * Size - arrived
Least(x, y) == IF x <= y THEN x ELSE y
Most(x, y)  == IF x <= y THEN y ELSE x

\* Place x lies between two records.
Whole(x) == \E m \in 0..Total : x = m * Size

Init ==
    /\ written = 0 /\ arrived = 0 /\ consumed = 0
    /\ peak = 0

-----------------------------------------------------------------------------
\* send_demands, or the reply loop of process_demands: one record a write.
Write ==
    /\ written < Total
    /\ written' = written + 1
    /\ peak' = IF consumed = written * Size
               THEN Size
               ELSE Most(peak, Waiting + Size)
    /\ UNCHANGED <<arrived, consumed>>

\* Slip: the socket is corked, only full segments are sent.
DeliverCorked ==
    /\ Waiting >= Mss
    /\ arrived' = arrived + Mss
    /\ UNCHANGED <<written, consumed, peak>>

\* TCP sends what waits, in segments of at most Mss bytes; a segment that is
\* lost is sent again, which the reader sees as a delay.
Deliver ==
    /\ Waiting > 0
    /\ arrived' = arrived + Least(Waiting, Mss)
    /\ UNCHANGED <<written, consumed, peak>>

\* Slip: one byte more than a record, for the padding of the structure.
ReadPadded ==
    /\ arrived > consumed
    /\ consumed' = consumed + Least(arrived - consumed, Size + 1)
    /\ UNCHANGED <<written, arrived, peak>>

\* get_demands and recieve_demands: n > 0 is all that is asked of read.
Read ==
    /\ arrived > consumed
    /\ consumed' = consumed + Least(arrived - consumed, Size)
    /\ UNCHANGED <<written, arrived, peak>>

Next == Write \/ Deliver \/ Read

Spec == Init /\ [][Next]_vars

\* The network delivers and the receive thread runs; the writer has a finite
\* file of demands, or replies to them.
FairSpec == Spec /\ WF_vars(Deliver) /\ WF_vars(Read)

-----------------------------------------------------------------------------
\* Bytes are written before they arrive, arrive before they are read, and wait
\* within the peak; while the peak fits a segment, the reader is in step.
StreamInv ==
    /\ written \in 0..Total /\ arrived \in Nat /\ consumed \in Nat /\ peak \in Nat
    /\ consumed <= arrived /\ arrived <= written * Size
    /\ Waiting <= peak
    /\ peak <= Mss => Whole(arrived) /\ Whole(consumed)

\* As long as what waits fits one segment, every read returns one record, whole:
\* a record is torn only in a burst that was larger, and none after the stream
\* has been empty again.
WholeReads ==
    [][ consumed' # consumed /\ peak <= Mss
          => Whole(consumed) /\ consumed' = consumed + Size ]_vars

\* A reader that is out of step, and takes every record for another, does not
\* stay so: when the writer pauses it gets in step again.
InStepAgain == ~ Whole(consumed) ~> Whole(consumed)
=============================================================================
