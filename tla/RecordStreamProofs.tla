------------------------- MODULE RecordStreamProofs -------------------------
(***************************************************************************)
(* RecordStream for every size of a record and of a segment: a record is   *)
(* torn only in a burst that no segment holds.                             *)
(***************************************************************************)
EXTENDS RecordStream, TLAPS

-----------------------------------------------------------------------------
(* Multiples of the size.  They are the only products of two variables: the *)
(* steps of the stream see them as numbers with these properties.           *)

LEMMA NextMultiple == \A m \in Nat : (m + 1) * Size = m * Size + Size
BY StreamAssumption

LEMMA MultipleType == \A m \in Nat : m * Size \in Nat
BY StreamAssumption

\* Between two different places of whole records there is room for a record.
LEMMA WholeApart ==
    ASSUME NEW m \in Nat, NEW n \in Nat, m * Size < n * Size
    PROVE  m < n /\ m * Size + Size <= n * Size
<1>1. Size \in Nat /\ Size >= 1
  BY StreamAssumption
<1>2. m < n
  <2>1. SUFFICES ASSUME n <= m PROVE FALSE
    OBVIOUS
  <2>2. PICK d \in Nat : m = n + d
    BY <2>1
  <2>3. m * Size = n * Size + d * Size
    BY <1>1, <2>2
  <2>4. d * Size >= 0
    BY <1>1, MultipleType
  <2>. QED  BY <1>1, <2>3, <2>4, MultipleType
<1>3. PICK d \in Nat : n = (m + 1) + d
  BY <1>2
<1>4. n * Size = m * Size + Size + d * Size
  BY <1>1, <1>3
<1>5. d * Size >= 0
  BY <1>1, MultipleType
<1>. QED  BY <1>1, <1>2, <1>4, <1>5, MultipleType

\* The record that begins at a place between two records ends at such a place.
LEMMA WholeStep ==
    ASSUME NEW x \in Nat, Whole(x), NEW n \in 0..Total, x < n * Size
    PROVE  x + Size <= n * Size /\ Whole(x + Size)
<1>1. PICK m \in 0..Total : x = m * Size
  BY DEF Whole
<1>2. m < n /\ x + Size <= n * Size
  BY <1>1, WholeApart, StreamAssumption
<1>3. m + 1 \in 0..Total /\ x + Size = (m + 1) * Size
  BY <1>1, <1>2, NextMultiple, StreamAssumption
<1>. QED  BY <1>2, <1>3 DEF Whole

-----------------------------------------------------------------------------
(* The invariant.                                                          *)

LEMMA InitStream == Init => StreamInv
<1> SUFFICES ASSUME Init PROVE StreamInv
  OBVIOUS
<1>1. Whole(0)
  <2>1. 0 \in 0..Total /\ 0 = 0 * Size
    BY StreamAssumption
  <2>. QED  BY <2>1 DEF Whole
<1>. QED  BY <1>1, StreamAssumption DEF Init, StreamInv, Waiting

\* A write to an empty stream starts a burst; to another it adds to the peak.
LEMMA WriteStream == StreamInv /\ Write => StreamInv'
<1> SUFFICES ASSUME StreamInv, Write PROVE StreamInv'
  OBVIOUS
<1> DEFINE before == written * Size
           after == written' * Size
<1>1. /\ written \in 0..Total /\ written' \in 0..Total
      /\ before \in Nat /\ after = before + Size
      /\ Size \in Nat /\ Mss \in Nat /\ arrived' = arrived /\ consumed' = consumed
  BY MultipleType, NextMultiple, StreamAssumption DEF StreamInv, Write
<1>2. /\ Waiting = before - arrived /\ Waiting' = after - arrived'
      /\ arrived <= before
  BY DEF Waiting, StreamInv
<1> HIDE DEF before, after
<1>3. arrived' <= after /\ Waiting' = Waiting + Size
  BY <1>1, <1>2 DEF StreamInv
<1>4. CASE consumed = before
  <2>1. arrived = before /\ peak' = Size
    BY <1>1, <1>4, <1>2 DEF StreamInv, Write, before
  <2>2. Whole(arrived) /\ Whole(consumed)
    BY <1>1, <1>4, <2>1 DEF Whole, before
  <2>3. Whole(arrived)' /\ Whole(consumed)'
    BY <1>1, <2>2 DEF Whole
  <2>4. peak' \in Nat /\ Waiting' <= peak'
    BY <1>1, <1>3, <1>2, <2>1
  <2>. QED  BY <1>1, <1>3, <2>3, <2>4 DEF StreamInv, after
<1>5. CASE consumed # before
  <2>1. /\ peak' \in Nat /\ peak <= peak' /\ Waiting + Size <= peak'
    BY <1>1, <1>5, <1>2 DEF StreamInv, Write, Most, before
  <2>3. ASSUME peak' <= Mss PROVE Whole(arrived)' /\ Whole(consumed)'
    <3>1. peak <= Mss
      BY <1>1, <2>1, <2>3 DEF StreamInv
    <3>. QED  BY <1>1, <3>1 DEF StreamInv, Whole
  <2>. QED  BY <1>1, <1>3, <2>1, <2>3 DEF StreamInv, after
<1>. QED  BY <1>4, <1>5

\* While all that waits fits a segment it arrives together.
LEMMA DeliverStream == StreamInv /\ Deliver => StreamInv'
<1> SUFFICES ASSUME StreamInv, Deliver PROVE StreamInv'
  OBVIOUS
<1>1. /\ written \in 0..Total /\ written * Size \in Nat /\ Mss \in Nat
      /\ UNCHANGED <<written, consumed, peak>>
  BY MultipleType, StreamAssumption DEF StreamInv, Deliver
<1>2. arrived' \in Nat /\ arrived <= arrived' /\ arrived' <= written * Size
  BY <1>1 DEF StreamInv, Deliver, Waiting, Least
<1>3. ASSUME peak <= Mss PROVE Whole(arrived)' /\ Whole(consumed)'
  <2>1. arrived' = written * Size
    BY <1>1, <1>3 DEF StreamInv, Deliver, Waiting, Least
  <2>. QED  BY <1>1, <1>3, <2>1 DEF StreamInv, Whole
<1>. QED  BY <1>1, <1>2, <1>3 DEF StreamInv, Waiting

\* A read in step returns one record.
LEMMA WholeRead ==
    ASSUME StreamInv, Read, peak <= Mss
    PROVE  /\ Whole(consumed) /\ consumed' = consumed + Size
           /\ consumed' <= arrived /\ Whole(consumed + Size)
<1>1. Whole(consumed) /\ Whole(arrived) /\ consumed \in Nat /\ consumed < arrived
  BY DEF StreamInv, Read
<1>2. PICK n \in 0..Total : arrived = n * Size
  BY <1>1 DEF Whole
<1>3. consumed + Size <= arrived /\ Whole(consumed + Size)
  BY <1>1, <1>2, WholeStep
<1>4. arrived \in Nat /\ Size \in Nat
  BY StreamAssumption DEF StreamInv
<1>. QED  BY <1>1, <1>3, <1>4 DEF Read, Least

LEMMA ReadStream == StreamInv /\ Read => StreamInv'
<1> SUFFICES ASSUME StreamInv, Read PROVE StreamInv'
  OBVIOUS
<1>1. UNCHANGED <<written, arrived, peak>> /\ Size \in Nat
  BY StreamAssumption DEF Read
<1>2. consumed' \in Nat /\ consumed' <= arrived
  BY <1>1 DEF StreamInv, Read, Least
<1>3. ASSUME peak <= Mss PROVE Whole(arrived)' /\ Whole(consumed)'
  BY <1>1, <1>3, WholeRead DEF StreamInv, Whole
<1>. QED  BY <1>1, <1>2, <1>3 DEF StreamInv, Waiting

LEMMA NextStream == StreamInv /\ [Next]_vars => StreamInv'
<1> SUFFICES ASSUME StreamInv, [Next]_vars PROVE StreamInv'
  OBVIOUS
<1>1. CASE UNCHANGED vars
  BY <1>1 DEF vars, StreamInv, Waiting, Whole
<1>. QED  BY <1>1, WriteStream, DeliverStream, ReadStream DEF Next

\* Bytes are written before they arrive and arrive before they are read; while
\* what has waited fits a segment, all that arrived is whole records.
THEOREM StreamInvariant == Spec => []StreamInv
<1>. QED  BY InitStream, NextStream, PTL DEF Spec

\* For every size of record and segment: get_demands and recieve_demands, which
\* ask read only for n > 0, get one whole record by every call as long as no
\* burst is larger than a segment, and again after the stream has been empty.
THEOREM ReadsAreWhole == Spec => WholeReads
<1>1. ASSUME StreamInv, [Next]_vars
      PROVE  [ consumed' # consumed /\ peak <= Mss
                 => Whole(consumed) /\ consumed' = consumed + Size ]_vars
  <2>1. CASE Read
    BY <1>1, <2>1, WholeRead
  <2>2. CASE Write \/ Deliver \/ UNCHANGED vars
    BY <2>2 DEF Write, Deliver, vars
  <2>. QED  BY <1>1, <2>1, <2>2 DEF Next
<1>. QED  BY <1>1, StreamInvariant, PTL DEF Spec, WholeReads
=============================================================================
