---------------------------- MODULE DemandParser ----------------------------
(***************************************************************************)
(* The thread command_parser of a host with send_demands: each line of the *)
(* traffic file becomes a demand for a number of chunks.  A line is        *)
(* abstracted to its destination and port, its volume, the unit it is      *)
(* written in and its ending.                                              *)
(* The thread's variables bytes and packets live from line to line.        *)
(***************************************************************************)
EXTENDS Integers, Sequences

CONSTANTS
    Key,            \* the <<destination, port>> pairs of the lines
    Volumes,        \* the <<number, unit>> pairs of the lines
    Endings,        \* how lines end: "crlf" or "lf"
    MaxLines        \* the length of the file

\* 10 to the power of 3, 6 or 9.
UnitBytes == [K |-> 1000, M |-> 1000000, G |-> 1000000000]

Line == [key : Key, volume : Volumes, ending : Endings]

VARIABLES
    file,       \* the lines not yet read
    packets,    \* the C variable
    line,       \* the line at hand: a sequence of at most one
    demands     \* the demands written: [line, flow] records

vars == <<file, packets, line, demands>>

Init ==
    /\ file \in UNION {[1..n -> Line] : n \in 1..MaxLines}
    /\ packets = 0
    /\ line = << >> /\ demands = << >>

(* Arithmetic in C: / rounds towards zero; gcc on x86 makes the least int of *)
(* a double that no int holds; assigning to a short keeps 16 bits.          *)

MaxInt == 2147483647
Quot(x, y) == IF x < 0 /\ x % y # 0 THEN x \div y + 1 ELSE x \div y
Rem(x, y)  == x - y * Quot(x, y)

\* (int)(n * pow(10, e)), the volume in bytes.
Bytes(n, unit) ==
    IF n > MaxInt \div UnitBytes[unit] THEN - MaxInt - 1 ELSE n * UnitBytes[unit]

ToShort(x) == ((x + 32768) % 65536) - 32768

\* Packets of 1000 bytes, rounded up.
Packets(bytes) ==
    IF Rem(bytes, 1000) = 0 THEN Quot(bytes, 1000) ELSE Quot(bytes, 1000) + 1

\* Slip: a chunk is what the host transmits for a reply, not what is granted.
FlowOfTransmitted(p) == ToShort(Quot(p, 100))

\* The chunks of 50 packets, in a short.
FlowOf(p) == ToShort(Quot(p, 50))

-----------------------------------------------------------------------------
ReadLine ==
    /\ line = << >> /\ file # << >>
    /\ line' = <<Head(file)>>
    /\ file' = Tail(file)
    /\ UNCHANGED <<packets, demands>>

\* The unit is taken from the third character from the end, which is a digit
\* when the line ends in a bare newline: no unit then matches, and packets of
\* the line before are scaled down once more.  send_demands ends without a
\* return, so what command_parser tests is the result of its last call, fflush:
\* when that fails, the rest of the file is not sent.
SendDemand ==
    /\ line # << >>
    /\ LET n == line[1].volume[1]
           unit == line[1].volume[2]
       IN packets' = Packets(IF line[1].ending = "crlf" THEN Bytes(n, unit) ELSE packets)
    /\ demands' = Append(demands, [line |-> line[1], flow |-> FlowOf(packets')])
    /\ line' = << >>
    /\ \/ UNCHANGED file
       \/ file' = << >>

Next == ReadLine \/ SendDemand

Spec == Init /\ [][Next]_vars

-----------------------------------------------------------------------------
\* The volume of a line in packets, whatever the code makes of it.
Wanted(l) == l.volume[1] * (UnitBytes[l.volume[2]] \div 1000)

\* A line as the sample traffic has them, of at least one chunk and with no more
\* chunks than fit a short.
Supported(l) == l.ending = "crlf" /\ 50 <= Wanted(l) /\ Wanted(l) < 50 * 32768

\* The flow of a supported line fits it, whatever lines came before: the 50
\* packets per chunk that the arbiter counts do not exceed the volume, and the
\* 100 that a host transmits per chunk (sendReceive adds 50) cover it, as
\* evaluation.py expects of a flow.
VolumeServed ==
    \A k \in DOMAIN demands :
        LET d == demands[k] IN
        Supported(d.line) => /\ 50 * d.flow <= Wanted(d.line)
                             /\ Wanted(d.line) <= 100 * d.flow
=============================================================================
