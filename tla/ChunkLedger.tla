---------------------------- MODULE ChunkLedger ----------------------------
(***************************************************************************)
(* Where the chunks of a flow are: in a socket, in a receive thread, in a  *)
(* request array, among the replies not yet written, or written.           *)
(***************************************************************************)
EXTENDS Arbiter

\* The chunks of flow f in a demand, and in one still to be read: of other
\* classes nothing is stored.
Chunks(d, f) == IF <<d.src, d.dest>> = f THEN d.flow ELSE 0
Wanted(d, f) == IF ClassOf(d.port) \in Class THEN Chunks(d, f) ELSE 0

Granted(g, f) == IF <<g.src, g.dest>> = f THEN 1 ELSE 0

\* The number of the first reply not yet written.
Unsent == CASE ppc = "send" -> sent + 1 [] ppc = "top" -> Len(reply) + 1 [] OTHER -> 1

Places ==
    (UNION {{"inbox"} \X {h} \X DOMAIN inbox[h] : h \in Client})
      \cup {"thread"} \X {h \in Client : gpc[h] = "lock"} \X {1}
      \cup {"array"} \X Class \X Slot
      \cup {"reply"} \X {0} \X (Unsent..Len(reply))
      \cup (UNION {{"outbox"} \X {h} \X DOMAIN outbox[h] : h \in Client})

ChunksAt(p, f) ==
    CASE p[1] = "inbox"  -> Wanted(inbox[p[2]][p[3]], f)
      [] p[1] = "thread" -> Chunks(demand[p[2]], f)
      [] p[1] = "array"  -> Chunks(request[p[2]][p[3]], f)
      [] p[1] = "reply"  -> Granted(reply[p[3]], f)
      [] p[1] = "outbox" -> Granted(outbox[p[2]][p[3]], f)

\* The chunks of flow f wherever they are, and those that the hosts ask for.
Located(f) == UNION {{p} \X (1..ChunksAt(p, f)) : p \in Places}

Sending == {x \in Client \X (1..ReqSize) : x[2] \in DOMAIN Traffic[x[1]]}
Asked(f) == UNION {{x} \X (1..Wanted(Traffic[x[1]][x[2]], f)) : x \in Sending}

\* No chunk of a flow is lost, served twice or granted to another flow between
\* the host's demand and the replies written to the host: whatever the
\* interleaving of stores, removals and reads past the end of an array.
ChunksConserved == \A f \in Flow : Cardinality(Located(f)) = Cardinality(Asked(f))
=============================================================================
