--------------------------- MODULE MCConnections ---------------------------
(***************************************************************************)
(* Two hosts, each of which may be killed and started again.               *)
(***************************************************************************)
EXTENDS Connections

Hosts == {1, 2}
=============================================================================
