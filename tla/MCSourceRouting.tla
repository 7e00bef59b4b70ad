-------------------------- MODULE MCSourceRouting --------------------------
(***************************************************************************)
(* All pairs of hosts, on tables of which one switch's is filled rule by   *)
(* rule, and deleted and filled again.                                     *)
(***************************************************************************)
EXTENDS SourceRouting

AllIds  == 18..271
AllFlow == {f \in Host \X Host : f[1] # f[2]}

\* All switches but edge switch 7, that of hosts 1 and 2.
Others  == Switch \ {7}
=============================================================================
