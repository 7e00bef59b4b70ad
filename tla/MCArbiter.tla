----------------------------- MODULE MCArbiter -----------------------------
(***************************************************************************)
(* The arbiter with a few clients, links of two chunks and a few demands.  *)
(***************************************************************************)
EXTENDS ChunkLedger, TLC

D(s, d, f, p) == [src |-> s, dest |-> d, flow |-> f, port |-> p]

\* Two latency-sensitive demands of two hosts, one of them for more than a
\* slot, a demand of no chunks (a volume of less than 50 packets), which stays
\* in its array for ever, and behind them a demand of each other class.
MixFlow    == {<<1, 5>>, <<4, 5>>, <<9, 10>>, <<9, 13>>}
MixTraffic == (1 :> <<D(1, 5, 3, 7001), D(1, 5, 1, 8001)>>)
           @@ (4 :> <<D(4, 5, 0, 7002), D(4, 5, 1, 7002)>>)
           @@ (9 :> <<D(9, 10, 1, 6001), D(9, 13, 1, 5001)>>)
MixPort    == {0, 5001, 6001, 7001, 7002, 8001}

\* One demand of one chunk.
OneFlow    == {<<1, 5>>}
OneTraffic == 1 :> <<D(1, 5, 1, 7001)>>
OnePort    == {0, 7001}

\* Two demands of different sizes that fit in one slot together, and a third
\* that may arrive while they are served.
PairFlow    == {<<1, 5>>, <<4, 9>>, <<6, 13>>}
PairTraffic == (1 :> <<D(1, 5, 1, 7001)>>) @@ (4 :> <<D(4, 9, 2, 7002)>>)
            @@ (6 :> <<D(6, 13, 2, 7003)>>)
PairPort    == {0, 7001, 7002, 7003}
=============================================================================
