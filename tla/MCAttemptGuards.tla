-------------------------- MODULE MCAttemptGuards --------------------------
(* Instances of AttemptGuards for TLC.                                      *)
EXTENDS AttemptGuards, TLC

CONSTANTS c1, c2, r1, r2

TwoChannels == <<c1, c2>>
LimitedThenFree == (c1 :> 1) @@ (c2 :> 0)

\* One caller streams, aggregated or forwarded, the other has plain responses.
StreamsThenPlain == (r1 :> {"aggregate", "live"}) @@ (r2 :> {"plain"})
=============================================================================
