--------------------------- MODULE MCProjectWallet ---------------------------
(***************************************************************************)
(* Small instances of ProjectWallet for TLC.                               *)
(***************************************************************************)
EXTENDS ProjectWallet, TLC

\* Contention: every request may draw from the one bucket.
OneBucketGrant == 1 :> 2
OneBucketEnd == 1 :> 2
AnyBucket == [r \in Requests |-> Buckets]

\* Draw order: two buckets, the first one expiring earlier.
TwoBucketGrants == 1 :> 1 @@ 2 :> 2
TwoBucketEnds == 1 :> 1 @@ 2 :> 2

\* With one bucket open to all, request keys and grant keys are alike.
Alike == Permutations(Requests)
=============================================================================
