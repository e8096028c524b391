---------------------------- MODULE MCWalletLocks ----------------------------
(* WalletLocks on small workloads. *)
EXTENDS WalletLocks

J(p, k, q) == [proc |-> p, kind |-> k, req |-> q]
Load(a, b, c) == "a" :> a @@ "b" :> b @@ "c" :> c

MCJobs == {
  \* a settlement and a release in two processes, against a transition
  Load(J("m", "settle", "q"), J("n", "release", "r"), J("n", "lifecycle", "q")),
  \* the same request settled and released, while credit is granted
  Load(J("m", "settle", "q"), J("m", "release", "q"), J("m", "grant", "r")),
  \* a reservation, another request's settlement and a redemption
  Load(J("m", "reserve", "q"), J("m", "settle", "r"), J("n", "redeem", "q")),
  \* a reservation and the cleanup that expires its holds
  Load(J("n", "reserve", "q"), J("n", "cleanup", "q"), J("m", "redeem", "q"))}

MCSpending == <<1, 2>>
=============================================================================
