---------------------------- MODULE DrawDownLoop ----------------------------
(***************************************************************************)
(* The draw-down loop of reserve_request step by step, to show that it     *)
(* computes the take that DrawDowns describes.  ProjectWallet uses         *)
(* DrawDowns instead of the loop.                                          *)
(***************************************************************************)
EXTENDS DrawDown

CONSTANTS N,         \* number of sources; they are tried in the order 1..N
          MaxAvail,  \* bound on what a source has
          MaxAmount  \* bound on the amount

\* What the theorems of AllowanceProofs assume of these.
BoundsType == N \in Nat /\ MaxAvail \in Nat /\ MaxAmount \in Nat

Src == 1..N

VARIABLES avail,      \* what each source has
          amount,     \* the amount to find
          remaining,  \* what is still to be found
          at,         \* the source the loop looks at
          take        \* what each source gives

vars == <<avail, amount, remaining, at, take>>

Init ==
  /\ avail \in [Src -> 0..MaxAvail]
  /\ amount \in 0..MaxAmount
  /\ remaining = amount
  /\ at = 1
  /\ take = [b \in Src |-> 0]

Done == at = N + 1

\* if remaining == 0 { break; }
Break ==
  /\ ~Done
  /\ remaining = 0
  /\ at' = N + 1
  /\ UNCHANGED <<avail, amount, remaining, take>>

\* let take = remaining.min(available); if take == 0 { continue; }
Draw ==
  /\ ~Done
  /\ remaining > 0
  /\ LET t == Least(remaining, avail[at])
     IN  /\ take' = [take EXCEPT ![at] = t]
         /\ remaining' = remaining - t
  /\ at' = at + 1
  /\ UNCHANGED <<avail, amount>>

Next == Break \/ Draw

Spec == Init /\ [][Next]_vars

(***************************************************************************)
(* Types of the loop's state.                                              *)
(***************************************************************************)
TypeOK ==
  /\ avail \in [Src -> Nat]
  /\ amount \in Nat
  /\ remaining \in Nat
  /\ at \in 1..(N + 1)
  /\ take \in [Src -> Nat]

(***************************************************************************)
(* Half-way through, what is drawn and what remains add up to the amount,  *)
(* sources not reached gave nothing, and while something remains every     *)
(* earlier source is exhausted.                                            *)
(***************************************************************************)
LoopInv ==
  /\ Sum(take) + remaining = amount
  /\ \A b \in Src : take[b] <= avail[b]
  /\ \A b \in Src : b >= at /\ ~Done => take[b] = 0
  /\ \A b \in Src : b < at /\ remaining > 0 => take[b] = avail[b]
  /\ \A b, c \in Src : b < c /\ take[c] > 0 => take[b] = avail[b]

(***************************************************************************)
(* The loop ends with a take that DrawDowns describes, and leaves as       *)
(* remaining the rest that the caller asks project credit for.             *)
(***************************************************************************)
LoopDrawsDown ==
  Done => /\ take \in DrawDowns(Src, avail, amount)
          /\ remaining = amount - Sum(take)

(***************************************************************************)
(* There is only one such take, so an action of ProjectWallet that picks   *)
(* an element of DrawDowns does what the loop does.                        *)
(***************************************************************************)
OnlyOneDrawDown ==
  Done => \A other \in DrawDowns(Src, avail, amount) : other = take
=============================================================================
