-------------------------- MODULE CreditRedemption --------------------------
(***************************************************************************)
(* One credit redemption code: created, redeemed by members of projects    *)
(* and revoked (conduit-bin/src/wiring_postgres_redemption.rs), while      *)
(* memberships end.  A transaction keeps its locks to the end; one that    *)
(* waits for the code's row sees it as the last holder left it.  Answers   *)
(* may be lost, and users try again, for another project too, and before   *)
(* an earlier submission of theirs has ended.                              *)
(***************************************************************************)
EXTENDS Naturals, FiniteSets

CONSTANTS Users, Projects,
          Submissions,  \* how many calls of redeem_code run at once
          Most,         \* max_redemptions of the batch
          Expiry,       \* expires_at of the batch
          MaxTime       \* bound on the clock

NoOne == "none"

CodeAssumption ==
  /\ Most \in Nat \ {0} /\ {Expiry, MaxTime} \subseteq Nat
  /\ NoOne \notin Submissions

ASSUME CodeIsSound == CodeAssumption

NoTx == [pc |-> "idle", by |-> NoOne, for |-> NoOne, begun |-> 0, got |-> 0, at |-> 0]

VARIABLES
  now,       \* clock_timestamp() of the database
  status,    \* credit_redemption_codes.status
  holder,    \* the submission that holds the lock on the code's row
  members,   \* user_projects, of active users and projects
  tx,        \* tx[c]: the transaction of submission c
  receipts,  \* credit_redemption_receipts, each with its ledger entry
  credit     \* credit[p]: redemption entries of p's ledger

codeVars == <<now, status, holder, members, tx, receipts, credit>>

Idle(c) == tx' = [tx EXCEPT ![c] = NoTx]

\* The receipt that the user of the submission has for the code
Receipt(c) == {r \in receipts: r.user = tx[c].by}

----------------------------------------------------------------------------

\* create_codes compares with the start of its transaction.
Create ==
  /\ status = "none"
  /\ \E begun \in 0..now: Expiry > begun
  /\ status' = "active"
  /\ UNCHANGED <<now, holder, members, tx, receipts, credit>>

\* A faulty version: the authorisation is not kept locked.
NoShares(u, p) == FALSE

\* FOR SHARE of the membership, the user and the project
Shares(u, p) ==
  \E c \in Submissions: tx[c].pc # "idle" /\ tx[c].by = u /\ tx[c].for = p

Authorize(c, u, p) ==
  /\ tx[c].pc = "idle"
  /\ <<u, p>> \in members
  /\ tx' = [tx EXCEPT ![c] = [NoTx EXCEPT !.pc = "lock", !.by = u, !.for = p, !.begun = now]]
  /\ UNCHANGED <<now, status, holder, members, receipts, credit>>

\* A faulty version: the time of the transaction's start.
BegunAt(c) == tx[c].begun

\* The wall clock, once the lock is held
RedeemedAt(c) == now

\* A faulty version: the code is read without a lock.
ReadCode(c) ==
  /\ tx[c].pc = "lock" /\ status # "none"
  /\ tx' = [tx EXCEPT ![c].pc = "decide", ![c].got = now, ![c].at = RedeemedAt(c)]
  /\ UNCHANGED <<now, status, holder, members, receipts, credit>>

LockCode(c) ==
  /\ tx[c].pc = "lock" /\ status # "none"
  /\ holder = NoOne /\ holder' = c
  /\ tx' = [tx EXCEPT ![c].pc = "decide", ![c].got = now, ![c].at = RedeemedAt(c)]
  /\ UNCHANGED <<now, status, members, receipts, credit>>

Unlock(c) == holder' = IF holder = c THEN NoOne ELSE holder

\* A user who has a receipt gets it back, for the same project, in whatever
\* state the code is; anyone else is refused once the code is used up.
Unavailable(c) ==
  IF Receipt(c) # {} THEN \A r \in Receipt(c): r.project # tx[c].for
  ELSE status # "active" \/ Expiry <= tx[c].at \/ Cardinality(receipts) >= Most

Refuse(c) ==
  /\ tx[c].pc = "decide"
  /\ Unavailable(c)
  /\ Idle(c) /\ Unlock(c)
  /\ UNCHANGED <<now, status, members, receipts, credit>>

Replay(c) ==
  /\ tx[c].pc = "decide" /\ Receipt(c) # {}
  /\ ~Unavailable(c)
  /\ Idle(c) /\ Unlock(c)
  /\ UNCHANGED <<now, status, members, receipts, credit>>

Grant(c) ==
  /\ tx[c].pc = "decide" /\ Receipt(c) = {}
  /\ ~Unavailable(c)
  /\ tx' = [tx EXCEPT ![c].pc = "commit"]
  /\ UNCHANGED <<now, status, holder, members, receipts, credit>>

\* The ledger entry, the receipt and, with the last one, the code's end.
Commit(c) ==
  /\ tx[c].pc = "commit"
  /\ receipts' = receipts \cup {[user |-> tx[c].by, project |-> tx[c].for, got |-> tx[c].got]}
  /\ credit' = [credit EXCEPT ![tx[c].for] = @ + 1]
  /\ status' = IF Cardinality(receipts) + 1 = Most THEN "redeemed" ELSE status
  /\ Idle(c) /\ Unlock(c)
  /\ UNCHANGED <<now, members>>

\* Any statement may fail, and the connection end: nothing remains.
RollBack(c) ==
  /\ tx[c].pc # "idle"
  /\ Idle(c) /\ Unlock(c)
  /\ UNCHANGED <<now, status, members, receipts, credit>>

Revoke ==
  /\ holder = NoOne
  /\ status = "active" /\ Expiry > now
  /\ status' = "revoked"
  /\ UNCHANGED <<now, holder, members, tx, receipts, credit>>

\* A membership is deleted, a user deactivated or a project archived.
RemoveMember(u, p) ==
  /\ <<u, p>> \in members /\ ~Shares(u, p)
  /\ members' = members \ {<<u, p>>}
  /\ UNCHANGED <<now, status, holder, tx, receipts, credit>>

Tick ==
  /\ now < MaxTime /\ now' = now + 1
  /\ UNCHANGED <<status, holder, members, tx, receipts, credit>>

----------------------------------------------------------------------------

CodeInit ==
  /\ now = 0 /\ status = "none" /\ holder = NoOne
  /\ members = Users \X Projects
  /\ tx = [c \in Submissions |-> NoTx]
  /\ receipts = {} /\ credit = [p \in Projects |-> 0]

CodeNext ==
  \/ Create \/ Revoke \/ Tick
  \/ \E c \in Submissions:
       LockCode(c) \/ Refuse(c) \/ Replay(c) \/ Grant(c) \/ Commit(c) \/ RollBack(c)
  \/ \E c \in Submissions, u \in Users, p \in Projects: Authorize(c, u, p)
  \/ \E u \in Users, p \in Projects: RemoveMember(u, p)

CodeSpec == CodeInit /\ [][CodeNext]_codeVars

----------------------------------------------------------------------------
(* Properties                                                              *)

\* However many users redeem, retry and switch projects at once, and however
\* many submissions of one user wait for each other, a code pays out at most
\* max_redemptions times and once per user, and every payment is in the ledger
\* of the receipt's project.
PaysAtMost ==
  /\ Cardinality(receipts) <= Most
  /\ \A r, s \in receipts: r.user = s.user => r = s
  /\ \A p \in Projects: credit[p] = Cardinality({r \in receipts: r.project = p})

\* The end of a code is final: a code that is revoked or used up pays nothing
\* more and says so, and who waited for the lock until it had expired gets
\* nothing.
NothingAfterEnd ==
  [][/\ status \in {"revoked", "redeemed"} => receipts' = receipts /\ status' = status
     /\ Cardinality(receipts') = Most => status' # "active"
     /\ \A r \in receipts' \ receipts: r.got < Expiry]_codeVars

\* Credit goes only to projects of which the user is still a member.
MembersOnly ==
  [][\A r \in receipts' \ receipts: <<r.user, r.project>> \in members']_codeVars
=============================================================================
