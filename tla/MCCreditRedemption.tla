------------------------- MODULE MCCreditRedemption -------------------------
(* CreditRedemption on a small instance. *)
EXTENDS CreditRedemption, TLC

\* Users, projects and submissions are interchangeable.
Symmetry ==
  Permutations(Users) \cup Permutations(Projects) \cup Permutations(Submissions)
=============================================================================
