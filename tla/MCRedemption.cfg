\* Two submissions of one user, or of two users, and a third to race or
\* replay them, for a code that pays twice; three users, two projects.
CONSTANTS
  Users = {u1, u2, u3}
  Projects = {p1, p2}
  Submissions = {c1, c2, c3}
  Most = 2
  Expiry = 1
  MaxTime = 1
SPECIFICATION CodeSpec
SYMMETRY Symmetry
CHECK_DEADLOCK FALSE
INVARIANTS PaysAtMost
PROPERTIES NothingAfterEnd MembersOnly
