CONSTANTS
  Members <- TwoMembers
  Threads = {t1, t2}
  Obsolete = {1, 2}
  NoMember = 0
SPECIFICATION Spec
SYMMETRY ThreadSymmetry
INVARIANT TypeOK
INVARIANT ListedOnceUnlessTorn
PROPERTY ActsAsLists
PROPERTY CalmLookupsExact
PROPERTY SkippedBehindRemoved
CHECK_DEADLOCK FALSE
