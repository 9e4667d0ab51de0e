CONSTANTS
  Members = {m1, m2}
  Admins = {a1, a2}
  Calls = {}
  NameOf <- OwnNames
  AdminOps = {"add", "delete", "pause", "resume"}
  AddStatuses = {"ACTIVE", "SUSPENDED", "DRAINING"}
  StartIsSlow = FALSE
  AgeLimit = 2
  NoMember = NoMember
SPECIFICATION Spec
SYMMETRY MemberSymmetry
INVARIANT NoDoubleListing
INVARIANT ListedUntilShut
CHECK_DEADLOCK FALSE
