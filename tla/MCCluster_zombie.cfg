CONSTANTS
  Members = {m1}
  Admins = {a1}
  Calls = {}
  NameOf <- OwnNames
  AdminOps = {"add", "delete"}
  AddStatuses = {"ACTIVE"}
  StartIsSlow = TRUE
  AgeLimit = 2
  NoMember = NoMember
SPECIFICATION Spec
INVARIANT NoZombie
CHECK_DEADLOCK FALSE
