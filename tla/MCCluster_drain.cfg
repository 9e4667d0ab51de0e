CONSTANTS
  Members = {m1, m2}
  Admins = {a1}
  Calls = {c1}
  NameOf <- OneName
  AdminOps = {"add", "delete"}
  AddStatuses = {"ACTIVE"}
  StartIsSlow = TRUE
  AgeLimit = 1
  NoMember = NoMember
SPECIFICATION FairSpec
 
 
PROPERTY RoutedCallsAgeTwice
 
CHECK_DEADLOCK FALSE
