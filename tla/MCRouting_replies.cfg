CONSTANTS
  Members = {m1, m2}
  Handlers = {h1, h2}
  Calls = {c1}
  Types = {"U", "L", "D", "Ib", "G", "V"}
  Env = {"offline", "age"}
  BadNotify = TRUE
  AgeLimit = 1
  NoMember = NoMember
  NoCall = NoCall
SPECIFICATION Spec
SYMMETRY HandlerSymmetry
INVARIANT TypeOK
INVARIANT AtMostOneReply
CHECK_DEADLOCK FALSE
