CONSTANTS
  Members = {m1, m2, m3}
  Handlers = {h1}
  Calls = {c1, c2}
  Types = {"U", "L", "D"}
  Env = {"pause"}
  BadNotify = FALSE
  AgeLimit = 2
  NoMember = NoMember
  NoCall = NoCall
SPECIFICATION FairSpec
INVARIANT SessionFound
PROPERTY CommandsAnswered
CHECK_DEADLOCK FALSE
