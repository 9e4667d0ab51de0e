CONSTANTS
  Names = {A, B}
  Hosts = {h1, h2}
  Addresses = {x, y}
  Unix = Unix
  Relays = {r1, r2}
  Configs <- Files
  Additions <- Added
  NoRelay = NoRelay
  NoList = NoList
  NoName = NoName
  NoConfig = NoConfig
  A = A
  B = B
  h1 = h1
  h2 = h2
  x = x
  y = y
  r1 = r1
  r2 = r2
SPECIFICATION Spec
INVARIANT RunningListed
 
INVARIANT AcceptsOnlyMembers
INVARIANT MembersAccepted
 
CHECK_DEADLOCK FALSE
