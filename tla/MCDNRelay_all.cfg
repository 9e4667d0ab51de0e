CONSTANTS
  Conns = {c1, c2}
  Dests = {d1, d2}
  DestsOf <- OneToFaulty
  Faulty = {d2}
  QueueSize = 1
  MaxNotes = 2
  NoNote = NoNote
  NoDest = NoDest
SPECIFICATION FairSpec
INVARIANT TypeOK
INVARIANT InOnePlace
INVARIANT SenderOrderKept
PROPERTY HealthyServed
PROPERTY ToldWorkersStop
CHECK_DEADLOCK FALSE
