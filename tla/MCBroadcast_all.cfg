CONSTANTS
  Members = {m1, m2, m3}
  Kinds = {"session", "stats"}
  InitialResults <- CodeResults
  NoMember = NoMember
SPECIFICATION FairSpec
INVARIANT RepliedOnce
INVARIANT StatsReplyJustified
 
PROPERTY BroadcastAnswered
CHECK_DEADLOCK FALSE
