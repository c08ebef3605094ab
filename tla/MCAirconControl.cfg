SPECIFICATION FairSpec
CONSTANTS
  Unit = {u1, u2}
  OnMode = {1, 4}
  Asked = {40}
  Dialled = {22, 60}
  Speed = {0, 3}
  MaxAsks = 3
  MaxTurns = 1
INVARIANTS
  LatestRequestWins
  ViewsAgree
PROPERTIES
  WardLearned
  RequestServed
CHECK_DEADLOCK FALSE
