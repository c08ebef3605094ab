SPECIFICATION FairSpec
CONSTANTS
  Group = {g1}
  CGATE_LEVEL_MAX = 255
  RAMP_STEP = 26
  Dial = {0, 100}
  Seen = {50}
  MaxAsks = 3
  MaxTurns = 1
INVARIANTS
  RestAgrees
  StopHonoured
PROPERTIES
  RequestObeyed
CHECK_DEADLOCK FALSE
