SPECIFICATION Spec
CONSTANTS
  Peers = {ac, other_peer}
  AC = ac
  SeqMod = 2
  Wlans = {0, 1}
  EchoTimes = {1, 2}
  Bodies <- MCBodies
  NWifi = 2
  EchoMax = 1
  DscvTime = 1
  JoinTime = 1
  SulkTime = 1
  WaitTime = 2
  RecovTime = 1
  WaitTries = 2
  RecovTries = 2
  RunPause = 1
  WaitPause = 1
  RecovPause = 2
  RebootResults = {TRUE, FALSE}
INVARIANT GivesUpForGood
CHECK_DEADLOCK FALSE
