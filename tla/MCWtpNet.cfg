SPECIFICATION FairNetSpec
CONSTANTS
  Peers = {ac}
  AC = ac
  SeqMod = 2
  Wlans = {0}
  EchoTimes = {3}
  Bodies <- MCBodies
  JoinBodies <- MCJoinBodies
  NWifi = 2
  EchoMax = 1
  DscvTime = 3
  JoinTime = 3
  SulkTime = 0
  WaitTime = 1
  RecovTime = 1
  WaitTries = 2
  RecovTries = 2
  RunPause = 1
  WaitPause = 1
  RecovPause = 2
  RebootResults = {TRUE}
  Delay = 1
  MaxWire = 1
  Horizon = 10
INVARIANTS NetTypeOK DeadAcNoticed DeadAcEscalates
PROPERTIES Stabilises JoinsAtOnce KeepsContact
CHECK_DEADLOCK FALSE
