SPECIFICATION FairSpec
CONSTANTS
  Base = 6
  Half = 2
  Word = 4
  AttrCap = 15
  PayPos = 2
  MsgCap = 30
  Rescode = 1
  Echo = 2
  WifiCfg = 4
  SecKey = 6
  Board = 7
  Puts <- MCPuts
  Datagrams <- MCDatagrams
INVARIANT CutIsRefused
CHECK_DEADLOCK FALSE
