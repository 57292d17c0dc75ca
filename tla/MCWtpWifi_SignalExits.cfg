SPECIFICATION FairSpec
CONSTANTS
  Wlans = {w0, w1}
  Cfgs = {c1}
  Offered = {c1}
  MaxTable = 1
  MaxScripts = 1
PROPERTY SignalExits
CHECK_DEADLOCK FALSE
