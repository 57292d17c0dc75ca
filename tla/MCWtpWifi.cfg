SPECIFICATION Spec
CONSTANTS
  Wlans = {w0, w1}
  Cfgs = {c1, c2}
  Offered = {c1, c2, unknown}
  MaxTable = 2
  MaxScripts = 2
  unknown = unknown
SYMMETRY MCSymmetry
INVARIANTS TypeOK TableHasFiles ServesLast BlocksEarly ExitTurnsOff
PROPERTY KeepsRadio
CHECK_DEADLOCK FALSE
