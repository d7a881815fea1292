SPECIFICATION Spec
CONSTANTS
  Conns = {c1, c2}
  Addrs = {a1, a2}
  MaxPerIP = 1
  MaxGlobal = 2
  SendCap = 1
  NoAddr = NoAddr
SYMMETRY Symmetry
INVARIANTS TypeOK SlotsMatchSessions GaugeCountsSessions
CHECK_DEADLOCK FALSE
