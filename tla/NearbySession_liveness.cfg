SPECIFICATION FairSpec
CONSTANTS
  Conns = {c1}
  Addrs = {a1}
  MaxPerIP = 1
  MaxGlobal = 1
  SendCap = 2
  NoAddr = NoAddr
PROPERTIES FailedSessionsEnd IdleSessionsEnd
CHECK_DEADLOCK FALSE
