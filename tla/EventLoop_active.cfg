CONSTANTS
  Conns = {c1}
  Fds = {4}
  Keys = {}
  TtlMs = {}
  Idle = 2
  MaxWorks = 0
  MS = 2
  UInt = 8
  MaxTime = 6
  None = None
SPECIFICATION ASpec
PROPERTIES ActiveKept
