CONSTANTS
  c1 = c1  c2 = c2  k1 = k1  k2 = k2
  Conns <- ConnSet
  Fds = {4, 5}
  Keys <- KeySet
  TtlMs = {1, 5, 9}
  Idle = 2
  MaxWorks = 0
  MS = 2
  UInt = 8
  MaxTime = 6
  None = None
SPECIFICATION Spec
SYMMETRY Symm
INVARIANTS TypeOK TablesAgree PolledLive NoneOverdue NoOversleep NoSpin
PROPERTIES ReadyKept
