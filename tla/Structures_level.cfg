SPECIFICATION MCSpec
CONSTANTS
  Key <- KeySet
  Hash <- Hcode
  InitCap = 2
  MaxLoad = 1
  Work = 1
  Entries <- EntrySet
  Deadlines <- Times
  None = None
  e1 = e1
  e2 = e2
  e3 = e3
  e4 = e4
  e5 = e5
  e6 = e6
  n1 = n1
  n2 = n2
  n3 = n3
  n4 = n4
  NULL = NULL
  NoNode = NULL
  Header = Header
  Addr <- ZslNodes
  Obj <- Objs
  Score <- ZslScores
  Name <- Names
  Scores <- TupleScores
  MaxLevel = 2
  NodeAddr <- LcNodes
  Dummy = Header
  Nil = NULL
  Numbers <- Nums
  MAX_LEVEL = 3
SYMMETRY Symm
VIEW UpToEntries
INVARIANTS LevelIsMax
