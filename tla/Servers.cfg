SPECIFICATION MCSpec
CONSTANTS
  c1 = c1
  c2 = c2
  p1 = p1
  t1 = t1
  t2 = t2
  t3 = t3
  j1 = j1
  j2 = j2
  j3 = j3
  Commands <- CommandSet
  Bytes <- WordLengths
  Lex <- Order
  AsDouble <- Integrals
  AsInt <- Integrals
  KMaxArgs = 8
  Clients = {c1}
  Peers = {p1}
  NoClient = NoClient
  Header = 2
  KMaxMsg04 = 1
  KMaxMsg = 43
  Lengths = {0, 1, 2}
  ReplyLen = 1
  NQueries = 2
  Room = 2
  Keys07 = {1}
  Vals07 = {1, 2}
  Users = {c1, c2}
  Mortal = {c2}
  Scripts <- ScriptSet
  Rooms = {1, 2}
  RBuf = 2
  Nobody = Nobody
  Workers <- WorkerSet
  Jobs <- JobSet
  Main = Main
  None = None
  MaxSpurious = 2
INVARIANTS
  HalfDuplex
  AtMostOnce
  WorkConserving
PROPERTIES
  EveryoneServed
  ImplementsKvService
  AnsweredIfRoom
  ImplementsTypedStore
  EveryJobRuns
  ImplementsJobQueue
CHECK_DEADLOCK FALSE
