SPECIFICATION FairSpec
CONSTANTS
  c1 = c1
  c2 = c2
  c3 = c3
  u1 = u1
  u2 = u2
  a1 = a1
  a2 = a2
  t1 = t1
  t2 = t2
  None = None
  Pong = Pong
  Conn = {c1, c2}
  User = {u1}
  Addr = {a1}
  Token = {t1}
  Tables <- FixedTables
  MaxConnections = 2
  MaxQueue = 1
  Batch = 1
PROPERTIES
  ClosedEnds
  HandshakeEnds
  FullQueueDrains
