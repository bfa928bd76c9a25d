SPECIFICATION SocketFairSpec
CONSTANTS
  MaxEvents = 2
  MaxConns = 2
  RedisConns = 1
  Insts = {i1, i2}
  Home = i1
  ReplayLimit = 1
INVARIANTS
  SocketTypeOK
  NothingMissed
  BuilderHears
PROPERTIES
  Released
CHECK_DEADLOCK FALSE
