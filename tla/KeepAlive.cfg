\* A read that finds something is followed by one that finds nothing.
SPECIFICATION FairSpec
CONSTANTS
  Wrap = 9
  PacketTxTimeout = 2
  PacketRxTimeout = 3
  PingTimeout = 1
  KeepAlives = {0, 1, 9}
  MaxGap = 1
  Steady = FALSE
  AppPings = TRUE
INVARIANTS TypeOK NoFalseTimeout KeepsAlive
PROPERTIES DeadBrokerNoticed
