\* Two connections; a CONNACK and two packets from the broker in each.
SPECIFICATION FairSpec
CONSTANTS
  Base = 2
  BufferSize = 5
  Packets <- MCPackets
  Answered <- MCAnswered
  ConnAckBodies <- MCConnAckBodies
  Asked = {2}
  Sendings <- MCSendings
  Connection <- MCConnection
  Ping <- MCPing
  Ack <- MCAck
  SendTimeout = 1
  PollTimeout = 1
  Wrap = 4
  Starts = {3}
  MaxTries = 1
  RefusesDisconnect = FALSE
  MaxDown = 2
  MaxConnections = 2
CHECK_DEADLOCK FALSE
INVARIANTS TypeOK NothingLost NothingLeftWaiting SentAsMade TimeoutsAreReal KeepAliveAgreed
PROPERTIES ImplementsQueue EveryCallReturns EverythingArrives
