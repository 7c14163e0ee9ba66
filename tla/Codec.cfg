\* Two properties to a section, packets of up to 260 bytes.
SPECIFICATION Spec
CONSTANTS
  Base = 4
  NetworkSize = 40
  AckCapacity = 11
  Capacity = 12
  OutgoingRecords = TRUE
  IncomingRecords = TRUE
  Connections <- MCConnections
  Sends <- MCSends
  Arrivals <- MCArrivals
  Replies <- MCReplies
  Bends = {0, 1}
  MaxSaid = 2
  PacketId <- MCPacketId
  Names <- MCNames
  Filters <- MCFilters
CHECK_DEADLOCK FALSE
INVARIANTS ReadsBack BuiltIsAccepted WrittenAlike HeardAsSent WithinLimits HeardOnlyAsSent
INVARIANTS AckSaysOwn MatchesAsDefined
