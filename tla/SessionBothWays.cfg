\* Both directions with a store, and everything that can go wrong but a clean
\* session and a cancel, which leak (see README): sends that fail or time out,
\* refused copies and events, a loop that goes on in DisconnectPending.
SPECIFICATION Spec
CONSTANTS
  PacketIds = {p1, p2}
  PACKET_ID_INVALID = invalid
  OutSlots = 1
  InSlots = 2
  HasStore = TRUE
  OutQoS = {1, 2}
  InQoS = {1, 2}
  InQuota = 2
  ReceiveMaxes = {2}
  Allowed = {"SendFails", "SendTimesOut", "StoreRefuses", "HandlerRefuses", "LoopsWhilePending"}
  MaxFaults = 1
  CountFaults = FALSE
  MaxOnWire = 3
SYMMETRY IdSymmetry
INVARIANTS StoreIsReleased AckedMeansTold RoomForIncoming
