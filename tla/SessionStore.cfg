\* Outgoing publishes with a store: sends fail or time out, copies are
\* refused, connections drop and sessions are replaced.
SPECIFICATION Spec
CONSTANTS
  PacketIds = {p1, p2, p3}
  PACKET_ID_INVALID = invalid
  OutSlots = 3
  InSlots = 1
  HasStore = TRUE
  OutQoS = {1, 2}
  InQoS = {}
  InQuota = 1
  ReceiveMaxes = {3}
  Allowed = {"SendFails", "SendTimesOut", "StoreRefuses", "CleanSession"}
  MaxFaults = 1
  CountFaults = FALSE
  MaxOnWire = 9
SYMMETRY IdSymmetry
INVARIANTS TypeOK ExactlyOnceOut ForwardedInOrder
PROPERTIES CompletedMeansForwarded
