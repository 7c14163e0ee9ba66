\* A send fails and the session is resumed from the store.
SPECIFICATION Spec
CONSTANTS
  PacketIds = {p1}
  PACKET_ID_INVALID = invalid
  OutSlots = 1
  InSlots = 1
  HasStore = TRUE
  OutQoS = {1}
  InQoS = {}
  InQuota = 1
  ReceiveMaxes = {1}
  Allowed = {"SendFails"}
  MaxFaults = 1
  CountFaults = FALSE
  MaxOnWire = 9
SYMMETRY IdSymmetry
INVARIANTS AckAccepted
