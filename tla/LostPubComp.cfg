\* A PUBCOMP is lost with its connection.
SPECIFICATION Spec
CONSTANTS
  PacketIds = {p1}
  PACKET_ID_INVALID = invalid
  OutSlots = 0
  InSlots = 1
  HasStore = TRUE
  OutQoS = {}
  InQoS = {2}
  InQuota = 1
  ReceiveMaxes = {1}
  Allowed = {}
  MaxFaults = 1
  CountFaults = FALSE
  MaxOnWire = 9
SYMMETRY IdSymmetry
INVARIANTS AckAccepted
