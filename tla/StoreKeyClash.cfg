\* One id in flight in both directions.
SPECIFICATION Spec
CONSTANTS
  PacketIds = {p1}
  PACKET_ID_INVALID = invalid
  OutSlots = 1
  InSlots = 1
  HasStore = TRUE
  OutQoS = {2}
  InQoS = {2}
  InQuota = 1
  ReceiveMaxes = {1}
  Allowed = {}
  MaxFaults = 1
  CountFaults = FALSE
  MaxOnWire = 9
SYMMETRY IdSymmetry
INVARIANTS ResumeCanResend
