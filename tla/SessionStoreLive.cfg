\* Both directions with a store: connections drop but sends do not fail.
SPECIFICATION FairSpec
CONSTANTS
  PacketIds = {p1, p2}
  PACKET_ID_INVALID = invalid
  OutSlots = 2
  InSlots = 1
  HasStore = TRUE
  OutQoS = {1, 2}
  InQoS = {1}
  InQuota = 1
  ReceiveMaxes = {2}
  Allowed = {"CleanSession"}
  MaxFaults = 2
  CountFaults = TRUE
  MaxOnWire = 1
INVARIANTS AckAccepted
PROPERTIES EveryPublishCompletes
