\* Both directions without a store: the application repeats what it is told
\* to, and what timed out, until the faults run out.
SPECIFICATION FairSpec
CONSTANTS
  PacketIds = {p1, p2}
  PACKET_ID_INVALID = invalid
  OutSlots = 2
  InSlots = 1
  HasStore = FALSE
  OutQoS = {2}
  InQoS = {1}
  InQuota = 1
  ReceiveMaxes = {2}
  Allowed = {"SendFails", "SendTimesOut", "CleanSession"}
  MaxFaults = 2
  CountFaults = TRUE
  MaxOnWire = 1
INVARIANTS ExactlyOnceOut
PROPERTIES EveryPublishCompletes EveryDeliveryCompletes
