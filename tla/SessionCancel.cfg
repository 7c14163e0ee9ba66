\* Outgoing publishes with a store: sends fail or time out, sessions are
\* replaced, and publishes are cancelled.
SPECIFICATION Spec
CONSTANTS
  PacketIds = {p1, p2}
  PACKET_ID_INVALID = invalid
  OutSlots = 2
  InSlots = 1
  HasStore = TRUE
  OutQoS = {1, 2}
  InQoS = {}
  InQuota = 1
  ReceiveMaxes = {2}
  Allowed = {"SendFails", "SendTimesOut", "CleanSession", "Cancels"}
  MaxFaults = 1
  CountFaults = FALSE
  MaxOnWire = 3
SYMMETRY IdSymmetry
INVARIANTS ResumeCanResend
