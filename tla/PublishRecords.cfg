\* Both arrays, filled, emptied, compacted and cut by any calls in any order.
SPECIFICATION Spec
CONSTANTS
  PacketIds = {p1, p2, p3}
  PACKET_ID_INVALID = invalid
  OutSlots = 3
  InSlots = 1
SYMMETRY IdSymmetry
INVARIANTS TypeOK RecordsWellFormed RoomIsFound SweepsComplete
PROPERTIES OutgoingLeavesWhenDone ArraysImplementInFlight
