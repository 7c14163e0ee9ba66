---------------------------- MODULE FixedHeader ----------------------------
(***************************************************************************)
(* The fixed header (header.rs) and the reader that pulls it off a         *)
(* transport one byte at a time (reader.rs).  A byte is a number; a length *)
(* is written in digits of base Base (128 in the code), least significant  *)
(* first, and a byte of Base or more says that another follows.            *)
(***************************************************************************)
EXTENDS Integers, Sequences, FiniteSets

CONSTANT Base

ASSUME BaseAssumption == Base \in Nat /\ Base > 1

MaxLengthBytes == 4

\* REMAINING_LENGTH_INVALID, one past the largest legal length.
LengthLimit == Base * Base * Base * Base

\* Packet types, as the high half of the type byte.
Nibble(byte) == byte \div 16
ConnAckByte == 32
PublishByte == 48
PubRelByte == 98
PingRespByte == 208
DisconnectByte == 224

\* incoming_packet_valid: what a broker may send.  A PUBREL's reserved bit
\* must be set; AUTH (15) is let through.
IncomingPacketValid(byte) ==
  IF Nibble(byte) = 6 THEN (byte % 4) \div 2 = 1
  ELSE Nibble(byte) \in {2, 3, 4, 5, 7, 9, 11, 13, 14, 15}

Place(i) == CASE i = 1 -> 1 [] i = 2 -> Base [] i = 3 -> Base * Base
              [] i = 4 -> Base * Base * Base

\* variable_length_encoded_size
EncodedSize(n) == IF n < Place(2) THEN 1 ELSE IF n < Place(3) THEN 2
                  ELSE IF n < Place(4) THEN 3 ELSE 4

\* encode_variable_length, into enough room.
Encode(n) ==
  [i \in 1..EncodedSize(n) |->
     ((n \div Place(i)) % Base) + (IF n \div Place(i) >= Base THEN Base ELSE 0)]

\* The number of length bytes: up to the first below Base.  Of bytes that do
\* not end, none.
Ends(bytes) == {i \in 1..MaxLengthBytes : i <= Len(bytes) /\ bytes[i] < Base}
IsFirstEnd(bytes, k) == k \in Ends(bytes) /\ \A i \in Ends(bytes) : k <= i

Digit(bytes, k, i) == IF i <= k THEN (bytes[i] % Base) * Place(i) ELSE 0
Value(bytes, k) == Digit(bytes, k, 1) + Digit(bytes, k, 2) + Digit(bytes, k, 3)
                   + Digit(bytes, k, 4)

NotRead(status) == [status |-> status, value |-> 0, size |-> 0]

\* The length loop of process_incoming_packet_type_and_length: a fifth byte is
\* never read, and an encoding longer than its value needs is refused.
ReadLength(bytes) ==
  LET k == CHOOSE i \in Ends(bytes) : IsFirstEnd(bytes, i)
  IN  IF Ends(bytes) = {}
      THEN NotRead(IF Len(bytes) >= MaxLengthBytes THEN "BadResponse" ELSE "NeedMoreBytes")
      ELSE IF k # EncodedSize(Value(bytes, k)) THEN NotRead("BadResponse")
      ELSE [status |-> "Ok", value |-> Value(bytes, k), size |-> k]

\* process_incoming_packet_type_and_length, with MqttContext::measure's sum:
\* value is the length of the whole packet, header included.
Measure(bytes) ==
  IF bytes = <<>> THEN NotRead("NoDataAvailable")
  ELSE IF ~IncomingPacketValid(bytes[1]) THEN NotRead("BadResponse")
  ELSE LET length == ReadLength(Tail(bytes))
       IN  IF length.status # "Ok" THEN length
           ELSE [status |-> "Ok", value |-> length.value + length.size + 1,
                 size |-> length.size + 1]

\* read_header over what the transport delivers before it first has nothing:
\* only at the type byte is that "not yet".
ReadHeader(bytes) ==
  LET read == Measure(bytes)
  IN  IF read.status = "NeedMoreBytes" THEN NotRead("BadResponse") ELSE read

\* A packet as the peer writes it.
Framed(type, body) == <<type>> \o Encode(Len(body)) \o body
=============================================================================
