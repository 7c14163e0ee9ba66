-------------------------------- MODULE Wire --------------------------------
(***************************************************************************)
(* One client on its transport, at the level of bytes: connect and the     *)
(* wait for the CONNACK (session.rs 70-240, 639-777), the receive loop and *)
(* its one buffer (loop_.rs 97-251), every way of sending (client.rs       *)
(* 720-988, 1310-1535), and a transport that delivers and takes what it    *)
(* likes and may fail at any call.                                         *)
(***************************************************************************)
EXTENDS FixedHeader, SendPath

CONSTANTS
  BufferSize,        \* network.len()
  Packets,           \* what the broker may send once it has accepted
  Answered,          \* the type bytes among them that are acknowledged
  ConnAckBodies,     \* <<reason code, keep alive>>, a keep alive of 0 absent
  Asked,             \* the keep alives a CONNECT may ask for
  Sendings,          \* [what, sender, gathers]: the application's own packets
  Connection,        \* the parts of a CONNECT and a DISCONNECT
  Ping,              \* the one part of a PINGREQ
  Ack,               \* the parts of an acknowledgement
  SendTimeout, PollTimeout, Wrap,   \* SEND_TIMEOUT_MS, RECV_POLLING_TIMEOUT_MS, 2^32
  Starts,            \* what the clock may read when a wait begins
  MaxTries,          \* MAX_CONNACK_RECEIVE_RETRY_COUNT
  RefusesDisconnect, \* the application may refuse the event of a DISCONNECT
  MaxDown, MaxConnections    \* bounds: packets after a CONNACK, connections

\* What a packet is cut into: gathers that all have bytes (a header, or at least
\* one topic), and whose bytes are the packet's offsets.
Made(gathers) ==
  /\ gathers \in Seq(Seq(Seq(Nat))) /\ gathers # <<>>
  /\ \A i \in DOMAIN gathers : Bytes(gathers[i]) # <<>>
  /\ \A k \in DOMAIN Bytes(FlattenSeq(gathers)) : Bytes(FlattenSeq(gathers))[k] = k

ASSUME WireAssumption ==
  /\ BufferSize \in Nat /\ MaxTries \in Nat
  /\ SendTimeout \in Nat /\ PollTimeout \in Nat
  /\ Wrap \in Nat /\ SendTimeout + 2 < Wrap /\ PollTimeout + 2 < Wrap
  /\ Starts \subseteq 0..(Wrap - 1)
  /\ \A p \in Packets : p \in Seq(Nat) /\ Measure(p).status = "Ok" /\ Measure(p).value = Len(p)
  /\ \A b \in ConnAckBodies : b \in Seq(Nat) /\ Len(b) < LengthLimit
  /\ \A s \in Sendings : s.what \notin {"Connect", "Disconnect", "LoopPing", "Ack", "None"}
  /\ \A s \in Sendings : Made(s.gathers)
  /\ Made(<<Connection>>) /\ Made(<<Ping>>) /\ Made(<<Ack>>)
  /\ RefusesDisconnect \in BOOLEAN

VARIABLES
  status,      \* connect_status
  phase,       \* where the call in progress is, "Idle" when there is none
  buffer,      \* the first `index` bytes of the network buffer
  answer,      \* what the last receive call answered
  sending,     \* the send in progress
  down,        \* the bytes in transit towards the client
  stream, ends,   \* ghosts: every byte the broker sent here, where packets end
  taken,       \* ghost: how many of them the client has consumed
  timer,       \* the clock of the wait or the send in progress, and its true age
  tries,       \* receive_connack's loop_count
  body,        \* how much of the CONNACK is still to come, and what has
  keepAlive,   \* keep_alive_seconds, and the server's slot it is copied from
  connections

network == <<buffer, down, stream, ends, taken>>
vars == <<status, phase, buffer, answer, sending, down, stream, ends, taken,
          timer, tries, body, keepAlive, connections>>

NoSending == [what |-> "None", sender |-> "None", parts |-> <<>>, later |-> <<>>,
              out |-> <<>>, size |-> 0, outcome |-> "None"]
NoBody == [wanted |-> 0, got |-> <<>>]

NoTimer == [now |-> 0, start |-> 0, age |-> 0]

\* A clock just read for the first time, and one read after d more ticks.
Timers == {[now |-> t, start |-> t, age |-> 0] : t \in Starts}
Later(d) == [timer EXCEPT !.now = (timer.now + d) % Wrap, !.age = timer.age + d]
Restarted(t) == [t EXCEPT !.start = t.now, !.age = 0]
Running(t) == ElapsedMs(t.now, t.start, Wrap)

Init ==
  /\ status = "NotConnected" /\ phase = "Idle" /\ answer = "Ok"
  /\ buffer = <<>> /\ down = <<>> /\ stream = <<>> /\ ends = {} /\ taken = 0
  /\ sending = NoSending
  /\ timer = NoTimer /\ tries = 0 /\ body = NoBody
  /\ keepAlive = [inForce |-> 0, server |-> 0, asked |-> 0, heard |-> 0]
  /\ connections = 0

---------------------------------------------------------------------------
(* Sending. *)

\* The bytes of a packet are its offsets, counted over all its gathers.
Begin(what, sender, gathers) ==
  /\ phase' = "Sending"
  /\ timer' \in Timers
  /\ sending' = [what |-> what, sender |-> sender, parts |-> Head(gathers),
                 later |-> Tail(gathers), out |-> <<>>,
                 size |-> Len(Bytes(FlattenSeq(gathers))), outcome |-> "None"]

\* The application's publish, subscribe, unsubscribe or ping.
Send ==
  /\ phase = "Idle" /\ status = "Connected"
  /\ \E s \in Sendings : Begin(s.what, s.sender, s.gathers)
  /\ UNCHANGED <<status, network, answer, tries, body, keepAlive, connections>>

\* One turn of the sender's loop: the transport takes some or none of what is
\* left, and the clock is read again.
SendTurn(d) ==
  /\ phase = "Sending" /\ sending.outcome = "None"
  /\ \E some \in 0..Len(Bytes(sending.parts)) :
     \E rest \in {Advance(sending.parts, some)}, t \in {Later(d)},
        out \in {sending.out \o SubSeq(Bytes(sending.parts), 1, some)} :
       \/ /\ rest = <<>> /\ sending.later = <<>>
          /\ timer' = t
          /\ sending' = [sending EXCEPT !.parts = <<>>, !.out = out, !.outcome = "Sent"]
       \/ /\ rest = <<>> /\ sending.later # <<>>
          /\ timer' = Restarted(t)
          /\ sending' = [sending EXCEPT !.parts = Head(sending.later),
                                        !.later = Tail(sending.later), !.out = out]
       \/ /\ rest # <<>>
          /\ timer' = t
          /\ sending' = [sending EXCEPT !.parts = rest, !.out = out, !.outcome =
                IF GivesUp(sending.sender, Running(t), SendTimeout) THEN "TimedOut" ELSE "None"]
  /\ UNCHANGED <<status, phase, network, answer, tries, body, keepAlive, connections>>

\* A failed transport is noted, unless the connection is on its way up or down.
Broken == IF status = "Connected" THEN "DisconnectPending" ELSE status

SendBreaks ==
  /\ phase = "Sending" /\ sending.outcome = "None"
  /\ status' = Broken
  /\ sending' = [sending EXCEPT !.outcome = "Broken"]
  /\ UNCHANGED <<phase, network, answer, timer, tries, body, keepAlive, connections>>

\* Where the call goes on when its packet has gone.
AfterSent(what) ==
  CASE what = "Connect" -> "ConnAck" [] what = "LoopPing" -> "Front"
    [] what = "Ack" -> "Consume" [] OTHER -> "Idle"

\* Anything but the whole packet is a failure to whoever sent it: the call
\* ends there, with the status as it is.
SendReturns ==
  /\ phase = "Sending" /\ sending.outcome # "None"
  /\ phase' = IF sending.outcome = "Sent" THEN AfterSent(sending.what) ELSE "Idle"
  /\ answer' = IF sending.outcome # "Sent" /\ sending.what \in {"LoopPing", "Ack"}
               THEN "SendFailed" ELSE answer
  /\ sending' = NoSending /\ timer' = NoTimer
  /\ UNCHANGED <<status, network, tries, body, keepAlive, connections>>

---------------------------------------------------------------------------
(* connect. *)

\* connect and connect_inner up to send_connect: a connection is opened and
\* the keep alive asked for goes into the server's slot.  Neither the buffer
\* nor its index is touched.
Connect ==
  /\ phase = "Idle" /\ status = "NotConnected" /\ connections < MaxConnections
  /\ connections' = connections + 1
  /\ down' = <<>> /\ stream' = <<>> /\ ends' = {} /\ taken' = 0
  /\ \E asked \in Asked :
       keepAlive' = [keepAlive EXCEPT !.server = asked, !.asked = asked, !.heard = 0]
  /\ tries' = 0 /\ body' = NoBody
  /\ Begin("Connect", "Vectors", <<Connection>>)
  /\ UNCHANGED <<status, buffer, answer>>

\* The client takes n bytes off the transport, outside its own buffer.
Take(n) ==
  /\ down' = SubSeq(down, n + 1, Len(down))
  /\ taken' = taken + n
  /\ UNCHANGED <<stream, ends>>

\* A connect that fails leaves the context as it is; the application closes
\* its transport and the broker's bytes are lost.
ConnectFails ==
  /\ phase' = "Idle" /\ timer' = NoTimer /\ body' = NoBody
  /\ down' = <<>> /\ stream' = <<>> /\ ends' = {} /\ taken' = 0
  /\ UNCHANGED <<status, buffer, answer, sending, tries, keepAlive, connections>>

\* receive_connack's loop, called with no timeout: read_header gets a header,
\* or part of one, or nothing, which is tried again until the tries run out.
ReadConnAckHeader ==
  /\ phase = "ConnAck"
  /\ \/ /\ tries < MaxTries
        /\ tries' = tries + 1
        /\ UNCHANGED <<status, phase, buffer, answer, sending, timer, body,
                       keepAlive, connections>> /\ Take(0)
     \/ /\ tries >= MaxTries
        /\ ConnectFails
     \/ \E n \in 1..Len(down) :
          \E read \in {ReadHeader(SubSeq(down, 1, n))} :
          LET fits == read.value - read.size <= BufferSize
          IN  /\ \A i \in 1..(n - 1) : Measure(SubSeq(down, 1, i)).status = "NeedMoreBytes"
              /\ \/ /\ read.status # "Ok" \/ down[1] # ConnAckByte \/ ~fits
                    /\ ConnectFails
                 \/ /\ read.status = "Ok" /\ down[1] = ConnAckByte /\ fits
                    /\ phase' = "Body" /\ Take(n)
                    /\ body' = [wanted |-> read.value - read.size, got |-> <<>>]
                    /\ timer' \in Timers
                    /\ UNCHANGED <<status, buffer, answer, sending, tries,
                                   keepAlive, connections>>

\* Every byte that comes starts the polling timeout again.
Heard(t) == Restarted(t)

\* recv_exact's loop over the body of the CONNACK.
ReadConnAckBody(d) ==
  /\ phase = "Body" /\ Len(body.got) < body.wanted
  /\ \/ \E n \in 1..Len(down) :
          /\ Len(body.got) + n <= body.wanted
          /\ body' = [body EXCEPT !.got = body.got \o SubSeq(down, 1, n)]
          /\ timer' = Heard(Later(d)) /\ Take(n)
          /\ UNCHANGED <<status, phase, buffer, answer, sending, tries, keepAlive,
                         connections>>
     \/ /\ Running(Later(d)) < PollTimeout
        /\ timer' = Later(d)
        /\ UNCHANGED <<status, phase, network, body, answer, sending, tries, keepAlive,
                       connections>>
     \/ /\ Running(Later(d)) >= PollTimeout
        /\ ConnectFails

\* recv fails, before or inside the CONNACK.
ReadConnAckBreaks ==
  /\ phase \in {"ConnAck", "Body"}
  /\ ConnectFails

\* Slip: an absent Server Keep Alive is zero.
Slip_ServerKeepAlive(present) == present

\* apply_connack for the Server Keep Alive: absent, the slot keeps what
\* send_connect has put there.
ServerKeepAlive(present) == IF present = 0 THEN keepAlive.server ELSE present

\* The rest of receive_connack and of connect_inner: what the CONNACK says is
\* applied before it is looked at, and its body lies at the front of the
\* network buffer.
ConnAckRead ==
  /\ phase = "Body" /\ Len(body.got) = body.wanted
  /\ buffer' = [i \in DOMAIN buffer |-> IF i <= body.wanted THEN body.got[i] ELSE buffer[i]]
  /\ LET server == ServerKeepAlive(body.got[2])
     IN  \/ /\ body.got[1] = 0
           /\ status' = "Connected"
           /\ keepAlive' = [keepAlive EXCEPT !.server = server, !.inForce = server,
                                             !.heard = body.got[2]]
        \/ /\ body.got[1] # 0
           /\ keepAlive' = [keepAlive EXCEPT !.server = server, !.heard = body.got[2]]
           /\ UNCHANGED status
  /\ phase' = "Idle" /\ answer' = "Ok" /\ body' = NoBody /\ timer' = NoTimer
  /\ tries' = 0
  /\ UNCHANGED <<sending, down, stream, ends, taken, connections>>

\* Slip: the bytes received so far are kept.
Slip_Emptied(bytes) == bytes

\* disconnect puts the index back to zero.
Emptied(bytes) == <<>>

\* disconnect: closed before the packet is sent, and whether or not it goes.
Disconnect ==
  /\ phase = "Idle" /\ status # "NotConnected"
  /\ status' = "NotConnected"
  /\ buffer' = Emptied(buffer)
  /\ Begin("Disconnect", "Vectors", <<Connection>>)
  /\ UNCHANGED <<answer, down, stream, ends, taken, tries, body, keepAlive, connections>>

---------------------------------------------------------------------------
(* The receive loop. *)

Returns(result) ==
  /\ phase' = "Idle" /\ answer' = result
  /\ UNCHANGED <<sending, timer, tries, body, keepAlive, connections>>

Goes(to) ==
  /\ phase' = to
  /\ UNCHANGED <<status, answer, sending, timer, tries, body, keepAlive, connections>>

\* The one read of receive_single_iteration.  The keep alive is looked at in a
\* turn in which nothing was read.
Read(n) ==
  /\ phase = "Idle" /\ status # "NotConnected"
  /\ Len(buffer) + n <= BufferSize
  /\ buffer' = buffer \o SubSeq(down, 1, n)
  /\ down' = SubSeq(down, n + 1, Len(down))
  /\ Goes(IF n = 0 THEN "KeepAlive" ELSE "Front")
  /\ UNCHANGED <<stream, ends, taken>>

ReadBreaks ==
  /\ phase = "Idle" /\ status # "NotConnected"
  /\ status' = Broken
  /\ Returns("RecvFailed")
  /\ UNCHANGED network

\* handle_keep_alive by its outcomes: nothing to do (or receive_loop, which
\* leaves it to the caller), a PINGREQ, or a timeout.  A malformed header is
\* answered first.
LooksAtKeepAlive ==
  /\ phase = "KeepAlive"
  /\ \/ Goes("Front")
     \/ /\ Measure(buffer).status # "BadResponse" /\ status = "Connected"
        /\ Begin("LoopPing", "Buffer", <<Ping>>)
        /\ UNCHANGED <<status, answer, tries, body, keepAlive, connections>>
     \/ /\ Measure(buffer).status # "BadResponse"
        /\ Returns("KeepAliveTimeout") /\ UNCHANGED status
  /\ UNCHANGED network

\* Slip: a packet that can never fit is waited for.
Slip_Short(total) == "NeedMoreBytes"

\* What is answered for a packet that is not all there.
Short(total) == IF total > BufferSize THEN "RecvFailed" ELSE "NeedMoreBytes"

Whole(total) == total <= BufferSize /\ total <= Len(buffer)

\* handle_packet, for the packet at the front: the application may refuse its
\* event, an acknowledgement may have to go out, bare or with properties, and
\* a DISCONNECT ends it all.
HandleFront ==
  /\ phase = "Front"
  /\ \E m \in {Measure(buffer)} :
        \/ /\ m.status = "NoDataAvailable" /\ Returns("Ok") /\ UNCHANGED status
        \/ /\ m.status \in {"BadResponse", "NeedMoreBytes"}
           /\ Returns(m.status) /\ UNCHANGED status
        \/ /\ m.status = "Ok" /\ ~Whole(m.value)
           /\ Returns(Short(m.value))
           /\ UNCHANGED status
        \/ /\ m.status = "Ok" /\ Whole(m.value)
           /\ \/ /\ buffer[1] = DisconnectByte => RefusesDisconnect
                 /\ Returns("EventCallbackFailed")
                 /\ status' = IF buffer[1] = DisconnectByte THEN "NotConnected" ELSE status
              \/ /\ buffer[1] \notin Answered \cup {DisconnectByte}
                 /\ Goes("Consume")
              \/ /\ buffer[1] = DisconnectByte
                 /\ status' = "NotConnected" /\ phase' = "Consume"
                 /\ UNCHANGED <<answer, sending, timer, tries, body, keepAlive, connections>>
              \/ /\ buffer[1] \in Answered /\ status # "Connected"
                 /\ Returns(status) /\ UNCHANGED status
              \/ /\ buffer[1] \in Answered /\ status = "Connected"
                 /\ \E sender \in {"Buffer", "Vectors"} : Begin("Ack", sender, <<Ack>>)
                 /\ UNCHANGED <<status, answer, tries, body, keepAlive, connections>>
  /\ UNCHANGED network

\* Slip: what follows the packet is forgotten with it.
Slip_After(total) == <<>>

\* Slip: it stays.
Slip_AfterNothing(total) == buffer

\* Slip: one packet to a call.
Slip_LoopEnds(rest) == TRUE

LoopEnds(rest) == rest = <<>>

\* consume: the rest of the buffer slides down.
After(total) == SubSeq(buffer, total + 1, Len(buffer))

Consume ==
  /\ phase = "Consume"
  /\ \E total \in {Measure(buffer).value} :
        /\ buffer' = After(total)
        /\ taken' = taken + Len(buffer) - Len(buffer')
        /\ IF LoopEnds(buffer') THEN Returns("Ok") /\ UNCHANGED status ELSE Goes("KeepAlive")
  /\ UNCHANGED <<down, stream, ends>>

---------------------------------------------------------------------------
(* The broker: a CONNACK once it has the CONNECT, whole packets after it.    *)

Puts(packet) ==
  /\ down' = down \o packet
  /\ stream' = stream \o packet
  /\ ends' = ends \cup {Len(stream) + Len(packet)}
  /\ UNCHANGED <<status, phase, buffer, answer, sending, taken, timer, tries, body,
                 keepAlive, connections>>

BrokerAccepts ==
  /\ phase = "ConnAck" /\ stream = <<>>
  /\ \E b \in ConnAckBodies : Puts(Framed(ConnAckByte, b))

\* It sends nothing behind a DISCONNECT.
BrokerSends ==
  /\ status = "Connected" /\ Cardinality(ends) <= MaxDown
  /\ \A e \in ends : e < Len(stream) => stream[e + 1] # DisconnectByte
  /\ \E p \in Packets : Puts(p)

Program ==
  \/ \E d \in 0..1 : SendTurn(d) \/ ReadConnAckBody(d)
  \/ SendReturns \/ ReadConnAckHeader \/ ConnAckRead
  \/ \E n \in 0..Len(down) : Read(n)
  \/ LooksAtKeepAlive \/ HandleFront \/ Consume

Next ==
  \/ Program
  \/ Connect \/ Disconnect \/ Send
  \/ SendBreaks \/ ReadConnAckBreaks \/ ReadBreaks
  \/ BrokerAccepts \/ BrokerSends

Spec == Init /\ [][Next]_vars

\* A call goes on until it returns, and its clock does too; the application
\* keeps reading, does not refuse events for ever, and closes a connection
\* after an error.
Errors == {"BadResponse", "RecvFailed", "SendFailed", "KeepAliveTimeout",
           "EventCallbackFailed", "DisconnectPending"}
FairSpec ==
  /\ Spec /\ WF_vars(Program)
  /\ SF_vars(SendTurn(1) \/ ReadConnAckBody(1))
  /\ SF_vars(\E n \in 1..Len(down) : Read(n))
  /\ SF_vars(answer \in Errors /\ Disconnect)

---------------------------------------------------------------------------
(* Properties. *)

\* Type invariant.
TypeOK ==
  /\ status \in {"NotConnected", "Connected", "DisconnectPending"}
  /\ phase \in {"Idle", "Sending", "ConnAck", "Body", "KeepAlive", "Front", "Consume"}
  /\ Len(buffer) <= BufferSize
  /\ taken \in 0..Len(stream) /\ ends \subseteq 1..Len(stream)
  /\ tries \in 0..MaxTries /\ Len(body.got) <= body.wanted
  /\ (sending = NoSending) = (phase # "Sending")
  /\ timer.now \in 0..(Wrap - 1) /\ Running(timer) = timer.age

\* However the stream is cut into reads, the client has every byte once and in
\* order, and stands between two packets when it is not handling one: what it
\* holds and what is under way is what the broker sent on this connection
\* after the packets it has handed over, never a byte of an earlier connection
\* (loop_.rs 103-207, 248-251, client.rs 936-938).
NothingLost ==
  status # "NotConnected" =>
    /\ buffer \o down = SubSeq(stream, taken + 1, Len(stream))
    /\ taken \in ends

\* A receive call that reports no error leaves no whole packet behind in the
\* buffer, where nothing would look for it until more bytes came
\* (loop_.rs 118-207).
NothingLeftWaiting ==
  phase = "Idle" /\ status # "NotConnected" /\ answer \in {"Ok", "NeedMoreBytes"} =>
    \A e \in ends : e > taken => e > taken + Len(buffer)

\* The transport gets a prefix of each packet, no byte twice and none left
\* out, wherever it cut the parts; and the whole of every packet that was
\* reported sent (client.rs 720-860, 1310-1535).
SentAsMade ==
  /\ \A k \in DOMAIN sending.out : sending.out[k] = k
  /\ sending.outcome # "None" =>
       (Len(sending.out) = sending.size) = (sending.outcome = "Sent")

\* A send is given up neither before its timeout nor, but for the last turn,
\* after it, on whichever side of the clock's wrap; a gather of a longer packet
\* has the whole timeout to itself (client.rs 759, 854).
TimeoutsAreReal ==
  phase = "Sending" =>
    /\ timer.age <= SendTimeout + 1
    /\ sending.outcome = "TimedOut" =>
         timer.age >= SendTimeout + (IF sending.sender = "Buffer" THEN 0 ELSE 1)

\* The keep alive in force is the one this connection's CONNACK names or, if it
\* names none, the one this CONNECT asked for: never one of an earlier
\* connection, accepted or refused (session.rs 277-285, 768-769, 839-882).
KeepAliveAgreed ==
  status = "Connected" =>
    keepAlive.inForce = IF keepAlive.heard = 0 THEN keepAlive.asked ELSE keepAlive.heard

\* What the client promises of the stream: the packets of a connection are
\* handed over one at a time, in order, each once, or lost with the connection.
Queue == INSTANCE PacketQueue WITH waiting <- {e \in ends : e > taken},
                                   open <- status # "NotConnected"
ImplementsQueue == Queue!Spec

\* Every call returns, whatever the transport does (client.rs 732-763,
\* 790-858, session.rs 98-131, 174-196).
EveryCallReturns == phase # "Idle" ~> phase = "Idle"

\* The client keeps up with what the broker or the connection is lost
\* or given up: nothing waits for ever in the buffer or behind it, and a packet
\* the buffer cannot hold is an error rather than a wait (loop_.rs 103-207).
EverythingArrives ==
  []<>(status # "Connected" \/ \A e \in ends : e <= taken)
=============================================================================
