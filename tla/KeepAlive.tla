----------------------------- MODULE KeepAlive -----------------------------
(***************************************************************************)
(* Keep alive: handle_keep_alive and ping, the timestamps they compare and *)
(* the place of the check in the receive loop (loop_.rs 103-207, 261-293,  *)
(* client.rs 695-707, 873-896, session.rs 768-770).  Time is the caller's  *)
(* wrapping millisecond counter; true ages are kept beside it, as ghosts,  *)
(* to say what the wrapped subtractions have to agree with.                *)
(***************************************************************************)
EXTENDS Integers

CONSTANTS
  Wrap,              \* the modulus of the clock: 2^32 in the code
  PacketTxTimeout, PacketRxTimeout, PingTimeout,   \* in ticks
  KeepAlives,        \* the keep alives a connection may come to run under
  MaxGap,            \* the application runs the loop at least this often
  Steady,            \* two reads in a row may find something
  AppPings           \* the application may call ping itself

ASSUME KeepAliveAssumption ==
  /\ Wrap \in Nat /\ MaxGap \in Nat \ {0}
  /\ PacketTxTimeout \in Nat \ {0} /\ PacketRxTimeout \in Nat \ {0} /\ PingTimeout \in Nat
  /\ PacketTxTimeout + PacketRxTimeout + PingTimeout + 2 * MaxGap < Wrap
  /\ KeepAlives \subseteq Nat
  /\ Steady \in BOOLEAN /\ AppPings \in BOOLEAN

VARIABLES
  now, connected,
  keepAlive,                      \* keep_alive_seconds, in ticks
  lastTx, lastRx, pingSent, waiting,
  timedOut,                       \* the loop answered KeepAliveTimeout
  inbox,                          \* what the broker has sent and the loop not handled
  pinged,                         \* a PINGREQ the broker has not answered
  alive,                          \* the broker still sends
  gap,                            \* ticks since the loop last ran
  rested,                         \* the last read found nothing
  ageTx, agePing                  \* ghosts: true ages

vars == <<now, connected, keepAlive, lastTx, lastRx, pingSent, waiting, timedOut,
          inbox, pinged, alive, gap, rested, ageTx, agePing>>

\* The clock's next reading, and a slip: a counter that does not wrap.
Slip_Later(time) == time + 1
Later(time) == (time + 1) % Wrap

\* Slip: a subtraction guarded "for safety".
Slip_Elapsed(later, start) == IF later > start THEN later - start ELSE 0

\* calculateElapsedTime, unsigned.
Elapsed(later, start) == (later - start) % Wrap

TxTimeout(seconds) == IF PacketTxTimeout < seconds THEN PacketTxTimeout ELSE seconds

\* Slips: the ping times out a tick early, or only the transmitter counts.
Slip_VerdictEarly(rx, wait) ==
  LET tx == TxTimeout(keepAlive)
  IN  IF wait THEN IF Elapsed(now, pingSent) >= PingTimeout THEN "Timeout" ELSE "Idle"
      ELSE IF tx # 0 /\ Elapsed(now, lastTx) >= tx THEN "Ping"
      ELSE IF Elapsed(now, rx) >= PacketRxTimeout THEN "Ping" ELSE "Idle"

Slip_VerdictTxOnly(rx, wait) ==
  LET tx == TxTimeout(keepAlive)
  IN  IF wait THEN IF Elapsed(now, pingSent) > PingTimeout THEN "Timeout" ELSE "Idle"
      ELSE IF tx # 0 /\ Elapsed(now, lastTx) >= tx THEN "Ping" ELSE "Idle"

\* handle_keep_alive: an outstanding PINGRESP first, then the transmitter,
\* then the receiver.
Verdict(rx, wait) ==
  LET tx == TxTimeout(keepAlive)
  IN  IF wait THEN IF Elapsed(now, pingSent) > PingTimeout THEN "Timeout" ELSE "Idle"
      ELSE IF tx # 0 /\ Elapsed(now, lastTx) >= tx THEN "Ping"
      ELSE IF Elapsed(now, rx) # 0 /\ Elapsed(now, rx) >= PacketRxTimeout THEN "Ping"
      ELSE "Idle"

---------------------------------------------------------------------------
\* The clock may read anything when the context is made, its stamps are zero.
Init ==
  /\ now \in 0..Wrap-1
  /\ connected = FALSE /\ keepAlive = 0
  /\ lastTx = 0 /\ lastRx = 0 /\ pingSent = 0 /\ waiting = FALSE
  /\ timedOut = FALSE /\ inbox = "Nothing" /\ pinged = FALSE /\ alive = TRUE
  /\ gap = 0 /\ rested = TRUE
  /\ ageTx = 0 /\ agePing = 0

\* connect: sending the CONNECT stamps the transmitter, reading the CONNACK
\* stamps nothing.
Connect ==
  /\ ~connected
  /\ connected' = TRUE
  /\ keepAlive' \in KeepAlives
  /\ lastTx' = now /\ ageTx' = 0
  /\ waiting' = FALSE /\ pingSent' = 0
  /\ timedOut' = FALSE /\ inbox' = "Nothing" /\ pinged' = FALSE /\ alive' = TRUE
  /\ gap' = 0 /\ rested' = TRUE /\ agePing' = 0
  /\ UNCHANGED <<now, lastRx>>

\* An application told of the timeout closes the connection.
Close ==
  /\ connected /\ timedOut
  /\ connected' = FALSE
  /\ UNCHANGED <<now, keepAlive, lastTx, lastRx, pingSent, waiting, timedOut, inbox,
                 pinged, alive, gap, rested, ageTx, agePing>>

Reads == {"Nothing", "Part", "Whole", "More"}

\* One pass of process_loop, by what its one read finds: nothing yet, part of
\* a packet, a whole one, or more than a whole one.  The last goes round again
\* and then, like the first, looks at the clock; the others do not.
Loop(read) ==
  LET data    == read # "Nothing"
      whole   == read \in {"Whole", "More"}
      rx      == IF whole THEN now ELSE lastRx
      wait    == waiting /\ ~(whole /\ inbox = "PingResp")
      verdict == IF read \in {"Nothing", "More"} THEN Verdict(rx, wait) ELSE "Idle"
      ping    == verdict = "Ping"
  IN  /\ connected /\ ~timedOut
      /\ data => inbox # "Nothing" /\ (Steady \/ rested)
      /\ inbox' = IF whole THEN "Nothing" ELSE inbox
      /\ rested' = ~data
      /\ gap' = 0
      /\ lastRx' = rx
      /\ waiting' = (wait \/ ping)
      /\ pinged' = (pinged \/ ping)
      /\ lastTx' = IF ping THEN now ELSE lastTx
      /\ ageTx' = IF ping THEN 0 ELSE ageTx
      /\ pingSent' = IF ping THEN now ELSE pingSent
      /\ agePing' = IF ping \/ ~wait THEN 0 ELSE agePing
      /\ timedOut' = (verdict = "Timeout")
      /\ UNCHANGED <<now, connected, keepAlive, alive>>

\* Any other packet the application has sent.
AppSends ==
  /\ connected /\ ~timedOut
  /\ lastTx' = now /\ ageTx' = 0
  /\ UNCHANGED <<now, connected, keepAlive, lastRx, pingSent, waiting, timedOut, inbox,
                 pinged, alive, gap, rested, agePing>>

\* ping, called by the application: it does not ask whether one is out.
AppPing ==
  /\ AppPings /\ connected /\ ~timedOut
  /\ lastTx' = now /\ ageTx' = 0
  /\ pingSent' = now /\ agePing' = 0
  /\ waiting' = TRUE /\ pinged' = TRUE
  /\ UNCHANGED <<now, connected, keepAlive, lastRx, timedOut, inbox, alive, gap,
                 rested>>

\* Time passes, at most MaxGap ticks between two passes of the loop.  While
\* there is no connection it passes without limit.
Tick ==
  /\ connected => gap < MaxGap
  /\ ~(connected /\ timedOut)
  /\ now' = Later(now)
  /\ gap' = IF connected THEN gap + 1 ELSE gap
  /\ ageTx' = IF ageTx < Wrap THEN ageTx + 1 ELSE ageTx
  /\ agePing' = IF waiting /\ agePing < Wrap THEN agePing + 1 ELSE agePing
  /\ UNCHANGED <<connected, keepAlive, lastTx, lastRx, pingSent, waiting, timedOut,
                 inbox, pinged, alive, rested>>

\* The broker: it may publish, answer a PINGREQ, or fall silent for good.
BrokerSends ==
  /\ connected /\ alive /\ inbox = "Nothing"
  /\ \/ inbox' = "Publish" /\ UNCHANGED pinged
     \/ pinged /\ inbox' = "PingResp" /\ pinged' = FALSE
  /\ UNCHANGED <<now, connected, keepAlive, lastTx, lastRx, pingSent, waiting, timedOut,
                 alive, gap, rested, ageTx, agePing>>

BrokerDies ==
  /\ connected /\ alive
  /\ alive' = FALSE
  /\ UNCHANGED <<now, connected, keepAlive, lastTx, lastRx, pingSent, waiting, timedOut,
                 inbox, pinged, gap, rested, ageTx, agePing>>

Next ==
  \/ Connect \/ Close
  \/ \E read \in Reads : Loop(read)
  \/ AppSends \/ AppPing \/ Tick \/ BrokerSends \/ BrokerDies

Spec == Init /\ [][Next]_vars

\* Time passes, and the application runs the loop and closes what timed out.
FairSpec ==
  Spec /\ WF_vars(Tick) /\ WF_vars(\E read \in Reads : Loop(read)) /\ WF_vars(Close)

---------------------------------------------------------------------------
\* Type invariant.
TypeOK ==
  /\ now \in 0..Wrap-1 /\ lastTx \in 0..Wrap-1 /\ lastRx \in 0..Wrap-1
  /\ pingSent \in 0..Wrap-1 /\ keepAlive \in KeepAlives \cup {0}
  /\ connected \in BOOLEAN /\ waiting \in BOOLEAN /\ timedOut \in BOOLEAN
  /\ pinged \in BOOLEAN /\ alive \in BOOLEAN /\ rested \in BOOLEAN
  /\ inbox \in {"Nothing", "Publish", "PingResp"}
  /\ gap \in 0..MaxGap /\ ageTx \in 0..Wrap /\ agePing \in 0..Wrap

\* The loop gives up on a broker only when its PINGREQ really has been out for
\* longer than the timeout, on whichever side of the clock's wrap
\* (loop_.rs 273-280, client.rs 695-707).
NoFalseTimeout == timedOut => waiting /\ agePing > PingTimeout

\* A connection with a keep alive is never silent towards the broker for
\* longer than the longer of the two timeouts, plus the two passes of the loop
\* it may take to notice (loop_.rs 148-166, 261-293).
KeepsAlive ==
  connected /\ ~timedOut /\ keepAlive # 0 =>
    ageTx <= 2 * MaxGap +
      (IF TxTimeout(keepAlive) > PingTimeout THEN TxTimeout(keepAlive) ELSE PingTimeout)

\* A broker that has fallen silent is noticed and the connection closed, even
\* when the application keeps sending and so never owes a PINGREQ, unless it
\* calls ping itself again and again, which restarts the timeout
\* (loop_.rs 273-290, client.rs 888-891).
DeadBrokerNoticed == (connected /\ ~alive ~> ~connected) \/ []<><<AppPing>>_vars
=============================================================================
