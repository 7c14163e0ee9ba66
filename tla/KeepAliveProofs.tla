-------------------------- MODULE KeepAliveProofs --------------------------
(***************************************************************************)
(* What keep alive promises, for every modulus of the clock, every timeout *)
(* and every application.                                                  *)
(*                                                                         *)
(* NoFalseTimeout and KeepsAlive speak of true ages; the code sees wrapped *)
(* subtractions.  AgesAgree is what connects them: as long as less than    *)
(* the modulus has passed, the subtraction is the age.                     *)
(***************************************************************************)
EXTENDS KeepAlive, TLAPS

\* The true ages are what the wrapped subtractions show, until they reach the
\* modulus.
AgesAgree ==
  /\ connected /\ ageTx < Wrap => ageTx = Elapsed(now, lastTx)
  /\ connected /\ waiting /\ agePing < Wrap => agePing = Elapsed(now, pingSent)

AgeInv == TypeOK /\ AgesAgree /\ NoFalseTimeout

\* Unsigned subtraction gives the distance on the circle, also across the wrap.
LEMMA ElapsedIs ==
  ASSUME NEW a \in 0..Wrap-1, NEW b \in 0..Wrap-1
  PROVE  Elapsed(a, b) = IF a >= b THEN a - b ELSE a - b + Wrap
BY KeepAliveAssumption, SMT DEF Elapsed

\* The next reading is one further, or zero after the last.
LEMMA LaterIs ==
  ASSUME NEW a \in 0..Wrap-1
  PROVE  /\ Later(a) \in 0..Wrap-1
         /\ Later(a) = IF a = Wrap - 1 THEN 0 ELSE a + 1
BY KeepAliveAssumption, SMT DEF Later

\* A tick lengthens every interval by one, until it is as long as the modulus.
LEMMA ElapsedGrows ==
  ASSUME NEW a \in 0..Wrap-1, NEW b \in 0..Wrap-1, Elapsed(a, b) + 1 < Wrap
  PROVE  Elapsed(Later(a), b) = Elapsed(a, b) + 1
<1>1. Later(a) \in 0..Wrap-1 /\ Later(a) = IF a = Wrap - 1 THEN 0 ELSE a + 1 BY LaterIs
<1>2. Elapsed(a, b) = IF a >= b THEN a - b ELSE a - b + Wrap BY ElapsedIs
<1>3. Elapsed(Later(a), b) = IF Later(a) >= b THEN Later(a) - b ELSE Later(a) - b + Wrap
  BY <1>1, ElapsedIs
<1> QED BY <1>1, <1>2, <1>3, KeepAliveAssumption, SMT

\* A stamp just taken is zero ticks old.
LEMMA ElapsedNone == ASSUME NEW a \in 0..Wrap-1 PROVE Elapsed(a, a) = 0
BY ElapsedIs, KeepAliveAssumption, SMT

\* A transmitter timeout is a tick count, and zero only without a keep alive.
LEMMA TxTimeoutIs ==
  ASSUME NEW s \in Nat
  PROVE  /\ TxTimeout(s) \in Nat /\ TxTimeout(s) <= PacketTxTimeout
         /\ s # 0 => TxTimeout(s) # 0
BY KeepAliveAssumption, SMT DEF TxTimeout

\* The initial state.
LEMMA InitAge == Init => AgeInv
<1> SUFFICES ASSUME Init PROVE AgeInv OBVIOUS
<1>1. Wrap \in Nat /\ Wrap > 1 /\ MaxGap \in Nat BY KeepAliveAssumption
<1>2. 0 \in 0..Wrap-1 /\ 0 \in 0..Wrap /\ 0 \in 0..MaxGap BY <1>1, SMT
<1>3. TypeOK BY <1>2, Zenon DEF Init, TypeOK
<1>4. AgesAgree /\ NoFalseTimeout BY DEF Init, AgesAgree, NoFalseTimeout
<1> QED BY <1>3, <1>4 DEF AgeInv

\* What a verdict of the loop can be, and what it says of the clock.
LEMMA VerdictIs ==
  ASSUME NEW rx, NEW wait \in BOOLEAN
  PROVE  /\ Verdict(rx, wait) \in {"Timeout", "Ping", "Idle"}
         /\ Verdict(rx, wait) = "Timeout" => wait /\ Elapsed(now, pingSent) > PingTimeout
         /\ Verdict(rx, wait) = "Ping" => ~wait
         /\ Verdict(rx, wait) = "Idle" /\ wait => ~(Elapsed(now, pingSent) > PingTimeout)
         /\ Verdict(rx, wait) = "Idle" /\ ~wait /\ TxTimeout(keepAlive) # 0 =>
              ~(Elapsed(now, lastTx) >= TxTimeout(keepAlive))
BY SMT DEF Verdict

\* One pass of the loop keeps the ages in agreement and times out only on an
\* age that is over the timeout.
LEMMA LoopAge == ASSUME NEW read \in Reads, AgeInv, Loop(read) PROVE AgeInv'
<1> DEFINE whole   == read \in {"Whole", "More"}
           rx      == IF whole THEN now ELSE lastRx
           wait    == waiting /\ ~(whole /\ inbox = "PingResp")
           verdict == IF read \in {"Nothing", "More"} THEN Verdict(rx, wait) ELSE "Idle"
<1>1. /\ wait \in BOOLEAN /\ (wait => waiting) /\ rx \in 0..Wrap-1
      /\ now \in 0..Wrap-1 /\ pingSent \in 0..Wrap-1 /\ lastTx \in 0..Wrap-1
  BY DEF AgeInv, TypeOK
<1>2. /\ verdict \in {"Timeout", "Ping", "Idle"}
      /\ verdict = "Timeout" => wait /\ Elapsed(now, pingSent) > PingTimeout
      /\ verdict = "Ping" => ~wait
  <2> HIDE DEF wait, rx
  <2>1. CASE read \in {"Nothing", "More"} BY <1>1, <2>1, VerdictIs
  <2>2. CASE read \notin {"Nothing", "More"} BY <2>2
  <2> QED BY <2>1, <2>2
<1>3. /\ connected /\ connected' /\ now' = now /\ keepAlive' = keepAlive /\ alive' = alive
      /\ inbox' = IF whole THEN "Nothing" ELSE inbox
      /\ rested' \in BOOLEAN /\ gap' = 0 /\ lastRx' = rx
      /\ waiting' = (wait \/ verdict = "Ping") /\ pinged' = (pinged \/ verdict = "Ping")
      /\ lastTx' = IF verdict = "Ping" THEN now ELSE lastTx
      /\ ageTx' = IF verdict = "Ping" THEN 0 ELSE ageTx
      /\ pingSent' = IF verdict = "Ping" THEN now ELSE pingSent
      /\ agePing' = IF verdict = "Ping" \/ ~wait THEN 0 ELSE agePing
      /\ timedOut' = (verdict = "Timeout")
  BY DEF Loop, AgeInv, TypeOK
<1> HIDE DEF whole, rx, wait, verdict
<1>4. TypeOK' BY <1>1, <1>2, <1>3, KeepAliveAssumption DEF AgeInv, TypeOK
<1>5. AgesAgree'
  <2>1. (connected /\ ageTx < Wrap => ageTx = Elapsed(now, lastTx))'
    BY <1>1, <1>3, ElapsedNone DEF AgeInv, AgesAgree, Elapsed
  <2>2. (connected /\ waiting /\ agePing < Wrap => agePing = Elapsed(now, pingSent))'
    BY <1>1, <1>2, <1>3, ElapsedNone DEF AgeInv, AgesAgree, Elapsed
  <2> QED BY <2>1, <2>2 DEF AgesAgree
<1>6. NoFalseTimeout'
  <2> SUFFICES ASSUME verdict = "Timeout" PROVE waiting' /\ agePing' > PingTimeout
    BY <1>3 DEF NoFalseTimeout
  <2>1. waiting' /\ agePing' = agePing /\ agePing \in 0..Wrap BY <1>1, <1>2, <1>3 DEF AgeInv, TypeOK
  <2>2. agePing < Wrap => agePing = Elapsed(now, pingSent)
    BY <1>1, <1>2, <1>3 DEF AgeInv, AgesAgree
  <2>3. Elapsed(now, pingSent) > PingTimeout BY <1>2
  <2> QED BY <2>1, <2>2, <2>3, KeepAliveAssumption, SMT
<1> QED BY <1>4, <1>5, <1>6 DEF AgeInv

\* A tick of the clock.
LEMMA TickAge == ASSUME AgeInv, Tick PROVE AgeInv'
<1>1. /\ now \in 0..Wrap-1 /\ pingSent \in 0..Wrap-1 /\ lastTx \in 0..Wrap-1
      /\ ageTx \in 0..Wrap /\ agePing \in 0..Wrap /\ gap \in 0..MaxGap
      /\ now' = Later(now)
  BY DEF AgeInv, TypeOK, Tick
<1>2. /\ Later(now) \in 0..Wrap-1
      /\ Elapsed(now, lastTx) + 1 < Wrap => Elapsed(Later(now), lastTx) = Elapsed(now, lastTx) + 1
      /\ Elapsed(now, pingSent) + 1 < Wrap => Elapsed(Later(now), pingSent) = Elapsed(now, pingSent) + 1
  BY <1>1, LaterIs, ElapsedGrows
<1>3. TypeOK' BY <1>1, <1>2, KeepAliveAssumption, SMT DEF AgeInv, TypeOK, Tick
<1>4. AgesAgree'
  <2>1. /\ Elapsed(now', lastTx') = Elapsed(Later(now), lastTx)
        /\ Elapsed(now', pingSent') = Elapsed(Later(now), pingSent)
    BY <1>1 DEF Tick
  <2>2. /\ connected' = connected /\ waiting' = waiting
        /\ ageTx' = IF ageTx < Wrap THEN ageTx + 1 ELSE ageTx
        /\ agePing' = IF waiting /\ agePing < Wrap THEN agePing + 1 ELSE agePing
    BY DEF Tick
  <2>3. (connected /\ ageTx < Wrap => ageTx = Elapsed(now, lastTx))'
    BY <1>1, <1>2, <2>1, <2>2, KeepAliveAssumption, SMT DEF AgeInv, AgesAgree
  <2>4. (connected /\ waiting /\ agePing < Wrap => agePing = Elapsed(now, pingSent))'
    BY <1>1, <1>2, <2>1, <2>2, KeepAliveAssumption, SMT DEF AgeInv, AgesAgree
  <2> QED BY <2>3, <2>4 DEF AgesAgree
<1>5. NoFalseTimeout'
  BY <1>1, KeepAliveAssumption, SMT DEF AgeInv, NoFalseTimeout, Tick
<1> QED BY <1>3, <1>4, <1>5 DEF AgeInv

\* Every other step stamps with the clock's own reading or leaves the stamps.
LEMMA NextAge == AgeInv /\ [Next]_vars => AgeInv'
<1> SUFFICES ASSUME AgeInv, [Next]_vars PROVE AgeInv' OBVIOUS
<1> USE DEF AgeInv, TypeOK, AgesAgree, NoFalseTimeout
<1>1. CASE Connect
  <2>1. Wrap \in Nat /\ Wrap > 1 /\ MaxGap \in Nat /\ now \in 0..Wrap-1 BY KeepAliveAssumption
  <2>2. 0 \in 0..Wrap-1 /\ 0 \in 0..Wrap /\ 0 \in 0..MaxGap BY <2>1, SMT
  <2>3. TypeOK' BY <1>1, <2>1, <2>2, Zenon DEF Connect
  <2>4. Elapsed(now', lastTx') = 0 BY <1>1, <2>1, ElapsedNone DEF Connect
  <2>5. AgesAgree' /\ NoFalseTimeout' BY <1>1, <2>4 DEF Connect, Elapsed
  <2> QED BY <2>3, <2>5
<1>2. CASE Close BY <1>2 DEF Close, Elapsed
<1>3. CASE \E read \in Reads : Loop(read) BY <1>3, LoopAge
<1>4. CASE AppSends BY <1>4, ElapsedNone, KeepAliveAssumption DEF AppSends, Elapsed
<1>5. CASE AppPing BY <1>5, ElapsedNone, KeepAliveAssumption DEF AppPing, Elapsed
<1>6. CASE Tick BY <1>6, TickAge
<1>7. CASE BrokerSends BY <1>7 DEF BrokerSends, Elapsed
<1>8. CASE BrokerDies BY <1>8 DEF BrokerDies, Elapsed
<1>9. CASE UNCHANGED vars BY <1>9 DEF vars, Elapsed
<1> QED BY <1>1, <1>2, <1>3, <1>4, <1>5, <1>6, <1>7, <1>8, <1>9 DEF Next

\* The ages agree with the subtractions in every reachable state.
LEMMA AgeAlways == Spec => []AgeInv
BY InitAge, NextAge, PTL DEF Spec

\* Every stamp is a reading of the clock, and the loop keeps its promise of
\* passing every MaxGap ticks (loop_.rs 261-293, client.rs 699-710).
THEOREM TypeCorrect == Spec => []TypeOK
<1>1. AgeInv => TypeOK BY DEF AgeInv
<1> QED BY <1>1, AgeAlways, PTL

\* Whatever the modulus and the timeouts, and wherever the clock stands when
\* the context is made, KeepAliveTimeout is answered only when a PINGREQ has
\* been out for longer than its timeout (loop_.rs 273-280).
THEOREM NeverFalse == Spec => []NoFalseTimeout
<1>1. AgeInv => NoFalseTimeout BY DEF AgeInv
<1> QED BY <1>1, AgeAlways, PTL

---------------------------------------------------------------------------
(* How long a connection may be silent.                                    *)

\* The reads since the clock was last looked at cannot have taken longer.
Unseen == gap + (IF rested THEN 0 ELSE MaxGap)

\* The bound of KeepsAlive, but for the passes it allows the loop.
Bound == IF TxTimeout(keepAlive) > PingTimeout THEN TxTimeout(keepAlive) ELSE PingTimeout

\* KeepsAlive does not hold of a step alone: the answer to a PINGREQ puts an
\* end to the wait without a look at the clock.  What carries it is that the
\* ages are over their timeouts by no more than the time the clock has not
\* been looked at, and that nothing is older than a PINGREQ that is out.
SilenceInv ==
  connected /\ ~timedOut /\ keepAlive # 0 =>
    /\ ageTx <= Bound + Unseen
    /\ waiting => ageTx <= agePing /\ agePing <= PingTimeout + Unseen

\* The bound stays below the modulus, where ages and subtractions agree.
LEMMA BoundIs ==
  ASSUME TypeOK
  PROVE  /\ Bound \in Nat /\ Bound <= PacketTxTimeout + PingTimeout
         /\ PingTimeout <= Bound /\ TxTimeout(keepAlive) <= Bound
         /\ Unseen \in 0..2 * MaxGap /\ Bound + 2 * MaxGap < Wrap
<1>1. keepAlive \in Nat BY KeepAliveAssumption DEF TypeOK
<1>2. TxTimeout(keepAlive) \in Nat /\ TxTimeout(keepAlive) <= PacketTxTimeout
  BY <1>1, TxTimeoutIs
<1>3. gap \in 0..MaxGap /\ rested \in BOOLEAN BY DEF TypeOK
<1> QED BY <1>2, <1>3, KeepAliveAssumption, SMT DEF Bound, Unseen

\* A pass of the loop, when no two reads in a row find something.
LEMMA LoopSilence ==
  ASSUME ~Steady, NEW read \in Reads, AgeInv, SilenceInv, Loop(read)
  PROVE  SilenceInv'
<1> DEFINE whole   == read \in {"Whole", "More"}
           rx      == IF whole THEN now ELSE lastRx
           wait    == waiting /\ ~(whole /\ inbox = "PingResp")
           looks   == read \in {"Nothing", "More"}
           verdict == IF looks THEN Verdict(rx, wait) ELSE "Idle"
<1>1. /\ wait \in BOOLEAN /\ (wait => waiting) /\ looks \in BOOLEAN
      /\ (~looks => rested)
  BY DEF AgeInv, TypeOK, Loop, Reads
<1>2. /\ verdict \in {"Timeout", "Ping", "Idle"}
      /\ looks /\ verdict = "Idle" =>
           /\ wait => ~(Elapsed(now, pingSent) > PingTimeout)
           /\ ~wait /\ TxTimeout(keepAlive) # 0 =>
                ~(Elapsed(now, lastTx) >= TxTimeout(keepAlive))
      /\ verdict = "Ping" => ~wait
  <2> HIDE DEF wait, rx
  <2>1. CASE looks BY <1>1, <2>1, VerdictIs
  <2>2. CASE ~looks BY <2>2
  <2> QED BY <2>1, <2>2
<1>3. /\ connected /\ ~timedOut /\ connected' /\ keepAlive' = keepAlive
      /\ (looks \/ rested) /\ (read = "Nothing" => looks) /\ rested' = (read = "Nothing")
      /\ gap' = 0
      /\ waiting' = (wait \/ verdict = "Ping")
      /\ ageTx' = IF verdict = "Ping" THEN 0 ELSE ageTx
      /\ agePing' = IF verdict = "Ping" \/ ~wait THEN 0 ELSE agePing
      /\ timedOut' = (verdict = "Timeout")
  BY <1>1 DEF Loop
<1> HIDE DEF whole, rx, wait, verdict, looks
<1>4. SUFFICES ASSUME verdict # "Timeout", keepAlive # 0
               PROVE  (/\ ageTx <= Bound + Unseen
                       /\ waiting => ageTx <= agePing /\ agePing <= PingTimeout + Unseen)'
  BY <1>3 DEF SilenceInv
<1>5. /\ ageTx \in 0..Wrap /\ agePing \in 0..Wrap /\ gap \in 0..MaxGap
      /\ now \in 0..Wrap-1 /\ pingSent \in 0..Wrap-1 /\ lastTx \in 0..Wrap-1
      /\ rested \in BOOLEAN /\ TypeOK' /\ TypeOK
  BY LoopAge DEF AgeInv, TypeOK
<1>6. /\ Bound' = Bound /\ Unseen' = IF read = "Nothing" THEN 0 ELSE MaxGap
      /\ Bound \in Nat /\ Bound + 2 * MaxGap < Wrap /\ PingTimeout <= Bound
      /\ TxTimeout(keepAlive) <= Bound /\ TxTimeout(keepAlive) \in Nat
      /\ TxTimeout(keepAlive) # 0
      /\ Unseen = gap + (IF rested THEN 0 ELSE MaxGap)
  <2>1. keepAlive \in Nat BY KeepAliveAssumption DEF AgeInv, TypeOK
  <2>2. Bound' = Bound BY <1>3 DEF Bound
  <2>3. Unseen' = IF read = "Nothing" THEN 0 ELSE MaxGap
    <3>1. Unseen' = 0 + (IF read = "Nothing" THEN 0 ELSE MaxGap) BY <1>3, Zenon DEF Unseen
    <3> QED BY <3>1, KeepAliveAssumption, SMT
  <2> QED BY <1>4, <1>5, <2>1, <2>2, <2>3, BoundIs, TxTimeoutIs DEF Unseen
<1>7. /\ ageTx <= Bound + Unseen
      /\ waiting => ageTx <= agePing /\ agePing <= PingTimeout + Unseen
  BY <1>3, <1>4 DEF SilenceInv
<1>8. /\ ageTx = Elapsed(now, lastTx) /\ (waiting => agePing = Elapsed(now, pingSent))
      /\ Unseen <= 2 * MaxGap
  <2>1. Unseen <= 2 * MaxGap BY <1>5, BoundIs
  <2>2. ageTx < Wrap /\ (waiting => agePing < Wrap)
    BY <2>1, <1>5, <1>6, <1>7, KeepAliveAssumption, SMT
  <2> QED BY <1>3, <2>1, <2>2 DEF AgeInv, AgesAgree
<1>9. CASE verdict = "Ping"
  BY <1>2, <1>3, <1>5, <1>6, <1>9, KeepAliveAssumption, SMT
<1>10. CASE verdict = "Idle" /\ looks
  <2>1. wait => agePing <= PingTimeout BY <1>1, <1>2, <1>5, <1>8, <1>10, KeepAliveAssumption, SMT
  <2>2. ~wait => ageTx <= Bound
    BY <1>2, <1>5, <1>6, <1>8, <1>10, KeepAliveAssumption, SMT
  <2> QED BY <1>1, <1>3, <1>5, <1>6, <1>7, <1>10, <2>1, <2>2, KeepAliveAssumption, SMT
<1>11. CASE verdict = "Idle" /\ ~looks
  <2>1. rested /\ read # "Nothing" /\ Unseen <= MaxGap /\ Unseen' = MaxGap
    BY <1>1, <1>3, <1>5, <1>6, <1>11, KeepAliveAssumption, SMT
  <2> QED BY <1>1, <1>3, <1>5, <1>6, <1>7, <1>11, <2>1, KeepAliveAssumption, SMT
<1> QED BY <1>2, <1>4, <1>9, <1>10, <1>11

\* Time passing keeps the bound: the clock may only run unseen for so long.
LEMMA TickSilence == ASSUME AgeInv, SilenceInv, Tick PROVE SilenceInv'
<1>1. /\ ageTx \in 0..Wrap /\ agePing \in 0..Wrap /\ gap \in 0..MaxGap /\ rested \in BOOLEAN
      /\ TypeOK
  BY DEF AgeInv, TypeOK
<1>2. SUFFICES ASSUME connected, ~timedOut, keepAlive # 0
               PROVE  (/\ ageTx <= Bound + Unseen
                       /\ waiting => ageTx <= agePing /\ agePing <= PingTimeout + Unseen)'
  BY DEF SilenceInv, Tick
<1>3. /\ Bound' = Bound /\ Bound \in Nat /\ Unseen \in Nat /\ Unseen' = Unseen + 1
      /\ PingTimeout \in Nat
  BY <1>1, <1>2, BoundIs, KeepAliveAssumption, SMT DEF Tick, Bound, Unseen
<1>4. /\ ageTx' = IF ageTx < Wrap THEN ageTx + 1 ELSE ageTx
      /\ agePing' = IF waiting /\ agePing < Wrap THEN agePing + 1 ELSE agePing
      /\ waiting' = waiting
  BY DEF Tick
<1>5. /\ ageTx <= Bound + Unseen
      /\ waiting => ageTx <= agePing /\ agePing <= PingTimeout + Unseen
  BY <1>2 DEF SilenceInv
<1> QED BY <1>1, <1>3, <1>4, <1>5, KeepAliveAssumption, SMT

\* A step that stamps the transmitter starts the silence again.
LEMMA NextSilence ==
  ASSUME ~Steady, AgeInv, SilenceInv, [Next]_vars PROVE SilenceInv'
<1>1. /\ AgeInv' /\ ageTx \in 0..Wrap /\ agePing \in 0..Wrap
  BY NextAge DEF AgeInv, TypeOK
<1>2. TypeOK' BY <1>1 DEF AgeInv
<1>3. /\ Bound \in Nat /\ Unseen \in Nat /\ Bound' \in Nat /\ Unseen' \in Nat
      /\ PingTimeout \in Nat
  <2>1. Bound \in Nat /\ Unseen \in Nat BY BoundIs, KeepAliveAssumption DEF AgeInv
  <2>2. keepAlive' \in Nat /\ gap' \in Nat /\ MaxGap \in Nat
    BY <1>2, KeepAliveAssumption DEF TypeOK
  <2>3. TxTimeout(keepAlive') \in Nat BY <2>2, TxTimeoutIs
  <2>4. Bound' \in Nat BY <2>3, KeepAliveAssumption, SMT DEF Bound
  <2>5. Unseen' \in Nat
    <3>1. Unseen' = gap' + 0 \/ Unseen' = gap' + MaxGap BY Zenon DEF Unseen
    <3> QED BY <2>2, <3>1, SMT
  <2> QED BY <2>1, <2>4, <2>5, KeepAliveAssumption
<1> USE DEF SilenceInv
<1>4. CASE Connect
  <2>1. ageTx' = 0 /\ ~waiting' BY <1>4 DEF Connect
  <2>2. \A b, u \in Nat : 0 <= b + u BY SMT
  <2>3. ageTx' <= Bound' + Unseen' BY <2>1, <2>2, <1>3, Zenon
  <2> QED BY <2>1, <2>3
<1>5. CASE Close BY <1>5 DEF Close
<1>6. CASE \E read \in Reads : Loop(read) BY <1>6, LoopSilence
<1>7. CASE AppSends BY <1>1, <1>3, <1>7, KeepAliveAssumption DEF AppSends, Bound, Unseen
<1>8. CASE AppPing BY <1>1, <1>3, <1>8, KeepAliveAssumption DEF AppPing, Bound, Unseen
<1>9. CASE Tick BY <1>9, TickSilence
<1>10. CASE BrokerSends BY <1>10 DEF BrokerSends, Bound, Unseen
<1>11. CASE BrokerDies BY <1>11 DEF BrokerDies, Bound, Unseen
<1>12. CASE UNCHANGED vars BY <1>12 DEF vars, Bound, Unseen
<1> QED BY <1>4, <1>5, <1>6, <1>7, <1>8, <1>9, <1>10, <1>11, <1>12 DEF Next

\* Where no two reads in a row find something, a connection with a keep alive
\* is never silent for longer than the longer timeout and two passes of the
\* loop, whatever they are (loop_.rs 148-166, 261-293).
THEOREM NeverSilent == ASSUME ~Steady PROVE Spec => []KeepsAlive
<1>1. Init => SilenceInv BY DEF Init, SilenceInv
<1>2. AgeInv /\ SilenceInv /\ [Next]_vars => SilenceInv' BY NextSilence
<1>3. AgeInv /\ SilenceInv => KeepsAlive
  <2> SUFFICES ASSUME AgeInv, SilenceInv PROVE KeepsAlive OBVIOUS
  <2>1. /\ Bound \in Nat /\ Unseen \in 0..2 * MaxGap /\ ageTx \in 0..Wrap
    BY BoundIs DEF AgeInv, TypeOK
  <2> QED BY <2>1, KeepAliveAssumption, SMT DEF KeepsAlive, SilenceInv, Bound
<1> QED BY <1>1, <1>2, <1>3, AgeAlways, PTL DEF Spec
=============================================================================
