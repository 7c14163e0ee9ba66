----------------------------- MODULE WireProofs -----------------------------
(***************************************************************************)
(* What holds of the wire for every broker, transport, clock and buffer:   *)
(* the keep alive in force is the one of this connection; a send is given  *)
(* up when its time is up; the length a packet begins with is read as it   *)
(* was written, for every base and every legal length, and a length cut    *)
(* short is never taken for another; no byte that arrives is lost or taken *)
(* twice, and the packets come out as a queue gives them; and what leaves  *)
(* is the packet that was made, however the transport cuts it.             *)
(***************************************************************************)
EXTENDS Wire, SequenceTheorems, WellFoundedInduction, TLAPS

\* The fields of the records the actions update in place.
Shapes ==
  /\ DOMAIN keepAlive = {"inForce", "server", "asked", "heard"}
  /\ DOMAIN sending = {"what", "sender", "parts", "later", "out", "size", "outcome"}

\* On its way to the CONNACK a connect keeps what it asked for in the server's
\* slot, where apply_connack may leave it.
AgreedInv ==
  /\ Shapes
  /\ KeepAliveAgreed
  /\ phase \in {"ConnAck", "Body"} \/ (phase = "Sending" /\ sending.what = "Connect") =>
       status = "NotConnected" /\ keepAlive.server = keepAlive.asked

\* A device that has not connected yet agrees with nobody on nothing.
LEMMA InitAgreed == Init => AgreedInv
BY DEF Init, AgreedInv, Shapes, KeepAliveAgreed, NoSending

\* Connecting, refused or not, keeps the two keep-alive values in step.
LEMMA NextAgreed == ASSUME AgreedInv, [Next]_vars PROVE AgreedInv'
<1> USE DEF AgreedInv, Shapes, KeepAliveAgreed
<1>1. ASSUME NEW d \in 0..1, SendTurn(d) PROVE AgreedInv' BY <1>1 DEF SendTurn, network
<1>2. ASSUME NEW d \in 0..1, ReadConnAckBody(d) PROVE AgreedInv'
  BY <1>2 DEF ReadConnAckBody, network, ConnectFails
<1>3. CASE SendReturns BY <1>3 DEF SendReturns, AfterSent, NoSending, network
<1>4. CASE ReadConnAckHeader BY <1>4 DEF ReadConnAckHeader, ConnectFails
<1>5. CASE ConnAckRead BY <1>5 DEF ConnAckRead, ServerKeepAlive
<1>6. ASSUME NEW n \in 0..Len(down), Read(n) PROVE AgreedInv' BY <1>6 DEF Read, Goes
<1>7. CASE LooksAtKeepAlive BY <1>7 DEF LooksAtKeepAlive, Goes, Returns, Begin, network
<1>8. CASE HandleFront BY <1>8 DEF HandleFront, Goes, Returns, Begin, network
<1>9. CASE Consume BY <1>9 DEF Consume, Goes, Returns
<1>10. CASE Connect BY <1>10 DEF Connect, Begin
<1>11. CASE Disconnect BY <1>11 DEF Disconnect, Begin
<1>12. CASE Send BY <1>12, WireAssumption DEF Send, Begin, network
<1>13. CASE SendBreaks BY <1>13 DEF SendBreaks, Broken, network
<1>14. CASE ReadConnAckBreaks BY <1>14 DEF ReadConnAckBreaks, ConnectFails
<1>15. CASE ReadBreaks BY <1>15 DEF ReadBreaks, Broken, Returns, network
<1>16. CASE BrokerAccepts BY <1>16 DEF BrokerAccepts, Puts
<1>17. CASE BrokerSends BY <1>17 DEF BrokerSends, Puts
<1>18. CASE UNCHANGED vars BY <1>18 DEF vars, network
<1> QED BY <1>1, <1>2, <1>3, <1>4, <1>5, <1>6, <1>7, <1>8, <1>9, <1>10, <1>11, <1>12,
           <1>13, <1>14, <1>15, <1>16, <1>17, <1>18 DEF Next, Program

\* The keep alive in force is the one this connection's CONNACK names or this
\* CONNECT asked for, whatever connections there were before, accepted, refused
\* or failed (session.rs 277-285, 768-769, 839-882).
THEOREM KeepAliveIsAgreed == Spec => []KeepAliveAgreed
<1>1. AgreedInv => KeepAliveAgreed BY DEF AgreedInv
<1> QED BY <1>1, InitAgreed, NextAgreed, PTL DEF Spec

---------------------------------------------------------------------------
(* The clock of a send.                                                    *)

\* The clock of the call in progress: readings of the caller's counter, and
\* the age the wrapped subtraction shows until it reaches the modulus.
TimerInv ==
  /\ timer \in [now : 0..(Wrap - 1), start : 0..(Wrap - 1), age : Nat]
  /\ timer.age < Wrap => Running(timer) = timer.age

\* A send that has not given up is not older than its timeout: the last turn
\* may have added one tick.
SendInv ==
  /\ Shapes
  /\ TimerInv
  /\ phase = "Sending" /\ sending.outcome = "None" => timer.age <= SendTimeout
  /\ TimeoutsAreReal

\* What the assumption says of the clock.
LEMMA WrapIs ==
  /\ Wrap \in Nat /\ SendTimeout \in Nat /\ SendTimeout + 2 < Wrap
  /\ \A t \in Starts : t \in 0..(Wrap - 1)
BY WireAssumption

\* Unsigned subtraction gives the distance on the circle, also across the wrap.
LEMMA ElapsedMsIs ==
  ASSUME NEW a \in 0..(Wrap - 1), NEW b \in 0..(Wrap - 1)
  PROVE  ElapsedMs(a, b, Wrap) = IF a >= b THEN a - b ELSE a - b + Wrap
BY WrapIs, SMT DEF ElapsedMs

\* Reading the clock d ticks later, or starting again from its reading, keeps
\* the timer what it is said to be.
LEMMA LaterTimer ==
  ASSUME TimerInv, NEW d \in 0..1
  PROVE  LET t == Later(d)
         IN  /\ t \in [now : 0..(Wrap - 1), start : 0..(Wrap - 1), age : Nat]
             /\ t.age = timer.age + d /\ (t.age < Wrap => Running(t) = t.age)
<1>1. /\ timer.now \in 0..(Wrap - 1) /\ timer.start \in 0..(Wrap - 1) /\ timer.age \in Nat
  BY DEF TimerInv
<1>2. /\ Later(d).now = (timer.now + d) % Wrap /\ Later(d).start = timer.start
      /\ Later(d).age = timer.age + d
      /\ Later(d) = [now |-> (timer.now + d) % Wrap, start |-> timer.start, age |-> timer.age + d]
  <2> DEFINE n == (timer.now + d) % Wrap
             a == timer.age + d
  <2>1. timer \in [now : 0..(Wrap - 1), start : 0..(Wrap - 1), age : Nat] BY DEF TimerInv
  <2>2. Later(d) = [timer EXCEPT !.now = n, !.age = a] BY DEF Later
  <2> HIDE DEF n, a
  <2>3. Later(d) = [now |-> n, start |-> timer.start, age |-> a] BY <2>1, <2>2
  <2> QED BY <2>3 DEF n, a
<1>3. /\ (timer.now + d) % Wrap \in 0..(Wrap - 1)
      /\ (timer.now + d) % Wrap = IF timer.now + d < Wrap THEN timer.now + d ELSE 0
  BY <1>1, WrapIs, SMT
<1>4. ASSUME timer.age + d < Wrap PROVE Running(Later(d)) = timer.age + d
  <2>1. /\ timer.age = IF timer.now >= timer.start THEN timer.now - timer.start
                       ELSE timer.now - timer.start + Wrap
    <3>1. timer.age < Wrap BY <1>1, <1>4, WrapIs, SMT
    <3>2. Running(timer) = timer.age BY <3>1 DEF TimerInv
    <3> QED BY <1>1, <3>2, ElapsedMsIs DEF Running
  <2>2. Running(Later(d)) = ElapsedMs((timer.now + d) % Wrap, timer.start, Wrap)
    BY <1>2 DEF Running
  <2>3. Running(Later(d)) =
          IF (timer.now + d) % Wrap >= timer.start THEN ((timer.now + d) % Wrap) - timer.start
          ELSE ((timer.now + d) % Wrap) - timer.start + Wrap
    BY <1>1, <1>3, <2>2, ElapsedMsIs
  <2>4. DEFINE later == (timer.now + d) % Wrap
               running == Running(Later(d))
  <2>5. /\ later \in 0..(Wrap - 1) /\ later = IF timer.now + d < Wrap THEN timer.now + d ELSE 0
        /\ running = IF later >= timer.start THEN later - timer.start
                     ELSE later - timer.start + Wrap
    BY <1>3, <2>3
  <2> HIDE DEF later, running
  <2>6. running = timer.age + d BY <1>1, <1>4, <2>1, <2>5, WrapIs, SMT
  <2> QED BY <2>6 DEF running
<1> QED BY <1>1, <1>2, <1>3, <1>4

\* A timer restarted has no age.
LEMMA RestartedTimer ==
  ASSUME NEW t \in [now : 0..(Wrap - 1), start : 0..(Wrap - 1), age : Nat]
  PROVE  /\ Restarted(t) \in [now : 0..(Wrap - 1), start : 0..(Wrap - 1), age : Nat]
         /\ Restarted(t).age = 0 /\ Running(Restarted(t)) = 0
<1>1. Restarted(t) = [now |-> t.now, start |-> t.now, age |-> 0]
  <2>1. Restarted(t) = [t EXCEPT !.start = t.now, !.age = 0] BY DEF Restarted
  <2>2. DOMAIN t = {"now", "start", "age"} OBVIOUS
  <2> QED BY <2>1, <2>2
<1>2. Running(Restarted(t)) = ElapsedMs(t.now, t.now, Wrap) BY <1>1 DEF Running
<1>3. ElapsedMs(t.now, t.now, Wrap) = 0 BY ElapsedMsIs, WrapIs, SMT
<1> QED BY <1>1, <1>2, <1>3

\* Nor has the timer of a call that begins.
LEMMA NewTimer ==
  ASSUME NEW t \in Timers \cup {NoTimer}
  PROVE  /\ t \in [now : 0..(Wrap - 1), start : 0..(Wrap - 1), age : Nat]
         /\ t.age = 0 /\ Running(t) = 0
<1>1. PICK s \in 0..(Wrap - 1) : t = [now |-> s, start |-> s, age |-> 0]
  <2>1. 0 \in 0..(Wrap - 1) BY WrapIs, SMT
  <2> QED BY <2>1, WrapIs DEF Timers, NoTimer
<1>2. Running(t) = ElapsedMs(s, s, Wrap) BY <1>1 DEF Running
<1>3. ElapsedMs(s, s, Wrap) = 0 BY ElapsedMsIs, WrapIs, SMT
<1> QED BY <1>1, <1>2, <1>3

\* No send is under way at first.
LEMMA InitTimer == Init => SendInv
<1> SUFFICES ASSUME Init PROVE SendInv OBVIOUS
<1>1. Shapes BY InitAgreed DEF AgreedInv
<1>2. TimerInv BY NewTimer DEF Init, TimerInv
<1>3. phase # "Sending" BY DEF Init
<1> QED BY <1>1, <1>2, <1>3 DEF SendInv, TimeoutsAreReal

\* A send begins with a clock just read.
LEMMA BeginTimer ==
  ASSUME SendInv, NEW what, NEW sender, NEW gathers, Begin(what, sender, gathers),
         Shapes'
  PROVE  SendInv'
<1>1. timer' \in Timers /\ sending'.outcome = "None" BY DEF Begin
<1>2. /\ timer' \in [now : 0..(Wrap - 1), start : 0..(Wrap - 1), age : Nat]
      /\ timer'.age = 0 /\ Running(timer)' = 0
  BY <1>1, NewTimer DEF Running
<1>3. 0 <= SendTimeout /\ 0 <= SendTimeout + 1 BY WrapIs, SMT
<1> QED BY <1>1, <1>2, <1>3 DEF SendInv, TimerInv, TimeoutsAreReal

\* A turn of the sender's loop: it goes on below the timeout, and gives up at
\* it or, in the vector sender, behind it.
LEMMA TurnTimer == ASSUME SendInv, NEW d \in 0..1, SendTurn(d) PROVE SendInv'
<1>1. /\ phase = "Sending" /\ sending.outcome = "None" /\ timer.age <= SendTimeout
      /\ timer.age \in Nat /\ phase' = phase /\ keepAlive' = keepAlive /\ TimerInv /\ Shapes
  BY DEF SendInv, SendTurn, TimerInv
<1>2. PICK some, rest, out :
        LET t == Later(d)
        IN  \/ /\ timer' = t
               /\ sending' = [sending EXCEPT !.parts = <<>>, !.out = out, !.outcome = "Sent"]
            \/ /\ timer' = Restarted(t)
               /\ sending' = [sending EXCEPT !.parts = Head(sending.later),
                                             !.later = Tail(sending.later), !.out = out]
            \/ /\ timer' = t
               /\ sending' = [sending EXCEPT !.parts = rest, !.out = out, !.outcome =
                     IF GivesUp(sending.sender, Running(t), SendTimeout) THEN "TimedOut" ELSE "None"]
  BY DEF SendTurn
<1> DEFINE t == Later(d)
<1>3. /\ t \in [now : 0..(Wrap - 1), start : 0..(Wrap - 1), age : Nat]
      /\ t.age = timer.age + d /\ t.age < Wrap /\ Running(t) = t.age
  BY <1>1, LaterTimer, WrapIs, SMT
<1>4. t.age \in Nat /\ t.age <= SendTimeout + 1 BY <1>1, <1>3, WrapIs, SMT
<1> HIDE DEF t
<1>5. CASE timer' = t /\ sending' = [sending EXCEPT !.parts = <<>>, !.out = out, !.outcome = "Sent"]
  <2>1. sending'.outcome = "Sent" /\ Shapes' BY <1>1, <1>5 DEF Shapes
  <2>2. TimerInv' BY <1>3, <1>5 DEF TimerInv, Running
  <2> QED BY <1>4, <1>5, <2>1, <2>2 DEF SendInv, TimeoutsAreReal
<1>6. CASE /\ timer' = Restarted(t)
           /\ sending' = [sending EXCEPT !.parts = Head(sending.later),
                                         !.later = Tail(sending.later), !.out = out]
  <2>1. sending'.outcome = "None" /\ Shapes' BY <1>1, <1>6 DEF Shapes
  <2>2. /\ timer' \in [now : 0..(Wrap - 1), start : 0..(Wrap - 1), age : Nat]
        /\ timer'.age = 0 /\ Running(timer') = 0
    BY <1>3, <1>6, RestartedTimer
  <2>3. TimerInv' BY <2>2 DEF TimerInv, Running
  <2>4. timer'.age <= SendTimeout /\ timer'.age <= SendTimeout + 1 BY <2>2, WrapIs, SMT
  <2> QED BY <2>1, <2>3, <2>4 DEF SendInv, TimeoutsAreReal
<1>7. CASE /\ timer' = t
           /\ sending' = [sending EXCEPT !.parts = rest, !.out = out, !.outcome =
                 IF GivesUp(sending.sender, Running(t), SendTimeout) THEN "TimedOut" ELSE "None"]
  <2>1. /\ sending'.outcome = IF GivesUp(sending.sender, t.age, SendTimeout) THEN "TimedOut" ELSE "None"
        /\ sending'.sender = sending.sender /\ Shapes'
    BY <1>1, <1>3, <1>7 DEF Shapes
  <2>2. TimerInv' BY <1>3, <1>7 DEF TimerInv, Running
  <2> DEFINE age == t.age
             up == GivesUp(sending.sender, t.age, SendTimeout)
  <2>3. /\ up => age >= SendTimeout /\ (sending.sender # "Buffer" => age > SendTimeout)
        /\ ~up => ~(age >= SendTimeout) \/ ~(age > SendTimeout)
    <3>1. CASE sending.sender = "Buffer" BY <1>4, <3>1, WrapIs, SMT DEF GivesUp
    <3>2. CASE sending.sender # "Buffer" BY <1>4, <3>2, WrapIs, SMT DEF GivesUp
    <3> QED BY <3>1, <3>2
  <2>4. age \in Nat /\ SendTimeout \in Nat BY <1>4, WrapIs
  <2>5. sending'.outcome = IF up THEN "TimedOut" ELSE "None" BY <2>1
  <2> HIDE DEF age, up
  <2>6. sending'.outcome = "None" => age <= SendTimeout BY <2>3, <2>4, <2>5, SMT
  <2>7. sending'.outcome = "TimedOut" =>
          age >= SendTimeout + (IF sending'.sender = "Buffer" THEN 0 ELSE 1)
    BY <2>1, <2>3, <2>4, <2>5, SMT
  <2> USE DEF age
  <2> QED BY <1>4, <1>7, <2>1, <2>2, <2>6, <2>7 DEF SendInv, TimeoutsAreReal
<1> QED BY <1>2, <1>5, <1>6, <1>7 DEF t

\* The wait for the body of a CONNACK uses the same clock; every byte starts it
\* again.
LEMMA BodyTimer == ASSUME SendInv, NEW d \in 0..1, ReadConnAckBody(d) PROVE SendInv'
<1>1. /\ TimerInv /\ Shapes /\ phase = "Body" /\ sending' = sending /\ keepAlive' = keepAlive
      /\ phase' # "Sending"
  BY DEF SendInv, ReadConnAckBody, ConnectFails
<1>2. timer' \in {Restarted(Later(d)), Later(d), NoTimer}
  BY DEF ReadConnAckBody, ConnectFails, Heard
<1>3. TimerInv'
  <2>1. CASE timer' = Restarted(Later(d))
    BY <1>1, <2>1, LaterTimer, RestartedTimer DEF TimerInv, Running
  <2>2. CASE timer' = Later(d) BY <1>1, <2>2, LaterTimer DEF TimerInv, Running
  <2>3. CASE timer' = NoTimer BY <2>3, NewTimer DEF TimerInv, Running
  <2> QED BY <1>2, <2>1, <2>2, <2>3
<1> QED BY <1>1, <1>3 DEF SendInv, TimeoutsAreReal, Shapes

\* A step that leaves the clock and the send alone, or ends the send.
LEMMA CalmTimer ==
  ASSUME SendInv, Shapes', timer' \in {timer} \cup Timers \cup {NoTimer},
         phase' # "Sending" \/ (phase' = phase /\ sending' = sending /\ timer' = timer)
  PROVE  SendInv'
<1>1. TimerInv'
  <2>1. CASE timer' = timer BY <2>1 DEF SendInv, TimerInv, Running
  <2>2. CASE timer' \in Timers \cup {NoTimer} BY <2>2, NewTimer DEF TimerInv, Running
  <2> QED BY <2>1, <2>2
<1>2. CASE phase' # "Sending" BY <1>1, <1>2 DEF SendInv, TimeoutsAreReal
<1>3. CASE phase' = phase /\ sending' = sending /\ timer' = timer
  BY <1>1, <1>3 DEF SendInv, TimeoutsAreReal
<1> QED BY <1>2, <1>3

\* Every turn of every send keeps the invariant of the timer.
LEMMA NextTimer == ASSUME AgreedInv, SendInv, [Next]_vars PROVE SendInv'
<1>0. Shapes' BY NextAgreed DEF AgreedInv
<1>1. ASSUME NEW d \in 0..1, SendTurn(d) PROVE SendInv' BY <1>1, TurnTimer
<1>2. ASSUME NEW d \in 0..1, ReadConnAckBody(d) PROVE SendInv' BY <1>2, BodyTimer
<1>3. CASE SendReturns BY <1>0, <1>3, CalmTimer DEF SendReturns, AfterSent
<1>4. CASE ReadConnAckHeader BY <1>0, <1>4, CalmTimer DEF ReadConnAckHeader, ConnectFails
<1>5. CASE ConnAckRead BY <1>0, <1>5, CalmTimer DEF ConnAckRead
<1>6. ASSUME NEW n \in 0..Len(down), Read(n) PROVE SendInv'
  BY <1>0, <1>6, CalmTimer DEF Read, Goes
<1>7. CASE LooksAtKeepAlive
  <2>1. CASE Begin("LoopPing", "Buffer", <<Ping>>) BY <1>0, <2>1, BeginTimer
  <2>2. CASE Goes("Front") BY <1>0, <2>2, CalmTimer DEF Goes
  <2>3. CASE Returns("KeepAliveTimeout") BY <1>0, <2>3, CalmTimer DEF Returns
  <2> QED BY <1>7, <2>1, <2>2, <2>3 DEF LooksAtKeepAlive
<1>8. CASE HandleFront
  <2>1. CASE \E sender \in {"Buffer", "Vectors"} : Begin("Ack", sender, <<Ack>>)
    BY <1>0, <2>1, BeginTimer
  <2>2. CASE phase' # "Sending" /\ timer' = timer BY <1>0, <2>2, CalmTimer
  <2> QED BY <1>8, <2>1, <2>2 DEF HandleFront, Goes, Returns
<1>9. CASE Consume BY <1>0, <1>9, CalmTimer DEF Consume, Goes, Returns
<1>10. CASE Connect BY <1>0, <1>10, BeginTimer DEF Connect
<1>11. CASE Disconnect BY <1>0, <1>11, BeginTimer DEF Disconnect
<1>12. CASE Send BY <1>0, <1>12, BeginTimer DEF Send
<1>13. CASE SendBreaks
  <2>1. sending'.outcome = "Broken" /\ timer' = timer BY <1>13 DEF SendBreaks, SendInv, Shapes
  <2>2. timer.age <= SendTimeout + 1 BY <1>13 DEF SendBreaks, SendInv, TimeoutsAreReal
  <2>3. TimerInv' BY <2>1 DEF SendInv, TimerInv, Running
  <2> QED BY <1>0, <2>1, <2>2, <2>3 DEF SendInv, TimeoutsAreReal
<1>14. CASE ReadConnAckBreaks BY <1>0, <1>14, CalmTimer DEF ReadConnAckBreaks, ConnectFails
<1>15. CASE ReadBreaks BY <1>0, <1>15, CalmTimer DEF ReadBreaks, Returns
<1>16. CASE BrokerAccepts BY <1>0, <1>16, CalmTimer DEF BrokerAccepts, Puts
<1>17. CASE BrokerSends BY <1>0, <1>17, CalmTimer DEF BrokerSends, Puts
<1>18. CASE UNCHANGED vars BY <1>0, <1>18, CalmTimer DEF vars
<1> QED BY <1>1, <1>2, <1>3, <1>4, <1>5, <1>6, <1>7, <1>8, <1>9, <1>10, <1>11, <1>12,
           <1>13, <1>14, <1>15, <1>16, <1>17, <1>18 DEF Next, Program

\* Whatever the clock's modulus and reading, a send is given up neither before
\* its timeout nor later than the turn after it (client.rs 759, 854).
THEOREM TimeoutsReal == Spec => []TimeoutsAreReal
<1>1. AgreedInv /\ SendInv /\ [Next]_vars => AgreedInv' /\ SendInv' BY NextAgreed, NextTimer
<1>2. SendInv => TimeoutsAreReal BY DEF SendInv
<1> QED BY <1>1, <1>2, InitAgreed, InitTimer, PTL DEF Spec

---------------------------------------------------------------------------
(* The length of a packet.  Division, by the facts the digits need. *)

\* A number is its quotient and its remainder.
LEMMA DivMod ==
  ASSUME NEW a \in Nat, NEW c \in Nat, c > 0
  PROVE  /\ a \div c \in Nat /\ a % c \in 0..(c - 1)
         /\ a = c * (a \div c) + (a % c)
BY SMT

\* Dividing twice is dividing by the product.
LEMMA DivDiv ==
  ASSUME NEW a \in Nat, NEW c \in Nat, c > 0, NEW e \in Nat, e > 0
  PROVE  a \div (c * e) = (a \div c) \div e
BY SMT

\* A quotient is below a bound when the number is below the product.
LEMMA DivLess ==
  ASSUME NEW a \in Nat, NEW c \in Nat, c > 0, NEW e \in Nat, e > 0
  PROVE  (a < c * e) <=> (a \div c < e)
BY SMT

\* A digit is its own remainder, with or without the continuation bit.
LEMMA ModAgain ==
  ASSUME NEW d \in Nat, NEW c \in Nat, c > 0, d < c
  PROVE  d % c = d /\ (d + c) % c = d
BY SMT

\* What is left of n when i - 1 digits have been written.
Left(n, i) == n \div Place(i)

\* A legal length, digit by digit.
LEMMA Digits ==
  ASSUME NEW n \in 0..(LengthLimit - 1)
  PROVE  /\ \A i \in 1..4 : Left(n, i) \in Nat /\ (Left(n, i) % Base) \in 0..(Base - 1)
         /\ Left(n, 1) = n
         /\ Left(n, 2) = Left(n, 1) \div Base
         /\ Left(n, 3) = Left(n, 2) \div Base
         /\ Left(n, 4) = Left(n, 3) \div Base
         /\ n < Place(2) <=> Left(n, 1) < Base
         /\ n < Place(3) <=> Left(n, 2) < Base
         /\ n < Place(4) <=> Left(n, 3) < Base
         /\ Left(n, 4) < Base
<1>1. Base \in Nat /\ Base > 1 BY BaseAssumption
<1>2. /\ Place(1) = 1 /\ Place(2) = Base /\ Place(3) = Base * Base
      /\ Place(4) = Base * Base * Base
  BY DEF Place
<1>3. /\ Base * Base \in Nat /\ Base * Base > 0
      /\ Base * Base * Base \in Nat /\ Base * Base * Base > 0
      /\ LengthLimit \in Nat /\ LengthLimit = (Base * Base * Base) * Base
  BY <1>1, SMT DEF LengthLimit
<1>4. n \in Nat /\ n < (Base * Base * Base) * Base BY <1>3
<1>5. /\ Left(n, 1) = n /\ Left(n, 2) = n \div Base /\ Left(n, 3) = n \div (Base * Base)
      /\ Left(n, 4) = n \div (Base * Base * Base)
  BY <1>2, <1>4, SMT DEF Left
<1>6. /\ Left(n, 3) = Left(n, 2) \div Base /\ Left(n, 4) = Left(n, 3) \div Base
  BY <1>1, <1>3, <1>4, <1>5, DivDiv
<1>7. /\ n < Base * Base <=> Left(n, 2) < Base
      /\ n < Base * Base * Base <=> Left(n, 3) < Base
      /\ Left(n, 4) < Base
  BY <1>1, <1>3, <1>4, <1>5, DivLess
<1>8. \A i \in 1..4 : Left(n, i) \in Nat /\ (Left(n, i) % Base) \in 0..(Base - 1)
  <2>1. /\ Left(n, 1) \in Nat /\ Left(n, 2) \in Nat /\ Left(n, 3) \in Nat /\ Left(n, 4) \in Nat
    BY <1>1, <1>3, <1>4, <1>5, DivMod
  <2>2. \A i \in 1..4 : i = 1 \/ i = 2 \/ i = 3 \/ i = 4 OBVIOUS
  <2> QED BY <1>1, <2>1, <2>2, DivMod
<1> QED BY <1>2, <1>5, <1>6, <1>7, <1>8

\* A length is the sum of its digits at their places.
LEMMA SumOfDigits ==
  ASSUME NEW n \in 0..(LengthLimit - 1)
  PROVE  LET d(i) == Left(n, i) % Base
         IN  /\ Left(n, 1) < Base => n = d(1)
             /\ Left(n, 2) < Base => n = d(1) + d(2) * Base
             /\ Left(n, 3) < Base => n = d(1) + d(2) * Base + d(3) * (Base * Base)
             /\ n = d(1) + d(2) * Base + d(3) * (Base * Base) + d(4) * (Base * Base * Base)
<1> DEFINE l1 == Left(n, 1)
           l2 == Left(n, 2)
           l3 == Left(n, 3)
           l4 == Left(n, 4)
           d1 == l1 % Base
           d2 == l2 % Base
           d3 == l3 % Base
           d4 == l4 % Base
<1>1. /\ Base \in Nat /\ Base > 1 /\ l1 = n
      /\ l1 \in Nat /\ l2 \in Nat /\ l3 \in Nat /\ l4 \in Nat
      /\ d1 \in Nat /\ d2 \in Nat /\ d3 \in Nat /\ d4 \in Nat
  <2>1. l1 \in Nat /\ l2 \in Nat /\ l3 \in Nat /\ l4 \in Nat BY Digits
  <2> QED BY <2>1, Digits, BaseAssumption, DivMod
<1>2. /\ l1 = Base * l2 + d1 /\ l2 = Base * l3 + d2 /\ l3 = Base * l4 + d3
  BY <1>1, Digits, DivMod
<1>3. /\ l1 < Base => d1 = l1
      /\ l2 < Base => d2 = l2
      /\ l3 < Base => d3 = l3
      /\ d4 = l4
  BY <1>1, Digits, ModAgain
<1> HIDE DEF l1, l2, l3, l4, d1, d2, d3, d4
<1>4. l1 < Base => n = d1 BY <1>1, <1>3
<1>5. l2 < Base => n = d1 + d2 * Base BY <1>1, <1>2, <1>3, SMT
<1>6. l3 < Base => n = d1 + d2 * Base + d3 * (Base * Base) BY <1>1, <1>2, <1>3, SMT
<1>7. n = d1 + d2 * Base + d3 * (Base * Base) + d4 * (Base * Base * Base)
  BY <1>1, <1>2, <1>3, SMT
<1> QED BY <1>4, <1>5, <1>6, <1>7 DEF l1, l2, l3, l4, d1, d2, d3, d4

---------------------------------------------------------------------------
(* Writing and reading.                                                    *)

\* Every byte but the last of a written length says that another follows, and
\* carries its digit.
LEMMA EncodedBytes ==
  ASSUME NEW n \in 0..(LengthLimit - 1)
  PROVE  /\ EncodedSize(n) \in 1..MaxLengthBytes
         /\ Encode(n) \in Seq(Nat) /\ Len(Encode(n)) = EncodedSize(n)
         /\ \A i \in 1..EncodedSize(n) :
              /\ Encode(n)[i] % Base = Left(n, i) % Base
              /\ Encode(n)[i] < Base <=> i = EncodedSize(n)
<1>1. Base \in Nat /\ Base > 1 BY BaseAssumption
<1>2. /\ EncodedSize(n) = IF Left(n, 1) < Base THEN 1 ELSE IF Left(n, 2) < Base THEN 2
                          ELSE IF Left(n, 3) < Base THEN 3 ELSE 4
      /\ EncodedSize(n) \in 1..4
  <2>1. /\ n < Place(2) <=> Left(n, 1) < Base
        /\ n < Place(3) <=> Left(n, 2) < Base
        /\ n < Place(4) <=> Left(n, 3) < Base
    BY Digits
  <2> QED BY <2>1 DEF EncodedSize
<1>3. \A i \in 1..EncodedSize(n) : i \in 1..4 /\ (Left(n, i) < Base <=> i = EncodedSize(n))
  <2>1. /\ \A i \in 1..4 : Left(n, i) \in Nat
        /\ Left(n, 4) < Base /\ Left(n, 2) = Left(n, 1) \div Base
        /\ Left(n, 3) = Left(n, 2) \div Base /\ Left(n, 4) = Left(n, 3) \div Base
    BY Digits
  <2>2. \A a \in Nat : a < Base => a \div Base < Base BY <1>1, SMT
  <2>3. CASE Left(n, 1) < Base BY <1>1, <1>2, <2>3, SMT
  <2>4. CASE ~(Left(n, 1) < Base) /\ Left(n, 2) < Base BY <1>1, <1>2, <2>4, SMT
  <2>5. CASE ~(Left(n, 1) < Base) /\ ~(Left(n, 2) < Base) /\ Left(n, 3) < Base
    BY <1>1, <1>2, <2>5, SMT
  <2>6. CASE ~(Left(n, 1) < Base) /\ ~(Left(n, 2) < Base) /\ ~(Left(n, 3) < Base)
    BY <1>1, <1>2, <2>1, <2>6, SMT
  <2> QED BY <2>3, <2>4, <2>5, <2>6
<1>4. ASSUME NEW i \in 1..EncodedSize(n)
      PROVE  /\ Encode(n)[i] \in Nat
             /\ Encode(n)[i] % Base = Left(n, i) % Base
             /\ Encode(n)[i] < Base <=> Left(n, i) < Base
  <2> DEFINE l == Left(n, i)
             d == l % Base
  <2>1. l \in Nat /\ d \in Nat /\ d < Base BY <1>1, <1>3, Digits
  <2>2. Encode(n)[i] = d + (IF l >= Base THEN Base ELSE 0) BY DEF Encode, Left
  <2>3. d % Base = d /\ (d + Base) % Base = d BY <1>1, <2>1, ModAgain
  <2> HIDE DEF d, l
  <2>4. Encode(n)[i] = IF l < Base THEN d ELSE d + Base BY <1>1, <2>1, <2>2, SMT
  <2>5. /\ Encode(n)[i] \in Nat /\ Encode(n)[i] % Base = d /\ (Encode(n)[i] < Base <=> l < Base)
    <3>1. CASE l < Base BY <1>1, <2>1, <2>3, <2>4, <3>1, SMT
    <3>2. CASE ~(l < Base) BY <1>1, <2>1, <2>3, <2>4, <3>2, SMT
    <3> QED BY <3>1, <3>2
  <2> QED BY <2>5 DEF d, l
<1>5. Encode(n) \in [1..EncodedSize(n) -> Nat] BY <1>4 DEF Encode
<1>6. Encode(n) \in Seq(Nat) /\ Len(Encode(n)) = EncodedSize(n) BY <1>2, <1>5
<1> QED BY <1>2, <1>3, <1>4, <1>6 DEF MaxLengthBytes

\* What is written for a length, read with nothing behind it.
LEMMA LengthAlone ==
  \A n \in 0..(LengthLimit - 1) :
    ReadLength(Encode(n)) = [status |-> "Ok", value |-> n, size |-> EncodedSize(n)]
<1> TAKE n \in 0..(LengthLimit - 1)
<1> DEFINE k == EncodedSize(n)
           bytes == Encode(n)
<1>1. /\ k \in 1..4 /\ Len(bytes) = k
      /\ \A i \in 1..k : bytes[i] % Base = Left(n, i) % Base /\ (bytes[i] < Base <=> i = k)
  BY EncodedBytes DEF MaxLengthBytes
<1>2. Ends(bytes) = {k}
  <2> HIDE DEF k, bytes
  <2>1. \A i \in 1..4 : i <= k => i \in 1..k BY <1>1, SMT
  <2>2. k <= k BY <1>1, SMT
  <2> QED BY <1>1, <2>1, <2>2 DEF Ends, MaxLengthBytes
<1>3. (CHOOSE i \in Ends(bytes) : IsFirstEnd(bytes, i)) = k
  <2>1. k <= k BY <1>1, SMT
  <2>2. IsFirstEnd(bytes, k) BY <1>2, <2>1 DEF IsFirstEnd
  <2> HIDE DEF k, bytes
  <2> QED BY <1>2, <2>2
<1>4. Value(bytes, k) = n
  <2> DEFINE d(i) == Left(n, i) % Base
  <2> HIDE DEF k, bytes
  <2>1. Base \in Nat /\ Base > 1 BY BaseAssumption
  <2>2. /\ Place(1) = 1 /\ Place(2) = Base /\ Place(3) = Base * Base
        /\ Place(4) = Base * Base * Base
    BY DEF Place
  <2>3. \A i \in 1..4 : Digit(bytes, k, i) = IF i <= k THEN d(i) * Place(i) ELSE 0
    <3>1. \A i \in 1..4 : i <= k => i \in 1..k BY <1>1, SMT
    <3> QED BY <1>1, <3>1 DEF Digit
  <2>4. /\ d(1) \in Nat /\ d(2) \in Nat /\ d(3) \in Nat /\ d(4) \in Nat
    BY Digits, BaseAssumption
  <2>5. k = EncodedSize(n) BY DEF k
  <2>6. k = IF Left(n, 1) < Base THEN 1 ELSE IF Left(n, 2) < Base THEN 2
            ELSE IF Left(n, 3) < Base THEN 3 ELSE 4
    BY <2>5, Digits DEF EncodedSize
  <2>7. /\ k = 1 => n = d(1)
        /\ k = 2 => n = d(1) + d(2) * Base
        /\ k = 3 => n = d(1) + d(2) * (Base) + d(3) * (Base * Base)
        /\ n = d(1) + d(2) * Base + d(3) * (Base * Base) + d(4) * (Base * Base * Base)
    BY <2>6, SumOfDigits
  <2>8. Value(bytes, k) = Digit(bytes, k, 1) + Digit(bytes, k, 2) + Digit(bytes, k, 3)
                          + Digit(bytes, k, 4)
    BY DEF Value
  <2> HIDE DEF d
  <2>9. CASE k = 1 BY <2>1, <2>2, <2>3, <2>4, <2>7, <2>8, <2>9, SMT
  <2>10. CASE k = 2 BY <2>1, <2>2, <2>3, <2>4, <2>7, <2>8, <2>10, SMT
  <2>11. CASE k = 3 BY <2>1, <2>2, <2>3, <2>4, <2>7, <2>8, <2>11, SMT
  <2>12. CASE k = 4 BY <2>1, <2>2, <2>3, <2>4, <2>7, <2>8, <2>12, SMT
  <2> QED BY <1>1, <2>9, <2>10, <2>11, <2>12
<1> HIDE DEF k, bytes
<1>5. k = EncodedSize(n) BY DEF k
<1>6. ReadLength(bytes) = [status |-> "Ok", value |-> n, size |-> k]
  BY <1>2, <1>3, <1>4, <1>5 DEF ReadLength
<1> QED BY <1>5, <1>6 DEF bytes

\* Of a length that has arrived in part nothing is concluded: the reader asks
\* for more (loop_.rs 150-166, header.rs).
THEOREM PartIsNotRead ==
  \A n \in 0..(LengthLimit - 1) : \A m \in 0..(EncodedSize(n) - 1) :
    ReadLength(SubSeq(Encode(n), 1, m)) = NotRead("NeedMoreBytes")
<1> TAKE n \in 0..(LengthLimit - 1)
<1> TAKE m \in 0..(EncodedSize(n) - 1)
<1> DEFINE k == EncodedSize(n)
           part == SubSeq(Encode(n), 1, m)
<1>1. /\ k \in 1..4 /\ Encode(n) \in Seq(Nat) /\ Len(Encode(n)) = k
      /\ \A i \in 1..k : Encode(n)[i] < Base <=> i = k
  BY EncodedBytes DEF MaxLengthBytes
<1>2. m \in Nat /\ m < k BY <1>1, SMT
<1> HIDE DEF k
<1>3. Len(part) = m /\ \A i \in 1..m : part[i] = Encode(n)[i] BY <1>1, <1>2
<1> HIDE DEF part
<1>4. Ends(part) = {}
  <2> SUFFICES ASSUME NEW i \in 1..4, i <= Len(part), part[i] < Base PROVE FALSE
    BY DEF Ends, MaxLengthBytes
  <2>1. i \in 1..m /\ i \in 1..k /\ i # k BY <1>1, <1>2, <1>3, SMT
  <2> QED BY <1>1, <1>3, <2>1
<1>5. ~(Len(part) >= 4) BY <1>1, <1>2, <1>3, SMT
<1>6. ReadLength(part) = NotRead("NeedMoreBytes")
  BY <1>4, <1>5 DEF ReadLength, MaxLengthBytes
<1> QED BY <1>6 DEF part

---------------------------------------------------------------------------
(* A header says the same of every sequence that begins with it.           *)

\* Of length bytes that end, one is the first that does.
LEMMA FirstEnd ==
  ASSUME NEW s \in Seq(Nat), Ends(s) # {}
  PROVE  \E k \in Ends(s) : IsFirstEnd(s, k) /\ k = CHOOSE i \in Ends(s) : IsFirstEnd(s, i)
<1>1. Ends(s) \subseteq 1..4 BY DEF Ends, MaxLengthBytes
<1>2. \E k \in Ends(s) : \A i \in Ends(s) : k <= i
  <2>1. \A i \in Ends(s) : i = 1 \/ i = 2 \/ i = 3 \/ i = 4 BY <1>1
  <2>2. CASE 1 \in Ends(s) BY <1>1, <2>2
  <2>3. CASE 1 \notin Ends(s) /\ 2 \in Ends(s) BY <2>1, <2>3
  <2>4. CASE 1 \notin Ends(s) /\ 2 \notin Ends(s) /\ 3 \in Ends(s) BY <2>1, <2>4
  <2>5. CASE Ends(s) \subseteq {4} BY <2>1, <2>5
  <2> QED BY <2>1, <2>2, <2>3, <2>4, <2>5
<1> QED BY <1>2 DEF IsFirstEnd

\* Where the length bytes end depends on none behind the end.
LEMMA LengthPrefix ==
  ASSUME NEW s \in Seq(Nat), NEW t \in Seq(Nat), ReadLength(s).status = "Ok",
         ReadLength(s).size <= Len(t), \A i \in 1..ReadLength(s).size : t[i] = s[i]
  PROVE  ReadLength(t) = ReadLength(s)
<1>1. Ends(s) # {} BY DEF ReadLength, NotRead
<1>2. PICK k \in Ends(s) : IsFirstEnd(s, k) /\ k = CHOOSE i \in Ends(s) : IsFirstEnd(s, i)
  BY <1>1, FirstEnd
<1>3. /\ k = EncodedSize(Value(s, k))
      /\ ReadLength(s) = [status |-> "Ok", value |-> Value(s, k), size |-> k]
  BY <1>1, <1>2 DEF ReadLength, NotRead
<1>4. k \in 1..4 /\ k <= Len(t) /\ \A i \in 1..k : t[i] = s[i]
  BY <1>2, <1>3 DEF Ends, MaxLengthBytes
<1>5. k \in Ends(t) /\ \A i \in Ends(t) : k <= i
  <2>1. k \in Ends(t)
    <3>1. k \in 1..k BY <1>4
    <3> QED BY <1>2, <1>4, <3>1 DEF Ends, MaxLengthBytes
  <2>2. ASSUME NEW i \in Ends(t), ~(k <= i) PROVE FALSE
    <3>1. i \in 1..4 /\ t[i] < Base BY DEF Ends, MaxLengthBytes
    <3>2. i \in 1..k /\ i <= Len(s)
      <4>1. k <= Len(s) BY <1>2 DEF Ends
      <4> QED BY <1>4, <2>2, <3>1, <4>1
    <3>3. i \in Ends(s) BY <1>4, <3>1, <3>2 DEF Ends, MaxLengthBytes
    <3> QED BY <1>2, <2>2, <3>3 DEF IsFirstEnd
  <2> QED BY <2>1, <2>2
<1>6. (CHOOSE i \in Ends(t) : IsFirstEnd(t, i)) = k
  <2>1. PICK m \in Ends(t) : IsFirstEnd(t, m) /\ m = CHOOSE i \in Ends(t) : IsFirstEnd(t, i)
    BY <1>5, FirstEnd
  <2>2. m \in 1..4 /\ m <= k /\ k <= m BY <1>5, <2>1 DEF IsFirstEnd, Ends, MaxLengthBytes
  <2>3. m = k BY <1>4, <2>2, SMT
  <2> QED BY <2>1, <2>3
<1>7. Value(t, k) = Value(s, k)
  <2>1. \A i \in {1, 2, 3, 4} : Digit(t, k, i) = Digit(s, k, i)
    <3>1. \A i \in {1, 2, 3, 4} : i <= k => i \in 1..k BY <1>4
    <3> QED BY <1>4, <3>1 DEF Digit
  <2> QED BY <2>1 DEF Value
<1> QED BY <1>3, <1>5, <1>6, <1>7 DEF ReadLength

\* A length is read as it was written, in the bytes the size arithmetic counts
\* on and whatever follows them: neither a shorter nor a longer one is accepted
\* for it (header.rs encode_variable_length,
\* process_incoming_packet_type_and_length).
THEOREM ReadAsWritten ==
  \A n \in 0..(LengthLimit - 1), rest \in Seq(Nat) :
    ReadLength(Encode(n) \o rest) = [status |-> "Ok", value |-> n, size |-> EncodedSize(n)]
<1> TAKE n \in 0..(LengthLimit - 1), rest \in Seq(Nat)
<1> DEFINE k == EncodedSize(n)
           code == Encode(n)
<1>1. k \in 1..4 /\ code \in Seq(Nat) /\ Len(code) = k BY EncodedBytes DEF MaxLengthBytes
<1>2. ReadLength(code) = [status |-> "Ok", value |-> n, size |-> k] BY LengthAlone
<1> HIDE DEF code, k
<1>3. /\ code \o rest \in Seq(Nat) /\ k <= Len(code \o rest)
      /\ \A i \in 1..k : (code \o rest)[i] = code[i]
  BY <1>1
<1>4. ReadLength(code \o rest) = ReadLength(code)
  <2>1. ReadLength(code).status = "Ok" /\ ReadLength(code).size = k BY <1>2
  <2> QED BY <1>1, <1>3, <2>1, LengthPrefix
<1> QED BY <1>2, <1>4 DEF code, k

\* A length that is read is a number, in one to four bytes that are there.
LEMMA LengthRead ==
  ASSUME NEW s \in Seq(Nat), ReadLength(s).status = "Ok"
  PROVE  /\ ReadLength(s).size \in 1..4 /\ ReadLength(s).size <= Len(s)
         /\ ReadLength(s).value \in Nat
<1>1. Ends(s) # {} BY DEF ReadLength, NotRead
<1>2. PICK k \in Ends(s) : IsFirstEnd(s, k) /\ k = CHOOSE i \in Ends(s) : IsFirstEnd(s, i)
  BY <1>1, FirstEnd
<1>3. ReadLength(s) = [status |-> "Ok", value |-> Value(s, k), size |-> k]
  BY <1>1, <1>2 DEF ReadLength, NotRead
<1>4. k \in 1..4 /\ k <= Len(s) BY <1>2 DEF Ends, MaxLengthBytes
<1>5. \A i \in {1, 2, 3, 4} : Digit(s, k, i) \in Nat
  <2> SUFFICES ASSUME NEW i \in {1, 2, 3, 4} PROVE Digit(s, k, i) \in Nat OBVIOUS
  <2>1. Base \in Nat /\ Base > 1 BY BaseAssumption
  <2>2. Place(i) \in Nat
    <3>1. Base * Base \in Nat /\ Base * Base * Base \in Nat BY <2>1
    <3> QED BY <2>1, <3>1 DEF Place
  <2>3. CASE i <= k
    <3>1. i \in 1..Len(s) BY <1>4, <2>3
    <3>2. s[i] \in Nat BY <3>1
    <3>3. s[i] % Base \in Nat BY <2>1, <3>2, DivMod
    <3> DEFINE a == s[i] % Base
               b == Place(i)
    <3>4. a \in Nat /\ b \in Nat BY <2>2, <3>3
    <3> HIDE DEF a, b
    <3>5. a * b \in Nat BY <3>4
    <3> QED BY <2>3, <3>5 DEF Digit, a, b
  <2> QED BY <2>3 DEF Digit
<1>6. Value(s, k) \in Nat BY <1>5 DEF Value
<1> QED BY <1>3, <1>4, <1>6

\* A header that is read is two to five bytes long, all there, and the packet
\* is no shorter than it.
LEMMA MeasureRead ==
  ASSUME NEW s \in Seq(Nat), Measure(s).status = "Ok"
  PROVE  /\ Measure(s).size \in 2..5 /\ Measure(s).size <= Len(s)
         /\ Measure(s).value \in Nat /\ Measure(s).size <= Measure(s).value
         /\ s # <<>> /\ IncomingPacketValid(s[1]) /\ ReadLength(Tail(s)).status = "Ok"
         /\ Measure(s) = [status |-> "Ok",
                          value |-> ReadLength(Tail(s)).value + ReadLength(Tail(s)).size + 1,
                          size |-> ReadLength(Tail(s)).size + 1]
<1> DEFINE r == ReadLength(Tail(s))
<1>1. /\ s # <<>> /\ IncomingPacketValid(s[1]) /\ r.status = "Ok"
      /\ Measure(s) = [status |-> "Ok", value |-> r.value + r.size + 1, size |-> r.size + 1]
  BY DEF Measure, NotRead
<1>2. Tail(s) \in Seq(Nat) /\ Len(Tail(s)) = Len(s) - 1 /\ Len(s) \in Nat BY <1>1
<1>3. r.size \in 1..4 /\ r.size <= Len(s) - 1 /\ r.value \in Nat
  BY <1>1, <1>2, LengthRead
<1> HIDE DEF r
<1>4. /\ Measure(s).status = "Ok" /\ Measure(s).value = r.value + r.size + 1
      /\ Measure(s).size = r.size + 1
  BY <1>1
<1>5. /\ Measure(s).size \in 2..5 /\ Measure(s).size <= Len(s)
      /\ Measure(s).value \in Nat /\ Measure(s).size <= Measure(s).value
  BY <1>2, <1>3, <1>4
<1> QED BY <1>1, <1>5 DEF r

\* A header is read alike wherever it stands at the front.
LEMMA MeasurePrefix ==
  ASSUME NEW s \in Seq(Nat), NEW t \in Seq(Nat), Measure(s).status = "Ok",
         Measure(s).size <= Len(t), \A i \in 1..Measure(s).size : t[i] = s[i]
  PROVE  Measure(t) = Measure(s)
<1> DEFINE r == ReadLength(Tail(s))
<1>1. /\ s # <<>> /\ IncomingPacketValid(s[1]) /\ r.status = "Ok"
      /\ Measure(s) = [status |-> "Ok", value |-> r.value + r.size + 1, size |-> r.size + 1]
      /\ Measure(s).size \in 2..5 /\ Measure(s).size <= Len(s)
  BY MeasureRead
<1>2. Tail(s) \in Seq(Nat) BY <1>1
<1>3. r.size \in 1..4 /\ Measure(s).size = r.size + 1
  <2>1. r.size \in 1..4 BY <1>1, <1>2, LengthRead
  <2> QED BY <1>1, <2>1
<1>4. 1 \in 1..Measure(s).size /\ Len(t) >= 2 /\ t # <<>> BY <1>1
<1>5. t[1] = s[1] /\ Tail(t) \in Seq(Nat) /\ Len(Tail(t)) = Len(t) - 1 BY <1>4
<1>6. r.size <= Len(Tail(t)) BY <1>3, <1>5
<1>7. \A i \in 1..r.size : Tail(t)[i] = Tail(s)[i]
  <2> SUFFICES ASSUME NEW i \in 1..r.size PROVE Tail(t)[i] = Tail(s)[i] OBVIOUS
  <2> HIDE DEF r
  <2>1. /\ i + 1 \in 1..Measure(s).size /\ i \in 1..(Len(t) - 1) /\ i \in 1..(Len(s) - 1)
    <3> DEFINE n == r.size
               m == Measure(s).size
    <3>1. /\ n \in 1..4 /\ m = n + 1 /\ i \in 1..n /\ n <= Len(t) - 1 /\ m <= Len(s)
          /\ Len(t) \in Nat /\ Len(s) \in Nat
      BY <1>1, <1>3, <1>5, <1>6
    <3> HIDE DEF n, m
    <3>2. i + 1 \in 1..m /\ i \in 1..(Len(t) - 1) /\ i \in 1..(Len(s) - 1) BY <3>1
    <3> QED BY <3>2 DEF m
  <2>2. Tail(t)[i] = t[i + 1] BY <1>4, <2>1
  <2>3. Tail(s)[i] = s[i + 1] BY <1>1, <2>1
  <2> QED BY <2>1, <2>2, <2>3
<1>8. ReadLength(Tail(t)) = r BY <1>1, <1>2, <1>5, <1>6, <1>7, LengthPrefix
<1> QED BY <1>1, <1>4, <1>5, <1>8 DEF Measure

\* What one side frames the other measures, whatever follows on the stream: the
\* reader finds where the packet ends (header.rs, serialize.rs, loop_.rs 118-148).
THEOREM FramedIsMeasured ==
  \A type \in Nat, content, rest \in Seq(Nat) :
    IncomingPacketValid(type) /\ Len(content) < LengthLimit =>
      Measure(Framed(type, content) \o rest) =
        [status |-> "Ok", value |-> Len(Framed(type, content)), size |-> EncodedSize(Len(content)) + 1]
<1> SUFFICES ASSUME NEW type \in Nat, NEW content \in Seq(Nat), NEW rest \in Seq(Nat),
                    IncomingPacketValid(type), Len(content) < LengthLimit
             PROVE  Measure(Framed(type, content) \o rest) =
                      [status |-> "Ok", value |-> Len(Framed(type, content)),
                       size |-> EncodedSize(Len(content)) + 1]
  OBVIOUS
<1> DEFINE n == Len(content)
           code == Encode(n)
           k == EncodedSize(n)
           all == Framed(type, content) \o rest
<1>1. n \in 0..(LengthLimit - 1)
  <2>1. LengthLimit \in Nat
    <3>1. Base * Base \in Nat /\ Base * Base * Base \in Nat BY BaseAssumption
    <3> QED BY <3>1, BaseAssumption DEF LengthLimit
  <2> QED BY <2>1
<1>2. k \in 1..4 /\ code \in Seq(Nat) /\ Len(code) = k BY <1>1, EncodedBytes DEF MaxLengthBytes
<1>3. ReadLength(code) = [status |-> "Ok", value |-> n, size |-> k] BY <1>1, LengthAlone
<1> HIDE DEF n, code, k
<1>4. /\ Framed(type, content) = <<type>> \o code \o content
      /\ Framed(type, content) \in Seq(Nat) /\ Len(Framed(type, content)) = 1 + k + n
  BY <1>2 DEF Framed, n, code
<1>5. /\ all \in Seq(Nat) /\ all # <<>> /\ all[1] = type
      /\ Len(all) = 1 + k + n + Len(rest)
      /\ \A i \in 1..k : all[i + 1] = code[i]
  <2>1. n \in Nat /\ n = Len(content) BY DEF n
  <2>2. all \in Seq(Nat) /\ Len(all) = 1 + k + n + Len(rest)
    <3>1. all \in Seq(Nat) /\ Len(all) = Len(Framed(type, content)) + Len(rest) BY <1>4
    <3> QED BY <1>4, <3>1
  <2>3. \A i \in 1..(1 + k + n) : all[i] = (<<type>> \o code \o content)[i] BY <1>2, <1>4, <2>1
  <2>4. \A i \in 1..(1 + k) : (<<type>> \o code \o content)[i] = (<<type>> \o code)[i] BY <1>2
  <2>5. (<<type>> \o code)[1] = type /\ \A i \in 1..k : (<<type>> \o code)[i + 1] = code[i] BY <1>2
  <2>6. \A i \in 1..(1 + k) : i \in 1..(1 + k + n) BY <1>2, <2>1
  <2>7. \A i \in 1..(1 + k) : all[i] = (<<type>> \o code)[i] BY <2>3, <2>4, <2>6
  <2>8. 1 \in 1..(1 + k) /\ \A i \in 1..k : i + 1 \in 1..(1 + k) BY <1>2
  <2>9. all # <<>> BY <1>2, <2>1, <2>2
  <2> QED BY <2>2, <2>5, <2>7, <2>8, <2>9
<1> HIDE DEF all
<1>6. /\ Tail(all) \in Seq(Nat) /\ Len(Tail(all)) = k + n + Len(rest)
      /\ \A i \in 1..k : Tail(all)[i] = code[i]
  <2>1. n \in Nat BY DEF n
  <2>2. Tail(all) \in Seq(Nat) /\ Len(Tail(all)) = k + n + Len(rest) BY <1>2, <1>5, <2>1
  <2>3. \A i \in 1..k : i \in 1..(Len(all) - 1) BY <1>2, <1>5, <2>1
  <2>4. \A i \in 1..(Len(all) - 1) : Tail(all)[i] = all[i + 1] BY <1>5
  <2> QED BY <1>5, <2>2, <2>3, <2>4
<1>7. ReadLength(Tail(all)) = ReadLength(code)
  <2>1. ReadLength(code).status = "Ok" /\ ReadLength(code).size = k BY <1>3
  <2>2. k <= Len(Tail(all)) BY <1>2, <1>6 DEF n
  <2> QED BY <1>2, <1>6, <2>1, <2>2, LengthPrefix
<1>8. Measure(all) = [status |-> "Ok", value |-> n + k + 1, size |-> k + 1]
  BY <1>3, <1>5, <1>7 DEF Measure
<1>9. n + k + 1 = 1 + k + n BY <1>2 DEF n
<1> QED BY <1>4, <1>8, <1>9 DEF all, n, k

---------------------------------------------------------------------------
(* The stream and the buffer, as long as the application does not refuse   *)
(* the event of a DISCONNECT.                                              *)

\* Everything in transit or held is bytes.
BytesInv ==
  /\ stream \in Seq(Nat) /\ down \in Seq(Nat) /\ buffer \in Seq(Nat)
  /\ Len(buffer) <= BufferSize
  /\ taken \in 0..Len(stream) /\ ends \subseteq 1..Len(stream)

\* One packet lies between e and f, as its own header says.
IsPacket(e, f) ==
  LET m == Measure(SubSeq(stream, e + 1, f))
  IN  e < f /\ m.status = "Ok" /\ m.value = f - e

\* The next packet after e ends at f.
IsNext(e, f) == f \in ends /\ IsPacket(e, f) /\ \A g \in ends : g > e => g >= f

\* The stream is packets end to end, and a DISCONNECT is the last.
StreamInv ==
  /\ stream # <<>> => Len(stream) \in ends
  /\ \A e \in ends : e < Len(stream) => \E f \in ends : IsNext(e, f)
  /\ \A e \in ends : e < Len(stream) /\ stream[e + 1] = DisconnectByte =>
       \A g \in ends : g > e => g = Len(stream)

\* Buffer and transport hold, in order, what has not been consumed.
Aligned ==
  /\ taken \in ends
  /\ taken + Len(buffer) + Len(down) = Len(stream)
  /\ \A k \in 1..Len(buffer) : buffer[k] = stream[taken + k]
  /\ \A k \in 1..Len(down) : down[k] = stream[taken + Len(buffer) + k]

\* Where the client stands in the stream, phase by phase.
Waits == phase = "Sending" /\ sending.what = "Ack"
PlaceInv ==
  /\ status \in {"NotConnected", "Connected", "DisconnectPending"}
  /\ status # "NotConnected" \/ phase = "Consume" => Aligned
  /\ status = "NotConnected" /\ phase # "Consume" => buffer = <<>>
  /\ phase \in {"KeepAlive", "Front"} \/ (phase = "Sending" /\ sending.what \in {"LoopPing", "Ack"}) =>
       status # "NotConnected"
  /\ phase = "Consume" \/ Waits =>
       Measure(buffer).status = "Ok" /\ Measure(buffer).value <= Len(buffer)
  /\ phase = "Consume" /\ status = "NotConnected" => Measure(buffer).value = Len(buffer)

\* Until the CONNACK is read there is nothing else, and none of it is buffered.
ConnectInv ==
  /\ phase = "Sending" /\ sending.what = "Connect" =>
       stream = <<>> /\ down = <<>> /\ ends = {} /\ taken = 0
  /\ phase = "Sending" /\ sending.what = "Disconnect" => status = "NotConnected"
  /\ phase = "ConnAck" =>
       /\ taken = 0 /\ down = stream
       /\ \/ stream = <<>> /\ ends = {}
          \/ ends = {Len(stream)} /\ \E b \in ConnAckBodies : stream = Framed(ConnAckByte, b)
  /\ phase = "Body" =>
       /\ body \in [wanted : Nat, got : Seq(Nat)] /\ Len(body.got) <= body.wanted
       /\ stream # <<>> /\ ends = {Len(stream)}
       /\ taken + Len(down) = Len(stream) /\ taken + body.wanted - Len(body.got) = Len(stream)

\* Nothing whole is left behind, also while a packet of the application's goes
\* out between two calls.
LeftInv ==
  /\ status # "NotConnected" /\ answer \in {"Ok", "NeedMoreBytes"}
  /\ \/ phase = "Idle"
     \/ phase = "Sending" /\ sending.what \notin {"Connect", "Disconnect", "LoopPing", "Ack"}
  => \A e \in ends : e > taken => e > taken + Len(buffer)

WireInv == BytesInv /\ StreamInv /\ PlaceInv /\ ConnectInv /\ LeftInv

\* A device that has not connected yet holds nothing.
LEMMA InitWire == Init => WireInv
<1> SUFFICES ASSUME Init PROVE WireInv OBVIOUS
<1>1. BytesInv BY WireAssumption DEF Init, BytesInv
<1> QED BY <1>1 DEF Init, WireInv, StreamInv, PlaceInv, ConnectInv, LeftInv, Waits

\* What the assumptions say of what the broker sends.
LEMMA PacketsAre ==
  /\ \A p \in Packets : /\ p \in Seq(Nat) /\ Measure(p).status = "Ok"
                        /\ Measure(p).value = Len(p) /\ Len(p) >= 2
  /\ \A b \in ConnAckBodies :
       LET p == Framed(ConnAckByte, b)
       IN  /\ p \in Seq(Nat) /\ Measure(p).status = "Ok"
           /\ Measure(p).value = Len(p) /\ Len(p) >= 2
<1>1. ASSUME NEW p \in Packets
      PROVE  p \in Seq(Nat) /\ Measure(p).status = "Ok" /\ Measure(p).value = Len(p) /\ Len(p) >= 2
  <2>1. p \in Seq(Nat) /\ Measure(p).status = "Ok" /\ Measure(p).value = Len(p) BY WireAssumption
  <2>2. Measure(p).size \in 2..5 /\ Measure(p).size <= Len(p) BY <2>1, MeasureRead
  <2> QED BY <2>1, <2>2
<1>2. ASSUME NEW b \in ConnAckBodies
      PROVE  LET p == Framed(ConnAckByte, b)
             IN  p \in Seq(Nat) /\ Measure(p).status = "Ok" /\ Measure(p).value = Len(p) /\ Len(p) >= 2
  <2> DEFINE p == Framed(ConnAckByte, b)
  <2>1. b \in Seq(Nat) /\ Len(b) < LengthLimit BY WireAssumption
  <2>2. ConnAckByte \in Nat /\ IncomingPacketValid(ConnAckByte)
    BY DEF ConnAckByte, IncomingPacketValid, Nibble
  <2>3. Encode(Len(b)) \in Seq(Nat)
    <3>1. LengthLimit \in Nat
      <4>1. Base * Base \in Nat /\ Base * Base * Base \in Nat BY BaseAssumption
      <4> QED BY <4>1, BaseAssumption DEF LengthLimit
    <3>2. Len(b) \in 0..(LengthLimit - 1) BY <2>1, <3>1
    <3> QED BY <3>2, EncodedBytes
  <2>4. p \in Seq(Nat) BY <2>1, <2>2, <2>3 DEF Framed
  <2>5. p \o <<>> = p BY <2>4
  <2>6. <<>> \in Seq(Nat) OBVIOUS
  <2>7. Measure(p) = [status |-> "Ok", value |-> Len(p), size |-> EncodedSize(Len(b)) + 1]
    <3>1. Measure(p \o <<>>) = [status |-> "Ok", value |-> Len(p), size |-> EncodedSize(Len(b)) + 1]
      BY <2>1, <2>2, <2>6, FramedIsMeasured
    <3> QED BY <2>5, <3>1
  <2> HIDE DEF p
  <2>8. Measure(p).status = "Ok" /\ Measure(p).value = Len(p) BY <2>7
  <2>9. Measure(p).size \in 2..5 /\ Measure(p).size <= Len(p) BY <2>4, <2>8, MeasureRead
  <2>10. Len(p) >= 2 BY <2>4, <2>9
  <2> QED BY <2>4, <2>8, <2>10 DEF p
<1> QED BY <1>1, <1>2

---------------------------------------------------------------------------
(* The packet at the front.                                                *)

\* A part of a sequence, element by element.
LEMMA SubSeqIs ==
  ASSUME NEW s \in Seq(Nat), NEW e \in Nat, NEW f \in Nat, e <= f, f <= Len(s)
  PROVE  /\ SubSeq(s, e + 1, f) \in Seq(Nat) /\ Len(SubSeq(s, e + 1, f)) = f - e
         /\ \A k \in 1..(f - e) : SubSeq(s, e + 1, f)[k] = s[e + k]
<1> DEFINE p == SubSeq(s, e + 1, f)
<1>1. p \in Seq(Nat) BY SMT
<1>2. Len(p) = f - e BY SMT
<1>3. ASSUME NEW k \in 1..(f - e) PROVE p[k] = s[e + k]
  <2>1. p[k] = s[e + 1 + k - 1] BY SMT
  <2>2. e + 1 + k - 1 = e + k OBVIOUS
  <2> QED BY <2>1, <2>2
<1> QED BY <1>1, <1>2, <1>3

\* What the buffer's header says is where the next packet ends.
LEMMA FrontIs ==
  ASSUME BytesInv, StreamInv, Aligned, Measure(buffer).status = "Ok"
  PROVE  /\ IsNext(taken, taken + Measure(buffer).value)
         /\ Measure(buffer).value \in Nat /\ Measure(buffer).value >= 2
         /\ buffer[1] = stream[taken + 1] /\ taken < Len(stream)
<1>1. /\ Measure(buffer).size \in 2..5 /\ Measure(buffer).size <= Len(buffer)
      /\ Measure(buffer).value \in Nat /\ Measure(buffer).size <= Measure(buffer).value
  BY MeasureRead DEF BytesInv
<1>2. /\ taken \in ends /\ taken \in Nat /\ Len(buffer) \in Nat /\ Len(down) \in Nat
      /\ Len(stream) \in Nat /\ taken + Len(buffer) + Len(down) = Len(stream)
      /\ \A k \in 1..Len(buffer) : buffer[k] = stream[taken + k]
  BY DEF Aligned, BytesInv
<1>3. Len(buffer) >= 2 /\ taken < Len(stream) /\ buffer[1] = stream[taken + 1]
  BY <1>1, <1>2
<1>4. PICK f \in ends : IsNext(taken, f) BY <1>2, <1>3 DEF StreamInv
<1> DEFINE p == SubSeq(stream, taken + 1, f)
<1>5. /\ taken < f /\ f \in 1..Len(stream) /\ Measure(p).status = "Ok" /\ Measure(p).value = f - taken
  BY <1>4 DEF IsNext, IsPacket, BytesInv
<1>6. /\ p \in Seq(Nat) /\ Len(p) = f - taken
      /\ \A k \in 1..(f - taken) : p[k] = stream[taken + k]
  <2>1. stream \in Seq(Nat) BY DEF BytesInv
  <2>2. taken \in Nat /\ f \in Nat /\ taken <= f /\ f <= Len(stream) BY <1>2, <1>5
  <2> QED BY <2>1, <2>2, SubSeqIs
<1> HIDE DEF p
<1>7. /\ Measure(p).size \in 2..5 /\ Measure(p).size <= Len(p) BY <1>5, <1>6, MeasureRead
<1>8. Measure(buffer) = Measure(p)
  <2>1. CASE Measure(buffer).size <= Len(p)
    <3>1. \A k \in 1..Measure(buffer).size : p[k] = buffer[k]
      <4> DEFINE m == Measure(buffer).size
                 d == f - taken
      <4>0. m \in Nat /\ d \in Nat /\ m <= Len(buffer) /\ m <= d BY <1>1, <1>2, <1>5, <1>6, <2>1
      <4> HIDE DEF m, d
      <4>1. \A k \in 1..m : k \in 1..Len(buffer) /\ k \in 1..d BY <1>2, <4>0
      <4> USE DEF m, d
      <4> QED BY <1>2, <1>6, <4>1
    <3>2. buffer \in Seq(Nat) BY DEF BytesInv
    <3>3. Measure(p) = Measure(buffer) BY <1>6, <2>1, <3>1, <3>2, MeasurePrefix
    <3> QED BY <3>3
  <2>2. CASE ~(Measure(buffer).size <= Len(p))
    <3>1. Measure(p).size <= Len(buffer)
      <4> DEFINE m == Measure(buffer).size
                 n == Measure(p).size
                 d == f - taken
      <4>1. d \in Nat /\ m \in Nat /\ n \in Nat /\ m <= Len(buffer) /\ n <= d /\ ~(m <= d)
        <5>1. d \in Nat BY <1>2, <1>5
        <5>2. m \in Nat /\ m <= Len(buffer) BY <1>1
        <5>3. n \in Nat /\ n <= d BY <1>6, <1>7
        <5>4. ~(m <= d) BY <1>6, <2>2
        <5> QED BY <5>1, <5>2, <5>3, <5>4
      <4> HIDE DEF m, n, d
      <4>2. n <= Len(buffer) BY <1>2, <4>1
      <4> QED BY <4>2 DEF n
    <3>2. \A k \in 1..Measure(p).size : buffer[k] = p[k]
      <4> DEFINE n == Measure(p).size
                 d == f - taken
      <4>0. n \in Nat /\ d \in Nat /\ n <= Len(buffer) /\ n <= d
        <5>1. d \in Nat BY <1>2, <1>5
        <5>2. n \in Nat /\ n <= d BY <1>6, <1>7
        <5> QED BY <3>1, <5>1, <5>2
      <4> HIDE DEF n, d
      <4>1. \A k \in 1..n : k \in 1..Len(buffer) /\ k \in 1..d BY <1>2, <4>0
      <4> USE DEF n, d
      <4> QED BY <1>2, <1>6, <4>1
    <3>3. buffer \in Seq(Nat) BY DEF BytesInv
    <3> QED BY <1>5, <1>6, <3>1, <3>2, <3>3, MeasurePrefix
  <2> QED BY <2>1, <2>2
<1>9. taken + Measure(buffer).value = f BY <1>2, <1>5, <1>8
<1> QED BY <1>1, <1>3, <1>4, <1>9

\* A whole packet in the buffer is seen there.
LEMMA WholeIsSeen ==
  ASSUME BytesInv, StreamInv, Aligned, NEW e \in ends, e > taken, e <= taken + Len(buffer)
  PROVE  Measure(buffer).status = "Ok" /\ Measure(buffer).value <= Len(buffer)
<1>1. /\ taken \in ends /\ taken \in Nat /\ Len(buffer) \in Nat /\ Len(down) \in Nat
      /\ Len(stream) \in Nat /\ taken + Len(buffer) + Len(down) = Len(stream)
      /\ \A k \in 1..Len(buffer) : buffer[k] = stream[taken + k]
      /\ e \in 1..Len(stream)
  BY DEF Aligned, BytesInv
<1>2. taken < Len(stream) BY <1>1
<1>3. PICK f \in ends : IsNext(taken, f) BY <1>1, <1>2 DEF StreamInv
<1> DEFINE p == SubSeq(stream, taken + 1, f)
<1>4. /\ taken < f /\ f \in 1..Len(stream) /\ f <= e
      /\ Measure(p).status = "Ok" /\ Measure(p).value = f - taken
  <2>1. taken < f /\ f \in 1..Len(stream) /\ e >= f BY <1>3 DEF IsNext, IsPacket, BytesInv
  <2> QED BY <1>1, <1>3, <2>1 DEF IsNext, IsPacket
<1>5. /\ p \in Seq(Nat) /\ Len(p) = f - taken
      /\ \A k \in 1..(f - taken) : p[k] = stream[taken + k]
  <2>1. stream \in Seq(Nat) /\ f \in Nat /\ taken <= f /\ f <= Len(stream) BY <1>1, <1>4 DEF BytesInv
  <2> QED BY <1>1, <2>1, SubSeqIs
<1>6. f - taken \in Nat /\ f - taken <= Len(buffer) BY <1>1, <1>4
<1> HIDE DEF p
<1>7. Measure(p).size \in 2..5 /\ Measure(p).size <= Len(p) BY <1>4, <1>5, MeasureRead
<1>8. Measure(buffer) = Measure(p)
  <2>1. Measure(p).size <= Len(buffer) BY <1>1, <1>5, <1>6, <1>7
  <2>2. \A k \in 1..Measure(p).size : buffer[k] = p[k]
    <3> DEFINE n == Measure(p).size
               d == f - taken
    <3>0. n \in Nat /\ d \in Nat /\ n <= Len(buffer) /\ n <= d
      <4>1. n \in Nat /\ n <= d BY <1>5, <1>7
      <4> QED BY <1>6, <2>1, <4>1
    <3> HIDE DEF n, d
    <3>1. \A k \in 1..n : k \in 1..Len(buffer) /\ k \in 1..d BY <1>1, <3>0
    <3> USE DEF n, d
    <3> QED BY <1>1, <1>5, <3>1
  <2>3. buffer \in Seq(Nat) BY DEF BytesInv
  <2> QED BY <1>4, <1>5, <2>1, <2>2, <2>3, MeasurePrefix
<1> QED BY <1>4, <1>6, <1>8

---------------------------------------------------------------------------
(* What the steps do to the stream.                                        *)

\* A step that moves no byte leaves everything where it is.
LEMMA CalmNetwork ==
  ASSUME UNCHANGED network
  PROVE  /\ BytesInv => BytesInv'
         /\ StreamInv => StreamInv'
         /\ Aligned' = Aligned
         /\ Measure(buffer)' = Measure(buffer)
<1>1. buffer' = buffer /\ down' = down /\ stream' = stream /\ ends' = ends /\ taken' = taken
  BY DEF network
<1> QED BY <1>1 DEF BytesInv, StreamInv, IsNext, IsPacket, Aligned

\* A packet put on the stream ends it, and what was there stays.
LEMMA PutStream ==
  ASSUME BytesInv, StreamInv, NEW p \in Seq(Nat), Puts(p),
         Measure(p).status = "Ok", Measure(p).value = Len(p), Len(p) >= 2,
         \A e \in ends : e < Len(stream) => stream[e + 1] # DisconnectByte
  PROVE  /\ BytesInv' /\ StreamInv' /\ (Aligned => Aligned')
         /\ Len(stream') = Len(stream) + Len(p) /\ stream' # <<>>
         /\ ends' = ends \cup {Len(stream')} /\ \A e \in ends : e <= Len(stream) /\ e < Len(stream')
<1> DEFINE n == Len(stream)
           l == Len(p)
<1>1. /\ stream \in Seq(Nat) /\ down \in Seq(Nat) /\ buffer \in Seq(Nat)
      /\ taken \in 0..n /\ ends \subseteq 1..n
      /\ n \in Nat /\ l \in Nat /\ l >= 2 /\ Len(down) \in Nat /\ Len(buffer) \in Nat
  BY DEF BytesInv
<1>2. /\ down' = down \o p /\ stream' = stream \o p /\ ends' = ends \cup {n + l}
      /\ buffer' = buffer /\ taken' = taken
  BY DEF Puts
<1>3. /\ stream' \in Seq(Nat) /\ Len(stream') = n + l
      /\ \A k \in 1..(n + l) : stream'[k] = IF k <= n THEN stream[k] ELSE p[k - n]
  BY <1>1, <1>2, ConcatProperties
<1>4. /\ down' \in Seq(Nat) /\ Len(down') = Len(down) + l
      /\ \A k \in 1..(Len(down) + l) : down'[k] = IF k <= Len(down) THEN down[k] ELSE p[k - Len(down)]
  BY <1>1, <1>2, ConcatProperties
<1> HIDE DEF n, l
<1>z. PICK z \in Nat : z = n + l BY <1>1
<1>5. BytesInv'
  <2>1. taken' \in 0..(n + l) /\ ends' \subseteq 1..(n + l) BY <1>1, <1>2
  <2> QED BY <1>1, <1>2, <1>3, <1>4, <2>1 DEF BytesInv
<1>6. \A e \in ends : e \in Nat /\ e <= n /\ e < n + l BY <1>1
<1>7. StreamInv'
  <2>1. Len(stream') \in ends' BY <1>2, <1>3
  <2>2. ASSUME NEW e \in ends', e < n + l PROVE \E f \in ends' : IsNext(e, f)'
    <3>1. e \in ends
      <4>1. e # n + l BY <1>1, <1>z, <2>2
      <4> QED BY <1>2, <2>2, <4>1
    <3>2. CASE e < n
      <4>1. PICK f \in ends : IsNext(e, f) BY <3>1, <3>2 DEF StreamInv, n
      <4>2. e < f /\ f \in Nat /\ f <= n /\ e \in Nat BY <1>6, <3>1, <4>1 DEF IsNext, IsPacket
      <4>3. SubSeq(stream', e + 1, f) = SubSeq(stream, e + 1, f)
        <5> DEFINE a == SubSeq(stream', e + 1, f)
                   b == SubSeq(stream, e + 1, f)
        <5>1. e <= f /\ f <= n /\ f <= n + l BY <1>1, <4>2
        <5>2. a \in Seq(Nat) /\ Len(a) = f - e /\ \A k \in 1..(f - e) : a[k] = stream'[e + k]
          BY <1>3, <4>2, <5>1, SubSeqIs
        <5>3. b \in Seq(Nat) /\ Len(b) = f - e /\ \A k \in 1..(f - e) : b[k] = stream[e + k]
          BY <1>1, <4>2, <5>1, SubSeqIs DEF n
        <5>4. \A k \in 1..(f - e) : e + k \in 1..(n + l) /\ e + k <= n BY <1>1, <4>2, <5>1
        <5>5. \A k \in 1..(f - e) : a[k] = b[k] BY <1>3, <5>2, <5>3, <5>4
        <5> HIDE DEF a, b
        <5>6. a = b BY <5>2, <5>3, <5>5, SeqEqual
        <5> QED BY <5>6 DEF a, b
      <4>4. IsPacket(e, f)' BY <4>1, <4>3 DEF IsNext, IsPacket
      <4>5. \A g \in ends' : g > e => g >= f BY <1>1, <1>2, <4>1, <4>2 DEF IsNext
      <4> QED BY <1>2, <4>1, <4>4, <4>5 DEF IsNext
    <3>3. CASE e = n
      <4>1. SubSeq(stream', e + 1, z) = p
        <5> DEFINE a == SubSeq(stream', e + 1, z)
        <5>1. /\ e \in Nat /\ e <= z /\ z <= Len(stream') /\ z - e = l
              /\ \A k \in 1..l : e + k \in 1..(n + l) /\ ~(e + k <= n) /\ (e + k) - n = k
          BY <1>1, <1>3, <1>z, <3>3
        <5>2. a \in Seq(Nat) /\ Len(a) = z - e /\ \A k \in 1..(z - e) : a[k] = stream'[e + k]
          BY <1>3, <1>z, <5>1, SubSeqIs
        <5> HIDE DEF a
        <5>3. \A k \in 1..l : a[k] = stream'[e + k] BY <5>1, <5>2
        <5>4. ASSUME NEW k \in 1..l PROVE stream'[e + k] = p[(e + k) - n]
          <6> DEFINE j == e + k
          <6>1. j \in 1..(n + l) /\ ~(j <= n) BY <5>1
          <6> HIDE DEF j
          <6>2. stream'[j] = p[j - n] BY <1>3, <6>1
          <6> QED BY <6>2 DEF j
        <5>5. \A k \in 1..l : a[k] = p[k] BY <5>1, <5>3, <5>4
        <5>6. a = p BY <5>1, <5>2, <5>5, SeqEqual DEF l
        <5> QED BY <5>6 DEF a
      <4>2. e < z /\ z - e = l BY <1>1, <1>z, <3>3
      <4>3. IsPacket(e, z)' BY <4>1, <4>2 DEF IsPacket, l
      <4>4. \A g \in ends' : g > e => g >= z BY <1>1, <1>2, <1>6, <1>z, <3>3
      <4> QED BY <1>2, <1>z, <4>3, <4>4 DEF IsNext
    <3> QED BY <1>1, <1>6, <3>1, <3>2, <3>3
  <2>3. ASSUME NEW e \in ends', e < n + l, stream'[e + 1] = DisconnectByte, NEW g \in ends', g > e
        PROVE  g = n + l
    <3>1. e \in ends
      <4>1. e # n + l BY <1>1, <1>z, <2>3
      <4> QED BY <1>2, <2>3, <4>1
    <3>2. CASE e < n
      <4>1. e + 1 \in 1..(n + l) /\ e + 1 <= n BY <1>1, <1>6, <3>1, <3>2
      <4>2. stream[e + 1] = DisconnectByte BY <1>3, <2>3, <4>1
      <4> QED BY <3>1, <3>2, <4>2 DEF n
    <3>3. CASE e = n BY <1>1, <1>2, <1>6, <2>3, <3>3
    <3> QED BY <1>1, <1>6, <3>1, <3>2, <3>3
  <2> QED BY <1>3, <2>1, <2>2, <2>3 DEF StreamInv
<1>8. ASSUME Aligned PROVE Aligned'
  <2>1. /\ taken \in ends /\ taken + Len(buffer) + Len(down) = n
        /\ \A k \in 1..Len(buffer) : buffer[k] = stream[taken + k]
        /\ \A k \in 1..Len(down) : down[k] = stream[taken + Len(buffer) + k]
    BY <1>8 DEF Aligned, n
  <2>2. taken \in Nat BY <1>1
  <2>3. taken' \in ends' /\ taken' + Len(buffer') + Len(down') = Len(stream')
    <3> DEFINE b == Len(buffer)
               d == Len(down)
    <3>1. b \in Nat /\ d \in Nat /\ taken + b + d = n BY <1>1, <2>1
    <3> HIDE DEF b, d
    <3>2. taken + b + (d + l) = n + l BY <1>1, <2>2, <3>1
    <3> QED BY <1>2, <1>3, <1>4, <2>1, <3>2 DEF b, d
  <2>4. ASSUME NEW k \in 1..Len(buffer) PROVE buffer'[k] = stream'[taken' + k]
    <3> DEFINE b == Len(buffer)
               d == Len(down)
    <3>1. b \in Nat /\ d \in Nat /\ taken + b + d = n /\ k \in 1..b BY <1>1, <2>1, <2>4
    <3> HIDE DEF b, d
    <3>2. taken + k \in 1..(n + l) /\ taken + k <= n BY <1>1, <2>2, <3>1
    <3> QED BY <1>2, <1>3, <2>1, <2>4, <3>2
  <2>5. ASSUME NEW k \in Nat, 1 <= k, k <= Len(down) + l PROVE down'[k] = stream'[taken' + Len(buffer') + k]
    <3> DEFINE m == taken + Len(buffer)
               d == Len(down)
    <3>1. m \in Nat /\ d \in Nat /\ m + d = n BY <1>1, <2>1, <2>2
    <3> HIDE DEF m, d
    <3>2. CASE k <= d
      <4>1. m + k \in 1..(n + l) /\ m + k <= n /\ k \in 1..d BY <1>1, <2>5, <3>1, <3>2
      <4>2. down'[k] = down[k] BY <1>4, <2>5, <3>2 DEF d
      <4>3. stream'[m + k] = stream[m + k] BY <1>3, <4>1
      <4> QED BY <1>2, <2>1, <4>1, <4>2, <4>3 DEF m, d
    <3>3. CASE ~(k <= d)
      <4>0. k <= d + l BY <2>5 DEF d
      <4>1. m + k \in 1..(n + l) /\ ~(m + k <= n) /\ (m + k) - n = k - d
        BY <1>1, <2>5, <3>1, <3>3, <4>0
      <4>2. down'[k] = p[k - d] BY <1>4, <2>5, <3>3 DEF d
      <4>3. stream'[m + k] = p[(m + k) - n]
        <5> DEFINE j == m + k
        <5>1. j \in 1..(n + l) /\ ~(j <= n) BY <4>1
        <5> HIDE DEF j
        <5>2. stream'[j] = p[j - n] BY <1>3, <5>1
        <5> QED BY <5>2 DEF j
      <4> QED BY <1>2, <4>1, <4>2, <4>3 DEF m
    <3> QED BY <3>2, <3>3
  <2>6. \A k \in 1..Len(down') : k \in Nat /\ 1 <= k /\ k <= Len(down) + l BY <1>1, <1>4
  <2>7. \A k \in 1..Len(down') : down'[k] = stream'[taken' + Len(buffer') + k] BY <2>5, <2>6
  <2>8. \A k \in 1..Len(buffer') : buffer'[k] = stream'[taken' + k] BY <1>2, <2>4
  <2> QED BY <2>3, <2>7, <2>8 DEF Aligned
<1>9. stream' # <<>> BY <1>1, <1>3
<1> QED BY <1>2, <1>3, <1>5, <1>6, <1>7, <1>8, <1>9 DEF n, l

\* As long as the broker sends nothing the stream stays what it is.
LEMMA SameStream ==
  ASSUME StreamInv, stream' = stream, ends' = ends
  PROVE  StreamInv'
BY DEF StreamInv, IsNext, IsPacket

\* A read moves the first bytes in transit behind those in the buffer.
LEMMA ReadStream ==
  ASSUME BytesInv, Aligned, NEW n \in 0..Len(down), Len(buffer) + n <= BufferSize,
         buffer' = buffer \o SubSeq(down, 1, n), down' = SubSeq(down, n + 1, Len(down)),
         stream' = stream, ends' = ends, taken' = taken
  PROVE  BytesInv' /\ Aligned'
<1> DEFINE b == Len(buffer)
           d == Len(down)
           part == SubSeq(down, 1, n)
           rest == SubSeq(down, n + 1, d)
<1>1. /\ stream \in Seq(Nat) /\ down \in Seq(Nat) /\ buffer \in Seq(Nat)
      /\ taken \in Nat /\ b \in Nat /\ d \in Nat /\ n \in Nat /\ n <= d
      /\ taken \in ends /\ taken + b + d = Len(stream) /\ Len(stream) \in Nat
      /\ \A k \in 1..b : buffer[k] = stream[taken + k]
      /\ \A k \in 1..d : down[k] = stream[taken + b + k]
  BY SMTT(30) DEF BytesInv, Aligned
<1>2. part \in Seq(Nat) /\ Len(part) = n /\ \A k \in 1..n : part[k] = down[k]
  <2>1. 0 + 1 = 1 /\ n - 0 = n /\ \A k \in 1..n : 0 + k = k BY <1>1
  <2>2. /\ SubSeq(down, 0 + 1, n) \in Seq(Nat) /\ Len(SubSeq(down, 0 + 1, n)) = n - 0
        /\ \A k \in 1..(n - 0) : SubSeq(down, 0 + 1, n)[k] = down[0 + k]
    <3>1. 0 \in Nat /\ 0 <= n BY <1>1
    <3> QED BY <1>1, <3>1, SubSeqIs
  <2> QED BY <2>1, <2>2
<1>3. /\ buffer' \in Seq(Nat) /\ Len(buffer') = b + n
      /\ \A k \in 1..(b + n) : buffer'[k] = IF k <= b THEN buffer[k] ELSE part[k - b]
  <2>1. buffer' = buffer \o part OBVIOUS
  <2> HIDE DEF part
  <2>2. /\ buffer \o part \in Seq(Nat) /\ Len(buffer \o part) = b + Len(part)
        /\ \A k \in 1..(b + Len(part)) :
             (buffer \o part)[k] = IF k <= b THEN buffer[k] ELSE part[k - b]
    <3>1. buffer \in Seq(Nat) /\ part \in Seq(Nat) BY <1>1, <1>2
    <3> QED BY <3>1, ConcatProperties
  <2> QED BY <1>2, <2>1, <2>2
<1>4. /\ down' \in Seq(Nat) /\ Len(down') = d - n
      /\ \A k \in 1..(d - n) : down'[k] = down[n + k]
  <2>1. down' = rest OBVIOUS
  <2>2. rest \in Seq(Nat) /\ Len(rest) = d - n /\ \A k \in 1..(d - n) : rest[k] = down[n + k]
    <3>1. down \in Seq(Nat) /\ n \in Nat /\ d \in Nat /\ n <= d /\ d <= Len(down) BY <1>1
    <3> QED BY <3>1, SubSeqIs
  <2> QED BY <2>1, <2>2
<1>5. BytesInv' BY <1>3, <1>4 DEF BytesInv
<1> HIDE DEF b, d, part, rest
<1>6. taken' + Len(buffer') + Len(down') = Len(stream')
  <2>1. taken + (b + n) + (d - n) = taken + b + d BY <1>1
  <2> QED BY <1>1, <1>3, <1>4, <2>1
<1>7. ASSUME NEW k \in 1..(b + n) PROVE buffer'[k] = stream'[taken' + k]
  <2>1. CASE k <= b BY <1>1, <1>3, <1>7, <2>1
  <2>2. CASE ~(k <= b)
    <3> DEFINE j == k - b
    <3>1. j \in 1..n /\ j \in 1..d /\ taken + b + j = taken + k BY <1>1, <1>7, <2>2
    <3>2. buffer'[k] = part[j] BY <1>3, <1>7, <2>2
    <3> HIDE DEF j
    <3>3. part[j] = stream[taken + b + j] BY <1>1, <1>2, <3>1
    <3> QED BY <3>1, <3>2, <3>3
  <2> QED BY <2>1, <2>2
<1>8. ASSUME NEW k \in 1..(d - n) PROVE down'[k] = stream'[taken' + Len(buffer') + k]
  <2> DEFINE j == n + k
  <2>1. j \in 1..d /\ taken + b + j = taken + (b + n) + k BY <1>1, <1>8
  <2>2. down'[k] = down[j] BY <1>4, <1>8
  <2> HIDE DEF j
  <2>3. down[j] = stream[taken + b + j] BY <1>1, <2>1
  <2> QED BY <1>3, <2>1, <2>2, <2>3
<1>9. Aligned' BY <1>1, <1>3, <1>4, <1>6, <1>7, <1>8 DEF Aligned
<1> QED BY <1>5, <1>9

\* Bytes of the CONNACK are taken off the transport without the buffer.
LEMMA TakeStream ==
  ASSUME BytesInv, taken + Len(down) = Len(stream), NEW n \in 0..Len(down), Take(n),
         buffer' = buffer
  PROVE  BytesInv' /\ taken' + Len(down') = Len(stream')
<1>1. /\ down' = SubSeq(down, n + 1, Len(down)) /\ taken' = taken + n
      /\ stream' = stream /\ ends' = ends
  BY DEF Take
<1>2. /\ stream \in Seq(Nat) /\ down \in Seq(Nat) /\ taken \in Nat /\ Len(down) \in Nat
      /\ n \in Nat /\ n <= Len(down) /\ Len(stream) \in Nat
  BY DEF BytesInv
<1>3. down' \in Seq(Nat) /\ Len(down') = Len(down) - n BY <1>1, <1>2, SubSeqIs
<1>4. taken' \in 0..Len(stream) /\ taken' + Len(down') = Len(stream)
  <2> DEFINE d == Len(down)
             l == Len(stream)
  <2>1. d \in Nat /\ l \in Nat /\ n <= d /\ taken + d = l BY <1>2
  <2> HIDE DEF d, l
  <2>2. taken + n \in 0..l /\ taken + n + (d - n) = l BY <1>2, <2>1
  <2> QED BY <1>1, <1>3, <2>2 DEF d, l
<1> QED BY <1>1, <1>3, <1>4 DEF BytesInv

\* What is consumed is the packet at the front, and no more.
LEMMA ConsumeStream ==
  ASSUME BytesInv, StreamInv, Aligned, Measure(buffer).status = "Ok",
         Measure(buffer).value <= Len(buffer), Consume
  PROVE  /\ BytesInv' /\ StreamInv' /\ Aligned'
         /\ taken' = taken + Measure(buffer).value
         /\ Len(buffer') = Len(buffer) - Measure(buffer).value
<1> DEFINE b == Len(buffer)
           d == Len(down)
           v == Measure(buffer).value
<1>1. IsNext(taken, taken + v) /\ v \in Nat BY FrontIs
<1>2. /\ stream \in Seq(Nat) /\ down \in Seq(Nat) /\ buffer \in Seq(Nat)
      /\ taken \in Nat /\ b \in Nat /\ d \in Nat /\ v <= b /\ b <= BufferSize
      /\ taken \in ends /\ taken + b + d = Len(stream) /\ Len(stream) \in Nat
      /\ \A k \in 1..b : buffer[k] = stream[taken + k]
      /\ \A k \in 1..d : down[k] = stream[taken + b + k]
  BY DEF BytesInv, Aligned
<1>3. /\ buffer' = SubSeq(buffer, v + 1, b) /\ taken' = taken + b - Len(buffer')
      /\ stream' = stream /\ down' = down /\ ends' = ends
  BY DEF Consume, After
<1> HIDE DEF b, d, v
<1>4. /\ buffer' \in Seq(Nat) /\ Len(buffer') = b - v
      /\ \A k \in 1..(b - v) : buffer'[k] = buffer[v + k]
  <2>1. b = Len(buffer) BY DEF b
  <2>2. /\ SubSeq(buffer, v + 1, b) \in Seq(Nat) /\ Len(SubSeq(buffer, v + 1, b)) = b - v
        /\ \A k \in 1..(b - v) : SubSeq(buffer, v + 1, b)[k] = buffer[v + k]
    BY <1>1, <1>2, <2>1, SubSeqIs
  <2> QED BY <1>3, <2>2
<1>5. taken' = taken + v
  <2>1. b - (b - v) = v BY <1>1, <1>2
  <2>2. taken' = taken + (b - (b - v)) BY <1>1, <1>2, <1>3, <1>4
  <2> QED BY <2>1, <2>2
<1>6. taken + v \in ends BY <1>1 DEF IsNext
<1>7. BytesInv'
  <2>1. taken' \in 0..Len(stream') /\ Len(buffer') <= BufferSize
    <3>1. BufferSize \in Nat BY WireAssumption
    <3> QED BY <1>1, <1>2, <1>3, <1>4, <1>5, <3>1
  <2> QED BY <1>3, <1>4, <2>1 DEF BytesInv
<1>8. ASSUME NEW k \in 1..(b - v) PROVE buffer'[k] = stream'[taken' + k]
  <2> DEFINE j == v + k
  <2>1. j \in 1..b /\ taken + j = taken + v + k BY <1>1, <1>2, <1>8
  <2>2. buffer'[k] = buffer[j] BY <1>4, <1>8
  <2> HIDE DEF j
  <2>3. buffer[j] = stream[taken + j] BY <1>2, <2>1
  <2> QED BY <1>3, <1>5, <2>1, <2>2, <2>3
<1>9. taken + v + (b - v) = taken + b BY <1>1, <1>2
<1>10. Aligned'
  <2>1. taken' + Len(buffer') = taken + b BY <1>4, <1>5, <1>9
  <2>2. taken' + Len(buffer') + Len(down') = Len(stream') BY <1>2, <1>3, <2>1 DEF d
  <2>3. \A k \in 1..Len(buffer') : buffer'[k] = stream'[taken' + k] BY <1>4, <1>8
  <2>4. \A k \in 1..Len(down') : down'[k] = stream'[taken' + Len(buffer') + k]
    BY <1>2, <1>3, <2>1 DEF d
  <2>5. taken' \in ends' BY <1>3, <1>5, <1>6
  <2> QED BY <2>2, <2>3, <2>4, <2>5 DEF Aligned
<1>11. StreamInv' BY <1>3, SameStream
<1> QED BY <1>4, <1>5, <1>7, <1>10, <1>11 DEF b, v

\* The front of a sequence, element by element.
LEMMA PrefixIs ==
  ASSUME NEW s \in Seq(Nat), NEW n \in 0..Len(s)
  PROVE  /\ SubSeq(s, 1, n) \in Seq(Nat) /\ Len(SubSeq(s, 1, n)) = n
         /\ \A k \in 1..n : SubSeq(s, 1, n)[k] = s[k]
<1>1. 0 \in Nat /\ n \in Nat /\ 0 <= n /\ n <= Len(s) OBVIOUS
<1>2. /\ SubSeq(s, 0 + 1, n) \in Seq(Nat) /\ Len(SubSeq(s, 0 + 1, n)) = n - 0
      /\ \A k \in 1..(n - 0) : SubSeq(s, 0 + 1, n)[k] = s[0 + k]
  BY <1>1, SubSeqIs
<1>3. 0 + 1 = 1 /\ n - 0 = n /\ \A k \in 1..n : 0 + k = k BY <1>1
<1> QED BY <1>2, <1>3

\* Byte by byte the reader stops right behind the header of the CONNACK, and
\* the header counts the rest.
LEMMA HeaderIs ==
  ASSUME NEW b \in ConnAckBodies, down = Framed(ConnAckByte, b), NEW n \in 1..Len(down),
         ReadHeader(SubSeq(down, 1, n)).status = "Ok",
         \A i \in 1..(n - 1) : Measure(SubSeq(down, 1, i)).status = "NeedMoreBytes"
  PROVE  LET read == ReadHeader(SubSeq(down, 1, n))
         IN  read.size = n /\ read.value = Len(down)
<1> DEFINE p == SubSeq(down, 1, n)
           m == Measure(p).size
           q == SubSeq(down, 1, m)
<1>1. /\ down \in Seq(Nat) /\ Measure(down).status = "Ok" /\ Measure(down).value = Len(down)
  BY PacketsAre
<1>2. ReadHeader(p) = Measure(p) /\ Measure(p).status = "Ok" BY DEF ReadHeader, NotRead
<1>3. n \in 0..Len(down) /\ n \in Nat BY <1>1
<1>4. p \in Seq(Nat) /\ Len(p) = n /\ \A k \in 1..n : p[k] = down[k] BY <1>1, <1>3, PrefixIs
<1> HIDE DEF p
<1>5. m \in 2..5 /\ m <= n BY <1>2, <1>4, MeasureRead
<1> HIDE DEF m
<1>6. m \in 0..Len(down) /\ m \in Nat /\ \A k \in 1..m : k \in 1..n BY <1>1, <1>3, <1>5
<1>7. q \in Seq(Nat) /\ Len(q) = m /\ \A k \in 1..m : q[k] = down[k] BY <1>1, <1>6, PrefixIs
<1>8. Measure(down) = Measure(p)
  <2>1. Measure(p).size <= Len(down) /\ \A k \in 1..Measure(p).size : down[k] = p[k]
    BY <1>4, <1>6 DEF m
  <2> QED BY <1>1, <1>2, <1>4, <2>1, MeasurePrefix
<1>9. Measure(q) = Measure(p)
  <2> HIDE DEF q
  <2>1. m <= Len(q) BY <1>6, <1>7
  <2>2. \A k \in 1..m : q[k] = p[k]
    <3> SUFFICES ASSUME NEW k \in 1..m PROVE q[k] = p[k] OBVIOUS
    <3>1. k \in 1..n BY <1>6
    <3>2. q[k] = down[k] BY <1>7
    <3>3. p[k] = down[k] BY <1>4, <3>1
    <3> QED BY <3>2, <3>3
  <2>3. Measure(p).size <= Len(q) /\ \A k \in 1..Measure(p).size : q[k] = p[k] BY <2>1, <2>2 DEF m
  <2> QED BY <1>2, <1>4, <1>7, <2>3, MeasurePrefix
<1>10. m = n
  <2> SUFFICES ASSUME m # n PROVE FALSE OBVIOUS
  <2>1. m \in 1..(n - 1) BY <1>3, <1>5
  <2>2. Measure(q).status = "NeedMoreBytes" BY <2>1
  <2> QED BY <1>2, <1>9, <2>2
<1> QED BY <1>1, <1>2, <1>8, <1>10 DEF m, p

---------------------------------------------------------------------------
(* Every step keeps the stream, the buffer and the transport together.     *)

\* The three statuses.
LEMMA StatusIs ==
  ASSUME WireInv PROVE status \in {"NotConnected", "Connected", "DisconnectPending"}
BY DEF WireInv, PlaceInv

\* Steps that move nothing and stay in their phase.
LEMMA CalmWire ==
  ASSUME WireInv, UNCHANGED network, phase' = phase, body' = body, answer' = answer,
         sending'.what = sending.what, (status' = "NotConnected") = (status = "NotConnected"),
         status' \in {"NotConnected", "Connected", "DisconnectPending"}
  PROVE  WireInv'
<1>1. BytesInv' /\ StreamInv' /\ Aligned' = Aligned /\ Measure(buffer)' = Measure(buffer)
  BY CalmNetwork DEF WireInv
<1>2. buffer' = buffer /\ down' = down /\ stream' = stream /\ ends' = ends /\ taken' = taken
  BY DEF network
<1>3. PlaceInv' BY <1>1, <1>2 DEF WireInv, PlaceInv, Waits
<1>4. ConnectInv' BY <1>2 DEF WireInv, ConnectInv
<1>5. LeftInv' BY <1>2 DEF WireInv, LeftInv
<1> QED BY <1>1, <1>3, <1>4, <1>5 DEF WireInv

\* Steps that move nothing and go to a phase that is not about the connect.
LEMMA MovesWire ==
  ASSUME WireInv, UNCHANGED network,
         phase' \in {"Idle", "Sending", "KeepAlive", "Front", "Consume"},
         phase' = "Sending" => sending'.what \notin {"Connect", "Disconnect"},
         PlaceInv', LeftInv'
  PROVE  WireInv'
<1>1. BytesInv' /\ StreamInv' BY CalmNetwork DEF WireInv
<1>2. ConnectInv' BY DEF ConnectInv
<1> QED BY <1>1, <1>2 DEF WireInv

\* A send that returns goes on where its packet was meant for.
LEMMA SendReturnsWire == ASSUME AgreedInv, WireInv, SendReturns PROVE WireInv'
<1>1. /\ phase = "Sending" /\ status' = status /\ UNCHANGED network
      /\ phase' = IF sending.outcome = "Sent" THEN AfterSent(sending.what) ELSE "Idle"
      /\ answer' = IF sending.outcome # "Sent" /\ sending.what \in {"LoopPing", "Ack"}
                   THEN "SendFailed" ELSE answer
  BY DEF SendReturns
<1>2. BytesInv' /\ StreamInv' /\ Aligned' = Aligned /\ Measure(buffer)' = Measure(buffer)
  BY <1>1, CalmNetwork DEF WireInv
<1>3. buffer' = buffer /\ down' = down /\ stream' = stream /\ ends' = ends /\ taken' = taken
  BY <1>1 DEF network
<1>4. /\ sending.what = "Connect" =>
           /\ status = "NotConnected"
           /\ stream = <<>> /\ down = <<>> /\ ends = {} /\ taken = 0
      /\ sending.what = "Disconnect" => status = "NotConnected"
      /\ sending.what \in {"LoopPing", "Ack"} => status # "NotConnected"
  BY <1>1 DEF AgreedInv, WireInv, PlaceInv, ConnectInv
<1>5. phase' \in {"ConnAck", "Front", "Consume", "Idle"} BY <1>1 DEF AfterSent
<1>6. PlaceInv'
  BY <1>1, <1>2, <1>3, <1>4 DEF WireInv, PlaceInv, Waits, AfterSent
<1>7. ConnectInv' BY <1>1, <1>3, <1>4, <1>5 DEF ConnectInv, AfterSent
<1>8. LeftInv' BY <1>1, <1>3, <1>4 DEF WireInv, LeftInv, AfterSent
<1> QED BY <1>2, <1>6, <1>7, <1>8 DEF WireInv

\* A connect starts with a new stream, and with the buffer the last connection
\* left empty.
LEMMA ConnectWire == ASSUME AgreedInv, WireInv, Connect PROVE WireInv'
<1>1. /\ phase = "Idle" /\ status = "NotConnected" /\ status' = status
      /\ down' = <<>> /\ stream' = <<>> /\ ends' = {} /\ taken' = 0
      /\ buffer' = buffer /\ phase' = "Sending" /\ sending'.what = "Connect"
  BY DEF Connect, Begin
<1>2. buffer = <<>> BY <1>1 DEF WireInv, PlaceInv
<1>3. BytesInv' BY <1>1 DEF WireInv, BytesInv
<1>4. StreamInv' BY <1>1 DEF StreamInv
<1>5. PlaceInv' BY <1>1, <1>2 DEF PlaceInv, Waits
<1>6. ConnectInv' BY <1>1 DEF ConnectInv
<1>7. LeftInv' BY <1>1 DEF LeftInv
<1> QED BY <1>3, <1>4, <1>5, <1>6, <1>7 DEF WireInv

\* So does the one after a connect that failed.
LEMMA ConnectFailsWire ==
  ASSUME AgreedInv, WireInv, phase \in {"ConnAck", "Body"}, ConnectFails PROVE WireInv'
<1>1. /\ status = "NotConnected" /\ status' = status
      /\ down' = <<>> /\ stream' = <<>> /\ ends' = {} /\ taken' = 0
      /\ buffer' = buffer /\ phase' = "Idle"
  BY DEF ConnectFails, AgreedInv
<1>2. buffer = <<>> BY <1>1 DEF WireInv, PlaceInv
<1>3. BytesInv' BY <1>1 DEF WireInv, BytesInv
<1>4. StreamInv' BY <1>1 DEF StreamInv
<1>5. PlaceInv' BY <1>1, <1>2 DEF PlaceInv, Waits
<1>6. ConnectInv' BY <1>1 DEF ConnectInv
<1>7. LeftInv' BY <1>1 DEF LeftInv
<1> QED BY <1>3, <1>4, <1>5, <1>6, <1>7 DEF WireInv

\* Reading the header of the CONNACK leaves exactly its body to come.
LEMMA HeaderWire == ASSUME AgreedInv, WireInv, ReadConnAckHeader PROVE WireInv'
<1>1. phase = "ConnAck" /\ status = "NotConnected"
  BY DEF ReadConnAckHeader, AgreedInv
<1>2. /\ buffer = <<>> /\ taken = 0 /\ down = stream
      /\ \/ stream = <<>> /\ ends = {}
         \/ ends = {Len(stream)} /\ \E b \in ConnAckBodies : stream = Framed(ConnAckByte, b)
  BY <1>1 DEF WireInv, PlaceInv, ConnectInv
<1>3. BytesInv /\ StreamInv /\ down \in Seq(Nat) /\ Len(down) \in Nat BY DEF WireInv, BytesInv
<1>4. CASE ConnectFails BY <1>1, <1>4, ConnectFailsWire
<1>5. CASE UNCHANGED <<status, phase, buffer, answer, sending, timer, body, keepAlive, connections>> /\ Take(0)
  <2>1. /\ down' = SubSeq(down, 0 + 1, Len(down)) /\ taken' = taken + 0
        /\ stream' = stream /\ ends' = ends
        /\ buffer' = buffer /\ status' = status /\ phase' = phase /\ answer' = answer
        /\ sending' = sending /\ body' = body
    BY <1>5 DEF Take
  <2>2. 0 + 1 = 1 /\ taken + 0 = taken BY <1>2
  <2>3. SubSeq(down, 1, Len(down)) = down BY <1>3, SubSeqFull
  <2>4. UNCHANGED network BY <2>1, <2>2, <2>3 DEF network
  <2> QED BY <2>1, <2>4, StatusIs, CalmWire
<1>6. ASSUME NEW n \in 1..Len(down), NEW read, read = ReadHeader(SubSeq(down, 1, n)),
             \A i \in 1..(n - 1) : Measure(SubSeq(down, 1, i)).status = "NeedMoreBytes",
             read.status = "Ok", phase' = "Body", Take(n),
             body' = [wanted |-> read.value - read.size, got |-> <<>>],
             UNCHANGED <<status, buffer>>
      PROVE  WireInv'
  <2>1. stream # <<>> BY <1>2, <1>3
  <2>2. PICK b \in ConnAckBodies : down = Framed(ConnAckByte, b) BY <1>2, <2>1
  <2>3. ends = {Len(stream)} BY <1>2, <2>1
  <2>4. read.size = n /\ read.value = Len(down) BY <1>6, <2>2, HeaderIs
  <2>5. taken + Len(down) = Len(stream) /\ n \in 0..Len(down) BY <1>2, <1>3
  <2>6. BytesInv' /\ taken' + Len(down') = Len(stream') BY <1>3, <1>6, <2>5, TakeStream
  <2>7. stream' = stream /\ ends' = ends /\ taken' = n BY <1>2, <1>6 DEF Take
  <2>8. body'.wanted = Len(down) - n /\ body'.got = <<>> BY <1>6, <2>4
  <2>9. ConnectInv'
    <3> DEFINE l == Len(down)
    <3>1. l \in Nat /\ n \in 1..l /\ Len(stream) = l BY <1>2, <1>3
    <3> HIDE DEF l
    <3>2. l - n \in Nat /\ n + (l - n) - 0 = l /\ 0 <= l - n BY <3>1
    <3>3. body'.wanted = l - n /\ body'.got = <<>> /\ Len(body'.got) = 0 /\ body'.got \in Seq(Nat)
      BY <2>8 DEF l
    <3>4. /\ body'.wanted \in Nat /\ Len(body'.got) <= body'.wanted
          /\ taken' + body'.wanted - Len(body'.got) = Len(stream')
      BY <2>7, <3>1, <3>2, <3>3
    <3>5. body' \in [wanted : Nat, got : Seq(Nat)] BY <1>6, <2>4, <3>1, <3>2 DEF l
    <3> QED BY <1>6, <2>1, <2>3, <2>6, <2>7, <3>3, <3>4, <3>5 DEF ConnectInv
  <2>10. StreamInv' BY <1>3, <2>7, SameStream
  <2>11. PlaceInv' /\ LeftInv' BY <1>1, <1>2, <1>6 DEF PlaceInv, LeftInv, Waits
  <2> QED BY <2>6, <2>9, <2>10, <2>11 DEF WireInv
<1> QED BY <1>4, <1>5, <1>6 DEF ReadConnAckHeader

\* And so does every piece of the body.
LEMMA BodyWire ==
  ASSUME AgreedInv, WireInv, NEW d \in 0..1, ReadConnAckBody(d) PROVE WireInv'
<1>1. phase = "Body" /\ status = "NotConnected" BY DEF ReadConnAckBody, AgreedInv
<1>2. /\ buffer = <<>> /\ body.wanted \in Nat /\ body.got \in Seq(Nat)
      /\ Len(body.got) <= body.wanted /\ stream # <<>> /\ ends = {Len(stream)}
      /\ taken + Len(down) = Len(stream) /\ taken + body.wanted - Len(body.got) = Len(stream)
      /\ body \in [wanted : Nat, got : Seq(Nat)]
  BY <1>1 DEF WireInv, PlaceInv, ConnectInv
<1>3. BytesInv /\ StreamInv /\ down \in Seq(Nat) /\ taken \in Nat
      /\ Len(down) \in Nat /\ Len(stream) \in Nat
  BY DEF WireInv, BytesInv
<1>4. CASE ConnectFails BY <1>1, <1>4, ConnectFailsWire
<1>5. CASE UNCHANGED <<status, phase, network, body, answer, sending, tries, keepAlive, connections>>
  BY <1>5, StatusIs, CalmWire
<1>6. ASSUME NEW n \in 1..Len(down), Len(body.got) + n <= body.wanted,
             body' = [body EXCEPT !.got = body.got \o SubSeq(down, 1, n)], Take(n),
             UNCHANGED <<status, phase, buffer>>
      PROVE  WireInv'
  <2> DEFINE part == SubSeq(down, 1, n)
             g == Len(body.got)
             w == body.wanted
  <2>1. n \in 0..Len(down) BY <1>3
  <2>2. BytesInv' /\ taken' + Len(down') = Len(stream') BY <1>2, <1>3, <1>6, <2>1, TakeStream
  <2>3. stream' = stream /\ ends' = ends /\ taken' = taken + n BY <1>6 DEF Take
  <2>4. part \in Seq(Nat) /\ Len(part) = n BY <1>3, <2>1, PrefixIs
  <2>5. /\ body.got \o part \in Seq(Nat) /\ Len(body.got \o part) = g + n
    <3> HIDE DEF part
    <3> QED BY <1>2, <2>4, ConcatProperties
  <2>6. body'.wanted = w /\ body'.got = body.got \o part
    <3>1. body' = [body EXCEPT !.got = body.got \o part] BY <1>6
    <3> HIDE DEF part
    <3>2. body' = [wanted |-> w, got |-> body.got \o part] BY <1>2, <3>1
    <3> QED BY <3>2
  <2>7. ConnectInv'
    <3>1. g \in Nat /\ w \in Nat /\ n \in Nat /\ g + n <= w /\ taken + w - g = Len(stream)
      BY <1>2, <1>3, <1>6
    <3> HIDE DEF g, w, part
    <3>2. taken + n + w - (g + n) = Len(stream) BY <1>3, <3>1
    <3>3. body' \in [wanted : Nat, got : Seq(Nat)]
      <4>1. body' = [body EXCEPT !.got = body.got \o part] BY <1>6 DEF part
      <4> QED BY <1>2, <2>5, <4>1
    <3> QED BY <1>1, <1>2, <1>6, <2>2, <2>3, <2>5, <2>6, <3>1, <3>2, <3>3 DEF ConnectInv
  <2>8. StreamInv' BY <1>3, <2>3, SameStream
  <2>9. PlaceInv' /\ LeftInv' BY <1>1, <1>2, <1>6 DEF PlaceInv, LeftInv, Waits
  <2> QED BY <2>2, <2>7, <2>8, <2>9 DEF WireInv
<1> QED BY <1>4, <1>5, <1>6 DEF ReadConnAckBody

\* With the CONNACK read the client stands behind it.
LEMMA ConnAckReadWire == ASSUME AgreedInv, WireInv, ConnAckRead PROVE WireInv'
<1>1. /\ phase = "Body" /\ status = "NotConnected" /\ phase' = "Idle"
      /\ Len(body.got) = body.wanted
      /\ down' = down /\ stream' = stream /\ ends' = ends /\ taken' = taken
      /\ buffer' = [i \in DOMAIN buffer |-> IF i <= body.wanted THEN body.got[i] ELSE buffer[i]]
      /\ status' \in {"NotConnected", "Connected", "DisconnectPending"}
  BY DEF ConnAckRead, AgreedInv
<1>2. /\ buffer = <<>> /\ stream # <<>> /\ ends = {Len(stream)}
      /\ taken + Len(down) = Len(stream) /\ taken + body.wanted - Len(body.got) = Len(stream)
      /\ body \in [wanted : Nat, got : Seq(Nat)]
  BY <1>1 DEF WireInv, PlaceInv, ConnectInv
<1>3. BytesInv /\ StreamInv /\ taken \in Nat /\ Len(down) \in Nat /\ Len(stream) \in Nat
  BY DEF WireInv, BytesInv
<1>4. taken = Len(stream) /\ Len(down) = 0
  <2> DEFINE w == body.wanted
             d == Len(down)
             l == Len(stream)
  <2>1. w \in Nat /\ d \in Nat /\ l \in Nat /\ taken + d = l /\ taken + w - w = l BY <1>1, <1>2, <1>3
  <2> HIDE DEF w, d, l
  <2>2. taken = l /\ d = 0 BY <1>3, <2>1
  <2> QED BY <2>2 DEF d, l
<1>5. buffer' = <<>>
  <2>1. \A f : (f = [i \in {} |-> f[i]]) => f = <<>> OBVIOUS
  <2>2. DOMAIN buffer = {} BY <1>2
  <2>3. buffer' = [i \in {} |-> IF i <= body.wanted THEN body.got[i] ELSE buffer[i]] BY <1>1, <2>2
  <2>4. buffer' = [i \in {} |-> buffer'[i]] BY <2>3
  <2> QED BY <2>1, <2>4
<1>6. BytesInv' BY <1>1, <1>2, <1>3, <1>5 DEF BytesInv
<1>7. StreamInv' BY <1>1, <1>3, SameStream
<1>8. Aligned'
  <2>1. Len(buffer') = 0 /\ Len(down') = 0 /\ taken' \in ends' /\ Len(stream') = taken'
    BY <1>1, <1>2, <1>4, <1>5
  <2>2. taken' + 0 + 0 = taken' BY <1>1, <1>3
  <2> QED BY <2>1, <2>2 DEF Aligned
<1>9. PlaceInv' BY <1>1, <1>5, <1>8 DEF PlaceInv, Waits
<1>10. ConnectInv' BY <1>1 DEF ConnectInv
<1>11. LeftInv'
  <2>1. \A e \in ends' : ~(e > taken') BY <1>1, <1>2, <1>3, <1>4
  <2> QED BY <2>1 DEF LeftInv
<1> QED BY <1>6, <1>7, <1>9, <1>10, <1>11 DEF WireInv

\* A disconnect empties the buffer.
LEMMA DisconnectWire == ASSUME WireInv, Disconnect PROVE WireInv'
<1>1. /\ status' = "NotConnected" /\ buffer' = <<>> /\ phase' = "Sending"
      /\ sending'.what = "Disconnect"
      /\ down' = down /\ stream' = stream /\ ends' = ends /\ taken' = taken
  BY DEF Disconnect, Begin, Emptied
<1>2. BytesInv'
  <2>1. Len(<<>>) <= BufferSize /\ <<>> \in Seq(Nat) BY WireAssumption
  <2> QED BY <1>1, <2>1 DEF WireInv, BytesInv
<1>3. StreamInv' BY <1>1, SameStream DEF WireInv
<1>4. PlaceInv' /\ ConnectInv' /\ LeftInv' BY <1>1 DEF PlaceInv, Waits, ConnectInv, LeftInv
<1> QED BY <1>2, <1>3, <1>4 DEF WireInv

\* A read keeps the order of the bytes.
LEMMA ReadWire == ASSUME WireInv, NEW n \in 0..Len(down), Read(n) PROVE WireInv'
<1>1. /\ phase = "Idle" /\ status # "NotConnected" /\ status' = status
      /\ Len(buffer) + n <= BufferSize
      /\ buffer' = buffer \o SubSeq(down, 1, n) /\ down' = SubSeq(down, n + 1, Len(down))
      /\ stream' = stream /\ ends' = ends /\ taken' = taken
      /\ phase' \in {"KeepAlive", "Front"}
      /\ status \in {"NotConnected", "Connected", "DisconnectPending"}
  BY StatusIs DEF Read, Goes
<1>2. BytesInv /\ StreamInv /\ Aligned BY <1>1 DEF WireInv, PlaceInv
<1>3. BytesInv' /\ Aligned' BY <1>1, <1>2, ReadStream
<1>4. StreamInv' BY <1>1, <1>2, SameStream
<1>5. PlaceInv' /\ ConnectInv' /\ LeftInv' BY <1>1, <1>3 DEF PlaceInv, Waits, ConnectInv, LeftInv
<1> QED BY <1>3, <1>4, <1>5 DEF WireInv

\* A failed read moves nothing and is reported.
LEMMA ReadBreaksWire == ASSUME WireInv, ReadBreaks PROVE WireInv'
<1>1. /\ phase = "Idle" /\ status # "NotConnected" /\ status' # "NotConnected"
      /\ phase' = "Idle" /\ answer' = "RecvFailed" /\ UNCHANGED network
      /\ status' \in {"NotConnected", "Connected", "DisconnectPending"}
  BY StatusIs DEF ReadBreaks, Returns, Broken
<1>2. Aligned' BY <1>1, CalmNetwork DEF WireInv, PlaceInv
<1>3. PlaceInv' /\ LeftInv' BY <1>1, <1>2 DEF PlaceInv, Waits, LeftInv
<1> QED BY <1>1, <1>3, MovesWire

\* The look at the keep alive moves nothing either.
LEMMA LooksWire == ASSUME WireInv, LooksAtKeepAlive PROVE WireInv'
<1>1. /\ phase = "KeepAlive" /\ UNCHANGED network /\ status' = status
      /\ \/ phase' = "Front"
         \/ phase' = "Sending" /\ sending'.what = "LoopPing"
         \/ phase' = "Idle" /\ answer' = "KeepAliveTimeout"
  BY DEF LooksAtKeepAlive, Goes, Returns, Begin
<1>2. /\ status # "NotConnected" /\ Aligned
      /\ status \in {"NotConnected", "Connected", "DisconnectPending"}
  BY <1>1 DEF WireInv, PlaceInv
<1>3. Aligned' BY <1>1, <1>2, CalmNetwork
<1>4. PlaceInv' /\ LeftInv' BY <1>1, <1>2, <1>3 DEF PlaceInv, Waits, LeftInv
<1> QED BY <1>1, <1>4, MovesWire

\* The packet at the front is handled only when it is whole, and is the last if
\* it is a DISCONNECT; what is not whole is not there.
LEMMA HandleWire == ASSUME WireInv, ~RefusesDisconnect, HandleFront PROVE WireInv'
<1>1. phase = "Front" /\ UNCHANGED network BY DEF HandleFront
<1>2. status # "NotConnected" /\ Aligned /\ BytesInv /\ StreamInv
  BY <1>1 DEF WireInv, PlaceInv
<1>3. Aligned' /\ Measure(buffer)' = Measure(buffer) /\ buffer' = buffer
      /\ ends' = ends /\ taken' = taken
  BY <1>1, <1>2, CalmNetwork DEF network
<1> DEFINE m == Measure(buffer)
<1>4. ASSUME phase' = "Idle", status' = status, ~(m.status = "Ok" /\ m.value <= Len(buffer))
      PROVE  WireInv'
  <2>1. \A e \in ends : e > taken => e > taken + Len(buffer)
    <3> SUFFICES ASSUME NEW e \in ends, e > taken, ~(e > taken + Len(buffer)) PROVE FALSE
      OBVIOUS
    <3>1. e <= taken + Len(buffer) BY <1>2 DEF BytesInv
    <3> QED BY <1>2, <1>4, <3>1, WholeIsSeen
  <2>2. status' \in {"NotConnected", "Connected", "DisconnectPending"}
    BY <1>4 DEF WireInv, PlaceInv
  <2>3. PlaceInv' /\ LeftInv' BY <1>2, <1>3, <1>4, <2>1, <2>2 DEF PlaceInv, Waits, LeftInv
  <2> QED BY <1>1, <1>4, <2>3, MovesWire
<1>5. CASE m.status # "Ok" /\ phase' = "Idle" /\ status' = status BY <1>4, <1>5
<1>6. CASE m.status = "Ok" /\ ~Whole(m.value) /\ phase' = "Idle" /\ status' = status
  <2>1. m.value \in Nat BY <1>2, <1>6, MeasureRead DEF BytesInv
  <2>2. Len(buffer) \in Nat /\ Len(buffer) <= BufferSize BY <1>2 DEF BytesInv
  <2> HIDE DEF m
  <2>3. ~(m.value <= Len(buffer)) BY <1>6, <2>1, <2>2, WireAssumption DEF Whole
  <2> QED BY <1>4, <1>6, <2>3 DEF m
<1>7. ASSUME m.status = "Ok", Whole(m.value) PROVE WireInv'
  <2>1. m.value <= Len(buffer) BY <1>7 DEF Whole
  <2>2. status \in {"Connected", "DisconnectPending"} BY <1>2 DEF WireInv, PlaceInv
  <2>3. CASE phase' = "Idle" /\ answer' \in {"EventCallbackFailed", status} /\ status' = status
    <3>1. PlaceInv' /\ LeftInv' BY <1>2, <1>3, <2>2, <2>3 DEF PlaceInv, Waits, LeftInv
    <3> QED BY <1>1, <2>3, <3>1, MovesWire
  <2>4. CASE phase' = "Consume" /\ status' = status
    <3>1. PlaceInv' /\ LeftInv' BY <1>2, <1>3, <1>7, <2>1, <2>2, <2>4 DEF PlaceInv, Waits, LeftInv
    <3> QED BY <1>1, <2>4, <3>1, MovesWire
  <2>5. CASE phase' = "Sending" /\ sending'.what = "Ack" /\ status' = status
    <3>1. PlaceInv' /\ LeftInv' BY <1>2, <1>3, <1>7, <2>1, <2>2, <2>5 DEF PlaceInv, Waits, LeftInv
    <3> QED BY <1>1, <2>5, <3>1, MovesWire
  <2>6. CASE buffer[1] = DisconnectByte /\ status' = "NotConnected" /\ phase' = "Consume"
    <3>1. /\ IsNext(taken, taken + m.value) /\ m.value \in Nat
          /\ stream[taken + 1] = DisconnectByte /\ taken < Len(stream)
      BY <1>2, <1>7, <2>6, FrontIs
    <3>2. taken \in ends /\ taken + m.value \in ends /\ taken + m.value > taken
      BY <1>2, <3>1 DEF Aligned, IsNext, IsPacket, BytesInv
    <3>3. taken + m.value = Len(stream) BY <1>2, <3>1, <3>2 DEF StreamInv
    <3>4. /\ taken + Len(buffer) + Len(down) = Len(stream)
          /\ taken \in Nat /\ Len(buffer) \in Nat /\ Len(down) \in Nat
      BY <1>2 DEF Aligned, BytesInv
    <3>5. m.value = Len(buffer)
      <4> DEFINE v == m.value
                 b == Len(buffer)
                 d == Len(down)
      <4>1. /\ v \in Nat /\ b \in Nat /\ d \in Nat /\ taken \in Nat
            /\ v <= b /\ taken + v = taken + b + d
        BY <2>1, <3>1, <3>3, <3>4
      <4> HIDE DEF v, b, d
      <4>2. v = b BY <4>1
      <4> QED BY <4>2 DEF v, b
    <3>6. PlaceInv' /\ LeftInv' BY <1>2, <1>3, <1>7, <2>1, <2>6, <3>5 DEF PlaceInv, Waits, LeftInv
    <3> QED BY <1>1, <2>6, <3>6, MovesWire
  <2> QED BY <1>7, <2>3, <2>4, <2>5, <2>6 DEF HandleFront, Returns, Goes, Begin, NotRead
<1> QED BY <1>5, <1>6, <1>7 DEF HandleFront, Returns

\* A packet consumed leaves the next one at the front; behind a DISCONNECT there
\* is none.
LEMMA ConsumeWire == ASSUME WireInv, Consume PROVE WireInv'
<1>1. phase = "Consume" /\ UNCHANGED <<down, stream, ends>> BY DEF Consume
<1>2. /\ BytesInv /\ StreamInv /\ Aligned /\ Measure(buffer).status = "Ok"
      /\ Measure(buffer).value <= Len(buffer)
      /\ status = "NotConnected" => Measure(buffer).value = Len(buffer)
  BY <1>1 DEF WireInv, PlaceInv
<1>3. /\ BytesInv' /\ StreamInv' /\ Aligned'
      /\ Len(buffer') = Len(buffer) - Measure(buffer).value
  BY <1>2, ConsumeStream
<1>4. /\ status' = status /\ status \in {"NotConnected", "Connected", "DisconnectPending"}
      /\ IF buffer' = <<>> THEN phase' = "Idle" ELSE phase' = "KeepAlive"
  BY DEF Consume, LoopEnds, Returns, Goes, WireInv, PlaceInv
<1>5. status = "NotConnected" => buffer' = <<>>
  <2> SUFFICES ASSUME status = "NotConnected" PROVE buffer' = <<>> OBVIOUS
  <2>1. Len(buffer) \in Nat /\ Len(buffer') = Len(buffer) - Len(buffer)
    BY <1>2, <1>3 DEF BytesInv
  <2>2. Len(buffer') = 0 BY <2>1
  <2>3. buffer' \in Seq(Nat) BY <1>3 DEF BytesInv
  <2> QED BY <2>2, <2>3
<1>6. PlaceInv' BY <1>3, <1>4, <1>5 DEF PlaceInv, Waits
<1>7. ConnectInv' BY <1>4 DEF ConnectInv
<1>8. LeftInv'
  <2>1. CASE phase' = "Idle"
    <3>1. buffer' = <<>> BY <1>4, <2>1
    <3>2. Len(buffer') = 0 /\ taken' \in Nat BY <1>3, <3>1 DEF BytesInv
    <3>3. \A e \in ends' : e > taken' => e > taken' + Len(buffer') BY <3>2
    <3> QED BY <3>3 DEF LeftInv
  <2>2. CASE phase' = "KeepAlive" BY <2>2 DEF LeftInv
  <2> QED BY <1>4, <2>1, <2>2
<1> QED BY <1>3, <1>6, <1>7, <1>8 DEF WireInv

\* The CONNACK comes on an empty stream.
LEMMA AcceptsWire == ASSUME AgreedInv, WireInv, BrokerAccepts PROVE WireInv'
<1>1. phase = "ConnAck" /\ stream = <<>> /\ status = "NotConnected"
  BY DEF BrokerAccepts, AgreedInv
<1>2. PICK b \in ConnAckBodies : Puts(Framed(ConnAckByte, b)) BY DEF BrokerAccepts
<1> DEFINE p == Framed(ConnAckByte, b)
<1>3. p \in Seq(Nat) /\ Measure(p).status = "Ok" /\ Measure(p).value = Len(p) /\ Len(p) >= 2
  BY PacketsAre
<1>4. BytesInv /\ StreamInv /\ buffer = <<>> BY <1>1 DEF WireInv, PlaceInv
<1>5. taken = 0 /\ down = <<>> /\ ends = {}
  <2>1. CASE ends = {Len(stream)}
    <3>1. PICK c \in ConnAckBodies : stream = Framed(ConnAckByte, c)
      BY <1>1, <1>4, <2>1 DEF WireInv, ConnectInv, BytesInv
    <3>2. Len(stream) >= 2 BY <3>1, PacketsAre
    <3> QED BY <1>1, <3>2
  <2> QED BY <1>1, <2>1 DEF WireInv, ConnectInv
<1>6. /\ down' = down \o p /\ stream' = stream \o p
      /\ phase' = phase /\ status' = status /\ buffer' = buffer /\ taken' = taken
  BY <1>2 DEF Puts
<1> HIDE DEF p
<1>7. /\ BytesInv' /\ StreamInv' /\ ends' = ends \cup {Len(stream')}
  <2>1. Puts(p) BY <1>2 DEF p
  <2>2. \A e \in ends : e < Len(stream) => stream[e + 1] # DisconnectByte BY <1>5
  <2> QED BY <1>3, <1>4, <2>1, <2>2, PutStream
<1>8. down' = p /\ stream' = p
  <2>1. <<>> \o p = p BY <1>3, ConcatEmptySeq
  <2> QED BY <1>1, <1>5, <1>6, <2>1
<1>9. PlaceInv' BY <1>1, <1>4, <1>6 DEF PlaceInv, Waits
<1>10. ConnectInv' BY <1>1, <1>5, <1>6, <1>7, <1>8 DEF ConnectInv, p
<1>11. LeftInv' BY <1>1, <1>6 DEF LeftInv
<1> QED BY <1>7, <1>9, <1>10, <1>11 DEF WireInv

\* What comes later comes behind what the buffer holds.
LEMMA SendsWire == ASSUME AgreedInv, WireInv, BrokerSends PROVE WireInv'
<1>1. /\ status = "Connected"
      /\ \A e \in ends : e < Len(stream) => stream[e + 1] # DisconnectByte
  BY DEF BrokerSends
<1>2. PICK p \in Packets : Puts(p) BY DEF BrokerSends
<1>3. p \in Seq(Nat) /\ Measure(p).status = "Ok" /\ Measure(p).value = Len(p) /\ Len(p) >= 2
  BY PacketsAre
<1>4. BytesInv /\ StreamInv /\ Aligned BY <1>1 DEF WireInv, PlaceInv
<1>5. /\ phase' = phase /\ status' = status /\ buffer' = buffer /\ taken' = taken
      /\ sending' = sending /\ answer' = answer
  BY <1>2 DEF Puts
<1>6. /\ BytesInv' /\ StreamInv' /\ Aligned' /\ ends' = ends \cup {Len(stream')}
      /\ Len(stream') = Len(stream) + Len(p)
  BY <1>1, <1>2, <1>3, <1>4, PutStream
<1>7. PlaceInv' BY <1>1, <1>5, <1>6 DEF WireInv, PlaceInv, Waits
<1>8. ConnectInv' BY <1>1, <1>5 DEF AgreedInv, WireInv, ConnectInv
<1>9. LeftInv'
  <2>1. Len(stream') > taken + Len(buffer)
    <3> DEFINE a == Len(buffer)
               c == Len(down)
               l == Len(stream)
               k == Len(p)
    <3>1. /\ a \in Nat /\ c \in Nat /\ l \in Nat /\ k \in Nat /\ k >= 2 /\ taken \in Nat
          /\ taken + a + c = l
      BY <1>3, <1>4 DEF BytesInv, Aligned
    <3> HIDE DEF a, c, l, k
    <3>2. l + k > taken + a BY <3>1
    <3> QED BY <1>6, <3>2 DEF a, l, k
  <2> QED BY <1>5, <1>6, <2>1 DEF WireInv, LeftInv
<1> QED BY <1>6, <1>7, <1>8, <1>9 DEF WireInv

\* A packet of the application's goes out beside the stream.
LEMMA SendWire == ASSUME WireInv, Send PROVE WireInv'
<1>1. /\ phase = "Idle" /\ status = "Connected" /\ UNCHANGED network /\ status' = status
      /\ phase' = "Sending" /\ answer' = answer
      /\ sending'.what \notin {"Connect", "Disconnect", "LoopPing", "Ack"}
  BY WireAssumption DEF Send, Begin
<1>2. Aligned' BY <1>1, CalmNetwork DEF WireInv, PlaceInv
<1>3. PlaceInv' BY <1>1, <1>2 DEF PlaceInv, Waits
<1>4. LeftInv' BY <1>1 DEF WireInv, LeftInv, network
<1> QED BY <1>1, <1>3, <1>4, MovesWire

\* Every step.
LEMMA NextWire ==
  ASSUME ~RefusesDisconnect, AgreedInv, WireInv, [Next]_vars PROVE WireInv'
<1> USE StatusIs
<1>1. ASSUME NEW d \in 0..1, SendTurn(d) PROVE WireInv'
  <2>1. sending'.what = sending.what BY <1>1 DEF SendTurn, AgreedInv, Shapes
  <2> QED BY <1>1, <2>1, CalmWire DEF SendTurn
<1>2. ASSUME NEW d \in 0..1, ReadConnAckBody(d) PROVE WireInv' BY <1>2, BodyWire
<1>3. CASE SendReturns BY <1>3, SendReturnsWire
<1>4. CASE ReadConnAckHeader BY <1>4, HeaderWire
<1>5. CASE ConnAckRead BY <1>5, ConnAckReadWire
<1>6. ASSUME NEW n \in 0..Len(down), Read(n) PROVE WireInv' BY <1>6, ReadWire
<1>7. CASE LooksAtKeepAlive BY <1>7, LooksWire
<1>8. CASE HandleFront BY <1>8, HandleWire
<1>9. CASE Consume BY <1>9, ConsumeWire
<1>10. CASE Connect BY <1>10, ConnectWire
<1>11. CASE Disconnect BY <1>11, DisconnectWire
<1>12. CASE Send BY <1>12, SendWire
<1>13. CASE SendBreaks
  <2>1. sending'.what = sending.what BY <1>13 DEF SendBreaks, AgreedInv, Shapes
  <2> QED BY <1>13, <2>1, CalmWire DEF SendBreaks, Broken
<1>14. CASE ReadConnAckBreaks BY <1>14, ConnectFailsWire DEF ReadConnAckBreaks
<1>15. CASE ReadBreaks BY <1>15, ReadBreaksWire
<1>16. CASE BrokerAccepts BY <1>16, AcceptsWire
<1>17. CASE BrokerSends BY <1>17, SendsWire
<1>18. CASE UNCHANGED vars BY <1>18, CalmWire DEF vars, network
<1> QED BY <1>1, <1>2, <1>3, <1>4, <1>5, <1>6, <1>7, <1>8, <1>9, <1>10, <1>11, <1>12,
           <1>13, <1>14, <1>15, <1>16, <1>17, <1>18 DEF Next, Program

\* However the stream is cut into reads, the client has every byte once and in
\* order, for every broker, buffer and transport; provided the application takes
\* the event of a DISCONNECT (loop_.rs 103-207, 248-251, client.rs 936-938).
THEOREM NothingIsLost == ASSUME ~RefusesDisconnect PROVE Spec => []NothingLost
<1>1. AgreedInv /\ WireInv /\ [Next]_vars => AgreedInv' /\ WireInv' BY NextAgreed, NextWire
<1>2. WireInv => NothingLost
  <2> SUFFICES ASSUME WireInv, status # "NotConnected" PROVE
        buffer \o down = SubSeq(stream, taken + 1, Len(stream)) /\ taken \in ends
    BY DEF NothingLost
  <2> DEFINE held == buffer \o down
             rest == SubSeq(stream, taken + 1, Len(stream))
             b == Len(buffer)
             d == Len(down)
             l == Len(stream)
  <2>1. /\ stream \in Seq(Nat) /\ buffer \in Seq(Nat) /\ down \in Seq(Nat)
        /\ taken \in Nat /\ taken <= l /\ b \in Nat /\ d \in Nat /\ l \in Nat
        /\ taken \in ends /\ taken + b + d = l
        /\ \A k \in 1..b : buffer[k] = stream[taken + k]
        /\ \A k \in 1..d : down[k] = stream[taken + b + k]
    BY DEF WireInv, PlaceInv, BytesInv, Aligned
  <2>2. /\ held \in Seq(Nat) /\ Len(held) = b + d
        /\ \A k \in 1..(b + d) : held[k] = IF k <= b THEN buffer[k] ELSE down[k - b]
    <3>1. buffer \in Seq(Nat) /\ down \in Seq(Nat) BY <2>1
    <3> QED BY <3>1, ConcatProperties
  <2>3. /\ rest \in Seq(Nat) /\ Len(rest) = l - taken
        /\ \A k \in 1..(l - taken) : rest[k] = stream[taken + k]
    <3>1. l <= Len(stream) BY <2>1
    <3> QED BY <2>1, <3>1, SubSeqIs
  <2> HIDE DEF held, rest, b, d, l
  <2>4. l - taken = b + d BY <2>1
  <2>5. ASSUME NEW k \in 1..(b + d) PROVE held[k] = rest[k]
    <3>1. rest[k] = stream[taken + k] BY <2>3, <2>4
    <3>2. CASE k <= b
      <4>1. k \in 1..b BY <2>1, <2>5, <3>2
      <4> QED BY <2>1, <2>2, <2>5, <3>1, <3>2, <4>1
    <3>3. CASE ~(k <= b)
      <4> DEFINE j == k - b
      <4>1. j \in 1..d /\ taken + b + j = taken + k BY <2>1, <2>5, <3>3
      <4>2. held[k] = down[j] BY <2>2, <2>5, <3>3
      <4> HIDE DEF j
      <4>3. down[j] = stream[taken + b + j] BY <2>1, <4>1
      <4> QED BY <3>1, <4>1, <4>2, <4>3
    <3> QED BY <3>2, <3>3
  <2>6. held = rest BY <2>2, <2>3, <2>4, <2>5, SeqEqual
  <2> QED BY <2>1, <2>6 DEF held, rest
<1> QED BY <1>1, <1>2, InitAgreed, InitWire, PTL DEF Spec

\* A receive call that reports no error leaves no whole packet in the buffer
\* (loop_.rs 118-207).
THEOREM NothingIsLeftWaiting == ASSUME ~RefusesDisconnect PROVE Spec => []NothingLeftWaiting
<1>1. AgreedInv /\ WireInv /\ [Next]_vars => AgreedInv' /\ WireInv' BY NextAgreed, NextWire
<1>2. WireInv => NothingLeftWaiting BY DEF WireInv, LeftInv, NothingLeftWaiting
<1> QED BY <1>1, <1>2, InitAgreed, InitWire, PTL DEF Spec

---------------------------------------------------------------------------
(* The stream as a queue of packets.                                       *)

\* The packets not yet handed over, by where they end.
Waiting == {e \in ends : e > taken}
Connected == status # "NotConnected"
QueueStep == Queue!Next \/ (Waiting' = Waiting /\ Connected' = Connected)

\* A step that neither moves the client in the stream nor adds to it is no step
\* of the queue, or opens or closes it.
LEMMA SameQueue ==
  ASSUME ends' = ends, taken' = taken, status' \in {status, "NotConnected"} \/ Connected = Connected'
  PROVE  QueueStep
<1>1. Waiting' = Waiting BY DEF Waiting
<1>2. CASE status' = "NotConnected" BY <1>1, <1>2 DEF QueueStep, Queue!Next, Queue!Close, Waiting
<1>3. CASE status' = status BY <1>1, <1>3 DEF QueueStep, Connected
<1>4. CASE Connected = Connected' BY <1>1, <1>4 DEF QueueStep
<1> QED BY <1>2, <1>3, <1>4

\* A connection that goes takes with it what is under way.
LEMMA ClosedQueue ==
  ASSUME ~Connected', Waiting' \in {Waiting, {}}
  PROVE  QueueStep
BY DEF QueueStep, Queue!Next, Queue!Close, Waiting, Connected

\* A packet the broker sends is the last in the queue.
LEMMA PutQueue ==
  ASSUME NEW p, Puts(p), BytesInv', BytesInv, Len(stream') > Len(stream),
         ends' = ends \cup {Len(stream')}
  PROVE  QueueStep
<1> DEFINE n == Len(stream')
<1>1. taken' = taken /\ Connected' = Connected BY DEF Puts, Connected
<1>2. /\ taken \in Nat /\ n \in Nat /\ Len(stream) \in Nat /\ taken <= Len(stream)
      /\ \A e \in ends : e \in Nat /\ e <= Len(stream)
  BY DEF BytesInv
<1> PICK l \in Nat : l = n BY <1>2
<1>3. Waiting' = Waiting \cup {l} /\ l \in Waiting'
  <2>1. l > taken BY <1>2
  <2> QED BY <1>1, <2>1 DEF Waiting
<1>4. \A w \in Waiting : w < l BY <1>2 DEF Waiting
<1>5. Queue!Put BY <1>1, <1>3, <1>4 DEF Queue!Put, Waiting, Connected
<1> QED BY <1>5 DEF QueueStep, Queue!Next

\* What is consumed is the first in the queue.
LEMMA HandQueue == ASSUME WireInv, Consume PROVE QueueStep
<1>1. phase = "Consume" /\ ends' = ends /\ Connected' = Connected
  BY DEF Consume, Returns, Goes, Connected
<1>2. /\ BytesInv /\ StreamInv /\ Aligned /\ Measure(buffer).status = "Ok"
      /\ Measure(buffer).value <= Len(buffer)
  BY <1>1 DEF WireInv, PlaceInv
<1>3. taken' = taken + Measure(buffer).value BY <1>2, ConsumeStream
<1>4. IsNext(taken, taken') BY <1>2, <1>3, FrontIs
<1> PICK n : n = taken' OBVIOUS
<1>5. /\ n \in ends /\ n > taken /\ \A g \in ends : g > taken => g >= n
      /\ taken \in Nat /\ \A g \in ends : g \in Nat
  BY <1>2, <1>4 DEF IsNext, IsPacket, BytesInv
<1>6. n \in Waiting /\ \A w \in Waiting : n <= w BY <1>5 DEF Waiting
<1>7. Waiting' = Waiting \ {n}
  <2>1. \A e \in ends : e > n <=> (e > taken /\ e # n) BY <1>5
  <2> QED BY <1>1, <2>1 DEF Waiting
<1>8. Queue!HandOver BY <1>1, <1>6, <1>7 DEF Queue!HandOver, Waiting, Connected
<1> QED BY <1>8 DEF QueueStep, Queue!Next

\* While the CONNACK is read the queue is closed, and only the CONNACK is in it.
LEMMA TakenQueue ==
  ASSUME WireInv, WireInv', ~Connected', stream' = stream, ends' = ends,
         ends \subseteq {Len(stream)}, taken' >= taken
  PROVE  QueueStep
<1>1. taken \in Nat /\ taken' \in Nat /\ Len(stream) \in Nat BY DEF WireInv, BytesInv
<1>2. Waiting' \in {Waiting, {}}
  <2>1. CASE Len(stream) > taken' BY <1>1, <2>1 DEF Waiting
  <2>2. CASE ~(Len(stream) > taken') BY <1>1, <2>2 DEF Waiting
  <2> QED BY <2>1, <2>2
<1> QED BY <1>2, ClosedQueue

\* Every step is one of the queue's.
LEMMA NextQueue ==
  ASSUME AgreedInv, WireInv, WireInv', [Next]_vars PROVE QueueStep
<1>0. ASSUME UNCHANGED network, status' \in {status, "NotConnected", Broken} PROVE QueueStep
  <2>1. status' = Broken => Connected' = Connected BY DEF Broken, Connected
  <2> QED BY <1>0, <2>1, SameQueue DEF network
<1>1. ASSUME ConnectFails, phase \in {"ConnAck", "Body"} PROVE QueueStep
  <2>1. ~Connected' BY <1>1 DEF ConnectFails, AgreedInv, Connected
  <2>2. Waiting' = {} BY <1>1 DEF ConnectFails, Waiting
  <2> QED BY <2>1, <2>2, ClosedQueue
<1>2. ASSUME NEW d \in 0..1, SendTurn(d) PROVE QueueStep BY <1>0, <1>2 DEF SendTurn
<1>3. ASSUME NEW d \in 0..1, ReadConnAckBody(d) PROVE QueueStep
  <2>1. phase = "Body" /\ status = "NotConnected" BY <1>3 DEF ReadConnAckBody, AgreedInv
  <2>2. ends \subseteq {Len(stream)} /\ taken \in Nat BY <2>1 DEF WireInv, ConnectInv, BytesInv
  <2>3. CASE ConnectFails BY <1>1, <2>1, <2>3
  <2>4. CASE UNCHANGED network /\ status' = status BY <1>0, <2>4
  <2>5. ASSUME NEW n \in 1..Len(down), Take(n), status' = status PROVE QueueStep
    <3>1. stream' = stream /\ ends' = ends /\ taken' = taken + n BY <2>5 DEF Take
    <3>2. taken' >= taken BY <2>2, <3>1
    <3>3. ~Connected' BY <2>1, <2>5 DEF Connected
    <3> QED BY <2>2, <3>1, <3>2, <3>3, TakenQueue
  <2> QED BY <1>3, <2>3, <2>4, <2>5 DEF ReadConnAckBody
<1>4. CASE SendReturns BY <1>0, <1>4 DEF SendReturns
<1>5. CASE ReadConnAckHeader
  <2>1. phase = "ConnAck" /\ status = "NotConnected" BY <1>5 DEF ReadConnAckHeader, AgreedInv
  <2>2. ends \subseteq {Len(stream)} /\ taken \in Nat BY <2>1 DEF WireInv, ConnectInv, BytesInv
  <2>3. CASE ConnectFails BY <1>1, <2>1, <2>3
  <2>4. ASSUME NEW n \in 0..Len(down), Take(n), status' = status PROVE QueueStep
    <3>1. stream' = stream /\ ends' = ends /\ taken' = taken + n BY <2>4 DEF Take
    <3>2. taken' >= taken BY <2>2, <3>1
    <3>3. ~Connected' BY <2>1, <2>4 DEF Connected
    <3> QED BY <2>2, <3>1, <3>2, <3>3, TakenQueue
  <2>5. 0 \in 0..Len(down) /\ \A n \in 1..Len(down) : n \in 0..Len(down)
    BY DEF WireInv, BytesInv
  <2> QED BY <1>5, <2>3, <2>4, <2>5 DEF ReadConnAckHeader
<1>6. CASE ConnAckRead
  <2>1. ends' = ends /\ taken' = taken BY <1>6 DEF ConnAckRead
  <2>2. status = "NotConnected" BY <1>6 DEF ConnAckRead, AgreedInv
  <2>3. CASE status' = status BY <2>1, <2>3, SameQueue
  <2>4. CASE status' = "Connected"
    <3>1. Queue!Open BY <2>1, <2>4 DEF Queue!Open
    <3> QED BY <3>1 DEF QueueStep, Queue!Next
  <2> QED BY <1>6, <2>3, <2>4 DEF ConnAckRead
<1>7. ASSUME NEW n \in 0..Len(down), Read(n) PROVE QueueStep
  BY <1>7, SameQueue DEF Read, Goes
<1>8. CASE LooksAtKeepAlive BY <1>0, <1>8 DEF LooksAtKeepAlive, Goes
<1>9. CASE HandleFront BY <1>0, <1>9 DEF HandleFront, Goes
<1>10. CASE Consume BY <1>10, HandQueue
<1>11. CASE Connect
  <2>1. ~Connected' BY <1>11 DEF Connect, Connected
  <2>2. Waiting' = {} BY <1>11 DEF Connect, Waiting
  <2> QED BY <2>1, <2>2, ClosedQueue
<1>12. CASE Disconnect BY <1>12, SameQueue DEF Disconnect
<1>13. CASE Send BY <1>0, <1>13 DEF Send
<1>14. CASE SendBreaks BY <1>0, <1>14 DEF SendBreaks
<1>15. CASE ReadConnAckBreaks BY <1>1, <1>15 DEF ReadConnAckBreaks
<1>16. CASE ReadBreaks BY <1>0, <1>16 DEF ReadBreaks
<1>17. ASSUME NEW p, Puts(p), BrokerAccepts \/ BrokerSends, p \in Seq(Nat), Len(p) >= 2
       PROVE  QueueStep
  <2>1. stream' = stream \o p /\ ends' = ends \cup {Len(stream) + Len(p)} BY <1>17 DEF Puts
  <2>2. stream \in Seq(Nat) BY DEF WireInv, BytesInv
  <2>3. Len(stream') = Len(stream) + Len(p) BY <1>17, <2>1, <2>2
  <2>4. Len(stream') > Len(stream) BY <1>17, <2>2, <2>3
  <2> QED BY <1>17, <2>1, <2>3, <2>4, PutQueue DEF WireInv
<1>18. CASE BrokerAccepts \/ BrokerSends
  BY <1>17, <1>18, PacketsAre DEF BrokerAccepts, BrokerSends
<1>19. CASE UNCHANGED vars BY <1>0, <1>19 DEF vars, network
<1> QED BY <1>2, <1>3, <1>4, <1>5, <1>6, <1>7, <1>8, <1>9, <1>10, <1>11, <1>12,
           <1>13, <1>14, <1>15, <1>16, <1>18, <1>19 DEF Next, Program

\* The wire implements the queue of packets: the packets of a connection are
\* handed over one at a time, in order, each once, or lost with the connection,
\* whatever the reads (loop_.rs 103-251, session.rs 98-196).
THEOREM WireImplementsQueue == ASSUME ~RefusesDisconnect PROVE Spec => ImplementsQueue
<1>1. AgreedInv /\ WireInv /\ [Next]_vars => AgreedInv' /\ WireInv' BY NextAgreed, NextWire
<1>2. AgreedInv /\ WireInv /\ WireInv' /\ [Next]_vars =>
        [Queue!Next]_<<{e \in ends : e > taken}, status # "NotConnected">>
  BY NextQueue DEF QueueStep, Waiting, Connected
<1>3. Init => Queue!Init BY DEF Init, Queue!Init
<1> QED BY <1>1, <1>2, <1>3, InitAgreed, InitWire, PTL DEF Spec, ImplementsQueue, Queue!Spec

---------------------------------------------------------------------------
(* Types.                                                                  *)

\* What the other invariants do not say of the calls and their clock.
CallInv ==
  /\ phase \in {"Idle", "Sending", "ConnAck", "Body", "KeepAlive", "Front", "Consume"}
  /\ tries \in 0..MaxTries
  /\ phase # "Body" => body = NoBody
  /\ IF phase = "Sending" THEN sending.what # "None" ELSE sending = NoSending
  /\ phase \notin {"Sending", "Body"} => timer = NoTimer
  /\ phase = "Body" => timer.age <= PollTimeout

\* No call is under way at first.
LEMMA InitCall == Init => CallInv
BY WireAssumption DEF Init, CallInv

\* Waiting for the body of a CONNACK takes a turn longer than the timeout at
\* most.
LEMMA BodyCall ==
  ASSUME CallInv, SendInv, NEW d \in 0..1, ReadConnAckBody(d) PROVE CallInv'
<1>1. /\ phase = "Body" /\ timer.age <= PollTimeout /\ TimerInv /\ timer.age \in Nat
      /\ sending = NoSending /\ tries \in 0..MaxTries
  BY DEF ReadConnAckBody, CallInv, SendInv, TimerInv
<1>2. sending' = sending /\ tries' = tries BY DEF ReadConnAckBody, ConnectFails
<1>3. CASE ConnectFails BY <1>1, <1>2, <1>3 DEF ConnectFails, CallInv
<1>4. PollTimeout \in Nat /\ Wrap \in Nat /\ PollTimeout + 2 < Wrap BY WireAssumption
<1>5. /\ Later(d) \in [now : 0..(Wrap - 1), start : 0..(Wrap - 1), age : Nat]
      /\ Later(d).age = timer.age + d
      /\ Later(d).age < Wrap => Running(Later(d)) = Later(d).age
  BY <1>1, LaterTimer
<1>6. Later(d).age < Wrap
  <2> DEFINE a == timer.age
  <2>1. a \in Nat /\ a <= PollTimeout BY <1>1
  <2> HIDE DEF a
  <2>2. a + d < Wrap BY <1>4, <2>1
  <2> QED BY <1>5, <2>2 DEF a
<1>7. CASE phase' = phase /\ timer' = Later(d) /\ Running(Later(d)) < PollTimeout
  <2> DEFINE a == Later(d).age
  <2>1. a < PollTimeout /\ a \in Nat BY <1>5, <1>6, <1>7
  <2> HIDE DEF a
  <2>2. a <= PollTimeout BY <1>4, <2>1
  <2> QED BY <1>1, <1>2, <1>7, <2>2 DEF CallInv, a
<1>8. CASE phase' = phase /\ timer' = Restarted(Later(d))
  <2>1. timer'.age = 0 BY <1>5, <1>8, RestartedTimer
  <2>2. timer'.age <= PollTimeout BY <1>4, <2>1
  <2> QED BY <1>1, <1>2, <1>8, <2>2 DEF CallInv
<1> QED BY <1>3, <1>7, <1>8 DEF ReadConnAckBody, Heard

\* Every call leaves what it used as it found it.
LEMMA NextCall ==
  ASSUME AgreedInv, SendInv, CallInv, [Next]_vars PROVE CallInv'
<1> USE DEF CallInv
<1>1. ASSUME NEW d \in 0..1, SendTurn(d) PROVE CallInv'
  <2>1. sending'.what = sending.what BY <1>1 DEF SendTurn, AgreedInv, Shapes
  <2> QED BY <1>1, <2>1 DEF SendTurn
<1>2. ASSUME NEW d \in 0..1, ReadConnAckBody(d) PROVE CallInv' BY <1>2, BodyCall
<1>3. CASE SendReturns
  <2>1. phase' \in {"ConnAck", "Front", "Consume", "Idle"} BY <1>3 DEF SendReturns, AfterSent
  <2> QED BY <1>3, <2>1 DEF SendReturns
<1>4. CASE ReadConnAckHeader
  <2>1. CASE ConnectFails BY <1>4, <2>1 DEF ConnectFails, ReadConnAckHeader
  <2>2. CASE /\ tries < MaxTries /\ tries' = tries + 1
             /\ UNCHANGED <<phase, sending, timer, body>>
    <3>1. tries' \in 0..MaxTries BY <2>2, WireAssumption
    <3> QED BY <2>2, <3>1
  <2>3. CASE phase' = "Body" /\ timer' \in Timers /\ sending' = sending /\ tries' = tries
    <3>1. timer'.age = 0 BY <2>3, NewTimer
    <3>2. timer'.age <= PollTimeout BY <3>1, WireAssumption
    <3>3. phase = "ConnAck" BY <1>4 DEF ReadConnAckHeader
    <3> QED BY <2>3, <3>2, <3>3
  <2> QED BY <1>4, <2>1, <2>2, <2>3 DEF ReadConnAckHeader
<1>5. CASE ConnAckRead BY <1>5, WireAssumption DEF ConnAckRead
<1>6. ASSUME NEW n \in 0..Len(down), Read(n) PROVE CallInv' BY <1>6 DEF Read, Goes
<1>7. CASE LooksAtKeepAlive BY <1>7 DEF LooksAtKeepAlive, Goes, Returns, Begin
<1>8. CASE HandleFront BY <1>8 DEF HandleFront, Goes, Returns, Begin
<1>9. CASE Consume BY <1>9 DEF Consume, Goes, Returns
<1>10. CASE Connect BY <1>10, WireAssumption DEF Connect, Begin
<1>11. CASE Disconnect BY <1>11 DEF Disconnect, Begin
<1>12. CASE Send BY <1>12, WireAssumption DEF Send, Begin
<1>13. CASE SendBreaks
  <2>1. sending'.what = sending.what BY <1>13 DEF SendBreaks, AgreedInv, Shapes
  <2> QED BY <1>13, <2>1 DEF SendBreaks
<1>14. CASE ReadConnAckBreaks BY <1>14 DEF ReadConnAckBreaks, ConnectFails
<1>15. CASE ReadBreaks BY <1>15 DEF ReadBreaks, Returns
<1>16. CASE BrokerAccepts BY <1>16 DEF BrokerAccepts, Puts
<1>17. CASE BrokerSends BY <1>17 DEF BrokerSends, Puts
<1>18. CASE UNCHANGED vars BY <1>18 DEF vars
<1> QED BY <1>1, <1>2, <1>3, <1>4, <1>5, <1>6, <1>7, <1>8, <1>9, <1>10, <1>11, <1>12,
           <1>13, <1>14, <1>15, <1>16, <1>17, <1>18 DEF Next, Program

\* The types, with the buffer inside its memory and the clock showing the true
\* age of whatever waits (client.rs 732-860, session.rs 98-196).
THEOREM WireTypes == ASSUME ~RefusesDisconnect PROVE Spec => []TypeOK
<1> DEFINE All == AgreedInv /\ SendInv /\ WireInv /\ CallInv
<1>1. All /\ [Next]_vars => All' BY NextAgreed, NextTimer, NextWire, NextCall
<1>2. All => TypeOK
  <2> SUFFICES ASSUME AgreedInv, SendInv, WireInv, CallInv PROVE TypeOK OBVIOUS
  <2>1. status \in {"NotConnected", "Connected", "DisconnectPending"} BY StatusIs
  <2>2. Len(buffer) <= BufferSize /\ taken \in 0..Len(stream) /\ ends \subseteq 1..Len(stream)
    BY DEF WireInv, BytesInv
  <2>3. Len(body.got) <= body.wanted
    <3>1. CASE phase = "Body" BY <3>1 DEF WireInv, ConnectInv
    <3>2. CASE phase # "Body" BY <3>2 DEF CallInv, NoBody
    <3> QED BY <3>1, <3>2
  <2>4. (sending = NoSending) = (phase # "Sending") BY DEF CallInv, NoSending
  <2>5. timer.age < Wrap
    <3>1. timer.age \in Nat BY DEF SendInv, TimerInv
    <3>2. CASE phase = "Sending" BY <3>1, <3>2, WrapIs DEF SendInv, TimeoutsAreReal
    <3>3. CASE phase = "Body"
      <4>1. timer.age <= PollTimeout BY <3>3 DEF CallInv
      <4> QED BY <3>1, <4>1, WireAssumption
    <3>4. CASE phase \notin {"Sending", "Body"}
      <4>1. timer.age = 0 BY <3>4 DEF CallInv, NoTimer
      <4> QED BY <4>1, WrapIs
    <3> QED BY <3>2, <3>3, <3>4
  <2>6. timer.now \in 0..(Wrap - 1) /\ Running(timer) = timer.age
    BY <2>5 DEF SendInv, TimerInv
  <2> QED BY <2>1, <2>2, <2>3, <2>4, <2>6 DEF TypeOK, CallInv
<1>3. Init => All BY InitAgreed, InitTimer, InitWire, InitCall
<1> QED BY <1>1, <1>2, <1>3, PTL DEF Spec

---------------------------------------------------------------------------
(* What is sent.  FlattenSeq and Advance reckon with recursive functions;  *)
(* what they compute is proved by induction, stated about sets of numbers. *)

\* Of a set of naturals that is not empty there is a least.
LEMMA LeastNatural ==
  ASSUME NEW S \in SUBSET Nat, S # {} PROVE \E x \in S : \A y \in S : x <= y
<1>1. PICK x \in S : \A y \in S : ~ (<<y, x>> \in OpToRel(<, Nat))
  BY NatLessThanWellFounded, WFMin, Zenon
<1>2. \A y \in S : ~ (y < x) BY <1>1, Zenon DEF OpToRel
<1>3. \A y \in S : x <= y BY <1>2
<1> QED BY <1>3

\* Induction, about sets.
LEMMA NaturalInduction ==
  ASSUME NEW S \in SUBSET Nat, 0 \in S, \A n \in S : n + 1 \in S PROVE S = Nat
<1> SUFFICES ASSUME S # Nat PROVE FALSE OBVIOUS
<1> DEFINE rest == Nat \ S
<1>1. PICK first \in rest : \A j \in rest : first <= j BY LeastNatural
<1>2. first # 0 /\ first - 1 \in Nat BY <1>1
<1>3. first - 1 \in S BY <1>1, <1>2
<1>4. (first - 1) + 1 \in S BY <1>3
<1> QED BY <1>1, <1>4

\* The greatest of finitely many numbers.
LEMMA MaxIs ==
  ASSUME NEW n \in Nat, NEW S \in SUBSET (0..n), S # {}
  PROVE  Max(S) \in S /\ \A y \in S : y <= Max(S)
<1> DEFINE from == {n - x : x \in S}
<1>0. \A x \in S : x \in 0..n OBVIOUS
<1>a. \A x \in S : n - x \in Nat BY <1>0
<1>1. from \in SUBSET Nat /\ from # {} BY <1>a
<1>2. PICK d \in from : \A y \in from : d <= y
  <2> HIDE DEF from
  <2> QED BY <1>1, LeastNatural
<1>3. PICK x \in S : d = n - x OBVIOUS
<1>4. \A y \in S : n - x <= n - y BY <1>2, <1>3
<1>5. \A y \in S : x >= y BY <1>0, <1>4
<1>6. Max(S) \in S /\ \A y \in S : Max(S) >= y BY <1>5 DEF Max
<1> QED BY <1>0, <1>6

\* g[k] is made of g[k - 1] and k, from a on.
Builds(g, A, a, F, m) ==
  g \in [0..m -> A] /\ g[0] = a /\ \A k \in 1..m : g[k] = F[<<k, g[k-1]>>]

\* A recursive function on the numbers up to m exists: its definition is not an
\* empty choice.
LEMMA BuildsSome ==
  ASSUME NEW A, NEW a \in A, NEW F \in [Nat \X A -> A], NEW m \in Nat
  PROVE  \E g : Builds(g, A, a, F, m)
<1> DEFINE S == {l \in Nat : \E g : Builds(g, A, a, F, l)}
<1>1. 0 \in S
  <2> DEFINE g == [k \in 0..0 |-> a]
  <2>1. Builds(g, A, a, F, 0) BY DEF Builds
  <2> QED BY <2>1
<1>2. ASSUME NEW l \in S PROVE l + 1 \in S
  <2>1. l \in Nat OBVIOUS
  <2>2. PICK g : Builds(g, A, a, F, l) OBVIOUS
  <2>3. g \in [0..l -> A] /\ g[0] = a /\ \A k \in 1..l : g[k] = F[<<k, g[k-1]>>] BY <2>2 DEF Builds
  <2>4. F[<<l + 1, g[l]>>] \in A
    <3>1. g[l] \in A BY <2>1, <2>3
    <3>2. <<l + 1, g[l]>> \in Nat \X A BY <2>1, <3>1
    <3> QED BY <3>2
  <2> DEFINE h == [k \in 0..(l+1) |-> IF k = l + 1 THEN F[<<l + 1, g[l]>>] ELSE g[k]]
  <2>5. h \in [0..(l+1) -> A] BY <2>1, <2>3, <2>4
  <2>6. ASSUME NEW k \in 1..(l+1) PROVE h[k] = F[<<k, h[k-1]>>]
    <3>1. CASE k = l + 1
      <4>1. h[k] = F[<<l + 1, g[l]>>] /\ k - 1 = l BY <3>1, <2>1
      <4>2. h[l] = g[l] BY <2>1
      <4> QED BY <3>1, <4>1, <4>2
    <3>2. CASE k # l + 1
      <4>1. k \in 1..l BY <3>2, <2>1
      <4>2. g[k] = F[<<k, g[k-1]>>] BY <4>1, <2>3
      <4>3. h[k] = g[k] BY <3>2
      <4>4. h[k-1] = g[k-1] BY <4>1, <2>1
      <4> QED BY <4>2, <4>3, <4>4
    <3> QED BY <3>1, <3>2
  <2>7. h[0] = a BY <2>1, <2>3
  <2>8. Builds(h, A, a, F, l + 1)
    <3> HIDE DEF h
    <3> QED BY <2>5, <2>6, <2>7 DEF Builds
  <2> QED BY <2>1, <2>8
<1>3. S = Nat
  <2>1. S \in SUBSET Nat OBVIOUS
  <2> HIDE DEF S
  <2> QED BY <1>1, <1>2, <2>1, NaturalInduction
<1> QED BY <1>3

\* g[k] is what the first k of the sequences s are, one behind the other.
Joins(g, T, s) ==
  g \in [0..Len(s) -> Seq(T)] /\ g[0] = <<>> /\ \A k \in 1..Len(s) : g[k] = g[k-1] \o s[k]

\* There is such a g.
LEMMA JoinsSome == ASSUME NEW T, NEW s \in Seq(Seq(T)) PROVE \E g : Joins(g, T, s)
<1> DEFINE A == Seq(T)
           F == [p \in Nat \X A |-> IF p[1] \in 1..Len(s) THEN p[2] \o s[p[1]] ELSE p[2]]
           m == Len(s)
<1>1. F \in [Nat \X A -> A] /\ \A k \in 1..m, v \in A : F[<<k, v>>] = v \o s[k]
  <2>1. ASSUME NEW p \in Nat \X A PROVE (IF p[1] \in 1..Len(s) THEN p[2] \o s[p[1]] ELSE p[2]) \in A
    <3>1. CASE p[1] \in 1..Len(s)
      <4>1. s[p[1]] \in Seq(T) /\ p[2] \in Seq(T) BY <3>1
      <4>2. p[2] \o s[p[1]] \in Seq(T) BY <4>1
      <4> QED BY <3>1, <4>2
    <3>2. CASE p[1] \notin 1..Len(s) BY <3>2
    <3> QED BY <3>1, <3>2
  <2>2. F \in [Nat \X A -> A] BY <2>1
  <2>3. ASSUME NEW k \in 1..m, NEW v \in A PROVE F[<<k, v>>] = v \o s[k]
    <3>1. <<k, v>> \in Nat \X A BY LenProperties
    <3> QED BY <3>1
  <2> QED BY <2>2, <2>3
<1>2. <<>> \in A /\ m \in Nat BY LenProperties
<1>3. PICK g : Builds(g, A, <<>>, F, m)
  <2> HIDE DEF A, F, m
  <2> QED BY <1>1, <1>2, BuildsSome
<1>4. g \in [0..m -> A] /\ g[0] = <<>> /\ \A k \in 1..m : g[k] = F[<<k, g[k-1]>>]
  <2> HIDE DEF A, F, m
  <2> QED BY <1>3 DEF Builds
<1>5. ASSUME NEW k \in 1..m PROVE g[k] = g[k-1] \o s[k]
  <2>1. k - 1 \in 0..m BY <1>2
  <2>2. g[k-1] \in A
    <3> HIDE DEF A, F, m
    <3> QED BY <1>4, <2>1
  <2> HIDE DEF F, A, m
  <2> QED BY <1>1, <1>4, <2>2
<1>6. Joins(g, T, s)
  <2> HIDE DEF F
  <2> QED BY <1>4, <1>5 DEF Joins
<1> QED BY <1>6

\* FlattenSeq joins the sequences from the first to the last.
LEMMA FlattenJoins ==
  ASSUME NEW T, NEW s \in Seq(Seq(T)), NEW g, Joins(g, T, s)
  PROVE  FlattenSeq(s) = g[Len(s)]
<1>0. Len(s) \in Nat /\ (Len(s) = 0 => s = <<>>) BY LenProperties, EmptySeq
<1>1. CASE Len(s) = 0 BY <1>0, <1>1 DEF Joins, FlattenSeq
<1>2. CASE Len(s) # 0
  <2> DEFINE Is(f) == f = [i \in 1..Len(s) |-> IF i = 1 THEN s[i] ELSE f[i-1] \o s[i]]
             flat == CHOOSE f : Is(f)
             h == [i \in 1..Len(s) |-> g[i]]
             m == Len(s)
  <2>1. FlattenSeq(s) = flat[Len(s)] BY <1>2, Zenon DEF FlattenSeq
  <2>2. /\ g \in [0..m -> Seq(T)] /\ g[0] = <<>>
        /\ \A k \in 1..m : g[k] = g[k-1] \o s[k]
        /\ m \in Nat /\ m # 0
    BY <1>0, <1>2 DEF Joins
  <2>3. g[1] = s[1]
    <3>1. 1 \in 1..m BY <2>2
    <3>2. s[1] \in Seq(T) BY <3>1
    <3>3. <<>> \o s[1] = s[1] BY <3>2
    <3>4. g[1] = g[0] \o s[1]
      <4>1. 1 - 1 = 0 OBVIOUS
      <4> QED BY <2>2, <3>1, <4>1
    <3> QED BY <2>2, <3>3, <3>4
  <2>4. ASSUME NEW i \in 1..m PROVE h[i] = IF i = 1 THEN s[i] ELSE h[i-1] \o s[i]
    <3>1. CASE i = 1 BY <2>3, <3>1
    <3>2. CASE i # 1
      <4>1. i - 1 \in 1..m BY <2>2, <3>2
      <4>2. h[i-1] = g[i-1] /\ h[i] = g[i] BY <4>1
      <4> QED BY <2>2, <3>2, <4>2
    <3> QED BY <3>1, <3>2
  <2>5. Is(h)
    <3> HIDE DEF m
    <3>1. DOMAIN h = 1..Len(s) OBVIOUS
    <3>2. h = [i \in 1..Len(s) |-> h[i]] OBVIOUS
    <3> HIDE DEF h
    <3> QED BY <2>4, <3>1, <3>2 DEF m
  <2>6. Is(flat)
    <3> HIDE DEF Is, h
    <3> QED BY <2>5
  <2> HIDE DEF flat
  <2>7. \A i \in 1..m : flat[i] = IF i = 1 THEN s[i] ELSE flat[i-1] \o s[i] BY <2>6
  <2> HIDE DEF Is, h
  <2> DEFINE S == {k \in Nat : k + 1 \in 1..m => flat[k + 1] = g[k + 1]}
  <2>8. 0 \in S
    <3>1. 1 \in 1..m /\ 0 + 1 = 1 BY <2>2
    <3>2. flat[1] = s[1] BY <2>7, <3>1
    <3> QED BY <2>3, <3>1, <3>2
  <2>9. ASSUME NEW k \in S PROVE k + 1 \in S
    <3>1. k \in Nat /\ k + 1 \in Nat OBVIOUS
    <3> SUFFICES ASSUME (k + 1) + 1 \in 1..m PROVE flat[(k + 1) + 1] = g[(k + 1) + 1] BY <3>1
    <3> DEFINE i == (k + 1) + 1
    <3>2. i \in 1..m /\ i # 1 /\ i - 1 = k + 1 /\ k + 1 \in 1..m BY <2>2, <3>1
    <3>3. flat[k + 1] = g[k + 1] BY <3>1, <3>2
    <3> HIDE DEF i, S
    <3>4. flat[i] = flat[i-1] \o s[i] BY <2>7, <3>2
    <3>5. g[i] = g[i-1] \o s[i] BY <2>2, <3>2
    <3>6. flat[i] = g[i] BY <3>2, <3>3, <3>4, <3>5
    <3> QED BY <3>6 DEF i
  <2>10. S = Nat
    <3>1. S \in SUBSET Nat OBVIOUS
    <3> HIDE DEF S
    <3> QED BY <2>8, <2>9, <3>1, NaturalInduction
  <2>11. m - 1 \in S /\ (m - 1) + 1 = m
    <3> HIDE DEF S, m
    <3> QED BY <2>2, <2>10
  <2>12. flat[m] = g[m]
    <3> HIDE DEF m
    <3> QED BY <2>2, <2>11
  <2> QED BY <2>1, <2>12
<1> QED BY <1>1, <1>2

\* What FlattenSeq makes of one sequence more.
LEMMA FlattenOneMore ==
  ASSUME NEW T, NEW s \in Seq(Seq(T)), NEW p \in Seq(T)
  PROVE  /\ FlattenSeq(s) \in Seq(T)
         /\ FlattenSeq(Append(s, p)) = FlattenSeq(s) \o p
<1> DEFINE m == Len(s)
           t == Append(s, p)
<1>0. m \in Nat BY LenProperties
<1>1. PICK g : Joins(g, T, s) BY JoinsSome
<1>2. FlattenSeq(s) = g[m] BY <1>1, FlattenJoins
<1>3. /\ g \in [0..m -> Seq(T)] /\ g[0] = <<>> /\ \A k \in 1..m : g[k] = g[k-1] \o s[k]
  BY <1>1 DEF Joins
<1>4. g[m] \in Seq(T) /\ g[m] \o p \in Seq(T)
  <2>1. g[m] \in Seq(T) BY <1>0, <1>3
  <2> QED BY <2>1
<1>5. /\ t \in Seq(Seq(T)) /\ Len(t) = m + 1 /\ t[m + 1] = p
      /\ \A k \in 1..m : t[k] = s[k]
  BY AppendProperties
<1> HIDE DEF t, m
<1> DEFINE h == [k \in 0..(m+1) |-> IF k = m + 1 THEN g[m] \o p ELSE g[k]]
<1>6. h \in [0..(m+1) -> Seq(T)] /\ h[0] = <<>> /\ h[m + 1] = g[m] \o p BY <1>0, <1>3, <1>4
<1>7. ASSUME NEW k \in 1..(m+1) PROVE h[k] = h[k-1] \o t[k]
  <2>1. CASE k = m + 1
    <3>1. k - 1 = m /\ h[m] = g[m] BY <1>0, <2>1
    <3> QED BY <1>5, <1>6, <2>1, <3>1
  <2>2. CASE k # m + 1
    <3>1. k \in 1..m BY <1>0, <2>2
    <3>2. h[k] = g[k] /\ h[k-1] = g[k-1] BY <1>0, <3>1
    <3> QED BY <1>3, <1>5, <3>1, <3>2
  <2> QED BY <2>1, <2>2
<1> HIDE DEF h
<1>8. Joins(h, T, t) BY <1>5, <1>6, <1>7 DEF Joins
<1>9. FlattenSeq(t) = h[m + 1] BY <1>5, <1>8, FlattenJoins
<1> QED BY <1>2, <1>4, <1>6, <1>9 DEF t

\* Of no sequence and of one.
LEMMA FlattenNone == FlattenSeq(<<>>) = <<>>
BY EmptySeq DEF FlattenSeq

LEMMA FlattenOne == ASSUME NEW T, NEW p \in Seq(T) PROVE FlattenSeq(<<p>>) = p
<1>1. <<>> \in Seq(Seq(T)) /\ Append(<<>>, p) = <<p>> /\ <<>> \o p = p
  BY EmptySeq, ConcatEmptySeq
<1> QED BY <1>1, FlattenNone, FlattenOneMore

\* FlattenSeq of a concatenation is the concatenation of what it makes of each.
LEMMA FlattenConcat ==
  ASSUME NEW T, NEW s \in Seq(Seq(T)), NEW t \in Seq(Seq(T))
  PROVE  FlattenSeq(s \o t) = FlattenSeq(s) \o FlattenSeq(t)
<1> DEFINE Q == Seq(Seq(T))
           S == {n \in Nat : \A x \in Q : Len(x) = n => FlattenSeq(s \o x) = FlattenSeq(s) \o FlattenSeq(x)}
<1>1. 0 \in S
  <2> SUFFICES ASSUME NEW x \in Q, Len(x) = 0 PROVE FlattenSeq(s \o x) = FlattenSeq(s) \o FlattenSeq(x) OBVIOUS
  <2>1. x = <<>> BY EmptySeq
  <2>2. s \o <<>> = s BY ConcatEmptySeq
  <2>3. FlattenSeq(s) \in Seq(T)
    <3>1. <<>> \in Seq(T) BY EmptySeq
    <3> QED BY <3>1, FlattenOneMore
  <2>4. FlattenSeq(s) \o <<>> = FlattenSeq(s) BY <2>3, ConcatEmptySeq
  <2> QED BY <2>1, <2>2, <2>4, FlattenNone
<1>2. ASSUME NEW n \in S PROVE n + 1 \in S
  <2>1. n \in Nat /\ \A x \in Q : Len(x) = n => FlattenSeq(s \o x) = FlattenSeq(s) \o FlattenSeq(x) OBVIOUS
  <2> SUFFICES ASSUME NEW x \in Q, Len(x) = n + 1
               PROVE  FlattenSeq(s \o x) = FlattenSeq(s) \o FlattenSeq(x) BY <2>1
  <2> HIDE DEF S
  <2>2. PICK y \in Q, p \in Seq(T) : x = Append(y, p)
    <3>1. x # <<>> BY <2>1, EmptySeq
    <3> QED BY <3>1, SequenceEmptyOrAppend
  <2>3. Len(y) = n BY <2>1, <2>2, AppendProperties
  <2>4. s \o x = Append(s \o y, p) BY <2>2
  <2>5. s \o y \in Q BY ConcatProperties
  <2>6. FlattenSeq(s \o x) = FlattenSeq(s \o y) \o p BY <2>4, <2>5, FlattenOneMore
  <2>7. FlattenSeq(s) \in Seq(T) /\ FlattenSeq(y) \in Seq(T) BY <2>2, FlattenOneMore
  <2>8. FlattenSeq(x) = FlattenSeq(y) \o p BY <2>2, FlattenOneMore
  <2>9. FlattenSeq(s \o y) = FlattenSeq(s) \o FlattenSeq(y) BY <2>1, <2>3
  <2>10. (FlattenSeq(s) \o FlattenSeq(y)) \o p = FlattenSeq(s) \o (FlattenSeq(y) \o p)
    BY <2>2, <2>7, ConcatAssociative
  <2> QED BY <2>6, <2>8, <2>9, <2>10
<1>3. S = Nat
  <2>1. S \in SUBSET Nat OBVIOUS
  <2> HIDE DEF S
  <2> QED BY <1>1, <1>2, <2>1, NaturalInduction
<1>4. Len(t) \in Nat BY LenProperties
<1> QED BY <1>3, <1>4

\* The bytes of parts are a sequence.
LEMMA BytesOf ==
  ASSUME NEW parts \in Seq(Seq(Nat))
  PROVE  Bytes(parts) \in Seq(Nat) /\ Len(Bytes(parts)) \in Nat
<1>1. <<>> \in Seq(Nat) BY EmptySeq
<1>2. Bytes(parts) \in Seq(Nat) BY <1>1, FlattenOneMore DEF Bytes
<1> QED BY <1>2, LenProperties

\* How many bytes the first i parts have.
First(parts, i) == Len(Bytes(SubSeq(parts, 1, i)))

\* What Advance reckons: what is left of `gone` behind each part.
Unsent(parts, gone) ==
  LET left[k \in 0..Len(parts)] == IF k = 0 THEN gone ELSE left[k - 1] - Len(parts[k])
  IN  left

\* It is what was gone, less the bytes of the parts so far.
LEMMA AfterIs ==
  ASSUME NEW parts \in Seq(Seq(Nat)), NEW gone \in Int
  PROVE  \A k \in 0..Len(parts) : Unsent(parts, gone)[k] = gone - First(parts, k)
<1> DEFINE n == Len(parts)
           Is(f) == f = [k \in 0..n |-> IF k = 0 THEN gone ELSE f[k - 1] - Len(parts[k])]
           Rests == Unsent(parts, gone)
           h == [k \in 0..n |-> gone - First(parts, k)]
<1>0. n \in Nat BY LenProperties
<1>1. First(parts, 0) = 0
  <2>1. SubSeq(parts, 1, 0) = <<>> BY SubSeqEmpty
  <2>2. Bytes(<<>>) = <<>> BY FlattenNone DEF Bytes
  <2>3. Len(<<>>) = 0 BY EmptySeq
  <2> QED BY <2>1, <2>2, <2>3 DEF First
<1>2. ASSUME NEW k \in 1..n PROVE First(parts, k) = First(parts, k - 1) + Len(parts[k])
  <2>1. k - 1 \in 0..n /\ k \in 1..Len(parts) BY <1>0
  <2>2. parts[k] \in Seq(Nat) BY ElementOfSeq
  <2>3. SubSeq(parts, 1, k - 1) \in Seq(Seq(Nat)) BY SubSeqProperties, <2>1
  <2>4. SubSeq(parts, 1, k) = Append(SubSeq(parts, 1, k - 1), parts[k])
    BY <1>0, <2>1, SubSeqRecursiveSecond
  <2>5. Bytes(SubSeq(parts, 1, k)) = Bytes(SubSeq(parts, 1, k - 1)) \o parts[k]
    BY <2>2, <2>3, <2>4, FlattenOneMore DEF Bytes
  <2>6. Bytes(SubSeq(parts, 1, k - 1)) \in Seq(Nat) BY <2>3, BytesOf
  <2> QED BY <2>2, <2>5, <2>6, ConcatProperties DEF First
<1>3. \A k \in 0..n : First(parts, k) \in Nat
  <2> SUFFICES ASSUME NEW k \in 0..n PROVE First(parts, k) \in Nat OBVIOUS
  <2>1. SubSeq(parts, 1, k) \in Seq(Seq(Nat)) BY <1>0, SubSeqProperties
  <2> QED BY <2>1, BytesOf DEF First
<1>4. Is(h)
  <2>1. ASSUME NEW k \in 0..n PROVE h[k] = IF k = 0 THEN gone ELSE h[k - 1] - Len(parts[k])
    <3>1. CASE k = 0 BY <1>1, <3>1
    <3>2. CASE k # 0
      <4>1. k \in 1..n /\ k - 1 \in 0..n BY <1>0, <3>2
      <4>2. h[k] = gone - First(parts, k) /\ h[k - 1] = gone - First(parts, k - 1) BY <4>1
      <4>3. First(parts, k) = First(parts, k - 1) + Len(parts[k]) BY <1>2, <4>1
      <4>4. First(parts, k - 1) \in Nat /\ Len(parts[k]) \in Nat BY <1>3, <4>1, LenProperties, ElementOfSeq
      <4> HIDE DEF h, n
      <4> QED BY <3>2, <4>2, <4>3, <4>4
    <3> QED BY <3>1, <3>2
  <2>2. h = [k \in 0..n |-> h[k]] OBVIOUS
  <2> HIDE DEF h
  <2> QED BY <2>1, <2>2
<1>5. Is(Rests)
  <2>1. Rests = CHOOSE f : Is(f) BY Zenon DEF Unsent
  <2> HIDE DEF Is, h, Rests
  <2> QED BY <1>4, <2>1
<1> HIDE DEF Rests
<1>6. \A k \in 0..n : Rests[k] = IF k = 0 THEN gone ELSE Rests[k - 1] - Len(parts[k]) BY <1>5
<1> DEFINE S == {k \in Nat : k \in 0..n => Rests[k] = gone - First(parts, k)}
<1>7. 0 \in S BY <1>0, <1>1, <1>6
<1>8. ASSUME NEW k \in S PROVE k + 1 \in S
  <2>1. k \in Nat /\ k + 1 \in Nat OBVIOUS
  <2> SUFFICES ASSUME k + 1 \in 0..n PROVE Rests[k + 1] = gone - First(parts, k + 1) BY <2>1
  <2> DEFINE j == k + 1
  <2>2. k \in 0..n /\ j \in 1..n /\ j - 1 = k /\ j # 0 BY <1>0, <2>1
  <2>3. Rests[k] = gone - First(parts, k) BY <2>1, <2>2
  <2> HIDE DEF S, j, Is, n
  <2>4. Rests[j] = Rests[k] - Len(parts[j]) BY <1>6, <2>2
  <2>5. First(parts, j) = First(parts, k) + Len(parts[j]) BY <1>2, <2>2
  <2>6. First(parts, k) \in Nat /\ Len(parts[j]) \in Nat BY <1>3, <2>2, LenProperties, ElementOfSeq DEF n
  <2>7. Rests[j] = gone - First(parts, j) BY <2>3, <2>4, <2>5, <2>6
  <2> QED BY <2>7 DEF j
<1>9. S = Nat
  <2>1. S \in SUBSET Nat OBVIOUS
  <2> HIDE DEF S
  <2> QED BY <1>7, <1>8, <2>1, NaturalInduction
<1>10. \A k \in 0..n : Rests[k] = gone - First(parts, k) BY <1>0, <1>9
<1> QED BY <1>10 DEF Rests, n

\* Cutting a sequence of three pieces in its second.
LEMMA CutInside ==
  ASSUME NEW s \in Seq(Nat), NEW t \in Seq(Nat), NEW u \in Seq(Nat), NEW c \in 0..Len(t)
  PROVE  LET all == (s \o t) \o u
         IN  SubSeq(all, Len(s) + c + 1, Len(all)) = SubSeq(t, c + 1, Len(t)) \o u
<1> DEFINE all == (s \o t) \o u
           x == SubSeq(all, Len(s) + c + 1, Len(all))
           y == SubSeq(t, c + 1, Len(t)) \o u
           a == Len(s)  b == Len(t)  d == Len(u)
<1>1. a \in Nat /\ b \in Nat /\ d \in Nat /\ c \in Nat /\ c <= b BY LenProperties
<1>2. s \o t \in Seq(Nat) /\ Len(s \o t) = a + b
      /\ \A i \in 1..(a + b) : (s \o t)[i] = IF i <= a THEN s[i] ELSE t[i - a]
  BY ConcatProperties
<1>3. all \in Seq(Nat) /\ Len(all) = (a + b) + d
      /\ \A i \in 1..((a + b) + d) : all[i] = IF i <= a + b THEN (s \o t)[i] ELSE u[i - (a + b)]
  <2> HIDE DEF a, b, d
  <2> QED BY <1>2, ConcatProperties DEF d
<1>4. SubSeq(t, c + 1, b) \in Seq(Nat) /\ Len(SubSeq(t, c + 1, b)) = b - c
      /\ \A i \in 1..(b - c) : SubSeq(t, c + 1, b)[i] = t[c + i]
  <2>1. \A i \in (c+1)..b : t[i] \in Nat BY <1>1
  <2> HIDE DEF b
  <2>2. c + 1 \in Int /\ b \in Int /\ (b - (c + 1)) + 1 = b - c BY <1>1
  <2>3. /\ SubSeq(t, c + 1, b) \in Seq(Nat)
        /\ Len(SubSeq(t, c + 1, b)) = IF c + 1 <= b THEN b - (c + 1) + 1 ELSE 0
        /\ \A i \in 1..(b - (c + 1) + 1) : SubSeq(t, c + 1, b)[i] = t[(c + 1) + i - 1]
    BY <2>1, <2>2, SubSeqProperties
  <2>4. \A i \in 1..(b - c) : i \in 1..(b - (c + 1) + 1) /\ (c + 1) + i - 1 = c + i BY <1>1
  <2>5. Len(SubSeq(t, c + 1, b)) = b - c BY <1>1, <2>3
  <2> QED BY <2>3, <2>4, <2>5
<1>5. y \in Seq(Nat) /\ Len(y) = (b - c) + d
      /\ \A i \in 1..((b - c) + d) : y[i] = IF i <= b - c THEN t[c + i] ELSE u[i - (b - c)]
  <2> HIDE DEF a, b, d
  <2>1. y = SubSeq(t, c + 1, b) \o u BY DEF b
  <2>2. \A i \in 1..((b - c) + d) : i <= b - c => i \in 1..(b - c) BY <1>1
  <2> HIDE DEF y
  <2> QED BY <1>4, <2>1, <2>2, ConcatProperties DEF d
<1>6. x \in Seq(Nat) /\ Len(x) = (b - c) + d
      /\ \A i \in 1..((b - c) + d) : x[i] = all[(a + c) + i]
  <2> DEFINE f == (a + c) + 1
             l == (a + b) + d
  <2>1. \A i \in f..l : all[i] \in Nat
    <3>1. \A i \in f..l : i \in 1..l BY <1>1
    <3> HIDE DEF all, l, f, a, b, d
    <3>2. \A i \in 1..Len(all) : all[i] \in Nat BY <1>3, ElementOfSeq
    <3> QED BY <1>3, <3>1, <3>2 DEF l
  <2>2. x = SubSeq(all, f, l)
    <3> HIDE DEF all
    <3> QED BY <1>3
  <2> HIDE DEF x, all, a, b, d
  <2>3. f \in Int /\ l \in Int /\ (l - f) + 1 = (b - c) + d /\ (f <= l \/ (b - c) + d = 0) BY <1>1
  <2>4. \A i \in Nat : (f + i) - 1 = (a + c) + i BY <1>1
  <2> HIDE DEF f, l
  <2>5. /\ SubSeq(all, f, l) \in Seq(Nat)
        /\ Len(SubSeq(all, f, l)) = IF f <= l THEN (l - f) + 1 ELSE 0
        /\ \A i \in 1..((l - f) + 1) : SubSeq(all, f, l)[i] = all[(f + i) - 1]
    BY <2>1, <2>3, SubSeqProperties
  <2>6. Len(x) = (b - c) + d BY <1>1, <2>2, <2>3, <2>5
  <2> QED BY <2>2, <2>3, <2>4, <2>5, <2>6
<1>7. ASSUME NEW i \in 1..((b - c) + d) PROVE x[i] = y[i]
  <2> HIDE DEF x, y, all, a, b, d
  <2>1. i \in Nat /\ (a + c) + i \in 1..((a + b) + d) BY <1>1
  <2>2. CASE i <= b - c
    <3>1. (a + c) + i <= a + b /\ ~((a + c) + i <= a) /\ ((a + c) + i) - a = c + i
          /\ (a + c) + i \in 1..(a + b) BY <1>1, <2>1, <2>2
    <3>2. (s \o t)[(a + c) + i] = t[c + i] BY <1>2, <3>1
    <3> QED BY <1>3, <1>5, <1>6, <2>1, <2>2, <3>1, <3>2
  <2>3. CASE ~(i <= b - c)
    <3>1. ~((a + c) + i <= a + b) /\ ((a + c) + i) - (a + b) = i - (b - c) BY <1>1, <2>1, <2>3
    <3> QED BY <1>3, <1>5, <1>6, <2>1, <2>3, <3>1
  <2> QED BY <2>2, <2>3
<1> HIDE DEF x, y, all, a, b, d
<1>8. x = y BY <1>5, <1>6, <1>7, SeqEqual
<1> QED BY <1>8 DEF x, y, all, a, b

\* What is offered next is the rest of the bytes, and there is nothing to offer
\* only when all have gone.
LEMMA AdvanceIs ==
  ASSUME NEW parts \in Seq(Seq(Nat)), NEW gone \in 0..Len(Bytes(parts))
  PROVE  LET rest == Advance(parts, gone)
         IN  /\ rest \in Seq(Seq(Nat))
             /\ Bytes(rest) = SubSeq(Bytes(parts), gone + 1, Len(Bytes(parts)))
             /\ rest = <<>> <=> gone = Len(Bytes(parts))
<1> DEFINE n == Len(parts)
           total == Len(Bytes(parts))
           Rests == Unsent(parts, gone)
           valid == {i \in 0..n : Rests[i] >= 0}
           k == Max(valid)
           rest == Advance(parts, gone)
<1>0. n \in Nat /\ total \in Nat /\ gone \in Nat /\ gone <= total
  <2>1. n \in Nat /\ total \in Nat BY LenProperties, BytesOf
  <2> HIDE DEF n, total
  <2>2. gone \in 0..total BY DEF total
  <2> QED BY <2>1, <2>2
<1>1. \A i \in 0..n : Rests[i] = gone - First(parts, i) BY <1>0, AfterIs
<1>2. rest = IF k = n THEN <<>>
             ELSE <<SubSeq(parts[k + 1], Rests[k] + 1, Len(parts[k + 1]))>> \o SubSeq(parts, k + 2, n)
  BY Zenon DEF Advance, Unsent
<1> HIDE DEF Rests
<1>3. First(parts, 0) = 0 /\ First(parts, n) = total /\ \A i \in 0..n : First(parts, i) \in Nat
  <2>1. SubSeq(parts, 1, 0) = <<>> BY SubSeqEmpty
  <2>2. Bytes(<<>>) = <<>> /\ Len(<<>>) = 0 BY FlattenNone, EmptySeq DEF Bytes
  <2>3. SubSeq(parts, 1, n) = parts BY SubSeqFull
  <2>4. ASSUME NEW i \in 0..n PROVE First(parts, i) \in Nat
    <3>1. SubSeq(parts, 1, i) \in Seq(Seq(Nat)) BY <1>0, SubSeqProperties
    <3> QED BY <3>1, BytesOf DEF First
  <2> QED BY <2>1, <2>2, <2>3, <2>4 DEF First
<1>4. k \in valid /\ \A i \in valid : i <= k
  <2>1. valid \in SUBSET (0..n) OBVIOUS
  <2>2. 0 \in valid
    <3>1. 0 \in 0..n BY <1>0
    <3>2. Rests[0] = gone BY <1>0, <1>1, <1>3, <3>1
    <3> QED BY <1>0, <3>1, <3>2
  <2> HIDE DEF valid
  <2> QED BY <1>0, <2>1, <2>2, MaxIs
<1>5. k \in 0..n /\ First(parts, k) <= gone /\ Rests[k] = gone - First(parts, k)
  <2>1. k \in 0..n /\ Rests[k] >= 0
    <3> HIDE DEF k
    <3> QED BY <1>4
  <2> HIDE DEF k
  <2> QED BY <1>0, <1>1, <1>3, <2>1
<1>6. \A i \in 0..n : i > k => gone < First(parts, i)
  <2> SUFFICES ASSUME NEW i \in 0..n, i > k PROVE gone < First(parts, i) OBVIOUS
  <2>1. ~(i <= k)
    <3> HIDE DEF k
    <3> QED BY <1>5
  <2>2. i \notin valid
    <3> HIDE DEF valid, k
    <3> QED BY <1>4, <2>1
  <2>3. ~(Rests[i] >= 0) BY <2>2
  <2> QED BY <1>0, <1>1, <1>3, <2>3
<1> HIDE DEF k, valid, rest
<1>7. CASE k = n
  <2>1. gone = total BY <1>0, <1>3, <1>5, <1>7
  <2>2. rest = <<>> BY <1>2, <1>7
  <2>3. <<>> \in Seq(Seq(Nat)) BY EmptySeq
  <2>4. SubSeq(Bytes(parts), gone + 1, total) = <<>>
    <3> HIDE DEF total
    <3> QED BY <1>0, <2>1, SubSeqEmpty
  <2>5. Bytes(<<>>) = <<>> BY FlattenNone DEF Bytes
  <2> QED BY <2>1, <2>2, <2>3, <2>4, <2>5 DEF rest
<1>8. CASE k # n
  <2> DEFINE before == SubSeq(parts, 1, k)
             p == parts[k + 1]
             after == SubSeq(parts, k + 2, n)
             c == gone - First(parts, k)
             cut == SubSeq(p, c + 1, Len(p))
             b == Bytes(before)  e == Bytes(after)
  <2>1. k + 1 \in 1..n /\ k + 1 > k /\ k \in Nat /\ k + 1 \in 0..n BY <1>0, <1>5, <1>8
  <2>2. p \in Seq(Nat) /\ before \in Seq(Seq(Nat)) /\ after \in Seq(Seq(Nat))
    <3>1. p \in Seq(Nat) BY <2>1
    <3>2. \A i \in 1..k : parts[i] \in Seq(Nat) BY <1>0, <2>1, ElementOfSeq
    <3>3. \A i \in (k+2)..n : parts[i] \in Seq(Nat) BY <1>0, <2>1, ElementOfSeq
    <3>4. before \in Seq(Seq(Nat)) BY <2>1, <3>2, SubSeqProperties
    <3>5. after \in Seq(Seq(Nat))
      <4>1. k + 2 \in Int /\ n \in Int BY <1>0, <2>1
      <4> HIDE DEF n
      <4> QED BY <3>3, <4>1, SubSeqProperties
    <3> QED BY <3>1, <3>4, <3>5
  <2>3. Append(before, p) \in Seq(Seq(Nat)) /\ SubSeq(parts, 1, k + 1) = Append(before, p)
    <3>1. SubSeq(parts, 1, k + 1) = SubSeq(parts, 1, (k + 1) - 1) \o <<p>>
      <4>1. k + 1 \in 1..Len(parts) /\ 1 \in 1..Len(parts) /\ k + 1 \in 1..Len(parts) BY <2>1
      <4> QED BY <4>1, <2>1, SubSeqRecursiveSecond
    <3>2. (k + 1) - 1 = k BY <2>1
    <3>3. before \o <<p>> = Append(before, p) BY <2>2, AppendIsConcat
    <3> QED BY <2>2, <3>1, <3>2, <3>3, AppendProperties
  <2>4. parts = Append(before, p) \o after
    <3>1. SubSeq(parts, 1, k + 1) \o SubSeq(parts, (k + 1) + 1, n) = SubSeq(parts, 1, n)
      <4>1. 1 \in 1..(Len(parts) + 1) /\ k + 1 \in (1-1)..Len(parts) /\ n \in (k+1)..Len(parts) BY <1>0, <2>1
      <4> HIDE DEF n
      <4> QED BY <4>1, ConcatAdjacentSubSeq
    <3>2. (k + 1) + 1 = k + 2 BY <2>1
    <3>3. SubSeq(parts, 1, n) = parts BY SubSeqFull
    <3> QED BY <2>3, <3>1, <3>2, <3>3
  <2>5. b \in Seq(Nat) /\ e \in Seq(Nat) /\ Len(b) = First(parts, k)
    <3> HIDE DEF before, after
    <3>1. b \in Seq(Nat) /\ e \in Seq(Nat) BY <2>2, BytesOf
    <3> QED BY <3>1 DEF First, before
  <2>6. Bytes(Append(before, p)) = b \o p
    <3> HIDE DEF before, p
    <3> QED BY <2>2, FlattenOneMore DEF Bytes
  <2>7. Bytes(parts) = (b \o p) \o e
    <3> HIDE DEF before, p, after
    <3>1. FlattenSeq(Append(before, p) \o after) = FlattenSeq(Append(before, p)) \o FlattenSeq(after)
      BY <2>2, <2>3, FlattenConcat
    <3> QED BY <2>4, <2>6, <3>1 DEF Bytes
  <2>8. First(parts, k + 1) = Len(b) + Len(p)
    <3> HIDE DEF before, p
    <3>1. First(parts, k + 1) = Len(b \o p) BY <2>3, <2>6 DEF First
    <3> QED BY <2>2, <2>5, <3>1, ConcatProperties
  <2>9. c \in 0..Len(p) /\ c < Len(p) /\ (Len(b) + c) = gone
    <3>1. gone < First(parts, k + 1) BY <1>6, <2>1
    <3>2. Len(p) \in Nat
      <4> HIDE DEF p
      <4> QED BY <2>2, LenProperties
    <3>3. First(parts, k) \in Nat BY <1>3, <1>5
    <3> HIDE DEF p, b
    <3> QED BY <1>0, <1>5, <2>5, <2>8, <3>1, <3>2, <3>3
  <2>10. SubSeq(Bytes(parts), gone + 1, total) = cut \o e
    <3> HIDE DEF b, p, e, c
    <3>1. SubSeq((b \o p) \o e, Len(b) + c + 1, Len((b \o p) \o e)) = SubSeq(p, c + 1, Len(p)) \o e
      <4>1. b \in Seq(Nat) /\ p \in Seq(Nat) /\ e \in Seq(Nat) /\ c \in 0..Len(p) BY <2>2, <2>5, <2>9
      <4> QED BY <4>1, CutInside
    <3>2. (Len(b) + c) + 1 = gone + 1 BY <2>9
    <3> QED BY <2>7, <3>1, <3>2
  <2>11. cut \in Seq(Nat)
    <3> HIDE DEF p, c
    <3>1. \A i \in (c+1)..Len(p) : p[i] \in Nat
      <4>1. \A i \in (c+1)..Len(p) : i \in 1..Len(p) BY <2>9, <2>2, LenProperties
      <4> QED BY <2>2, <4>1
    <3>2. c + 1 \in Int /\ Len(p) \in Int BY <2>2, <2>9, LenProperties
    <3> QED BY <3>1, <3>2, SubSeqProperties
  <2>12. rest = <<cut>> \o after BY <1>2, <1>5, <1>8
  <2>13. /\ rest \in Seq(Seq(Nat)) /\ rest # <<>> /\ Bytes(rest) = cut \o e
    <3> HIDE DEF cut, after, e
    <3>1. <<cut>> \in Seq(Seq(Nat)) /\ Len(<<cut>>) = 1 BY <2>11
    <3>2. rest \in Seq(Seq(Nat)) /\ Len(rest) = 1 + Len(after) BY <2>2, <2>12, <3>1, ConcatProperties
    <3>3. Len(after) \in Nat BY <2>2, LenProperties
    <3>4. rest # <<>> BY <3>2, <3>3, EmptySeq
    <3>5. FlattenSeq(<<cut>>) = cut BY <2>11, FlattenOne
    <3>6. FlattenSeq(<<cut>> \o after) = FlattenSeq(<<cut>>) \o FlattenSeq(after)
      BY <2>2, <3>1, FlattenConcat
    <3> QED BY <2>12, <3>2, <3>4, <3>5, <3>6 DEF Bytes, e
  <2>14. gone # total
    <3>1. Len(Bytes(parts)) = (Len(b) + Len(p)) + Len(e) /\ Len(e) \in Nat /\ Len(b) \in Nat /\ Len(p) \in Nat
      <4> HIDE DEF b, p, e
      <4>1. b \o p \in Seq(Nat) /\ Len(b \o p) = Len(b) + Len(p) BY <2>2, <2>5, ConcatProperties
      <4>2. Len(e) \in Nat /\ Len(b) \in Nat /\ Len(p) \in Nat BY <2>2, <2>5, LenProperties
      <4>3. Len((b \o p) \o e) = Len(b \o p) + Len(e) BY <2>5, <4>1, ConcatProperties
      <4> QED BY <2>7, <4>1, <4>2, <4>3
    <3> HIDE DEF b, p, e, c
    <3>2. c \in Nat /\ c < Len(p) /\ Len(b) + c = gone BY <2>9
    <3> QED BY <3>1, <3>2
  <2> HIDE DEF cut, e
  <2> QED BY <2>10, <2>13, <2>14 DEF rest
<1> QED BY <1>7, <1>8

\* The bytes of a packet are its offsets.
Offsets(s) == \A k \in DOMAIN s : s[k] = k

\* What a send still has to offer, the gathers behind this one included.
ToOffer(s) == Bytes(s.parts) \o Bytes(FlattenSeq(s.later))

\* While a send goes on, what has gone and what is still to be offered are the
\* packet, and something is still to be offered.
OfferInv ==
  /\ Shapes
  /\ SentAsMade
  /\ phase = "Sending" /\ sending.outcome = "None" =>
       /\ sending.out \in Seq(Nat) /\ sending.parts \in Seq(Seq(Nat))
       /\ sending.later \in Seq(Seq(Seq(Nat)))
       /\ Bytes(sending.parts) # <<>>
       /\ \A i \in DOMAIN sending.later : Bytes(sending.later[i]) # <<>>
       /\ Offsets(sending.out \o ToOffer(sending))
       /\ Len(sending.out \o ToOffer(sending)) = sending.size

\* At first nothing is sent.
LEMMA InitOffer == Init => OfferInv
<1> SUFFICES ASSUME Init PROVE OfferInv OBVIOUS
<1>1. Shapes BY InitAgreed DEF AgreedInv
<1>2. sending.out = <<>> /\ sending.outcome = "None" /\ phase = "Idle" BY DEF Init, NoSending
<1>3. DOMAIN sending.out = {} BY <1>2
<1> QED BY <1>1, <1>2, <1>3 DEF OfferInv, SentAsMade

\* The first gather and the others together are all of them.
LEMMA GathersAre ==
  ASSUME NEW gathers \in Seq(Seq(Seq(Nat))), gathers # <<>>
  PROVE  /\ Head(gathers) \in Seq(Seq(Nat)) /\ Tail(gathers) \in Seq(Seq(Seq(Nat)))
         /\ Bytes(FlattenSeq(gathers)) = Bytes(Head(gathers)) \o Bytes(FlattenSeq(Tail(gathers)))
         /\ Bytes(Head(gathers)) \in Seq(Nat) /\ Bytes(FlattenSeq(Tail(gathers))) \in Seq(Nat)
         /\ \A i \in DOMAIN Tail(gathers) : i + 1 \in DOMAIN gathers /\ Tail(gathers)[i] = gathers[i + 1]
<1> DEFINE h == Head(gathers)  t == Tail(gathers)  fh == FlattenSeq(<<h>>)  ft == FlattenSeq(t)
<1>1. /\ h \in Seq(Seq(Nat)) /\ t \in Seq(Seq(Seq(Nat))) /\ Len(t) = Len(gathers) - 1
      /\ \A i \in 1..Len(t) : t[i] = gathers[i + 1]
  BY HeadTailProperties
<1>2. gathers = <<h>> \o t
  <2>1. Len(gathers) \in Nat /\ Len(gathers) # 0 BY LenProperties, EmptySeq
  <2>2. 1 \in 1..Len(gathers) /\ Len(gathers) \in 1..Len(gathers) BY <2>1
  <2>3. SubSeq(gathers, 1, Len(gathers)) = <<gathers[1]>> \o SubSeq(gathers, 1 + 1, Len(gathers))
    BY <2>2, SubSeqRecursiveFirst
  <2>4. t = SubSeq(gathers, 2, Len(gathers)) BY TailIsSubSeq
  <2>5. gathers = SubSeq(gathers, 1, Len(gathers)) BY SubSeqFull
  <2> QED BY <2>3, <2>4, <2>5
<1>3. <<h>> \in Seq(Seq(Seq(Nat))) BY <1>1
<1> HIDE DEF h, t
<1>4. FlattenSeq(gathers) = fh \o ft BY <1>1, <1>2, <1>3, FlattenConcat
<1>5. fh = h BY <1>1, FlattenOne
<1>6. ft \in Seq(Seq(Nat))
  <2>1. <<>> \in Seq(Seq(Nat)) BY EmptySeq
  <2> QED BY <1>1, <2>1, FlattenOneMore
<1> HIDE DEF fh, ft
<1>7. Bytes(h \o ft) = Bytes(h) \o Bytes(ft) BY <1>1, <1>6, FlattenConcat DEF Bytes
<1>8. Bytes(h) \in Seq(Nat) /\ Bytes(ft) \in Seq(Nat) BY <1>1, <1>6, BytesOf
<1>9. DOMAIN t = 1..Len(t) /\ DOMAIN gathers = 1..Len(gathers) BY <1>1, LenProperties
<1>10. \A i \in 1..Len(t) : i + 1 \in 1..Len(gathers) BY <1>1, LenProperties
<1> QED BY <1>1, <1>4, <1>5, <1>7, <1>8, <1>9, <1>10 DEF h, t, ft

\* A send begins with all of its packet to offer.
LEMMA BeginOffer ==
  ASSUME NEW what, NEW sender, NEW gathers, Made(gathers), Begin(what, sender, gathers), Shapes'
  PROVE  OfferInv'
<1> DEFINE h == Head(gathers)  t == Tail(gathers)  all == Bytes(FlattenSeq(gathers))
<1>1. /\ sending'.parts = h /\ sending'.later = t /\ sending'.out = <<>>
      /\ sending'.size = Len(all) /\ sending'.outcome = "None"
  BY DEF Begin
<1>2. /\ gathers \in Seq(Seq(Seq(Nat))) /\ gathers # <<>>
      /\ \A i \in DOMAIN gathers : Bytes(gathers[i]) # <<>>
      /\ \A k \in DOMAIN all : all[k] = k
  BY DEF Made
<1>3. /\ h \in Seq(Seq(Nat)) /\ t \in Seq(Seq(Seq(Nat)))
      /\ all = Bytes(h) \o Bytes(FlattenSeq(t))
      /\ Bytes(h) \in Seq(Nat) /\ Bytes(FlattenSeq(t)) \in Seq(Nat)
      /\ \A i \in DOMAIN t : i + 1 \in DOMAIN gathers /\ t[i] = gathers[i + 1]
  BY <1>2, GathersAre
<1>4. Bytes(h) # <<>>
  <2>1. h = gathers[1] /\ 1 \in DOMAIN gathers
    <3>1. DOMAIN gathers = 1..Len(gathers) /\ Len(gathers) \in Nat /\ Len(gathers) # 0
      BY <1>2, LenProperties, EmptySeq
    <3> QED BY <1>2, <3>1
  <2> QED BY <1>2, <2>1
<1> HIDE DEF h, t, all
<1>5. \A i \in DOMAIN t : Bytes(t[i]) # <<>> BY <1>2, <1>3
<1>6. ToOffer(sending') = all BY <1>1, <1>3 DEF ToOffer
<1>7. all \in Seq(Nat) BY <1>3, ConcatProperties
<1>8. <<>> \o all = all /\ <<>> \in Seq(Nat) /\ DOMAIN <<>> = {} BY <1>7, ConcatEmptySeq, EmptySeq
<1>9. Offsets(sending'.out \o ToOffer(sending')) /\ Len(sending'.out \o ToOffer(sending')) = sending'.size
  BY <1>1, <1>2, <1>6, <1>8 DEF Offsets
<1>10. SentAsMade' BY <1>1, <1>8 DEF SentAsMade
<1> QED BY <1>1, <1>3, <1>4, <1>5, <1>8, <1>9, <1>10 DEF OfferInv

\* Concatenation of bytes is associative.
LEMMA BytesAssociate ==
  ASSUME NEW x \in Seq(Nat), NEW y \in Seq(Nat), NEW z \in Seq(Nat)
  PROVE  (x \o y) \o z = x \o (y \o z)
<1> DEFINE S == Nat
<1>1. x \in Seq(S) /\ y \in Seq(S) /\ z \in Seq(S) OBVIOUS
<1> HIDE DEF S
<1> QED BY <1>1, ConcatAssociative

\* What has gone of a packet is its front, and short of it while some is left.
LEMMA OffsetsFront ==
  ASSUME NEW x \in Seq(Nat), NEW y \in Seq(Nat), Offsets(x \o y)
  PROVE  /\ Offsets(x)
         /\ y # <<>> => Len(x) # Len(x \o y)
<1>1. /\ x \o y \in Seq(Nat) /\ Len(x \o y) = Len(x) + Len(y) /\ Len(x) \in Nat /\ Len(y) \in Nat
      /\ \A i \in 1..(Len(x) + Len(y)) : (x \o y)[i] = IF i <= Len(x) THEN x[i] ELSE y[i - Len(x)]
  BY ConcatProperties, LenProperties
<1>2. DOMAIN (x \o y) = 1..(Len(x) + Len(y)) /\ DOMAIN x = 1..Len(x) BY <1>1, LenProperties
<1> DEFINE a == Len(x)  b == Len(y)
<1>3. \A k \in 1..a : k \in 1..(a + b) /\ k <= a
  <2> HIDE DEF a, b
  <2>1. a \in Nat /\ b \in Nat BY <1>1 DEF a, b
  <2> QED BY <2>1
<1>4. Offsets(x) BY <1>1, <1>2, <1>3 DEF Offsets
<1>5. y # <<>> => Len(y) # 0 BY EmptySeq
<1> QED BY <1>1, <1>4, <1>5

\* A turn: what the transport took has gone, and the rest is offered.
LEMMA TurnOffer == ASSUME OfferInv, NEW d \in 0..1, SendTurn(d) PROVE OfferInv'
<1> DEFINE o == sending.out  P == Bytes(sending.parts)  L == Bytes(FlattenSeq(sending.later))
<1>1. /\ phase = "Sending" /\ phase' = phase /\ sending.outcome = "None" /\ Shapes
      /\ keepAlive' = keepAlive
  BY DEF SendTurn, OfferInv
<1>2. /\ o \in Seq(Nat) /\ sending.parts \in Seq(Seq(Nat))
      /\ sending.later \in Seq(Seq(Seq(Nat))) /\ P # <<>>
      /\ \A i \in DOMAIN sending.later : Bytes(sending.later[i]) # <<>>
      /\ Offsets(o \o (P \o L)) /\ Len(o \o (P \o L)) = sending.size
  BY <1>1 DEF OfferInv, ToOffer
<1>3. PICK some \in 0..Len(P), t \in {Later(d)} :
        LET rest == Advance(sending.parts, some)
            out == o \o SubSeq(P, 1, some)
        IN  \/ /\ rest = <<>> /\ sending.later = <<>>
               /\ sending' = [sending EXCEPT !.parts = <<>>, !.out = out, !.outcome = "Sent"]
            \/ /\ rest = <<>> /\ sending.later # <<>>
               /\ sending' = [sending EXCEPT !.parts = Head(sending.later),
                                             !.later = Tail(sending.later), !.out = out]
            \/ /\ rest # <<>>
               /\ sending' = [sending EXCEPT !.parts = rest, !.out = out, !.outcome =
                     IF GivesUp(sending.sender, Running(t), SendTimeout) THEN "TimedOut" ELSE "None"]
  BY Zenon DEF SendTurn
<1> DEFINE rest == Advance(sending.parts, some)
           gone == SubSeq(P, 1, some)
           left == SubSeq(P, some + 1, Len(P))
           out == o \o gone
<1>4. rest \in Seq(Seq(Nat)) /\ Bytes(rest) = left /\ (rest = <<>> <=> some = Len(P))
  BY <1>2, AdvanceIs
<1>5. P \in Seq(Nat) /\ Len(P) \in Nat BY <1>2, BytesOf
<1>6. L \in Seq(Nat)
  <2>1. FlattenSeq(sending.later) \in Seq(Seq(Nat))
    <3>1. <<>> \in Seq(Seq(Nat)) BY EmptySeq
    <3> QED BY <1>2, <3>1, FlattenOneMore
  <2> QED BY <2>1, BytesOf
<1>7. DOMAIN sending = {"what", "sender", "parts", "later", "out", "size", "outcome"} BY <1>1 DEF Shapes
<1>8. Shapes' BY <1>1, <1>3 DEF Shapes
<1> HIDE DEF P, L, rest, o
<1>9. gone \in Seq(Nat) /\ left \in Seq(Nat) /\ P = gone \o left
  <2> DEFINE n == Len(P)
  <2>1. n \in Nat /\ some \in 0..n BY <1>5
  <2>2. \A i \in 1..n : P[i] \in Nat BY <1>5, ElementOfSeq
  <2> HIDE DEF n
  <2>3. \A i \in 1..some : P[i] \in Nat BY <2>1, <2>2
  <2>4. \A i \in (some+1)..n : P[i] \in Nat BY <2>1, <2>2
  <2>5. some \in Int /\ some + 1 \in Int /\ n \in Int BY <2>1
  <2>6. gone \in Seq(Nat) BY <2>3, <2>5, SubSeqProperties
  <2>7. left \in Seq(Nat) BY <2>4, <2>5, SubSeqProperties DEF n
  <2>8. SubSeq(P, 1, some) \o SubSeq(P, some + 1, n) = SubSeq(P, 1, n)
    <3>1. 1 \in 1..(n + 1) /\ some \in (1-1)..n /\ n \in some..n BY <2>1
    <3> QED BY <1>5, <3>1, ConcatAdjacentSubSeq DEF n
  <2>9. SubSeq(P, 1, n) = P BY <1>5, SubSeqFull DEF n
  <2> QED BY <2>6, <2>7, <2>8, <2>9 DEF n
<1> HIDE DEF gone, left, out
<1>10. out \in Seq(Nat) BY <1>2, <1>9, ConcatProperties DEF out
<1>11. o \o (P \o L) = out \o (left \o L)
  <2>b. L \in Seq(Nat) /\ gone \in Seq(Nat) /\ left \in Seq(Nat) /\ o \in Seq(Nat)
    BY <1>2, <1>6, <1>9
  <2>1. P \o L = gone \o (left \o L) BY <1>9, <2>b, BytesAssociate
  <2>2. left \o L \in Seq(Nat) BY <1>6, <1>9, ConcatProperties
  <2>3. o \o (gone \o (left \o L)) = (o \o gone) \o (left \o L) BY <2>2, <2>b, BytesAssociate
  <2> QED BY <2>1, <2>3 DEF out
<1>12. left \o L \in Seq(Nat) BY <1>6, <1>9, ConcatProperties
<1>13. Offsets(out) /\ (left \o L # <<>> => Len(out) # sending.size)
  BY <1>2, <1>10, <1>11, <1>12, OffsetsFront
<1>14. CASE rest = <<>>
  <2>1. left = <<>>
    <3>1. Bytes(<<>>) = <<>> BY FlattenNone DEF Bytes
    <3> QED BY <1>4, <1>14, <3>1
  <2>2. left \o L = L BY <1>6, <2>1, ConcatEmptySeq
  <2>3. CASE sending.later = <<>>
    <3>1. sending' = [sending EXCEPT !.parts = <<>>, !.out = out, !.outcome = "Sent"]
      BY <1>3, <1>14, <2>3 DEF rest, out, gone
    <3>2. L = <<>>
      <4>1. FlattenSeq(<<>>) = <<>> /\ Bytes(<<>>) = <<>> BY FlattenNone DEF Bytes
      <4> QED BY <2>3, <4>1 DEF L
    <3>3. out \o L = out BY <1>10, <3>2, ConcatEmptySeq
    <3>4. sending'.out = out /\ sending'.outcome = "Sent" /\ sending'.size = sending.size
      BY <1>7, <3>1
    <3>5. Len(sending'.out) = sending'.size BY <1>2, <1>11, <2>2, <3>3, <3>4
    <3>6. SentAsMade' BY <1>13, <3>4, <3>5 DEF SentAsMade, Offsets
    <3> QED BY <1>8, <3>4, <3>6 DEF OfferInv
  <2>4. CASE sending.later # <<>>
    <3> DEFINE h == Head(sending.later)  t2 == Tail(sending.later)
    <3>1. sending' = [sending EXCEPT !.parts = h, !.later = t2, !.out = out]
      BY <1>3, <1>14, <2>4 DEF rest, out, gone
    <3>2. /\ sending'.parts = h /\ sending'.later = t2 /\ sending'.out = out
          /\ sending'.outcome = "None" /\ sending'.size = sending.size
      BY <1>1, <1>7, <3>1
    <3>3. /\ h \in Seq(Seq(Nat)) /\ t2 \in Seq(Seq(Seq(Nat)))
          /\ L = Bytes(h) \o Bytes(FlattenSeq(t2))
          /\ \A i \in DOMAIN t2 : i + 1 \in DOMAIN sending.later /\ t2[i] = sending.later[i + 1]
      BY <1>2, <2>4, GathersAre DEF L
    <3>4. Bytes(h) # <<>>
      <4>1. h = sending.later[1] /\ 1 \in DOMAIN sending.later
        <5>1. /\ DOMAIN sending.later = 1..Len(sending.later)
              /\ Len(sending.later) \in Nat /\ Len(sending.later) # 0
          BY <1>2, <2>4, LenProperties, EmptySeq
        <5> QED BY <1>2, <5>1
      <4> QED BY <1>2, <4>1
    <3> HIDE DEF h, t2
    <3>5. \A i \in DOMAIN t2 : Bytes(t2[i]) # <<>> BY <1>2, <3>3
    <3>6. ToOffer(sending') = L BY <3>2, <3>3 DEF ToOffer
    <3>7. Offsets(sending'.out \o ToOffer(sending')) /\ Len(sending'.out \o ToOffer(sending')) = sending'.size
      BY <1>2, <1>11, <2>2, <3>2, <3>6
    <3>8. SentAsMade' BY <1>13, <3>2 DEF SentAsMade, Offsets
    <3> QED BY <1>8, <1>10, <3>2, <3>3, <3>4, <3>5, <3>7, <3>8 DEF OfferInv
  <2> QED BY <2>3, <2>4
<1>15. CASE rest # <<>>
  <2> DEFINE outcome == IF GivesUp(sending.sender, Running(t), SendTimeout) THEN "TimedOut" ELSE "None"
  <2>1. sending' = [sending EXCEPT !.parts = rest, !.out = out, !.outcome = outcome]
    BY <1>3, <1>15 DEF rest, out, gone
  <2>2. outcome \in {"TimedOut", "None"} OBVIOUS
  <2> HIDE DEF outcome
  <2>3. /\ sending'.parts = rest /\ sending'.later = sending.later /\ sending'.out = out
        /\ sending'.outcome = outcome /\ sending'.size = sending.size
    BY <1>7, <2>1
  <2>4. left # <<>>
    <3>1. some # Len(P) BY <1>4, <1>15
    <3> DEFINE n == Len(P)
    <3>2. n \in Nat /\ some \in 0..n /\ some # n BY <1>5, <3>1
    <3>3. \A i \in 1..n : P[i] \in Nat BY <1>5, ElementOfSeq
    <3> HIDE DEF n
    <3>4. \A i \in (some+1)..n : P[i] \in Nat BY <3>2, <3>3
    <3>5. some + 1 \in Int /\ n \in Int /\ some + 1 <= n BY <3>2
    <3>6. Len(left) = n - (some + 1) + 1 BY <3>4, <3>5, SubSeqProperties DEF left, n
    <3>7. Len(left) # 0 BY <3>2, <3>6
    <3> QED BY <3>7, EmptySeq
  <2>5. left \o L # <<>>
    <3>1. Len(left \o L) = Len(left) + Len(L) /\ Len(left) \in Nat /\ Len(L) \in Nat /\ Len(left) # 0
      BY <1>6, <1>9, <2>4, ConcatProperties, LenProperties, EmptySeq
    <3> QED BY <3>1, EmptySeq
  <2>6. ToOffer(sending') = left \o L BY <1>4, <2>3 DEF ToOffer, L
  <2>7. Offsets(sending'.out \o ToOffer(sending')) /\ Len(sending'.out \o ToOffer(sending')) = sending'.size
    BY <1>2, <1>11, <2>3, <2>6
  <2>8. Len(sending'.out) # sending'.size BY <1>13, <2>3, <2>5
  <2>9. SentAsMade' BY <1>13, <2>2, <2>3, <2>8 DEF SentAsMade, Offsets
  <2> QED BY <1>2, <1>4, <1>8, <1>10, <2>3, <2>4, <2>7, <2>9 DEF OfferInv
<1> QED BY <1>14, <1>15

\* A transport that breaks has not had everything.
LEMMA BreakOffer == ASSUME OfferInv, SendBreaks PROVE OfferInv'
<1> DEFINE rest == ToOffer(sending)
<1>1. /\ phase = "Sending" /\ sending.outcome = "None" /\ Shapes /\ keepAlive' = keepAlive
      /\ sending' = [sending EXCEPT !.outcome = "Broken"]
  BY DEF SendBreaks, OfferInv
<1>2. /\ sending.out \in Seq(Nat) /\ sending.parts \in Seq(Seq(Nat))
      /\ sending.later \in Seq(Seq(Seq(Nat))) /\ Bytes(sending.parts) # <<>>
      /\ Offsets(sending.out \o rest) /\ Len(sending.out \o rest) = sending.size
  BY <1>1 DEF OfferInv
<1>3. /\ sending'.out = sending.out /\ sending'.outcome = "Broken" /\ sending'.size = sending.size
      /\ Shapes'
  BY <1>1 DEF Shapes
<1>4. rest \in Seq(Nat) /\ rest # <<>>
  <2>1. FlattenSeq(sending.later) \in Seq(Seq(Nat))
    <3>1. <<>> \in Seq(Seq(Nat)) BY EmptySeq
    <3> QED BY <1>2, <3>1, FlattenOneMore
  <2> DEFINE P == Bytes(sending.parts)  L == Bytes(FlattenSeq(sending.later))
  <2>2. P \in Seq(Nat) /\ L \in Seq(Nat) /\ P # <<>> BY <1>2, <2>1, BytesOf
  <2>3. rest = P \o L BY DEF ToOffer
  <2> HIDE DEF P, L, rest
  <2>4. rest \in Seq(Nat) /\ Len(rest) = Len(P) + Len(L) BY <2>2, <2>3, ConcatProperties
  <2>5. Len(P) \in Nat /\ Len(L) \in Nat /\ Len(P) # 0 BY <2>2, LenProperties, EmptySeq
  <2> QED BY <2>4, <2>5, EmptySeq
<1> HIDE DEF rest
<1>5. Offsets(sending.out) /\ Len(sending.out) # sending.size BY <1>2, <1>4, OffsetsFront
<1>6. SentAsMade' BY <1>3, <1>5 DEF SentAsMade, Offsets
<1> QED BY <1>3, <1>6 DEF OfferInv

\* Whatever sends, begins with a packet made of gathers that have bytes; nothing
\* else touches a send.
LEMMA NextOffer == ASSUME AgreedInv, OfferInv, [Next]_vars PROVE OfferInv'
<1>0. Shapes' BY NextAgreed DEF AgreedInv
<1>1. ASSUME sending' = sending, phase' # "Sending" \/ phase' = phase PROVE OfferInv'
  BY <1>0, <1>1 DEF OfferInv, SentAsMade
<1>2. ASSUME NEW what, NEW sender, NEW gathers, Made(gathers), Begin(what, sender, gathers)
      PROVE OfferInv'
  BY <1>0, <1>2, BeginOffer
<1>3. ASSUME NEW d \in 0..1, SendTurn(d) PROVE OfferInv' BY <1>3, TurnOffer
<1>4. ASSUME NEW d \in 0..1, ReadConnAckBody(d) PROVE OfferInv'
  BY <1>1, <1>4 DEF ReadConnAckBody, ConnectFails
<1>5. CASE SendReturns
  <2>1. sending'.out = <<>> /\ sending'.outcome = "None" /\ DOMAIN sending'.out = {}
    BY <1>5 DEF SendReturns, NoSending
  <2>2. phase' # "Sending" BY <1>5 DEF SendReturns, AfterSent
  <2> QED BY <1>0, <2>1, <2>2 DEF OfferInv, SentAsMade
<1>6. CASE ReadConnAckHeader BY <1>1, <1>6 DEF ReadConnAckHeader, ConnectFails
<1>7. CASE ConnAckRead BY <1>1, <1>7 DEF ConnAckRead
<1>8. ASSUME NEW n \in 0..Len(down), Read(n) PROVE OfferInv' BY <1>1, <1>8 DEF Read, Goes
<1>9. CASE LooksAtKeepAlive
  <2>1. Made(<<Ping>>) BY WireAssumption
  <2> QED BY <1>1, <1>2, <1>9, <2>1 DEF LooksAtKeepAlive, Goes, Returns
<1>10. CASE HandleFront
  <2>1. Made(<<Ack>>) BY WireAssumption
  <2> QED BY <1>1, <1>2, <1>10, <2>1 DEF HandleFront, Goes, Returns
<1>11. CASE Consume BY <1>1, <1>11 DEF Consume, Goes, Returns
<1>12. CASE Connect
  <2>1. Made(<<Connection>>) BY WireAssumption
  <2> QED BY <1>2, <1>12, <2>1 DEF Connect
<1>13. CASE Disconnect
  <2>1. Made(<<Connection>>) BY WireAssumption
  <2> QED BY <1>2, <1>13, <2>1 DEF Disconnect
<1>14. CASE Send
  <2>1. \A s \in Sendings : Made(s.gathers) BY WireAssumption
  <2> QED BY <1>2, <1>14, <2>1 DEF Send
<1>15. CASE SendBreaks BY <1>15, BreakOffer
<1>16. CASE ReadConnAckBreaks BY <1>1, <1>16 DEF ReadConnAckBreaks, ConnectFails
<1>17. CASE ReadBreaks BY <1>1, <1>17 DEF ReadBreaks, Returns
<1>18. CASE BrokerAccepts BY <1>1, <1>18 DEF BrokerAccepts, Puts
<1>19. CASE BrokerSends BY <1>1, <1>19 DEF BrokerSends, Puts
<1>20. CASE UNCHANGED vars BY <1>1, <1>20 DEF vars
<1> QED BY <1>3, <1>4, <1>5, <1>6, <1>7, <1>8, <1>9, <1>10, <1>11, <1>12,
           <1>13, <1>14, <1>15, <1>16, <1>17, <1>18, <1>19, <1>20 DEF Next, Program

\* The transport gets a prefix of each packet, no byte twice and none left out,
\* wherever it cuts the parts; and all of what is reported sent, and only of that
\* (client.rs 720-860, 1310-1535).
THEOREM SentIsAsMade == Spec => []SentAsMade
<1>1. AgreedInv /\ OfferInv /\ [Next]_vars => AgreedInv' /\ OfferInv' BY NextAgreed, NextOffer
<1>2. OfferInv => SentAsMade BY DEF OfferInv
<1> QED BY <1>1, <1>2, InitAgreed, InitOffer, PTL DEF Spec
=============================================================================
