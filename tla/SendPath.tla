----------------------------- MODULE SendPath ------------------------------
(***************************************************************************)
(* Pushing a packet onto a transport that takes what it likes: send_buffer *)
(* and send_vectors (client.rs 720-860), and the gathers a SUBSCRIBE and   *)
(* an UNSUBSCRIBE are cut into (client.rs 1310-1535).  A packet is a       *)
(* sequence of parts, a part a sequence of bytes.                          *)
(***************************************************************************)
EXTENDS Integers, Sequences, FiniteSets, SequencesExt

\* Slip: a subtraction guarded "for safety".
Slip_ElapsedMs(later, start, wrap) == IF later > start THEN later - start ELSE 0

\* elapsed_ms, unsigned.
ElapsedMs(later, start, wrap) == (later - start) % wrap

Bytes(parts) == FlattenSeq(parts)

\* Slip: what is left of a part that was cut is offered whole.
Slip_Advance(parts, taken) ==
  LET After[k \in 0..Len(parts)] == IF k = 0 THEN taken ELSE After[k - 1] - Len(parts[k])
  IN  SubSeq(parts, Max({i \in 0..Len(parts) : After[i] >= 0}) + 1, Len(parts))

\* The parts still to offer once `taken` bytes have gone: every finished part
\* is stepped over, and the one that was cut starts inside.
Advance(parts, taken) ==
  LET After[k \in 0..Len(parts)] == IF k = 0 THEN taken ELSE After[k - 1] - Len(parts[k])
      k == Max({i \in 0..Len(parts) : After[i] >= 0})
  IN  IF k = Len(parts) THEN <<>>
      ELSE <<SubSeq(parts[k + 1], After[k] + 1, Len(parts[k + 1]))>>
           \o SubSeq(parts, k + 2, Len(parts))

\* Slip: the vector sender stops a turn early, as the other one does.
Slip_GivesUp(sender, elapsed, timeout) == elapsed >= timeout

\* The two senders compare differently.
GivesUp(sender, elapsed, timeout) ==
  IF sender = "Buffer" THEN elapsed >= timeout ELSE elapsed > timeout

---------------------------------------------------------------------------
(* The gathers of a SUBSCRIBE or an UNSUBSCRIBE. *)

MaxVectors == 4

\* Slip: the room left after the header is one too large.
Slip_Fits(used, perTopic) == used <= MaxVectors - perTopic + 1

Fits(used, perTopic) == used <= MaxVectors - perTopic

\* send_list's loop.  each[i] is what topic i adds, at most perTopic vectors;
\* the header's vectors are carried into the first gather, whether or not a
\* topic still fits behind them.
Gathers(carried, each, perTopic) ==
  LET n == Len(each)
      Taken[at \in 0..n, used \in 0..(MaxVectors + perTopic)] ==
        IF at < n /\ Fits(used, perTopic) THEN Taken[at + 1, used + Len(each[at + 1])] ELSE at
      After[at \in 0..n] ==
        IF at = n THEN <<>>
        ELSE <<FlattenSeq(SubSeq(each, at + 1, Taken[at, 0]))>> \o After[Taken[at, 0]]
      first == Taken[0, Len(carried)]
  IN  <<carried \o FlattenSeq(SubSeq(each, 1, first))>> \o After[first]
=============================================================================
