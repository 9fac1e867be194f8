----------------------------- MODULE EventStream -----------------------------
(***************************************************************************)
(* A session's subscription (subscribe.rs, event.rs): the answer to a      *)
(* Subscribe, the records replayed from it and on into live delivery, and  *)
(* the client's mark.  The comms processor between them may drop, overtake *)
(* and repeat what it carries.  Opening what arrives, which refuses a copy *)
(* on its own account, is SealedChannel's: here the mark stands alone.     *)
(***************************************************************************)
EXTENDS LogRing, Sequences, SequencesExt

CONSTANTS
  MaxSubs,     \* bound: subscriptions answered
  MaxFaults    \* bound: messages dropped, overtaken or repeated

VARIABLES
  sub,         \* external: the next position to send, or NoSub
  wire,        \* answers and events under way, oldest first
  mark,        \* the client's EventMark, or NoMark
  ack,         \* history: the answer the mark was last set from
  taken,       \* history: the events accepted since, oldest first
  subs, faults \* what the bounds count

vars == <<log, written, sub, wire, mark, ack, taken, subs, faults>>

NoSub  == 0
NoMark == 0

\* An answer, with the first position the client asked for beside it.
Acks   == [accepted : Seqs, gap : BOOLEAN, wanted : Seqs]
NoAck  == [accepted |-> 0, gap |-> FALSE, wanted |-> 0]
Events == [seq : Seqs]

Init ==
  /\ RingInit
  /\ sub = NoSub
  /\ wire = <<>>
  /\ mark = NoMark
  /\ ack = NoAck
  /\ taken = <<>>
  /\ subs = 0 /\ faults = 0
-----------------------------------------------------------------------------
(* Seeded faults.                                                          *)

AnswerGapless(from) ==
  [accepted |-> IF from = 0 THEN Newest + 1
                ELSE IF from < Oldest THEN Oldest ELSE from,
   gap      |-> FALSE,
   wanted   |-> IF from = 0 THEN Newest + 1 ELSE from]

AcceptToSeq(seq) ==
  IF seq < mark \/ seq = LastSeq THEN UNCHANGED <<mark, taken>>
  ELSE mark' = seq /\ taken' = Append(taken, seq)
-----------------------------------------------------------------------------

(* SubscribeAck::answer.  From 0 asks for nothing that exists already; any *)
(* other position is clamped to what the ring still holds.                 *)
Answer(from) ==
  [accepted |-> IF from = 0 THEN Newest + 1
                ELSE IF from < Oldest THEN Oldest ELSE from,
   gap      |-> from # 0 /\ from < Oldest,
   wanted   |-> IF from = 0 THEN Newest + 1 ELSE from]

(* A Subscribe is answered and replaces the subscription before it.  A log *)
(* at the ceiling has no position for live delivery to start from.         *)
Subscribe(from) ==
  /\ subs < MaxSubs
  /\ ~(from = 0 /\ Newest = LastSeq)
  /\ wire' = Append(wire, Answer(from))
  /\ sub' = Answer(from).accepted
  /\ subs' = subs + 1
  /\ UNCHANGED <<log, written, mark, ack, taken, faults>>

(* The controller sends the next record of the subscription, from the ring *)
(* and on into live delivery with no window between (P-094, external).     *)
Send ==
  LET due == {seq \in log : sub # NoSub /\ seq >= sub}
  IN
  /\ due # {}
  /\ wire' = Append(wire, [seq |-> Min(due)])
  /\ sub' = Min(due) + 1
  /\ UNCHANGED <<log, written, mark, ack, taken, subs, faults>>

(* A record is written.  One overwritten before the session could take it  *)
(* closes the session, and the client starts over (P-098).                 *)
Write(seq) ==
  /\ Record(seq)
  /\ IF sub # NoSub /\ \E lost \in Overwritten : lost >= sub
     THEN /\ sub' = NoSub /\ wire' = <<>> /\ mark' = NoMark
          /\ ack' = NoAck /\ taken' = <<>>
     ELSE UNCHANGED <<sub, wire, mark, ack, taken>>
  /\ UNCHANGED <<subs, faults>>

(* EventMark::accept: below the mark, or at the ceiling, is refused.       *)
Accept(seq) ==
  IF seq < mark \/ seq = LastSeq THEN UNCHANGED <<mark, taken>>
  ELSE mark' = seq + 1 /\ taken' = Append(taken, seq)

(* A message reaches the client.  An answer sets the mark                  *)
(* (EventMark::accepting_from); without one there is no mark to accept by. *)
Arrives(m) ==
  IF m \in Events
  THEN /\ IF mark = NoMark THEN UNCHANGED <<mark, taken>> ELSE Accept(m.seq)
       /\ UNCHANGED ack
  ELSE mark' = m.accepted /\ ack' = m /\ taken' = <<>>

Deliver ==
  /\ wire # <<>>
  /\ Arrives(Head(wire))
  /\ wire' = Tail(wire)
  /\ UNCHANGED <<log, written, sub, subs, faults>>

(* What the comms processor may do instead.                                *)
Fault == faults < MaxFaults /\ faults' = faults + 1

Drop ==
  /\ Fault
  /\ wire # <<>>
  /\ wire' = Tail(wire)
  /\ UNCHANGED <<log, written, sub, mark, ack, taken, subs>>

Overtake(i) ==
  /\ Fault
  /\ i \in DOMAIN wire \ {1}
  /\ Arrives(wire[i])
  /\ wire' = RemoveAt(wire, i)
  /\ UNCHANGED <<log, written, sub, subs>>

\* A copy is handed over and the message kept, to arrive again later.
Repeat(i) ==
  /\ Fault
  /\ i \in DOMAIN wire /\ wire[i] \in Events
  /\ Arrives(wire[i])
  /\ UNCHANGED <<log, written, sub, wire, subs>>

Next ==
  \/ \E from \in 0 .. LastSeq : Subscribe(from)
  \/ Send
  \/ \E seq \in Seqs : Write(seq)
  \/ Deliver
  \/ Drop
  \/ \E i \in DOMAIN wire : Overtake(i)
  \/ \E i \in DOMAIN wire : Repeat(i)

Spec == Init /\ [][Next]_vars
-----------------------------------------------------------------------------
TypeOK ==
  /\ log \subseteq written /\ written \subseteq Seqs
  /\ Cardinality(log) <= Capacity
  /\ sub \in 0 .. LastSeq + 1
  /\ ToSet(wire) \subseteq Acks \cup Events
  /\ mark \in 0 .. LastSeq
  /\ ack \in Acks \cup {NoAck}
  /\ ToSet(taken) \subseteq Seqs
  /\ subs \in 0 .. MaxSubs /\ faults \in 0 .. MaxFaults

(* Whatever the comms processor repeats or holds back across a second      *)
(* subscription, the events taken under one answer are records the log     *)
(* wrote, at or past the position asked for, each once and in order        *)
(* (EventMark::accept, P-056).                                             *)
TakenOnceInOrder ==
  /\ \A i \in DOMAIN taken : taken[i] \in written /\ taken[i] >= ack.wanted
  /\ \A i, j \in DOMAIN taken : i < j => taken[i] < taken[j]

(* Over a comms processor that only carries, a client knows of every       *)
(* record it asked for and does not have: each one below its mark was      *)
(* taken, the one at exactly accepted_from_seq included, or lies before    *)
(* accepted_from_seq under an answer that says gap (P-094, P-095, P-104).  *)
NoSilentLoss ==
  faults = 0 =>
    \A seq \in written :
      ack.wanted <= seq /\ seq < mark =>
        seq \in ToSet(taken) \/ (ack.gap /\ seq < ack.accepted)
=============================================================================
