------------------------------- MODULE BleLink -------------------------------
(***************************************************************************)
(* One direction of a BLE connection (ble.rs): a sender with one message   *)
(* slot, the stack's FIFO of values, and a receiver with one assembly and  *)
(* a timer.  The adapter that moves values between them is external and    *)
(* does what PROTOCOL.md asks of it; the stack may still lose a value or   *)
(* hand one over twice.                                                    *)
(*                                                                         *)
(* A byte is the serial number of its message and its place in it, so two  *)
(* messages never share one and a stitched message shows.  Lengths count   *)
(* data bytes, without the two of the fragment's header.                   *)
(***************************************************************************)
EXTENDS Integers, Sequences, SequencesExt

CONSTANTS
  Ids,          \* 256: message ids count modulo this
  IndexMask,    \* BLE_INDEX_MASK: the last fragment index
  MaxPayload,   \* MAX_PAYLOAD
  MtuLen,       \* BleMtu::value_len of the receiver, less the header
  Limits,       \* BleValueLimit, less the header: what a sender may select
  Timeout,      \* BLE_TIMEOUT_MS, in ticks
  QueueCap,     \* external: the values the stack's FIFO holds
  MaxSent,      \* bound: messages enqueued
  MaxFaults,    \* bound: values the stack loses or repeats
  MaxClosed,    \* bound: disconnections
  MaxBack       \* bound: ticks of a clock that runs backwards

BleAssumption ==
  /\ {Ids, MaxPayload, MtuLen, Timeout, QueueCap} \subseteq Nat \ {0}
  /\ {IndexMask, MaxSent, MaxFaults, MaxClosed, MaxBack} \subseteq Nat
  /\ Limits \subseteq Nat \ {0}
  \* The smallest limit still carries a full payload: 57 fragments of 128.
  /\ \A limit \in Limits : MaxPayload <= limit * (IndexMask + 1)

VARIABLES
  pending,      \* BleSender.pending, or None
  nextId,       \* BleSender.next_id
  fifo,         \* external: values the stack took and has not delivered
  rx,           \* BleReceiver
  sent,         \* history: the length of each message enqueued
  limits,       \* history: the limit each was enqueued with
  late,         \* history: an assembly has expired
  delivered,    \* history: the byte strings the receiver handed up
  faults, closed, back   \* what the bounds count

vars == <<pending, nextId, fifo, rx, sent, limits, late, delivered, faults,
          closed, back>>

None == [none |-> TRUE]

\* BleReceiver::new, reset, and the state after a completed message: `len`
\* is cleared before the next byte is kept, so no bytes is what None means.
IdleRx == [active |-> FALSE, id |-> 0, expected |-> 0, bytes |-> <<>>, age |-> 0]

\* The bytes of message k after place `from`, up to place `to`.
Bytes(k, from, to) == [i \in 1 .. to - from |-> <<k, from + i>>]

Init ==
  /\ pending = None
  /\ nextId = 0
  /\ fifo = <<>>
  /\ rx = IdleRx
  /\ sent = <<>> /\ limits = <<>> /\ late = FALSE
  /\ delivered = <<>>
  /\ faults = 0 /\ closed = 0 /\ back = 0

-----------------------------------------------------------------------------
(* Seeded faults.                                                          *)

AdvancedEveryId(p) ==
  /\ pending' = IF p.offered = sent[p.serial] THEN None
                ELSE [p EXCEPT !.offset = p.offered, !.index = p.index + 1,
                               !.offered = -1]
  /\ nextId' = (nextId + 1) % Ids

SameMessageAnyId(r, v) == r

ExpireNever(r) == r
-----------------------------------------------------------------------------
(* The sender.                                                             *)

(* BleSender::enqueue: the slot is free and the length fits.               *)
Enqueue(len, limit) ==
  /\ pending = None
  /\ len \in 1 .. MaxPayload
  /\ Len(sent) < MaxSent
  /\ sent' = Append(sent, len)
  /\ limits' = Append(limits, limit)
  /\ pending' = [serial |-> Len(sent) + 1, offset |-> 0, index |-> 0,
                 limit |-> limit, offered |-> -1]
  /\ UNCHANGED <<nextId, fifo, rx, late, delivered, faults, closed, back>>

(* BleSender::fragment: where the next value ends, and the value.  Called  *)
(* again before `accepted`, it offers the same value and changes nothing.  *)
End(p) == IF p.offset + p.limit < sent[p.serial] THEN p.offset + p.limit
                                                  ELSE sent[p.serial]
Value(p) ==
  [id    |-> nextId,
   index |-> p.index,
   last  |-> End(p) = sent[p.serial],
   data  |-> Bytes(p.serial, p.offset, End(p))]

Fragment ==
  /\ pending # None /\ pending.offered = -1
  /\ pending' = [pending EXCEPT !.offered = End(pending)]
  /\ UNCHANGED <<nextId, fifo, rx, sent, limits, late, delivered, faults,
                 closed, back>>

(* BleSender::accepted                                                     *)
Advanced(p) ==
  IF p.offered = sent[p.serial]
  THEN /\ pending' = None
       /\ nextId' = (nextId + 1) % Ids
  ELSE /\ pending' = [p EXCEPT !.offset = p.offered, !.index = p.index + 1,
                               !.offered = -1]
       /\ UNCHANGED nextId

(* The stack takes the offered value, and the adapter tells the sender.  A *)
(* full FIFO leaves the value offered, to be offered again.                *)
Accepted ==
  /\ pending # None /\ pending.offered # -1
  /\ Len(fifo) < QueueCap
  /\ fifo' = Append(fifo, Value(pending))
  /\ Advanced(pending)
  /\ UNCHANGED <<rx, sent, limits, late, delivered, faults, closed, back>>

-----------------------------------------------------------------------------
(* The receiver.                                                           *)

(* BleReceiver::expire: too long since the last fragment, or a clock that  *)
(* reads earlier than it did then.                                         *)
Expire(r) == IF r.active /\ (r.age < 0 \/ r.age >= Timeout) THEN IdleRx ELSE r

(* A value of another message drops the assembly.                          *)
SameMessage(r, v) == IF r.active /\ r.id # v.id THEN IdleRx ELSE r

(* It is not the next fragment, or not a first one.                        *)
OutOfPlace(r, v) == v.index # (IF r.active THEN r.expected ELSE 0)

Overflows(r, v) == Len(r.bytes) + Len(v.data) > MaxPayload

Refuses(r, v) ==
  \/ Len(v.data) = 0 \/ Len(v.data) > MtuLen
  \/ OutOfPlace(r, v)
  \/ ~v.last /\ v.index = IndexMask
  \/ ~v.last /\ Len(r.bytes) + Len(v.data) >= MaxPayload
  \/ Overflows(r, v)

(* BleReceiver::receive and append, after the expiry.                      *)
Receive(v) ==
  LET r     == SameMessage(Expire(rx), v)
      bytes == r.bytes \o v.data
  IN
  /\ rx' = IF Refuses(r, v) \/ v.last THEN IdleRx
           ELSE [active |-> TRUE, id |-> v.id, expected |-> v.index + 1,
                 bytes |-> bytes, age |-> 0]
  /\ delivered' = IF ~Refuses(r, v) /\ v.last THEN Append(delivered, bytes)
                  ELSE delivered
  /\ late' = (late \/ Expire(rx) # rx)

Deliver ==
  /\ fifo # <<>>
  /\ Receive(Head(fifo))
  /\ fifo' = Tail(fifo)
  /\ UNCHANGED <<pending, nextId, sent, limits, faults, closed, back>>

(* The stack hands a value over twice, or loses it.                        *)
Duplicate ==
  /\ faults < MaxFaults /\ fifo # <<>>
  /\ Receive(Head(fifo))
  /\ faults' = faults + 1
  /\ UNCHANGED <<pending, nextId, fifo, sent, limits, closed, back>>

Lose ==
  /\ faults < MaxFaults /\ fifo # <<>>
  /\ fifo' = Tail(fifo)
  /\ faults' = faults + 1
  /\ UNCHANGED <<pending, nextId, rx, sent, limits, late, delivered, closed,
                 back>>

(* The adapter's timer.                                                    *)
RunTimer ==
  /\ Expire(rx) # rx
  /\ rx' = Expire(rx)
  /\ late' = TRUE
  /\ UNCHANGED <<pending, nextId, fifo, sent, limits, delivered, faults,
                 closed, back>>

(* Time passes, or the clock steps back.                                   *)
Tick ==
  /\ rx.active /\ rx.age < Timeout
  /\ rx' = [rx EXCEPT !.age = @ + 1]
  /\ UNCHANGED <<pending, nextId, fifo, sent, limits, late, delivered, faults,
                 closed, back>>

TickBack ==
  /\ rx.active /\ back < MaxBack
  /\ rx' = [rx EXCEPT !.age = @ - 1]
  /\ back' = back + 1
  /\ UNCHANGED <<pending, nextId, fifo, sent, limits, late, delivered, faults,
                 closed>>

(* Disconnect: BleSender::reset, BleReceiver::reset, and the adapter's     *)
(* purge of the stack's queue.                                             *)
Disconnect ==
  /\ closed < MaxClosed
  /\ closed' = closed + 1
  /\ pending' = None
  /\ nextId' = 0
  /\ fifo' = <<>>
  /\ rx' = IdleRx
  /\ UNCHANGED <<sent, limits, late, delivered, faults, back>>

Next ==
  \/ \E len \in 1 .. MaxPayload, limit \in Limits : Enqueue(len, limit)
  \/ Fragment
  \/ Accepted
  \/ Deliver
  \/ Duplicate
  \/ Lose
  \/ RunTimer
  \/ Tick
  \/ TickBack
  \/ Disconnect

\* The adapter retries an offered value and reads the FIFO, its timer runs,
\* and time passes: what PROTOCOL.md requires of it.
Fairness ==
  /\ WF_vars(Fragment) /\ WF_vars(Accepted) /\ WF_vars(Deliver)
  /\ WF_vars(RunTimer) /\ WF_vars(Tick)

Spec == Init /\ [][Next]_vars /\ Fairness

-----------------------------------------------------------------------------
Place == (1 .. MaxSent) \X (1 .. MaxPayload)

TypeOK ==
  /\ pending = None \/
     /\ pending.serial = Len(sent)
     /\ pending.offset \in 0 .. MaxPayload - 1
     /\ pending.index \in 0 .. IndexMask
     /\ pending.limit \in Limits
     /\ pending.offered \in {-1} \cup 1 .. MaxPayload
  /\ nextId \in 0 .. Ids - 1
  /\ Len(fifo) <= QueueCap
  /\ Len(limits) = Len(sent) /\ late \in BOOLEAN
  /\ rx.active \in BOOLEAN /\ rx.id \in 0 .. Ids - 1
  /\ rx.expected \in 0 .. IndexMask
  /\ Len(rx.bytes) < MaxPayload
  /\ ToSet(rx.bytes) \subseteq Place
  /\ rx.age \in -MaxBack .. Timeout
  /\ faults \in 0 .. MaxFaults /\ closed \in 0 .. MaxClosed /\ back \in 0 .. MaxBack

Whole(k) == Bytes(k, 0, sent[k])

(* A message handed up is one that was enqueued, whole: values lost,       *)
(* repeated or late, expiries and disconnections never stitch the bytes of *)
(* two messages, and never hand up a part of one (P-036, P-039); and they  *)
(* are handed up in the order they were enqueued, one of them a second     *)
(* time only where the stack repeated a value.                             *)
DeliveredAsSent ==
  /\ \A d \in ToSet(delivered) : \E k \in DOMAIN sent : d = Whole(k)
  /\ \A i, j \in DOMAIN delivered : i < j =>
       \/ delivered[i][1][1] < delivered[j][1][1]
       \/ delivered[i] = delivered[j] /\ faults > 0

(* A partial assembly never outlives its timeout for good: it is completed *)
(* or dropped, even when no more values arrive (BleReceiver::expire).      *)
AssemblyEnds == rx.active ~> ~rx.active

(* Unless the stack fails, the connection closes, an assembly expires or  *)
(* the sender selected values longer than the receiver's MTU, every        *)
(* message enqueued is handed up, across backpressure, any mix of limits   *)
(* and the wrap of the ids (BleSender::accepted).                          *)
Troubled(k) == faults > 0 \/ closed > 0 \/ late \/ limits[k] > MtuLen

EnqueuedArrives ==
  []<>(\A k \in DOMAIN sent : Troubled(k) \/ Whole(k) \in ToSet(delivered))
=============================================================================
