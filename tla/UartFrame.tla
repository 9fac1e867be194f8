------------------------------ MODULE UartFrame ------------------------------
(***************************************************************************)
(* The UART (frame.rs): a writer that frames envelopes, a line that loses  *)
(* bytes, adds noise, stalls and falls silent, and a FrameReader that may  *)
(* join the stream anywhere.  COBS is Cobs; the checksum is a parameter.   *)
(***************************************************************************)
EXTENDS Cobs

CONSTANTS
  MaxPayload,       \* MAX_PAYLOAD
  CrcBytes,         \* CRC_BYTES
  Crc(_),           \* crc16, as CrcBytes bytes
  MaxFrame,         \* MAX_FRAME, delimiter included
  IncompleteAfter,  \* INCOMPLETE_AFTER_MS
  MaxWaiting,       \* u32::MAX, where the waiting time saturates
  Payloads,         \* the envelopes sent
  MaxFrames,        \* bound: frames sent
  MaxFaults         \* bound: faults of the line

Delimiter == 0

(* max_frame_len *)
MaxFrameLen(n) == MaxEncodedLen(n + CrcBytes) + 1

ASSUME FrameAssumption ==
  /\ {MaxPayload, MaxFrame, IncompleteAfter, MaxWaiting} \subseteq Nat \ {0}
  /\ {CrcBytes, MaxFrames, MaxFaults} \subseteq Nat
  /\ IncompleteAfter <= MaxWaiting
  /\ \A p \in Payloads : /\ p \in Seq(Byte) /\ Len(p) <= MaxPayload
                         /\ Crc(p) \in [1 .. CrcBytes -> Byte]
  \* The const assertion under max_frame_len.
  /\ MaxFrameLen(MaxPayload) <= MaxFrame

VARIABLES
  reader,      \* FrameReader: encoded, overlong, waiting
  received,    \* what the last byte or tick handed up
  line,        \* bytes of the current frame still to be sent
  sending,     \* the envelope of that frame
  boundary,    \* history: the last byte was a delimiter, or silence followed it
  intact,      \* history: the current frame began at a boundary, no fault since
  faulty,      \* history: the line has had a fault
  quiet,       \* time since the last byte arrived
  frames, faults   \* what the bounds count

vars == <<reader, received, line, sending, boundary, intact, faulty,
          quiet, frames, faults>>

Nothing   == [what |-> "Nothing", envelope |-> <<>>]
Dropped   == [what |-> "Dropped", envelope |-> <<>>]
Abandoned == [what |-> "Abandoned", envelope |-> <<>>]
Frame(envelope) == [what |-> "Frame", envelope |-> envelope]

Capped(n) == IF n < MaxWaiting THEN n ELSE MaxWaiting
-----------------------------------------------------------------------------

(* FrameWriter::write, into a buffer of `room` bytes.                      *)
Write(payload, room) ==
  IF Len(payload) > MaxPayload \/ room < MaxFrameLen(Len(payload)) THEN Refused
  ELSE Encode(payload \o Crc(payload), room) \o <<Delimiter>>

(* FrameReader::take: one run between delimiters, decoded and checked.     *)
Take(run) ==
  LET decoded == Decode(run, MaxPayload + CrcBytes)
      len     == Len(decoded) - CrcBytes
  IN  IF decoded = Refused \/ Len(decoded) < CrcBytes THEN Dropped
      ELSE IF Crc(SubSeq(decoded, 1, len)) # SubSeq(decoded, len + 1, Len(decoded))
      THEN Dropped
      ELSE Frame(SubSeq(decoded, 1, len))

(* FrameReader::hold: a byte past the buffer marks the run and is lost.    *)
Hold(r, byte) ==
  IF Len(r.encoded) < MaxFrame - 1
  THEN [r EXCEPT !.encoded = Append(@, byte)]
  ELSE [r EXCEPT !.overlong = TRUE]

(* FrameReader::new and FrameReader::discard.                              *)
Empty == [encoded |-> <<>>, overlong |-> FALSE, waiting |-> 0]

(* Seeded fault: the mark of an overlong run outlives its delimiter.       *)
DelimitedKeepsOverlong(r) ==
  [reader   |-> [Empty EXCEPT !.overlong = r.overlong],
   received |-> IF r.overlong THEN Dropped
                ELSE IF r.encoded = <<>> THEN Nothing
                ELSE Take(r.encoded)]

(* FrameReader::push of a delimiter.                                       *)
Delimited(r) ==
  [reader   |-> Empty,
   received |-> IF r.overlong THEN Dropped
                ELSE IF r.encoded = <<>> THEN Nothing
                ELSE Take(r.encoded)]

(* Seeded fault: the clock is not reset by a byte.                         *)
TickSomeKeepsClock(r, byte) ==
  IF byte = Delimiter THEN Delimited(r)
  ELSE [reader |-> Hold(r, byte), received |-> Nothing]

(* FrameReader::tick of a byte.                                            *)
TickSome(r, byte) ==
  IF byte = Delimiter THEN Delimited(r)
  ELSE [reader |-> [Hold(r, byte) EXCEPT !.waiting = 0], received |-> Nothing]

(* FrameReader::tick of nothing for `ms`.                                  *)
TickNone(r, ms) ==
  LET waiting == Capped(r.waiting + ms) IN
  IF r.encoded # <<>> /\ waiting >= IncompleteAfter
  THEN [reader |-> Empty, received |-> Abandoned]
  ELSE [reader |-> [r EXCEPT !.waiting = waiting], received |-> Nothing]
-----------------------------------------------------------------------------
\* What each envelope looks like on the wire.
Framed == [payload \in Payloads |-> Write(payload, MaxFrame)]

(* The link comes up with its sender, or joins a frame half-way.           *)
Init ==
  /\ reader = Empty
  /\ received = Nothing
  /\ quiet = 0
  /\ frames = 0 /\ faults = 0
  /\ \/ /\ line = <<>> /\ sending = <<>>
        /\ boundary = TRUE /\ intact = FALSE /\ faulty = FALSE
     \/ \E p \in Payloads : \E from \in 2 .. Len(Framed[p]) :
        /\ line = SubSeq(Framed[p], from, Len(Framed[p])) /\ sending = p
        /\ boundary = FALSE /\ intact = FALSE /\ faulty = TRUE

StartFrame(payload) ==
  /\ line = <<>> /\ frames < MaxFrames
  /\ line' = Framed[payload]
  /\ sending' = payload
  /\ intact' = boundary
  /\ frames' = frames + 1
  /\ received' = Nothing
  /\ UNCHANGED <<reader, boundary, faulty, quiet, faults>>

(* A byte reaches the reader.                                              *)
Arrives(byte) ==
  /\ reader' = TickSome(reader, byte).reader
  /\ received' = TickSome(reader, byte).received
  /\ boundary' = (byte = Delimiter)
  /\ quiet' = 0

SendByte ==
  /\ line # <<>>
  /\ Arrives(Head(line))
  /\ line' = Tail(line)
  /\ UNCHANGED <<sending, intact, faulty, frames, faults>>

Fault == faults < MaxFaults /\ faults' = faults + 1 /\ faulty' = TRUE

Noise(byte) ==
  /\ Fault
  /\ Arrives(byte)
  /\ intact' = FALSE
  /\ UNCHANGED <<line, sending, frames>>

LoseByte ==
  /\ Fault
  /\ line # <<>>
  /\ line' = Tail(line)
  /\ intact' = FALSE
  /\ received' = Nothing
  /\ UNCHANGED <<reader, sending, boundary, quiet, frames>>

(* The sender resets half-way through a frame.                             *)
Stall ==
  /\ Fault
  /\ line # <<>>
  /\ line' = <<>>
  /\ intact' = FALSE
  /\ received' = Nothing
  /\ UNCHANGED <<reader, sending, boundary, quiet, frames>>

(* Nothing arrives for `ms`.  Half-way through a frame, a silence as long  *)
(* as the timeout is a fault of the line.                                  *)
Silence(ms) ==
  LET fresh == line # <<>> /\ line = Framed[sending]
      long  == Capped(quiet + ms) >= IncompleteAfter
      cut   == long /\ line # <<>> /\ ~fresh
  IN
  /\ reader' = TickNone(reader, ms).reader
  /\ received' = TickNone(reader, ms).received
  /\ quiet' = Capped(quiet + ms)
  /\ boundary' = (boundary \/ long)
  /\ intact' = IF fresh THEN boundary' ELSE intact /\ ~cut
  /\ faulty' = (faulty \/ cut)
  /\ UNCHANGED <<line, sending, frames, faults>>

Next ==
  \/ \E p \in Payloads : StartFrame(p)
  \/ SendByte
  \/ \E byte \in Byte : Noise(byte)
  \/ LoseByte
  \/ Stall
  \/ \E ms \in 1 .. IncompleteAfter : Silence(ms)

Spec == Init /\ [][Next]_vars
-----------------------------------------------------------------------------
TypeOK ==
  /\ Len(reader.encoded) <= MaxFrame - 1
  /\ ToSet(reader.encoded) \subseteq Byte \ {Delimiter}
  /\ reader.overlong \in BOOLEAN /\ reader.waiting \in 0 .. MaxWaiting
  /\ received.what \in {"Nothing", "Dropped", "Abandoned", "Frame"}
  /\ Len(received.envelope) <= MaxPayload
  /\ boundary \in BOOLEAN /\ intact \in BOOLEAN /\ faulty \in BOOLEAN
  /\ quiet \in 0 .. MaxWaiting
  /\ frames \in 0 .. MaxFrames /\ faults \in 0 .. MaxFaults

(* A frame that follows a delimiter, or a silence as long as the timeout,  *)
(* and arrives without a fault is handed up as it was sent, whatever came  *)
(* before it: noise, a stitched or overlong run, a stalled head (P-030,    *)
(* FrameReader::push and tick).                                            *)
CleanFrameArrives ==
  [][Len(line) = 1 /\ line' = <<>> /\ intact /\ intact'
       => received' = Frame(sending)]_vars

(* Nothing is dropped or abandoned on a line without faults: a refusal on  *)
(* the counter is always somebody's fault (P-031).                         *)
RefusalMeansFault ==
  received.what \in {"Dropped", "Abandoned"} => faulty
=============================================================================
