-------------------------------- MODULE Cobs --------------------------------
(***************************************************************************)
(* COBS as cobs.rs encodes and decodes it.  A block is a code byte, one    *)
(* more than the number of data bytes after it, and stands for that data   *)
(* and a zero; a block of the largest code stands for its data alone.      *)
(*                                                                         *)
(* MaxCode is 0xFF in the code, and a byte is 0 .. MaxCode.  A refusal's   *)
(* reason is for a log only, so every one of them is Refused.              *)
(***************************************************************************)
EXTENDS Naturals, Sequences, SequencesExt

CONSTANT MaxCode

ASSUME CodeAssumption == MaxCode \in Nat /\ MaxCode >= 2

Byte == 0 .. MaxCode

\* No string of bytes: what stands for an Err.
Refused == <<MaxCode + 1>>
-----------------------------------------------------------------------------

(* max_encoded_len                                                         *)
MaxEncodedLen(n) == n + n \div (MaxCode - 1) + 1

(* Encoder::close and Encoder::finish: the block held back gets its code.  *)
Close(enc) == [out |-> enc.out \o <<Len(enc.block) + 1>> \o enc.block, block |-> <<>>]

(* Encoder::push: a full block is closed only when another byte turns up.  *)
PushByte(enc, byte) ==
  LET open == IF Len(enc.block) + 1 = MaxCode THEN Close(enc) ELSE enc
  IN  IF byte = 0 THEN Close(open)
      ELSE [open EXCEPT !.block = Append(@, byte)]

(* The encoder after each byte of src.                                     *)
Pushed(src) ==
  LET enc[n \in 0 .. Len(src)] ==
        IF n = 0 THEN [out |-> <<>>, block |-> <<>>] ELSE PushByte(enc[n - 1], src[n])
  IN  enc

(* encode, into a buffer of `room` bytes.                                  *)
Encode(src, room) ==
  IF room < MaxEncodedLen(Len(src)) THEN Refused
  ELSE Close(Pushed(src)[Len(src)]).out

(* Decoder::copy_block: the block lies in the frame and holds no zero.     *)
BlockFits(src, at, code) ==
  /\ at + code <= Len(src) + 1
  /\ \A i \in at + 1 .. at + code - 1 : src[i] # 0

(* The zero after a block is data only when another block follows, and a   *)
(* full block implies none.                                                *)
ImpliedZero(code, atEnd) == IF atEnd \/ code = MaxCode THEN <<>> ELSE <<0>>

(* One turn of Decoder::run's loop, which ends at the end of the frame or  *)
(* at the first refusal.                                                   *)
RunBlock(src, dec) ==
  LET code == src[dec.read]
      next == dec.read + code
  IN  IF dec.refused \/ dec.read > Len(src) THEN dec
      ELSE IF code = 0 \/ ~BlockFits(src, dec.read, code)
      THEN [dec EXCEPT !.refused = TRUE]
      ELSE [read    |-> next,
            out     |-> dec.out \o SubSeq(src, dec.read + 1, next - 1)
                                \o ImpliedZero(code, next > Len(src)),
            refused |-> FALSE]

(* The decoder after each turn: every block has a byte, so these are       *)
(* turns enough.                                                           *)
Run(src) ==
  LET dec[n \in 0 .. Len(src)] ==
        IF n = 0 THEN [read |-> 1, out |-> <<>>, refused |-> FALSE]
        ELSE RunBlock(src, dec[n - 1])
  IN  dec

(* decode, into a buffer of `room` bytes.                                  *)
Decode(src, room) ==
  LET dec == Run(src)[Len(src)]
  IN  IF src = <<>> \/ dec.refused \/ Len(dec.out) > room THEN Refused ELSE dec.out
-----------------------------------------------------------------------------
(* The frame body of any bytes holds no zero, and decodes to those bytes.  *)
RoundTrip(src) ==
  LET body == Encode(src, MaxEncodedLen(Len(src)))
  IN  0 \notin ToSet(body) /\ Decode(body, Len(body)) = src

(* A buffer sized with max_encoded_len always holds the encoding, which is *)
(* exact below a full block.                                               *)
WithinBound(src) ==
  LET body == Encode(src, MaxEncodedLen(Len(src)))
  IN  /\ Len(body) <= MaxEncodedLen(Len(src))
      /\ Len(src) < MaxCode - 1 => Len(body) = Len(src) + 1

(* What decode must accept, with no decoder in it: no zero anywhere, and   *)
(* code bytes that lead from the first byte to just past the last.         *)
WellFormed(body) ==
  /\ body # <<>> /\ 0 \notin ToSet(body)
  /\ \E codes \in SUBSET (1 .. Len(body) + 1) :
       /\ 1 \in codes
       /\ \A at \in codes : at = Len(body) + 1 \/ at + body[at] \in codes

(* decode refuses exactly the malformed bodies (P-032), and what it makes  *)
(* of the others is shorter than they are.                                 *)
RefusesMalformed(body) ==
  LET out == Decode(body, Len(body))
  IN  /\ (out # Refused) <=> WellFormed(body)
      /\ out # Refused => Len(out) < Len(body)
=============================================================================
