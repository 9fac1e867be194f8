-------------------------------- MODULE Cbor --------------------------------
(***************************************************************************)
(* The pull reader and the writer of cbor.rs. An input is a sequence of    *)
(* item heads of one byte each: a small integer, a negative one, an empty  *)
(* string, an array or map head with its count, and a head no message may  *)
(* carry. A reader is driven the way every decoder of the crate drives it: *)
(* known keys are read in place and guarded by the decoder's own "once",   *)
(* any other value is skipped, and finish comes last. A key at or below    *)
(* the greatest so far is looked for among the pairs before it only after  *)
(* its value was skipped, so the check is deferred by one call.            *)
(***************************************************************************)
EXTENDS Naturals, Sequences, FiniteSets

CONSTANT NESTING   \* MAX_DEPTH, the containers a message may be inside

ASSUME NestingAssumption == NESTING \in Nat \ {0}

Uint(n) == [t |-> "uint", v |-> n]
Neg(n) == [t |-> "neg", v |-> n]
Str == [t |-> "str", v |-> 0]
Array(n) == [t |-> "array", v |-> n]
Map(n) == [t |-> "map", v |-> n]
Forbidden == [t |-> "forbidden", v |-> 0]

IsInt(head) == head.t \in {"uint", "neg"}
(* The items a head owes: Nest::push's count.                              *)
Owes(head) == IF head.t = "map" THEN 2 * head.v ELSE IF head.t = "array" THEN head.v ELSE 0
IsContainer(head) == head.t \in {"map", "array"}
(* KeyRank: every unsigned key before every negative one.                  *)
Rank(head) == IF head.t = "neg" THEN 1000 + head.v ELSE head.v

-----------------------------------------------------------------------------
(* Nest. A level is its kind, the items it still owes, the greatest key    *)
(* seen in it as a set of at most one, and where its pairs start.          *)
Level(kind, owed, start) == [kind |-> kind, owed |-> owed, last |-> {}, start |-> start]

settle(open) ==
  LET live == {i \in DOMAIN open : open[i].owed # 0}
  IN SubSeq(open, 1, IF live = {} THEN 0 ELSE CHOOSE i \in live : \A j \in live : j <= i)
at_key(open) ==
  open # << >> /\ open[Len(open)].kind = "map" /\ open[Len(open)].owed % 2 = 0
count_item(open) == IF open = << >> THEN open ELSE [open EXCEPT ![Len(open)].owed = @ - 1]
has_room(open) == Len(open) < NESTING

(* Nest::take_key: the writer's keys go up.                                *)
take_key(open, key) == [open EXCEPT ![Len(open)].last = {key}]
Ascends(open, key) == \A last \in open[Len(open)].last : key > last

-----------------------------------------------------------------------------
(* CborReader. unsettled and skipped hold at most one key with the extent  *)
(* of the pairs before it.                                                 *)
NewReader ==
  [next |-> 1, open |-> << >>, unsettled |-> {}, skipped |-> {}, head |-> Str, err |-> ""]
Failed(r, err) == [r EXCEPT !.err = err]

(* The position past `owed` items from p: what a search's skips step over. *)
RECURSIVE Past(_, _, _)
Past(bytes, p, owed) ==
  IF owed = 0 \/ p > Len(bytes) THEN p ELSE Past(bytes, p + 1, owed - 1 + Owes(bytes[p]))

(* CborReader::search. *)
RECURSIVE Found(_, _, _, _)
Found(bytes, key, p, to) ==
  /\ p < to
  /\ Rank(bytes[p]) = key \/ Found(bytes, key, Past(bytes, p + 1, 1), to)
Repeats(bytes, keys) == \E u \in keys : Found(bytes, u.key, u.from, u.to)

(* settle_skipped. *)
settle_skipped(bytes, r) ==
  IF Repeats(bytes, r.skipped) THEN Failed(r, "RepeatedKey") ELSE [r EXCEPT !.skipped = {}]

(* read_key: a key above the greatest is new, any other is unsettled.      *)
Greatest(open, key) == Ascends(open, key)
Unsettled(open, key, at) == {[key |-> key, from |-> open[Len(open)].start, to |-> at]}

(* head: one item head, in a walk or not. total is the input's length, of  *)
(* which bytes may be only the part that is known.                         *)
ReadHead(bytes, total, r0, walking) ==
  LET r == IF walking THEN r0 ELSE settle_skipped(bytes, r0)
      open == settle(r.open)
      head == bytes[r.next]
      key == Rank(head)
      fresh == Greatest(open, key)
      asked == Unsettled(open, key, r.next)
      keyed == IF fresh THEN take_key(open, key) ELSE open
      counted == count_item(IF at_key(open) THEN keyed ELSE open)
      left == total - r.next
  IN IF r.err # "" THEN r
     ELSE IF r.next > Len(bytes) THEN Failed(r, "EndOfInput")
     ELSE IF head = Forbidden THEN Failed(r, "Forbidden")
     ELSE IF Owes(head) > left THEN Failed(r, "EndOfInput")
     ELSE IF at_key(open) /\ ~IsInt(head) THEN Failed(r, "KeyNotInteger")
     ELSE IF at_key(open) /\ walking /\ ~fresh /\ Repeats(bytes, asked) THEN Failed(r, "RepeatedKey")
     ELSE IF IsContainer(head) /\ ~has_room(counted) THEN Failed(r, "DepthExceeded")
     ELSE [r EXCEPT
            !.next = @ + 1, !.head = head,
            !.open = IF IsContainer(head)
                     THEN Append(counted, Level(head.t, Owes(head), r.next + 1)) ELSE counted,
            !.unsettled = IF walking THEN @ ELSE IF at_key(open) /\ ~fresh THEN asked ELSE {}]

(* skip: the key before it becomes the deferred one, and the whole value   *)
(* is walked.                                                              *)
RECURSIVE Walk(_, _, _, _)
Walk(bytes, total, r, floor) ==
  IF r.err # "" \/ Len(settle(r.open)) <= floor THEN r
  ELSE Walk(bytes, total, ReadHead(bytes, total, r, TRUE), floor)
Skip(bytes, total, r0) ==
  LET r == settle_skipped(bytes, r0)
      deferred == [r EXCEPT !.skipped = r.unsettled, !.unsettled = {}]
  IN IF r.err # "" THEN r
     ELSE Walk(bytes, total, ReadHead(bytes, total, deferred, TRUE), Len(settle(r.open)))

(* Seeded fault: the key deferred by the last skip is never looked for.    *)
FinishUnsettled(bytes, r) ==
  IF r.err # "" THEN r
  ELSE IF settle(r.open) # << >> THEN Failed(r, "Unfinished")
  ELSE IF r.next <= Len(bytes) THEN Failed(r, "TrailingBytes") ELSE r

Finish(bytes, r0) ==
  LET r == settle_skipped(bytes, r0)
  IN IF r0.err # "" THEN r0 ELSE IF r.err # "" THEN r
     ELSE IF settle(r.open) # << >> THEN Failed(r, "Unfinished")
     ELSE IF r.next <= Len(bytes) THEN Failed(r, "TrailingBytes") ELSE r

(* The typed reads: a head of another type is refused.                     *)
Typed(r, type) == IF r.err = "" /\ r.head.t # type THEN Failed(r, "WrongType") ELSE r

-----------------------------------------------------------------------------
(* An item's head in bytes. An argument is its own bytes, the greatest     *)
(* first and the first of them no zero, so that a u64 is one like any      *)
(* other.                                                                  *)
MajorBits ==
  [uint |-> 0, neg |-> 1, bytes |-> 2, text |-> 3, array |-> 4, map |-> 5, tag |-> 6, simple |-> 7]
MajorOf(byte) == CHOOSE major \in DOMAIN MajorBits : MajorBits[major] = byte \div 32
Inline(arg) == arg = << >> \/ (Len(arg) = 1 /\ arg[1] < 24)

(* Seeded fault: the last argument that fits in a byte takes two.          *)
WidthOffByOne(arg) ==
  IF Inline(arg) THEN 0
  ELSE CHOOSE w \in {1, 2, 4, 8} :
         LET n == Len(IF arg = <<255>> THEN <<1, 0>> ELSE arg) IN n <= w /\ w < 2 * n

(* Width::of and its bytes, and the low five bits of a head byte.          *)
Width(arg) ==
  IF Inline(arg) THEN 0 ELSE CHOOSE w \in {1, 2, 4, 8} : Len(arg) <= w /\ w < 2 * Len(arg)
Infos == <<1, 2, 4, 8>>
info(width, low) == IF width = 0 THEN low ELSE 23 + CHOOSE i \in DOMAIN Infos : Infos[i] = width

(* CborWriter::head. *)
HeadBytes(major, arg) ==
  LET width == Width(arg)
      low == IF arg = << >> THEN 0 ELSE arg[Len(arg)]
  IN <<MajorBits[major] * 32 + info(width, low)>>
       \o [i \in 1..width |-> IF i + Len(arg) > width THEN arg[i + Len(arg) - width] ELSE 0]

(* CborReader::argument, over what follows the head byte, and simple: what *)
(* a head byte says, how many bytes it took, or why no message carries it. *)
Stripped(bytes) ==
  LET live == {i \in DOMAIN bytes : bytes[i] # 0}
  IN IF live = {} THEN << >> ELSE SubSeq(bytes, CHOOSE i \in live : \A j \in live : i <= j, Len(bytes))
BytesOf(low) == IF low < 24 THEN 0 ELSE Infos[low - 23]
HeadError(byte) ==
  LET low == byte % 32
      major == MajorOf(byte)
  IN IF major = "tag" THEN "TagNotAllowed"
     ELSE IF major = "simple" /\ low \in 25..27 THEN "FloatNotAllowed"
     ELSE IF low \in 28..30 THEN "ReservedHead"
     ELSE IF low = 31 THEN "IndefiniteLength"
     ELSE IF major = "simple" /\ low \notin {20, 21} THEN "SimpleValueNotAllowed" ELSE ""
ReadBytes(bytes) ==
  LET low == bytes[1] % 32
      width == BytesOf(low)
      taken == SubSeq(bytes, 2, 1 + width)
  IN IF HeadError(bytes[1]) # "" THEN Failed(NewReader, HeadError(bytes[1]))
     ELSE IF Len(bytes) <= width THEN Failed(NewReader, "EndOfInput")
     ELSE [err |-> "", major |-> MajorOf(bytes[1]), next |-> 2 + width,
           arg |-> Stripped(IF width = 0 THEN <<low>> ELSE taken)]

(* unsigned and u8 to u64, key and i32: whether a typed read has room for  *)
(* an argument. A signed one has a bit less, and the same either side of   *)
(* nought, since a negative head carries one less than the magnitude.      *)
TwoSigned == {"i32", "key"}
Holds == [u8 |-> 1, u16 |-> 2, u32 |-> 4, u64 |-> 8, i32 |-> 4, key |-> 8]
ReadAs(type, head) ==
  IF head.major \notin {"uint", "neg"} THEN IF type = "key" THEN "KeyNotInteger" ELSE "WrongType"
  ELSE IF head.major = "neg" /\ type \notin TwoSigned THEN "IntegerOutOfRange"
  ELSE IF Len(head.arg) > Holds[type] THEN "IntegerOutOfRange"
  ELSE IF type \in TwoSigned /\ Len(head.arg) = Holds[type] /\ head.arg[1] > 127
  THEN "IntegerOutOfRange" ELSE ""

-----------------------------------------------------------------------------
(* A decoder of the crate's shape: key 0 carries a number, key 1 a map of  *)
(* keys it does not know, and any other key is skipped.                    *)
NumberKey == 0
MapKey == 1
SkipOnly == {}

RECURSIVE ReadPairs(_, _, _, _, _)
ReadPairs(bytes, total, r0, known, left) ==
  LET k == ReadHead(bytes, total, r0, FALSE)
      key == Rank(k.head)
      value == ReadHead(bytes, total, k, FALSE)
      inner == Typed(value, "map")
      after ==
        IF key \notin known THEN Skip(bytes, total, k)
        ELSE IF key = NumberKey THEN Typed(value, "uint")
        ELSE IF inner.err # "" THEN inner
        ELSE ReadPairs(bytes, total, inner, SkipOnly, inner.head.v)
  IN IF left = 0 \/ r0.err # "" THEN r0
     ELSE IF k.err # "" THEN k
     ELSE IF key \in {NumberKey, MapKey} \ known /\ known # SkipOnly THEN Failed(k, "Duplicate")
     ELSE ReadPairs(bytes, total, after, IF known = SkipOnly THEN known ELSE known \ {key}, left - 1)

Decoded(bytes, total) ==
  LET top == Typed(ReadHead(bytes, total, NewReader, FALSE), "map")
  IN ReadPairs(bytes, total, top, {NumberKey, MapKey}, top.head.v)
Accepts(bytes) == Finish(bytes, Decoded(bytes, Len(bytes))).err = ""
(* One item skipped and nothing after it.                                  *)
SkipsWhole(bytes) == Finish(bytes, Skip(bytes, Len(bytes), NewReader)).err = ""

-----------------------------------------------------------------------------
(* The client's reader (packages/km43): a plain descent that holds the keys *)
(* of every open map, where the controller's is one pass that holds one    *)
(* key. "clientSkip" and "clientItems" are skip, "clientPairs" is entries  *)
(* as a body codec drives it.                                              *)
NewClientReader == [next |-> 1, depth |-> 0, err |-> ""]

clientHead(bytes, r) ==
  IF r.err # "" THEN r
  ELSE IF r.next > Len(bytes) THEN Failed(r, "EndOfInput")
  ELSE IF bytes[r.next] = Forbidden THEN Failed(r, "Forbidden") ELSE [r EXCEPT !.next = @ + 1]
clientKey(bytes, r) ==
  LET k == clientHead(bytes, r)
  IN IF k.err = "" /\ ~IsInt(bytes[r.next]) THEN Failed(k, "KeyNotInteger") ELSE k
clientEnter(r) ==
  IF r.err # "" THEN r
  ELSE IF r.depth >= NESTING THEN Failed(r, "DepthExceeded") ELSE [r EXCEPT !.depth = @ + 1]
clientClose(r) == [r EXCEPT !.depth = @ - 1]
clientTyped(bytes, r, type) ==
  LET h == clientHead(bytes, r)
  IN IF h.err = "" /\ bytes[r.next].t # type THEN Failed(h, "WrongType") ELSE h
(* A count past the bytes that are left is a body cut short.               *)
clientMap(bytes, r) ==
  LET h == clientTyped(bytes, r, "map")
  IN IF h.err = "" /\ bytes[r.next].v > Len(bytes) - r.next
     THEN Failed(h, "EndOfInput") ELSE clientEnter(h)

RECURSIVE clientItems(_, _, _, _, _)
clientSkip(bytes, r) ==
  LET h == clientHead(bytes, r)
  IN IF h.err # "" \/ ~IsContainer(bytes[r.next]) THEN h
     ELSE clientClose(clientItems(bytes, clientEnter(h), bytes[r.next].t, bytes[r.next].v, {}))
clientItems(bytes, r, type, left, seen) ==
  LET k == clientKey(bytes, r)
      key == Rank(bytes[r.next])
  IN IF left = 0 \/ r.err # "" THEN r
     ELSE IF type = "array" THEN clientItems(bytes, clientSkip(bytes, r), type, left - 1, seen)
     ELSE IF k.err # "" THEN k
     ELSE IF key \in seen THEN Failed(k, "RepeatedKey")
     ELSE clientItems(bytes, clientSkip(bytes, k), type, left - 1, seen \cup {key})

RECURSIVE clientPairs(_, _, _, _, _)
clientPairs(bytes, r, known, left, seen) ==
  LET k == clientKey(bytes, r)
      key == Rank(bytes[r.next])
      inner == clientMap(bytes, k)
      after ==
        IF key \notin known THEN clientSkip(bytes, k)
        ELSE IF key = NumberKey THEN clientTyped(bytes, k, "uint")
        ELSE IF inner.err # "" THEN inner
        ELSE clientClose(clientPairs(bytes, inner, SkipOnly, bytes[k.next].v, {}))
  IN IF left = 0 \/ r.err # "" THEN r
     ELSE IF k.err # "" THEN k
     ELSE IF key \in seen THEN Failed(k, "RepeatedKey")
     ELSE clientPairs(bytes, after, known, left - 1, seen \cup {key})

ClientAccepts(bytes) ==
  LET top == clientMap(bytes, NewClientReader)
      end == IF top.err # "" THEN top
             ELSE clientPairs(bytes, top, {NumberKey, MapKey}, bytes[1].v, {})
  IN end.err = "" /\ end.next = Len(bytes) + 1

(* The client's heads: what a head byte says, which arguments its two       *)
(* reads of an integer have room for, and its writer, whose arguments are  *)
(* a u32.                                                                  *)
clientHeadError(byte) ==
  LET major == byte \div 32
      low == byte % 32
  IN IF major = 6 THEN "TagNotAllowed"
     ELSE IF major = 7
     THEN IF low \in {20, 21} THEN "" ELSE IF low \in 25..27 THEN "FloatNotAllowed"
          ELSE IF low \in 28..30 THEN "ReservedHead"
          ELSE IF low = 31 THEN "IndefiniteLength" ELSE "SimpleValueNotAllowed"
     ELSE IF low < 24 THEN ""
     ELSE IF low = 31 THEN "IndefiniteLength" ELSE IF low > 27 THEN "ReservedHead" ELSE ""

(* key and uint(max), an argument being above a bound when it is longer or *)
(* greater at the first byte they differ in.                               *)
Above(arg, max) ==
  \/ Len(arg) > Len(max)
  \/ /\ Len(arg) = Len(max)
     /\ \E i \in DOMAIN arg : arg[i] > max[i] /\ \A j \in 1..(i - 1) : arg[j] = max[j]
I64_MAX == <<127, 255, 255, 255, 255, 255, 255, 255>>
clientKeyError(head) ==
  IF head.major \notin {"uint", "neg"} THEN "KeyNotInteger"
  ELSE IF Above(head.arg, I64_MAX) THEN "IntegerOutOfRange" ELSE ""
clientUintError(head, max) ==
  IF head.major = "neg" THEN "IntegerOutOfRange"
  ELSE IF head.major # "uint" THEN "WrongType"
  ELSE IF Above(head.arg, max) THEN "IntegerOutOfRange" ELSE ""

clientHeadBytes(major, arg) ==
  LET top == MajorBits[major] * 32
      padded(n) == [i \in 1..n |-> IF i + Len(arg) > n THEN arg[i + Len(arg) - n] ELSE 0]
  IN IF arg = << >> THEN <<top>>
     ELSE IF Len(arg) = 1 /\ arg[1] < 24 THEN <<top + arg[1]>>
     ELSE IF Len(arg) = 1 THEN <<top + 24>> \o padded(1)
     ELSE IF Len(arg) = 2 THEN <<top + 25>> \o padded(2) ELSE <<top + 26>> \o padded(4)

(* isUtf8: how many bytes a character has and what its second may be, by   *)
(* its first.                                                              *)
Octet(lead) ==
  LET of(length, low, high) == [length |-> length, second |-> low..high]
  IN IF lead < 128 THEN of(1, 0, 0)
     ELSE IF lead \in 194..223 THEN of(2, 128, 191)
     ELSE IF lead \in 224..239
     THEN of(3, IF lead = 224 THEN 160 ELSE 128, IF lead = 237 THEN 159 ELSE 191)
     ELSE IF lead \in 240..244
     THEN of(4, IF lead = 240 THEN 144 ELSE 128, IF lead = 244 THEN 143 ELSE 191)
     ELSE of(0, 0, 0)

isUtf8(bytes) ==
  LET from[at \in 1..(Len(bytes) + 1)] ==
        at > Len(bytes) \/
        LET char == Octet(bytes[at])
        IN /\ char.length # 0 /\ at + char.length - 1 <= Len(bytes)
           /\ \A i \in 1..(char.length - 1) :
                bytes[at + i] \in IF i = 1 THEN char.second ELSE 128..191
           /\ from[at + char.length]
  IN from[1]

-----------------------------------------------------------------------------
(* CborWriter. What is written is a sequence of heads; an operation is a   *)
(* key, a value, or an item encoded elsewhere and copied whole.            *)
NewWriter == [out |-> << >>, open |-> << >>, err |-> ""]

Deepest(item) ==
  LET levels == {Cardinality({c \in 1..p : IsContainer(item[c]) /\ p < Past(item, c, 1)})
                   : p \in {q \in DOMAIN item : IsContainer(item[q])}}
  IN IF levels = {} THEN 0 ELSE CHOOSE n \in levels : \A m \in levels : m <= n

open_item(w, open) ==
  IF at_key(open) THEN "MisplacedKey"
  ELSE IF open = << >> /\ w.out # << >> THEN "TrailingItem" ELSE ""
raw_fits(open, item) == Len(open) + Deepest(item) <= NESTING

WriteItem(w, op) ==
  LET open == settle(w.open)
      head == op.item[1]
      misplaced == open_item(w, open)
      counted == count_item(open)
      wrote(levels) == [out |-> w.out \o op.item, open |-> levels, err |-> ""]
  IN IF op.what = "key"
     THEN IF head.t = "neg" THEN Failed(w, "IntegerOutOfRange")
          ELSE IF ~at_key(open) THEN Failed(w, "MisplacedKey")
          ELSE IF ~Ascends(open, head.v) THEN Failed(w, "KeysNotAscending")
          ELSE wrote(count_item(take_key(open, head.v)))
     ELSE IF misplaced # "" THEN Failed(w, misplaced)
     ELSE IF op.what = "raw"
     THEN IF ~SkipsWhole(op.item) THEN Failed(w, "Item")
          ELSE IF ~raw_fits(open, op.item) THEN Failed(w, "DepthExceeded") ELSE wrote(counted)
     ELSE IF ~IsContainer(head) THEN wrote(counted)
     ELSE IF ~has_room(open) THEN Failed(w, "DepthExceeded")
     ELSE wrote(Append(counted, Level(head.t, Owes(head), 0)))

RECURSIVE Wrote(_, _)
Wrote(w, ops) == IF ops = << >> \/ w.err # "" THEN w ELSE Wrote(WriteItem(w, Head(ops)), Tail(ops))
(* finish. *)
Finished(w) == w.err = "" /\ w.out # << >> /\ settle(w.open) = << >>
=============================================================================
