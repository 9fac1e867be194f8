------------------------------ MODULE MCCodecs ------------------------------
(***************************************************************************)
(* The codecs, each under every input in a bound. A body starts as one its *)
(* encoder writes, and is then altered, extended, cut, repeated or         *)
(* reordered a few times before it is decoded; a COBS frame, a CBOR input  *)
(* and a sequence of calls to the CBOR writer grow from nothing, a page by *)
(* the rows its builder takes, a crosswalk by the rows somebody types; an  *)
(* opcode is every byte.                                                   *)
(***************************************************************************)
EXTENDS Budgets, MessageKinds, Cbor, Crosswalk

CONSTANTS
  MaxChanges,   \* bound: changes between a body's encoder and its decoder
  MaxCode,      \* the greatest COBS code
  MaxLen,       \* bound: the bytes of a COBS frame
  MaxHeads,     \* bound: the item heads of a CBOR input
  MaxOps,       \* bound: the calls to a CBOR writer
  MaxTyped      \* bound: the rows of a crosswalk

VARIABLES codec, message, input, changes

vars == <<codec, message, input, changes>>

Frame == INSTANCE Cobs
Seqs == INSTANCE SequencesExt
Sets == INSTANCE FiniteSetsExt

(* A key no decoder of these bodies knows.                                 *)
UnknownKey == 99
NoMessage == "none"

body == Messages[message]
Probes(kind) == kind.legal \cup DOMAIN kind.wrong
Least(S) == CHOOSE v \in S : \A u \in S : v <= u

Encode(b, w) ==
  [i \in DOMAIN w.puts |-> At(b.keys[w.puts[i].name], Least(w.puts[i].values))]
Encodings(b) == {Encode(b, w) : w \in {x \in b.writes : x.sent}}

Init ==
  /\ changes = 0
  /\ \/ /\ codec = "body"
        /\ message \in DOMAIN Messages
        /\ input \in Encodings(body)
     \/ /\ codec \in {"cobs", "reader", "writer", "crosswalk"}
        /\ message = NoMessage /\ input = << >>
     \/ /\ codec = "page"
        /\ message \in DOMAIN Builders
        /\ input = [kind \in DOMAIN Builders[message].kinds |-> 0]
     \/ /\ codec = "opcode"
        /\ message = NoMessage /\ \E byte \in Bytes8 : input = <<byte>>

-----------------------------------------------------------------------------
Change(to) ==
  /\ changes < MaxChanges
  /\ input' = to
  /\ changes' = changes + 1
  /\ UNCHANGED <<codec, message>>

ProbesAt(b, key) == IF key \in Known(b) THEN Probes(b.fields[NameOf(b, key)]) ELSE {}
ProbesOf(b) ==
  UNION {{At(b.keys[name], v) : v \in Probes(b.fields[name])} : name \in DOMAIN b.keys}

Alter ==
  /\ codec = "body"
  /\ \E i \in DOMAIN input : \E v \in ProbesAt(body, input[i].key) :
       Change([input EXCEPT ![i].value = v])

Extend ==
  /\ codec = "body"
  /\ \E pair \in ProbesOf(body) : Change(Append(input, pair))

Step == codec = "body" /\ Change(Append(input, At(UnknownKey, 0)))

Cut ==
  /\ codec = "body"
  /\ \E i \in DOMAIN input :
       Change(SubSeq(input, 1, i - 1) \o SubSeq(input, i + 1, Len(input)))

Reorder ==
  /\ codec = "body"
  /\ \E i \in 1..(Len(input) - 1) :
       Change([input EXCEPT ![i] = input[i + 1], ![i + 1] = input[i]])

-----------------------------------------------------------------------------
(* The heads an input is made of, and the calls a writer may get. A copied *)
(* item may be nested, or one no reader would take.                        *)
Heads == {Uint(0), Uint(1), Neg(0), Str, Array(1), Map(0), Map(1), Map(2), Map(3), Forbidden}
Op(what, item) == [what |-> what, item |-> item]
Calls ==
  {Op("key", <<k>>) : k \in {Uint(0), Uint(1), Neg(0)}}
    \cup {Op("value", <<h>>) : h \in {Uint(0), Array(0), Array(1), Map(0), Map(1), Map(2)}}
    \cup {Op("raw", item) : item \in {<<Str>>, <<Array(1), Map(1), Neg(0), Str>>,
                                      <<Map(2), Uint(1), Str, Uint(1), Str>>}}

Grow(to) == input' = to /\ UNCHANGED <<codec, message, changes>>

GrowFrame ==
  /\ codec = "cobs" /\ Len(input) < MaxLen
  /\ \E byte \in Frame!Byte : Grow(Append(input, byte))

(* An input is grown while the reader has asked for no more than it holds. *)
GrowInput ==
  /\ codec = "reader" /\ Len(input) < MaxHeads
  /\ Decoded(input, MaxHeads).err = "EndOfInput" \/ Accepts(input)
  /\ \E item \in Heads : Grow(Append(input, item))

Call ==
  /\ codec = "writer" /\ Len(input) < MaxOps
  /\ Wrote(NewWriter, input).err = ""
  /\ \E op \in Calls : Grow(Append(input, op))

(* A page holds so many rows of each kind, and is offered one more.        *)
Push ==
  /\ codec = "page"
  /\ \E kind \in DOMAIN input :
       /\ Takes(Builders[message], input, kind)
       /\ Grow(More(input, kind))

(* A registry small enough to type every kind of row against, right and    *)
(* wrong: a number retired, one withdrawn, a span, and places that match   *)
(* one reading two ways.                                                   *)
Small ==
  [metrics           |-> <<Row("temperature", 1, "live"), Row("energy", 2, "live"),
                           Row("starts", 3, "live"), Row("old temperature", 4, "retired")>>,
   component_role    |-> <<Row("fuse", 1, "withdrawn"), Row("bank", 2, "reserved"),
                           Row("vendor range", NoPlace, NoStatus)>>,
   measurement_point |-> <<Row("cell", 1, "live"), Row("case", 2, "live")>>,
   signal_domain     |-> <<Row("live", 1, "live"), Row("total", 2, "live")>>,
   direction         |-> <<Row("in", 1, "live"), Row("out", 2, "live")>>]

WellTyped ==
  {[name |-> "temperature", kind |-> "temperature"],
   [name |-> "bank", kind |-> "temperature", role |-> "bank"],
   [name |-> "bank", kind |-> "temperature", role |-> "bank", domain |-> "live"],
   [name |-> "cell", kind |-> "temperature", point |-> "cell"],
   [name |-> "bank-cell", kind |-> "temperature", role |-> "bank", point |-> "cell"],
   [name |-> "bank-out", kind |-> "temperature", role |-> "bank", dir |-> "out"],
   [name |-> "energy", kind |-> "energy", domain |-> "total"],
   [name |-> "energy-out", kind |-> "energy", domain |-> "total", dir |-> "out"],
   [name |-> "energy", absent |-> "why"], [name |-> "humidity", absent |-> "why"]}
IllTyped ==
  {[name |-> "humidity"], [name |-> "humidity", absent |-> ""],
   [name |-> "bank", absent |-> "why", role |-> "bank"],
   [name |-> "cell", kind |-> "temperature", absent |-> "why"],
   [name |-> "bank", kind |-> "old temperature"],
   [name |-> "bank", kind |-> "temperature", role |-> "fuse"],
   [name |-> "bank", kind |-> "temperature", role |-> "vendor range"]}

Type ==
  /\ codec = "crosswalk" /\ Len(input) < MaxTyped
  /\ \E row \in WellTyped \cup IllTyped : Grow(Append(input, row))

Next == Type \/ Alter \/ Extend \/ Step \/ Cut \/ Reorder \/ GrowFrame \/ GrowInput \/ Call \/ Push

Spec == Init /\ [][Next]_vars

-----------------------------------------------------------------------------
Once == \A i, j \in DOMAIN input : input[i].key = input[j].key => i = j
SteppedOver(b) == (\E i \in DOMAIN input : input[i].key \notin Known(b)) => b.unknown = "skip"

(* What an encoder writes and its decoder is not to take: a change of a    *)
(* concern that changed nothing, a bare code that needs a seal, and a bus  *)
(* entry with no setting.                                                  *)
RefusedThoughWritten(rec) ==
  CASE message = "ConcernChanged" /\ rec.state = rec.prev -> "WentNowhere"
    [] message = "ErrorBare" /\ rec.code \in needs_a_seal -> "BareCodeNeedsASeal"
    [] message = "BusEntry" /\ DOMAIN rec = {"bus"} -> "NothingSet"
    [] OTHER -> ""

ReadBack(b) ==
  LET rec == Collected(b, input)
      refusal == RefusedThoughWritten(rec)
  IN /\ \A w \in b.writes : w.sent => Finishes(b, w)
     /\ (/\ Once /\ SteppedOver(b)
         /\ \E w \in b.writes : w.sent /\ WrittenBy([b EXCEPT !.loose = {}], w, rec))
          => Decode(b, input) = IF refusal = "" THEN [ok |-> TRUE, err |-> "", rec |-> rec]
                                ELSE [ok |-> FALSE, err |-> refusal, rec |-> << >>]

(* Whatever an encoder can write decodes to what was written: a body in    *)
(* whatever order its pairs arrive, beside a key from a newer build where  *)
(* it steps over those, and every string of bytes as a COBS frame. Three   *)
(* bodies are written and then refused, always and for the one reason: a   *)
(* concern's change to the state it was in (ConcernChanged::decode), a     *)
(* bare error whose code is for inside a session (ErrorBody::bare), and a  *)
(* bus entry that sets nothing (BusEntry::decode). And no encoder outgrows *)
(* what it declared: a body's puts as many pairs as its map head said,     *)
(* with the keys going up (P-012's order), and a COBS frame fits the       *)
(* buffer max_encoded_len sizes.                                           *)
EncodedDecodes ==
  /\ codec = "body" => ReadBack(body)
  /\ codec = "cobs" => Frame!WithinBound(input) /\ Frame!RoundTrip(input)

(* A change of a concern is only written for a state that moved: the       *)
(* encoder refuses a change to the state it was already in, as its         *)
(* documentation says (ConcernChanged::encode, concerns.rs:502).           *)
EncodedChangeMoved ==
  message = "ConcernChanged" /\ changes = 0 =>
    LET rec == Collected(body, input) IN rec.state # rec.prev

(* Every element a concern may name has a label, and none beyond has.      *)
Labelled(row) ==
  IsSeries(row) =>
    /\ \A at \in 1..row.n : LabelError(labels(row), at) = ""
    /\ LabelError(labels(row), row.n + 1) # ""

TakesOnlyWritable(b) ==
  LET decoded == Decode(b, input)
  IN decoded.ok =>
       /\ Once
       /\ \E w \in b.writes : WrittenBy(b, w, decoded.rec)
       /\ message = "SignalRow" => Labelled(decoded.rec)

(* A decoder takes nothing its own encoder would refuse to write, apart    *)
(* from the fields where being liberal is the decision: a stray, missing,  *)
(* repeated or out-of-range key never becomes a value the program holds,   *)
(* nor a series with an element that has no label (ElementLabels, P-206),  *)
(* and decode refuses exactly the malformed COBS frames (P-032).           *)
DecodedWasWritable ==
  /\ codec = "body" => TakesOnlyWritable(body)
  /\ codec = "cobs" => Frame!RefusesMalformed(input)

-----------------------------------------------------------------------------
(* What a message is, with no reader in it: one item whose heads owe       *)
(* exactly what follows, every key of every map an integer and no two the  *)
(* same, no container inside NESTING others.                               *)
Inside(b, p, q) == p < q /\ q < Past(b, p, 1)
Children(b, p) ==
  {q \in DOMAIN b : Inside(b, p, q) /\ ~\E c \in DOMAIN b : Inside(b, p, c) /\ Inside(b, c, q)}
KeysOf(b, p) ==
  LET children == Children(b, p)
  IN {q \in children : Cardinality({c \in children : c < q}) % 2 = 0}
OneItem(b) ==
  /\ b # << >> /\ Past(b, 1, 1) = Len(b) + 1
  /\ Len(b) = 1 + FoldFunction(LAMBDA item, sum : Owes(item) + sum, 0, b)
WellFormed(b) ==
  /\ OneItem(b)
  /\ \A p \in DOMAIN b :
       /\ b[p] # Forbidden
       /\ IsContainer(b[p]) => Cardinality({c \in DOMAIN b : Inside(b, c, p)}) < NESTING
       /\ b[p].t = "map" =>
            \A q \in KeysOf(b, p) :
              /\ IsInt(b[q])
              /\ \A o \in KeysOf(b, p) \ {q} : Rank(b[o]) # Rank(b[q])
Shaped(b) ==
  /\ b[1].t = "map"
  /\ \A q \in KeysOf(b, 1) :
       /\ Rank(b[q]) = NumberKey => b[q + 1].t = "uint"
       /\ Rank(b[q]) = MapKey => b[q + 1].t = "map"

(* Arguments either side of every change of width and of sign, as bytes.   *)
Eight(first, rest) == [i \in 1..8 |-> IF i = 1 THEN first ELSE rest]
Arguments ==
  {<< >>} \cup {<<n>> : n \in 1..24}
    \cup {<<255>>, <<1, 0>>, <<255, 255>>, <<1, 0, 0>>, <<127, 255, 255, 255>>, <<128, 0, 0, 0>>,
          <<255, 255, 255, 255>>, <<1, 0, 0, 0, 0>>, Eight(127, 255), Eight(128, 0), Eight(255, 255)}
Octets(n) == Stripped(<<n \div 16777216, (n \div 65536) % 256, (n \div 256) % 256, n % 256>>)
NoGreater(a, b) ==
  \/ Len(a) < Len(b)
  \/ /\ Len(a) = Len(b)
     /\ \A i \in DOMAIN a : a[i] > b[i] => \E j \in 1..(i - 1) : a[j] < b[j]
Greatest64 == Eight(255, 255)
GreatestOf ==
  [u8 |-> <<255>>, u16 |-> <<255, 255>>, u32 |-> <<255, 255, 255, 255>>, u64 |-> Greatest64,
   i32 |-> <<127, 255, 255, 255>>, key |-> Eight(127, 255)]
WrittenHeads ==
  ({"uint", "neg", "bytes", "text", "array", "map"} \X Arguments) \cup ({"simple"} \X {<<20>>, <<21>>})

(* A character's bytes by RFC 3629: its code point is in range, no half of *)
(* a pair, and has no shorter form.                                        *)
LeadOf == <<0..127, 192..223, 224..239, 240..247>>
CodePoint(char) ==
  FoldFunction(LAMBDA byte, sum : sum + byte, 0,
    [i \in DOMAIN char |->
       (IF i = 1 THEN char[1] - Least(LeadOf[Len(char)]) ELSE char[i] - 128) * 64 ^ (Len(char) - i)])
IsCharacter(char) ==
  /\ Len(char) \in DOMAIN LeadOf /\ char[1] \in LeadOf[Len(char)]
  /\ \A i \in 2..Len(char) : char[i] \in 128..191
  /\ CodePoint(char) >= <<0, 128, 2048, 65536>>[Len(char)]
  /\ CodePoint(char) <= 1114111 /\ CodePoint(char) \notin 55296..57343
IsText(bytes) ==
  LET from[at \in 1..(Len(bytes) + 1)] ==
        at > Len(bytes) \/
        \E end \in at..Len(bytes) : IsCharacter(SubSeq(bytes, at, end)) /\ from[end + 1]
  IN from[1]

(* Bytes either side of every change in what may follow a first one.       *)
Turns == {127, 128, 143, 144, 159, 160, 191, 192}

(* The client's reader and writer agree with the controller's on every     *)
(* head, and its own reading of text takes exactly UTF-8, which the        *)
(* controller takes from its language (cbor.ts; P-015, P-018).             *)
ClientHeadsExact ==
  codec = "opcode" =>
    /\ clientHeadError(input[1]) = HeadError(input[1])
    /\ \A h \in WrittenHeads :
         LET got == ReadBytes(HeadBytes(h[1], h[2]))
         IN /\ clientKeyError(got) = ReadAs("key", got)
            /\ \A type \in {"u8", "u16", "u32"} :
                 clientUintError(got, GreatestOf[type]) = ReadAs(type, got)
            /\ Len(h[2]) <= 4 => clientHeadBytes(h[1], h[2]) = HeadBytes(h[1], h[2])
    /\ \A n \in 0..3 : \A rest \in [1..n -> Turns] :
         isUtf8(input \o rest) <=> IsText(input \o rest)

(* An item's head is read back as what was written; a head byte is taken   *)
(* exactly when some call to the writer puts it; nothing that is read has  *)
(* a shorter form than the writer's, and none is read short of its         *)
(* argument; an integer is taken by the reads whose type holds it; and the *)
(* head weighs what the budgets count.                                     *)
HeadsExact ==
  codec = "opcode" =>
    /\ \A h \in WrittenHeads :
         LET put == HeadBytes(h[1], h[2])
             got == ReadBytes(put)
         IN /\ got.err = "" /\ got.major = h[1] /\ got.arg = h[2] /\ got.next = Len(put) + 1
            /\ Len(put) > 1 => ReadBytes(SubSeq(put, 1, Len(put) - 1)).err = "EndOfInput"
            /\ \A type \in DOMAIN Holds :
                 ReadAs(type, got) = "" <=>
                   /\ h[1] = "uint" \/ (h[1] = "neg" /\ type \in TwoSigned)
                   /\ NoGreater(h[2], GreatestOf[type])
    /\ HeadError(input[1]) = "" <=> \E h \in WrittenHeads : HeadBytes(h[1], h[2])[1] = input[1]
    /\ \A arg \in Arguments : \A pad \in 0..(8 - Len(arg)) :
         LET got == ReadBytes(input \o [i \in 1..pad |-> 0] \o arg \o Eight(0, 0))
         IN got.err = "" => Len(HeadBytes(got.major, got.arg)) < got.next
    /\ \A n \in {0, 23, 24, 255, 256, 65535, 65536} : head(n) = Len(HeadBytes("uint", Octets(n)))

(* The reader's one pass, with its deferred search for repeated keys,      *)
(* takes exactly the well-formed messages of its decoder's shape: no       *)
(* repeat is missed wherever it hides and however its value is passed, and *)
(* no key that only arrives out of order is refused (P-015). Whatever      *)
(* calls a writer is given, what it finishes is one item that a reader of  *)
(* the same depth takes, items copied whole into it included (Writer::raw),*)
(* and so is each item's head in bytes (Width, Major, argument, simple).   *)
(* The client's reader answers every input as the controller's does.       *)
ItemsExact ==
  /\ HeadsExact /\ ClientHeadsExact
  /\ codec = "reader" => /\ Accepts(input) <=> WellFormed(input) /\ Shaped(input)
                         /\ ClientAccepts(input) <=> Accepts(input)
  /\ codec = "writer" =>
       LET w == Wrote(NewWriter, input)
       IN Finished(w) => SkipsWhole(w.out) /\ WellFormed(w.out)

-----------------------------------------------------------------------------
opcode == input[1]

(* The seven tables agree on every client byte: it is no link-local one; a   *)
(* request is what has an answer at +0x80, which is no request; what needs *)
(* a session is what is sealed by the client, and its answer is sealed     *)
(* back; a signed write and an empty body travel inside a session only; an *)
(* unknown or link-local byte is refused with a code the sender reads.     *)
ClientTablesAgree ==
  codec = "opcode" =>
    /\ opcode \in ClientTypes =>
         /\ client_type(opcode) = "" /\ opcode \notin LinkTypes
         /\ (admits(opcode) = "NotARequest") <=> (is_response(opcode) \/ opcode = MessageType.EventResponse)
         /\ admits(opcode) # "NotARequest" => response_to(opcode) \in ClientTypes
         /\ (admits(opcode) = "OnlyWithSession") <=> (sealed_as(opcode) = "Request")
         /\ sealed_as(opcode) = "Request" => sealed_as(response_to(opcode)) = "Controller"
         /\ signs(opcode) => admits(opcode) = "OnlyWithSession" /\ ~wears_one(opcode)
         /\ wears_one(opcode) => sealed_as(opcode) # "clear"
         /\ SignedRefusal(opcode, MAX_OPERATION + 1) # ""
         /\ signs(opcode) <=> SignedRefusal(opcode, MAX_OPERATION) = ""
    /\ SignedCode(SignedRefusal(opcode, MAX_OPERATION + 1)) \notin needs_a_seal

(* What one side of the UART may start, the other takes and only the       *)
(* other, and its answer is taken by the side that started: no message is  *)
(* refused where it was meant to go, and none bounces between the two.     *)
LinkTablesAgree ==
  codec = "opcode" =>
    /\ opcode \in LinkTypes =>
         /\ client_type(opcode) = "LinkLocalType"
         /\ ~is_response(opcode) =>
              /\ response_to(opcode) \in LinkTypes
              /\ starting(response_to(opcode)) = starting(opcode)
              /\ \A side \in starting(opcode) :
                   /\ arriving(opcode, Other(side), NoSession) = 0
                   /\ arriving(response_to(opcode), side, NoSession) = 0
                   /\ starting(opcode) # Sides =>
                        /\ arriving(opcode, side, NoSession) # 0
                        /\ arriving(response_to(opcode), Other(side), NoSession) # 0
    /\ \A side \in Sides :
         arriving(opcode, side, NoSession) = 0 => opcode \in LinkTypes /\ arriving(opcode, side, 1) # 0

(* A frame that is written is read as what it was, on its own wire and on  *)
(* no other: a client's header comes back whole and its byte is refused on *)
(* the UART, and the other way round, whatever the session and the number. *)
(* What is not four elements, or has one too wide, is refused on both. A   *)
(* refusal is bare, so its code is one a receiver takes bare and finds in  *)
(* the space it came from; it goes to the connection the frame came from,  *)
(* with the pair the client is waiting on when there was one to read, the  *)
(* connection's handle for a client that has no session, and with none     *)
(* that anybody waits on when the frame did not parse.                     *)
Sessions == {NoSession, 1, Widest16}
ReqIds == {1, GreatestReqId}
Conn == 7
Broken(bytes) ==
  {Append(bytes, 0), SubSeq(bytes, 1, ELEMENTS - 1), [bytes EXCEPT ![ELEMENTS] = Unmapped]}
    \cup {[bytes EXCEPT ![i] = WidestScalars[i] + 1] : i \in DOMAIN WidestScalars}
RefusedBare(bytes) ==
  LET refusal == EnvelopeRefusal(EnvelopeError(bytes))
      answer == addressed([what |-> "AFrameThatDidNotParse", conn |-> Conn])
  IN /\ EnvelopeError(bytes) # ""
     /\ Incoming(refusal.code) = refusal.space /\ refusal.code \notin needs_a_seal
     /\ answer.to = {Conn} /\ answer.req_id \notin ReqIds
EnvelopesAgree ==
  codec = "opcode" =>
    \A session \in Sessions, req_id \in ReqIds :
      LET sent == [kind |-> opcode, session |-> session, req_id |-> req_id]
          bytes == write_scalars(sent, 1)
          echoed == addressed([what |-> "AClientFrame", conn |-> Conn] @@ sent)
          adopted == addressed([what |-> "APreSessionRequest", conn |-> Conn, req_id |-> req_id])
          answer(a) == write_scalars([kind |-> MessageType.ErrorResponse, session |-> a.session,
                                      req_id |-> a.req_id], 1)
      IN /\ LinkEnvelopeError(bytes) = "" /\ header(bytes) = sent
         /\ opcode \in ClientTypes =>
              /\ EnvelopeError(bytes) = ""
              /\ \A side \in Sides : arriving(opcode, side, session) # 0
              /\ EnvelopeError(answer(echoed)) = "" /\ echoed.to = {Conn}
              /\ header(answer(echoed)) = [sent EXCEPT !.kind = MessageType.ErrorResponse]
              /\ EnvelopeError(answer(adopted)) = "" /\ adopted.to = {Conn}
              /\ adopted.session # NoSession /\ adopted.req_id = req_id
         /\ opcode \notin ClientTypes => RefusedBare(bytes)
         /\ opcode \in LinkTypes => EnvelopeRefusal(EnvelopeError(bytes)).space = "link"
         /\ addressed([what |-> "ALinkLocalFrame"]).to = {}
         /\ \A broken \in Broken(bytes) :
              LinkEnvelopeError(broken) # "" /\ RefusedBare(broken)

(* A controller's record is read back as the record its kind says, and no  *)
(* record the crate can write is of a kind a full queue may drop.          *)
RecordsKept ==
  codec = "body" /\ message \in DOMAIN RecordKinds =>
    \A kind \in RecordKinds[message] : RecordOf(kind) = message /\ is_class_a(kind) = "kept"

(* A higher role may do what a lower one may, and every capability is some *)
(* role's (ClientCapability::granted, allows).                             *)
RolesNested ==
  codec = "opcode" =>
    /\ \A r, s \in Range(Role) : r <= s => allows(granted(r), granted(s))
    /\ \A bit \in Range(ClientCapability) : \E r \in Range(Role) : allows(granted(r), bit)

(* The table a page names is the one its rows are of (RowKind).            *)
TablesNamed ==
  codec = "opcode" =>
    /\ \A kind \in RowKinds : from_number(number(kind)) = kind
    /\ from_number(opcode) \in RowKinds <=> opcode \in Range(InventoryKind)

(* Whatever is wrong with a body, its error type has an answer for it, and *)
(* before there is a session one the asker takes bare: never a code whose  *)
(* bare form a receiver discards (P-051, P-142).                           *)
Answered(decoded) ==
  ~decoded.ok =>
    /\ decoded.err \in DOMAIN ErrorOf[message]
    /\ message \in BeforeSession => ErrorOf[message][decoded.err] \notin needs_a_seal
RefusalReadable == codec = "body" => Answered(Decode(body, input))

(* The client's codec of the section and the controller's are one, though  *)
(* written in two languages: they take the same bodies and hold the same   *)
(* of each, a refusal is told apart as an Error or an outcome just as the  *)
(* controller would answer it (P-101), and what a client holds, read or    *)
(* edited, it either refuses or writes so that the controller reads it     *)
(* back, an answer's entry sent in a write included (schemaRefusal,        *)
(* sectionAnswer, encodeBusesAndDevices).                                  *)
SentAs ==
  [BusEntry |-> BusEntry, DeviceOptions |-> DeviceOptions, DeviceWrite |-> DeviceWrite,
   DeviceRead |-> DeviceWrite, SectionWrite |-> SectionWrite, SectionRead |-> SectionWrite]
WrittenFrom(rec) ==
  IF message = "BusEntry" THEN encodeBus(rec)
  ELSE IF message = "DeviceOptions" THEN encodeOptions(rec)
  ELSE IF message \in {"DeviceWrite", "DeviceRead"} THEN encodeDevice(rec) ELSE encodeSection(rec)
RefusedInMemory(rec) ==
  IF message = "BusEntry" THEN busRefusal(rec)
  ELSE IF message = "DeviceOptions" THEN optionsRefusal(rec)
  ELSE IF message \in {"DeviceWrite", "DeviceRead"} THEN deviceRefusal(rec) ELSE sectionRefusal(rec)
OptionsHeld(rec) == Restrict(rec, {name \in DOMAIN rec : ~(name = "options" /\ rec[name] = 0)})

ReadAlike(ours, theirs) ==
  /\ ours.ok = theirs.ok /\ ours.rec = theirs.rec
  /\ ~ours.ok => sectionAnswer[ours.err] = ErrorOf[message][theirs.err]
SentAlike(rec, put, arrives) ==
  /\ put.count = Len(put.pairs)
  /\ \A i, j \in DOMAIN put.pairs : i < j => put.pairs[i].key < put.pairs[j].key
  /\ ~(message = "DeviceOptions" /\ setOptions(rec) = {}) =>
       /\ arrives.ok <=> RefusedInMemory(rec) = ""
       /\ arrives.ok => arrives.rec = OptionsHeld(rec)
Written(rec, put) == SentAlike(rec, put, Decode(SentAs[message], put.pairs))
AgreedOn(b, rec) ==
  SteppedOver(b) =>
    /\ ReadAlike(clientDecode(ClientBodies[message], input), Decode(b, input))
    /\ Once /\ Held[message] \subseteq DOMAIN rec /\ "other" \notin DOMAIN rec =>
         Written(rec, WrittenFrom(rec))
BindingsAgree ==
  codec = "body" /\ message \in DOMAIN Held => AgreedOn(body, Collected(body, input))

(* The gate takes exactly the crosswalks whose rows each say one thing and *)
(* no two of which reach the same readings; whichever order the rows were  *)
(* typed in, a reading then has the word of the one row that outranks      *)
(* every other it matches; and no finding is left exactly when each word   *)
(* of the dataset is carried or explained, never both, and each live       *)
(* metric is carried or declared internal (resolve_crosswalk,              *)
(* dataset_name, crosswalk_findings).                                      *)
SmallReadings == [kind : 1..2, domain : 1..2, role : {NoPlace, 2}, point : 0..2, dir : 0..2]
Reach(row) ==
  IF Says(row, "kind") THEN {r \in SmallReadings : Matches(Carried(Small, row), r)} ELSE {}
Names(c, place) == c[place] # NoPlace
Outranks(a, b) ==
  \E p \in 1..3 :
    LET order == <<"role", "point", "dir">>
    IN /\ Names(a, order[p]) /\ ~Names(b, order[p])
       /\ \A q \in 1..(p - 1) : Names(a, order[q]) <=> Names(b, order[q])
WordOf(rows, reading) ==
  LET matching == {c \in rows : Matches(c, reading)}
      best     == {c \in matching : ~\E d \in matching : Outranks(d, c)}
  IN {c.name : c \in best}

Accounted(crosswalk, words, internal) ==
  LET carried == {Small.metrics[c.kind].name : c \in Range(crosswalk.carried)}
  IN /\ words = Words(crosswalk) \cup Absent(crosswalk)
     /\ Words(crosswalk) \cap Absent(crosswalk) = {}
     /\ carried \cup internal = {"temperature", "energy", "starts"}
     /\ carried \cap internal = {}
Resolves(rows) ==
  LET crosswalk == resolve_crosswalk(Small, rows)
  IN /\ crosswalk.ok <=>
          /\ Range(rows) \subseteq WellTyped
          /\ \A i, j \in DOMAIN rows : i # j /\ Reach(rows[i]) # {} => Reach(rows[i]) # Reach(rows[j])
     /\ \A order \in {Seqs!Reverse(rows), Tail(rows) \o <<rows[1]>>} :
          resolve_crosswalk(Small, order).carried = crosswalk.carried
     /\ crosswalk.ok =>
          /\ \A reading \in SmallReadings :
               LET word == dataset_name(crosswalk.carried, reading)
               IN WordOf(Range(crosswalk.carried), reading) = IF word = NoName THEN {} ELSE {word}
          /\ \A known \in SUBSET {"temperature", "bank", "energy", "humidity"} :
               \A internal \in SUBSET {"starts", "energy", "old temperature"} :
                 crosswalk_findings(Small, crosswalk, known, internal) = {} <=>
                   Accounted(crosswalk, known, internal)
CrosswalkDecides == codec = "crosswalk" /\ input # << >> => Resolves(input)

(* The registry the tables of this build were generated from, where it     *)
(* says more than they do: what is reserved, internal, and the dataset's   *)
(* words (protocol.toml, dataset-vocabulary.json).                         *)
Reserved == {"AC_ENERGY_IMPORTED", "AC_ENERGY_EXPORTED", "TIME_IN_BULK", "TIME_IN_ABSORPTION",
             "TIME_IN_FLOAT"}
Internal == {"TANK_SENDER_CURRENT", "GENERATOR_STARTS_SINCE_COMMISSIONING", "RUN_CONTACT_COMMANDED",
             "GENERATOR_SELECTOR_POSITION", "LAST_BOOT_REASON", "LOG_RING_UTILISATION"}
Vocabulary ==
  Range(DATASET_ABSENT) \cup
  {"ac-current", "ac-energy-today", "ac-energy-total", "ac-frequency", "ac-power", "ac-voltage",
   "battery-current", "battery-power", "battery-temperature", "battery-voltage", "charge-stage",
   "consumed-amp-hours", "generator-run-hours", "generator-run-state", "load-current",
   "load-power", "load-voltage", "pv-current", "pv-energy-today", "pv-energy-total", "pv-power",
   "pv-voltage", "state-of-charge", "tank-level", "temperature", "uptime"}
InSequence(set) == Sets!FoldSet(LAMBDA x, listed : Append(listed, x), << >>, set)
RowsOf(space, reserved) ==
  InSequence({Row(name, space[name], IF name \in reserved THEN "reserved" ELSE "live") :
                name \in DOMAIN space})
Protocol ==
  [metrics    |-> RowsOf(MetricKind, Reserved),
   condition  |-> RowsOf(Condition, DOMAIN Condition),
   enum_space |-> RowsOf(EnumSpace, DOMAIN EnumSpace),
   event_kind |-> RowsOf(EventKind, {}), error |-> RowsOf(ErrorCode, {}),
   component_role |-> RowsOf(ComponentRole, DOMAIN ComponentRole)]
Enums ==
  [PRESENCE |-> RowsOf(Presence, {}), CONTROL_OWNER |-> RowsOf(ControlOwner, {}),
   GENERATOR_STATE |-> RowsOf(GeneratorState, {}), CHARGE_STAGE |-> RowsOf(ChargeStage, {}),
   GENERATOR_SELECTOR |-> RowsOf(GeneratorSelector, {}),
   BOOT_REASON |-> Append(RowsOf(BootReason, {}), Row("BrownOut", 3, "retired"))]
Pairs(types) ==
  InSequence({[request |-> type, response |-> IF type + 128 \in types THEN type + 128 ELSE NoOpcode] :
                type \in {t \in types : t < 128}})

(* The tables of this build are what the gate would write and let through: *)
(* sorted where a lookup bisects and most specific first where it walks,   *)
(* so every row is found; each number allocated once; every word accounted *)
(* for, and in one unit wherever it is carried (METRIC_UNITS,              *)
(* ENUM_SPACE_MEMBERS, DATASET_METRICS, DATASET_ABSENT).                   *)
ReadingAt(c) == [kind |-> c.kind, domain |-> c.domain, role |-> c.role, point |-> c.point,
                 dir |-> c.dir]
GeneratedSound ==
  LET crosswalk == [ok |-> TRUE, carried |-> DATASET_METRICS, absent |-> DATASET_ABSENT]
      rows      == Range(DATASET_METRICS)
      kinds     == Range(Firsts(METRIC_UNITS))
  IN /\ SortSeq(DATASET_METRICS, Before) = DATASET_METRICS
     /\ \A c \in rows : dataset_name(DATASET_METRICS, ReadingAt(c)) = c.name
     /\ crosswalk_findings(Protocol, crosswalk, Vocabulary, Internal) = {}
     /\ \A c, d \in rows : c.name = d.name => unit_and_scale(c.kind) = unit_and_scale(d.kind)
     /\ rust_open_sets(METRIC_UNITS) = METRIC_UNITS
     /\ Range(MetricKind) \subseteq kinds
     /\ \A kind \in 0..2000 : unit_and_scale(kind) # NoUnit <=> kind \in kinds
     /\ rust_enum_space_members([enum_space |-> Protocol.enum_space, enums |-> Enums])
          = ENUM_SPACE_MEMBERS
     /\ \A space \in DOMAIN Enums : \A value \in 0..10 :
          names(EnumSpace[space], value) <=>
            \E i \in DOMAIN Emitted(Enums[space]) : Emitted(Enums[space])[i].number = value
     /\ members(EnumSpace.BALANCING) = NoMembers
     /\ no_number_is_allocated_twice(Protocol) /\ no_number_is_allocated_twice(Enums)
     /\ validate(Protocol, {"condition", "enum_space", "component_role"}, {"metric_kind", "event_kind"},
                 {[space |-> "condition", name |-> "VENDOR_FAULT"]},
                 Pairs(Range(MessageType)), Pairs(Range(LinkMessageType)))
TablesSound == codec = "opcode" /\ input = <<0>> => GeneratedSound

(* What six files say of a message byte, each in a table of its own, is    *)
(* one thing, and so are the envelopes of the two wires, the kinds of the  *)
(* controller's records, and what the error types say of a body that is    *)
(* refused (MessageType, admits, Direction, response_to, starting,         *)
(* arriving, client_type, About::addressed, ControllerRecord, refusal); and*)
(* a table looked up by number finds every row it has (dataset_name).      *)
TablesAgree ==
  /\ ClientTablesAgree /\ LinkTablesAgree /\ EnvelopesAgree
  /\ RecordsKept /\ RolesNested /\ TablesNamed /\ RefusalReadable /\ BindingsAgree
  /\ CrosswalkDecides /\ TablesSound

-----------------------------------------------------------------------------
(* Every size counted by hand is the size the encoder's own puts come to,  *)
(* and no message is built and then cannot be sent: whatever rows a page   *)
(* builder takes, in whatever mix, the page fits the payload round it, its *)
(* frame the receiver's buffer, and a client's write the operation's cap   *)
(* (limits.rs; Page::push, ReadingsPage::keep, ConcernsPage::push).        *)
BudgetsHold ==
  /\ codec = "page" => EnvelopeWeight(U16) = ENVELOPE_BYTES
  /\ codec = "body" /\ changes = 0 /\ message \in DOMAIN Weights =>
       Extremes[message].most \in Counted(message)
  /\ codec = "page" =>
       Sendable(message, Around(Builders[message]), RowBytes(Builders[message], input))
=============================================================================
