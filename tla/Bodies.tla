------------------------------- MODULE Bodies -------------------------------
(***************************************************************************)
(* What every body codec of the protocol has in common. A body is a CBOR   *)
(* map from small integer keys to values; here it is a sequence of pairs   *)
(* [key, value] in the order they arrive. The data is abstracted to        *)
(* numbers: an enum is its registry number, a string or a byte string is   *)
(* its length, an integer is a representative of its class (zero, a        *)
(* greatest legal value, one past it).                                     *)
(*                                                                         *)
(* A codec is described by data in the area modules. Its decoder names the *)
(* keys, what each key's value may be and the error for a value it may     *)
(* not, what becomes of a key it does not know, and the checks made after  *)
(* the loop, in order. Its encoder is described apart: the sequences of    *)
(* puts it can make, each with the pair count it declares first. The two   *)
(* halves are written by different hands and read by different programs,   *)
(* so nothing makes them agree but the properties of MCCodecs. A body with *)
(* two faults is refused for one of them; no property depends on which.    *)
(***************************************************************************)
EXTENDS Naturals, Sequences, FiniteSets, Functions, TLC

(* A registry number no build allocates, in every u8 registry used here.   *)
Unallocated == 200

(* Kinds of value: the legal representatives, and what a decoder answers   *)
(* to each representative it refuses.                                      *)
Kind(legal, illegal, err) == [legal |-> legal, wrong |-> [v \in illegal |-> err]]
Enum(registry, err) == Kind(Range(registry), {Unallocated}, err)
Fixed(n, err) == Kind({n}, {n - 1, n + 1}, err)
NonZero(err) == Kind({1, 2}, {0}, err)
UpTo(n, err) == Kind({0, n}, {n + 1}, err)
OneTo(n, empty, long) == [legal |-> {1, n}, wrong |-> (0 :> empty) @@ (n + 1 :> long)]
Numbers == {0, 1, 2}
Number == Kind(Numbers, {}, "none")

(* A check made after the loop: refused with err when the fields of        *)
(* "given" all arrived with a value in its set, those of "with" arrived    *)
(* and those of "without" did not.                                         *)
Refuse(err, given, with, without) ==
  [err |-> err, given |-> given, with |-> with, without |-> without]
Need(name) == Refuse("Missing", << >>, {}, {name})
Needs(names) == [i \in DOMAIN names |-> Need(names[i])]

(* One way an encoder writes: the declared count, then the puts in order,  *)
(* each a field with the values the encoder's types and checks let past.   *)
Put(name, values) == [name |-> name, values |-> values]
Writes(count, puts) == [count |-> count, puts |-> puts, free |-> {}, sent |-> TRUE]
(* An encoder that counts the values it holds: the fields of "free" may be *)
(* there or not.                                                           *)
WritesHeld(puts, free) == [count |-> Len(puts), puts |-> puts, free |-> free, sent |-> TRUE]
(* What the decoder takes on purpose though no encoder of this build       *)
(* writes it.                                                              *)
Tolerates(puts) == [count |-> Len(puts), puts |-> puts, free |-> {}, sent |-> FALSE]

(* unknown: "skip", or the error for a key outside "keys". loose: the      *)
(* fields whose decoder is meant to take more than the encoder writes.     *)
Body(keys, fields, unknown, after, writes, loose) ==
  [keys |-> keys, fields |-> fields, unknown |-> unknown, after |-> after,
   writes |-> writes, loose |-> loose]

At(key, value) == [key |-> key, value |-> value]
Known(b) == Range(b.keys)
NameOf(b, key) == CHOOSE name \in DOMAIN b.keys : b.keys[name] = key

(* Seeded fault: a decoder that insists on the encoder's order.            *)
FaultAtInOrderOnly(b, pairs, i) ==
  LET key == pairs[i].key
  IN IF \E j \in 1..(i - 1) : pairs[j].key >= key THEN "RepeatedKey"
     ELSE IF key \notin Known(b) THEN IF b.unknown = "skip" THEN "" ELSE b.unknown
     ELSE LET wrong == b.fields[NameOf(b, key)].wrong
          IN IF pairs[i].value \in DOMAIN wrong THEN wrong[pairs[i].value] ELSE ""

(* The error a decoder's loop meets at pair i, "" for none: the value is   *)
(* parsed before the slot is found taken, and a key the decoder steps over *)
(* is still one the reader refuses twice (the CBOR reader's own check).    *)
FaultAt(b, pairs, i) ==
  LET key == pairs[i].key
      twice == \E j \in 1..(i - 1) : pairs[j].key = key
  IN IF key \notin Known(b)
     THEN IF b.unknown # "skip" THEN b.unknown
          ELSE IF twice THEN "RepeatedKey" ELSE ""
     ELSE LET wrong == b.fields[NameOf(b, key)].wrong
          IN IF pairs[i].value \in DOMAIN wrong THEN wrong[pairs[i].value]
             ELSE IF twice THEN "Duplicate" ELSE ""

(* The fields the loop collected.                                          *)
Collected(b, pairs) ==
  LET at(name) == CHOOSE i \in DOMAIN pairs : pairs[i].key = b.keys[name]
  IN [name \in {n \in DOMAIN b.keys : \E i \in DOMAIN pairs : pairs[i].key = b.keys[n]}
        |-> pairs[at(name)].value]

Applies(check, rec) ==
  /\ \A name \in DOMAIN check.given : name \in DOMAIN rec /\ rec[name] \in check.given[name]
  /\ check.with \subseteq DOMAIN rec
  /\ check.without \cap DOMAIN rec = {}

First(S) == CHOOSE i \in S : \A j \in S : i <= j

(* What a decoder answers: the first fault of the loop, then the first     *)
(* check after it that applies, then the record.                           *)
DecodeBy(fault, b, pairs) ==
  LET faults == {i \in DOMAIN pairs : fault[i] # ""}
      rec == Collected(b, pairs)
      checks == {i \in DOMAIN b.after : Applies(b.after[i], rec)}
  IN IF faults # {} THEN [ok |-> FALSE, err |-> fault[First(faults)], rec |-> << >>]
     ELSE IF checks # {} THEN [ok |-> FALSE, err |-> b.after[First(checks)].err, rec |-> << >>]
     ELSE [ok |-> TRUE, err |-> "", rec |-> rec]
Decode(b, pairs) == DecodeBy([i \in DOMAIN pairs |-> FaultAt(b, pairs, i)], b, pairs)

(* A client's loop (packages/km43): a key it has read is refused before    *)
(* its value is looked at, so once, which would refuse it too, never does. *)
clientFaultAt(b, pairs, i) ==
  LET key == pairs[i].key
      value == pairs[i].value
      twice == \E j \in 1..(i - 1) : pairs[j].key = key
  IN IF twice THEN "cbor"
     ELSE IF key \in Known(b) /\ value \in DOMAIN b.fields[NameOf(b, key)].wrong
     THEN b.fields[NameOf(b, key)].wrong[value] ELSE ""

clientDecode(b, pairs) == DecodeBy([i \in DOMAIN pairs |-> clientFaultAt(b, pairs, i)], b, pairs)

(* CborWriter: keys go up, and finish refuses a map that is not the size   *)
(* its head declared.                                                      *)
Finishes(b, w) ==
  /\ w.count = Len(w.puts)
  /\ \A i \in 1..(Len(w.puts) - 1) : b.keys[w.puts[i].name] < b.keys[w.puts[i + 1].name]

(* The record is one the puts of w write.                                  *)
WrittenBy(b, w, rec) ==
  /\ LET names == {w.puts[i].name : i \in DOMAIN w.puts}
     IN (names \ w.free) \subseteq DOMAIN rec /\ DOMAIN rec \subseteq names
  /\ \A i \in DOMAIN w.puts :
       \/ w.puts[i].name \in b.loose
       \/ w.puts[i].name \notin DOMAIN rec
       \/ rec[w.puts[i].name] \in w.puts[i].values
=============================================================================
