---------------------------- MODULE PlaneBodies -----------------------------
(***************************************************************************)
(* What a client reads of the plant. The rows of the inventory and the two *)
(* bodies that page them (inventory.rs): a row kind is a table of fields,  *)
(* and Row::new checks the values against it for the writer and, after     *)
(* RowSlots::decode, for the reader. The hot plane: readings               *)
(* (readings.rs), the change records (changes.rs) and concerns             *)
(* (concerns.rs).                                                          *)
(***************************************************************************)
EXTENDS Bodies, Registry

(* 1 stands for text, bytes or a number of the right width; a list of      *)
(* commands is its length.                                                 *)
Plainly(names) == [name \in names |-> Number]
Cmds == [legal |-> {1, MAX_COMPONENT_CMDS},
         wrong |-> (0 :> "EmptyCmds") @@ (MAX_COMPONENT_CMDS + 1 :> "TooManyCmds")]
(* members_hold comes after the loop, so a stray number reads.             *)
Closed(registry) == Kind(Range(registry) \cup {Unallocated}, {}, "none")
NotAMember(name) == Refuse("NotAMember", name :> {Unallocated}, {}, {})
ReservedZero(name) == Refuse("ReservedZero", name :> {0}, {}, {})

(* Seeded fault: only the missing half is checked.                         *)
IffMissingOnly(name, trigger, when, unless) ==
  <<Refuse("MissingConditional", trigger :> when, {}, {name})>>

(* conditions_hold: "name" is there exactly when the trigger is in "when". *)
Iff(name, trigger, when, unless) ==
  <<Refuse("MissingConditional", trigger :> when, {}, {name}),
    Refuse("UnexpectedConditional", trigger :> unless, {name}, {})>>

VENDOR_RANGE == 61440
Kinds == {1, MetricKind.DC_ENERGY, MetricKind.DC_CHARGE, VENDOR_RANGE}
OneWay == {MetricKind.DC_ENERGY, MetricKind.DC_CHARGE}
VendorKinds == {k \in Kinds : k >= VENDOR_RANGE}
SERIES == Shape.Series
FromASpace == {Vtype.Enum, Vtype.Flags}
MAX_U16 == 65535

(* a_dc_counter_counts_one_way: a total of energy or charge is a counter   *)
(* with a direction.                                                       *)
CountsOneWay ==
  LET dc(more) == "kind" :> OneWay @@ more
      wrong(more, without) == Refuse("CounterNotOneWay", dc(more), {}, without)
  IN <<wrong("vtype" :> (Range(Vtype) \ {Vtype.Counter}), {}), wrong(<< >>, {"dir"}),
       wrong("dir" :> {Direction.MagnitudeOnly}, {})>>

(* every_element_can_be_named: two to MAX_SERIES_LEN elements, and the     *)
(* last label still a u16.                                                 *)
EveryElementNamed ==
  <<Refuse("SeriesTooShort", "n" :> {1}, {}, {}),
    Refuse("SeriesTooLong", "n" :> {MAX_SERIES_LEN + 1}, {}, {}),
    Refuse("LabelPastRange", [n |-> {2, MAX_SERIES_LEN}, ebase |-> {MAX_U16}], {}, {})>>

-----------------------------------------------------------------------------
BusFields == [bus |-> 1, transport |-> 2, label |-> 3, rate |-> 4]
BusRow ==
  Body(BusFields, Plainly({"bus", "label", "rate"}) @@ [transport |-> Closed(Transport)], "skip",
       Needs(<<"bus", "transport">>) \o <<NotAMember("transport")>>,
       {WritesHeld(<<Put("bus", Numbers), Put("transport", Range(Transport)), Put("label", Numbers),
                     Put("rate", Numbers)>>, {"label", "rate"})}, {})

DeviceFields ==
  [dev |-> 1, bus |-> 2, addr |-> 3, product |-> 4, dialect |-> 5, role |-> 6, parent |-> 7,
   serial |-> 8, hw |-> 9, fw |-> 10, label |-> 11, since |-> 12, cmds |-> 13]
DeviceRow ==
  LET all == <<"dev", "bus", "addr", "product", "dialect", "role", "parent", "serial", "hw", "fw",
               "label", "since", "cmds">>
      optional == {"addr", "parent", "serial", "hw", "fw", "label", "cmds"}
      values == [name \in Range(all) |-> IF name = "cmds" THEN Cmds.legal ELSE Numbers]
  IN Body(DeviceFields, ("cmds" :> Cmds) @@ Plainly(Range(all)), "skip",
       Needs(<<"dev", "bus", "product", "dialect", "role", "since">>),
       {WritesHeld([i \in DOMAIN all |-> Put(all[i], values[all[i]])], optional)}, {})

ComponentFields ==
  [cmp |-> 1, dev |-> 2, parent |-> 3, role |-> 4, index |-> 5, rollup |-> 6, label |-> 7,
   cmds |-> 8, since |-> 9]
ComponentRow ==
  LET all == <<"cmp", "dev", "parent", "role", "index", "rollup", "label", "cmds", "since">>
      optional == {"parent", "index", "rollup", "label", "cmds"}
      values == [name \in Range(all) |-> IF name = "cmds" THEN Cmds.legal
                                         ELSE IF name = "cmp" THEN {1, 2} ELSE Numbers]
  IN Body(ComponentFields, ("cmds" :> Cmds) @@ Plainly(Range(all)), "skip",
       <<ReservedZero("cmp")>> \o Needs(<<"cmp", "dev", "role", "since">>),
       {WritesHeld([i \in DOMAIN all |-> Put(all[i], values[all[i]])], optional)}, {})

SignalFields ==
  [sig |-> 1, dev |-> 2, cmp |-> 3, kind |-> 4, shape |-> 5, vtype |-> 6, domain |-> 7,
   point |-> 8, dir |-> 9, n |-> 10, erole |-> 11, ebase |-> 12, esp |-> 13, unit |-> 14,
   scale |-> 15, vns |-> 16, hist |-> 17, label |-> 18]
(* Row::labels, of a row the codec let past: what the elements of a series *)
(* are called (ElementLabels), and the label of the element at a position. *)
UNLABELLED == 1
IsSeries(row) == row.shape = SERIES /\ "n" \in DOMAIN row
labels(row) ==
  [base |-> IF "ebase" \in DOMAIN row THEN row.ebase ELSE UNLABELLED, elements |-> row.n]
LabelError(named, at) ==
  IF at > named.elements THEN "PositionPastSeries"
  ELSE IF named.base + at - 1 > MAX_U16 THEN "LabelPastRange" ELSE ""

(* RowKind: the table a page's number names, and the number of a table.    *)
RowKinds == {"BusRow", "DeviceRow", "ComponentRow", "SignalRow", "ParamRow"}
number(kind) ==
  [BusRow |-> InventoryKind.Buses, DeviceRow |-> InventoryKind.Devices,
   ComponentRow |-> InventoryKind.Components, SignalRow |-> InventoryKind.Signals,
   ParamRow |-> InventoryKind.Parameters][kind]
from_number(what) ==
  IF what = InventoryKind.Buses THEN "BusRow" ELSE IF what = InventoryKind.Devices THEN "DeviceRow"
  ELSE IF what = InventoryKind.Components THEN "ComponentRow"
  ELSE IF what = InventoryKind.Signals THEN "SignalRow"
  ELSE IF what = InventoryKind.Parameters THEN "ParamRow" ELSE "UnknownKind"

OfAVendor == <<"unit", "scale", "vns">>
VendorIff(i) == Iff(OfAVendor[i], "kind", VendorKinds, Kinds \ VendorKinds)

(* What Row::new lets a signal be, by the three questions it asks.         *)
SignalValues(kind, series, space) ==
  [kind |-> kind, shape |-> IF series THEN {SERIES} ELSE Range(Shape) \ {SERIES},
   vtype |-> IF kind \subseteq OneWay THEN {Vtype.Counter}
             ELSE IF space THEN FromASpace ELSE Range(Vtype) \ FromASpace,
   domain |-> Range(SignalDomain), sig |-> {1, 2}, n |-> {2, MAX_SERIES_LEN},
   dir |-> IF kind \subseteq OneWay THEN {Direction.PositiveIsIn, Direction.PositiveIsOut}
           ELSE Range(Direction),
   ebase |-> IF series THEN {0, 1} ELSE {0, 1, MAX_U16}, hist |-> Range(Bucket)]
    @@ [name \in DOMAIN SignalFields |-> Numbers]
SignalPuts(kind, series, space) ==
  LET all == <<"sig", "dev", "cmp", "kind", "shape", "vtype", "domain", "point", "dir">>
               \o (IF series THEN <<"n">> ELSE << >>) \o <<"erole", "ebase">>
               \o (IF space THEN <<"esp">> ELSE << >>)
               \o (IF kind \subseteq VendorKinds THEN OfAVendor ELSE << >>) \o <<"hist", "label">>
  IN [i \in DOMAIN all |-> Put(all[i], SignalValues(kind, series, space)[all[i]])]
SignalFree(kind) ==
  {"point", "erole", "ebase", "hist", "label"} \cup (IF kind \subseteq OneWay THEN {} ELSE {"dir"})

SignalRow ==
  Body(SignalFields,
       [kind |-> Kind(Kinds, {}, "none"), shape |-> Closed(Shape), vtype |-> Closed(Vtype),
        domain |-> Closed(SignalDomain), dir |-> Closed(Direction), hist |-> Closed(Bucket),
        n |-> Kind({1, 2, MAX_SERIES_LEN, MAX_SERIES_LEN + 1}, {}, "none"),
        ebase |-> Kind({0, 1, MAX_U16}, {}, "none")]
         @@ Plainly(DOMAIN SignalFields),
       "skip",
       <<ReservedZero("sig")>>
         \o Needs(<<"sig", "dev", "cmp", "kind", "shape", "vtype", "domain">>)
         \o <<NotAMember("shape"), NotAMember("vtype"), NotAMember("domain"), NotAMember("dir"),
              NotAMember("hist")>>
         \o Iff("n", "shape", {SERIES}, Range(Shape) \ {SERIES})
         \o Iff("esp", "vtype", FromASpace, Range(Vtype) \ FromASpace)
         \o VendorIff(1) \o VendorIff(2) \o VendorIff(3)
         \o EveryElementNamed \o CountsOneWay,
       {WritesHeld(SignalPuts(kind, series, space), SignalFree(kind))
          : kind \in {Kinds \ (VendorKinds \cup OneWay), VendorKinds}, series \in BOOLEAN,
            space \in BOOLEAN}
         \cup {WritesHeld(SignalPuts(OneWay, series, FALSE), SignalFree(OneWay))
                 : series \in BOOLEAN},
       {})

ParamFields ==
  [pid |-> 1, dev |-> 2, cmp |-> 3, kind |-> 4, v |-> 5, vtype |-> 6, domain |-> 7, point |-> 8,
   dir |-> 9, esp |-> 10, lo |-> 11, hi |-> 12, via |-> 13, unit |-> 14, scale |-> 15, vns |-> 16,
   label |-> 17]
ParamPuts(kind, space) ==
  LET all == <<"pid", "dev", "cmp", "kind", "v", "vtype", "domain", "point", "dir">>
               \o (IF space THEN <<"esp">> ELSE << >>) \o <<"lo", "hi", "via">>
               \o (IF kind \subseteq VendorKinds THEN OfAVendor ELSE << >>) \o <<"label">>
      values == SignalValues(kind, FALSE, space) @@ [name \in DOMAIN ParamFields |-> Numbers]
  IN [i \in DOMAIN all |-> Put(all[i], values[all[i]])]
ParamFree(kind) ==
  {"v", "point", "lo", "hi", "via", "label"} \cup (IF kind \subseteq OneWay THEN {} ELSE {"dir"})

ParamRow ==
  Body(ParamFields,
       [kind |-> Kind(Kinds, {}, "none"), vtype |-> Closed(Vtype), domain |-> Closed(SignalDomain),
        dir |-> Closed(Direction)] @@ Plainly(DOMAIN ParamFields),
       "skip",
       Needs(<<"pid", "dev", "cmp", "kind", "vtype", "domain">>)
         \o <<NotAMember("vtype"), NotAMember("domain"), NotAMember("dir")>>
         \o Iff("esp", "vtype", FromASpace, Range(Vtype) \ FromASpace)
         \o VendorIff(1) \o VendorIff(2) \o VendorIff(3) \o CountsOneWay,
       {WritesHeld(ParamPuts(kind, space), ParamFree(kind))
          : kind \in {Kinds \ (VendorKinds \cup OneWay), VendorKinds}, space \in BOOLEAN}
         \cup {WritesHeld(ParamPuts(OneWay, FALSE), ParamFree(OneWay))},
       {})

-----------------------------------------------------------------------------
ReadInventoryKey == [rev |-> 1, what |-> 2, from |-> 3, dev |-> 4]
ReadInventory ==
  LET puts == <<Put("rev", Numbers), Put("what", Numbers), Put("from", Numbers)>>
  IN Body(ReadInventoryKey, Plainly(DOMAIN ReadInventoryKey), "skip", Needs(<<"rev", "what", "from">>),
       {Writes(3, puts), Writes(4, puts \o <<Put("dev", Numbers)>>)}, {})

InventoryKey ==
  [rev |-> 1, what |-> 2, rows |-> 3, next |-> 4, total |-> 5, outcome |-> 6, digest |-> 7]
InventoryPuts(rows, next, outcomes, digest) ==
  <<Put("rev", Numbers), Put("what", Numbers), Put("rows", rows), Put("next", next),
    Put("total", Numbers), Put("outcome", outcomes)>>
    \o (IF digest THEN <<Put("digest", {8})>> ELSE << >>)
(* InventoryBody::encode read back by InventoryHeader::decode. A refusal   *)
(* is read with a cursor beside it, which the other two planes refuse.     *)
InventoryBody ==
  LET refused == Range(Inventory) \ {Inventory.Ok}
      none(more, with) == Refuse("AnsweredNothing", "outcome" :> refused @@ more, with, {})
  IN Body(InventoryKey,
       Plainly({"rev", "what", "rows", "next", "total"})
         @@ [outcome |-> Kind(Range(Inventory) \cup {Unallocated}, {}, "none"),
             digest |-> Fixed(8, "DigestWidth")],
       "skip",
       <<Need("outcome"), Refuse("UnknownOutcome", [outcome |-> {Unallocated}], {}, {}),
         Need("next"), Need("rows"), none("rows" :> {1, 2}, {}), none(<< >>, {"digest"}),
         Refuse("DigestMidWalk", [next |-> {1, 2}], {"digest"}, {})>>
         \o Needs(<<"rev", "what", "total">>),
       {Writes(6, InventoryPuts(Numbers, Numbers, {Inventory.Ok}, FALSE)),
        Writes(6 + 1, InventoryPuts(Numbers, {0}, {Inventory.Ok}, TRUE)),
        Writes(6, InventoryPuts({0}, {0}, refused, FALSE)),
        Tolerates(InventoryPuts({0}, {1, 2}, refused, FALSE))},
       {})

InventoryMessages ==
  [BusRow |-> BusRow, DeviceRow |-> DeviceRow, ComponentRow |-> ComponentRow,
   SignalRow |-> SignalRow, ParamRow |-> ParamRow, ReadInventory |-> ReadInventory,
   InventoryBody |-> InventoryBody]

-----------------------------------------------------------------------------
(* The hot plane.                                                          *)

(* SignalQuality: validity above, provenance below. The number goes with   *)
(* ok, stale and reset only, and a provenance with a number only.          *)
pack(validity, provenance) == 16 * validity + provenance
has_value == {Validity.Ok, Validity.Stale, Validity.Reset}
carrying == {pack(v, p) : v \in has_value, p \in Range(Provenance) \ {Provenance.None}}
absent == {pack(v, Provenance.None) : v \in Range(Validity) \ has_value}

from_byte(raw) ==
  LET validity == raw \div 16
      provenance == raw % 16
  IN IF validity \notin Range(Validity) THEN "UnknownValidity"
     ELSE IF provenance \notin Range(Provenance) THEN "UnknownProvenance"
     ELSE IF (validity \in has_value) = (provenance = Provenance.None) THEN "Disagree"
     ELSE ""

(* One byte of each kind from_byte tells apart.                            *)
Bytes == {pack(Validity.Ok, Provenance.Measured), pack(Validity.Reset, Provenance.Counted),
          pack(Validity.Stale, Provenance.Counted), pack(Validity.Absent, Provenance.None),
          pack(15, Provenance.Measured), pack(Validity.Ok, 15),
          pack(Validity.Ok, Provenance.None), pack(Validity.Absent, Provenance.Measured)}
Sound == Bytes \cap (carrying \cup absent)
Stale == {b \in Sound : b \div 16 = Validity.Stale}
QualityAt(name) ==
  [i \in 1..3 |->
     LET err == <<"UnknownValidity", "UnknownProvenance", "Disagree">>[i]
     IN Refuse(err, name :> {b \in Bytes : from_byte(b) = err}, {}, {})]
QualityByte == [legal |-> {b \in Bytes : from_byte(b) = ""},
             wrong |-> [b \in {c \in Bytes : from_byte(c) # ""} |-> from_byte(b)]]

SampleKey == [sig |-> 1, value |-> 2, q |-> 3, age |-> 4]
(* Sample::new refuses a value, or an age, the quality does not call for.  *)
Sample ==
  LET valued == Sound \cap carrying
      sig == Put("sig", {1, 2})
      puts(q) == <<sig, Put("value", Numbers), Put("q", q)>>
  IN Body(SampleKey,
       [sig |-> NonZero("ZeroId"), value |-> Number, q |-> Kind(Bytes, {}, "none"),
        age |-> Number],
       "skip",
       Needs(<<"sig", "q">>) \o QualityAt("q")
         \o <<Refuse("ValueOmitted", [q |-> valued], {}, {"value"}),
              Refuse("NoValueToCarry", [q |-> Sound \ valued], {"value"}, {}),
              Refuse("StaleWithoutAge", [q |-> Stale], {}, {"age"}),
              Refuse("AgeWithoutStaleness", [q |-> Sound \ Stale], {"age"}, {})>>,
       {Writes(2 + 1, puts(valued \ Stale)), Writes(2, <<sig, Put("q", Sound \ valued)>>),
        Writes(2 + 1 + 1, puts(Stale) \o <<Put("age", Numbers)>>)},
       {})

(* A series' quality bytes, as how many there are, how many carry a value  *)
(* and whether one is stale.                                               *)
Strip(elements, with_value, stale) == 100 * elements + 10 * with_value + stale
Elements(strip) == strip \div 100
WithValue(strip) == (strip % 100) \div 10
Strips == {Strip(n, c, s) : n \in {1, 2, MAX_SERIES_LEN, MAX_SERIES_LEN + 1}, c \in {0, 1}, s \in {0}}
            \cup {Strip(2, 1, 1)}
StaleStrips == {s \in Strips : s % 10 = 1}
SeriesLengths == {s \in Strips : Elements(s) >= 2 /\ Elements(s) <= MAX_SERIES_LEN}

Series ==
  LET counts == {0, 1}
      puts(s) == <<Put("sig", {1, 2}), Put("q", {s}), Put("values", {WithValue(s)})>>
  IN Body([sig |-> 1, q |-> 2, values |-> 3, age |-> 4],
       [sig |-> NonZero("ZeroId"), q |-> Kind(Strips, {0}, "Quality"),
        values |-> Kind(counts, {}, "none"), age |-> Number],
       "skip",
       Needs(<<"q", "values">>)
         \o <<Refuse("ValueCount", [q |-> {s \in Strips : WithValue(s) = 0}, values |-> {1}], {}, {}),
              Refuse("ValueCount", [q |-> {s \in Strips : WithValue(s) = 1}, values |-> {0}], {}, {}),
              Refuse("SeriesLength", [q |-> Strips \ SeriesLengths], {}, {}),
              Refuse("StaleWithoutAge", [q |-> StaleStrips], {}, {"age"}),
              Refuse("AgeWithoutStaleness", [q |-> Strips \ StaleStrips], {"age"}, {}),
              Need("sig")>>,
       {IF s \in StaleStrips THEN Writes(3 + 1, puts(s) \o <<Put("age", Numbers)>>)
        ELSE Writes(3, puts(s)) : s \in SeriesLengths},
       {})

(* Sel names exactly one of the three.                                     *)
Sel ==
  LET keys == [dev |-> 1, cmp |-> 2, sig |-> 3]
      two(a, b) == Refuse("SelectorNamesNotOne", << >>, {a, b}, {})
  IN Body(keys, [name \in DOMAIN keys |-> NonZero("ZeroId")], "UnknownSelectorKey",
       <<Refuse("SelectorNamesNotOne", << >>, {}, DOMAIN keys),
         two("dev", "cmp"), two("dev", "sig"), two("cmp", "sig")>>,
       {Writes(1, <<Put(name, {1, 2})>>) : name \in DOMAIN keys},
       {})

(* An empty list of selectors is taken as no list.                         *)
ReadSignals ==
  LET among(sel) == <<Put("rev", Numbers), Put("sel", sel), Put("from", Numbers)>>
  IN Body([rev |-> 1, sel |-> 2, from |-> 3],
       [rev |-> Number, sel |-> Kind({0, 1, MAX_SELECTORS}, {MAX_SELECTORS + 1}, "TooManySelectors"),
        from |-> Number],
       "skip", Needs(<<"rev", "from">>),
       {Writes(2, <<Put("rev", Numbers), Put("from", Numbers)>>),
        Writes(3, among({1, MAX_SELECTORS})), Tolerates(among({0}))},
       {})

(* The fields a page-shaped answer needs whatever its outcome, and the     *)
(* refusal of an answer that gave nothing yet carries rows or a cursor.    *)
Answers(outcomes) == Kind(Range(outcomes) \cup {Unallocated}, {}, "none")
Opened ==
  <<Need("outcome"), Refuse("UnknownOutcome", [outcome |-> {Unallocated}], {}, {}), Need("next")>>
Nothing(refused, name, some) ==
  Refuse("AnsweredNothing", "outcome" :> refused @@ name :> some, {}, {})

ReadingsKey ==
  [seq |-> 1, rev |-> 2, at |-> 3, samples |-> 4, series |-> 5, next |-> 6, total |-> 7,
   outcome |-> 8]
ReadingsPuts(S, rows, next, outcomes) ==
  <<Put("seq", Numbers), Put("rev", Numbers)>>
    \o (IF "at" \in S THEN <<Put("at", Numbers)>> ELSE << >>)
    \o (IF "samples" \in S THEN <<Put("samples", rows)>> ELSE << >>)
    \o (IF "series" \in S THEN <<Put("series", rows)>> ELSE << >>)
    \o <<Put("next", next), Put("total", Numbers), Put("outcome", outcomes)>>
(* ReadingsBody::encode read back by ReadingsHeader::decode, which counts  *)
(* the rows and caps neither count.                                        *)
ReadingsBody ==
  LET refused == Range(Readings) \ {Readings.Ok}
  IN Body(ReadingsKey,
       [name \in DOMAIN ReadingsKey \ {"outcome"} |-> Number] @@ [outcome |-> Answers(Readings)],
       "skip",
       Opened \o <<Nothing(refused, "next", {1, 2}), Nothing(refused, "samples", {1, 2}),
                   Nothing(refused, "series", {1, 2})>>
         \o Needs(<<"seq", "rev", "total">>),
       {Writes(5 + Cardinality(S), ReadingsPuts(S, {1, 2}, Numbers, {Readings.Ok}))
          : S \in SUBSET {"at", "samples", "series"}}
         \cup {Writes(5 + Cardinality(S), ReadingsPuts(S, {1, 2}, {0}, refused))
                 : S \in SUBSET {"at"}}
         \cup {Tolerates(ReadingsPuts(S, {0}, {0}, refused))
                 : S \in SUBSET {"at", "samples", "series"}},
       {"samples", "series"})

-----------------------------------------------------------------------------
(* VChange and PChange: a change from a state to itself is refused on both *)
(* sides.                                                                  *)
Went(name, values) ==
  LET in == CHOOSE s \in [1..Cardinality(values) -> values] : Range(s) = values
  IN [i \in DOMAIN in |-> Refuse("WentNowhere", name :> {in[i]} @@ "prev" :> {in[i]}, {}, {})]
Moves(key, name, values) ==
  {Writes(3, <<Put(key, {1, 2}), Put(name, {v}), Put("prev", values \ {v})>>) : v \in values}

VChange ==
  Body([sig |-> 1, q |-> 2, prev |-> 3],
       [sig |-> NonZero("ZeroId"), q |-> QualityByte, prev |-> QualityByte], "skip",
       Needs(<<"q", "prev">>) \o Went("q", Sound) \o Needs(<<"sig">>),
       Moves("sig", "q", Sound), {})

PChange ==
  Body([dev |-> 1, presence |-> 2, prev |-> 3],
       [dev |-> NonZero("ZeroId"), presence |-> Enum(Presence, "UnknownPresence"),
        prev |-> Enum(Presence, "UnknownPresence")],
       "skip",
       Needs(<<"presence", "prev">>) \o Went("presence", Range(Presence)) \o Needs(<<"dev">>),
       Moves("dev", "presence", Range(Presence)), {})

(* The two sweeps: how many entries, of which a build writes at most rows. *)
Sweep(rows) ==
  LET puts(n) == <<Put("rev", Numbers), Put("entries", n)>>
  IN Body([rev |-> 1, entries |-> 2],
       [rev |-> Number, entries |-> Kind({0, 1, rows, rows + 1}, {}, "none")], "skip",
       Needs(<<"rev", "entries">>) \o <<Refuse("NothingChanged", [entries |-> {0}], {}, {})>>,
       {Writes(2, puts({1, rows})), Tolerates(puts({rows + 1}))}, {})
ValidityChanged == Sweep(MAX_VALIDITY_SWEEP)
PresenceChanged == Sweep(MAX_PRESENCE_SWEEP)

TopologyChanged ==
  LET all == <<"rev", "reason", "added", "removed">>
  IN Body([rev |-> 1, reason |-> 2, added |-> 3, removed |-> 4],
       [name \in Range(all) \ {"reason"} |-> Number]
         @@ [reason |-> Enum(TopologyChangeReason, "UnknownReason")],
       "skip", Needs(all),
       {Writes(4, <<Put("rev", Numbers), Put("reason", Range(TopologyChangeReason)),
                    Put("added", Numbers), Put("removed", Numbers)>>)}, {})

-----------------------------------------------------------------------------
ConcernKey ==
  [cid |-> 1, dev |-> 2, cmp |-> 3, sig |-> 4, elem |-> 5, cond |-> 6, sev |-> 7, state |-> 8,
   age |-> 9, since |-> 10, raw |-> 11, vns |-> 12, seq |-> 13]

(* Subject: a part, a signal of it, an element of the signal.              *)
Subjects == {{}, {"sig"}, {"sig", "elem"}}
(* Condition::needs_vendor_code: one condition only means something beside *)
(* the vendor's own number.                                                *)
NeedsCode == CONDITION_NEEDS_VENDOR_CODE

ConcernPairs(subject, since, code) ==
  8 + Cardinality(subject) + (IF since THEN 1 ELSE 0) + (IF code THEN 2 ELSE 0)
ConcernPuts(subject, since, code) ==
  LET held(some, put) == IF some THEN <<put>> ELSE << >>
  IN <<Put("cid", {1, 2}), Put("dev", {1, 2}), Put("cmp", Numbers)>>
       \o held("sig" \in subject, Put("sig", {1, 2}))
       \o held("elem" \in subject, Put("elem", {1, MAX_SERIES_LEN}))
       \o <<Put("cond", {1} \cup (IF code THEN NeedsCode ELSE {})), Put("sev", Range(Severity)),
            Put("state", Range(ConcernState)), Put("age", Numbers)>>
       \o held(since, Put("since", Numbers))
       \o held(code, Put("raw", Numbers)) \o held(code, Put("vns", Numbers))
       \o <<Put("seq", Numbers)>>

Concern ==
  Body(ConcernKey,
       [name \in {"cid", "dev", "sig"} |-> NonZero("ZeroId")]
         @@ [elem |-> OneTo(MAX_SERIES_LEN, "ZeroElement", "ElementPastSeries"),
             cond |-> Kind({1} \cup NeedsCode, {}, "none"),
             sev |-> Enum(Severity, "UnknownSeverity"),
             state |-> Enum(ConcernState, "UnknownState")]
         @@ [name \in {"cmp", "age", "since", "raw", "vns", "seq"} |-> Number],
       "skip",
       Needs(<<"cmp", "dev">>)
         \o <<Refuse("ElementWithoutSignal", << >>, {"elem"}, {"sig"}),
              Refuse("CodeWithoutNamespace", << >>, {"raw"}, {"vns"}),
              Refuse("NamespaceWithoutCode", << >>, {"vns"}, {"raw"}), Need("cond"),
              Refuse("ConditionWithoutCode", [cond |-> NeedsCode], {}, {"raw"})>>
         \o Needs(<<"cid", "sev", "state", "age", "seq">>),
       {Writes(ConcernPairs(subject, since, code), ConcernPuts(subject, since, code))
          : subject \in Subjects, since \in BOOLEAN, code \in BOOLEAN},
       {})

(* The row inside is 1 when Concern::decode takes it.                      *)
ConcernRaised ==
  Body([rev |-> 1, concern |-> 2], [rev |-> Number, concern |-> Kind({1}, {0}, "Concern")], "skip",
       Needs(<<"rev", "concern">>), {Writes(2, <<Put("rev", Numbers), Put("concern", {1})>>)}, {})

(* The decoder refuses a change to the state it was already in; the        *)
(* encoder, though its documentation says so, does not.                    *)
ConcernChanged ==
  LET states == Range(ConcernState)
  IN Body([rev |-> 1, cid |-> 2, dev |-> 3, cond |-> 4, state |-> 5, prev |-> 6],
       [rev |-> Number, cid |-> NonZero("ZeroId"), dev |-> NonZero("ZeroId"), cond |-> Number,
        state |-> Enum(ConcernState, "UnknownState"), prev |-> Enum(ConcernState, "UnknownState")],
       "skip",
       Needs(<<"state", "prev">>) \o Went("state", states) \o Needs(<<"rev", "cid", "dev", "cond">>),
       {Writes(6, <<Put("rev", Numbers), Put("cid", {1, 2}), Put("dev", {1, 2}), Put("cond", Numbers),
                    Put("state", {s}), Put("prev", {p})>>) : s, p \in states},
       {})

ReadConcerns ==
  LET all == <<"rev", "from">>
  IN Body([rev |-> 1, from |-> 2], [name \in Range(all) |-> Number], "skip", Needs(all),
       {Writes(2, <<Put("rev", Numbers), Put("from", Numbers)>>)}, {})

ConcernsKey ==
  [rev |-> 1, seq |-> 2, rows |-> 3, next |-> 4, total |-> 5, refused |-> 6, outcome |-> 7]
ConcernsPuts(rows, next, outcomes) ==
  <<Put("rev", Numbers), Put("seq", Numbers)>>
    \o (IF rows = {} THEN << >> ELSE <<Put("rows", rows)>>)
    \o <<Put("next", next), Put("total", Numbers), Put("refused", Numbers),
         Put("outcome", outcomes)>>
(* ConcernsBody::encode read back by ConcernsHeader::decode.               *)
ConcernsBody ==
  LET refused == Range(Concerns) \ {Concerns.Ok}
      some == {1, MAX_CONCERN_PAGE_ROWS}
  IN Body(ConcernsKey,
       [name \in DOMAIN ConcernsKey \ {"outcome", "rows"} |-> Number]
         @@ [rows |-> Kind({0, MAX_CONCERN_PAGE_ROWS + 1} \cup some, {}, "none"),
             outcome |-> Answers(Concerns)],
       "skip",
       Opened \o <<Nothing(refused, "next", {1, 2}),
                   Nothing(refused, "rows", some \cup {MAX_CONCERN_PAGE_ROWS + 1}),
                   Refuse("PagePastRowCap", [rows |-> {MAX_CONCERN_PAGE_ROWS + 1}], {}, {})>>
         \o Needs(<<"rev", "seq", "total", "refused">>),
       {Writes(6 + 1, ConcernsPuts(some, Numbers, {Concerns.Ok})),
        Writes(6, ConcernsPuts({}, Numbers, {Concerns.Ok})),
        Writes(6, ConcernsPuts({}, {0}, refused)),
        Tolerates(ConcernsPuts({0}, {0}, refused)), Tolerates(ConcernsPuts({0}, Numbers, {Concerns.Ok}))},
       {})

PlaneMessages ==
  [Sample |-> Sample, Series |-> Series, Sel |-> Sel, ReadSignals |-> ReadSignals,
   ReadingsBody |-> ReadingsBody, VChange |-> VChange, PChange |-> PChange,
   ValidityChanged |-> ValidityChanged, PresenceChanged |-> PresenceChanged,
   TopologyChanged |-> TopologyChanged, Concern |-> Concern, ConcernRaised |-> ConcernRaised,
   ConcernChanged |-> ConcernChanged, ReadConcerns |-> ReadConcerns, ConcernsBody |-> ConcernsBody]
=============================================================================
