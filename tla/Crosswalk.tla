----------------------------- MODULE Crosswalk -----------------------------
(***************************************************************************)
(* The tables that are looked up by number (generated.rs), and the gate    *)
(* that resolves, checks and generates them (xtask). A registry is the     *)
(* rows of each of its spaces as protocol.toml writes them; a crosswalk    *)
(* row has the fields somebody typed and no others. A name is only ever    *)
(* compared, so it is a string that stands for itself.                     *)
(***************************************************************************)
EXTENDS Registry, Integers, Sequences, FiniteSets, TLC, WellFoundedInduction, TLAPS

(* No role, point or direction: what allocates one starts at 1.            *)
NoPlace == 0

-----------------------------------------------------------------------------
(* What a status lets a number do. A row over a span of numbers allocates  *)
(* none and has no status.                                                 *)
is_gone(status) == status \in {"withdrawn", "retired"}
NoStatus == "none"
Row(name, number, status) == [name |-> name, number |-> number, status |-> status]

(* The rows a generator writes constants for, and a name may reach.        *)
Emitted(rows) ==
  SelectSeq(rows, LAMBDA row : row.status # NoStatus /\ ~is_gone(row.status))
Allocates(rows, name) == \E i \in DOMAIN Emitted(rows) : Emitted(rows)[i].name = name
NumberOf(rows, name) ==
  LET named == SelectSeq(Emitted(rows), LAMBDA row : row.name = name) IN named[1].number

-----------------------------------------------------------------------------
(* One row of the crosswalk: the metric at a place that carries the word,  *)
(* or the reason none does.                                                *)
Places == {"role", "point", "domain", "dir"}
Says(row, field) == field \in DOMAIN row
Space == [kind |-> "metrics", role |-> "component_role", point |-> "measurement_point",
          domain |-> "signal_domain", dir |-> "direction"]
NumberAt(reg, row, field, otherwise) ==
  IF Says(row, field) THEN NumberOf(reg[Space[field]], row[field]) ELSE otherwise

Carries(reg, row) ==
  /\ Says(row, "kind") /\ ~Says(row, "absent")
  /\ Says(row, "domain") \/ Allocates(reg.signal_domain, "live")
  /\ \A field \in DOMAIN row \cap DOMAIN Space : Allocates(reg[Space[field]], row[field])
Explains(row) ==
  /\ ~Says(row, "kind") /\ Says(row, "absent")
  /\ DOMAIN row \cap Places = {}
  /\ row.absent # ""

Carried(reg, row) ==
  [name   |-> row.name,
   kind   |-> NumberOf(reg.metrics, row.kind),
   role   |-> NumberAt(reg, row, "role", NoPlace),
   point  |-> NumberAt(reg, row, "point", NoPlace),
   domain |-> IF Says(row, "domain") THEN NumberOf(reg.signal_domain, row.domain)
              ELSE NumberOf(reg.signal_domain, "live"),
   dir    |-> NumberAt(reg, row, "dir", NoPlace)]

(* Where a row reaches: one place carries one word.                        *)
PlaceOf(c) == <<c.kind, c.role, c.point, c.domain, c.dir>>

(* How narrowly a row names its place. A role outranks a point, and a      *)
(* direction only splits rows that name the same place.                    *)
specificity(c) ==
  LET role  == IF c.role # NoPlace THEN 2 ELSE 0
      point == IF c.point # NoPlace THEN 1 ELSE 0
      dir   == IF c.dir # NoPlace THEN 1 ELSE 0
  IN (role + point) * 2 + dir

SortKey(c) == <<-specificity(c), c.kind, c.role, c.point, c.domain, c.dir>>
Before(a, b) ==
  \E i \in 1..6 : /\ SortKey(a)[i] < SortKey(b)[i]
                  /\ \A j \in 1..(i - 1) : SortKey(a)[j] = SortKey(b)[j]

Refused == [ok |-> FALSE, carried |-> << >>, absent |-> << >>]
resolve_crosswalk(reg, rows) ==
  LET carrying == SelectSeq(rows, LAMBDA row : Carries(reg, row))
      carried  == [i \in DOMAIN carrying |-> Carried(reg, carrying[i])]
      absent   == SelectSeq(rows, Explains)
      claimed  == \E i, j \in DOMAIN carried : i # j /\ PlaceOf(carried[i]) = PlaceOf(carried[j])
  IN IF claimed \/ Len(carrying) + Len(absent) < Len(rows) THEN Refused
     ELSE [ok      |-> TRUE,
           carried |-> SortSeq(carried, Before),
           absent  |-> [i \in DOMAIN absent |-> absent[i].name]]

-----------------------------------------------------------------------------
(* What is wrong with a crosswalk against the dataset's words and the      *)
(* metrics declared the controller's own.                                  *)
Finding(what, name) == <<what, name>>
Words(crosswalk) == {crosswalk.carried[i].name : i \in DOMAIN crosswalk.carried}
Absent(crosswalk) == {crosswalk.absent[i] : i \in DOMAIN crosswalk.absent}
LiveMetrics(reg) ==
  {reg.metrics[i] : i \in {j \in DOMAIN reg.metrics : reg.metrics[j].status = "live"}}

crosswalk_findings(reg, crosswalk, words, internal) ==
  LET kinds == {crosswalk.carried[i].kind : i \in DOMAIN crosswalk.carried}
      live  == LiveMetrics(reg)
  IN {Finding("carried, and no such word", w) : w \in Words(crosswalk) \ words}
       \cup {Finding("absent and carried", w) : w \in Absent(crosswalk) \cap Words(crosswalk)}
       \cup {Finding("absent, and no such word", w) : w \in Absent(crosswalk) \ words}
       \cup {Finding("no row", w) : w \in words \ (Words(crosswalk) \cup Absent(crosswalk))}
       \cup {Finding("reaches no word", m.name) :
               m \in {x \in live : x.number \notin kinds /\ x.name \notin internal}}
       \cup {Finding("internal and carried", m.name) :
               m \in {x \in live : x.number \in kinds /\ x.name \in internal}}
       \cup {Finding("internal, and not live", name) : name \in internal \ {m.name : m \in live}}

-----------------------------------------------------------------------------
(* The allocation rules. A space's numbers are allocated once, a span's    *)
(* excepted.                                                               *)
AllocatedTwice(rows) ==
  \E i, j \in DOMAIN rows :
    /\ i # j /\ rows[i].number = rows[j].number
    /\ NoStatus \notin {rows[i].status, rows[j].status}
no_number_is_allocated_twice(reg) == \A space \in DOMAIN reg : ~AllocatedTwice(reg[space])

(* Only a condition that may still be sent, and is one number, may need a  *)
(* vendor code.                                                            *)
only_conditions_need_a_vendor_code(reg, marked) ==
  \A mark \in marked :
    /\ mark.space = "condition"
    /\ \E i \in DOMAIN Emitted(reg.condition) : Emitted(reg.condition)[i].name = mark.name

(* Opcodes share one space whatever the direction, and one with the        *)
(* link's; every message has one; an open space allocates some, each once. *)
(* What the transports fix of their own is left out.                       *)
NoOpcode == -1
Allocated(message) == {message.request, message.response} \ {NoOpcode}
validate(reg, open, skip_unknown, marked, messages, link_messages) ==
  LET all == messages \o link_messages
  IN /\ \A i \in DOMAIN all : all[i].request = all[i].response => all[i].request = NoOpcode
     /\ \A i, j \in DOMAIN all : i # j => Allocated(all[i]) \cap Allocated(all[j]) = {}
     /\ \A i \in DOMAIN messages : Allocated(messages[i]) # {}
     /\ skip_unknown \subseteq open \cup {"metric_kind", "event_kind"}
     /\ \A space \in open : reg[space] # << >> /\ ~AllocatedTwice(reg[space])
     /\ only_conditions_need_a_vendor_code(reg, marked)

-----------------------------------------------------------------------------
(* The numbers of the members of each enum space, joined by name and       *)
(* sorted on both axes. A space with no members has no row.                *)
Ascending(numbers) == SortSeq(numbers, LAMBDA a, b : a < b)
Members(reg, space) ==
  LET listed == Emitted(reg.enums[space.name])
  IN <<space.number, Ascending([i \in DOMAIN listed |-> listed[i].number])>>
rust_enum_space_members(reg) ==
  LET named == SelectSeq(reg.enum_space, LAMBDA space :
                 space.status # NoStatus /\ space.name \in DOMAIN reg.enums)
      rows  == [i \in DOMAIN named |-> Members(reg, named[i])]
  IN SortSeq(SelectSeq(rows, LAMBDA row : row[2] # << >>), LAMBDA a, b : a[1] < b[1])

ENUM_SPACE_MEMBERS ==
  << <<1, <<1, 2, 3, 4>>>>,
     <<2, <<1, 2, 3, 4, 5, 6>>>>,
     <<3, <<1, 2, 3, 4, 5, 6>>>>,
     <<4, <<1, 2, 3>>>>,
     <<5, <<1, 2, 4, 5, 6, 7, 8, 9>>>>,
     <<6, <<1, 2, 3, 4, 5, 6, 7>>>> >>

(* The standard library's search of a sorted slice: the index found, or 0. *)
binary_search(keys, key) ==
  LET base[size \in 0..Len(keys), at \in 1..(Len(keys) + 1)] ==
        LET half == size \div 2
        IN IF size < 2 THEN at
           ELSE base[size - half, IF keys[at + half] > key THEN at ELSE at + half]
      found == base[Len(keys), 1]
  IN IF found \in DOMAIN keys /\ keys[found] = key THEN found ELSE 0
Firsts(table) == [i \in DOMAIN table |-> table[i][1]]

NoMembers == << >>
members(space) ==
  LET at == binary_search(Firsts(ENUM_SPACE_MEMBERS), space)
  IN IF at = 0 THEN NoMembers ELSE ENUM_SPACE_MEMBERS[at][2]
names(space, value) == binary_search(members(space), value) # 0

(* Every metric with its unit and scale, those that are gone included.     *)
METRIC_UNITS ==
  <<
    <<257, "V", -3>>, <<258, "A", -3>>, <<259, "W", -1>>, <<260, "%", -1>>,
    <<261, "degC", -1>>, <<262, "Wh", 0>>, <<263, "Ah", -1>>,
    <<272, "V", -3>>, <<273, "A", -3>>, <<274, "W", -1>>, <<288, "A", -3>>,
    <<289, "W", -1>>, <<304, "V", -3>>, <<513, "V", -1>>, <<514, "A", -3>>,
    <<515, "W", -1>>, <<516, "Hz", -2>>, <<517, "Wh", 0>>, <<518, "Wh", 0>>,
    <<519, "Wh", 0>>, <<769, "degC", -1>>, <<770, "degC", -1>>,
    <<1025, "%", -1>>, <<1026, "A", -6>>, <<1281, "none", 0>>,
    <<1282, "h", -2>>, <<1283, "count", 0>>, <<1284, "none", 0>>,
    <<1537, "none", 0>>, <<1538, "s", 0>>, <<1539, "none", 0>>,
    <<1540, "%", -1>>, <<1793, "min", 0>>, <<1794, "min", 0>>,
    <<1795, "min", 0>>, <<1796, "none", 0>> >>
rust_open_sets(metrics) == SortSeq(metrics, LAMBDA a, b : a[1] < b[1])
NoUnit == <<"", 0>>
unit_and_scale(kind) ==
  LET at == binary_search(Firsts(METRIC_UNITS), kind)
  IN IF at = 0 THEN NoUnit ELSE <<METRIC_UNITS[at][2], METRIC_UNITS[at][3]>>

-----------------------------------------------------------------------------
(* The crosswalk as generated: most specific first, so the first match is  *)
(* the one to take. No row names a point.                                  *)
DatasetMetric(word, kind, domain, role, dir) ==
  [name |-> word, kind |-> kind, role |-> role, point |-> NoPlace, domain |-> domain, dir |-> dir]
Flow(word, kind, domain, role) == DatasetMetric(word, kind, domain, role, Direction.PositiveIsOut)
Live(word, kind, role) == DatasetMetric(word, kind, SignalDomain.Live, role, NoPlace)
Word(word, kind, domain) == DatasetMetric(word, kind, domain, NoPlace, NoPlace)
Directed ==
  LET M == MetricKind  R == ComponentRole  D == SignalDomain
  IN << Flow("pv-energy-total", M.DC_ENERGY, D.Lifetime, R.PV_ARRAY),
        Flow("pv-energy-today", M.DC_ENERGY, D.Today, R.PV_ARRAY),
        Flow("pv-energy-total", M.DC_ENERGY, D.Lifetime, R.MPPT_TRACKER),
        Flow("pv-energy-today", M.DC_ENERGY, D.Today, R.MPPT_TRACKER),
        Flow("consumed-amp-hours", M.DC_CHARGE, D.SinceReset, R.BATTERY_BANK),
        Flow("consumed-amp-hours", M.DC_CHARGE, D.SinceReset, R.BATTERY_PACK) >>
Placed ==
  LET M == MetricKind  R == ComponentRole
  IN << Live("pv-voltage", M.DC_VOLTAGE, R.PV_ARRAY),
        Live("pv-voltage", M.DC_VOLTAGE, R.MPPT_TRACKER),
        Live("battery-voltage", M.DC_VOLTAGE, R.BATTERY_BANK),
        Live("battery-voltage", M.DC_VOLTAGE, R.BATTERY_PACK),
        Live("load-voltage", M.DC_VOLTAGE, R.LOAD_OUTPUT),
        Live("pv-current", M.DC_CURRENT, R.PV_ARRAY),
        Live("pv-current", M.DC_CURRENT, R.MPPT_TRACKER),
        Live("battery-current", M.DC_CURRENT, R.BATTERY_BANK),
        Live("battery-current", M.DC_CURRENT, R.BATTERY_PACK),
        Live("load-current", M.DC_CURRENT, R.LOAD_OUTPUT), Live("pv-power", M.DC_POWER, R.PV_ARRAY),
        Live("pv-power", M.DC_POWER, R.MPPT_TRACKER),
        Live("battery-power", M.DC_POWER, R.BATTERY_BANK),
        Live("battery-power", M.DC_POWER, R.BATTERY_PACK),
        Live("load-power", M.DC_POWER, R.LOAD_OUTPUT),
        Live("battery-temperature", M.TEMPERATURE, R.BATTERY_BANK),
        Live("battery-temperature", M.TEMPERATURE, R.BATTERY_PACK),
        Live("battery-temperature", M.TEMPERATURE, R.CELL) >>
Anywhere ==
  LET M == MetricKind  D == SignalDomain
  IN << Word("state-of-charge", M.STATE_OF_CHARGE, D.Live),
        Word("ac-voltage", M.AC_VOLTAGE, D.Live), Word("ac-current", M.AC_CURRENT, D.Live),
        Word("ac-power", M.AC_POWER, D.Live), Word("ac-frequency", M.AC_FREQUENCY, D.Live),
        Word("ac-energy-total", M.AC_ENERGY, D.Lifetime),
        Word("ac-energy-today", M.AC_ENERGY, D.Today), Word("temperature", M.TEMPERATURE, D.Live),
        Word("tank-level", M.TANK_LEVEL, D.Live),
        Word("generator-run-state", M.GENERATOR_STATE, D.Live),
        Word("generator-run-hours", M.GENERATOR_RUN_HOURS, D.Lifetime),
        Word("uptime", M.UPTIME_SINCE_BOOT, D.SinceReset),
        Word("charge-stage", M.CHARGE_STAGE, D.Live) >>
DATASET_METRICS == Directed \o Placed \o Anywhere
DATASET_ABSENT ==
  <<"ac-apparent-power", "ac-power-factor", "cycle-count", "humidity", "link-downlink",
    "link-latency", "link-online", "link-signal-quality", "link-uplink", "pressure",
    "pv-irradiance", "state-of-health", "switch-state", "tank-volume", "time-to-go">>

(* A row's place or direction matches any when it names none; its domain   *)
(* never does.                                                             *)
Matches(row, reading) ==
  /\ row.kind = reading.kind /\ row.domain = reading.domain
  /\ row.role \in {NoPlace, reading.role}
  /\ row.point \in {NoPlace, reading.point}
  /\ row.dir \in {NoPlace, reading.dir}
NoName == ""
Hits(table, reading) == {i \in DOMAIN table : Matches(table[i], reading)}
FirstHit(hits) == CHOOSE i \in hits : \A j \in hits : i <= j
dataset_name(table, reading) ==
  IF Hits(table, reading) = {} THEN NoName ELSE table[FirstHit(Hits(table, reading))].name

-----------------------------------------------------------------------------
(* A table most specific first, where one place carries one word: what     *)
(* resolve_crosswalk leaves of the rows it takes.                          *)
CarriedRows == [name : STRING, kind : Nat, role : Nat, point : Nat, domain : Nat, dir : Nat]
MostSpecificFirst(table) ==
  \A i, j \in DOMAIN table : i < j => specificity(table[i]) >= specificity(table[j])
OneWordAPlace(table) ==
  \A i, j \in DOMAIN table : PlaceOf(table[i]) = PlaceOf(table[j]) => i = j

(* Two rows that both match a reading and are as specific reach the same   *)
(* place: the weights of a role, a point and a direction never add up to   *)
(* one another (specificity).                                              *)
LEMMA AsSpecificIsOnePlace ==
  ASSUME NEW a, NEW b, NEW reading,
         Matches(a, reading), Matches(b, reading), specificity(a) = specificity(b)
  PROVE  PlaceOf(a) = PlaceOf(b)
<1>1. /\ a.role = NoPlace <=> b.role = NoPlace
      /\ a.point = NoPlace <=> b.point = NoPlace
      /\ a.dir = NoPlace <=> b.dir = NoPlace
  BY DEF specificity
<1> QED  BY <1>1 DEF Matches, PlaceOf

(* The first hit of a table is one of them.                                *)
LEMMA FirstIsLeast ==
  ASSUME NEW hits \in SUBSET Nat, hits # {}
  PROVE  FirstHit(hits) \in hits /\ \A j \in hits : FirstHit(hits) <= j
<1>1. PICK i \in hits : \A j \in hits : <<j, i>> \notin OpToRel(<, Nat)
  BY NatLessThanWellFounded, WFMin
<1>2. \A j \in hits : ~(j < i)
  BY <1>1 DEF OpToRel
<1>3. \E m \in hits : \A j \in hits : m <= j
  BY <1>2
<1> QED  BY <1>3 DEF FirstHit

(* In a table most specific first, nothing that matches a reading is more  *)
(* specific than the row that names it.                                    *)
LEMMA FirstIsNarrowest ==
  ASSUME NEW table \in Seq(CarriedRows), MostSpecificFirst(table), NEW reading,
         NEW j \in Hits(table, reading)
  PROVE  /\ FirstHit(Hits(table, reading)) \in Hits(table, reading)
         /\ specificity(table[FirstHit(Hits(table, reading))]) >= specificity(table[j])
<1> DEFINE hits == Hits(table, reading)
           i    == FirstHit(hits)
<1>1. hits \in SUBSET Nat /\ hits # {} /\ hits \subseteq DOMAIN table
  BY DEF Hits
<1>2. i \in hits /\ i <= j
  BY <1>1, FirstIsLeast
<1>3. CASE i = j
  BY <1>2, <1>3 DEF specificity
<1>4. CASE i < j
  BY <1>1, <1>2, <1>4 DEF MostSpecificFirst
<1> QED  BY <1>1, <1>2, <1>3, <1>4

(* A word never depends on the order somebody typed the rows in: two       *)
(* tables of the same rows, each most specific first and with one word a   *)
(* place, name every reading alike (resolve_crosswalk, dataset_name).      *)
THEOREM OrderNeverDecides ==
  ASSUME NEW t \in Seq(CarriedRows), NEW u \in Seq(CarriedRows),
         {t[i] : i \in DOMAIN t} = {u[i] : i \in DOMAIN u},
         MostSpecificFirst(t), MostSpecificFirst(u), OneWordAPlace(t), OneWordAPlace(u),
         NEW reading
  PROVE  dataset_name(t, reading) = dataset_name(u, reading)
<1>1. /\ \A i \in Hits(t, reading) : \E j \in Hits(u, reading) : u[j] = t[i]
      /\ \A j \in Hits(u, reading) : \E i \in Hits(t, reading) : t[i] = u[j]
  BY DEF Hits
<1>2. CASE Hits(t, reading) = {}
  BY <1>1, <1>2 DEF dataset_name
<1>3. CASE Hits(t, reading) # {}
  <2> DEFINE f == FirstHit(Hits(t, reading))
             g == FirstHit(Hits(u, reading))
  <2>1. f \in Hits(t, reading) /\ g \in Hits(u, reading)
    BY <1>1, <1>3, FirstIsNarrowest
  <2>2. PICK j \in Hits(u, reading) : u[j] = t[f]
    BY <1>1, <2>1
  <2>3. PICK i \in Hits(t, reading) : t[i] = u[g]
    BY <1>1, <2>1
  <2>4. specificity(u[g]) >= specificity(t[f])
    BY <2>2, FirstIsNarrowest
  <2>5. specificity(t[f]) >= specificity(u[g])
    BY <2>3, FirstIsNarrowest
  <2>6. specificity(t[f]) = specificity(u[g])
    BY <2>4, <2>5 DEF specificity
  <2>7. PlaceOf(u[j]) = PlaceOf(u[g])
    BY <2>1, <2>2, <2>6, AsSpecificIsOnePlace DEF Hits
  <2>8. j = g
    BY <2>1, <2>2, <2>7 DEF Hits, OneWordAPlace
  <2> QED  BY <1>1, <1>3, <2>1, <2>2, <2>8 DEF dataset_name
<1> QED  BY <1>2, <1>3
=============================================================================
