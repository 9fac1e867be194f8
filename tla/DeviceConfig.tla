----------------------------- MODULE DeviceConfig -----------------------------
(***************************************************************************)
(* The section `buses and devices` on the controller (buses_devices.rs):   *)
(* a write is checked against the board, the drivers and the caps, then    *)
(* against what the section holds, and each added device takes the next    *)
(* id.  The section and the next id are two values the firmware stores,    *)
(* and power may go between them; sub-devices adopted at run time draw     *)
(* from the same ids.                                                      *)
(*                                                                         *)
(* The section sorts what it accepts, so it is a set here; a write is a    *)
(* sequence, because ids go out in its order.                              *)
(***************************************************************************)
EXTENDS Integers, Sequences, FiniteSets

CONSTANTS
  Board,               \* SiteRules::buses: the transport of each bus
  Dialects,            \* SiteRules::dialects: one rule per row of the table
  max_devices,         \* SiteRules::max_devices
  max_topology_depth,  \* SiteRules::max_topology_depth
  MAX_CONFIG_BUSES,
  MAX_CONFIG_DEVICES,
  LastDev,             \* the last id there is, 0xFFFF in the code
  Kinds,               \* product and dialect of a device
  Writes               \* the bodies a client sends

ASSUME DeviceConfigAssumption ==
  /\ max_devices \in Nat /\ max_topology_depth \in Nat
  /\ MAX_CONFIG_BUSES \in Nat /\ MAX_CONFIG_DEVICES \in Nat
  /\ LastDev \in Nat \ {0}

\* DeviceEntry as decoded: a field the body leaves out is None, or no option.
DeviceEntries ==
  [dev : 0 .. LastDev, bus : Nat, addr : Nat, kind : Kinds, parent : 0 .. LastDev,
   options : SUBSET STRING, poll : Nat]

\* BusEntry: the settings it carries.
BusEntries == [bus : Nat, set : SUBSET {"rate", "data_bits", "parity", "stop_bits"}]

ASSUME WritesAssumption ==
  \A body \in Writes : /\ body.buses \in Seq(BusEntries)
                       /\ body.devices \in Seq(DeviceEntries)

VARIABLES
  buses,    \* the section's bus entries
  devices,  \* the section's device entries
  next      \* DevAllocator: the id the next device gets, None once all are given

vars == <<buses, devices, next>>

None == 0   \* no dev, no parent, no addr, no next id: an id is never 0
Ids  == 1 .. LastDev

-----------------------------------------------------------------------------
(* Transport *)

Transports == {"Rs485", "Can", "VeDirect", "LocalIo", "Ip", "Onewire", "Internal"}

ASSUME SiteAssumption ==
  /\ \A bus \in DOMAIN Board : Board[bus] \in Transports
  /\ Dialects \in Seq([dialect : STRING, transports : SUBSET Transports,
                       options : SUBSET STRING, min_poll : Nat])

addressed(transport) == transport \in {"Rs485", "Can", "Ip", "Onewire"}
has_rate(transport)  == transport \in {"Rs485", "Can", "VeDirect"}
is_serial_line(transport) == transport \in {"Rs485", "VeDirect"}

-----------------------------------------------------------------------------
(* What a body is checked against that it does not carry *)

\* BusEntry::check: a bus entry is its bus and the settings it carries.
BusFits(entry, transport) ==
  /\ entry.set # {}
  /\ "rate" \in entry.set => has_rate(transport)
  /\ entry.set \cap {"data_bits", "parity", "stop_bits"} # {}
       => is_serial_line(transport)

check_buses(list) ==
  \A i \in DOMAIN list :
    /\ list[i].bus \in DOMAIN Board
    /\ \A j \in i + 1 .. Len(list) : list[j].bus # list[i].bus
    /\ BusFits(list[i], Board[list[i].bus])

\* SiteRules::dialect: the first row of the table for a device.
RuleFits(rule, kind, transport) ==
  rule.dialect = kind.dialect /\ transport \in rule.transports

RuleFor(kind, transport) ==
  {Dialects[i] : i \in {j \in DOMAIN Dialects :
     /\ RuleFits(Dialects[j], kind, transport)
     /\ \A k \in 1 .. j - 1 : ~ RuleFits(Dialects[k], kind, transport)}}

\* DeviceOptions::check, options being the keys set and poll the period.
OptionsFit(device, rule) ==
  /\ device.options \subseteq rule.options
  /\ "poll_period" \in device.options => device.poll >= rule.min_poll

check_addr(list, i) ==
  LET device == list[i]
      wanted == addressed(Board[device.bus])
  IN  /\ (device.addr # None) <=> wanted
      /\ wanted => \A j \in i + 1 .. Len(list) :
                     ~ (list[j].bus = device.bus /\ list[j].addr = device.addr)

\* The parent met after so many links above a device, or Lost when a link
\* names a dev the body does not list.
Lost == -1

ParentOf(list, dev) ==
  IF \E i \in DOMAIN list : list[i].dev = dev
  THEN list[CHOOSE i \in DOMAIN list : /\ list[i].dev = dev
                                       /\ \A j \in 1 .. i - 1 : list[j].dev # dev].parent
  ELSE Lost

Above(list, device) ==
  LET up[n \in 0 .. MAX_CONFIG_DEVICES] ==
        IF n = 0 THEN device.parent
        ELSE IF up[n - 1] \in {None, Lost} THEN up[n - 1]
        ELSE ParentOf(list, up[n - 1])
  IN  up

\* The walk ends at a device with no parent, having come round to nothing and
\* holding no more devices than the depth; one still going after
\* MAX_CONFIG_DEVICES links has come round.
check_chain(list, device) ==
  LET up == Above(list, device)
  IN  \E n \in 0 .. MAX_CONFIG_DEVICES - 1 :
        /\ up[n] = None
        /\ n + 1 <= max_topology_depth
        /\ \A m \in 0 .. n - 1 : /\ up[m] # device.dev
                                 /\ \A k \in 0 .. m - 1 : up[k] # up[m]

DevsApart(list) ==
  \A i \in DOMAIN list : \A j \in i + 1 .. Len(list) :
     list[i].dev # None => list[j].dev # list[i].dev

check(body) ==
  LET list == body.devices
  IN  /\ check_buses(body.buses)
      /\ Len(list) <= max_devices /\ Len(list) <= MAX_CONFIG_DEVICES
      /\ \A i \in DOMAIN list :
           /\ list[i].bus \in DOMAIN Board
           /\ check_addr(list, i)
           /\ \E rule \in RuleFor(list[i].kind, Board[list[i].bus]) :
                OptionsFit(list[i], rule)
      /\ DevsApart(list)
      /\ \A i \in DOMAIN list : check_chain(list, list[i])

\* The bodies decode hands over: no list longer than its array.
Checked == {body \in Writes : /\ Len(body.buses) <= MAX_CONFIG_BUSES
                              /\ Len(body.devices) <= MAX_CONFIG_DEVICES
                              /\ check(body)}

-----------------------------------------------------------------------------
(* The client's own copy of the check (packages/km43), made before a body  *)
(* is sent: every rule is written a second time, in another language.      *)

Carries(addresses, rate, serial) == [addressed |-> addresses, rate |-> rate, serial |-> serial]

TRANSPORTS ==
  [Rs485 |-> Carries(TRUE, TRUE, TRUE), Can |-> Carries(TRUE, TRUE, FALSE),
   VeDirect |-> Carries(FALSE, TRUE, TRUE), LocalIo |-> Carries(FALSE, FALSE, FALSE),
   Ip |-> Carries(TRUE, FALSE, FALSE), Onewire |-> Carries(TRUE, FALSE, FALSE),
   Internal |-> Carries(FALSE, FALSE, FALSE)]

Following(list, i) == {list[j] : j \in i + 1 .. Len(list)}

busRefused(list, i) ==
  LET entry == list[i]
  IN  \/ entry.set = {}
      \/ entry.bus \notin DOMAIN Board
      \/ \E other \in Following(list, i) : other.bus = entry.bus
      \/ "rate" \in entry.set /\ ~ TRANSPORTS[Board[entry.bus]].rate
      \/ entry.set \ {"rate"} # {} /\ ~ TRANSPORTS[Board[entry.bus]].serial

\* The first row that carries the dialect is the one whose options count.
dialectRefused(device, transport) ==
  LET rows == {i \in DOMAIN Dialects : /\ Dialects[i].dialect = device.kind.dialect
                                      /\ transport \in Dialects[i].transports}
  IN  \A i \in rows : \/ \E j \in rows : j < i
                      \/ device.options \ Dialects[i].options # {}
                      \/ /\ "poll_period" \in device.options
                         /\ device.poll < Dialects[i].min_poll

deviceRefused(list, i) ==
  LET device == list[i]
  IN  \/ device.bus \notin DOMAIN Board
      \/ device.addr = None /\ TRANSPORTS[Board[device.bus]].addressed
      \/ device.addr # None /\ ~ TRANSPORTS[Board[device.bus]].addressed
      \/ device.addr # None /\ \E other \in Following(list, i) :
                                  other.bus = device.bus /\ other.addr = device.addr
      \/ dialectRefused(device, Board[device.bus])
      \/ device.dev # None /\ \E other \in Following(list, i) : other.dev = device.dev

\* The walk above a device: the dev it is at, those it has passed, how many
\* devices the chain holds, and what it found.
chain(list, device) ==
  LET above(dev) == CHOOSE i \in DOMAIN list :
                      list[i].dev = dev /\ \A j \in 1 .. i - 1 : list[j].dev # dev
      walk[step \in 0 .. MAX_CONFIG_DEVICES] ==
        IF step = 0 THEN [at |-> device.parent, seen |-> {}, held |-> 1, says |-> "onward"]
        ELSE LET w == walk[step - 1]
                 found(says) == [w EXCEPT !.says = says]
             IN  IF w.says # "onward" THEN w
                 ELSE IF w.at = None
                 THEN found(IF w.held > max_topology_depth THEN "too_deep" ELSE "passes")
                 ELSE IF w.at = device.dev \/ w.at \in w.seen THEN found("parent_loop")
                 ELSE IF \A i \in DOMAIN list : list[i].dev # w.at
                 THEN found("parent_not_listed")
                 ELSE [at |-> list[above(w.at)].parent, seen |-> w.seen \cup {w.at},
                       held |-> w.held + 1, says |-> "onward"]
  IN  walk[MAX_CONFIG_DEVICES].says

checkBusesAndDevices(body) ==
  /\ Len(body.buses) <= MAX_CONFIG_BUSES
  /\ \A i \in DOMAIN body.buses : ~ busRefused(body.buses, i)
  /\ Len(body.devices) <= max_devices /\ Len(body.devices) <= MAX_CONFIG_DEVICES
  /\ \A i \in DOMAIN body.devices : ~ deviceRefused(body.devices, i)
  /\ \A i \in DOMAIN body.devices : chain(body.devices, body.devices[i]) = "passes"

PassedByClient == {body \in Writes : checkBusesAndDevices(body)}

-----------------------------------------------------------------------------
(* The allocator *)

\* DevAllocator::allocate: the id after this one, none after the last.
NextId(id) == IF id = LastDev THEN None ELSE id + 1

\* Seeded fault: an edited entry spends an id as well.
GivenEveryEntry(list, first) ==
  LET given[i \in 0 .. Len(list)] ==
        IF i = 0 THEN <<first, first>>
        ELSE IF given[i - 1][2] = None THEN <<None, None>>
        ELSE <<given[i - 1][2], NextId(given[i - 1][2])>>
  IN  given

\* The id of each entry that brings none, in the order of the body; None when
\* the ids run out.
Given(list, first) ==
  LET given[i \in 0 .. Len(list)] ==   \* the next id before and after entry i
        IF i = 0 THEN <<first, first>>
        ELSE IF list[i].dev # None \/ given[i - 1][2] = None
             THEN <<given[i - 1][2], given[i - 1][2]>>
        ELSE <<given[i - 1][2], NextId(given[i - 1][2])>>
  IN  given

\* Seeded fault: an id equal to the next one passes.
BehindStrict == next # None /\ \E was \in devices : was.dev > next

\* A next id at or below one the section holds was given before.
Behind == next # None /\ \E was \in devices : was.dev >= next

\* An entry with a dev edits the device held under it, of the same kind.
EditsHeld(entry) ==
  \E was \in devices : was.dev = entry.dev /\ was.kind = entry.kind

\* BusesAndDevicesWrite::accept after check: what to store, or nothing.
Accepts(body) ==
  LET list == body.devices
      given == Given(list, next)
  IN  /\ ~ Behind
      /\ \A i \in DOMAIN list :
           IF list[i].dev = None THEN given[i][1] # None ELSE EditsHeld(list[i])

Accepted(body) ==
  LET list == body.devices
      given == Given(list, next)
  IN  [buses   |-> {body.buses[i] : i \in DOMAIN body.buses},
       devices |-> {IF list[i].dev = None
                    THEN [list[i] EXCEPT !.dev = given[i][1]] ELSE list[i] :
                    i \in DOMAIN list},
       next    |-> given[Len(list)][2]]

\* ascending, of the answer sort leaves: no bus and no dev twice.  Config is
\* refused by its own encoder, and by a client, otherwise.
Listed == {d.dev : d \in devices}

ascending ==
  /\ Cardinality({b.bus : b \in buses}) = Cardinality(buses)
  /\ Cardinality(Listed) = Cardinality(devices)

-----------------------------------------------------------------------------
Init == buses = {} /\ devices = {} /\ next = 1

\* The firmware stores the section and the next id; power going between the
\* two leaves one of them as it was.
Store(accepted, stored) ==
  /\ IF "section" \in stored
     THEN buses' = accepted.buses /\ devices' = accepted.devices
     ELSE UNCHANGED <<buses, devices>>
  /\ next' = IF "next" \in stored THEN accepted.next ELSE next

Write(body) ==
  /\ Accepts(body)
  /\ \E stored \in {{"section", "next"}, {"section"}, {"next"}} :
       Store(Accepted(body), stored)

\* A sub-device found at run time takes an id that no entry carries.  An
\* allocator behind its section is one the firmware must not draw from.
Adopt ==
  /\ next # None /\ ~ Behind
  /\ next' = NextId(next)
  /\ UNCHANGED <<buses, devices>>

\* A refused write stores nothing.
Refuse(body) ==
  /\ ~ Accepts(body)
  /\ UNCHANGED vars

Next ==
  \/ \E body \in Checked : Write(body) \/ Refuse(body)
  \/ Adopt

Spec == Init /\ [][Next]_vars

-----------------------------------------------------------------------------
(* Properties *)

\* An id names one kind of device for ever, and never a second device after
\* its first is removed, though power goes between the two stores of a write
\* and sub-devices draw ids in between (P-262; accept and DevAllocator).
Register == INSTANCE DeviceRegister WITH
  live    <- [id \in Listed |-> (CHOOSE d \in devices : d.dev = id).kind],
  retired <- {id \in Ids : (next = None \/ id < next) /\ id \notin Listed}

ImplementsRegister == Register!Spec

\* Every rule of P-187, P-202 and P-265, stated of the whole set.
SectionSound ==
  /\ ascending
  /\ \A d, e \in devices : d.bus = e.bus /\ d.addr = e.addr /\ d.addr # None => d = e
  /\ \A d \in devices : d.bus \in DOMAIN Board /\ (addressed(Board[d.bus]) <=> d.addr # None)
  /\ \A d \in devices : d.parent \in Listed \cup {None}
  /\ \A S \in (SUBSET Listed) \ {{}} :    \* a loop would keep its own parents
       \E d \in devices : d.dev \in S /\ d.parent \notin S
  /\ \A path \in [1 .. max_topology_depth + 1 -> devices] :
       \E i \in 1 .. max_topology_depth : path[i].parent # path[i + 1].dev

\* The section as a client that read it would write it back: its two lists,
\* ascending as the answer has them.
BackBuses == CHOOSE list \in [1 .. Cardinality(buses) -> buses] :
               \A i, j \in DOMAIN list : i < j => list[i].bus < list[j].bus

Back == CHOOSE list \in [1 .. Cardinality(devices) -> devices] :
          \A i, j \in DOMAIN list : i < j => list[i].dev < list[j].dev

\* The section as held keeps every rule, though check judges a body entry by
\* entry, looking only at later ones, before the added devices have ids; and
\* read and sent back as it is, buses and devices, it passes the client's check
\* and the controller's, is accepted and changes nothing, so that an edit of one
\* entry never fails for the others (check, accept).  The client's check refuses
\* exactly the bodies that would come back refused (checkBusesAndDevices).
SentBackAccepted ==
  LET body == [buses |-> BackBuses, devices |-> Back]
  IN  /\ PassedByClient = Checked
      /\ SectionSound
      /\ ~ Behind => /\ checkBusesAndDevices(body) /\ check(body) /\ Accepts(body)
                     /\ Accepted(body) = [buses |-> buses, devices |-> devices, next |-> next]
=============================================================================
