-------------------------- MODULE ReceivedTopology --------------------------
(***************************************************************************)
(* A client's view of one inventory walk (received_topology.rs): pages of  *)
(* bus rows and device rows, in any order, fetched again after a lost      *)
(* answer, at a revision that may move under the walk.  Each page is       *)
(* applied to a copy that replaces what is held only if P-202 holds after  *)
(* every row: an address wherever the bus addresses, and never the same    *)
(* one twice on a bus.                                                     *)
(***************************************************************************)
EXTENDS Naturals, Sequences, FiniteSets, TLC

CONSTANTS
  Revs,          \* inventory revisions
  Buses, Devs,   \* the numbers of the rows
  Addrs,         \* device addresses
  Devices,       \* DEVICES: the device rows held
  MaxRows,       \* bound: rows of a page
  MaxPages       \* bound: pages received

NoRev  == "no revision"
NoAddr == "no addr"
TooLong == "addr too long"   \* more bytes than HeldAddr holds

Nothing(rev) == [rev |-> rev, buses |-> {}, devices |-> {}]

\* A copy of the view that a row condemned: it goes with its page.
Refused == Nothing("refused")

ASSUME TopologyAssumption ==
  /\ Devices \in Nat \ {0} /\ MaxRows \in Nat /\ MaxPages \in Nat
  /\ {NoRev, Refused.rev} \cap Revs = {}

VARIABLES
  held,        \* ReceivedTopology: rev, buses, devices
  accepted,    \* history: the bus and device pages taken, oldest first
  pages        \* what the bound counts

vars == <<held, accepted, pages>>

\* Transport::addressed tells these apart, and nothing else does; Unknown is
\* a number outside the closed set.
Transports == {"addressed", "point to point"}
Unknown    == "unknown"

BusRows    == [bus : Buses, transport : Transports \cup {Unknown}]
DeviceRows == [dev : Devs, bus : Buses, addr : Addrs \cup {NoAddr, TooLong}]

Rows(what) == IF what = "Bus" THEN BusRows
              ELSE IF what = "Device" THEN DeviceRows ELSE {}

\* A component, signal or parameter page and one that is not Ok are checked
\* and held nowhere.
PagesOf(what) == [what : {what}, rev : Revs, ok : {TRUE},
                  rows : UNION {[1 .. n -> Rows(what)] : n \in 0 .. MaxRows}]

Pages == PagesOf("Bus") \cup PagesOf("Device")
         \cup [what : {"Bus", "Device", "Signal"}, rev : Revs, ok : {FALSE},
               rows : {<<>>}]

-----------------------------------------------------------------------------
(* Seeded faults.                                                          *)

StartOfWalkKeeps(t, rev) == [t EXCEPT !.rev = rev]
-----------------------------------------------------------------------------

(* hold_bus: the row replaces the bus's own.                               *)
HoldBus(t, row) ==
  IF row.transport = Unknown THEN Refused
  ELSE [t EXCEPT !.buses = {b \in @ : b.bus # row.bus} \cup {row}]

(* hold_device: the row replaces the device's own, or takes a free slot.   *)
HoldDevice(t, row) ==
  LET others == {d \in t.devices : d.dev # row.dev}
  IN  IF \/ row.addr = TooLong
         \/ others = t.devices /\ Cardinality(others) >= Devices
      THEN Refused
      ELSE [t EXCEPT !.devices = others \cup {row}]

Addressed(t, bus) == [bus |-> bus, transport |-> "addressed"] \in t.buses

(* p_202_holds, over everything held: a late bus row can condemn a device  *)
(* that was taken pages ago.                                               *)
P202Holds(t) ==
  \A d \in t.devices :
    IF d.addr = NoAddr THEN ~Addressed(t, d.bus)
    ELSE \A e \in t.devices : e # d => ~(e.bus = d.bus /\ e.addr = d.addr)

(* Seeded fault: P-202 judged once, over the whole page.                   *)
ApplyJudgedOnce(t, what, rows) ==
  LET next[n \in 0 .. Len(rows)] ==
        IF n = 0 \/ next[n - 1] = Refused THEN IF n = 0 THEN t ELSE Refused
        ELSE IF what = "Bus" THEN HoldBus(next[n - 1], rows[n])
        ELSE HoldDevice(next[n - 1], rows[n])
  IN  IF P202Holds(next[Len(rows)]) THEN next[Len(rows)] ELSE Refused

(* The rows of a page one after another, each judged before the next.      *)
Apply(t, what, rows) ==
  LET next[n \in 0 .. Len(rows)] ==
        IF n = 0 THEN t
        ELSE LET before == next[n - 1]
                 after  == IF what = "Bus" THEN HoldBus(before, rows[n])
                           ELSE HoldDevice(before, rows[n])
             IN  IF before = Refused \/ ~P202Holds(after) THEN Refused ELSE after
  IN  next[Len(rows)]

(* A page at another revision starts the walk again.                       *)
StartOfWalk(t, rev) == IF t.rev = rev THEN t ELSE Nothing(rev)
-----------------------------------------------------------------------------
Init ==
  /\ held = Nothing(NoRev)
  /\ accepted = <<>>
  /\ pages = 0

(* ReceivedTopology::page                                                  *)
Page(p) ==
  LET next == Apply(StartOfWalk(held, p.rev), p.what, p.rows)
      took == p.ok /\ next # Refused
  IN
  /\ pages < MaxPages
  /\ pages' = pages + 1
  /\ held' = IF took THEN next ELSE held
  /\ accepted' = IF took THEN Append(accepted, p) ELSE accepted

Next == \E p \in Pages : Page(p)

Spec == Init /\ [][Next]_vars
\* Devices and addresses are only ever compared.
Symmetry == Permutations(Devs) \cup Permutations(Addrs)
-----------------------------------------------------------------------------
TypeOK ==
  /\ held.rev \in Revs \cup {NoRev}
  /\ held.buses \subseteq [bus : Buses, transport : Transports]
  /\ held.devices \subseteq [dev : Devs, bus : Buses, addr : Addrs \cup {NoAddr}]
  /\ Cardinality(held.devices) <= Devices
  /\ pages \in 0 .. MaxPages

(* The pages of the walk now held: the last ones taken, all of one         *)
(* revision.                                                               *)
Walk == {i \in DOMAIN accepted :
           \A j \in i .. Len(accepted) : accepted[j].rev = held.rev}

\* Where a row stands in the walk: its page and its place in the page.
Places(what) ==
  {at \in Walk \X (1 .. MaxRows) :
     accepted[at[1]].what = what /\ at[2] \in DOMAIN accepted[at[1]].rows}
RowAt(at) == accepted[at[1]].rows[at[2]]
Earlier(a, b) == a[1] < b[1] \/ (a[1] = b[1] /\ a[2] <= b[2])

\* The rows of a table no later row of the walk has replaced, as of a place.
Latest(what, Same(_, _), upTo) ==
  {RowAt(at) : at \in {a \in Places(what) :
     /\ Earlier(a, upTo)
     /\ \A b \in Places(what) :
          Earlier(b, upTo) /\ Same(RowAt(a), RowAt(b)) => Earlier(b, a)}}

SameBus(r, s) == r.bus = s.bus
SameDev(r, s) == r.dev = s.dev

ViewAt(upTo) == [rev     |-> held.rev,
                 buses   |-> Latest("Bus", SameBus, upTo),
                 devices |-> Latest("Device", SameDev, upTo)]

(* What is held is the last row of every bus and every device among the    *)
(* pages taken since the revision last moved, whatever their order and     *)
(* however often one was fetched again, and nothing of a refused page.     *)
HeldIsLatest ==
  LET view == ViewAt(<<Len(accepted), MaxRows>>)
  IN  held.buses = view.buses /\ held.devices = view.devices

(* P-202 over the latest rows, as of every row of every page taken, the    *)
(* ones a later row replaced included.                                     *)
EveryRowJudged ==
  \A at \in Places("Bus") \cup Places("Device") :
    LET view == ViewAt(at)
    IN  /\ \A d \in view.devices : d.addr = NoAddr =>
             [bus |-> d.bus, transport |-> "addressed"] \notin view.buses
        /\ \A d, e \in view.devices :
             d.bus = e.bus /\ d.addr = e.addr /\ d.addr # NoAddr => d = e
=============================================================================
