---------------------------- MODULE NetworkConfig ----------------------------
(***************************************************************************)
(* The network section on the controller and the cache of it in the comms  *)
(* processor's flash (config_messages.rs, config.rs, net_origin.rs).       *)
(* Clients write the section by compare-and-set; after each LinkUp the     *)
(* controller pushes a NetConfig when the stamp reported is not its own.   *)
(* The link loses messages, flash writes fail, the section is found        *)
(* unreadable, and the board in the socket is swapped for another one,     *)
(* its own older one or one out of another unit.                           *)
(***************************************************************************)
EXTENDS Integers, Sequences

CONSTANTS
  Clients,
  Networks,    \* names a network may have
  Keys,        \* passphrases a person may enter
  MaxVersion,  \* bound: the section's version
  MaxRepairs,  \* bound: times the section is found unreadable
  MaxSwaps     \* bound: boards put into the socket

VARIABLES
  master,   \* the controller's section
  drawn,    \* origin tokens drawn so far
  known,    \* the version each client last read
  flash,    \* what the fitted board holds in NVS
  ram,      \* the network it runs on
  drawer,   \* the flash of a board not fitted
  reports,  \* LinkUps on their way to the controller
  pushes,   \* NetConfigs on their way to the comms processor
  swaps     \* what the bound counts

vars == <<master, drawn, known, flash, ram, drawer, reports, pushes, swaps>>

None == 0

\* NetStamp and what it stamps; an unwritten section has version and origin
\* None, a cleared one has no ssid and no psk.
Unwritten == [version |-> None, origin |-> None, ssid |-> None, psk |-> None]

Stamp(section)   == <<section.version, section.origin>>
Network(section) == <<section.ssid, section.psk>>

Foreign == -2   \* an origin another unit drew: none of those drawn here
-----------------------------------------------------------------------------
(* SetConfig of the network section *)

\* SetConfigOperation::check_version
check_version(expected) == expected = master.version

\* NetworkWrite::passphrase: what the write leaves held, nothing when refused.
\* A write without a passphrase keeps the held one only for its own network.
passphrase(ssid, psk) ==
  IF ssid = None THEN {None}
  ELSE IF psk # None THEN {psk}
  ELSE IF master.ssid = ssid THEN {master.psk} ELSE {}

\* A section created from version 0 draws an origin, every later write keeps
\* it (L-138).
Rewritten(ssid, psk) ==
  [version |-> master.version + 1,
   origin  |-> IF master.version = None THEN drawn + 1 ELSE master.origin,
   ssid    |-> ssid, psk |-> psk]
-----------------------------------------------------------------------------
(* net_origin.rs *)

Absent == -1

\* What a board says of its flash in LinkUp: the stamp, or less of it when it
\* speaks an older version of the protocol.
Reports(cache) ==
  {Stamp(cache), <<cache.version, None>>, <<Absent, None>>}

\* Seeded fault: only a board behind the controller is pushed to.
needs_pushOlder(report) == report[1] < master.version

\* Seeded fault: the version alone is compared.
needs_pushVersion(report) == report[1] # master.version

\* A written master compares version and origin, an unwritten one the version
\* alone; an absent one matches nothing.
needs_push(report) ==
  IF master.version = None THEN report[1] # None
  ELSE report # Stamp(master)

\* settle: what flash holds after the write was tried.
settle(change, durable) == IF durable THEN change ELSE flash
-----------------------------------------------------------------------------
Init ==
  /\ master = Unwritten /\ drawn = 0 /\ known = [c \in Clients |-> None]
  /\ flash = Unwritten /\ ram = Network(Unwritten)
  /\ drawer = [version |-> 1, origin |-> Foreign, ssid |-> Foreign, psk |-> Foreign]
  /\ reports = <<>> /\ pushes = <<>> /\ swaps = 0

Read(c) ==
  /\ known' = [known EXCEPT ![c] = master.version]
  /\ UNCHANGED <<master, drawn, flash, ram, drawer, reports, pushes, swaps>>

Write(c, ssid, psk) ==
  /\ master.version < MaxVersion
  /\ check_version(known[c])
  /\ \E held \in passphrase(ssid, psk) :
       /\ master' = Rewritten(ssid, held)
       /\ known' = [known EXCEPT ![c] = master.version + 1]
  /\ drawn' = IF master.version = None THEN drawn + 1 ELSE drawn
  /\ UNCHANGED <<flash, ram, drawer, reports, pushes, swaps>>

\* The section is found unreadable, and answers as one never written (P-108).
Unreadable ==
  /\ master.version # None /\ drawn <= MaxRepairs
  /\ master' = Unwritten
  /\ UNCHANGED <<drawn, known, flash, ram, drawer, reports, pushes, swaps>>

\* The comms processor boots: it runs on its cache and reports it.
LinkUp ==
  /\ reports = <<>>
  /\ ram' = Network(flash)
  /\ \E report \in Reports(flash) : reports' = <<report>>
  /\ UNCHANGED <<master, drawn, known, flash, drawer, pushes, swaps>>

\* The controller compares and pushes the section as it is now.
Compare ==
  /\ reports # <<>>
  /\ pushes' = IF needs_push(Head(reports)) THEN <<master>> ELSE pushes
  /\ reports' = Tail(reports)
  /\ UNCHANGED <<master, drawn, known, flash, ram, drawer, swaps>>

\* The comms processor stores the change and runs on it, stored or not
\* (L-137); a board with no flash left still clears what it runs on.
Settle(durable) ==
  /\ pushes # <<>>
  /\ flash' = settle(Head(pushes), durable)
  /\ ram' = Network(Head(pushes))
  /\ pushes' = Tail(pushes)
  /\ UNCHANGED <<master, drawn, known, drawer, reports, swaps>>

LoseReport ==
  /\ reports # <<>> /\ reports' = Tail(reports)
  /\ UNCHANGED <<master, drawn, known, flash, ram, drawer, pushes, swaps>>

LosePush ==
  /\ pushes # <<>> /\ pushes' = Tail(pushes)
  /\ UNCHANGED <<master, drawn, known, flash, ram, drawer, reports, swaps>>

\* Another board: what was on the wire is gone with the one taken out.
Swap ==
  /\ swaps < MaxSwaps
  /\ flash' = drawer /\ drawer' = flash
  /\ ram' = Network(drawer)
  /\ reports' = <<>> /\ pushes' = <<>> /\ swaps' = swaps + 1
  /\ UNCHANGED <<master, drawn, known>>

Next ==
  \/ \E c \in Clients : Read(c)
  \/ \E c \in Clients, ssid \in Networks \cup {None}, psk \in Keys \cup {None} :
       (ssid = None => psk = None) /\ Write(c, ssid, psk)
  \/ Unreadable \/ LinkUp \/ Compare \/ \E durable \in BOOLEAN : Settle(durable)
  \/ LoseReport \/ LosePush \/ Swap

\* Boards come up again and again, the link delivers again and again what is
\* sent again and again, and so does the flash.
Fairness ==
  /\ WF_vars(LinkUp) /\ SF_vars(Compare) /\ SF_vars(Settle(TRUE))

Spec == Init /\ [][Next]_vars /\ Fairness
-----------------------------------------------------------------------------
(* Properties *)

\* A stamp that matches names the very network the controller holds: no board
\* out of another unit, and no board that missed a repair and the versions
\* counted up again after it, is taken for current (NetStamp::needs_push).
CurrentMeansSame ==
  \A report \in Reports(flash) :
    ~ needs_push(report) => Network(flash) = Network(master)

\* When clients and people stop, the board in the socket ends up holding and
\* running on the network the controller holds.
CacheConverges == <>[](Network(flash) = Network(master) /\ ram = Network(flash))
=============================================================================
