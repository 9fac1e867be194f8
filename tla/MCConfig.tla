------------------------------- MODULE MCConfig -------------------------------
(***************************************************************************)
(* The two sections that have rules of their own, checked side by side:    *)
(* a behaviour belongs to one of them, and the other stays as it began.    *)
(*                                                                         *)
(* The board has an internal bus, an addressed one and a point-to-point    *)
(* one; the drivers know one dialect, over the last two, with options on   *)
(* one of them.  The bodies: every single entry with each fault it can     *)
(* have, every pair of entries with edits, additions, shared addresses     *)
(* and parents, every triple of ids and parents, up to two bus entries     *)
(* with their faults, and bus entries out of order beside a device.        *)
(***************************************************************************)
EXTENDS DeviceConfig

CONSTANTS Clients, Networks, Keys, MaxVersion, MaxRepairs, MaxSwaps

VARIABLES part, master, drawn, known, flash, ram, drawer, reports, pushes, swaps

Net == INSTANCE NetworkConfig

net == <<master, drawn, known, flash, ram, drawer, reports, pushes, swaps>>

MCBoard == [bus \in 0 .. 2 |-> IF bus = 0 THEN "Internal"
                               ELSE IF bus = 1 THEN "Rs485" ELSE "VeDirect"]

Meter   == [product |-> "meter", dialect |-> "dc"]
Charger == [product |-> "charger", dialect |-> "dc"]
Unknown == [product |-> "charger", dialect |-> "text"]
MCKinds == {Meter, Charger, Unknown}

MCDialects ==
  << [dialect |-> "dc", transports |-> {"Rs485"}, options |-> {"poll_period"}, min_poll |-> 2],
     [dialect |-> "dc", transports |-> {"VeDirect"}, options |-> {}, min_poll |-> 0] >>

Entry(dev, at, kind, parent) ==
  [dev |-> dev, bus |-> at[1], addr |-> at[2], kind |-> kind, parent |-> parent,
   options |-> {}, poll |-> 0]

Seats == {<<1, 1>>, <<1, 2>>, <<2, 0>>}          \* bus and addr that agree
Odd   == {<<1, 0>>, <<2, 1>>, <<3, 0>>, <<0, 0>>} \* and that do not

Singles == {Entry(dev, at, kind, 0) : dev \in {0, 3}, at \in Odd \cup Seats, kind \in MCKinds}
      \cup {[Entry(0, at, Meter, 0) EXCEPT !.options = {"poll_period"}, !.poll = p] :
              at \in Seats, p \in 1 .. 2}

Pairs == {Entry(dev, at, kind, parent) :
            dev \in 0 .. 4, at \in Seats, kind \in {Meter, Charger}, parent \in {0, 1, 4}}

Rows == {<< <<1, 1>>, <<1, 2>>, <<2, 0>> >>, << <<1, 1>>, <<2, 0>>, <<1, 1>> >>}

Triples == {[i \in 1 .. 3 |-> Entry(ids[i], row[i], Meter, up[i])] :
              ids, up \in [1 .. 3 -> 0 .. 2], row \in Rows}

BusLists == UNION {[1 .. n -> [bus : {1, 2, 3}, set : {{}, {"rate"}, {"parity"}}]] : n \in 0 .. 2}

Lines == << [bus |-> 2, set |-> {"rate"}], [bus |-> 1, set |-> {"parity"}] >>

MCWrites ==
  {[buses |-> <<>>, devices |-> list] :
     list \in {<<>>} \cup [1 .. 1 -> Singles] \cup [1 .. 2 -> Pairs] \cup Triples}
  \cup {[buses |-> list, devices |-> <<>>] : list \in BusLists}
  \cup {[buses |-> Lines, devices |-> <<Entry(dev, at, Meter, 0)>>] : dev \in 0 .. 2, at \in Seats}

-----------------------------------------------------------------------------
ConfigInit == part \in {"devices", "network"} /\ Init /\ Net!Init

DeviceStep == part = "devices" /\ Next /\ UNCHANGED net
Within(A)  == part = "network" /\ A /\ UNCHANGED vars

ConfigNext == (DeviceStep \/ Within(Net!Next)) /\ UNCHANGED part

ConfigSpec ==
  /\ ConfigInit /\ [][ConfigNext]_<<part, vars, net>>
  /\ WF_net(Within(Net!LinkUp)) /\ SF_net(Within(Net!Compare))
  /\ SF_net(Within(Net!Settle(TRUE)))

CurrentMeansSame == Net!CurrentMeansSame
CacheConverges   == Net!CacheConverges
=============================================================================
