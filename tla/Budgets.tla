------------------------------- MODULE Budgets -------------------------------
(***************************************************************************)
(* What the bodies weigh. Every buffer of the crate is sized from a number *)
(* somebody counted: the most bytes a row takes, what a header costs, how  *)
(* many rows a page may hold (limits.rs and the head of each codec). Here  *)
(* the same weights are taken from the bodies themselves, key by key, as   *)
(* the CBOR writer spends them, and the page builders are run against the  *)
(* caps that were counted.                                                 *)
(***************************************************************************)
EXTENDS LinkBodies, SessionBodies, PlaneBodies, FiniteSetsExt

Messages == MembershipMessages @@ LinkMessages @@ WifiMessages @@ SessionMessages @@ ConfigMessages
              @@ PlaneMessages @@ InventoryMessages

-----------------------------------------------------------------------------
(* limits.rs: chosen.                                                      *)
MAX_PAYLOAD == 1024
MAX_FRAME == 1032
MAX_LOG_PAGE_BYTES == 896
MAX_IDENT == 24
MAX_CONFIG_BUSES == 8
MAX_CONFIG_DEVICES == 16
MAX_ROW_BYTES == 184
WIDEST_ROW_BYTES == MAX_ROW_BYTES - 14
MAX_SAMPLES == 40
MAX_SERIES == 7
MAX_READINGS_BYTES == 880
MAX_INVENTORY_PAGE_ROWS == 48
MAX_INVENTORY_PAGE_BYTES == 880
MAX_CONCERN_PAGE_BYTES == 832
MAX_HISTORY_POINTS == 96
MAX_CONCERN_EVENTS_PER_TICK == 4
MAX_BUSES == 8
MAX_DEVICES == 24
MAX_COMPONENTS == 160
MAX_SIGNALS == 384
MAX_SERIES_ELEMENTS == 512
MAX_PARAMS == 96
MAX_CONCERNS == 48
MAX_HISTORY_SIGNALS == 24
MAX_TOPOLOGY_DEPTH == 4
MAX_SESSIONS == 8
MAX_CHANNELS == 32
MAX_EVENT_QUEUE == 16
MAX_INFLIGHT == 4
MAX_CMD_DEDUP == 32
MAX_CONCERNS_BELOW_FAULT == 24
MAX_ADMINS == 6
MAX_VIEWERS == 1
MAX_INVITES_PER_INVITER == 2
CRC_BYTES == 2
FRAME_DELIMITER_BYTES == 1

(* limits.rs and the codecs: counted by hand.                              *)
ENVELOPE_BYTES == 11
SEALED_CONTROLLER_CONTENTS_BYTES == 30
SEALED_REQUEST_CONTENTS_BYTES == 20
RESPONSE_TYPE_EXTRA_BYTE == 1
EVENT_FIXED_BYTES == 25
EVENT_RECORD_MAP_HEADER_BYTES == 1
LOG_PAGE_HEADER_BYTES == 26
READINGS_HEADER_BYTES == 42
INVENTORY_HEADER_BYTES == 32
CONCERNS_HEADER_BYTES == 33
SAMPLE_MAX_BYTES == 20
SERIES_MAX_BYTES == 111
CONCERN_MAX_BYTES == 63
NARROWEST_ROW_BYTES == 6
HISTORY_FIXED_BYTES == 65
HISTORY_POINT_EIGHTHS == 65
VCHANGE_MAX_BYTES == 11
PCHANGE_MAX_BYTES == 9
VALIDITY_SWEEP_HEADER_BYTES == 10
PRESENCE_SWEEP_HEADER_BYTES == 10
AP_MAX_BYTES == 46
SCAN_ANSWER_HEADER_BYTES == 17
SCAN_RESULT_HEADER_BYTES == 24
WIFI_STATUS_MAX_BYTES == 21
CLIENT_ROW_MAX_BYTES == 52
INVITE_ROW_MAX_BYTES == 111
CLIENTS_HEADER_BYTES == 5
MAX_INVITE_OPERATION_BYTES == 110
MAX_INVITE_ACK_BYTES == 21
MAX_APPROVE_OPERATION_BYTES == 57
MAX_APPROVE_ACK_BYTES == 33
MAX_REMOVE_OPERATION_BYTES == 13
MAX_REMOVE_ACK_BYTES == 3
MAX_TIME_OPERATION_BYTES == 11
MAX_TIME_ACK_BYTES == 13
MAX_COMMAND_ACK_BYTES == 1 + (1 + 5) + (1 + 1) + (1 + 2 + MAX_STRING)
CONTROLLER_RECORD_MAX_BYTES == 23
BOOT_MAX_BYTES == 21
MAX_IDENTITY_BYTES == 36
MAX_BEHAVIOUR_BYTES == 3
MAX_NETWORK_WRITE_BYTES == 141
MAX_NETWORK_READ_BYTES == 77
MAX_GET_CONFIG_BYTES == 5
MAX_SET_CONFIG_ACK_BYTES == 13
CONFIG_HEADER_BYTES == 12
MAX_BUSES_AND_DEVICES_BYTES == 901
TEXT_MAX == 2 + MAX_STRING
TOPOLOGY_REPORT_BYTES == 59
MAX_HELLO_REPORT == 71 + 2 * TEXT_MAX + TOPOLOGY_REPORT_BYTES + 2 * 7 + 1

(* limits.rs: derived. What goes round an inner body on its way out.       *)
RESPONSE_FRAMING_BYTES ==
  ENVELOPE_BYTES + SEALED_CONTROLLER_CONTENTS_BYTES + RESPONSE_TYPE_EXTRA_BYTE
REQUEST_FRAMING_BYTES == ENVELOPE_BYTES + SEALED_REQUEST_CONTENTS_BYTES
EVENT_FRAMING_BYTES == ENVELOPE_BYTES + SEALED_CONTROLLER_CONTENTS_BYTES
INNER_BODY_BYTES == MAX_PAYLOAD - RESPONSE_FRAMING_BYTES
MAX_OPERATION_CEILING == MAX_PAYLOAD - REQUEST_FRAMING_BYTES
CLIENTS_MAX_BYTES ==
  CLIENTS_HEADER_BYTES + MAX_CLIENTS * CLIENT_ROW_MAX_BYTES + MAX_INVITES * INVITE_ROW_MAX_BYTES

LOG_PAGE_CEILING == MAX_PAYLOAD - RESPONSE_FRAMING_BYTES - LOG_PAGE_HEADER_BYTES
SCAN_ANSWER_CEILING == (INNER_BODY_BYTES - SCAN_ANSWER_HEADER_BYTES) \div AP_MAX_BYTES
SCAN_RESULT_CEILING == (MAX_PAYLOAD - SCAN_RESULT_HEADER_BYTES) \div AP_MAX_BYTES
SAMPLE_CEILING == (INNER_BODY_BYTES - READINGS_HEADER_BYTES) \div SAMPLE_MAX_BYTES
SERIES_CEILING == (INNER_BODY_BYTES - READINGS_HEADER_BYTES) \div SERIES_MAX_BYTES
CONCERN_CEILING == (INNER_BODY_BYTES - CONCERNS_HEADER_BYTES) \div CONCERN_MAX_BYTES
INVENTORY_PAGE_ROWS_CEILING == MAX_INVENTORY_PAGE_BYTES \div NARROWEST_ROW_BYTES
POINT_CEILING == ((INNER_BODY_BYTES - HISTORY_FIXED_BYTES) * 8) \div HISTORY_POINT_EIGHTHS
SWEEP_CEILING == (MAX_EVENT_BODY - VALIDITY_SWEEP_HEADER_BYTES) \div VCHANGE_MAX_BYTES
PRESENCE_SWEEP_CEILING == (MAX_EVENT_BODY - PRESENCE_SWEEP_HEADER_BYTES) \div PCHANGE_MAX_BYTES
CLASS_A_TICK_CEILING == 1 + 1 + MAX_CONCERN_EVENTS_PER_TICK + 1

(* cobs.rs max_encoded_len over the payload and its CRC, and the zero.     *)
FrameOf(payload) ==
  LET n == payload + CRC_BYTES IN n + n \div 254 + 1 + FRAME_DELIMITER_BYTES

(* What a controller tells a client it enforces, and what it enforces      *)
(* (Caps and Topology, THIS_CONTROLLER; P-005).                            *)
ReportedCaps ==
  [max_sessions |-> 8, max_channels |-> 32, max_clients |-> 8, max_event_queue |-> 16,
   max_inflight |-> 4, max_cmd_dedup |-> 32]
ReportedTopology ==
  [max_buses |-> 8, max_devices |-> 24, max_components |-> 160, max_signals |-> 384,
   max_series_elements |-> 512, max_params |-> 96, max_concerns |-> 48, max_selectors |-> 12,
   max_history_signals |-> 24, max_topology_depth |-> 4]
Enforced ==
  [max_sessions |-> MAX_SESSIONS, max_channels |-> MAX_CHANNELS, max_clients |-> MAX_CLIENTS,
   max_event_queue |-> MAX_EVENT_QUEUE, max_inflight |-> MAX_INFLIGHT,
   max_cmd_dedup |-> MAX_CMD_DEDUP, max_buses |-> MAX_BUSES, max_devices |-> MAX_DEVICES,
   max_components |-> MAX_COMPONENTS, max_signals |-> MAX_SIGNALS,
   max_series_elements |-> MAX_SERIES_ELEMENTS, max_params |-> MAX_PARAMS,
   max_concerns |-> MAX_CONCERNS, max_selectors |-> MAX_SELECTORS,
   max_history_signals |-> MAX_HISTORY_SIGNALS, max_topology_depth |-> MAX_TOPOLOGY_DEPTH]

(* The report travels inside message 2 of the session handshake.           *)
ReportFits ==
  MAX_HELLO_REPORT + ENVELOPE_BYTES + 1 + 1 + 3 + KEY_BYTES + TAG_BYTES <= MAX_PAYLOAD

(* What the compiler is asked to check of the numbers above (const_assert).*)
Asserted ==
  /\ ReportedCaps @@ ReportedTopology = Enforced
  /\ DOMAIN ReportedCaps = Range(CapKeys)
  /\ DOMAIN ReportedTopology = Range(TopoKeys) \ {"rev", "topo_digest"}
  /\ ReportedCaps.max_channels <= CHANNEL_CEILING
  /\ ReportFits
  /\ MAX_LABEL <= MAX_STRING /\ MAX_IDENT <= MAX_STRING /\ MAX_LINK_TEXT <= MAX_STRING
  /\ MAX_SCAN_APS <= SCAN_ANSWER_CEILING /\ MAX_SCAN_APS <= SCAN_RESULT_CEILING
  /\ CLIENTS_MAX_BYTES <= INNER_BODY_BYTES
  /\ MAX_ADMINS + MAX_VIEWERS < MAX_CLIENTS
  /\ MAX_INVITES_PER_INVITER < MAX_INVITES
  /\ MAX_SAMPLES <= SAMPLE_CEILING /\ MAX_SERIES <= SERIES_CEILING
  /\ MAX_READINGS_BYTES <= INNER_BODY_BYTES - READINGS_HEADER_BYTES
  /\ MAX_INVENTORY_PAGE_BYTES <= INNER_BODY_BYTES - INVENTORY_HEADER_BYTES
  /\ MAX_INVENTORY_PAGE_ROWS <= INVENTORY_PAGE_ROWS_CEILING
  /\ MAX_CONCERN_PAGE_ROWS <= CONCERN_CEILING
  /\ MAX_CONCERN_PAGE_BYTES <= INNER_BODY_BYTES - CONCERNS_HEADER_BYTES
  /\ MAX_CONCERN_PAGE_ROWS * CONCERN_MAX_BYTES <= MAX_CONCERN_PAGE_BYTES
  /\ MAX_HISTORY_POINTS <= POINT_CEILING
  /\ MAX_VALIDITY_SWEEP <= SWEEP_CEILING /\ MAX_PRESENCE_SWEEP <= PRESENCE_SWEEP_CEILING
  /\ MAX_SIGNALS > MAX_EVENT_QUEUE * 8 /\ CLASS_A_TICK_CEILING <= MAX_EVENT_QUEUE
  /\ MAX_CONCERNS_BELOW_FAULT < MAX_CONCERNS /\ MAX_SERIES_LEN <= MAX_SERIES_ELEMENTS
  /\ MAX_ROW_BYTES <= MAX_INVENTORY_PAGE_BYTES
  /\ RESPONSE_FRAMING_BYTES + READINGS_HEADER_BYTES + MAX_READINGS_BYTES <= MAX_PAYLOAD
  /\ RESPONSE_FRAMING_BYTES + INVENTORY_HEADER_BYTES + MAX_INVENTORY_PAGE_BYTES <= MAX_PAYLOAD
  /\ RESPONSE_FRAMING_BYTES + CONCERNS_HEADER_BYTES + MAX_CONCERN_PAGE_BYTES <= MAX_PAYLOAD
  /\ RESPONSE_FRAMING_BYTES + HISTORY_FIXED_BYTES
       + (MAX_HISTORY_POINTS * HISTORY_POINT_EIGHTHS + 7) \div 8 <= MAX_PAYLOAD
  /\ MAX_FRAME >= FrameOf(MAX_PAYLOAD)
  /\ MAX_LOG_PAGE_BYTES <= LOG_PAGE_CEILING
  /\ MAX_OPERATION <= MAX_OPERATION_CEILING
ASSUME LimitsAssumption == Asserted

-----------------------------------------------------------------------------
(* CborWriter::head: the shortest form that holds the argument.            *)
head(n) == IF n <= 23 THEN 1 ELSE IF n <= 255 THEN 2 ELSE IF n <= 65535 THEN 3 ELSE 5
Text(n) == head(n) + n
List(n, each) == head(n) + n * each

(* FieldType: an integer at its widest. A power of ten has a sign and the  *)
(* width of an i8; the Rust type of every other field is one of these.     *)
U8 == 2
U16 == 3
U32 == 5
U64 == 9
I8 == 2
I32 == 5

(* The fields a body carries as numbers, texts and lists, at the width     *)
(* their types give them. Those not named here are registry numbers, flags *)
(* and small counts, and weigh what their largest legal value weighs.      *)
Each(names, weight) == [name \in names |-> weight]
RowWeights ==
  Each({"dev", "cmp", "product", "dialect", "role", "parent", "index", "rollup", "sig", "kind",
        "point", "erole", "ebase", "esp", "vns", "pid", "via"}, U16)
    @@ Each({"bus", "unit"}, U8) @@ Each({"since", "rate"}, U32) @@ Each({"v", "lo", "hi"}, I32)
    @@ Each({"serial", "hw", "fw"}, Text(MAX_IDENT))
    @@ [scale |-> I8, label |-> Text(MAX_LABEL), addr |-> Text(MAX_ADDR),
        cmds |-> List(MAX_COMPONENT_CMDS, U16)]

HelloWeights ==
  Each({"protocol_major", "protocol_minor", "max_sessions", "max_channels", "max_clients",
        "max_inflight", "max_buses", "max_selectors", "max_topology_depth"}, U8)
    @@ Each({"session_id", "max_event_queue", "max_cmd_dedup", "max_devices", "max_components",
             "max_signals", "max_series_elements", "max_params", "max_concerns",
             "max_history_signals"}, U16)
    @@ Each({"capabilities", "rev", "client_id", "generation"}, U32)
    @@ Each({"log_oldest_seq", "log_newest_seq", "state_seq"}, U64)
    @@ Each({"fw_controller", "fw_comms"}, Text(MAX_STRING))
    @@ [topo_digest |-> Text(TOPO_DIGEST_BYTES)]

PageWeights ==
  Each({"seq", "at", "next_seq", "oldest_seq"}, U64) @@ Each({"rev", "age_ms"}, U32)
    @@ Each({"next", "total", "refused", "unlisted"}, U16)
    @@ [samples |-> head(MAX_SAMPLES), series |-> head(MAX_SERIES), digest |-> Text(8)]

NetworkWeights ==
  [ssid |-> Text(MAX_SSID), psk |-> Text(PSK_LONGEST), country |-> Text(COUNTRY_BYTES),
   hostname |-> Text(MAX_HOSTNAME)]

RadioWeights == Each({"section", "version"}, U32) @@ [ipv4 |-> Text(4)]

SlotWeights ==
  Each({"client_id", "generation", "inviter", "inviter_generation"}, U32)
    @@ Each({"nonce", "reveal"}, Text(INVITE_NONCE_BYTES)) @@ Each({"proof", "confirm"}, Text(TAG_BYTES))
    @@ [invitee |-> Text(KEY_BYTES), commitment |-> Text(COMMITMENT_BYTES), label |-> Text(MAX_LABEL),
        expires_in |-> U16]

SectionWeights == [section |-> U16, version |-> U32, expected_version |-> U32, body |-> 0]

InventoryRows == {"BusRow", "DeviceRow", "ComponentRow", "SignalRow", "ParamRow"}

Weights ==
  [name \in InventoryRows |-> RowWeights]
    @@ [name \in {"ClientRow", "InviteRow", "Invite", "InviteAck", "Approve", "ApproveAck", "Remove",
                  "RemoveAck"} |-> SlotWeights]
    @@ [name \in {"NetworkWrite", "NetworkRead"} |-> NetworkWeights]
    @@ [name \in {"GetConfigRequest", "SetConfigOperation", "SetConfigAck"} |-> SectionWeights]
    @@ [name \in {"WifiStatus", "WifiStatusChanged"} |-> RadioWeights]
    @@ [HelloReport |-> HelloWeights,
        Sample |-> [sig |-> U16, value |-> I32, age |-> U32],
        Series |-> [sig |-> U16, q |-> Text(MAX_SERIES_LEN), values |-> List(MAX_SERIES_LEN, I32),
                    age |-> U32],
        Concern |-> Each({"cid", "dev", "cmp", "sig", "cond", "vns"}, U16)
                      @@ Each({"age", "raw"}, U32) @@ Each({"since", "seq"}, U64),
        VChange |-> [sig |-> U16], PChange |-> [dev |-> U16],
        ReadingsBody |-> PageWeights, LogPage |-> PageWeights,
        InventoryBody |-> [rows |-> head(MAX_INVENTORY_PAGE_ROWS)] @@ PageWeights,
        ConcernsBody |-> [rows |-> head(MAX_CONCERN_PAGE_ROWS)] @@ PageWeights,
        ValidityChanged |-> PageWeights, PresenceChanged |-> PageWeights,
        ScanAnswer |-> [refused |-> 1, aps |-> head(MAX_SCAN_APS)] @@ PageWeights,
        ScanResult |-> [scan |-> U32, aps |-> head(MAX_SCAN_APS)] @@ PageWeights,
        ClientsAnswer |-> [clients |-> head(MAX_CLIENTS), invites |-> head(MAX_INVITES)],
        EventBody |-> [seq |-> U64, at |-> U64, kind |-> U16, body |-> 0],
        AccessPoint |-> [ssid |-> Text(MAX_SSID), rssi |-> I8],
        Boot |-> Each({"overdue_ms", "file", "line"}, U32) @@ [task |-> U8],
        CommandAck |-> [cmd_id |-> U32, detail |-> Text(MAX_STRING)],
        TimeOperation |-> [at |-> U64], TimeAck |-> [at |-> U64],
        TimeSetRecord |-> [old |-> U64, new |-> U64], CountRecord |-> [count |-> U32],
        IdentitySection |-> [site_name |-> Text(MAX_LABEL)], BehaviourSection |-> << >>,
        BusEntry |-> [bus |-> U8, rate |-> U32],
        DeviceOptions |-> [poll_period |-> U32]]

Weight(what, put) ==
  IF put.name \in DOMAIN Weights[what] THEN Weights[what][put.name] ELSE head(Max(put.values))

(* Header::write_scalars: the envelope round a body, by its session.       *)
EnvelopeWeight(session) == head(4) + U8 + session + U32

(* What one way of writing a body takes: the map's head, then each key and *)
(* its value.                                                              *)
Weighs(what, w) ==
  LET key(i) == Messages[what].keys[w.puts[i].name]
  IN head(w.count)
       + FoldFunction(LAMBDA each, sum : each + sum, 0,
           [i \in DOMAIN w.puts |-> head(key(i)) + Weight(what, w.puts[i])])

Sent(what) == {w \in Messages[what].writes : w.sent}
Widest(what) == Max({Weighs(what, w) : w \in Sent(what)})
(* No row is lighter: a map head, and two bytes for each pair it must have.*)
Lightest(what) ==
  LET must(w) == Len(w.puts) - Cardinality(w.free)
  IN 1 + 2 * Min({must(w) : w \in Sent(what)})

(* What each body was counted to take at most; for a page, with no row.    *)
Declared ==
  [Sample |-> SAMPLE_MAX_BYTES, Series |-> SERIES_MAX_BYTES, Concern |-> CONCERN_MAX_BYTES,
   VChange |-> VCHANGE_MAX_BYTES, PChange |-> PCHANGE_MAX_BYTES, DeviceRow |-> WIDEST_ROW_BYTES,
   ReadingsBody |-> READINGS_HEADER_BYTES, InventoryBody |-> INVENTORY_HEADER_BYTES,
   ConcernsBody |-> CONCERNS_HEADER_BYTES, LogPage |-> LOG_PAGE_HEADER_BYTES,
   ValidityChanged |-> VALIDITY_SWEEP_HEADER_BYTES, PresenceChanged |-> PRESENCE_SWEEP_HEADER_BYTES,
   ScanAnswer |-> SCAN_ANSWER_HEADER_BYTES, AccessPoint |-> AP_MAX_BYTES,
   WifiStatus |-> WIFI_STATUS_MAX_BYTES, WifiStatusChanged |-> WIFI_STATUS_MAX_BYTES,
   ClientRow |-> CLIENT_ROW_MAX_BYTES, InviteRow |-> INVITE_ROW_MAX_BYTES,
   ClientsAnswer |-> CLIENTS_HEADER_BYTES,
   EventBody |-> EVENT_FIXED_BYTES + EVENT_RECORD_MAP_HEADER_BYTES,
   Invite |-> MAX_INVITE_OPERATION_BYTES, InviteAck |-> MAX_INVITE_ACK_BYTES,
   Approve |-> MAX_APPROVE_OPERATION_BYTES, ApproveAck |-> MAX_APPROVE_ACK_BYTES,
   Remove |-> MAX_REMOVE_OPERATION_BYTES, RemoveAck |-> MAX_REMOVE_ACK_BYTES,
   TimeOperation |-> MAX_TIME_OPERATION_BYTES, TimeAck |-> MAX_TIME_ACK_BYTES,
   CommandAck |-> MAX_COMMAND_ACK_BYTES, TimeSetRecord |-> CONTROLLER_RECORD_MAX_BYTES,
   Boot |-> BOOT_MAX_BYTES, IdentitySection |-> MAX_IDENTITY_BYTES,
   BehaviourSection |-> MAX_BEHAVIOUR_BYTES, NetworkWrite |-> MAX_NETWORK_WRITE_BYTES,
   NetworkRead |-> MAX_NETWORK_READ_BYTES, GetConfigRequest |-> MAX_GET_CONFIG_BYTES,
   SetConfigAck |-> MAX_SET_CONFIG_ACK_BYTES, SetConfigOperation |-> CONFIG_HEADER_BYTES,
   HelloReport |-> MAX_HELLO_REPORT]

-----------------------------------------------------------------------------
(* The builders that fill a message with rows. "kinds" are the rows it may *)
(* be offered; each of "arms" caps the rows of some kinds; "bytes" caps    *)
(* what they weigh together, where the builder measures it; round them go  *)
(* the widest of the bodies of "inside" and "framing" more bytes.          *)
Arm(of, max) == [of |-> of, max |-> max]
Builder(kinds, arms, bytes, framing, inside) ==
  [kinds |-> kinds, arms |-> arms, bytes |-> bytes, framing |-> framing, inside |-> inside]
Unmeasured == 100000
Lean(row) == [row |-> row, at |-> "least", beside |-> 0]
Full(row) == [row |-> row, at |-> "most", beside |-> 0]

(* The entries of the devices section; a device's has its numbers and its  *)
(* address beside its options.                                             *)
ConfigRows ==
  <<Full("BusEntry"),
    [Full("DeviceOptions") EXCEPT !.beside =
       1 + 4 * (1 + U16) + (1 + U8) + (1 + Text(MAX_ADDR)) + (1 + U16) + 1]>>
ConfigArms == {Arm({1}, MAX_CONFIG_BUSES), Arm({2}, MAX_CONFIG_DEVICES)}
ConfigEntries == 1 + (1 + head(MAX_CONFIG_BUSES)) + (1 + head(MAX_CONFIG_DEVICES))

(* The records of a log page: one with an empty body, a boot's, and one so *)
(* long that no page takes it.                                             *)
LogEntries ==
  <<Lean("EventBody"), [Full("EventBody") EXCEPT !.beside = BOOT_MAX_BYTES],
    [Full("EventBody") EXCEPT !.beside = MAX_EVENT_BODY]>>

Builders ==
  [ReadingsBody |->
     Builder(<<Lean("Sample"), Full("Sample"), Full("Series")>>,
             {Arm({1, 2}, MAX_SAMPLES), Arm({3}, MAX_SERIES)}, MAX_READINGS_BYTES,
             RESPONSE_FRAMING_BYTES, {"ReadingsBody"}),
   InventoryBody |->
     Builder(<<Lean("BusRow"), Full("DeviceRow"), Full("ParamRow")>>,
             {Arm({1, 2, 3}, MAX_INVENTORY_PAGE_ROWS)}, MAX_INVENTORY_PAGE_BYTES,
             RESPONSE_FRAMING_BYTES, {"InventoryBody"}),
   ConcernsBody |->
     Builder(<<Lean("Concern"), Full("Concern")>>, {Arm({1, 2}, MAX_CONCERN_PAGE_ROWS)},
             MAX_CONCERN_PAGE_BYTES, RESPONSE_FRAMING_BYTES, {"ConcernsBody"}),
   \* LogPage::push counts records; encode counts bytes, the header's with them.
   LogPage |->
     Builder(LogEntries, {Arm({1, 2, 3}, MAX_LOG_PAGE_ENTRIES)},
             MAX_LOG_PAGE_BYTES - LOG_PAGE_HEADER_BYTES, RESPONSE_FRAMING_BYTES, {"LogPage"}),
   ValidityChanged |->
     Builder(<<Full("VChange")>>, {Arm({1}, MAX_VALIDITY_SWEEP)}, MAX_EVENT_BODY,
             EVENT_FRAMING_BYTES, {"EventBody", "ValidityChanged"}),
   PresenceChanged |->
     Builder(<<Full("PChange")>>, {Arm({1}, MAX_PRESENCE_SWEEP)}, MAX_EVENT_BODY,
             EVENT_FRAMING_BYTES, {"EventBody", "PresenceChanged"}),
   ScanAnswer |->
     Builder(<<Full("AccessPoint")>>, {Arm({1}, MAX_SCAN_APS)}, Unmeasured,
             RESPONSE_FRAMING_BYTES, {"ScanAnswer"}),
   \* The link's envelope, about the cable itself.
   ScanResult |->
     Builder(<<Full("AccessPoint")>>, {Arm({1}, MAX_SCAN_APS)}, Unmeasured,
             EnvelopeWeight(head(0)), {"ScanResult"}),
   ClientsAnswer |->
     Builder(<<Full("ClientRow"), Full("InviteRow")>>,
             {Arm({1}, MAX_CLIENTS), Arm({2}, MAX_INVITES)}, Unmeasured,
             RESPONSE_FRAMING_BYTES, {"ClientsAnswer"}),
   \* The buses and devices section, in a write and in the answer to a read.
   SetConfigOperation |->
     Builder(ConfigRows, ConfigArms, Unmeasured,
             REQUEST_FRAMING_BYTES + ConfigEntries, {"SetConfigOperation"}),
   ConfigAnswer |->
     Builder(ConfigRows, ConfigArms, Unmeasured,
             RESPONSE_FRAMING_BYTES + CONFIG_HEADER_BYTES + ConfigEntries, {})]

\* The extremes of every body that is weighed.
Extremes == [name \in DOMAIN Weights |-> [least |-> Lightest(name), most |-> Widest(name)]]

Total(counts) == FoldFunction(LAMBDA n, sum : n + sum, 0, counts)
RowWeight(kind) == kind.beside + Extremes[kind.row][kind.at]
RowBytes(builder, counts) == Total([i \in DOMAIN counts |-> counts[i] * RowWeight(builder.kinds[i])])
More(counts, kind) == [counts EXCEPT ![kind] = @ + 1]
WithinArms(builder, counts) ==
  \A arm \in builder.arms : Total([i \in arm.of |-> counts[i]]) <= arm.max

(* Seeded fault: the byte arm is left out.                                 *)
TakesRowsOnly(builder, counts, kind) == WithinArms(builder, More(counts, kind))

(* Page::push, ReadingsPage::keep, ConcernsPage::push, Sweep::push, the    *)
(* log page's push and encode, and the fixed arrays of the rest: whether   *)
(* one more row of a kind is taken.                                        *)
Takes(builder, counts, kind) ==
  /\ WithinArms(builder, More(counts, kind))
  /\ RowBytes(builder, More(counts, kind)) <= builder.bytes

Around(builder) == builder.framing + Total([name \in builder.inside |-> Extremes[name].most])

(* A page can be sent, with what goes round it and its rows: the payload   *)
(* and its frame fit, a write of the devices section is one the operation  *)
(* allows, and the clients' list what its buffer holds.                    *)
Sendable(name, around, rows) ==
  /\ around + rows <= MAX_PAYLOAD /\ FrameOf(around + rows) <= MAX_FRAME
  /\ name = "SetConfigOperation" =>
       /\ ConfigEntries + rows <= MAX_BUSES_AND_DEVICES_BYTES
       /\ around + rows - REQUEST_FRAMING_BYTES <= MAX_OPERATION
  /\ name = "ClientsAnswer" => CLIENTS_HEADER_BYTES + rows <= CLIENTS_MAX_BYTES

(* What a body was counted to take at most, if it was.                     *)
Counted(name) ==
  IF name \in DOMAIN Declared THEN {Declared[name]}
  ELSE IF name \in InventoryRows THEN 0..WIDEST_ROW_BYTES ELSE Nat
=============================================================================
