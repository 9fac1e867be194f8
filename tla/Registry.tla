------------------------------ MODULE Registry ------------------------------
(***************************************************************************)
(* The registries of generated.rs that the bodies carry: each is its       *)
(* names with their numbers. TryFrom takes a closed enum's number exactly  *)
(* when some name has it; an open registry (EventKind, MetricKind and the  *)
(* spaces a row points into) carries a number this build does not know.    *)
(***************************************************************************)

(* Widths and limits, in bytes.                                            *)
KEY_BYTES == 32
TAG_BYTES == 16
CHALLENGE_BYTES == 16
COMMITMENT_BYTES == 32
INVITE_NONCE_BYTES == 16
DEVICE_ID_BYTES == 16
NET_ORIGIN_BYTES == 8
DIGEST_BYTES == 32
MAX_LABEL == 32
MAX_LINK_TEXT == 32
MAX_STRING == 64
MAX_SSID == 32
MAX_SCAN_APS == 16
MAX_EVENT_BODY == 957
MAX_LOG_PAGE_ENTRIES == 64
MAX_ADDR == 8
MAX_HOSTNAME == 32
MAX_OPERATION == 960
MAX_CLIENTS == 8
MAX_INVITES == 4
INVITE_TTL_MS == 3600000
VOUCH_NONCE_BYTES == 16
BINDING_BYTES == 32
MAC_TAG_BYTES == 16
MAX_SERIES_LEN == 16
MAX_SELECTORS == 12
MAX_VALIDITY_SWEEP == 48
MAX_PRESENCE_SWEEP == 24
MAX_CONCERN_PAGE_ROWS == 12
MAX_COMPONENT_CMDS == 4
CONDITION_NEEDS_VENDOR_CODE == {25}
EVENT_IS_CLASS_A ==
  {258, 513, 514, 515, 769, 770, 1025, 1281, 1282, 1537, 1538, 1539, 1540, 1541,
   1542, 1793, 1794, 2049, 2050, 2051, 2052, 2053, 2054, 2055, 2305, 2306}

MessageType ==
  [Discover |-> 0, DiscoverResponse |-> 128, Hello |-> 1, HelloResponse |-> 129,
   Subscribe |-> 3, SubscribeResponse |-> 131, EventResponse |-> 4, ReadLog |-> 5,
   ReadLogResponse |-> 133, GetConfig |-> 6, GetConfigResponse |-> 134,
   SetConfig |-> 7, SetConfigResponse |-> 135, Command |-> 8, CommandResponse |-> 136,
   Firmware |-> 9, FirmwareResponse |-> 137, Time |-> 10, TimeResponse |-> 138,
   Pair |-> 11, PairResponse |-> 139, Goodbye |-> 12, GoodbyeResponse |-> 140,
   Inventory |-> 13, InventoryResponse |-> 141, Readings |-> 14,
   ReadingsResponse |-> 142, Concerns |-> 15, ConcernsResponse |-> 143, History |-> 16,
   HistoryResponse |-> 144, WifiScan |-> 17, WifiScanResponse |-> 145,
   WifiStatus |-> 18, WifiStatusResponse |-> 146, Enrol |-> 19, EnrolResponse |-> 147,
   Vouch |-> 20, VouchResponse |-> 148, Invite |-> 21, InviteResponse |-> 149,
   Approve |-> 22, ApproveResponse |-> 150, Remove |-> 23, RemoveResponse |-> 151,
   Clients |-> 24, ClientsResponse |-> 152, ErrorResponse |-> 255]
LinkMessageType ==
  [LinkUp |-> 96, LinkUpAck |-> 224, Heartbeat |-> 97, HeartbeatAck |-> 225,
   ClientConnected |-> 98, ClientConnectedAck |-> 226, ClientDisconnected |-> 99,
   ClientDisconnectedAck |-> 227, CloseConnection |-> 100, CloseConnectionAck |-> 228,
   NetConfig |-> 101, NetConfigAck |-> 229, TimeOffer |-> 102, TimeOfferAck |-> 230,
   CommsRelease |-> 103, CommsReleaseAck |-> 231, EnterDownload |-> 104,
   EnterDownloadAck |-> 232, PairingWindow |-> 105, PairingWindowAck |-> 233,
   WifiScan |-> 106, WifiScanAck |-> 234, WifiScanResult |-> 107,
   WifiScanResultAck |-> 235, WifiState |-> 108, WifiStateAck |-> 236]
ErrorCode ==
  [MalformedFrame |-> 1, UnknownMessageType |-> 2, ProtocolMajorMismatch |-> 3,
   HelloRequiredFirst |-> 4, PayloadTooLarge |-> 5, UnknownSection |-> 6,
   BusyRetry |-> 7, SessionTableFull |-> 8, SessionExpired |-> 9,
   AuthenticationFailed |-> 10, UnknownClient |-> 12,
   StaleChallengeReconnectAndRetry |-> 14, ChallengeUnavailable |-> 18,
   UnsupportedSuite |-> 19, RoleNotPermitted |-> 20]
Approve ==
  [Enrolled |-> 1, Declined |-> 2, Unauthorised |-> 3, UnknownInvite |-> 4,
   InviterGone |-> 5, Refused |-> 6, KnownKey |-> 7, TableFull |-> 8, NotStored |-> 9]
Command ==
  [Accepted |-> 1, Rejected |-> 2, Duplicate |-> 3, Inhibited |-> 4,
   Unauthorised |-> 5, Shadowed |-> 6, StaleTopology |-> 7, WrongTarget |-> 8]
Concerns == [Ok |-> 1, Superseded |-> 2, OutOfRange |-> 3]
Firmware ==
  [Accepted |-> 1, BadOffset |-> 2, BadSignature |-> 3, WrongTarget |-> 4,
   TooLarge |-> 5, NoTransferInProgress |-> 6, NotOwner |-> 7, Unauthorised |-> 8]
History ==
  [Ok |-> 1, Superseded |-> 2, UnknownSignal |-> 3, SeriesNotHistorable |-> 4,
   NoHistory |-> 5, OutOfRange |-> 6]
Inventory == [Ok |-> 1, Superseded |-> 2, UnknownKind |-> 3, OutOfRange |-> 4]
Invite ==
  [Proposed |-> 1, Unauthorised |-> 2, InvitesFull |-> 3, KnownKey |-> 4,
   TableFull |-> 5, NoBudget |-> 6]
Pair ==
  [Enrolled |-> 1, WindowClosed |-> 2, TableFull |-> 4, Reclaimed |-> 5, Proceed |-> 6,
   NotStored |-> 7]
Readings == [Ok |-> 1, Superseded |-> 2, UnknownSelector |-> 3, OutOfRange |-> 4]
Remove ==
  [Removed |-> 1, Gone |-> 2, Protected |-> 3, Unauthorised |-> 4, NotStored |-> 5]
SetConfig ==
  [Accepted |-> 1, StaleVersion |-> 2, Invalid |-> 3, Unauthorised |-> 4,
   ExceedsCap |-> 5, Staged |-> 9]
Time == [Accepted |-> 1, Rejected |-> 2, Unauthorised |-> 3, NeedsButton |-> 4]
Vouch == [Vouched |-> 1, BadVerifier |-> 2]
BootReason ==
  [Power |-> 1, Watchdog |-> 2, SoftwareReset |-> 4, Panic |-> 5, PinReset |-> 6,
   OptionByteReload |-> 7, WindowWatchdog |-> 8, LowPowerEntry |-> 9]
Bucket == [Day |-> 1, Hour |-> 2, QuarterHour |-> 3]
ChargeStage ==
  [Off |-> 1, Bulk |-> 2, Absorption |-> 3, Float |-> 4, Equalise |-> 5, Storage |-> 6,
   Fault |-> 7]
ClientKind == [App |-> 1, Browser |-> 2, Cloud |-> 3, Cli |-> 4]
ConcernState ==
  [Active |-> 1, ActiveAcked |-> 2, LatchedCleared |-> 3, ClearingBlocked |-> 4,
   Cleared |-> 5]
ControlOwner ==
  [LocalPanel |-> 1, ThisController |-> 2, Bms |-> 3, GxEss |-> 4, RemoteClient |-> 5,
   DeviceAutomation |-> 6]
Direction == [PositiveIsIn |-> 1, PositiveIsOut |-> 2, MagnitudeOnly |-> 3]
GeneratorSelector == [Auto |-> 1, Off |-> 2, Manual |-> 3]
GeneratorState ==
  [Stopped |-> 1, Starting |-> 2, Running |-> 3, RunningNotOurs |-> 4,
   StopNotHonoured |-> 5, GaveUp |-> 6]
HeldDownReason == [NoDeviceId |-> 0, RevisionsSpent |-> 1]
HistorySource == [DeviceReported |-> 1, ControllerDerived |-> 2]
HistoryStopReason ==
  [DeviceReplaced |-> 1, ComponentReassigned |-> 2, GapInRecord |-> 3,
   EndOfRecord |-> 4, OlderThanStore |-> 5, PageFull |-> 6]
InventoryKind ==
  [Buses |-> 1, Devices |-> 2, Components |-> 3, Signals |-> 4, Parameters |-> 5]
InviteDecision == [Approve |-> 1, Decline |-> 2]
Parity == [None |-> 1, Even |-> 2, Odd |-> 3]
Presence == [Online |-> 1, Degraded |-> 2, Offline |-> 3, NeverSeen |-> 4]
Provenance ==
  [None |-> 0, Measured |-> 1, Counted |-> 2, Derived |-> 3, Estimated |-> 4,
   Reported |-> 5, Commanded |-> 6]
PylontechVersion == [V12 |-> 1, V13 |-> 2]
Quality == [Measured |-> 1, Counted |-> 2, Estimated |-> 3, Stale |-> 4, Absent |-> 5]
Role == [Owner |-> 1, Admin |-> 2, Viewer |-> 3]
ScanRefusal == [TooSoon |-> 1, RadioOff |-> 2, LinkDown |-> 3, Unauthorised |-> 4]
ScanState == [None |-> 1, Running |-> 2, Complete |-> 3, Failed |-> 4]
Severity == [Info |-> 1, Warning |-> 2, Fault |-> 3, Protection |-> 4]
Shape == [Scalar |-> 1, Series |-> 2]
SignalDomain ==
  [Live |-> 1, Lifetime |-> 2, SinceReset |-> 3, Today |-> 4, Yesterday |-> 5,
   LimitUpper |-> 6, LimitLower |-> 7, Max |-> 8, Min |-> 9]
Suite == [X25519ChachapolySha256 |-> 1]
TimeSource == [Client |-> 1, NtpViaComms |-> 2]
TopologyChangeReason ==
  [Boot |-> 1, ConfigWrite |-> 2, SubDeviceAdopted |-> 3, SubDeviceRemoved |-> 4,
   DeviceReplaced |-> 5]
Transport ==
  [Rs485 |-> 1, Can |-> 2, VeDirect |-> 3, LocalIo |-> 4, Ip |-> 5, Onewire |-> 6,
   Internal |-> 7]
Unit ==
  [Volt |-> 1, Ampere |-> 2, Watt |-> 3, WattHour |-> 4, AmpereHour |-> 5,
   DegreeCelsius |-> 6, Percent |-> 7, Hertz |-> 8, Second |-> 9, Minute |-> 10,
   Hour |-> 11, Count |-> 12, Ohm |-> 13, Pascal |-> 14, Litre |-> 15, None |-> 16]
Validity ==
  [Ok |-> 1, Stale |-> 2, Initialising |-> 3, Unsupported |-> 4, SensorFault |-> 5,
   OutOfRange |-> 6, Absent |-> 7, UnnamedState |-> 8, Reset |-> 9]
Vtype == [Gauge |-> 1, Counter |-> 2, Enum |-> 3, Flags |-> 4]
WifiBand == [Ghz24 |-> 1, Ghz5 |-> 2, Ghz6 |-> 3]
WifiFailure == [AuthFailed |-> 1, NotFound |-> 2, NoIp |-> 3, Lost |-> 4, Other |-> 5]
WifiSecurity == [Open |-> 1, Wpa2Personal |-> 2, Wpa3Personal |-> 3, Other |-> 4]
WifiState == [Off |-> 1, Joining |-> 2, Joined |-> 3, Failed |-> 4]
BehaviourKey == [Shadow |-> 1]
CapabilityBit ==
  [EventLogReadable |-> 0, ConfigurationWritable |-> 1, CommandsAccepted |-> 2,
   FirmwareUpdateAccepted |-> 3, ClockSettableByClient |-> 4,
   CountedStateOfChargeAvailable |-> 5, ACMeteringOnTheGenerator |-> 6,
   AnyBehaviourIsInShadowMode |-> 7, WifiScanAndJoinStatus |-> 8]
CommandKind ==
  [StartGenerator |-> 257, StopGenerator |-> 258, RunExerciseCycleNow |-> 259,
   SetOutput |-> 513, AcknowledgeConcern |-> 515, ClearOverride |-> 769]
ConfigSection ==
  [IdentityAndSite |-> 1, Channels |-> 2, BusesAndDevices |-> 3,
   GeneratorBehaviour |-> 16, FrostBehaviour |-> 17, ScheduleBehaviour |-> 18,
   LoadShedBehaviour |-> 19, Network |-> 32, Cloud |-> 33]
DeviceOption ==
  [CurrentDirection |-> 1, PylontechVersion |-> 2, VeDirect3v3 |-> 3, PollPeriod |-> 4]
ClientConnected ==
  [Accepted |-> 1, RefusedTableFull |-> 2, RefusedHandleInUse |-> 3,
   RefusedLinkNotUp |-> 4]
ClientDisconnected == [Released |-> 1, UnknownHandle |-> 2]
CloseConnection == [Closed |-> 1, UnknownHandle |-> 2]
CommsRelease ==
  [Authorised |-> 1, Installed |-> 2, Activated |-> 3, RefusedDigestMismatch |-> 4,
   RefusedSignature |-> 5, RefusedNoSpace |-> 6, RolledBack |-> 7]
EnterDownload == [Entering |-> 1, RefusedOutsideWindow |-> 2]
NetConfig == [Stored |-> 1, RejectedInvalid |-> 2, NvsWriteFailed |-> 3]
TimeOffer ==
  [Accepted |-> 1, RefusedImplausible |-> 2, RefusedStepTooLarge |-> 4,
   RefusedRateLimited |-> 5]
WifiScan == [Started |-> 1, RefusedBusy |-> 2, RefusedRadioOff |-> 3]
WifiScanResult == [Complete |-> 1, Failed |-> 2]
CloseReason ==
  [SessionExpired |-> 1, Shedding |-> 2, AuthenticationFailures |-> 3, Resync |-> 4]
CommsReleaseOp == [Authorise |-> 1, Activate |-> 2, Revoke |-> 3, ConfirmHealthy |-> 4]
DisconnectReason ==
  [ClosedByClient |-> 1, TransportError |-> 2, IdleTimeout |-> 3, ClosedByComms |-> 4]
DownloadReason == [Bench |-> 1, Recovery |-> 2]
LinkTransport == [Ble |-> 1, WifiLocal |-> 2, Cloud |-> 3, Usb |-> 4]
NetConfigOp == [Set |-> 1, Clear |-> 2]
LinkErrorCode ==
  [WrongSide |-> 256, LinkTypeOnClientTransport |-> 257, BeforeLinkUp |-> 258,
   UnknownHandle |-> 259, ConnectionTableFull |-> 260, LinkMajorMismatch |-> 261,
   TooManyOutstanding |-> 262, NonZeroSession |-> 263, NoAuthorisation |-> 264]
EventKind ==
  [SIGNAL_VALIDITY_CHANGED |-> 258, GENERATOR_STATE_CHANGED |-> 513,
   GENERATOR_COMMAND_WITHDRAWN |-> 514, GENERATOR_STOP_NOT_HONOURED |-> 515,
   BEHAVIOUR_DECISION |-> 769, BEHAVIOUR_INHIBITED |-> 770, OUTPUT_CHANGED |-> 1025,
   CONCERN_RAISED |-> 1281, CONCERN_CHANGED |-> 1282, BOOT |-> 1537,
   CONFIG_CHANGED |-> 1538, CLIENT_ENROLLED |-> 1539, TIME_SET |-> 1540,
   CLIENT_REMOVED |-> 1541, INVITE_PROPOSED |-> 1542, RECORDS_DROPPED |-> 1793,
   RECORD_FAILED_CRC |-> 1794, COMMS_LINK_LOST |-> 2049, COMMS_POWER_CYCLED |-> 2050,
   COMMS_UNRECOVERABLE |-> 2051, SESSIONS_SHED_FOR_BACKPRESSURE |-> 2052,
   COMMS_BOOT_NOISE |-> 2053, WIFI_STATUS_CHANGED |-> 2054, COMMS_HELD_DOWN |-> 2055,
   TOPOLOGY_CHANGED |-> 2305, DEVICE_PRESENCE_CHANGED |-> 2306]
ClientCapability ==
  [WRITE_CONFIG |-> 1, WRITE_NETWORK_AND_CLOUD |-> 2, SEND_COMMAND |-> 4,
   SET_CLOCK |-> 8, PUSH_FIRMWARE |-> 16, READ_PRIVATE |-> 32, INVITE |-> 64,
   APPROVE |-> 128]
MetricKind ==
  [DC_VOLTAGE |-> 257, DC_CURRENT |-> 258, DC_POWER |-> 259, STATE_OF_CHARGE |-> 260,
   DC_ENERGY |-> 262, DC_CHARGE |-> 263, AC_VOLTAGE |-> 513, AC_CURRENT |-> 514,
   AC_POWER |-> 515, AC_FREQUENCY |-> 516, AC_ENERGY |-> 517,
   AC_ENERGY_IMPORTED |-> 518, AC_ENERGY_EXPORTED |-> 519, TEMPERATURE |-> 770,
   TANK_LEVEL |-> 1025, TANK_SENDER_CURRENT |-> 1026, GENERATOR_STATE |-> 1281,
   GENERATOR_RUN_HOURS |-> 1282, GENERATOR_STARTS_SINCE_COMMISSIONING |-> 1283,
   RUN_CONTACT_COMMANDED |-> 1284, GENERATOR_SELECTOR_POSITION |-> 1537,
   UPTIME_SINCE_BOOT |-> 1538, LAST_BOOT_REASON |-> 1539,
   LOG_RING_UTILISATION |-> 1540, TIME_IN_BULK |-> 1793, TIME_IN_ABSORPTION |-> 1794,
   TIME_IN_FLOAT |-> 1795, CHARGE_STAGE |-> 1796]
ComponentRole ==
  [PV_ARRAY |-> 1, MPPT_TRACKER |-> 2, BATTERY_BANK |-> 3, BATTERY_PACK |-> 4,
   HEATER |-> 5, CONTACTOR |-> 6, FET |-> 7, AC_INPUT |-> 8, AC_OUTPUT |-> 9,
   PHASE |-> 10, LINE_PAIR |-> 11, DC_OUTPUT |-> 12, LOAD_OUTPUT |-> 13,
   START_BATTERY |-> 14, METER |-> 15, CIRCUIT |-> 16, MERGED_CIRCUIT |-> 17,
   TRANSFER_RELAY |-> 18, INVERTER |-> 19, CHARGER |-> 20, PROBE |-> 21, TANK |-> 22,
   CELL |-> 23, RELAY |-> 24, GENERATOR |-> 25]
Condition ==
  [OVER_VOLTAGE |-> 1, UNDER_VOLTAGE |-> 2, OVER_TEMPERATURE |-> 3,
   UNDER_TEMPERATURE |-> 4, CHARGE_OVER_CURRENT |-> 5, DISCHARGE_OVER_CURRENT |-> 6,
   SHORT_CIRCUIT |-> 7, OVERLOAD |-> 8, CELL_IMBALANCE |-> 9,
   LOW_STATE_OF_CHARGE |-> 10, CHARGE_INHIBITED |-> 11, DISCHARGE_INHIBITED |-> 12,
   UNNAMED_STATE |-> 13, REGISTRATION_REFUSED |-> 14, SERIES_TOO_LONG |-> 15,
   INVENTORY_FULL |-> 16, BAY_FLAPPING |-> 17, EPOCH_WRITE_FAILED |-> 19,
   CLOCK_STEPPED |-> 20, FLOOR_OVERRIDDEN |-> 21, ENTROPY_UNAVAILABLE |-> 22,
   CLIENT_TABLE_WRITE_FAILED |-> 23, DEDUP_WRITE_FAILED |-> 24, VENDOR_FAULT |-> 25]
DeviceRole ==
  [SOLAR_CHARGER |-> 1, INVERTER |-> 2, INVERTER_CHARGER |-> 3, BMS |-> 4,
   ENERGY_METER |-> 5, SHUNT |-> 6, SENSOR |-> 7, POWER_MODULE |-> 8, CONTROLLER |-> 9,
   BATTERY_MONITOR |-> 10, TEMPERATURE_SENSOR |-> 11]
Dialect ==
  [NO_PROTOCOL |-> 1, PZEM_DC |-> 2, EPEVER_B |-> 3, VICTRON_MPPT_RS_HEX |-> 4,
   VICTRON_GX_MODBUS_VEBUS |-> 5, EG4_LIFEPOWER4_SERIAL |-> 6,
   MORNINGSTAR_SUNSAVER_DUO |-> 7, EMPORIA_VUE3_ESPHOME_I2C |-> 8,
   ECOFLOW_POWER_KITS |-> 9, PZEM_AC |-> 10, VE_DIRECT_TEXT |-> 11,
   PYLONTECH_CAN |-> 12, DS18B20 |-> 13]
EnumSpace ==
  [PRESENCE |-> 1, CONTROL_OWNER |-> 2, GENERATOR_STATE |-> 3,
   GENERATOR_SELECTOR |-> 4, BOOT_REASON |-> 5, CHARGE_STAGE |-> 6, BALANCING |-> 7]
MeasurementPoint ==
  [LINE_TO_NEUTRAL |-> 1, LINE_TO_LINE |-> 2, TERMINAL |-> 3, CELL |-> 4,
   INTERNAL |-> 5, AMBIENT |-> 6, HEATSINK |-> 7, CASE_ |-> 8, INLET |-> 9,
   OUTLET |-> 10, TRANSFORMER |-> 11]
Product ==
  [ORIGIN_89_CONTROLLER |-> 1, PZEM_003 |-> 2, PZEM_017 |-> 3, EPEVER_TRACER_B |-> 4,
   VICTRON_MPPT_RS |-> 5, VICTRON_MULTIPLUS |-> 6, EG4_LIFEPOWER4 |-> 7,
   MORNINGSTAR_SUNSAVER_DUO |-> 8, EMPORIA_VUE_3 |-> 9, ECOFLOW_POWER_KIT |-> 10,
   PZEM_014 |-> 11, PZEM_016 |-> 12, DS18B20 |-> 13]
VendorNamespace ==
  [VICTRON |-> 1, EPEVER |-> 2, PZEM |-> 3, EG4 |-> 4, MORNINGSTAR |-> 5,
   EMPORIA |-> 6, ECOFLOW |-> 7, MAGNUM |-> 8, XANTREX |-> 9]
=============================================================================
