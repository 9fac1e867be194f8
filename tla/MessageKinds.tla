---------------------------- MODULE MessageKinds ----------------------------
(***************************************************************************)
(* What the crate says of each opcode, in tables kept in six files: which  *)
(* byte is a client's message and which one the UART's (envelope.rs),      *)
(* whether a request needs a session (admission.rs), which way a kind is   *)
(* sealed (sealed.rs), which requests are signed writes (signed.rs), which *)
(* carry an empty body (empty.rs), which side of the UART takes a link-    *)
(* local message (linklocal.rs) and where an answer goes (routing.rs).     *)
(* Each table is a match written out by hand; nothing but the properties   *)
(* of MCCodecs holds them together.                                        *)
(*                                                                         *)
(* And what becomes of a body that did not decode: each error type's       *)
(* refusal, as a function from its variants to the ErrorCode it is         *)
(* answered with. The several Missing and Duplicate variants of a type,    *)
(* one per body it serves, are one name here, and a reader's own error is  *)
(* "RepeatedKey" or "Cbor".                                                *)
(***************************************************************************)
EXTENDS Bodies, Registry

Bytes8 == 0..255

(* Opcode. *)
RESPONSE == 128
LINK_LOCAL_FIRST == 96
LINK_LOCAL_LAST == 126
is_response(opcode) == opcode >= RESPONSE
is_link_local(opcode) == opcode % RESPONSE \in LINK_LOCAL_FIRST..LINK_LOCAL_LAST
response_to(opcode) == opcode + RESPONSE

(* MessageType::try_from and LinkMessageType::try_from.                    *)
ClientTypes == Range(MessageType)
LinkTypes == Range(LinkMessageType)

(* Opcode::client_type. *)
client_type(opcode) ==
  IF is_link_local(opcode) THEN "LinkLocalType"
  ELSE IF opcode \in ClientTypes THEN "" ELSE "UnknownType"

(* MessageType::admits.                                                    *)
WithoutSession == LET M == MessageType IN {M.Discover, M.Hello, M.Pair, M.Enrol}
(* Seeded fault: a kind the match forgot.                                  *)
OnlyWithSessionNoRemove ==
  LET M == MessageType
  IN {M.Subscribe, M.ReadLog, M.GetConfig, M.SetConfig, M.Command, M.Firmware, M.Time, M.Goodbye,
      M.Inventory, M.Readings, M.Concerns, M.History, M.WifiScan, M.WifiStatus, M.Vouch, M.Clients,
      M.Invite, M.Approve}
OnlyWithSession ==
  LET M == MessageType
  IN {M.Subscribe, M.ReadLog, M.GetConfig, M.SetConfig, M.Command, M.Firmware, M.Time, M.Goodbye,
      M.Inventory, M.Readings, M.Concerns, M.History, M.WifiScan, M.WifiStatus, M.Vouch, M.Clients,
      M.Invite, M.Approve, M.Remove}
admits(kind) ==
  IF kind \in WithoutSession THEN "WithoutSession"
  ELSE IF kind \in OnlyWithSession THEN "OnlyWithSession" ELSE "NotARequest"

(* Direction::of, and Direction::check's rule for an event.                *)
InClear ==
  LET M == MessageType
  IN {M.Discover, M.DiscoverResponse, M.Hello, M.HelloResponse, M.Pair, M.PairResponse, M.Enrol}
SealedRequests ==
  LET M == MessageType
  IN {M.Subscribe, M.ReadLog, M.GetConfig, M.SetConfig, M.Command, M.Firmware, M.Time, M.Goodbye,
      M.Inventory, M.Readings, M.Concerns, M.History, M.WifiScan, M.WifiStatus, M.Vouch, M.Clients,
      M.Invite, M.Approve, M.Remove}
sealed_as(kind) ==
  IF kind \in InClear THEN "clear" ELSE IF kind \in SealedRequests THEN "Request" ELSE "Controller"

(* signs. *)
signs(kind) ==
  LET M == MessageType
  IN kind \in {M.SetConfig, M.Command, M.Firmware, M.Time, M.Invite, M.Approve, M.Remove}

(* Signed::new and SignedWrite::read refuse alike.                         *)
SignedRefusal(kind, length) ==
  IF ~signs(kind) THEN "NotSigned"
  ELSE IF length > MAX_OPERATION THEN "OperationTooLong" ELSE ""
SignedCode(refusal) == IF refusal = "OperationTooLong" THEN ErrorCode.PayloadTooLarge
                       ELSE ErrorCode.MalformedFrame

(* EmptyBody::wears_one. *)
wears_one(kind) ==
  LET M == MessageType IN kind \in {M.Goodbye, M.GoodbyeResponse, M.WifiStatus, M.Clients}
-----------------------------------------------------------------------------
(* An envelope is the sequence of its elements: the type byte, the session *)
(* (0 for none), the request's number and how many pairs the body's map    *)
(* promises. The greatest request number stands for 2^32 - 1.              *)
ELEMENTS == 4
Widest16 == 65535
GreatestReqId == 1000000
WidestScalars == <<255, Widest16, GreatestReqId>>
Unmapped == 1000

(* Header::write_scalars, behind Header::write and LinkHeader::write.      *)
write_scalars(header, keys) == <<header.kind, header.session, header.req_id, keys>>

(* FourElements: nothing is read of an array that is not of four.          *)
open(bytes) == IF Len(bytes) # ELEMENTS THEN "WrongLength" ELSE ""
scalars(bytes, from) ==
  IF (\E i \in from..Len(WidestScalars) : bytes[i] > WidestScalars[i]) \/ bytes[ELEMENTS] = Unmapped
  THEN "Cbor" ELSE ""

(* Envelope::decode and LinkEnvelope::decode: "", or why not. The type is  *)
(* settled before the session is read, on the client's side only.          *)
EnvelopeError(bytes) ==
  IF open(bytes) # "" THEN open(bytes)
  ELSE IF bytes[1] > WidestScalars[1] THEN "Cbor"
  ELSE IF client_type(bytes[1]) # "" THEN client_type(bytes[1])
  ELSE scalars(bytes, 2)
LinkEnvelopeError(bytes) == IF open(bytes) # "" THEN open(bytes) ELSE scalars(bytes, 1)
header(bytes) == [kind |-> bytes[1], session |-> bytes[2], req_id |-> bytes[3]]

EnvelopeRefusal(err) ==
  IF err = "LinkLocalType" THEN [space |-> "link", code |-> LinkErrorCode.LinkTypeOnClientTransport]
  ELSE [space |-> "client", code |-> IF err = "UnknownType" THEN ErrorCode.UnknownMessageType
                                     ELSE ErrorCode.MalformedFrame]

(* About::addressed: what an answer carries and where it goes. A pre-      *)
(* session request is answered on the connection, whose handle stands in   *)
(* the session's place.                                                    *)
NoSession == 0
addressed(about) ==
  IF about.what = "AClientFrame"
  THEN [session |-> about.session, req_id |-> about.req_id, to |-> {about.conn}]
  ELSE IF about.what = "AFrameThatDidNotParse"
  THEN [session |-> NoSession, req_id |-> 0, to |-> {about.conn}]
  ELSE IF about.what = "APreSessionRequest"
  THEN [session |-> about.conn, req_id |-> about.req_id, to |-> {about.conn}]
  ELSE [session |-> NoSession, req_id |-> 0, to |-> {}]
-----------------------------------------------------------------------------
(* The UART. LinkMessageType::direction is the side that starts the        *)
(* exchange; its answer has the same direction.                            *)
Sides == {"Controller", "Comms"}
Other(side) == CHOOSE s \in Sides : s # side
EitherStarts ==
  LET L == LinkMessageType IN {L.LinkUp, L.LinkUpAck, L.Heartbeat, L.HeartbeatAck}
CommsStarts ==
  LET L == LinkMessageType
  IN {L.ClientConnected, L.ClientConnectedAck, L.ClientDisconnected, L.ClientDisconnectedAck,
      L.TimeOffer, L.TimeOfferAck, L.WifiScanResult, L.WifiScanResultAck, L.WifiState,
      L.WifiStateAck}
starting(kind) ==
  IF kind \in EitherStarts THEN Sides ELSE IF kind \in CommsStarts THEN {"Comms"} ELSE {"Controller"}

(* permitted and arriving. *)
permitted(kind, at) ==
  \/ starting(kind) = Sides
  \/ IF is_response(kind) THEN at \in starting(kind) ELSE Other(at) \in starting(kind)
arriving(opcode, at, session) ==
  IF opcode \notin LinkTypes \/ ~permitted(opcode, at) THEN LinkErrorCode.WrongSide
  ELSE IF session # NoSession THEN LinkErrorCode.NonZeroSession ELSE 0

-----------------------------------------------------------------------------
(* Incoming::from: the space a code off the wire is in.                    *)
Incoming(code) ==
  IF code \in Range(ErrorCode) THEN "client"
  ELSE IF code \in Range(LinkErrorCode) THEN "link" ELSE "unknown"

(* ClientCapability: a mask, and the one a role is handed.                 *)
Bits(mask) == {bit \in Range(ClientCapability) : (mask \div bit) % 2 = 1}
allows(mask, want) == Bits(want) \subseteq Bits(mask)
granted(role) == IF role = Role.Owner THEN 255 ELSE IF role = Role.Admin THEN 125 ELSE 0

(* EventKind::is_class_a: "" for a kind this build has never heard of.     *)
is_class_a(kind) == IF kind \in EVENT_IS_CLASS_A THEN "kept" ELSE ""

(* ControllerRecord::kind: the kinds a record's body is put beside.        *)
RecordKinds ==
  [TimeSetRecord |-> {EventKind.TIME_SET},
   CountRecord |-> {EventKind.RECORD_FAILED_CRC, EventKind.COMMS_POWER_CYCLED,
                    EventKind.SESSIONS_SHED_FOR_BACKPRESSURE},
   CommsLinkLost |-> {EventKind.COMMS_LINK_LOST},
   CommsUnrecoverable |-> {EventKind.COMMS_UNRECOVERABLE},
   CommsBootNoise |-> {EventKind.COMMS_BOOT_NOISE},
   CommsHeldDown |-> {EventKind.COMMS_HELD_DOWN}]
(* ControllerRecord::decode: the body a kind is read as.                   *)
RecordOf(kind) ==
  IF kind = EventKind.TIME_SET THEN "TimeSetRecord"
  ELSE IF kind = EventKind.COMMS_LINK_LOST THEN "CommsLinkLost"
  ELSE IF kind = EventKind.COMMS_UNRECOVERABLE THEN "CommsUnrecoverable"
  ELSE IF kind \in {EventKind.RECORD_FAILED_CRC, EventKind.COMMS_POWER_CYCLED,
                    EventKind.SESSIONS_SHED_FOR_BACKPRESSURE} THEN "CountRecord"
  ELSE IF kind = EventKind.COMMS_BOOT_NOISE THEN "CommsBootNoise"
  ELSE IF kind = EventKind.COMMS_HELD_DOWN THEN "CommsHeldDown"
  ELSE "UnknownKind"

-----------------------------------------------------------------------------
(* What a body that did not decode is answered with.                       *)

With(code, errs) == [err \in errs |-> code]
Malformed(errs) ==
  With(ErrorCode.MalformedFrame, errs \cup {"Missing", "Duplicate", "RepeatedKey", "Cbor"})
TooLarge(errs) == With(ErrorCode.PayloadTooLarge, errs)

MembershipError ==
  Malformed({"Unexpected", "WrongLength", "Zero", "UnknownRole", "UnknownClientKind",
             "UnknownDecision", "UnknownOutcome", "EmptyLabel", "LabelTooLong",
             "ProposedWithoutNonce", "EnrolledWithoutSlot"})
NoiseRefusal == With(ErrorCode.AuthenticationFailed, {"Noise"})
PairError ==
  Malformed({"UnknownKey", "WrongWidth", "UnknownKind", "LabelTooLong", "UnknownOutcome",
             "SlotOnARefusal", "NotThisRequest", "WrongMessage"})
    @@ NoiseRefusal @@ With(ErrorCode.AuthenticationFailed, {"Refusal", "NotTheLabelsController"})
    @@ With(ErrorCode.UnsupportedSuite, {"UnsupportedSuite"}) @@ TooLarge({"TooLargeToWrite"})
ClientsError ==
  Malformed({"Unallocated", "Zero", "WrongLength", "LabelLength", "ExpiresTooLate", "TooMany",
             "SlotsOutOfOrder", "InviteRepeated"})
VouchError == Malformed({"WrongWidth", "Zero", "UnknownOutcome", "OutcomeDisagrees"})

HandshakeError ==
  Malformed({"WrongWidth", "WrongMessage", "SessionMismatch", "ChannelsAboveCeiling", "NoSuchSlot",
             "ZeroGeneration", "ZeroEpoch", "NoHandle"})
    @@ With(ErrorCode.ProtocolMajorMismatch, {"MajorMismatch"})
HelloError ==
  Malformed({"UnknownKey", "WrongMessage", "NotThisRequest", "NoHandle"})
    @@ With(ErrorCode.UnsupportedSuite, {"UnsupportedSuite"})
    @@ With(ErrorCode.UnknownClient, {"NotAdmitted"})
    @@ NoiseRefusal @@ With(ErrorCode.AuthenticationFailed, {"KeyMismatch", "AdmitWidth"})
    @@ TooLarge({"TooLargeToWrite"}) @@ HandshakeError

SubscribeError == Malformed({"ZeroIsNotAPosition", "OldestPastNewest", "LogAtTheCeiling"})
EventError == Malformed({"BodyTooLong", "Replayed", "SeqAtTheCeiling"})
(* A record's own error is the page's "Entry", whatever it was.            *)
EntryError == With(ErrorCode.MalformedFrame, DOMAIN EventError)
ReadLogError == Malformed({"PageFull", "SeqAtTheCeiling"}) @@ EntryError @@ TooLarge({"PageTooLong"})
CommandError == Malformed({"UnknownKind", "UnknownOutcome", "ArgsNotAMap"})
TimeError == Malformed({"UnknownOutcome", "AcceptedWithoutClock"})
ErrorBodyError ==
  Malformed({"BareCodeNeedsASeal"}) @@ With(ErrorCode.UnknownMessageType, {"WrongMessage"})
EmptyBodyError == Malformed({"NotAnEmptyInnerBody"}) @@ TooLarge({"TooLargeToWrite"})

RowErrors ==
  {"RowShape", "WrongType", "EmptyCmds", "TooManyCmds", "ReservedZero",
             "PositionPastSeries", "NotAMember", "SeriesTooShort", "SeriesTooLong",
             "LabelPastRange", "CounterNotOneWay", "MissingConditional", "UnexpectedConditional",
             "WrongKind", "AnsweredNothing", "DigestMidWalk", "DigestWidth", "UnknownOutcome",
             "RowsOutOfOrder", "AddrMissing", "AddrTwice", "AddrTooLong", "TooManyDevices"}
InventoryError == Malformed(RowErrors) @@ TooLarge({"RowTooLong"})
QualityError ==
  Malformed({"NoValueToCarry", "ValueOmitted", "CarryingWithoutProvenance", "StaleWithoutAge",
             "AgeWithoutStaleness", "Disagree", "UnknownValidity", "UnknownProvenance",
             "SeriesLength", "ValueCount", "Quality"})
ReadingsError ==
  Malformed({"ZeroId", "SelectorNamesNotOne", "UnknownSelectorKey", "TooManySelectors",
             "AnsweredNothing", "UnknownOutcome"}) @@ QualityError @@ TooLarge({"RowTooLong"})
ChangeError ==
  Malformed({"ZeroId", "WentNowhere", "NothingChanged", "UnknownPresence", "UnknownReason"})
    @@ QualityError @@ TooLarge({"EntryTooLong"})
ConcernsError ==
  Malformed({"ZeroId", "ZeroElement", "ElementPastSeries", "ElementWithoutSignal",
             "CodeWithoutNamespace", "NamespaceWithoutCode", "ConditionWithoutCode",
             "UnknownSeverity", "UnknownState", "WentNowhere", "PagePastRowCap", "AnsweredNothing",
             "UnknownOutcome", "Concern"}) @@ TooLarge({"RowTooLong"})

WifiError ==
  Malformed({"Unallocated", "SsidLength", "RssiOutOfRange", "ChannelOutOfRange",
             "TooManyAccessPoints", "OutOfOrder", "SsidRepeated", "ListIncomplete",
             "RefusedWhileRunning", "ScanStateDisagrees", "JoiningIsNotRecorded",
             "ReportIncomplete", "ReasonDisagrees", "AddressDisagrees", "Ipv4Length", "ZeroScan"})
BootError == Malformed({"UnknownReason", "WordsWithoutTheirReason"})
ControllerRecordError == Malformed({"UnknownKind", "UnknownSource", "UnknownReason", "ZeroCount"})
ConfigMessageError ==
  Malformed({"UnknownOutcome", "BodyNotAMap", "UnwrittenWithBody", "WrittenWithoutBody"})
    @@ With(ErrorCode.UnknownSection, {"UnknownSection"})

(* ConfigError::answer: a section that is not the schema's shape is an     *)
(* Error; one whose values the schema forbids is a SetConfigAck, and 0     *)
(* stands for that.                                                        *)
ByOutcome == 0
ConfigError ==
  Malformed({"SecretInConfig", "NothingSet", "UnknownValue", "OutOfOrder"})
    @@ With(ByOutcome,
            {"Length", "CountryNotCapitals", "NotAHostname", "PassphraseWithoutNetwork",
             "ConfigOnly", "NoPassphraseHeld", "PassphraseForAnotherNetwork", "OutOfSchema",
             "TooMany", "UnknownOption", "UnknownBus", "BusTwice", "NotOnTransport", "AddrRequired",
             "AddrNotAddressed", "AddrTwice", "DialectNotCarried", "OptionNotInDialect",
             "PollTooShort", "UnknownDev", "DevTwice", "DeviceChanged", "DevsExhausted",
             "ParentNotListed", "ParentLoop", "TooDeep", "AllocatorBehind"})

(* The client's refusals of the section, and sectionAnswer: what it says   *)
(* a controller would answer each with.                                    *)
OfShape ==
  {"cbor", "missing", "duplicate", "nothing_set", "unknown_value", "out_of_order"}
OfValue ==
  {"out_of_schema", "too_many", "unknown_option", "unknown_bus", "bus_twice", "addr_required",
   "addr_not_addressed", "addr_twice", "not_on_transport", "dialect_not_carried",
   "option_not_in_dialect", "poll_too_short", "dev_twice", "parent_not_listed", "parent_loop",
   "too_deep"}
sectionAnswer == With(ErrorCode.MalformedFrame, OfShape) @@ With(ByOutcome, OfValue)

(* LinkError has no refusal: the UART drops what does not decode.          *)
LinkError ==
  With(ByOutcome,
       {"Missing", "Duplicate", "RepeatedKey", "UnknownRole", "TooLong", "NotAVersion",
        "NetVersionFromController", "DeviceIdFromComms", "NetOriginFromController",
        "NetOriginWithoutVersion", "OriginNotEight", "NoSuchConnection", "UnknownTransport",
        "UnknownReason", "UnknownOutcome", "UnknownOp", "UnknownSource", "PassphraseLength",
        "CountryNotTwoBytes", "ClearCarriedCredentials", "ZeroNetworkVersion",
        "UnwrittenClearCarriedMetadata", "UnwrittenClearCarriedOrigin", "DigestNotSha256",
        "DeviceIdNotSixteen", "ZeroPairingRevision", "PairingWindowTooLong"})

-----------------------------------------------------------------------------
Of(messages, errors) == [m \in messages |-> errors]

(* The error type each body's decoder answers with.                        *)
ErrorOf ==
  Of({"Invite", "InviteAck", "Approve", "ApproveAck", "Remove", "RemoveAck"}, MembershipError)
    @@ Of({"PairOffer", "Pair", "PairResponse", "Enrol", "EnrolAnswer"}, PairError)
    @@ Of({"ClientRow", "InviteRow", "ClientsAnswer"}, ClientsError)
    @@ Of({"VouchRequest", "VouchAnswer"}, VouchError)
    @@ Of({"Discovery", "HelloReport"}, HandshakeError)
    @@ Of({"HelloOffer", "HelloRequest", "HelloAnswer"}, HelloError)
    @@ Of({"Subscribe", "SubscribeAck"}, SubscribeError)
    @@ Of({"EventBody"}, EventError) @@ Of({"ReadLog", "LogPage", "LogEntry"}, ReadLogError)
    @@ Of({"CommandOperation", "CommandAck"}, CommandError)
    @@ Of({"TimeOperation", "TimeAck"}, TimeError)
    @@ Of({"ErrorSealed", "ErrorBare"}, ErrorBodyError) @@ Of({"EmptyBody"}, EmptyBodyError)
    @@ Of({"BusRow", "DeviceRow", "ComponentRow", "SignalRow", "ParamRow", "ReadInventory",
           "InventoryBody"}, InventoryError)
    @@ Of({"Sample", "Series", "Sel", "ReadSignals", "ReadingsBody"}, ReadingsError)
    @@ Of({"VChange", "PChange", "ValidityChanged", "PresenceChanged", "TopologyChanged"},
          ChangeError)
    @@ Of({"Concern", "ConcernRaised", "ConcernChanged", "ReadConcerns", "ConcernsBody"},
          ConcernsError)
    @@ Of({"AccessPoint", "ScanRequest", "ScanAnswer", "WifiStatus", "WifiStatusChanged"},
          WifiError)
    @@ Of({"RadioReport", "RadioReportAck", "ScanOrder", "ScanResultAck", "ScanOrderVerdict",
           "ScanResult", "PairingWindowNotice", "PairingWindowAck"}, LinkError @@ WifiError)
    @@ Of({"Boot"}, BootError)
    @@ Of({"IdentitySection", "BehaviourSection", "NetworkWrite", "NetworkRead", "BusEntry",
           "DeviceOptions", "DeviceWrite", "DeviceRead", "SectionWrite", "SectionRead"}, ConfigError)
    @@ Of({"GetConfigRequest", "ConfigAnswer", "SetConfigOperation", "SetConfigAck"},
          ConfigMessageError)
    @@ Of({"TimeSetRecord", "CountRecord", "CommsLinkLost", "CommsUnrecoverable", "CommsBootNoise",
           "CommsHeldDown"}, ControllerRecordError)
    @@ Of({"LinkUp", "Heartbeat", "ClientUp", "ClientDown", "CloseConnections", "CloseReport",
           "NetChange", "ClockOffer", "TimeVerdict", "DownloadVerdict", "ClientUpAck",
           "ClientDownAck", "NetVerdict", "DownloadRequest", "ReleaseRequest", "ReleaseVerdict"},
          LinkError)

(* The bodies that travel before there is a session to seal them in.       *)
BeforeSession ==
  {"PairOffer", "Pair", "PairResponse", "Enrol", "Discovery", "HelloOffer", "HelloRequest",
   "HelloAnswer"}
=============================================================================
