----------------------------- MODULE LinkBodies -----------------------------
(***************************************************************************)
(* The bodies of the link between the controller and its comms processor   *)
(* (linklocal.rs), those about the radio (wifi.rs), the pairing-window     *)
(* notices (pairing_window.rs) and the boot record (boot.rs). Then the     *)
(* configuration as it travels: the identity, behaviour and network        *)
(* sections (config.rs), the entries of the buses and devices section      *)
(* (buses_devices.rs), the messages that read and write a section          *)
(* (config_messages.rs), and the bodies of the controller's own log        *)
(* records (controller_record.rs). A text or byte string is its length;    *)
(* unknown keys are stepped over by all.                                   *)
(***************************************************************************)
EXTENDS Bodies, Registry

(* Side: the number a LinkUp carries.                                      *)
Side == [Controller |-> 1, Comms |-> 2]

(* Texts of a firmware or release version: one byte is never a version,    *)
(* and fifteen is the shortest one can be (versioned).                     *)
VersionText == {15, MAX_LINK_TEXT}
LooseVersion == Kind({1} \cup VersionText, {MAX_LINK_TEXT + 1}, "TooLong")

LinkText == UpTo(MAX_LINK_TEXT, "TooLong")
LinkTexts == {0, MAX_LINK_TEXT}

(* The firmware version is held to its form by the sender alone: a record  *)
(* of an older build must still be readable.                               *)
LinkUp ==
  LET controller == [role |-> {Side.Controller}]
      comms == [role |-> {Side.Comms}]
      shared(role) == <<Put("protocol_major", Numbers), Put("protocol_minor", Numbers),
                        Put("role", {role}), Put("fw", VersionText), Put("boot_id", Numbers),
                        Put("hw", LinkTexts)>>
      origin == Put("net_origin", {NET_ORIGIN_BYTES})
  IN Body([protocol_major |-> 1, protocol_minor |-> 2, role |-> 3, fw |-> 4, boot_id |-> 5,
           hw |-> 6, net_version |-> 7, device_id |-> 8, net_origin |-> 9],
       [protocol_major |-> Number, protocol_minor |-> Number, role |-> Enum(Side, "UnknownRole"),
        fw |-> LooseVersion, boot_id |-> Number, hw |-> LinkText, net_version |-> Number,
        device_id |-> Fixed(DEVICE_ID_BYTES, "DeviceIdNotSixteen"),
        net_origin |-> Fixed(NET_ORIGIN_BYTES, "OriginNotEight")],
       "skip",
       Needs(<<"protocol_major", "protocol_minor", "role", "fw", "boot_id", "hw">>)
         \o <<Refuse("NetVersionFromController", controller, {"net_version"}, {}),
              Refuse("NetOriginFromController", controller, {"net_origin"}, {}),
              Refuse("Missing", controller, {}, {"device_id"}),
              Refuse("DeviceIdFromComms", comms, {"device_id"}, {}),
              Refuse("NetOriginWithoutVersion", comms, {"net_origin"}, {"net_version"}),
              Refuse("NetOriginWithoutVersion", comms @@ [net_version |-> {0}], {"net_origin"}, {})>>,
       {Writes(7, shared(Side.Controller) \o <<Put("device_id", {DEVICE_ID_BYTES})>>),
        Writes(6, shared(Side.Comms)),
        Writes(7, shared(Side.Comms) \o <<Put("net_version", Numbers)>>),
        Writes(8, shared(Side.Comms) \o <<Put("net_version", Numbers \ {0}), origin>>)},
       {"fw"})

Heartbeat ==
  Body([uptime_s |-> 1, conns |-> 2], [uptime_s |-> Number, conns |-> Number], "skip",
       Needs(<<"uptime_s", "conns">>),
       {Writes(2, <<Put("uptime_s", Numbers), Put("conns", Numbers)>>)}, {})

(* Connection zero names no connection, except in CloseConnections, where  *)
(* it names every one.                                                     *)
ClientUp ==
  Body([conn |-> 1, transport |-> 2, peer |-> 3],
       [conn |-> Number, transport |-> Enum(LinkTransport, "UnknownTransport"), peer |-> Number],
       "skip",
       <<Need("conn"), Refuse("NoSuchConnection", [conn |-> {0}], {}, {}),
         Need("transport"), Need("peer")>>,
       {Writes(3, <<Put("conn", Numbers \ {0}), Put("transport", Range(LinkTransport)),
                    Put("peer", Numbers)>>)}, {})

ClientDown ==
  Body([conn |-> 1, reason |-> 2],
       [conn |-> Number, reason |-> Enum(DisconnectReason, "UnknownReason")], "skip",
       <<Need("conn"), Refuse("NoSuchConnection", [conn |-> {0}], {}, {}), Need("reason")>>,
       {Writes(2, <<Put("conn", Numbers \ {0}), Put("reason", Range(DisconnectReason))>>)}, {})

CloseConnections ==
  Body([conn |-> 1, reason |-> 2],
       [conn |-> Number, reason |-> Enum(CloseReason, "UnknownReason")], "skip",
       Needs(<<"conn", "reason">>),
       {Writes(2, <<Put("conn", Numbers), Put("reason", Range(CloseReason))>>)}, {})

CloseReport ==
  Body([outcome |-> 1, closed |-> 2],
       [outcome |-> Enum(CloseConnection, "UnknownOutcome"), closed |-> Number], "skip",
       Needs(<<"outcome", "closed">>),
       {Writes(2, <<Put("outcome", Range(CloseConnection)), Put("closed", Numbers)>>)}, {})

PSK_SHORTEST == 8
PSK_LONGEST == 63
COUNTRY_BYTES == 2

Country == Kind({COUNTRY_BYTES - 1, COUNTRY_BYTES, COUNTRY_BYTES + 1}, {}, "none")
Passphrase == {PSK_SHORTEST, PSK_LONGEST}
LateText == Kind(LinkTexts \cup {MAX_LINK_TEXT + 1}, {}, "none")

(* Network configuration handed to the comms processor. Lengths are looked *)
(* at after the loop, and only where the change carries the field.         *)
NetChange ==
  LET set == [op |-> {NetConfigOp.Set}]
      clear == [op |-> {NetConfigOp.Clear}]
      unwritten == clear @@ [version |-> {0}]
      metadata == <<Put("country", {COUNTRY_BYTES}), Put("hostname", LinkTexts),
                    Put("origin", {NET_ORIGIN_BYTES})>>
      ops(op, versions) == <<Put("op", {op}), Put("version", versions)>>
      written(name, err, bad) ==
        <<Refuse("Missing", [version |-> Numbers \ {0}], {}, {name}),
          Refuse(err, (name :> bad) @@ [version |-> Numbers \ {0}], {}, {})>>
  IN Body([op |-> 1, version |-> 2, ssid |-> 3, psk |-> 4, country |-> 5, hostname |-> 6, origin |-> 7],
       [op |-> Enum(NetConfigOp, "UnknownOp"), version |-> Number, ssid |-> LateText,
        psk |-> Kind(Passphrase \cup {PSK_SHORTEST - 1, PSK_LONGEST + 1}, {}, "none"),
        country |-> Country, hostname |-> LateText, origin |-> Fixed(NET_ORIGIN_BYTES, "OriginNotEight")],
       "skip",
       <<Need("version"), Need("op"),
         Refuse("ClearCarriedCredentials", clear, {"ssid"}, {}),
         Refuse("ClearCarriedCredentials", clear, {"psk"}, {}),
         Refuse("UnwrittenClearCarriedMetadata", unwritten, {"country"}, {}),
         Refuse("UnwrittenClearCarriedMetadata", unwritten, {"hostname"}, {}),
         Refuse("UnwrittenClearCarriedOrigin", unwritten, {"origin"}, {}),
         Refuse("ZeroNetworkVersion", set @@ [version |-> {0}], {}, {})>>
         \o written("country", "CountryNotTwoBytes", Country.legal \ {COUNTRY_BYTES})
         \o written("hostname", "TooLong", {MAX_LINK_TEXT + 1})
         \o <<Refuse("Missing", [version |-> Numbers \ {0}], {}, {"origin"}),
              Refuse("Missing", set, {}, {"psk"}),
              Refuse("PassphraseLength", set @@ [psk |-> {PSK_SHORTEST - 1, PSK_LONGEST + 1}], {}, {}),
              Refuse("Missing", set, {}, {"ssid"}),
              Refuse("TooLong", set @@ [ssid |-> {MAX_LINK_TEXT + 1}], {}, {})>>,
       {Writes(7, ops(NetConfigOp.Set, Numbers \ {0})
                    \o <<Put("ssid", LinkTexts), Put("psk", Passphrase)>> \o metadata),
        Writes(2, ops(NetConfigOp.Clear, {0})),
        Writes(5, ops(NetConfigOp.Clear, Numbers \ {0}) \o metadata)},
       {})

NTP == 1

ClockOffer ==
  Body([unix_ms |-> 1, source |-> 2, accuracy_ms |-> 3, server |-> 4],
       [unix_ms |-> Number, source |-> Number, accuracy_ms |-> Number, server |-> LinkText],
       "skip",
       <<Need("unix_ms"), Need("source"),
         Refuse("UnknownSource", [source |-> Numbers \ {NTP}], {}, {}),
         Need("accuracy_ms"), Need("server")>>,
       {Writes(4, <<Put("unix_ms", Numbers), Put("source", {NTP}), Put("accuracy_ms", Numbers),
                    Put("server", LinkTexts)>>)}, {})

(* outcome_only and outcome: an answer that is its outcome.                *)
OutcomeOnly(registry) ==
  Body([outcome |-> 1], [outcome |-> Enum(registry, "UnknownOutcome")], "skip",
       Needs(<<"outcome">>), {Writes(1, <<Put("outcome", Range(registry))>>)}, {})

TimeVerdict == OutcomeOnly(TimeOffer)
DownloadVerdict == OutcomeOnly(EnterDownload)
ClientUpAck == OutcomeOnly(ClientConnected)
ClientDownAck == OutcomeOnly(ClientDisconnected)

DownloadRequest ==
  Body([reason |-> 1], [reason |-> Enum(DownloadReason, "UnknownReason")], "skip",
       Needs(<<"reason">>), {Writes(1, <<Put("reason", Range(DownloadReason))>>)}, {})

NetVerdict ==
  Body([outcome |-> 1, version |-> 2],
       [outcome |-> Enum(NetConfig, "UnknownOutcome"), version |-> Number], "skip",
       Needs(<<"outcome", "version">>),
       {Writes(2, <<Put("outcome", Range(NetConfig)), Put("version", Numbers)>>)}, {})

ReleaseRequest ==
  Body([op |-> 1, version |-> 2, image_len |-> 3, digest |-> 4],
       [op |-> Enum(CommsReleaseOp, "UnknownOp"), version |-> LooseVersion, image_len |-> Number,
        digest |-> Fixed(DIGEST_BYTES, "DigestNotSha256")], "skip",
       Needs(<<"op", "version", "image_len", "digest">>),
       {Writes(4, <<Put("op", Range(CommsReleaseOp)), Put("version", VersionText),
                    Put("image_len", Numbers), Put("digest", {DIGEST_BYTES})>>)},
       {"version"})

ReleaseVerdict ==
  Body([outcome |-> 1, version |-> 2, bytes_have |-> 3],
       [outcome |-> Enum(CommsRelease, "UnknownOutcome"), version |-> LooseVersion,
        bytes_have |-> Number], "skip",
       Needs(<<"outcome", "version", "bytes_have">>),
       {Writes(3, <<Put("outcome", Range(CommsRelease)), Put("version", VersionText),
                    Put("bytes_have", Numbers)>>)},
       {"version"})

LinkMessages ==
  [LinkUp |-> LinkUp, Heartbeat |-> Heartbeat, ClientUp |-> ClientUp, ClientDown |-> ClientDown,
   CloseConnections |-> CloseConnections, CloseReport |-> CloseReport, NetChange |-> NetChange,
   ClockOffer |-> ClockOffer, TimeVerdict |-> TimeVerdict, DownloadVerdict |-> DownloadVerdict,
   ClientUpAck |-> ClientUpAck, ClientDownAck |-> ClientDownAck, NetVerdict |-> NetVerdict,
   DownloadRequest |-> DownloadRequest, ReleaseRequest |-> ReleaseRequest,
   ReleaseVerdict |-> ReleaseVerdict]

-----------------------------------------------------------------------------
MAX_CHANNEL == 233

(* A row of a scan list. The SSID and the channel are looked at together,  *)
(* once the row is whole. Signal strength is -128..127 on the wire; here   *)
(* 0 stands for a legal one and 1 for one that is not an i8.               *)
AccessPoint ==
  LET ssids == {1, MAX_SSID}
      channels == {1, MAX_CHANNEL}
  IN Body([ssid |-> 1, rssi |-> 2, security |-> 3, band |-> 4, channel |-> 5],
       [ssid |-> Kind({0, MAX_SSID + 1} \cup ssids, {}, "none"),
        rssi |-> Kind({0}, {1}, "RssiOutOfRange"),
        security |-> Enum(WifiSecurity, "Unallocated"), band |-> Enum(WifiBand, "Unallocated"),
        channel |-> Kind({0, MAX_CHANNEL + 1} \cup channels, {}, "none")],
       "skip",
       Needs(<<"ssid", "rssi", "security", "band", "channel">>)
         \o <<Refuse("SsidLength", [ssid |-> {0, MAX_SSID + 1}], {}, {}),
              Refuse("ChannelOutOfRange", [channel |-> {0, MAX_CHANNEL + 1}], {}, {})>>,
       {Writes(5, <<Put("ssid", ssids), Put("rssi", {0}), Put("security", Range(WifiSecurity)),
                    Put("band", Range(WifiBand)), Put("channel", channels)>>)},
       {})

(* ScanList::check over rows of [ssid, rssi]: at most MAX_SCAN_APS, never  *)
(* stronger than the row before, no SSID twice.                            *)
ListCheck(rows) ==
  LET bad(i) ==
        IF i > 1 /\ rows[i].rssi > rows[i - 1].rssi THEN "OutOfOrder"
        ELSE IF \E j \in 1..(i - 1) : rows[j].ssid = rows[i].ssid THEN "SsidRepeated" ELSE ""
      faults == {i \in DOMAIN rows : bad(i) # ""}
  IN IF Len(rows) > MAX_SCAN_APS THEN "TooManyAccessPoints"
     ELSE IF faults # {} THEN bad(First(faults)) ELSE ""

Ap(ssid, rssi) == [ssid |-> ssid, rssi |-> rssi]

(* The lists that arrive, by number: what the value of an "aps" key names. *)
SampleLists ==
  <<<<>>, <<Ap(1, 5), Ap(2, 5), Ap(3, 4)>>, [i \in 1..MAX_SCAN_APS |-> Ap(i, 0)],
    [i \in 1..(MAX_SCAN_APS + 1) |-> Ap(i, 0)], <<Ap(1, 4), Ap(2, 5)>>, <<Ap(1, 5), Ap(1, 4)>>>>

GoodLists == {n \in DOMAIN SampleLists : ListCheck(SampleLists[n]) = ""}
Lists == Kind(DOMAIN SampleLists, {}, "none")
BadList(err, given) ==
  Refuse(err, given @@ [aps |-> {n \in DOMAIN SampleLists : ListCheck(SampleLists[n]) = err}],
         {"unlisted"}, {})
BadLists(given) ==
  <<BadList("TooManyAccessPoints", given), BadList("OutOfOrder", given),
    BadList("SsidRepeated", given)>>

ScanRequest ==
  Body([refresh |-> 1], [refresh |-> Number], "skip", Needs(<<"refresh">>),
       {Writes(1, <<Put("refresh", Numbers)>>)}, {})

(* A list arrives whole or not at all, beside a state that agrees with it. *)
ScanAnswer ==
  LET part(one, other) == Refuse("ListIncomplete", << >>, {one}, {other})
      held == <<Put("age_ms", Numbers), Put("aps", GoodLists), Put("unlisted", Numbers)>>
      states(S) == <<Put("scan", S)>>
      refused == <<Put("refused", Range(ScanRefusal))>>
      idle == {ScanState.Complete, ScanState.Failed}
  IN Body([scan |-> 1, refused |-> 2, age_ms |-> 3, aps |-> 4, unlisted |-> 5],
       [scan |-> Enum(ScanState, "Unallocated"), refused |-> Enum(ScanRefusal, "Unallocated"),
        age_ms |-> Number, aps |-> Lists, unlisted |-> Number],
       "skip",
       <<part("age_ms", "aps"), part("age_ms", "unlisted"), part("aps", "age_ms"),
         part("aps", "unlisted"), part("unlisted", "age_ms"), part("unlisted", "aps")>>
         \o BadLists(<< >>)
         \o <<Need("scan"),
              Refuse("RefusedWhileRunning", [scan |-> {ScanState.Running}], {"refused"}, {}),
              Refuse("ScanStateDisagrees", [scan |-> {ScanState.Complete}], {}, {"aps"}),
              Refuse("ScanStateDisagrees", [scan |-> {ScanState.None}], {"aps"}, {})>>,
       {Writes(1, states({ScanState.None, ScanState.Running, ScanState.Failed})),
        Writes(2, states({ScanState.None, ScanState.Failed}) \o refused),
        Writes(4, states(idle \cup {ScanState.Running}) \o held),
        Writes(5, states(idle) \o refused \o held)},
       {})

(* Radio::of and StatusKeys::report: a reason exactly beside a failure, an *)
(* address exactly beside a join, a version exactly beside a state.        *)
ReportChecks ==
  LET state(S) == [state |-> S]
      all == Range(WifiState)
      failed == {WifiState.Failed}
      joined == {WifiState.Joined}
  IN <<Refuse("ReportIncomplete", << >>, {"version"}, {"state"}),
       Refuse("ReportIncomplete", << >>, {"state"}, {"version"}),
       Refuse("ReasonDisagrees", << >>, {"reason"}, {"state"}),
       Refuse("AddressDisagrees", << >>, {"ipv4"}, {"state"}),
       Refuse("ReasonDisagrees", state(failed), {}, {"reason"}),
       Refuse("ReasonDisagrees", state(all \ failed), {"reason"}, {}),
       Refuse("AddressDisagrees", state(joined), {}, {"ipv4"}),
       Refuse("AddressDisagrees", state(all \ joined), {"ipv4"}, {}),
       Refuse("Ipv4Length", state(joined) @@ [ipv4 |-> {3, 5}], {}, {})>>

ReportFields ==
  [version |-> Number, state |-> Enum(WifiState, "Unallocated"),
   reason |-> Enum(WifiFailure, "Unallocated"), ipv4 |-> Kind({3, 4, 5}, {}, "none")]

(* Radio::encode_into after the version, with Radio::keys beside it.       *)
RadioWrites(before, plain) ==
  LET version == Put("version", Numbers)
  IN {Writes(Len(before) + 1 + 1, before \o <<version, Put("state", plain)>>),
      Writes(Len(before) + 1 + 2, before \o <<version, Put("state", {WifiState.Joined}), Put("ipv4", {4})>>),
      Writes(Len(before) + 1 + 2, before \o <<version, Put("state", {WifiState.Failed}),
                                             Put("reason", Range(WifiFailure))>>)}
Unjoined == {WifiState.Off, WifiState.Joining}

StatusKey == [section |-> 1, version |-> 2, state |-> 3, reason |-> 4, ipv4 |-> 5]
StatusFields == [section |-> Number] @@ ReportFields

WifiStatus ==
  Body(StatusKey, StatusFields, "skip", <<Need("section")>> \o ReportChecks,
       {Writes(1, <<Put("section", Numbers)>>)} \cup RadioWrites(<<Put("section", Numbers)>>, Unjoined),
       {})

(* The stored record. Joining is never written, but is read.               *)
WifiStatusChanged ==
  Body(StatusKey, StatusFields, "skip",
       <<Need("section")>> \o ReportChecks \o <<Need("version")>>,
       RadioWrites(<<Put("section", Numbers)>>, {WifiState.Off}), {"state"})

RadioReport ==
  Body([version |-> 1, state |-> 2, reason |-> 3, ipv4 |-> 4], ReportFields, "skip",
       ReportChecks \o <<Need("version")>>, RadioWrites(<< >>, Unjoined), {})

RadioReportAck == Body(<< >>, << >>, "skip", << >>, {Writes(0, << >>)}, {})

(* scan_only: a scan is named by a non-zero number.                        *)
ScanOnly ==
  Body([scan |-> 1], [scan |-> NonZero("ZeroScan")], "skip", Needs(<<"scan">>),
       {Writes(1, <<Put("scan", {1, 2})>>)}, {})

ScanOrder == ScanOnly
ScanResultAck == ScanOnly

ScanOrderVerdict ==
  Body([outcome |-> 1], [outcome |-> Enum(WifiScan, "Unallocated")], "skip",
       Needs(<<"outcome">>), {Writes(1, <<Put("outcome", Range(WifiScan))>>)}, {})

ScanResult ==
  LET complete == [outcome |-> {WifiScanResult.Complete}]
      failed == [outcome |-> {WifiScanResult.Failed}]
      incomplete(given, with, without) == Refuse("ListIncomplete", given, with, without)
  IN Body([scan |-> 1, outcome |-> 2, aps |-> 3, unlisted |-> 4],
       [scan |-> NonZero("ZeroScan"), outcome |-> Enum(WifiScanResult, "Unallocated"),
        aps |-> Lists, unlisted |-> Number],
       "skip",
       <<Need("scan"), Need("outcome"),
         incomplete(complete, {}, {"aps"}), incomplete(complete, {}, {"unlisted"}),
         incomplete(failed, {"aps"}, {}), incomplete(failed, {"unlisted"}, {})>>
         \o BadLists(complete),
       {Writes(4, <<Put("scan", {1, 2}), Put("outcome", complete.outcome), Put("aps", GoodLists),
                    Put("unlisted", Numbers)>>),
        Writes(2, <<Put("scan", {1, 2}), Put("outcome", failed.outcome)>>)},
       {})

-----------------------------------------------------------------------------
MAX_PAIRING_WINDOW_MS == 120000

PairingWindowNotice ==
  Body([revision |-> 1, remaining_ms |-> 2],
       [revision |-> NonZero("ZeroPairingRevision"),
        remaining_ms |-> Kind({0, MAX_PAIRING_WINDOW_MS, MAX_PAIRING_WINDOW_MS + 1}, {}, "none")],
       "skip",
       <<Need("revision"), Need("remaining_ms"),
         Refuse("PairingWindowTooLong", [remaining_ms |-> {MAX_PAIRING_WINDOW_MS + 1}], {}, {})>>,
       {Writes(2, <<Put("revision", {1, 2}), Put("remaining_ms", {0, MAX_PAIRING_WINDOW_MS})>>)}, {})

PairingWindowAck ==
  Body([revision |-> 1], [revision |-> NonZero("ZeroPairingRevision")], "skip",
       Needs(<<"revision">>), {Writes(1, <<Put("revision", {1, 2})>>)}, {})

-----------------------------------------------------------------------------
(* A boot record. The starved task's two words explain a watchdog and may  *)
(* be missing; the panic site's two explain a panic and may not.           *)
starved == {"task", "overdue_ms"}
site == {"file", "line"}
BootWrites ==
  LET facts(S) == <<Put("reason", S), Put("backup_valid", Numbers), Put("rtc_crystal", Numbers),
                    Put("rail_cycled", Numbers)>>
  IN {Writes(4 + 2, facts({BootReason.Watchdog}) \o <<Put("task", Numbers), Put("overdue_ms", Numbers)>>),
      Writes(4 + 2, facts({BootReason.Panic}) \o <<Put("file", Numbers), Put("line", Numbers)>>),
      Writes(4, facts(Range(BootReason) \ {BootReason.Panic}))}
Boot ==
  LET half(one, other) == Refuse("Missing", << >>, {one}, {other})
      reason(S) == [reason |-> S]
      words(w, ok) == Refuse("WordsWithoutTheirReason", reason(Range(BootReason) \ {ok}), w, {})
  IN Body([reason |-> 1, backup_valid |-> 2, rtc_crystal |-> 3, rail_cycled |-> 4, task |-> 5,
           overdue_ms |-> 6, file |-> 7, line |-> 8],
       [reason |-> Enum(BootReason, "UnknownReason")]
         @@ [name \in {"backup_valid", "rtc_crystal", "rail_cycled"} \cup starved \cup site |-> Number],
       "skip",
       <<Need("reason"), half("task", "overdue_ms"), half("overdue_ms", "task"),
         half("file", "line"), half("line", "file"),
         Refuse("Missing", reason({BootReason.Panic}), {}, starved \cup site),
         words(starved, BootReason.Watchdog), words(site, BootReason.Panic)>>
         \o Needs(<<"backup_valid", "rtc_crystal", "rail_cycled">>),
       BootWrites, {})

WifiMessages ==
  [AccessPoint |-> AccessPoint, ScanRequest |-> ScanRequest, ScanAnswer |-> ScanAnswer,
   WifiStatus |-> WifiStatus, WifiStatusChanged |-> WifiStatusChanged, RadioReport |-> RadioReport,
   RadioReportAck |-> RadioReportAck, ScanOrder |-> ScanOrder, ScanResultAck |-> ScanResultAck,
   ScanOrderVerdict |-> ScanOrderVerdict, ScanResult |-> ScanResult,
   PairingWindowNotice |-> PairingWindowNotice, PairingWindowAck |-> PairingWindowAck, Boot |-> Boot]

-----------------------------------------------------------------------------
(* Configuration as it travels.                                            *)

(* Texts that are the right length and still not what they are for.        *)
Lower == 90
Dashed == 91

SiteNames == {1, MAX_LABEL}
Ssids == {1, MAX_SSID}
Passphrases == {8, 63}
Hostnames == {1, MAX_HOSTNAME}

(* SectionKey::network.                                                    *)
NetworkKey == [ssid |-> 1, psk |-> 2, psk_set |-> 3, country |-> 4, hostname |-> 5]

within(name, legal) == Refuse("Length", name :> legal, {}, {})

IdentitySection ==
  Body([site_name |-> 1], [site_name |-> Kind(SiteNames \cup {0, MAX_LABEL + 1}, {}, "none")], "skip",
       <<Need("site_name"), within("site_name", {0, MAX_LABEL + 1})>>,
       {Writes(1, <<Put("site_name", SiteNames)>>)}, {})

BehaviourSection ==
  Body([shadow |-> 1], [shadow |-> Number], "skip", Needs(<<"shadow">>),
       {Writes(1, <<Put("shadow", Numbers)>>)}, {})

NetworkFields ==
  [ssid |-> Kind(Ssids \cup {0, MAX_SSID + 1}, {}, "none"),
   psk |-> Kind(Passphrases \cup {7, 64}, {}, "none"), psk_set |-> Number,
   country |-> Kind({2, 1, 3, Lower}, {}, "none"),
   hostname |-> Kind(Hostnames \cup {0, MAX_HOSTNAME + 1, Dashed}, {}, "none")]

(* NetworkText::common: both keys, then each in its own form.              *)
common ==
  <<Need("country"), Need("hostname"), within("country", {1, 3}),
    Refuse("CountryNotCapitals", [country |-> {Lower}], {}, {}),
    within("hostname", {0, MAX_HOSTNAME + 1}),
    Refuse("NotAHostname", [hostname |-> {Dashed}], {}, {})>>
CommonPuts == <<Put("country", {2}), Put("hostname", Hostnames)>>

(* A write names the network or forgets it; only the controller says       *)
(* whether it holds a passphrase.                                          *)
NetworkWrite ==
  Body(NetworkKey, NetworkFields, "skip",
       common
         \o <<Refuse("ConfigOnly", << >>, {"psk_set"}, {}),
              Refuse("PassphraseWithoutNetwork", << >>, {"psk"}, {"ssid"}),
              within("ssid", {0, MAX_SSID + 1}), within("psk", {7, 64})>>,
       {Writes(2, CommonPuts), Writes(3, <<Put("ssid", Ssids)>> \o CommonPuts),
        Writes(4, <<Put("ssid", Ssids), Put("psk", Passphrases)>> \o CommonPuts)},
       {})

(* A read carries no passphrase, on pain of being refused whole.           *)
NetworkRead ==
  Body(NetworkKey, NetworkFields, "skip",
       <<Refuse("SecretInConfig", << >>, {"psk"}, {}),
         Refuse("PassphraseWithoutNetwork", << >>, {"psk_set"}, {"ssid"}),
         Refuse("Missing", << >>, {"ssid"}, {"psk_set"}), within("ssid", {0, MAX_SSID + 1})>>
         \o common,
       {Writes(2, CommonPuts),
        Writes(4, <<Put("ssid", Ssids), Put("psk_set", Numbers)>> \o CommonPuts)},
       {})

-----------------------------------------------------------------------------
read_section == Enum(ConfigSection, "UnknownSection")
Sections == Range(ConfigSection)
(* A section's body: 2 stands for one that is a map.                       *)
a_map == Kind({2}, {1}, "BodyNotAMap")

GetConfigRequest ==
  Body([section |-> 1], [section |-> read_section], "skip", Needs(<<"section">>),
       {Writes(1, <<Put("section", Sections)>>)}, {})

(* Version 0 is a section never written, and has no body.                  *)
ConfigAnswer ==
  LET unwritten == [version |-> {0}]
      written == [version |-> {1, 2}]
  IN Body([section |-> 1, version |-> 2, body |-> 3],
       [section |-> read_section, version |-> Number, body |-> Kind({1, 2}, {}, "none")], "skip",
       <<Need("section"), Need("version"),
         Refuse("UnwrittenWithBody", unwritten, {"body"}, {}),
         Refuse("WrittenWithoutBody", written, {}, {"body"}),
         Refuse("BodyNotAMap", written @@ [body |-> {1}], {}, {})>>,
       {Writes(2, <<Put("section", Sections), Put("version", {0})>>),
        Writes(3, <<Put("section", Sections), Put("version", {1, 2}), Put("body", {2})>>)},
       {})

SetConfigOperation ==
  Body([section |-> 1, expected_version |-> 2, body |-> 3],
       [section |-> read_section, expected_version |-> Number, body |-> a_map], "skip",
       Needs(<<"section", "expected_version", "body">>),
       {Writes(3, <<Put("section", Sections), Put("expected_version", Numbers), Put("body", {2})>>)},
       {})

SetConfigAck ==
  Body([section |-> 1, version |-> 2, outcome |-> 3],
       [section |-> read_section, version |-> Number, outcome |-> Enum(SetConfig, "UnknownOutcome")],
       "skip", Needs(<<"section", "version", "outcome">>),
       {Writes(3, <<Put("section", Sections), Put("version", Numbers), Put("outcome", Range(SetConfig))>>)},
       {})

-----------------------------------------------------------------------------
(* ControllerRecord, by the event kind its body is read under. A count of  *)
(* failures is never zero; the noise of a boot may be.                     *)
OneKey(name, kind, values) ==
  Body(name :> 1, name :> kind, "skip", Needs(<<name>>), {Writes(1, <<Put(name, values)>>)}, {})

TimeSetRecord ==
  LET set == <<Put("new", Numbers), Put("source", Range(TimeSource))>>
  IN Body([old |-> 1, new |-> 2, source |-> 3],
       [old |-> Number, new |-> Number, source |-> Enum(TimeSource, "UnknownSource")],
       "skip", Needs(<<"new", "source">>),
       {Writes(3, <<Put("old", Numbers)>> \o set), Writes(2, set)}, {})

(* nonzero: read whole before it is found to be zero.                      *)
CountRecord ==
  [OneKey("count", Number, {1, 2}) EXCEPT !.after = @ \o <<Refuse("ZeroCount", [count |-> {0}], {}, {})>>]
CommsLinkLost == Body(<< >>, << >>, "skip", << >>, {Writes(0, << >>)}, {})
CommsUnrecoverable == OneKey("rail_on", Number, Numbers)
CommsBootNoise == OneKey("count", Number, Numbers)
CommsHeldDown == OneKey("reason", Enum(HeldDownReason, "UnknownReason"), Range(HeldDownReason))
-----------------------------------------------------------------------------
(* The entries of the buses and devices section. Their decoders separate   *)
(* two kinds of fault: a body that is malformed is refused where it is     *)
(* met, and a value outside the schema is noted, the first one noted being *)
(* the answer once the whole body has been read (Invalid). What is written *)
(* here is what the section's check lets past.                             *)
Noted(err, name, values) == Refuse(err, name :> values, {}, {})
(* usize::from(is_some()), and a put made only when there is a value.      *)
One(some) == IF some THEN 1 ELSE 0
PutIf(some, put) == IF some THEN <<put>> ELSE << >>

DataBits == {7, 8}
StopBits == {1, 2}
BusPairs(S) == 1 + One("rate" \in S) + One("data_bits" \in S) + One("parity" \in S)
    + One("stop_bits" \in S)
BusPuts(S) == <<Put("bus", Numbers)>> \o PutIf("rate" \in S, Put("rate", {1, 2}))
    \o PutIf("data_bits" \in S, Put("data_bits", DataBits))
    \o PutIf("parity" \in S, Put("parity", Range(Parity)))
    \o PutIf("stop_bits" \in S, Put("stop_bits", StopBits))

(* BusEntry: DataBits, StopBits and a rate above zero. Reading one wants   *)
(* at least one set; an entry that sets none is written all the same.      *)
BusEntry ==
  LET set == {"rate", "data_bits", "parity", "stop_bits"}
  IN Body([bus |-> 1, rate |-> 2, data_bits |-> 3, parity |-> 4, stop_bits |-> 5],
       [bus |-> Number, rate |-> Number, data_bits |-> Kind(DataBits \cup {6}, {}, "none"),
        parity |-> Enum(Parity, "UnknownValue"), stop_bits |-> Kind(StopBits \cup {3}, {}, "none")],
       "skip",
       <<Need("bus"), Refuse("NothingSet", << >>, {}, set), Noted("OutOfSchema", "rate", {0}),
         Noted("OutOfSchema", "data_bits", {6}), Noted("OutOfSchema", "stop_bits", {3})>>,
       {Writes(BusPairs(S), BusPuts(S)) : S \in SUBSET set},
       {})

Signed == {Direction.PositiveIsIn, Direction.PositiveIsOut}

OptionPairs(S) == One("current_direction" \in S) + One("pylontech_version" \in S)
    + One("ve_direct_3v3" \in S) + One("poll_period" \in S)
OptionPuts(S) == PutIf("current_direction" \in S, Put("current_direction", Signed))
    \o PutIf("pylontech_version" \in S, Put("pylontech_version", Range(PylontechVersion)))
    \o PutIf("ve_direct_3v3" \in S, Put("ve_direct_3v3", Numbers))
    \o PutIf("poll_period" \in S, Put("poll_period", Numbers))

(* DeviceOptions: "other" is an option number this build does not define,  *)
(* which is noted, not stepped over. A magnitude is no direction.          *)
DeviceOptions ==
  LET set == {"current_direction", "pylontech_version", "ve_direct_3v3", "poll_period"}
  IN Body([current_direction |-> DeviceOption.CurrentDirection,
           pylontech_version |-> DeviceOption.PylontechVersion,
           ve_direct_3v3 |-> DeviceOption.VeDirect3v3, poll_period |-> DeviceOption.PollPeriod,
           other |-> Unallocated],
       [current_direction |-> Enum(Direction, "UnknownValue"),
        pylontech_version |-> Enum(PylontechVersion, "UnknownValue"),
        ve_direct_3v3 |-> Number, poll_period |-> Number, other |-> Number],
       "UnknownOption",
       <<Refuse("NothingSet", << >>, {}, set \cup {"other"}),
         Refuse("UnknownOption", << >>, {"other"}, {}),
         Noted("OutOfSchema", "current_direction", {Direction.MagnitudeOnly})>>,
       {Writes(OptionPairs(S), OptionPuts(S)) : S \in (SUBSET set) \ {{}}},
       {})

(* An options map as a device entry sees it: empty, as it should be, or    *)
(* with something noted while it was read.                                 *)
OptionsMap == Kind({1, 2}, {0}, "NothingSet")

DeviceKey ==
  [dev |-> 1, bus |-> 2, addr |-> 3, product |-> 4, dialect |-> 5, role |-> 6, parent |-> 7,
   options |-> 8]

DevicePairs(S) == 4 + One("dev" \in S) + One("addr" \in S) + One("parent" \in S)
    + One("options" \in S)
DevicePuts(S) == PutIf("dev" \in S, Put("dev", {1, 2})) \o <<Put("bus", Numbers)>>
    \o PutIf("addr" \in S, Put("addr", {1, MAX_ADDR}))
    \o <<Put("product", Numbers), Put("dialect", Numbers), Put("role", Numbers)>>
    \o PutIf("parent" \in S, Put("parent", {1, 2}))
    \o PutIf("options" \in S, Put("options", {1}))

(* DeviceEntry, with a dev or, in a write that adds the device, without.   *)
DeviceEntry(answer) ==
  LET optional == {"addr", "parent", "options"} \cup (IF answer THEN {} ELSE {"dev"})
      always == {"bus", "product", "dialect", "role"}
      held(S) == IF answer THEN S \cup {"dev"} ELSE S
  IN Body(DeviceKey,
       [name \in {"dev", "parent"} \cup always |-> Number]
         @@ [addr |-> Kind({0, 1, MAX_ADDR, MAX_ADDR + 1}, {}, "none"), options |-> OptionsMap],
       "skip",
       Needs(<<"product", "dialect", "role", "bus">>)
         \o (IF answer THEN Needs(<<"dev">>) ELSE << >>)
         \o <<Noted("OutOfSchema", "options", {2}), Noted("OutOfSchema", "dev", {0}),
              Noted("Length", "addr", {0, MAX_ADDR + 1}), Noted("OutOfSchema", "parent", {0})>>,
       {Writes(DevicePairs(held(S)), DevicePuts(held(S))) : S \in SUBSET optional},
       {})

DeviceWrite == DeviceEntry(FALSE)
DeviceRead == DeviceEntry(TRUE)

(* A list of the section: none, ascending, in some other order, longer     *)
(* than the section holds, or with something noted in an entry. Only an    *)
(* answer has to ascend.                                                   *)
Listed == [None |-> 0, Ascending |-> 1, Unordered |-> 2, PastCap |-> 3, WithNote |-> 4]
ListFields == [name \in {"buses", "devices"} |-> Kind(Range(Listed), {}, "none")]
Section(answer) ==
  LET sent == {Listed.None, Listed.Ascending} \cup (IF answer THEN {} ELSE {Listed.Unordered})
      unordered(name) ==
        IF answer THEN <<Refuse("OutOfOrder", name :> {Listed.Unordered}, {}, {})>> ELSE << >>
  IN Body([buses |-> 1, devices |-> 2], ListFields, "skip",
       Needs(<<"buses", "devices">>)
         \o <<Noted("TooMany", "buses", {Listed.PastCap}), Noted("TooMany", "devices", {Listed.PastCap}),
              Noted("OutOfSchema", "buses", {Listed.WithNote}),
              Noted("OutOfSchema", "devices", {Listed.WithNote})>>
         \o unordered("buses") \o unordered("devices"),
       {Writes(2, <<Put("buses", sent), Put("devices", sent)>>)}, {})
SectionWrite == Section(FALSE)
SectionRead == Section(TRUE)

-----------------------------------------------------------------------------
(* The same section in the client's language (packages/km43): decoders     *)
(* written apart, whose refusals have names of their own.                  *)

isParity == {Parity.None, Parity.Even, Parity.Odd}
isPylontechVersion == {PylontechVersion.V12, PylontechVersion.V13}
isDirection == {Direction.PositiveIsIn, Direction.PositiveIsOut, Direction.MagnitudeOnly}
OneOf(values) == Kind(values, {Unallocated}, "unknown_value")
missing(names) == [i \in DOMAIN names |-> Refuse("missing", << >>, {}, {names[i]})]
note(name, values) == Refuse("out_of_schema", name :> values, {}, {})

descends(name) == Refuse("out_of_order", name :> {Listed.Unordered}, {}, {})

(* BodyReader: bus, options, device and read.                              *)
settings == <<"rate", "data_bits", "parity", "stop_bits">>
bus ==
  Body([bus |-> 1, rate |-> 2, data_bits |-> 3, parity |-> 4, stop_bits |-> 5],
    [bus |-> Number, rate |-> Number, data_bits |-> Number, parity |-> OneOf(isParity),
     stop_bits |-> Number],
    "skip",
    missing(<<"bus">>)
      \o <<Refuse("nothing_set", << >>, {}, Range(settings)), note("rate", {0}),
           note("data_bits", BusEntry.fields.data_bits.legal \ {7, 8}),
           note("stop_bits", BusEntry.fields.stop_bits.legal \ {1, 2})>>, {}, {})

deviceOption ==
  [current_direction |-> DeviceOption.CurrentDirection,
   pylontech_version |-> DeviceOption.PylontechVersion,
   ve_direct_3v3 |-> DeviceOption.VeDirect3v3, poll_period |-> DeviceOption.PollPeriod]
options ==
  Body(deviceOption @@ [other |-> Unallocated],
    [current_direction |-> OneOf(isDirection), pylontech_version |-> OneOf(isPylontechVersion),
     ve_direct_3v3 |-> Number, poll_period |-> Number, other |-> Number],
    "skip",
    <<Refuse("nothing_set", << >>, {}, DOMAIN deviceOption \cup {"other"}),
      Refuse("unknown_option", << >>, {"other"}, {}),
      note("current_direction", {Direction.MagnitudeOnly})>>, {}, {})

device(answer) ==
  Body([dev |-> 1, bus |-> 2, addr |-> 3, product |-> 4, dialect |-> 5, role |-> 6, parent |-> 7,
        options |-> 8],
    [name \in {"dev", "bus", "addr", "product", "dialect", "role", "parent"} |-> Number]
      @@ [options |-> Kind({1, 2}, {0}, "nothing_set")],
    "skip",
    missing(<<"product", "dialect", "role", "bus">>)
      \o (IF answer THEN missing(<<"dev">>) ELSE << >>)
      \o <<note("options", {2}), note("dev", {0}), note("addr", {0, MAX_ADDR + 1}),
           note("parent", {0})>>, {}, {})

read(answer) ==
  LET past == {Listed.PastCap}
      noted == {Listed.WithNote}
  IN Body([buses |-> 1, devices |-> 2], ListFields, "skip",
       missing(<<"buses", "devices">>)
         \o <<Refuse("too_many", [buses |-> past], {}, {}), Refuse("too_many", [devices |-> past], {}, {}),
              note("buses", noted), note("devices", noted)>>
         \o (IF answer THEN <<descends("buses"), descends("devices")>> ELSE << >>), {}, {})

ClientBodies ==
  [BusEntry |-> bus, DeviceOptions |-> options, DeviceWrite |-> device(FALSE),
   DeviceRead |-> device(TRUE), SectionWrite |-> read(FALSE), SectionRead |-> read(TRUE)]

(* What the interfaces make a value in memory carry.                       *)
Held ==
  [BusEntry |-> {"bus"}, DeviceOptions |-> {},
   DeviceWrite |-> {"bus", "product", "dialect", "role"},
   DeviceRead |-> {"dev", "bus", "product", "dialect", "role"},
   SectionWrite |-> {"buses", "devices"}, SectionRead |-> {"buses", "devices"}]

(* encodeBusesAndDevices: a setting's key is its place in the list, and a  *)
(* device whose options hold none is written without them.                 *)
PutSet(rec, name, key) == IF name \in DOMAIN rec THEN <<At(key, rec[name])>> ELSE << >>
encodeBus(rec) ==
  LET set == {i \in DOMAIN settings : settings[i] \in DOMAIN rec}
      from(i) == PutSet(rec, settings[i], i + 1)
  IN [count |-> 1 + Cardinality(set),
      pairs |-> <<At(1, rec.bus)>> \o from(1) \o from(2) \o from(3) \o from(4)]
setOptions(rec) == {deviceOption[name] : name \in DOMAIN rec \cap DOMAIN deviceOption}
encodeOptions(rec) ==
  LET put(name) == PutSet(rec, name, deviceOption[name])
  IN [count |-> Cardinality(setOptions(rec)),
      pairs |-> put("current_direction") \o put("pylontech_version") \o put("ve_direct_3v3")
                  \o put("poll_period")]
encodeDevice(rec) ==
  LET some == {name \in {"dev", "addr", "parent", "options"} \cap DOMAIN rec :
                 name = "options" => rec.options # 0}
      put(name, key) == IF name \in some THEN PutSet(rec, name, key) ELSE << >>
  IN [count |-> 4 + Cardinality(some),
      pairs |-> put("dev", 1) \o <<At(2, rec.bus)>> \o put("addr", 3)
                  \o <<At(4, rec.product), At(5, rec.dialect), At(6, rec.role)>>
                  \o put("parent", 7) \o put("options", 8)]
encodeSection(rec) == [count |-> 2, pairs |-> <<At(1, rec.buses), At(2, rec.devices)>>]

(* schemaRefusal, and the caps checkBusesAndDevices holds the lists to:    *)
(* the rules a body edited in memory can break and a decoded one cannot.   *)
Is(rec, name, values) == name \in DOMAIN rec /\ rec[name] \in values
busRefusal(rec) ==
  IF Is(rec, "parity", DOMAIN bus.fields.parity.wrong) THEN "unknown_value"
  ELSE IF DOMAIN rec \cap Range(settings) = {} THEN "nothing_set"
  ELSE IF \/ Is(rec, "rate", {0})
          \/ "data_bits" \in DOMAIN rec /\ rec.data_bits \notin {7, 8}
          \/ "stop_bits" \in DOMAIN rec /\ rec.stop_bits \notin {1, 2}
  THEN "out_of_schema" ELSE ""
optionsRefusal(rec) ==
  IF \/ "pylontech_version" \in DOMAIN rec /\ rec.pylontech_version \notin isPylontechVersion
     \/ "current_direction" \in DOMAIN rec /\ rec.current_direction \notin isDirection
  THEN "unknown_value"
  ELSE IF Is(rec, "current_direction", {Direction.MagnitudeOnly}) THEN "out_of_schema" ELSE ""
deviceRefusal(rec) ==
  IF \/ Is(rec, "dev", {0}) \/ Is(rec, "addr", {0, MAX_ADDR + 1})
     \/ Is(rec, "parent", {0}) \/ Is(rec, "options", {2})
  THEN "out_of_schema" ELSE ""
sectionRefusal(rec) ==
  IF Listed.PastCap \in Range(rec) THEN "too_many"
  ELSE IF Listed.WithNote \in Range(rec) THEN "out_of_schema" ELSE ""

ConfigMessages ==
  [IdentitySection |-> IdentitySection, BehaviourSection |-> BehaviourSection,
   NetworkWrite |-> NetworkWrite, NetworkRead |-> NetworkRead,
   GetConfigRequest |-> GetConfigRequest, ConfigAnswer |-> ConfigAnswer,
   SetConfigOperation |-> SetConfigOperation, SetConfigAck |-> SetConfigAck,
   TimeSetRecord |-> TimeSetRecord, CountRecord |-> CountRecord, CommsLinkLost |-> CommsLinkLost,
   CommsUnrecoverable |-> CommsUnrecoverable, CommsBootNoise |-> CommsBootNoise,
   CommsHeldDown |-> CommsHeldDown,
   BusEntry |-> BusEntry, DeviceOptions |-> DeviceOptions, DeviceWrite |-> DeviceWrite,
   DeviceRead |-> DeviceRead, SectionWrite |-> SectionWrite, SectionRead |-> SectionRead]
=============================================================================
