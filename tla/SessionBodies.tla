--------------------------- MODULE SessionBodies ----------------------------
(***************************************************************************)
(* The bodies of a session, from the pairing that enrols a client to its   *)
(* end. What opens one and what it then carries: discovery and the hello   *)
(* report (handshake.rs), Hello (hello.rs), Subscribe (subscribe.rs),      *)
(* Event (event.rs), ReadLog (readlog.rs), Command (command.rs), Time      *)
(* (time.rs), Error (error.rs) and the empty body (empty.rs). Who may open *)
(* one: Invite, Approve and Remove with their answers (membership.rs), the *)
(* bodies of a pairing (pairing.rs), who is enrolled as the Clients answer *)
(* lists it (clients.rs), and Vouch (vouch.rs), by which a controller      *)
(* tells a verifier which enrolment a client holds. A byte string is its   *)
(* length.                                                                 *)
(***************************************************************************)
EXTENDS Bodies, Registry

Plain(names) == [name \in names |-> Number]
PutAll(names) == [i \in DOMAIN names |-> Put(names[i], Numbers)]

DiscoverKey ==
  [protocol_major |-> 1, protocol_minor |-> 2, device_id |-> 3, model |-> 4, provisioned |-> 5,
   pairing_open |-> 6, challenge |-> 7, epoch |-> 8]

(* DiscoverSlots::fill.                                                    *)
DiscoverFields ==
  Plain({"protocol_major", "protocol_minor", "model", "provisioned", "pairing_open"})
    @@ [device_id |-> Fixed(DEVICE_ID_BYTES, "WrongWidth"),
        challenge |-> Fixed(CHALLENGE_BYTES, "WrongWidth"), epoch |-> NonZero("ZeroEpoch")]

Discovery ==
  Body(DiscoverKey, DiscoverFields, "skip",
       Needs(<<"protocol_major", "protocol_minor", "device_id", "model", "provisioned",
               "pairing_open", "challenge", "epoch">>),
       {Writes(8, PutAll(<<"protocol_major", "protocol_minor">>)
                    \o <<Put("device_id", {DEVICE_ID_BYTES})>>
                    \o PutAll(<<"model", "provisioned", "pairing_open">>)
                    \o <<Put("challenge", {CHALLENGE_BYTES}), Put("epoch", {1, 2})>>)},
       {})

(* Key 11 was never allocated.                                             *)
ReportKey ==
  [protocol_major |-> 1, protocol_minor |-> 2, session_id |-> 3, fw_controller |-> 4,
   fw_comms |-> 5, capabilities |-> 6, log_oldest_seq |-> 7, log_newest_seq |-> 8,
   state_seq |-> 9, time_known |-> 10, max_sessions |-> 12, max_channels |-> 13,
   max_clients |-> 14, max_event_queue |-> 15, max_inflight |-> 16, max_cmd_dedup |-> 17,
   rev |-> 18, topo_digest |-> 19, max_buses |-> 20, max_devices |-> 21, max_components |-> 22,
   max_signals |-> 23, max_series_elements |-> 24, max_params |-> 25, max_concerns |-> 26,
   max_selectors |-> 27, max_history_signals |-> 28, max_topology_depth |-> 29,
   client_id |-> 30, generation |-> 31]

CHANNEL_CEILING == 32
TOPO_DIGEST_BYTES == 8
(* The session the envelope of the report names.                           *)
OurSession == 1

(* The order Caps::encode puts the limits in, and CapSlots::complete takes *)
(* them.                                                                   *)
CapKeys ==
  <<"max_sessions", "max_channels", "max_clients", "max_event_queue", "max_inflight",
    "max_cmd_dedup">>
(* Topology::encode and TopoSlots::complete.                               *)
TopoKeys ==
  <<"rev", "topo_digest", "max_buses", "max_devices", "max_components", "max_signals",
    "max_series_elements", "max_params", "max_concerns", "max_selectors", "max_history_signals",
    "max_topology_depth">>
SessionKeys ==
  <<"protocol_major", "protocol_minor", "session_id", "fw_controller", "fw_comms",
    "capabilities", "log_oldest_seq", "log_newest_seq", "state_seq", "time_known">>
SlotKeys == <<"client_id", "generation">>

(* What the typed fields of a report can hold.                             *)
ReportValues(name) ==
  CASE name = "session_id" -> {OurSession}
    [] name = "max_channels" -> {0, CHANNEL_CEILING}
    [] name = "topo_digest" -> {TOPO_DIGEST_BYTES}
    [] name \in {"client_id", "generation"} -> {1, 2}
    [] OTHER -> {0, 1}

(* ReportSlots::fill.                                                      *)
ReportSlots ==
  [session_id |-> Number, max_channels |-> Kind({0, CHANNEL_CEILING, CHANNEL_CEILING + 1}, {}, "none"),
   topo_digest |-> Fixed(TOPO_DIGEST_BYTES, "WrongWidth"),
   client_id |-> NonZero("NoSuchSlot"), generation |-> NonZero("ZeroGeneration")]
    @@ [name \in DOMAIN ReportKey |-> Kind({0, 1}, {}, "none")]

(* Decoded beside the session its envelope names, and within the ceiling   *)
(* a controller may only report down from.                                 *)
HelloReport ==
  LET all == SessionKeys \o CapKeys \o TopoKeys \o SlotKeys
  IN Body(ReportKey, ReportSlots, "skip",
       Needs(all)
         \o <<Refuse("SessionMismatch", [session_id |-> Numbers \ {OurSession}], {}, {}),
              Refuse("ChannelsAboveCeiling", [max_channels |-> {CHANNEL_CEILING + 1}], {}, {})>>,
       {Writes(30, [i \in DOMAIN all |-> Put(all[i], ReportValues(all[i]))])},
       {})

-----------------------------------------------------------------------------
HelloOfferKey == [protocol_major |-> 1, protocol_minor |-> 2, client_version |-> 3]
HelloOffer ==
  LET all == <<"protocol_major", "protocol_minor", "client_version">>
  IN Body(HelloOfferKey, Plain(Range(all)), "skip", Needs(all), {Writes(3, PutAll(all))}, {})

(* Read by HelloArrival::decode, written by HelloPending::start. Suite is  *)
(* looked up after the loop, before the other two are missed.              *)
HelloRequest ==
  Body([suite |-> 1, handshake |-> 2, admit |-> 3],
       [suite |-> Kind(Range(Suite) \cup {Unallocated}, {}, "none"), handshake |-> Number, admit |-> Number],
       "UnknownKey",
       <<Need("suite"), Refuse("UnsupportedSuite", [suite |-> {Unallocated}], {}, {}),
         Need("handshake"), Need("admit")>>,
       {Writes(3, <<Put("suite", Range(Suite))>> \o PutAll(<<"handshake", "admit">>))},
       {})

(* Read by answer_message, written by HelloProven::reply.                  *)
HelloAnswer ==
  Body([handshake |-> 1], Plain({"handshake"}), "UnknownKey", Needs(<<"handshake">>),
       {Writes(1, PutAll(<<"handshake">>))}, {})

-----------------------------------------------------------------------------
SubscribeKey == [from_seq |-> 1]
Subscribe ==
  Body(SubscribeKey, Plain({"from_seq"}), "skip", Needs(<<"from_seq">>),
       {Writes(1, PutAll(<<"from_seq">>))}, {})

AckKey == [accepted_from_seq |-> 1, oldest_seq |-> 2, current_seq |-> 3, gap |-> 4]

(* A LogExtent is empty or holds from a position to one not before it.     *)
Extents == {<<0, 0>>} \cup {<<oldest, newest>> \in {1, 2} \X {1, 2} : oldest <= newest}

SubscribeAck ==
  LET zero(one, other) == Refuse("ZeroIsNotAPosition", one :> {0} @@ other :> {1, 2}, {}, {})
  IN Body(AckKey, Plain(DOMAIN AckKey), "skip",
       Needs(<<"accepted_from_seq", "oldest_seq", "current_seq", "gap">>)
         \o <<zero("oldest_seq", "current_seq"), zero("current_seq", "oldest_seq"),
              Refuse("OldestPastNewest", [oldest_seq |-> {2}, current_seq |-> {1}], {}, {})>>,
       {Writes(4, <<Put("accepted_from_seq", Numbers), Put("oldest_seq", {e[1]}),
                    Put("current_seq", {e[2]}), Put("gap", Numbers)>>) : e \in Extents},
       {})

-----------------------------------------------------------------------------
EventKey == [seq |-> 1, at |-> 2, kind |-> 3, body |-> 4]

(* shaped: a body is its length, and 1 stands for one that is no map.      *)
NotAMap == 1
shaped ==
  <<Refuse("BodyTooLong", [body |-> {MAX_EVENT_BODY + 1}], {}, {}),
    Refuse("Cbor", [body |-> {NotAMap}], {}, {})>>

EventBody ==
  LET bodies == {2, MAX_EVENT_BODY}
      body == Put("body", bodies)
  IN Body(EventKey,
       Plain({"seq", "at", "kind"})
         @@ [body |-> Kind(bodies \cup {NotAMap, MAX_EVENT_BODY + 1}, {}, "none")],
       "skip",
       <<Need("body")>> \o shaped \o <<Need("seq"), Need("kind")>>,
       {Writes(4, PutAll(<<"seq", "at", "kind">>) \o <<body>>),
        Writes(4 - 1, PutAll(<<"seq", "kind">>) \o <<body>>)},
       {})

(* A page's record is an event's body, read by the same codec.             *)
LogEntry == EventBody

-----------------------------------------------------------------------------
ReadLogKey == [from_seq |-> 1, max_entries |-> 2]
ReadLog ==
  LET all == <<"from_seq", "max_entries">>
  IN Body(ReadLogKey, Plain(Range(all)), "skip", Needs(all), {Writes(2, PutAll(all))}, {})

(* The entries are how many there are.                                     *)
PageKey == [entries |-> 1, next_seq |-> 2, oldest_seq |-> 3, complete |-> 4]
LogPage ==
  LET rest == <<"next_seq", "oldest_seq", "complete">>
  IN Body(PageKey, Plain(Range(rest)) @@ [entries |-> UpTo(MAX_LOG_PAGE_ENTRIES, "PageFull")],
       "skip", Needs(<<"entries">> \o rest),
       {Writes(4, <<Put("entries", {0, MAX_LOG_PAGE_ENTRIES})>> \o PutAll(rest))}, {})

-----------------------------------------------------------------------------
CommandKey == [cmd_id |-> 1, kind |-> 2, args |-> 3]
CommandOperation ==
  Body(CommandKey,
       [cmd_id |-> Number, kind |-> Enum(CommandKind, "UnknownKind"),
        args |-> Kind({2}, {NotAMap}, "ArgsNotAMap")],
       "skip", Needs(<<"cmd_id", "kind", "args">>),
       {Writes(3, <<Put("cmd_id", Numbers), Put("kind", Range(CommandKind)), Put("args", {2})>>)},
       {})

CommandAckKey == [cmd_id |-> 1, outcome |-> 2, detail |-> 3]
CommandAck ==
  Body(CommandAckKey,
       [cmd_id |-> Number, outcome |-> Enum(Command, "UnknownOutcome"), detail |-> Number],
       "skip", Needs(<<"cmd_id", "outcome", "detail">>),
       {Writes(3, <<Put("cmd_id", Numbers), Put("outcome", Range(Command)), Put("detail", Numbers)>>)},
       {})

-----------------------------------------------------------------------------
TimeKey == [at |-> 1]
TimeOperation ==
  Body(TimeKey, Plain({"at"}), "skip", Needs(<<"at">>), {Writes(1, PutAll(<<"at">>))}, {})

(* An accepted time says what the clock then read.                         *)
TimeAckKey == [outcome |-> 1, at |-> 2]
TimeAck ==
  Body(TimeAckKey, [outcome |-> Enum(Time, "UnknownOutcome"), at |-> Number], "skip",
       <<Need("outcome"), Refuse("AcceptedWithoutClock", [outcome |-> {Time.Accepted}], {}, {"at"})>>,
       {Writes(2, <<Put("outcome", Range(Time)), Put("at", Numbers)>>),
        Writes(1, <<Put("outcome", Range(Time) \ {Time.Accepted})>>)},
       {})

-----------------------------------------------------------------------------
(* Incoming: every number is a code, the registry's or one of a newer      *)
(* build's.                                                                *)
ErrorKey == [code |-> 1, detail |-> 2]
Codes == Range(ErrorCode) \cup {Unallocated}
needs_a_seal == {ErrorCode.UnknownSection, ErrorCode.BusyRetry, ErrorCode.RoleNotPermitted}

ErrorRead(after) ==
  Body(ErrorKey, [code |-> Kind(Codes, {}, "none"), detail |-> Number], "skip",
       <<Need("detail"), Need("code")>> \o after,
       {Writes(2, <<Put("code", Codes), Put("detail", Numbers)>>)}, {})

(* Inside a session, and bare. Which of the two a sender writes is P-142's *)
(* rule and whatever code it is; a receiver discards a bare one whose code *)
(* needs a seal (P-051).                                                   *)
ErrorSealed == ErrorRead(<< >>)
ErrorBare == ErrorRead(<<Refuse("BareCodeNeedsASeal", [code |-> needs_a_seal], {}, {})>>)

(* EmptyBody: any key is stepped over.                                     *)
EmptyBody == Body(<< >>, << >>, "skip", << >>, {Writes(0, << >>)}, {})

SessionMessages ==
  [Discovery |-> Discovery, HelloReport |-> HelloReport, HelloOffer |-> HelloOffer,
   HelloRequest |-> HelloRequest, HelloAnswer |-> HelloAnswer, Subscribe |-> Subscribe,
   SubscribeAck |-> SubscribeAck, EventBody |-> EventBody, LogEntry |-> LogEntry, ReadLog |-> ReadLog, LogPage |-> LogPage,
   CommandOperation |-> CommandOperation, CommandAck |-> CommandAck,
   TimeOperation |-> TimeOperation, TimeAck |-> TimeAck, ErrorSealed |-> ErrorSealed,
   ErrorBare |-> ErrorBare, EmptyBody |-> EmptyBody]

-----------------------------------------------------------------------------
(* Who may open a session.                                                 *)

InviteKey == [role |-> 1, invitee |-> 2, commitment |-> 3, client_kind |-> 4, label |-> 5]
InviteAckKey == [outcome |-> 1, nonce |-> 2]
ApproveKey == [nonce |-> 1, decision |-> 2, reveal |-> 3, proof |-> 4]
ApproveAckKey == [outcome |-> 1, client_id |-> 2, generation |-> 3, confirm |-> 4]
RemoveKey == [client_id |-> 1, generation |-> 2]

(* An identifier of a slot or of an enrolment: a non-zero u32.             *)
Ids == {1, 2}

label_fits == OneTo(MAX_LABEL, "EmptyLabel", "LabelTooLong")

InviteOperation ==
  Body(InviteKey,
       [role |-> Enum(Role, "UnknownRole"), invitee |-> Fixed(KEY_BYTES, "WrongLength"),
        commitment |-> Fixed(COMMITMENT_BYTES, "WrongLength"),
        client_kind |-> Enum(ClientKind, "UnknownClientKind"), label |-> label_fits],
       "skip",
       Needs(<<"role", "invitee", "commitment", "client_kind", "label">>),
       {Writes(5, <<Put("role", Range(Role)), Put("invitee", {KEY_BYTES}),
                    Put("commitment", {COMMITMENT_BYTES}),
                    Put("client_kind", Range(ClientKind)), Put("label", {1, MAX_LABEL})>>)},
       {})

(* Constructed only by proposed(nonce) and refused(outcome).               *)
InviteAck ==
  Body(InviteAckKey,
       [outcome |-> Enum(Invite, "UnknownOutcome"),
        nonce |-> Fixed(INVITE_NONCE_BYTES, "WrongLength")],
       "skip",
       <<Need("outcome"),
         Refuse("ProposedWithoutNonce", [outcome |-> {Invite.Proposed}], {}, {"nonce"}),
         Refuse("Unexpected", [outcome |-> Range(Invite) \ {Invite.Proposed}], {"nonce"}, {})>>,
       {Writes(2, <<Put("outcome", {Invite.Proposed}), Put("nonce", {INVITE_NONCE_BYTES})>>),
        Writes(1, <<Put("outcome", Range(Invite) \ {Invite.Proposed})>>)},
       {})

ApproveOperation ==
  LET approve == [decision |-> {InviteDecision.Approve}]
      decline == [decision |-> {InviteDecision.Decline}]
  IN Body(ApproveKey,
       [nonce |-> Fixed(INVITE_NONCE_BYTES, "WrongLength"),
        decision |-> Enum(InviteDecision, "UnknownDecision"),
        reveal |-> Fixed(INVITE_NONCE_BYTES, "WrongLength"),
        proof |-> Fixed(TAG_BYTES, "WrongLength")],
       "skip",
       <<Need("nonce"), Need("decision"),
         Refuse("Missing", approve, {}, {"reveal"}), Refuse("Missing", approve, {}, {"proof"}),
         Refuse("Unexpected", decline, {"reveal"}, {}),
         Refuse("Unexpected", decline, {"proof"}, {})>>,
       {Writes(4, <<Put("nonce", {INVITE_NONCE_BYTES}), Put("decision", {InviteDecision.Approve}),
                    Put("reveal", {INVITE_NONCE_BYTES}), Put("proof", {TAG_BYTES})>>),
        Writes(2, <<Put("nonce", {INVITE_NONCE_BYTES}), Put("decision", {InviteDecision.Decline})>>)},
       {})

(* Constructed only by enrolled(slot) and other(outcome).                  *)
ApproveAck ==
  LET enrolled == [outcome |-> {Approve.Enrolled}]
      other == [outcome |-> Range(Approve) \ {Approve.Enrolled}]
  IN Body(ApproveAckKey,
       [outcome |-> Enum(Approve, "UnknownOutcome"), client_id |-> NonZero("Zero"),
        generation |-> NonZero("Zero"), confirm |-> Fixed(TAG_BYTES, "WrongLength")],
       "skip",
       <<Need("outcome")>>
         \o [i \in 1..3 |-> Refuse("EnrolledWithoutSlot", enrolled, {},
                                    {<<"client_id", "generation", "confirm">>[i]})]
         \o [i \in 1..3 |-> Refuse("Unexpected", other,
                                    {<<"client_id", "generation", "confirm">>[i]}, {})],
       {Writes(4, <<Put("outcome", {Approve.Enrolled}), Put("client_id", Ids),
                    Put("generation", Ids), Put("confirm", {TAG_BYTES})>>),
        Writes(1, <<Put("outcome", other.outcome)>>)},
       {})

RemoveOperation ==
  Body(RemoveKey, [client_id |-> NonZero("Zero"), generation |-> NonZero("Zero")], "skip",
       Needs(<<"client_id", "generation">>),
       {Writes(2, <<Put("client_id", Ids), Put("generation", Ids)>>)}, {})

RemoveAck ==
  Body([outcome |-> 1], [outcome |-> Enum(Remove, "UnknownOutcome")], "skip",
       Needs(<<"outcome">>), {Writes(1, <<Put("outcome", Range(Remove))>>)}, {})

-----------------------------------------------------------------------------
PairOfferKey ==
  [protocol_major |-> 1, protocol_minor |-> 2, client_version |-> 3, client_kind |-> 4, label |-> 5]

(* Unlike an invite's, a pairing label may be empty.                       *)
PairOffer ==
  Body(PairOfferKey,
       [protocol_major |-> Number, protocol_minor |-> Number, client_version |-> Number,
        client_kind |-> Enum(ClientKind, "UnknownKind"), label |-> UpTo(MAX_LABEL, "LabelTooLong")],
       "skip",
       Needs(<<"protocol_major", "protocol_minor", "client_version", "client_kind", "label">>),
       {Writes(5, <<Put("protocol_major", Numbers), Put("protocol_minor", Numbers),
                    Put("client_version", Numbers), Put("client_kind", Range(ClientKind)),
                    Put("label", {0, MAX_LABEL})>>)},
       {})

(* The suite is checked after the loop, before the handshake is missed.    *)
PairRequest ==
  Body([suite |-> 1, handshake |-> 2],
       [suite |-> Kind(Range(Suite) \cup {Unallocated}, {}, "none"), handshake |-> Number],
       "UnknownKey",
       <<Need("suite"), Refuse("UnsupportedSuite", [suite |-> {Unallocated}], {}, {}),
         Need("handshake")>>,
       {Writes(2, <<Put("suite", Range(Suite)), Put("handshake", Numbers)>>)},
       {})

(* Written by Offered::refuse or Offered::proceed, read by PairPending.    *)
PairResponse ==
  LET refused == [outcome |-> {Pair.WindowClosed, Pair.TableFull}]
      proceed == [outcome |-> {Pair.Proceed}]
      stray == {Unallocated, Pair.Enrolled, Pair.Reclaimed, Pair.NotStored}
  IN Body([outcome |-> 1, handshake |-> 2, refusal |-> 3],
       [outcome |-> Kind(Range(Pair) \cup {Unallocated}, {}, "none"),
        handshake |-> Number, refusal |-> Number],
       "UnknownKey",
       <<Need("outcome"), Refuse("UnknownOutcome", [outcome |-> stray], {}, {}),
         Refuse("UnknownKey", refused, {"handshake"}, {}),
         Refuse("Missing", refused, {}, {"refusal"}),
         Refuse("UnknownKey", proceed, {"refusal"}, {}),
         Refuse("Missing", proceed, {}, {"handshake"})>>,
       {Writes(2, <<Put("outcome", refused.outcome), Put("refusal", Numbers)>>),
        Writes(2, <<Put("outcome", proceed.outcome), Put("handshake", Numbers)>>)},
       {})

EnrolRequest ==
  Body([handshake |-> 1], [handshake |-> Number], "UnknownKey", Needs(<<"handshake">>),
       {Writes(1, <<Put("handshake", Numbers)>>)}, {})

(* A slot of zero is a slot that never arrived, but not on a refusal.      *)
EnrolAnswer ==
  LET slotted == [outcome |-> {Pair.Enrolled, Pair.Reclaimed}]
      none == [outcome |-> {Pair.WindowClosed, Pair.TableFull, Pair.NotStored}]
      zero(name) == slotted @@ (name :> {0})
  IN Body([outcome |-> 1, client_id |-> 2, generation |-> 3, next_challenge |-> 4],
       [outcome |-> Kind(Range(Pair) \cup {Unallocated}, {}, "none"), client_id |-> Number,
        generation |-> Number, next_challenge |-> Fixed(CHALLENGE_BYTES, "WrongWidth")],
       "skip",
       <<Need("outcome"), Refuse("UnknownOutcome", [outcome |-> {Unallocated, Pair.Proceed}], {}, {}),
         Refuse("Missing", slotted, {}, {"client_id"}), Refuse("Missing", zero("client_id"), {}, {}),
         Refuse("Missing", slotted, {}, {"generation"}), Refuse("Missing", zero("generation"), {}, {}),
         Refuse("SlotOnARefusal", none, {"client_id"}, {}),
         Refuse("SlotOnARefusal", none, {"generation"}, {}),
         Need("next_challenge")>>,
       {Writes(4, <<Put("outcome", slotted.outcome), Put("client_id", Ids), Put("generation", Ids),
                    Put("next_challenge", {CHALLENGE_BYTES})>>),
        Writes(2, <<Put("outcome", none.outcome), Put("next_challenge", {CHALLENGE_BYTES})>>)},
       {})
-----------------------------------------------------------------------------
MAX_EXPIRES_IN == INVITE_TTL_MS \div 1000

(* ClientRow::check, made of a whole row: a client may have no label.      *)
ClientRow ==
  Body([client_id |-> 1, generation |-> 2, role |-> 3, client_kind |-> 4, label |-> 5],
       [client_id |-> NonZero("Zero"), generation |-> NonZero("Zero"),
        role |-> Enum(Role, "Unallocated"), client_kind |-> Enum(ClientKind, "Unallocated"),
        label |-> Kind({0, MAX_LABEL, MAX_LABEL + 1}, {}, "none")],
       "skip",
       Needs(<<"client_id", "generation", "role", "client_kind", "label">>)
         \o <<Refuse("LabelLength", [label |-> {MAX_LABEL + 1}], {}, {})>>,
       {Writes(5, <<Put("client_id", Ids), Put("generation", Ids), Put("role", Range(Role)),
                    Put("client_kind", Range(ClientKind)), Put("label", {0, MAX_LABEL})>>)},
       {})

(* InviteRow: an invited one may not.                                      *)
InviteRow ==
  LET expires == {0, MAX_EXPIRES_IN}
      labels == {1, MAX_LABEL}
  IN Body([nonce |-> 1, role |-> 2, invitee |-> 3, inviter |-> 4, inviter_generation |-> 5,
           client_kind |-> 6, label |-> 7, expires_in |-> 8, suite |-> 9],
       [nonce |-> Fixed(INVITE_NONCE_BYTES, "WrongLength"), role |-> Enum(Role, "Unallocated"),
        invitee |-> Fixed(KEY_BYTES, "WrongLength"), inviter |-> NonZero("Zero"),
        inviter_generation |-> NonZero("Zero"), client_kind |-> Enum(ClientKind, "Unallocated"),
        label |-> Kind(labels \cup {0, MAX_LABEL + 1}, {}, "none"),
        expires_in |-> Kind(expires \cup {MAX_EXPIRES_IN + 1}, {}, "none"),
        suite |-> Enum(Suite, "Unallocated")],
       "skip",
       Needs(<<"nonce", "role", "invitee", "inviter", "inviter_generation", "client_kind",
               "label", "expires_in", "suite">>)
         \o <<Refuse("LabelLength", [label |-> {0, MAX_LABEL + 1}], {}, {}),
              Refuse("ExpiresTooLate", [expires_in |-> {MAX_EXPIRES_IN + 1}], {}, {})>>,
       {Writes(9, <<Put("nonce", {INVITE_NONCE_BYTES}), Put("role", Range(Role)),
                    Put("invitee", {KEY_BYTES}), Put("inviter", Ids),
                    Put("inviter_generation", Ids), Put("client_kind", Range(ClientKind)),
                    Put("label", labels), Put("expires_in", expires), Put("suite", Range(Suite))>>)},
       {})

(* The rows that may not follow one of the earlier ones.                   *)
SlotFollows(rows) == {i \in DOMAIN rows : \E j \in 1..(i - 1) : rows[i] <= rows[j]}
NonceFollows(rows) == {i \in DOMAIN rows : \E j \in 1..(i - 1) : rows[i] = rows[j]}

(* Rows::check: no more than the table holds, each row in its place among  *)
(* the ones before it.                                                     *)
RowsCheck(rows, max, late, err) ==
  IF Len(rows) > max THEN "TooMany" ELSE IF late # {} THEN err ELSE ""

(* The lists that arrive, by number: of slots, and of nonces.              *)
SampleRows ==
  <<<<>>, <<1, 3, 4>>, [i \in 1..MAX_INVITES |-> i], [i \in 1..MAX_CLIENTS |-> i],
    [i \in 1..(MAX_CLIENTS + 1) |-> i], <<2, 1>>, <<1, 2, 1>>>>

ClientsCheck(n) ==
  RowsCheck(SampleRows[n], MAX_CLIENTS, SlotFollows(SampleRows[n]), "SlotsOutOfOrder")
InvitesCheck(n) ==
  RowsCheck(SampleRows[n], MAX_INVITES, NonceFollows(SampleRows[n]), "InviteRepeated")

ClientsAnswer ==
  LET all == DOMAIN SampleRows
      wrong(name, check(_), err) ==
        Refuse(err, name :> {n \in all : check(n) = err}, {}, {})
  IN Body([clients |-> 1, invites |-> 2],
       [clients |-> Kind(all, {}, "none"), invites |-> Kind(all, {}, "none")], "skip",
       <<Need("clients"), wrong("clients", ClientsCheck, "TooMany"),
         wrong("clients", ClientsCheck, "SlotsOutOfOrder"),
         Need("invites"), wrong("invites", InvitesCheck, "TooMany"),
         wrong("invites", InvitesCheck, "InviteRepeated")>>,
       {Writes(2, <<Put("clients", {n \in all : ClientsCheck(n) = ""}),
                    Put("invites", {n \in all : InvitesCheck(n) = ""})>>)},
       {})

-----------------------------------------------------------------------------
VouchRequest ==
  Body([verifier |-> 1, nonce |-> 2, binding |-> 3],
       [verifier |-> Fixed(KEY_BYTES, "WrongWidth"), nonce |-> Fixed(VOUCH_NONCE_BYTES, "WrongWidth"),
        binding |-> Fixed(BINDING_BYTES, "WrongWidth")],
       "skip", Needs(<<"verifier", "nonce", "binding">>),
       {Writes(3, <<Put("verifier", {KEY_BYTES}), Put("nonce", {VOUCH_NONCE_BYTES}),
                    Put("binding", {BINDING_BYTES})>>)},
       {})

(* The four words of a vouch stand together, beside their outcome.         *)
VouchAnswer ==
  LET words == <<"epoch", "client_id", "generation", "tag">>
      vouched == [outcome |-> {Vouch.Vouched}]
      bad == [outcome |-> {Vouch.BadVerifier}]
      zero(name) == Refuse("Zero", vouched @@ (name :> {0}), {}, {})
  IN Body([outcome |-> 1, epoch |-> 2, client_id |-> 3, generation |-> 4, tag |-> 5],
       [outcome |-> Kind(Range(Vouch) \cup {Unallocated}, {}, "none"),
        epoch |-> Number, client_id |-> Number, generation |-> Number,
        tag |-> Fixed(MAC_TAG_BYTES, "WrongWidth")],
       "skip",
       <<Need("outcome"), Refuse("UnknownOutcome", [outcome |-> {Unallocated}], {}, {})>>
         \o [i \in DOMAIN words |-> Refuse("OutcomeDisagrees", vouched, {}, {words[i]})]
         \o <<zero("epoch"), zero("client_id"), zero("generation")>>
         \o [i \in DOMAIN words |-> Refuse("OutcomeDisagrees", bad, {words[i]}, {})],
       {Writes(5, <<Put("outcome", {Vouch.Vouched}), Put("epoch", Ids), Put("client_id", Ids),
                    Put("generation", Ids), Put("tag", {MAC_TAG_BYTES})>>),
        Writes(1, <<Put("outcome", {Vouch.BadVerifier})>>)},
       {})

MembershipMessages ==
  [Invite |-> InviteOperation, InviteAck |-> InviteAck, Approve |-> ApproveOperation,
   ApproveAck |-> ApproveAck, Remove |-> RemoveOperation, RemoveAck |-> RemoveAck,
   PairOffer |-> PairOffer, Pair |-> PairRequest, PairResponse |-> PairResponse,
   Enrol |-> EnrolRequest, EnrolAnswer |-> EnrolAnswer,
   ClientRow |-> ClientRow, InviteRow |-> InviteRow, ClientsAnswer |-> ClientsAnswer,
   VouchRequest |-> VouchRequest, VouchAnswer |-> VouchAnswer]
=============================================================================
