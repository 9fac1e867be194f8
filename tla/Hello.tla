-------------------------------- MODULE Hello --------------------------------
(***************************************************************************)
(* Opening a session (hello.rs, with Prologue and Version of handshake.rs  *)
(* and the client's kept enrolment of kdf/stored.rs): phones that hold an  *)
(* enrolment, one controller, and a comms processor between them that      *)
(* carries every message and may hold it, lose it, hand it over again,     *)
(* later or on another connection, cut it, or alter a field.               *)
(*                                                                         *)
(* The connection, its challenge, the table of slots and which step runs   *)
(* when are the firmware's (external), as PROTOCOL.md has them: a fresh    *)
(* challenge for each connection, spent by the first Hello read under it.  *)
(* A slot may be re-keyed between the admission of a Hello and its proof.  *)
(***************************************************************************)
EXTENDS Noise, FiniteSets

CONSTANTS
  Phones,       \* client installs; the slot each enrolled in is its own
  Speaks,       \* the versions a phone's app may be of, <<major, minor>>
  Version,      \* the controller's
  MaxConns,     \* bound: connections
  MaxHellos,    \* bound: Hellos started
  MaxRekeys     \* bound: slots re-keyed

VARIABLES
  conn,         \* external: handle, challenge, and whether that is live
  table,        \* external: each slot's key, admission key, generation, suite
  admitted,     \* Admitted: the Hello whose tag matched a slot
  phone,        \* each phone's Enrolment, HelloPending and Session
  wire,         \* every message ever written
  opened,       \* history: the sessions the controller opened
  wronged       \* history: a sound Hello was refused

vars == <<conn, table, admitted, phone, wire, opened, wronged>>

Handles    == {1, 2}
Device     == "unit"
Epoch      == 1
Suites     == {1}
Controller == Key("controller", "", 0)
Nobody     == [slot |-> "", hello |-> [req |-> 0]]

(* Seeded fault: a prologue that outlives its connection.                  *)
PrologueNoChallenge(suite, version, device, epoch, challenge, handle) ==
  <<"prologue", suite, version, device, epoch, handle>>

Messages(kind) == {m \in wire : m.kind = kind}
Prologue(suite, version, device, epoch, challenge, handle) ==
  <<"prologue", suite, version, device, epoch, challenge, handle>>
(* Prologue::from_discovery, and the controller's own.                     *)
PrologueOf(d) == Prologue(1, d.version, d.device, d.epoch, d.challenge, d.handle)
OwnPrologue   == Prologue(1, Version, Device, Epoch, conn.challenge, conn.handle)

(* Version::agreed                                                         *)
Major(v) == v[1]
SameMajor(ours, theirs) == Major(ours) = Major(theirs)
Agreed(ours, theirs) ==
  <<Major(ours), IF ours[2] < theirs[2] THEN ours[2] ELSE theirs[2]>>

(* Enrolment::new, and with_slot once a HelloReport has named the slot. In *)
(* storage a slot that is not known is two zeros.                          *)
NoSlot == <<"", 0>>
Enrolment(key) ==
  [device |-> Device, controller |-> Controller, key |-> key, suite |-> 1, epoch |-> Epoch,
   slot |-> NoSlot]
WithSlot(kept, id, gen) == [kept EXCEPT !.slot = <<id, gen>>]
AdmitKeyOf(kept) == AdmitKey(kept.device, kept.key, kept.controller)

Row(key, gen) ==
  [key |-> key, admit |-> AdmitKey(Device, Controller, key), gen |-> gen, suite |-> 1]
Fresh(n) == Key("ephemeral", "controller", n)

Init ==
  /\ conn = [handle |-> 1, challenge |-> 1, live |-> TRUE]
  /\ table = [p \in Phones |-> Row(Key("client", p, 1), 1)]
  /\ admitted = Nobody
  /\ phone = [p \in Phones |-> [kept |-> Enrolment(Key("client", p, 1)), phase |-> "idle"]]
  /\ wire = {}
  /\ opened = {}
  /\ wronged = FALSE
-----------------------------------------------------------------------------
(* What the comms processor makes of a message.                            *)

Rewritten(d) ==
  {d, [d EXCEPT !.version = <<1, 0>>], [d EXCEPT !.epoch = @ + 1],
   [d EXCEPT !.device = "other"]}
  \cup {[d EXCEPT !.handle = h] : h \in Handles}

(* An ephemeral key of low order, which agrees with nothing.               *)
LowFirst(message) == [message EXCEPT ![1] = LowOrder]

Altered(m) ==
  {m, [m EXCEPT !.suite = 2], [m EXCEPT !.admit = CutTag],
   [m EXCEPT !.message = SubSeq(@, 1, 2)], [m EXCEPT !.message = LowFirst(@)]}
  \cup {[m EXCEPT !.handle = h] : h \in Handles}
  \cup {[m EXCEPT !.admit = o.admit] : o \in Messages("hello")}

AlteredReply(r) ==
  {r, [r EXCEPT !.handle = 0], [r EXCEPT !.message = SubSeq(@, 1, 1)],
   [r EXCEPT !.message = LowFirst(@)]}
  \cup {[r EXCEPT !.handle = h] : h \in Handles}
  \cup {[r EXCEPT !.req = o.req] : o \in Messages("hello")}
-----------------------------------------------------------------------------
(* External: connections, Discover's answer, and a slot written for a      *)
(* phone's next key, which the phone keeps from then on (P-239).           *)

Connect(handle) ==
  /\ conn.challenge < MaxConns
  /\ conn' = [handle |-> handle, challenge |-> conn.challenge + 1, live |-> TRUE]
  /\ admitted' = Nobody
  /\ UNCHANGED <<table, phone, wire, opened, wronged>>

Discover ==
  /\ conn.live
  /\ wire' = wire \cup
       {[kind |-> "discover", version |-> Version, device |-> Device, epoch |-> Epoch,
         challenge |-> conn.challenge, handle |-> conn.handle]}
  /\ UNCHANGED <<conn, table, admitted, phone, opened, wronged>>

Rekey(p) ==
  LET gen == table[p].gen + 1
      key == Key("client", p, gen)
  IN  /\ gen <= MaxRekeys + 1
      /\ table' = [table EXCEPT ![p] = Row(key, gen)]
      /\ phone' = [phone EXCEPT ![p] = [kept |-> Enrolment(key), phase |-> "idle"]]
      /\ UNCHANGED <<conn, admitted, wire, opened, wronged>>
-----------------------------------------------------------------------------
(* A restart of the app (kdf/stored.rs). FORMAT is the one layout this     *)
(* build reads; what storage hands back is anything at all.                *)
FORMAT == 2
Stored(kept) == [kept |-> kept, format |-> FORMAT, whole |-> TRUE]
HandedBack(st) ==
  {st, [st EXCEPT !.whole = FALSE], [st EXCEPT !.format = 1], [st EXCEPT !.kept.suite = 9],
   [st EXCEPT !.kept.epoch = 0], [st EXCEPT !.kept.slot = <<@[1], 0>>],
   [st EXCEPT !.kept.slot = <<"", @[2]>>]}

(* StoredEnrolment::decode                                                 *)
DecodeWhy(st) ==
  LET slot == st.kept.slot
  IN  IF ~st.whole THEN "WrongLength"
      ELSE IF st.format # FORMAT THEN "UnknownFormat"
      ELSE IF ~(slot[1] = "" <=> slot[2] = 0) THEN "HalfASlot"
      ELSE IF st.kept.suite \notin Suites THEN "UnknownSuite"
      ELSE IF st.kept.epoch = 0 THEN "ZeroEpoch"
      ELSE ""

(* What the phone was in the middle of is gone; an enrolment it cannot     *)
(* read it does not have. (Restarted between two Hellos it has nothing to  *)
(* lose that a later restart does not.)                                    *)
Relaunch(p) ==
  /\ phone[p].phase \in {"pending", "open"}
  /\ \E st \in HandedBack(Stored(phone[p].kept)) :
       phone' = [phone EXCEPT ![p] =
         IF DecodeWhy(st) = "" THEN [kept |-> st.kept, phase |-> "idle"] ELSE [phase |-> "unpaired"]]
  /\ UNCHANGED <<conn, table, admitted, wire, opened, wronged>>

(* StoredEnrolment::restore: a Discover is not authenticated, so its epoch *)
(* throws no key away.                                                     *)
RestoreWhy(kept, d) == IF d.device # kept.device THEN "OtherController" ELSE ""
-----------------------------------------------------------------------------
(* The phone.                                                              *)

(* Prologue::from_discovery and HelloPending::start, against the pinned    *)
(* key.                                                                    *)
StartHello(p, speaks, d) ==
  LET req      == Cardinality(Messages("hello")) + 1
      e        == Key("ephemeral", p, req)
      kept     == phone[p].kept
      prologue == PrologueOf(d)
      offer    == <<"offer", speaks>>
      message  == HelloMessage(prologue, kept.controller, kept.key, e, offer)
  IN
  /\ phone[p].phase = "idle"
  /\ req <= MaxHellos
  /\ RestoreWhy(kept, d) = ""
  /\ wire' = wire \cup
       {[kind |-> "hello", req |-> req, handle |-> d.handle, suite |-> 1,
         message |-> message,
         admit |-> AdmitTag(AdmitKeyOf(kept), prologue, message)]}
  /\ phone' = [phone EXCEPT ![p] =
       [kept |-> kept, phase |-> "pending", req |-> req, e |-> e, prologue |-> prologue,
        speaks |-> speaks, handle |-> d.handle,
        pending |-> HelloStarted(prologue, kept.controller, kept.key, e, offer)]]
  /\ UNCHANGED <<conn, table, admitted, opened, wronged>>

(* HelloPending::finish, with HelloReport::decode's check of key 3.        *)
FinishWhy(p, r) ==
  LET st     == HelloReadReply(phone[p].pending, phone[p].e, phone[p].kept.key, r.message)
      report == r.message[2].plain
  IN  IF r.req # phone[p].req THEN "NotThisRequest"
      ELSE IF r.handle = 0 THEN "NoHandle"
      ELSE IF ~Going(st) THEN st.why
      ELSE IF report[3] # r.handle THEN "SessionMismatch"
      ELSE IF ~SameMajor(phone[p].speaks, report[2]) THEN "MajorMismatch"
      ELSE ""

(* Whatever it answers, the pending handshake is spent.                    *)
Finish(p, r) ==
  LET report == r.message[2].plain
      st     == HelloReadReply(phone[p].pending, phone[p].e, phone[p].kept.key, r.message)
  IN
  /\ phone[p].phase = "pending"
  /\ phone' = [phone EXCEPT ![p] =
       IF FinishWhy(p, r) # "" THEN [kept |-> @.kept, phase |-> "idle"]
       ELSE [kept |-> WithSlot(@.kept, report[4], report[5]), phase |-> "open",
             channel |-> ForInitiator(Split(st)), version |-> Agreed(@.speaks, report[2]),
             handle |-> r.handle, prologue |-> @.prologue, speaks |-> @.speaks]]
  /\ UNCHANGED <<conn, table, admitted, wire, opened, wronged>>
-----------------------------------------------------------------------------
(* The controller.                                                         *)

(* HelloArrival::admit: every slot's key is tried.                         *)
Tagged(m) ==
  {p \in Phones : Verify(AdmitTag(table[p].admit, OwnPrologue, m.message), m.admit) = ""}

(* As it was written, over the Discover this connection has, by a phone    *)
(* whose slot still holds its key and whose major is the controller's.     *)
Sound(m) ==
  /\ m \in wire
  /\ \E p \in Phones :
       /\ m.message[2].plain = table[p].key
       /\ SameMajor(m.message[3].plain[2], Version)
       /\ m.admit = AdmitTag(table[p].admit, OwnPrologue, m.message)

(* HelloArrival::decode and admit. An unknown suite leaves the challenge   *)
(* live; anything later has spent it (external, P-226).                    *)
Arrive(m) ==
  LET spent == [conn EXCEPT !.live = FALSE]
      Refuse(why) ==
        /\ wronged' = (wronged \/ (Sound(m) /\ why # "ChallengeNotLive"))
        /\ UNCHANGED admitted
  IN
  /\ admitted = Nobody
  /\ IF m.suite \notin Suites THEN Refuse("UnsupportedSuite") /\ UNCHANGED conn
     ELSE IF ~conn.live THEN Refuse("ChallengeNotLive") /\ UNCHANGED conn
     ELSE /\ conn' = spent
          /\ IF m.admit = CutTag THEN Refuse("AdmitWidth")
             ELSE IF Tagged(m) = {} THEN Refuse("NotAdmitted")
             ELSE /\ admitted' = [slot |-> CHOOSE p \in Tagged(m) : TRUE, hello |-> m]
                  /\ UNCHANGED wronged
  /\ UNCHANGED <<table, phone, wire, opened>>

(* Admitted::prove, against the slot as it is now; the major (external).   *)
Claim(m)  == ReadClaim(OwnPrologue, Controller, m.message)
Proof(m)  == Prove(Claim(m), Controller, m.message)
ProveWhy(m, row) ==
  IF m.suite # row.suite THEN "UnsupportedSuite"
  ELSE IF ~Going(Claim(m)) THEN Claim(m).why
  ELSE IF m.message[2].plain # row.key THEN "KeyMismatch"
  ELSE IF ~Going(Proof(m)) THEN Proof(m).why
  ELSE IF ~SameMajor(Version, m.message[3].plain[2]) THEN "MajorMismatch"
  ELSE ""

(* ... then Proved::reply, or the refusal.                                 *)
ProveAndReply ==
  LET m      == admitted.hello
      row    == table[admitted.slot]
      why    == ProveWhy(m, row)
      e      == Fresh(Cardinality(opened) + 1)
      client == row.key
      report == <<"report", Version, conn.handle, admitted.slot, row.gen>>
      keys   == Split(HelloReplied(Proof(m), e, m.message[1], client, report))
  IN
  /\ admitted # Nobody
  /\ admitted' = Nobody
  /\ wronged' = (wronged \/ (Sound(m) /\ why # ""))
  /\ IF why # "" THEN UNCHANGED <<wire, opened>>
     ELSE /\ wire' = wire \cup
               {[kind |-> "reply", req |-> m.req, handle |-> m.handle,
                 message |-> HelloReply(Proof(m), e, m.message[1], client, report)]}
          /\ opened' = opened \cup
               {[channel |-> ForResponder(keys), slot |-> admitted.slot, gen |-> row.gen,
                 key |-> client, e |-> m.message[1], prologue |-> OwnPrologue,
                 handle |-> conn.handle,
                 version |-> Agreed(Version, m.message[3].plain[2])]}
  /\ UNCHANGED <<conn, table, phone>>

Next ==
  \/ \E handle \in Handles : Connect(handle)
  \/ Discover
  \/ \E p \in Phones : Rekey(p) \/ Relaunch(p)
  \/ \E p \in Phones, speaks \in Speaks, d \in Messages("discover") :
       \E seen \in Rewritten(d) : StartHello(p, speaks, seen)
  \/ \E m \in Messages("hello") : \E seen \in Altered(m) : Arrive(seen)
  \/ ProveAndReply
  \/ \E p \in Phones, r \in Messages("reply") : \E seen \in AlteredReply(r) : Finish(p, seen)

Spec == Init /\ [][Next]_vars
-----------------------------------------------------------------------------
(* A phone that has a session has it with the controller it pinned, and    *)
(* the controller opened the same one: the same keys the other way round,  *)
(* for this phone's key and slot, over the same Discover, at the version   *)
(* both ends speak. A session the controller opens is one the holder of    *)
(* that slot's key asked for over this very connection's Discover, and no  *)
(* Hello opens two - whatever was rewritten, repeated, crossed or handed   *)
(* over on a later connection, and whichever slot was re-keyed meanwhile   *)
(* (HelloPending::finish, HelloArrival::admit, Admitted::prove). And what  *)
(* a phone holds after any number of restarts is the enrolment it stored,  *)
(* whole: its key, the controller it pinned, and no slot but that key's    *)
(* own (StoredEnrolment::decode and restore).                              *)
SessionAgreed ==
  /\ \A p \in Phones : phone[p].phase = "open" =>
       \E s \in opened :
         /\ s.channel = [send |-> phone[p].channel.receive, receive |-> phone[p].channel.send]
         /\ s.key = phone[p].kept.key /\ s.slot = p
         /\ phone[p].kept.slot = <<s.slot, s.gen>>
         /\ s.prologue = phone[p].prologue /\ s.handle = phone[p].handle
         /\ s.version = phone[p].version /\ s.version = Agreed(Version, phone[p].speaks)
  /\ \A s \in opened :
       \E m \in Messages("hello") :
         /\ m.message[1] = s.e
         /\ m.message[2].plain = s.key
         /\ m.admit = AdmitTag(AdmitKey(Device, s.key, Controller), s.prologue, m.message)
  /\ \A s, t \in opened : s.e = t.e \/ s.prologue = t.prologue => s = t
  /\ \A p \in Phones : phone[p].phase # "unpaired" =>
       \E gen \in 1..(MaxRekeys + 1) :
         LET own == Enrolment(Key("client", p, gen))
         IN  phone[p].kept \in {own, WithSlot(own, p, gen)}

(* A Hello that arrives as it was written, over the Discover the           *)
(* connection has, from a phone whose slot still holds its key and whose   *)
(* major is the controller's, is never refused for anything but a spent    *)
(* challenge; and its reply, as written, never fails at the phone.         *)
SoundHelloOpens ==
  /\ ~wronged
  /\ \A p \in Phones, r \in Messages("reply") :
       phone[p].phase = "pending" /\ r.req = phone[p].req /\ r.handle = phone[p].handle
         => FinishWhy(p, r) = ""
=============================================================================
