------------------------------ MODULE Enrolment ------------------------------
(***************************************************************************)
(* Enrolment under the label (pairing.rs): Pair and its answer, Enrol and  *)
(* its answer, and the slot P-240 gives.  The window, the table's storage  *)
(* and the owner's own means of changing the table are the firmware's      *)
(* (external); the comms processor carries every message and may hold,     *)
(* drop, repeat or forge it, and somebody else may have read the label.    *)
(*                                                                         *)
(* An attempt stands for its Noise transcript: a message opens for the     *)
(* attempt it was written for and for no other.  A static key, a label's   *)
(* name for its phone and the controller's key are values.                 *)
(***************************************************************************)
EXTENDS Naturals, FiniteSets

CONSTANTS
  MaxClients, MaxAdmins, MaxViewers,
  Keys,            \* client static keys
  Labels,          \* PairOffer's label
  LastGen,         \* the last Generation
  MaxAttempts,     \* bound: pairings started
  MaxApprovals,    \* bound: invites an owner approved
  MaxMishaps       \* bound: resets, failed writes and removals together

\* The const_assert beside MAX_ADMINS (limits.rs).
ASSUME RowsAssumption ==
  /\ MaxClients \in Nat /\ MaxAdmins \in Nat /\ MaxViewers \in Nat
  /\ MaxAdmins + MaxViewers < MaxClients

ASSUME BoundsAssumption ==
  /\ LastGen \in Nat /\ MaxAttempts \in Nat
  /\ MaxApprovals \in Nat /\ MaxMishaps \in Nat

VARIABLES
  phone,           \* the client's side of each attempt
  handshake,       \* the controller's side of each attempt
  wire,            \* every message ever written
  slots, mark,     \* FRAM: the key records and the generation marks
  window,          \* the pairing window is open
  writing,         \* the slot write under way, if any
  leaked,          \* somebody between phone and controller holds the label
  approvals, mishaps,
  issued           \* history: every enrolment ever stored

vars == <<phone, handshake, wire, slots, mark, window, writing, leaked,
          approvals, mishaps, issued>>
clientVars == <<phone>>
tableVars  == <<slots, mark, writing, issued>>
bounds     == <<approvals, mishaps>>

Attempts  == 1 .. MaxAttempts
Slots     == 1 .. MaxClients
Refusals  == {"WindowClosed", "TableFull"}
Nothing   == [outcome |-> "none", slot |-> 0, gen |-> 0]
Lowest(S) == CHOOSE s \in S : \A t \in S : s <= t
-----------------------------------------------------------------------------
(* Allocation::choose.                                                     *)

Holding(table, role) ==
  {s \in DOMAIN table : \E o \in table[s].held : o.role = role}
FreeSlots(table) == {s \in DOMAIN table : table[s].held = {}}

Place(how, slot, role) == [how |-> how, slot |-> slot, role |-> role]

\* Seeded faults.
ChooseNoSameKey(table, key, label) ==
  LET owned == Holding(table, "owner") # {}
      room  == ~owned \/ Cardinality(Holding(table, "admin")) < MaxAdmins
      alike == {s \in Holding(table, "admin") :
                  \E o \in table[s].held : o.label = label}
  IN  IF room /\ FreeSlots(table) # {}
      THEN Place("Free", Lowest(FreeSlots(table)),
                 IF owned THEN "admin" ELSE "owner")
      ELSE IF alike # {} THEN Place("Reclaim", Lowest(alike), "admin")
      ELSE Place("Full", 0, "none")

ChooseAnyRole(table, key, label) ==
  LET same  == {s \in DOMAIN table : \E o \in table[s].held : o.key \in key}
      owned == Holding(table, "owner") # {}
      room  == ~owned \/ Cardinality(Holding(table, "admin")) < MaxAdmins
      alike == {s \in DOMAIN table : \E o \in table[s].held : o.label = label}
  IN  IF same # {}
      THEN Place("SameKey", Lowest(same),
                 (CHOOSE o \in table[Lowest(same)].held : TRUE).role)
      ELSE IF room /\ FreeSlots(table) # {}
      THEN Place("Free", Lowest(FreeSlots(table)),
                 IF owned THEN "admin" ELSE "owner")
      ELSE IF alike # {} THEN Place("Reclaim", Lowest(alike), "admin")
      ELSE Place("Full", 0, "none")

ReplyCheckedNoFingerprint(m) ==
  IF m.kind = "message2" THEN "Proceed"
  ELSE IF m.tagged THEN m.outcome
  ELSE "failed"

(* P-240: the same key, the lowest free slot the role may take, the lowest *)
(* admin slot under this label.  `key` is the set of the key, empty at     *)
(* message 1.                                                              *)
Choose(table, key, label) ==
  LET same  == {s \in DOMAIN table : \E o \in table[s].held : o.key \in key}
      owned == Holding(table, "owner") # {}
      room  == ~owned \/ Cardinality(Holding(table, "admin")) < MaxAdmins
      alike == {s \in Holding(table, "admin") :
                  \E o \in table[s].held : o.label = label}
  IN  IF same # {}
      THEN Place("SameKey", Lowest(same),
                 (CHOOSE o \in table[Lowest(same)].held : TRUE).role)
      ELSE IF room /\ FreeSlots(table) # {}
      THEN Place("Free", Lowest(FreeSlots(table)),
                 IF owned THEN "admin" ELSE "owner")
      ELSE IF alike # {} THEN Place("Reclaim", Lowest(alike), "admin")
      ELSE Place("Full", 0, "none")

(* Outcome, as Enrol's answer says it.                                     *)
OutcomeOf(place) == IF place.how = "Free" THEN "Enrolled" ELSE "Reclaimed"
-----------------------------------------------------------------------------
(* The messages.  `from` is the static key message 2 proves, and message 3 *)
(* and the sealed answer are under the keys agreed with it.                *)

Message1(a, label) == [kind |-> "message1", attempt |-> a, label |-> label]
Message2(a, from)  == [kind |-> "message2", attempt |-> a, from |-> from]
Refused(a, outcome, tagged) ==
  [kind |-> "refusal", attempt |-> a, outcome |-> outcome, tagged |-> tagged]
Message3(a, from, key) ==
  [kind |-> "message3", attempt |-> a, from |-> from, key |-> key]
Answered(a, from, outcome, slot, gen) ==
  [kind |-> "answer", attempt |-> a, from |-> from, outcome |-> outcome,
   slot |-> slot, gen |-> gen]

\* What may arrive as Pair's answer: what was written, a refusal the relay
\* makes up, and what somebody with the label can write.
Replies(a) ==
  {m \in wire : m.kind \in {"message2", "refusal"} /\ m.attempt = a}
  \cup {Refused(a, r, FALSE) : r \in Refusals}
  \cup (IF leaked THEN {Message2(a, "impostor")}
                       \cup {Refused(a, r, TRUE) : r \in Refusals}
        ELSE {})

\* What may arrive as Enrol's answer: any answer ever sealed, or one sealed by
\* whoever the phone agreed its keys with.
Answers(a) ==
  {m \in wire : m.kind = "answer"}
  \cup (IF leaked THEN {Answered(a, "impostor", "Enrolled", s, 1) : s \in Slots}
        ELSE {})
-----------------------------------------------------------------------------
(* The phone.                                                              *)

(* PairPending::start.  The key is a new one or one the install kept.      *)
Start(a, key, label) ==
  /\ phone[a].step = "unused"
  /\ \A b \in 1 .. a - 1 : phone[b].step # "unused"
  /\ phone' = [phone EXCEPT ![a] = [step |-> "pairing", key |-> key,
                                    from |-> "none", told |-> Nothing]]
  /\ wire' = wire \cup {Message1(a, label)}
  /\ UNCHANGED <<handshake, tableVars, window, leaked, bounds>>

(* PairPending::read: a refusal is believed by its tag, message 2 by the   *)
(* fingerprint on the label.                                               *)
ReplyChecked(m) ==
  IF m.kind = "message2"
  THEN IF m.from = "controller" THEN "Proceed" ELSE "failed"
  ELSE IF m.tagged THEN m.outcome
  ELSE "failed"

ReadReply(a) ==
  /\ phone[a].step = "pairing"
  /\ \E m \in Replies(a) :
       LET verdict == ReplyChecked(m) IN
       phone' = [phone EXCEPT
         ![a] = IF verdict = "Proceed"
                THEN [@ EXCEPT !.step = "proceeding", !.from = m.from]
                ELSE IF verdict \in Refusals
                THEN [@ EXCEPT !.step = "refused", !.told.outcome = verdict]
                ELSE [@ EXCEPT !.step = "failed"]]
  /\ UNCHANGED <<handshake, wire, tableVars, window, leaked, bounds>>

(* PairProceeding::finish: message 3.                                      *)
Finish(a) ==
  /\ phone[a].step = "proceeding"
  /\ phone' = [phone EXCEPT ![a].step = "enrolling"]
  /\ wire' = wire \cup {Message3(a, phone[a].from, phone[a].key)}
  /\ UNCHANGED <<handshake, tableVars, window, leaked, bounds>>

(* EnrolPending::read: the answer opens under this attempt's keys or the   *)
(* attempt is spent.                                                       *)
ReadAnswer(a) ==
  /\ phone[a].step = "enrolling"
  /\ \E m \in Answers(a) :
       phone' = [phone EXCEPT
         ![a] = IF m.attempt = a /\ m.from = phone[a].from
                THEN [@ EXCEPT !.step = "answered",
                               !.told = [outcome |-> m.outcome,
                                         slot |-> m.slot, gen |-> m.gen]]
                ELSE [@ EXCEPT !.step = "failed"]]
  /\ UNCHANGED <<handshake, wire, tableVars, window, leaked, bounds>>
-----------------------------------------------------------------------------
(* The controller.  It handles one message at a time, and none while a     *)
(* slot is being written.                                                  *)

(* PairArrival::open, then Offered::refuse or Offered::proceed.  A         *)
(* challenge is spent by the first message 1 it opens.                     *)
PairArrives(a) ==
  /\ writing = {}
  /\ handshake[a].step = "none"
  /\ \E m \in wire :
       /\ m.kind = "message1" /\ m.attempt = a
       /\ LET refusal == IF ~window THEN {"WindowClosed"}
                         ELSE IF Choose(slots, {}, m.label).how = "Full"
                         THEN {"TableFull"} ELSE {}
          IN  /\ wire' = wire \cup
                   IF refusal = {} THEN {Message2(a, "controller")}
                   ELSE {Refused(a, r, TRUE) : r \in refusal}
              /\ handshake' = [handshake EXCEPT
                   ![a] = [step |-> IF refusal = {} THEN "awaiting" ELSE "over",
                           label |-> {m.label}]]
  /\ UNCHANGED <<clientVars, tableVars, window, leaked, bounds>>

(* EnrolAwaiting::read, then the window and P-240 again.                   *)
EnrolArrives(a) ==
  /\ writing = {}
  /\ handshake[a].step = "awaiting"
  /\ handshake' = [handshake EXCEPT ![a].step = "over"]
  /\ \E m \in wire, label \in handshake[a].label :
       /\ m.kind = "message3" /\ m.attempt = a /\ m.from = "controller"
       /\ LET place == Choose(slots, {m.key}, label)
              refusal == IF ~window THEN {"WindowClosed"}
                         ELSE IF place.how = "Full" THEN {"TableFull"} ELSE {}
          IN  /\ wire' = wire \cup
                   {Answered(a, "controller", r, 0, 0) : r \in refusal}
              /\ writing' =
                   IF refusal # {} THEN {}
                   ELSE {[attempt |-> a, slot |-> place.slot, stage |-> "mark",
                          outcome |-> OutcomeOf(place),
                          held |-> {[key |-> m.key, label |-> label,
                                     role |-> place.role]}]}
  /\ UNCHANGED <<clientVars, slots, mark, window, leaked, bounds, issued>>

(* A message 3 that does not open spends the handshake.                    *)
EnrolGarbled(a) ==
  /\ writing = {}
  /\ handshake[a].step = "awaiting"
  /\ handshake' = [handshake EXCEPT ![a].step = "over"]
  /\ UNCHANGED <<clientVars, wire, tableVars, window, leaked, bounds>>

\* The answer a label's pairing gets; an approval and a removal have their own.
Say(w, outcome, slot, gen) ==
  IF w.attempt = 0 THEN {}
  ELSE {Answered(w.attempt, "controller", outcome, slot, gen)}

(* Generation::next: nothing after the last.                               *)
NextGeneration(gen) == IF gen < LastGen THEN {gen + 1} ELSE {}

(* A slot is written in three steps (external, P-239): its generation mark *)
(* goes up, it is written free, and only then the record is.               *)
RaiseMark ==
  /\ \E w \in writing :
       /\ w.stage = "mark"
       /\ \E g \in NextGeneration(mark[w.slot]) :
            mark' = [mark EXCEPT ![w.slot] = g]
       /\ writing' = {[w EXCEPT !.stage = "free"]}
  /\ UNCHANGED <<clientVars, handshake, wire, slots, window, leaked, bounds,
                 issued>>

FreeSlot ==
  /\ \E w \in writing :
       /\ w.stage = "free"
       /\ slots' = [slots EXCEPT ![w.slot] = [gen |-> mark[w.slot],
                                              held |-> {}]]
       /\ writing' = IF w.held = {} THEN {} ELSE {[w EXCEPT !.stage = "record"]}
  /\ UNCHANGED <<clientVars, handshake, wire, mark, window, leaked, bounds,
                 issued>>

StoreRecord ==
  /\ \E w \in writing :
       /\ w.stage = "record"
       /\ slots' = [slots EXCEPT ![w.slot].held = w.held]
       /\ issued' = issued \cup {[slot |-> w.slot, gen |-> mark[w.slot],
                                  key |-> o.key] : o \in w.held}
       /\ wire' = wire \cup Say(w, w.outcome, w.slot, mark[w.slot])
       /\ window' = (window /\ w.attempt = 0)
       /\ writing' = {}
  /\ UNCHANGED <<clientVars, handshake, mark, leaked, bounds>>

(* A step could not be written, or the slot has no generation left.        *)
NotStored ==
  /\ \E w \in writing :
       /\ wire' = wire \cup Say(w, "NotStored", 0, 0)
       /\ \/ w.stage = "mark" /\ NextGeneration(mark[w.slot]) = {}
             /\ UNCHANGED mishaps
          \/ mishaps < MaxMishaps /\ mishaps' = mishaps + 1
  /\ writing' = {}
  /\ UNCHANGED <<clientVars, handshake, slots, mark, window, leaked, approvals,
                 issued>>

(* Power goes: RAM with it, handshakes and the window included.            *)
Reset ==
  /\ mishaps < MaxMishaps
  /\ mishaps' = mishaps + 1
  /\ writing' = {}
  /\ window' = FALSE
  /\ handshake' = [a \in Attempts |->
       IF handshake[a].step = "awaiting"
       THEN [handshake[a] EXCEPT !.step = "over"] ELSE handshake[a]]
  /\ UNCHANGED <<clientVars, wire, slots, mark, leaked, approvals, issued>>

(* The button, and the window's 120 seconds (external).                    *)
Button ==
  /\ ~window
  /\ window' = TRUE
  /\ UNCHANGED <<clientVars, handshake, wire, tableVars, leaked, bounds>>

Timeout ==
  /\ window
  /\ window' = FALSE
  /\ UNCHANGED <<clientVars, handshake, wire, tableVars, leaked, bounds>>

\* P-258: whether a role may take a free slot.
MayTake(table, role) ==
  /\ FreeSlots(table) # {}
  /\ role = "admin"  => Cardinality(Holding(table, "admin")) < MaxAdmins
  /\ role = "viewer" => Cardinality(Holding(table, "viewer")) < MaxViewers

(* An owner approves an invite (external, P-255): a key no slot holds goes *)
(* into the lowest free slot the role may take.                            *)
Approve(key, label, role) ==
  /\ writing = {} /\ approvals < MaxApprovals
  /\ approvals' = approvals + 1
  /\ Holding(slots, "owner") # {}
  /\ \A s \in Slots : \A o \in slots[s].held : o.key # key
  /\ MayTake(slots, role)
  /\ writing' = {[attempt |-> 0, slot |-> Lowest(FreeSlots(slots)),
                  stage |-> "mark", outcome |-> "Enrolled",
                  held |-> {[key |-> key, label |-> label, role |-> role]}]}
  /\ UNCHANGED <<clientVars, handshake, wire, slots, mark, window, leaked,
                 mishaps, issued>>

(* A slot is removed (external, P-256): never an owner's, and a viewer's   *)
(* only by an owner.                                                       *)
Remove(s) ==
  /\ writing = {} /\ mishaps < MaxMishaps
  /\ mishaps' = mishaps + 1
  /\ \E o \in slots[s].held :
       \/ o.role = "admin"
       \/ o.role = "viewer" /\ Holding(slots, "owner") # {}
  /\ writing' = {[attempt |-> 0, slot |-> s, stage |-> "mark",
                  outcome |-> "Removed", held |-> {}]}
  /\ UNCHANGED <<clientVars, handshake, wire, slots, mark, window, leaked,
                 approvals, issued>>
-----------------------------------------------------------------------------
Init ==
  /\ phone = [a \in Attempts |-> [step |-> "unused", key |-> "none",
                                  from |-> "none", told |-> Nothing]]
  /\ handshake = [a \in Attempts |-> [step |-> "none", label |-> {}]]
  /\ wire = {}
  /\ slots = [s \in Slots |-> [gen |-> 0, held |-> {}]]
  /\ mark = [s \in Slots |-> 0]
  /\ window = FALSE /\ writing = {}
  /\ leaked \in BOOLEAN
  /\ approvals = 0 /\ mishaps = 0
  /\ issued = {}

Next ==
  \/ \E a \in Attempts :
       \/ \E key \in Keys, label \in Labels : Start(a, key, label)
       \/ ReadReply(a) \/ Finish(a) \/ ReadAnswer(a)
       \/ PairArrives(a) \/ EnrolArrives(a) \/ EnrolGarbled(a)
  \/ RaiseMark \/ FreeSlot \/ StoreRecord \/ NotStored \/ Reset
  \/ Button \/ Timeout
  \/ \E key \in Keys, label \in Labels, role \in {"owner", "admin", "viewer"} :
       Approve(key, label, role)
  \/ \E s \in Slots : Remove(s)

Spec == Init /\ [][Next]_vars
-----------------------------------------------------------------------------
\* What a phone was told is what the controller did.  A slot and generation
\* name the enrolment of this phone's key and were never any other key's,
\* across lost answers, resets and interrupted writes, and also when a holder
\* of the label stands between them; without one, a refusal is the
\* controller's (PairPending::read, EnrolPending::read).
ToldTrue == \A a \in Attempts :
  LET told == phone[a].told IN
  /\ told.slot # 0 =>
       /\ \E e \in issued : e.slot = told.slot /\ e.gen = told.gen
       /\ \A e \in issued : e.slot = told.slot /\ e.gen = told.gen
                              => e.key = phone[a].key
  /\ phone[a].step = "refused" /\ ~leaked
       => Refused(a, told.outcome, TRUE) \in wire

\* No client key ever holds two slots, however its pairings, retries and
\* invites overlap (Allocation::choose decided again at message 3).
OneKeyOneSlot == \A s, t \in Slots : s # t =>
  \A o \in slots[s].held, p \in slots[t].held : o.key # p.key

\* An owner's slot is only ever given up to the owner's own key pairing again:
\* no label and no full table makes it a candidate for somebody else's
\* (Allocation::choose).
OwnerStands ==
  [][\A s \in Slots : \A o \in slots[s].held :
       o.role = "owner" /\ slots'[s].held = {}
         => \E w \in writing : \E p \in w.held : p.key = o.key]_vars
=============================================================================
