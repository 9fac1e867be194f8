--------------------------- MODULE Enrolment_proof ---------------------------
(***************************************************************************)
(* For any number of slots, keys, labels and pairings: no key ever holds   *)
(* two slots, an owner's slot is given up only to the owner's own key, and *)
(* what a phone was told of its slot is what the controller stored.        *)
(***************************************************************************)
EXTENDS Enrolment, WellFoundedInduction, TLAPS

RoleSet  == {"owner", "admin", "viewer"}
Outcomes == Refusals \cup {"none", "Enrolled", "Reclaimed", "Removed", "NotStored"}
Records  == [key : Keys, label : Labels, role : RoleSet]
Gens     == 0 .. LastGen
Tables   == [Slots -> [gen : Gens, held : SUBSET Records]]
Tellings == [outcome : Outcomes, slot : 0 .. MaxClients, gen : Gens]
Writings == [attempt : 0 .. MaxAttempts, slot : Slots,
             stage : {"mark", "free", "record"}, outcome : Outcomes,
             held : SUBSET Records]

Messages ==
  [kind : {"message1"}, attempt : Attempts, label : Labels]
  \cup [kind : {"message2"}, attempt : Attempts, from : {"controller"}]
  \cup [kind : {"refusal"}, attempt : Attempts, outcome : Refusals, tagged : {TRUE}]
  \cup [kind : {"message3"}, attempt : Attempts, from : {"controller"}, key : Keys]
  \cup [kind : {"answer"}, attempt : Attempts, from : {"controller"},
        outcome : Outcomes, slot : 0 .. MaxClients, gen : Gens]

Phones == [step : {"unused", "pairing", "proceeding", "enrolling", "answered",
                   "refused", "failed"},
           key : Keys \cup {"none"}, from : {"none", "controller"}, told : Tellings]

TypeOK ==
  /\ phone \in [Attempts -> Phones]
  /\ \A a \in Attempts :
       /\ phone[a].step # "unused" => phone[a].key \in Keys
       /\ phone[a].step \in {"proceeding", "enrolling"} => phone[a].from = "controller"
  /\ handshake \in [Attempts -> [step : {"none", "awaiting", "over"}, label : SUBSET Labels]]
  /\ wire \subseteq Messages
  /\ slots \in Tables
  /\ mark \in [Slots -> Gens]
  /\ window \in BOOLEAN /\ leaked \in BOOLEAN
  /\ writing \subseteq Writings
  /\ approvals \in 0 .. MaxApprovals /\ mishaps \in 0 .. MaxMishaps
  /\ issued \subseteq [slot : Slots, gen : Gens, key : Keys]

(* A slot holds one record and one slot is written at a time.              *)
OneRecord ==
  /\ \A s \in Slots : \A o, p \in slots[s].held : o = p
  /\ \A v, w \in writing : v = w
  /\ \A w \in writing : \A o, p \in w.held : o = p
  /\ \A w \in writing : w.stage = "record" => w.held # {}

(* A record on its way to a slot has a key no other slot holds.            *)
WritesApart ==
  \A w \in writing, s \in Slots : s # w.slot =>
    \A o \in slots[s].held, p \in w.held : o.key # p.key

(* An owner's record is overwritten by one for the same key only.          *)
OwnersOwnWrite ==
  \A w \in writing : w.stage \in {"mark", "free"} =>
    \A o \in slots[w.slot].held : o.role = "owner" =>
      \E p \in w.held : p.key = o.key

(* A slot's mark is at or past every generation it was issued under, and   *)
(* past all of them once a write has raised it (P-239).                    *)
GenerationsFresh ==
  /\ \A e \in issued : e.gen <= mark[e.slot]
  /\ \A w \in writing : w.stage # "mark" =>
       \A e \in issued : e.slot = w.slot => e.gen < mark[w.slot]
  /\ \A e, f \in issued : e.slot = f.slot /\ e.gen = f.gen => e = f

(* Message 3, the write it starts and the answer that names its slot are   *)
(* about the key of the phone whose attempt it is.                         *)
Bound(a, key) == phone[a].step # "unused" /\ phone[a].key = key

KeysBound ==
  /\ \A m \in wire : m.kind = "message3" => Bound(m.attempt, m.key)
  /\ \A w \in writing : w.attempt # 0 => \A o \in w.held : Bound(w.attempt, o.key)
  /\ \A m \in wire : m.kind = "answer" /\ m.slot # 0 =>
       \E e \in issued : /\ e.slot = m.slot /\ e.gen = m.gen
                         /\ Bound(m.attempt, e.key)

TableInv == OneRecord /\ OneKeyOneSlot /\ WritesApart /\ OwnersOwnWrite
              /\ GenerationsFresh
TellInv  == KeysBound /\ ToldTrue
IInv     == TypeOK /\ TableInv /\ TellInv
-----------------------------------------------------------------------------
(* A set of numbers that is not empty has a least one, so Lowest picks a   *)
(* member.                                                                 *)
LEMMA LeastMember ==
  ASSUME NEW T \in SUBSET Nat, T # {}
  PROVE  \E m \in T : \A n \in T : m <= n
<1>1. PICK m \in T : \A n \in T : <<n, m>> \notin OpToRel(<, Nat)
  BY NatLessThanWellFounded, WFMin
<1>2. \A n \in T : ~(n < m)
  BY <1>1 DEF OpToRel
<1>3. QED BY <1>2

LEMMA LowestMember ==
  ASSUME NEW S \in SUBSET Slots, S # {}
  PROVE  Lowest(S) \in S
<1>1. S \in SUBSET Nat
  BY DEF Slots
<1>2. \E m \in S : \A n \in S : m <= n
  BY <1>1, LeastMember
<1>3. QED BY <1>2 DEF Lowest

(* What P-240 chooses for a key: the key's own slot, or a free one or an   *)
(* admin's when the key is in none.                                        *)
PlaceFor(table, key, place) ==
  /\ place.slot \in Slots /\ place.role \in RoleSet
  /\ \/ \E o \in table[place.slot].held : o.key = key
     \/ /\ \/ table[place.slot].held = {}
           \/ \E o \in table[place.slot].held : o.role = "admin"
        /\ \A s \in Slots : \A o \in table[s].held : o.key # key

LEMMA ChooseFacts ==
  ASSUME NEW table \in Tables, NEW key \in Keys, NEW label,
         Choose(table, {key}, label).how # "Full"
  PROVE  PlaceFor(table, key, Choose(table, {key}, label))
<1> USE DEF PlaceFor
<1> DEFINE same  == {s \in Slots : \E o \in table[s].held : o.key = key}
           owned == Holding(table, "owner") # {}
           room  == ~owned \/ Cardinality(Holding(table, "admin")) < MaxAdmins
           alike == {s \in Holding(table, "admin") :
                       \E o \in table[s].held : o.label = label}
           place == Choose(table, {key}, label)
<1>1. DOMAIN table = Slots /\ \A s \in Slots : table[s].held \in SUBSET Records
  BY DEF Tables
<1>2. place = IF same # {}
              THEN Place("SameKey", Lowest(same),
                         (CHOOSE o \in table[Lowest(same)].held : TRUE).role)
              ELSE IF room /\ FreeSlots(table) # {}
              THEN Place("Free", Lowest(FreeSlots(table)),
                         IF owned THEN "admin" ELSE "owner")
              ELSE IF alike # {} THEN Place("Reclaim", Lowest(alike), "admin")
              ELSE Place("Full", 0, "none")
  <2> DEFINE bearers == {s \in DOMAIN table : \E o \in table[s].held : o.key \in {key}}
  <2>1. place = IF bearers # {}
                THEN Place("SameKey", Lowest(bearers),
                           (CHOOSE o \in table[Lowest(bearers)].held : TRUE).role)
                ELSE IF room /\ FreeSlots(table) # {}
                THEN Place("Free", Lowest(FreeSlots(table)),
                           IF owned THEN "admin" ELSE "owner")
                ELSE IF alike # {} THEN Place("Reclaim", Lowest(alike), "admin")
                ELSE Place("Full", 0, "none")
    BY Zenon DEF Choose
  <2>2. same = bearers
    BY <1>1
  <2> HIDE DEF same, bearers, owned, room, alike, place
  <2>3. QED BY <2>1, <2>2
<1>3. /\ same \in SUBSET Slots /\ FreeSlots(table) \in SUBSET Slots
      /\ alike \in SUBSET Slots
  BY <1>1 DEF FreeSlots, Holding
<1>4. CASE same # {}
  <2>1. Lowest(same) \in same
    BY <1>3, <1>4, LowestMember
  <2>2. (CHOOSE o \in table[Lowest(same)].held : TRUE) \in Records
    BY <1>1, <2>1
  <2>3. /\ place.how = "SameKey" /\ place.slot = Lowest(same)
        /\ place.role = (CHOOSE o \in table[Lowest(same)].held : TRUE).role
    <3>1. place = Place("SameKey", Lowest(same),
                        (CHOOSE o \in table[Lowest(same)].held : TRUE).role)
      BY <1>2, <1>4
    <3> HIDE DEF place
    <3>2. QED BY <3>1 DEF Place
  <2>4. place.role \in RoleSet
    BY <2>2, <2>3 DEF Records
  <2> HIDE DEF place
  <2>5. QED BY <2>1, <2>3, <2>4 DEF place
<1>5. CASE same = {} /\ room /\ FreeSlots(table) # {}
  <2>1. Lowest(FreeSlots(table)) \in FreeSlots(table)
    BY <1>3, <1>5, LowestMember
  <2>2. /\ place.how = "Free" /\ place.slot = Lowest(FreeSlots(table))
        /\ place.role \in {"admin", "owner"}
    <3> HIDE DEF same, owned, room, alike, place
    <3>1. place = Place("Free", Lowest(FreeSlots(table)),
                        IF owned THEN "admin" ELSE "owner")
      BY <1>2, <1>5
    <3>2. (IF owned THEN "admin" ELSE "owner") \in {"admin", "owner"}
      OBVIOUS
    <3>3. QED BY <3>1, <3>2 DEF Place
  <2>3. \A s \in Slots : \A o \in table[s].held : o.key # key
    BY <1>5
  <2> HIDE DEF place, same
  <2>4. QED BY <1>1, <2>1, <2>2, <2>3 DEF place, FreeSlots, RoleSet
<1>6. CASE same = {} /\ ~(room /\ FreeSlots(table) # {}) /\ alike # {}
  <2>1. Lowest(alike) \in alike
    BY <1>3, <1>6, LowestMember
  <2>2. place.how = "Reclaim" /\ place.slot = Lowest(alike) /\ place.role = "admin"
    <3> HIDE DEF same, owned, room, alike, place
    <3>1. place = Place("Reclaim", Lowest(alike), "admin")
      BY <1>2, <1>6
    <3>2. QED BY <3>1 DEF Place
  <2>3. \A s \in Slots : \A o \in table[s].held : o.key # key
    BY <1>6
  <2>4. \E o \in table[Lowest(alike)].held : o.role = "admin"
    BY <2>1 DEF Holding
  <2> HIDE DEF place, same
  <2>5. QED BY <1>1, <2>1, <2>2, <2>3, <2>4 DEF place, Holding, RoleSet
<1>7. CASE same = {} /\ ~(room /\ FreeSlots(table) # {}) /\ alike = {}
  BY <1>2, <1>7 DEF Place
<1>8. QED BY <1>4, <1>5, <1>6, <1>7

LEMMA InitIInv == Init => IInv
<1> SUFFICES ASSUME Init PROVE IInv
  OBVIOUS
<1> USE RowsAssumption, BoundsAssumption DEF Init
<1>1. TypeOK
  <2>1. Nothing \in Tellings
    BY DEF Nothing, Tellings, Outcomes, Gens
  <2>2. phone \in [Attempts -> Phones]
    BY <2>1 DEF Phones
  <2>3. slots \in Tables /\ mark \in [Slots -> Gens]
    BY DEF Tables, Gens
  <2>4. handshake \in [Attempts -> [step : {"none", "awaiting", "over"},
                                   label : SUBSET Labels]]
    OBVIOUS
  <2>5. \A a \in Attempts : phone[a].step = "unused"
    OBVIOUS
  <2>6. approvals \in 0 .. MaxApprovals /\ mishaps \in 0 .. MaxMishaps
    OBVIOUS
  <2>7. QED BY <2>2, <2>3, <2>4, <2>5, <2>6 DEF TypeOK
<1>2. TableInv
  BY DEF TableInv, OneRecord, OneKeyOneSlot, WritesApart, OwnersOwnWrite,
         GenerationsFresh
<1>3. TellInv
  BY DEF TellInv, KeysBound, ToldTrue, Nothing
<1>4. QED BY <1>1, <1>2, <1>3 DEF IInv

(* A step that touches neither the slots nor their writing keeps what is   *)
(* true of them.                                                           *)
LEMMA TableKept ==
  ASSUME IInv, UNCHANGED <<slots, mark, writing, issued>>
  PROVE  TableInv'
BY DEF IInv, TableInv, OneRecord, OneKeyOneSlot, WritesApart, OwnersOwnWrite,
       GenerationsFresh

(* What is bound to a phone's key stays bound, as long as what is new on   *)
(* the wire and in the write under way is.                                 *)
LEMMA KeysBoundKept ==
  ASSUME IInv, issued \subseteq issued',
         \A a \in Attempts, key \in Keys : Bound(a, key) => Bound(a, key)',
         \A m \in wire' \ wire :
           /\ m.kind = "message3" => Bound(m.attempt, m.key)'
           /\ m.kind = "answer" /\ m.slot # 0 =>
                \E e \in issued' : /\ e.slot = m.slot /\ e.gen = m.gen
                                   /\ Bound(m.attempt, e.key)',
         \A w \in writing' : w.attempt # 0 =>
           \A o \in w.held : Bound(w.attempt, o.key)'
  PROVE  KeysBound'
<1>1. \A m \in wire' : m.kind = "message3" => Bound(m.attempt, m.key)'
  <2>1. \A m \in wire : m.kind = "message3" => m.attempt \in Attempts /\ m.key \in Keys
    BY DEF IInv, TypeOK, Messages
  <2>2. QED BY <2>1 DEF IInv, TellInv, KeysBound
<1>2. ASSUME NEW m \in wire', m.kind = "answer", m.slot # 0
      PROVE  \E e \in issued' : /\ e.slot = m.slot /\ e.gen = m.gen
                                /\ Bound(m.attempt, e.key)'
  <2>1. CASE m \in wire
    <3>1. PICK e \in issued : /\ e.slot = m.slot /\ e.gen = m.gen
                              /\ Bound(m.attempt, e.key)
      BY <1>2, <2>1 DEF IInv, TellInv, KeysBound
    <3>2. m.attempt \in Attempts /\ e.key \in Keys
      BY <1>2, <2>1 DEF IInv, TypeOK, Messages
    <3>3. QED BY <3>1, <3>2
  <2>2. QED BY <1>2, <2>1
<1>3. QED BY <1>1, <1>2 DEF KeysBound

(* What phones were told stays true while nothing is said to them and no   *)
(* slot is issued.                                                         *)
LEMMA ToldKept ==
  ASSUME IInv, UNCHANGED <<phone, issued, leaked>>, wire \subseteq wire'
  PROVE  ToldTrue'
BY DEF IInv, TellInv, ToldTrue

LEMMA BoundUnchanged ==
  ASSUME UNCHANGED phone
  PROVE  \A a, key : Bound(a, key)' <=> Bound(a, key)
BY DEF Bound

(* ToldTrue, of one phone.                                                 *)
Told(a) ==
  LET told == phone[a].told IN
  /\ told.slot # 0 =>
       /\ \E e \in issued : e.slot = told.slot /\ e.gen = told.gen
       /\ \A e \in issued : e.slot = told.slot /\ e.gen = told.gen
                              => e.key = phone[a].key
  /\ phone[a].step = "refused" /\ ~leaked
       => Refused(a, told.outcome, TRUE) \in wire

(* A phone that keeps what it was told is told no less truly.              *)
LEMMA ToldStill ==
  ASSUME NEW b, Told(b), phone'[b] = phone[b], issued' = issued, leaked' = leaked,
         wire \subseteq wire'
  PROVE  Told(b)'
<1> DEFINE was == phone[b]
           now == phone'[b]
<1>1. now = was
  OBVIOUS
<1>2. was.told.slot # 0 =>
        /\ \E e \in issued : e.slot = was.told.slot /\ e.gen = was.told.gen
        /\ \A e \in issued : e.slot = was.told.slot /\ e.gen = was.told.gen
                               => e.key = was.key
  BY DEF Told
<1>3. was.step = "refused" /\ ~leaked => Refused(b, was.told.outcome, TRUE) \in wire
  BY DEF Told
<1>4. ~leaked' => ~leaked
  OBVIOUS
<1> HIDE DEF was
<1>5. now.told.slot # 0 =>
        /\ \E e \in issued' : e.slot = now.told.slot /\ e.gen = now.told.gen
        /\ \A e \in issued' : e.slot = now.told.slot /\ e.gen = now.told.gen
                               => e.key = now.key
  <2> HIDE DEF now
  <2>1. QED BY <1>1, <1>2
<1>6. now.step = "refused" /\ ~leaked' => Refused(b, now.told.outcome, TRUE) \in wire'
  <2> HIDE DEF now
  <2>1. QED BY <1>1, <1>3, <1>4
<1>7. QED BY <1>5, <1>6 DEF Told

LEMMA ToldEach ==
  /\ ToldTrue <=> \A a \in Attempts : Told(a)
  /\ ToldTrue' <=> \A a \in Attempts : Told(a)'
BY DEF ToldTrue, Told

-----------------------------------------------------------------------------
(* The phone's steps.                                                      *)
LEMMA StartStep ==
  ASSUME IInv, NEW a \in Attempts, NEW key \in Keys, NEW label \in Labels,
         Start(a, key, label)
  PROVE  IInv'
<1> DEFINE new == [step |-> "pairing", key |-> key, from |-> "none", told |-> Nothing]
<1>1. /\ phone[a].step = "unused"
      /\ phone' = [phone EXCEPT ![a] = new]
      /\ wire' = wire \cup {Message1(a, label)}
      /\ UNCHANGED <<handshake, slots, mark, writing, issued, window, leaked,
                     approvals, mishaps>>
  BY DEF Start, tableVars, bounds
<1>2. Message1(a, label) \in Messages /\ Message1(a, label).kind = "message1"
  BY DEF Message1, Messages
<1>3. new \in Phones
  BY BoundsAssumption, RowsAssumption DEF Phones, Nothing, Tellings, Outcomes, Gens
<1>4. /\ phone' \in [Attempts -> Phones] /\ phone'[a] = new
      /\ \A b \in Attempts : b # a => phone'[b] = phone[b]
  BY <1>1, <1>3 DEF IInv, TypeOK
<1>5. TypeOK'
  BY <1>1, <1>2, <1>4 DEF IInv, TypeOK
<1>6. TableInv'
  BY <1>1, TableKept
<1>7. \A b \in Attempts, k \in Keys : Bound(b, k) => Bound(b, k)'
  BY <1>1, <1>4 DEF Bound
<1>8. KeysBound'
  <2>1. \A w \in writing' : w.attempt # 0 => \A o \in w.held : Bound(w.attempt, o.key)'
    <3>1. \A w \in writing : /\ w.attempt # 0 => w.attempt \in Attempts
                             /\ \A o \in w.held : o.key \in Keys
      BY BoundsAssumption DEF IInv, TypeOK, Writings, Records, Attempts
    <3>2. QED BY <1>1, <1>7, <3>1 DEF IInv, TellInv, KeysBound
  <2>2. QED BY <1>1, <1>2, <1>7, <2>1, KeysBoundKept
<1>9. ToldTrue'
  <2>1. ASSUME NEW b \in Attempts, b # a PROVE Told(b)'
    <3>1. Told(b)
      BY ToldEach DEF IInv, TellInv
    <3>2. /\ phone'[b] = phone[b] /\ issued' = issued /\ leaked' = leaked
          /\ wire \subseteq wire'
      BY <1>1, <1>4, <2>1
    <3>3. QED BY <3>1, <3>2, ToldStill
  <2>2. new.told.slot = 0 /\ new.step # "refused"
    BY DEF Nothing
  <2>3. Told(a)'
    BY <1>4, <2>2 DEF Told
  <2>4. \A b \in Attempts : Told(b)'
    BY <2>1, <2>3
  <2>5. QED BY <2>4, ToldEach
<1>10. QED BY <1>5, <1>6, <1>8, <1>9 DEF IInv, TellInv

(* A phone's other steps keep its key: what was bound to it stays bound,   *)
(* and only what the phone itself is told has to be looked at.             *)
LEMMA PhoneStep ==
  ASSUME IInv, NEW a \in Attempts, NEW next \in Phones,
         phone[a].step # "unused", next.step # "unused", next.key = phone[a].key,
         phone' = [phone EXCEPT ![a] = next],
         next.step \in {"proceeding", "enrolling"} => next.from = "controller",
         UNCHANGED <<handshake, slots, mark, writing, issued, window, leaked,
                     approvals, mishaps>>,
         \/ wire' = wire
         \/ /\ next.from = "controller"
            /\ wire' = wire \cup {Message3(a, "controller", next.key)},
         next.told.slot # 0 =>
           \E e \in issued : /\ e.slot = next.told.slot /\ e.gen = next.told.gen
                             /\ e.key = next.key,
         next.step = "refused" /\ ~leaked =>
           Refused(a, next.told.outcome, TRUE) \in wire
  PROVE  IInv'
<1>1. /\ phone' \in [Attempts -> Phones] /\ phone'[a] = next
      /\ \A b \in Attempts : b # a => phone'[b] = phone[b]
  BY DEF IInv, TypeOK
<1>2. next.key \in Keys
  BY DEF IInv, TypeOK
<1> DEFINE m3 == Message3(a, "controller", next.key)
<1>3. /\ m3 \in Messages /\ m3.kind = "message3" /\ m3.attempt = a
      /\ m3.key = next.key
  BY <1>2 DEF Message3, Messages
<1> HIDE DEF m3
<1>4. wire' \subseteq wire \cup {m3} /\ wire \subseteq wire'
  BY DEF m3
<1>5. TypeOK'
  BY <1>1, <1>2, <1>3, <1>4 DEF IInv, TypeOK
<1>6. TableInv'
  BY TableKept
<1>7. \A b \in Attempts, k \in Keys : Bound(b, k) => Bound(b, k)'
  BY <1>1 DEF Bound
<1>8. Bound(a, next.key)'
  BY <1>1 DEF Bound
<1>9. KeysBound'
  <2>1. \A w \in writing' : w.attempt # 0 => \A o \in w.held : Bound(w.attempt, o.key)'
    <3>1. \A w \in writing : /\ w.attempt # 0 => w.attempt \in Attempts
                             /\ \A o \in w.held : o.key \in Keys
      BY BoundsAssumption DEF IInv, TypeOK, Writings, Records, Attempts
    <3>2. QED BY <1>7, <3>1 DEF IInv, TellInv, KeysBound
  <2>2. \A m \in wire' \ wire : m = m3
    BY <1>4
  <2>3. QED BY <1>3, <1>7, <1>8, <2>1, <2>2, KeysBoundKept
<1>10. ToldTrue'
  <2>1. ASSUME NEW b \in Attempts, b # a PROVE Told(b)'
    <3>1. Told(b)
      BY ToldEach DEF IInv, TellInv
    <3>2. /\ phone'[b] = phone[b] /\ issued' = issued /\ leaked' = leaked
          /\ wire \subseteq wire'
      BY <1>1, <1>4, <2>1
    <3>3. QED BY <3>1, <3>2, ToldStill
  <2>2. Told(a)'
    <3>1. \A e, f \in issued : e.slot = f.slot /\ e.gen = f.gen => e = f
      BY DEF IInv, TableInv, GenerationsFresh
    <3>2. issued' = issued /\ leaked' = leaked
      OBVIOUS
    <3>3. next.told.slot # 0 =>
            /\ \E e \in issued' : e.slot = next.told.slot /\ e.gen = next.told.gen
            /\ \A e \in issued' : e.slot = next.told.slot /\ e.gen = next.told.gen
                                   => e.key = next.key
      <4>1. SUFFICES ASSUME next.told.slot # 0
                     PROVE  /\ \E e \in issued : e.slot = next.told.slot /\ e.gen = next.told.gen
                            /\ \A e \in issued : e.slot = next.told.slot /\ e.gen = next.told.gen
                                                  => e.key = next.key
        BY <3>2
      <4>2. PICK e \in issued : /\ e.slot = next.told.slot /\ e.gen = next.told.gen
                                /\ e.key = next.key
        BY <4>1
      <4>3. ASSUME NEW f \in issued, f.slot = next.told.slot, f.gen = next.told.gen
            PROVE  f.key = next.key
        <5>1. f = e
          BY <3>1, <4>2, <4>3, Zenon
        <5>2. QED BY <4>2, <5>1
      <4>4. QED BY <4>2, <4>3, Zenon
    <3>4. next.step = "refused" /\ ~leaked' =>
            Refused(a, next.told.outcome, TRUE) \in wire'
      <4>1. ~leaked' => ~leaked
        BY <3>2
      <4>2. QED BY <1>4, <4>1
    <3>5. QED BY <1>1, <3>3, <3>4 DEF Told
  <2>3. \A b \in Attempts : Told(b)'
    BY <2>1, <2>2
  <2>4. QED BY <2>3, ToldEach
<1>11. QED BY <1>5, <1>6, <1>9, <1>10 DEF IInv, TellInv

(* What a phone was told before names an enrolment of its key.             *)
LEMMA OldTold ==
  ASSUME IInv, NEW a \in Attempts, phone[a].told.slot # 0
  PROVE  \E e \in issued : /\ e.slot = phone[a].told.slot
                           /\ e.gen = phone[a].told.gen /\ e.key = phone[a].key
BY DEF IInv, TellInv, ToldTrue

(* A refusal that may arrive is the controller's own, or untagged, or a    *)
(* label holder's.                                                         *)
LEMMA RefusalShape ==
  ASSUME IInv, NEW a \in Attempts, NEW m \in Replies(a), m.kind # "message2"
  PROVE  /\ m.outcome \in Refusals
         /\ \/ m.tagged = FALSE
            \/ m.tagged = TRUE /\ (leaked \/ Refused(a, m.outcome, TRUE) \in wire)
<1>1. CASE m \in wire /\ m.kind = "refusal" /\ m.attempt = a
  <2>1. m \in [kind : {"refusal"}, attempt : Attempts, outcome : Refusals, tagged : {TRUE}]
    BY <1>1 DEF IInv, TypeOK, Messages
  <2>2. m = Refused(a, m.outcome, TRUE)
    BY <1>1, <2>1 DEF Refused
  <2>3. QED BY <1>1, <2>1, <2>2
<1>2. CASE m \in {Refused(a, r, FALSE) : r \in Refusals}
  BY <1>2 DEF Refused
<1>3. CASE leaked /\ m \in {Refused(a, r, TRUE) : r \in Refusals}
  BY <1>3 DEF Refused
<1>4. CASE m = Message2(a, "impostor")
  BY <1>4 DEF Message2
<1>5. QED BY <1>1, <1>2, <1>3, <1>4 DEF Replies

LEMMA ReadReplyStep ==
  ASSUME IInv, NEW a \in Attempts, ReadReply(a)
  PROVE  IInv'
<1>1. /\ phone[a].step = "pairing" /\ phone[a] \in Phones
      /\ phone \in [Attempts -> Phones]
  BY DEF ReadReply, IInv, TypeOK
<1>2. UNCHANGED <<handshake, wire, slots, mark, writing, issued, window, leaked,
                  approvals, mishaps>>
  BY DEF ReadReply, tableVars, bounds
<1>3. PICK m \in Replies(a) : phone' = [phone EXCEPT
         ![a] = IF ReplyChecked(m) = "Proceed"
                THEN [phone[a] EXCEPT !.step = "proceeding", !.from = m.from]
                ELSE IF ReplyChecked(m) \in Refusals
                THEN [phone[a] EXCEPT !.step = "refused",
                                      !.told.outcome = ReplyChecked(m)]
                ELSE [phone[a] EXCEPT !.step = "failed"]]
  BY DEF ReadReply
<1>4. CASE ReplyChecked(m) = "Proceed"
  <2>1. m.from = "controller"
    <3>1. m.kind # "message2" => m.outcome \in Refusals
      BY RefusalShape
    <3>2. QED BY <1>4, <3>1 DEF ReplyChecked, Refusals
  <2> DEFINE next == [phone[a] EXCEPT !.step = "proceeding", !.from = m.from]
  <2>2. /\ next \in Phones /\ next.step = "proceeding" /\ next.from = "controller"
        /\ next.key = phone[a].key /\ next.told = phone[a].told
    BY <1>1, <2>1 DEF Phones
  <2>3. phone' = [phone EXCEPT ![a] = next]
    BY <1>3, <1>4
  <2> HIDE DEF next
  <2>4. QED BY <1>1, <1>2, <2>2, <2>3, OldTold, PhoneStep
<1>5. CASE ReplyChecked(m) \in Refusals
  <2>1. /\ m.kind # "message2" /\ m.tagged = TRUE /\ ReplyChecked(m) = m.outcome
    <3>1. m.kind # "message2"
      BY <1>5 DEF ReplyChecked, Refusals
    <3>2. m.tagged = TRUE \/ m.tagged = FALSE
      BY <3>1, RefusalShape
    <3>3. QED BY <1>5, <3>1, <3>2 DEF ReplyChecked, Refusals
  <2>2. ~leaked => Refused(a, ReplyChecked(m), TRUE) \in wire
    BY <2>1, RefusalShape
  <2> DEFINE next == [phone[a] EXCEPT !.step = "refused",
                                      !.told.outcome = ReplyChecked(m)]
  <2>3. /\ next \in Phones /\ next.step = "refused"
        /\ next.key = phone[a].key /\ next.told.slot = phone[a].told.slot
        /\ next.told.gen = phone[a].told.gen
        /\ next.told.outcome = ReplyChecked(m)
    BY <1>1, <1>5 DEF Phones, Tellings, Outcomes
  <2>4. phone' = [phone EXCEPT ![a] = next]
    BY <1>3, <1>5 DEF Refusals
  <2> HIDE DEF next
  <2>5. QED BY <1>1, <1>2, <2>2, <2>3, <2>4, OldTold, PhoneStep
<1>6. CASE ReplyChecked(m) # "Proceed" /\ ReplyChecked(m) \notin Refusals
  <2> DEFINE next == [phone[a] EXCEPT !.step = "failed"]
  <2>1. /\ next \in Phones /\ next.step = "failed"
        /\ next.key = phone[a].key /\ next.told = phone[a].told
    BY <1>1 DEF Phones
  <2>2. phone' = [phone EXCEPT ![a] = next]
    BY <1>3, <1>6
  <2> HIDE DEF next
  <2>3. QED BY <1>1, <1>2, <2>1, <2>2, OldTold, PhoneStep
<1>7. QED BY <1>4, <1>5, <1>6

LEMMA FinishStep ==
  ASSUME IInv, NEW a \in Attempts, Finish(a)
  PROVE  IInv'
<1> DEFINE next == [phone[a] EXCEPT !.step = "enrolling"]
<1>1. /\ phone[a].step = "proceeding" /\ phone[a] \in Phones
      /\ phone[a].from = "controller"
  BY DEF Finish, IInv, TypeOK
<1>2. /\ next \in Phones /\ next.step = "enrolling" /\ next.from = "controller"
      /\ next.key = phone[a].key /\ next.told = phone[a].told
  BY <1>1 DEF Phones
<1>3. /\ phone' = [phone EXCEPT ![a] = next]
      /\ wire' = wire \cup {Message3(a, "controller", next.key)}
      /\ UNCHANGED <<handshake, slots, mark, writing, issued, window, leaked,
                     approvals, mishaps>>
  BY <1>1, <1>2 DEF Finish, tableVars, bounds, IInv, TypeOK
<1> HIDE DEF next
<1>4. QED BY <1>1, <1>2, <1>3, OldTold, PhoneStep

LEMMA ReadAnswerStep ==
  ASSUME IInv, NEW a \in Attempts, ReadAnswer(a)
  PROVE  IInv'
<1>1. /\ phone[a].step = "enrolling" /\ phone[a] \in Phones
      /\ phone[a].from = "controller"
  BY DEF ReadAnswer, IInv, TypeOK
<1>2. UNCHANGED <<handshake, wire, slots, mark, writing, issued, window, leaked,
                  approvals, mishaps>>
  BY DEF ReadAnswer, tableVars, bounds
<1>3. PICK m \in Answers(a) : phone' = [phone EXCEPT
         ![a] = IF m.attempt = a /\ m.from = phone[a].from
                THEN [phone[a] EXCEPT !.step = "answered",
                        !.told = [outcome |-> m.outcome, slot |-> m.slot, gen |-> m.gen]]
                ELSE [phone[a] EXCEPT !.step = "failed"]]
  BY DEF ReadAnswer
<1>4. CASE m.attempt = a /\ m.from = phone[a].from
  <2>1. m \in wire /\ m.kind = "answer"
    BY <1>1, <1>4 DEF Answers, Answered
  <2>2. m.outcome \in Outcomes /\ m.slot \in 0 .. MaxClients /\ m.gen \in Gens
    BY <2>1 DEF IInv, TypeOK, Messages
  <2>3. m.slot # 0 => \E e \in issued : /\ e.slot = m.slot /\ e.gen = m.gen
                                        /\ e.key = phone[a].key
    BY <1>4, <2>1 DEF IInv, TellInv, KeysBound, Bound
  <2> DEFINE next == [phone[a] EXCEPT !.step = "answered",
                        !.told = [outcome |-> m.outcome, slot |-> m.slot, gen |-> m.gen]]
  <2>4. /\ next \in Phones /\ next.step = "answered" /\ next.key = phone[a].key
        /\ next.told.slot = m.slot /\ next.told.gen = m.gen
    BY <1>1, <2>2 DEF Phones, Tellings
  <2>5. phone' = [phone EXCEPT ![a] = next]
    BY <1>3, <1>4
  <2> HIDE DEF next
  <2>6. QED BY <1>1, <1>2, <2>3, <2>4, <2>5, PhoneStep
<1>5. CASE ~(m.attempt = a /\ m.from = phone[a].from)
  <2> DEFINE next == [phone[a] EXCEPT !.step = "failed"]
  <2>1. /\ next \in Phones /\ next.step = "failed"
        /\ next.key = phone[a].key /\ next.told = phone[a].told
    BY <1>1 DEF Phones
  <2>2. phone' = [phone EXCEPT ![a] = next]
    BY <1>3, <1>5
  <2> HIDE DEF next
  <2>3. QED BY <1>1, <1>2, <2>1, <2>2, OldTold, PhoneStep
<1>6. QED BY <1>4, <1>5
-----------------------------------------------------------------------------
(* The controller's steps.                                                 *)

(* Nothing said names a slot, and nothing is issued: what phones were told *)
(* and what is bound to their keys stay true.                              *)
LEMMA TellingKept ==
  ASSUME IInv, UNCHANGED <<phone, issued, leaked>>, wire \subseteq wire',
         \A m \in wire' \ wire : /\ m.kind # "message3"
                                 /\ m.kind = "answer" => m.slot = 0,
         \A w \in writing' : w.attempt # 0 =>
           \A o \in w.held : Bound(w.attempt, o.key)
  PROVE  TellInv'
<1>1. \A a, key : Bound(a, key)' <=> Bound(a, key)
  BY BoundUnchanged
<1>2. ToldTrue'
  BY ToldKept
<1>3. KeysBound'
  BY <1>1, KeysBoundKept
<1>4. QED BY <1>2, <1>3 DEF TellInv

(* A write that ends without a record, or that never started.              *)
LEMMA NoWrite ==
  ASSUME IInv, UNCHANGED <<slots, mark, issued>>, writing' = {}
  PROVE  TableInv'
BY DEF IInv, TableInv, OneRecord, OneKeyOneSlot, WritesApart, OwnersOwnWrite,
       GenerationsFresh

(* A write may begin when its key is in no other slot and the slot is not  *)
(* another key's owner's.                                                  *)
LEMMA BeginWrite ==
  ASSUME IInv, UNCHANGED <<slots, mark, issued>>,
         NEW w \in Writings, writing' = {w}, w.stage = "mark",
         \A o, p \in w.held : o = p,
         \A s \in Slots : s # w.slot =>
           \A o \in slots[s].held, p \in w.held : o.key # p.key,
         \A o \in slots[w.slot].held : o.role = "owner" =>
           \E p \in w.held : p.key = o.key
  PROVE  TableInv'
<1>1. OneRecord'
  BY DEF IInv, TableInv, OneRecord
<1>2. OneKeyOneSlot'
  BY DEF IInv, TableInv, OneKeyOneSlot
<1>3. WritesApart' /\ OwnersOwnWrite'
  BY DEF WritesApart, OwnersOwnWrite
<1>4. GenerationsFresh'
  BY DEF IInv, TableInv, GenerationsFresh
<1>5. QED BY <1>1, <1>2, <1>3, <1>4 DEF TableInv

LEMMA PairArrivesStep ==
  ASSUME IInv, NEW a \in Attempts, PairArrives(a)
  PROVE  IInv'
<1>1. UNCHANGED <<phone, slots, mark, writing, issued, window, leaked,
                  approvals, mishaps>>
  BY DEF PairArrives, clientVars, tableVars, bounds
<1>2. PICK m \in wire :
        /\ m.kind = "message1"
        /\ \E refusal \in SUBSET Refusals :
             /\ wire' = wire \cup IF refusal = {} THEN {Message2(a, "controller")}
                                  ELSE {Refused(a, r, TRUE) : r \in refusal}
             /\ handshake' = [handshake EXCEPT
                  ![a] = [step |-> IF refusal = {} THEN "awaiting" ELSE "over",
                          label |-> {m.label}]]
  BY DEF PairArrives, Refusals
<1>3. PICK refusal \in SUBSET Refusals :
        /\ wire' = wire \cup IF refusal = {} THEN {Message2(a, "controller")}
                             ELSE {Refused(a, r, TRUE) : r \in refusal}
        /\ handshake' = [handshake EXCEPT
             ![a] = [step |-> IF refusal = {} THEN "awaiting" ELSE "over",
                     label |-> {m.label}]]
  BY <1>2
<1>4. m.label \in Labels
  BY <1>2 DEF IInv, TypeOK, Messages
<1>5. handshake' \in [Attempts -> [step : {"none", "awaiting", "over"},
                                   label : SUBSET Labels]]
  BY <1>3, <1>4 DEF IInv, TypeOK
<1>6. wire \subseteq wire' /\ \A n \in wire' \ wire :
        n \in Messages /\ n.kind \in {"message2", "refusal"}
  <2>1. CASE refusal = {}
    <3>1. \A n \in wire' \ wire : n = Message2(a, "controller")
      BY <1>3, <2>1
    <3>2. /\ Message2(a, "controller") \in Messages
          /\ Message2(a, "controller").kind = "message2"
      BY DEF Message2, Messages
    <3>3. QED BY <1>3, <3>1, <3>2
  <2>2. CASE refusal # {}
    <3>1. \A n \in wire' \ wire : \E r \in Refusals : n = Refused(a, r, TRUE)
      BY <1>3, <2>2
    <3>2. \A r \in Refusals : /\ Refused(a, r, TRUE) \in Messages
                              /\ Refused(a, r, TRUE).kind = "refusal"
      BY DEF Refused, Messages
    <3>3. QED BY <1>3, <3>1, <3>2
  <2>3. QED BY <2>1, <2>2
<1>7. TypeOK'
  BY <1>1, <1>5, <1>6 DEF IInv, TypeOK
<1>8. TableInv'
  BY <1>1, TableKept
<1>9. TellInv'
  <2>1. \A w \in writing' : w.attempt # 0 => \A o \in w.held : Bound(w.attempt, o.key)
    BY <1>1 DEF IInv, TellInv, KeysBound
  <2>2. \A n \in wire' \ wire : /\ n.kind # "message3"
                                /\ n.kind = "answer" => n.slot = 0
    BY <1>6
  <2>3. QED BY <1>1, <1>6, <2>1, <2>2, TellingKept
<1>10. QED BY <1>7, <1>8, <1>9 DEF IInv

LEMMA EnrolArrivesStep ==
  ASSUME IInv, NEW a \in Attempts, EnrolArrives(a)
  PROVE  IInv'
<1>1. /\ UNCHANGED <<phone, slots, mark, issued, window, leaked, approvals, mishaps>>
      /\ handshake' = [handshake EXCEPT ![a].step = "over"]
  BY DEF EnrolArrives, clientVars, bounds
<1>2. PICK m \in wire, label \in handshake[a].label :
        /\ m.kind = "message3" /\ m.attempt = a
        /\ LET place == Choose(slots, {m.key}, label)
               refusal == IF ~window THEN {"WindowClosed"}
                          ELSE IF place.how = "Full" THEN {"TableFull"} ELSE {}
           IN  /\ wire' = wire \cup {Answered(a, "controller", r, 0, 0) : r \in refusal}
               /\ writing' =
                    IF refusal # {} THEN {}
                    ELSE {[attempt |-> a, slot |-> place.slot, stage |-> "mark",
                           outcome |-> OutcomeOf(place),
                           held |-> {[key |-> m.key, label |-> label,
                                      role |-> place.role]}]}
  BY DEF EnrolArrives
<1> DEFINE place == Choose(slots, {m.key}, label)
           record == [key |-> m.key, label |-> label, role |-> place.role]
           new == [attempt |-> a, slot |-> place.slot, stage |-> "mark",
                   outcome |-> OutcomeOf(place), held |-> {record}]
<1>3. m.key \in Keys /\ label \in Labels
  BY <1>2 DEF IInv, TypeOK, Messages
<1>4. handshake' \in [Attempts -> [step : {"none", "awaiting", "over"},
                                   label : SUBSET Labels]]
  BY <1>1 DEF IInv, TypeOK
<1>5. CASE \E r \in Refusals : /\ wire' = wire \cup {Answered(a, "controller", r, 0, 0)}
                               /\ writing' = {}
  <2>1. PICK r \in Refusals : wire' = wire \cup {Answered(a, "controller", r, 0, 0)}
    BY <1>5
  <2> DEFINE n == Answered(a, "controller", r, 0, 0)
  <2>2. n \in Messages /\ n.kind = "answer" /\ n.slot = 0
    <3>1. r \in Outcomes /\ 0 \in 0 .. MaxClients /\ 0 \in Gens
      BY RowsAssumption, BoundsAssumption DEF Outcomes, Gens
    <3>2. n \in [kind : {"answer"}, attempt : Attempts, from : {"controller"},
                 outcome : Outcomes, slot : 0 .. MaxClients, gen : Gens]
      BY <3>1 DEF Answered
    <3>3. QED BY <3>2 DEF Answered, Messages
  <2> HIDE DEF n
  <2>3. TypeOK'
    BY <1>1, <1>4, <1>5, <2>1, <2>2 DEF IInv, TypeOK, n
  <2>4. TableInv'
    BY <1>1, <1>5, NoWrite
  <2>5. TellInv'
    BY <1>1, <1>5, <2>1, <2>2, TellingKept DEF n
  <2>6. QED BY <2>3, <2>4, <2>5 DEF IInv
<1>6. CASE wire' = wire /\ writing' = {new} /\ place.how # "Full"
  <2>1. PlaceFor(slots, m.key, place)
    <3>1. slots \in Tables
      BY DEF IInv, TypeOK
    <3>2. place.how # "Full"
      BY <1>6
    <3>3. QED BY <1>3, <3>1, <3>2, ChooseFacts
  <2>2. OutcomeOf(place) \in Outcomes
    BY DEF OutcomeOf, Outcomes
  <2>3. /\ new \in Writings /\ new.stage = "mark" /\ new.attempt = a
        /\ new.slot = place.slot
        /\ \A o \in new.held : o.key = m.key
        /\ \E o \in new.held : o.key = m.key
        /\ \A o, p \in new.held : o = p
    <3>1. a \in 0 .. MaxAttempts
      BY BoundsAssumption DEF Attempts
    <3> HIDE DEF place
    <3>2. record \in Records /\ record.key = m.key
      BY <1>3, <2>1 DEF Records, PlaceFor
    <3> HIDE DEF record
    <3>3. QED BY <2>1, <2>2, <3>1, <3>2 DEF Writings, PlaceFor
  <2> HIDE DEF place, record
  <2>4. writing' = {new}
    BY <1>6
  <2>5. \A s \in Slots : s # new.slot =>
          \A o \in slots[s].held, p \in new.held : o.key # p.key
    BY <2>1, <2>3 DEF IInv, TableInv, OneKeyOneSlot, PlaceFor
  <2>6. \A o \in slots[new.slot].held : o.role = "owner" =>
          \E p \in new.held : p.key = o.key
    BY <2>1, <2>3 DEF IInv, TableInv, OneRecord, PlaceFor
  <2> HIDE DEF new
  <2>7. TableInv'
    BY <1>1, <2>3, <2>4, <2>5, <2>6, BeginWrite
  <2>8. TypeOK'
    BY <1>1, <1>4, <1>6, <2>3, <2>4 DEF IInv, TypeOK
  <2>9. TellInv'
    <3>1. Bound(a, m.key)
      BY <1>2 DEF IInv, TellInv, KeysBound
    <3>2. \A v \in writing' : v.attempt # 0 => \A o \in v.held : Bound(v.attempt, o.key)
      BY <2>3, <2>4, <3>1
    <3>3. QED BY <1>1, <1>6, <3>2, TellingKept
  <2>10. QED BY <2>7, <2>8, <2>9 DEF IInv
<1>7. QED
  <2>1. CASE ~window
    BY <1>2, <1>5, <2>1 DEF Refusals
  <2>2. CASE window /\ place.how = "Full"
    BY <1>2, <1>5, <2>2 DEF Refusals
  <2>3. CASE window /\ place.how # "Full"
    <3>1. wire' = wire /\ writing' = {new}
      BY <1>2, <2>3
    <3>2. QED BY <1>6, <2>3, <3>1
  <2>4. QED BY <2>1, <2>2, <2>3

LEMMA EnrolGarbledStep ==
  ASSUME IInv, NEW a \in Attempts, EnrolGarbled(a)
  PROVE  IInv'
<1>1. /\ UNCHANGED <<phone, wire, slots, mark, writing, issued, window, leaked,
                     approvals, mishaps>>
      /\ handshake' = [handshake EXCEPT ![a].step = "over"]
  BY DEF EnrolGarbled, clientVars, tableVars, bounds
<1>2. TypeOK'
  BY <1>1 DEF IInv, TypeOK
<1>3. TableInv'
  BY <1>1, TableKept
<1>4. TellInv'
  <2>1. \A w \in writing' : w.attempt # 0 => \A o \in w.held : Bound(w.attempt, o.key)
    BY <1>1 DEF IInv, TellInv, KeysBound
  <2>2. QED BY <1>1, <2>1, TellingKept
<1>5. QED BY <1>2, <1>3, <1>4 DEF IInv

(* The button, the window's end and the loss of power.                     *)
LEMMA WindowStep ==
  ASSUME IInv, Button \/ Timeout \/ Reset
  PROVE  IInv'
<1>1. /\ UNCHANGED <<phone, wire, slots, mark, issued, leaked>>
      /\ writing' = writing \/ writing' = {}
  BY DEF Button, Timeout, Reset, clientVars, tableVars
<1>2. TypeOK'
  <2>1. CASE Button \/ Timeout
    BY <1>1, <2>1 DEF Button, Timeout, tableVars, bounds, IInv, TypeOK
  <2>2. CASE Reset
    <3>1. mishaps' \in 0 .. MaxMishaps /\ approvals' \in 0 .. MaxApprovals
      BY <2>2, BoundsAssumption DEF Reset, IInv, TypeOK
    <3>2. handshake' \in [Attempts -> [step : {"none", "awaiting", "over"},
                                       label : SUBSET Labels]]
      BY <2>2 DEF Reset, IInv, TypeOK
    <3>3. window' \in BOOLEAN
      BY <2>2 DEF Reset
    <3>4. QED BY <1>1, <3>1, <3>2, <3>3 DEF IInv, TypeOK
  <2>3. QED BY <2>1, <2>2
<1>3. TableInv'
  BY <1>1, TableKept, NoWrite
<1>4. TellInv'
  <2>1. \A w \in writing' : w.attempt # 0 => \A o \in w.held : Bound(w.attempt, o.key)
    BY <1>1 DEF IInv, TellInv, KeysBound
  <2>2. QED BY <1>1, <2>1, TellingKept
<1>5. QED BY <1>2, <1>3, <1>4 DEF IInv

(* An answer to a pairing names what it is given.                          *)
LEMMA SayFacts ==
  ASSUME NEW w \in Writings, NEW outcome \in Outcomes,
         NEW slot \in 0 .. MaxClients, NEW gen \in Gens,
         NEW n \in Say(w, outcome, slot, gen)
  PROVE  /\ n \in Messages /\ n.kind = "answer" /\ n.slot = slot /\ n.gen = gen
         /\ n.attempt = w.attempt /\ w.attempt # 0
<1>1. w.attempt # 0 /\ n = Answered(w.attempt, "controller", outcome, slot, gen)
  BY DEF Say
<1>2. w.attempt \in Attempts
  BY <1>1, BoundsAssumption DEF Writings, Attempts
<1>3. n \in [kind : {"answer"}, attempt : Attempts, from : {"controller"},
             outcome : Outcomes, slot : 0 .. MaxClients, gen : Gens]
  BY <1>1, <1>2 DEF Answered
<1>4. QED BY <1>1, <1>3 DEF Answered, Messages

LEMMA ApproveStep ==
  ASSUME IInv, NEW key \in Keys, NEW label \in Labels, NEW role \in RoleSet,
         Approve(key, label, role)
  PROVE  IInv'
<1>1. /\ UNCHANGED <<phone, handshake, wire, slots, mark, issued, window, leaked,
                     mishaps>>
      /\ approvals' = approvals + 1 /\ approvals < MaxApprovals
      /\ FreeSlots(slots) # {}
      /\ \A s \in Slots : \A o \in slots[s].held : o.key # key
  BY DEF Approve, MayTake, clientVars
<1> DEFINE record == [key |-> key, label |-> label, role |-> role]
           w == [attempt |-> 0, slot |-> Lowest(FreeSlots(slots)),
                 stage |-> "mark", outcome |-> "Enrolled", held |-> {record}]
<1>2. writing' = {w}
  BY DEF Approve
<1>3. Lowest(FreeSlots(slots)) \in Slots /\ slots[Lowest(FreeSlots(slots))].held = {}
  <2>1. \A s \in FreeSlots(slots) : s \in Slots /\ slots[s].held = {}
    BY DEF IInv, TypeOK, Tables, FreeSlots
  <2>2. Lowest(FreeSlots(slots)) \in FreeSlots(slots)
    BY <1>1, <2>1, LowestMember
  <2>3. QED BY <2>1, <2>2
<1>4. /\ w \in Writings /\ w.stage = "mark" /\ w.attempt = 0
      /\ slots[w.slot].held = {}
      /\ \A o \in w.held : o.key = key
      /\ \A o, p \in w.held : o = p
  <2>1. record \in Records /\ record.key = key
    BY DEF Records
  <2> HIDE DEF record
  <2>2. 0 \in 0 .. MaxAttempts
    BY BoundsAssumption
  <2>3. QED BY <1>3, <2>1, <2>2 DEF Writings, Outcomes
<1> HIDE DEF w
<1>5. TypeOK'
  BY <1>1, <1>2, <1>4, BoundsAssumption DEF IInv, TypeOK
<1>6. TableInv'
  BY <1>1, <1>2, <1>4, BeginWrite
<1>7. TellInv'
  BY <1>1, <1>2, <1>4, TellingKept
<1>8. QED BY <1>5, <1>6, <1>7 DEF IInv

LEMMA RemoveStep ==
  ASSUME IInv, NEW s \in Slots, Remove(s)
  PROVE  IInv'
<1> DEFINE w == [attempt |-> 0, slot |-> s, stage |-> "mark",
                 outcome |-> "Removed", held |-> {}]
<1>1. /\ UNCHANGED <<phone, handshake, wire, slots, mark, issued, window, leaked,
                     approvals>>
      /\ mishaps' = mishaps + 1 /\ mishaps < MaxMishaps
      /\ writing' = {w}
      /\ \E o \in slots[s].held : o.role \in {"admin", "viewer"}
  BY DEF Remove, clientVars
<1>2. /\ w \in Writings /\ w.stage = "mark" /\ w.attempt = 0 /\ w.held = {}
      /\ w.slot = s
  BY BoundsAssumption DEF Writings, Outcomes
<1> HIDE DEF w
<1>3. TypeOK'
  BY <1>1, <1>2, BoundsAssumption DEF IInv, TypeOK
<1>4. \A o \in slots[s].held : o.role # "owner"
  BY <1>1 DEF IInv, TableInv, OneRecord
<1>5. TableInv'
  BY <1>1, <1>2, <1>4, BeginWrite
<1>6. TellInv'
  BY <1>1, <1>2, TellingKept
<1>7. QED BY <1>3, <1>5, <1>6 DEF IInv

(* The one write under way, at its stage.                                  *)
LEMMA RaiseMarkStep ==
  ASSUME IInv, RaiseMark
  PROVE  IInv'
<1>1. UNCHANGED <<phone, handshake, wire, slots, issued, window, leaked, approvals,
                  mishaps>>
  BY DEF RaiseMark, clientVars, bounds
<1>2. PICK w \in writing :
        /\ w.stage = "mark"
        /\ \E g \in NextGeneration(mark[w.slot]) : mark' = [mark EXCEPT ![w.slot] = g]
        /\ writing' = {[w EXCEPT !.stage = "free"]}
  BY DEF RaiseMark
<1> DEFINE next == [w EXCEPT !.stage = "free"]
<1>3. /\ w \in Writings /\ w.slot \in Slots /\ mark \in [Slots -> Gens]
      /\ issued \subseteq [slot : Slots, gen : Gens, key : Keys]
  BY DEF IInv, TypeOK, Writings
<1>4. /\ next \in Writings /\ next.stage = "free" /\ next.slot = w.slot
      /\ next.held = w.held /\ next.attempt = w.attempt
  BY <1>3 DEF Writings
<1>5. /\ mark' \in [Slots -> Gens] /\ mark'[w.slot] = mark[w.slot] + 1
      /\ \A s \in Slots : s # w.slot => mark'[s] = mark[s]
  BY <1>2, <1>3, BoundsAssumption DEF NextGeneration, Gens
<1>6. writing' = {next}
  BY <1>2
<1> HIDE DEF next
<1>7. TypeOK'
  BY <1>1, <1>4, <1>5, <1>6 DEF IInv, TypeOK
<1>8. TableInv'
  <2>1. OneRecord'
    BY <1>1, <1>4, <1>6 DEF IInv, TableInv, OneRecord
  <2>2. OneKeyOneSlot' /\ WritesApart'
    BY <1>1, <1>4, <1>6 DEF IInv, TableInv, OneKeyOneSlot, WritesApart
  <2>3. OwnersOwnWrite'
    BY <1>1, <1>2, <1>4, <1>6 DEF IInv, TableInv, OwnersOwnWrite
  <2>4. GenerationsFresh'
    <3>1. \A e \in issued : e.slot \in Slots /\ e.gen \in Int
      BY <1>3 DEF Gens
    <3>2. \A s \in Slots : mark[s] \in Int
      BY <1>3 DEF Gens
    <3>3. \A e \in issued : /\ e.gen <= mark'[e.slot]
                            /\ e.slot = w.slot => e.gen < mark'[w.slot]
      BY <1>5, <3>1, <3>2 DEF IInv, TableInv, GenerationsFresh
    <3>4. QED BY <1>1, <1>4, <1>6, <3>3 DEF IInv, TableInv, GenerationsFresh
  <2>5. QED BY <2>1, <2>2, <2>3, <2>4 DEF TableInv
<1>9. TellInv'
  <2>1. \A v \in writing' : v.attempt # 0 => \A o \in v.held : Bound(v.attempt, o.key)
    BY <1>4, <1>6 DEF IInv, TellInv, KeysBound
  <2>2. QED BY <1>1, <2>1, TellingKept
<1>10. QED BY <1>7, <1>8, <1>9 DEF IInv

LEMMA FreeSlotStep ==
  ASSUME IInv, FreeSlot
  PROVE  IInv'
<1>1. UNCHANGED <<phone, handshake, wire, mark, issued, window, leaked, approvals,
                  mishaps>>
  BY DEF FreeSlot, clientVars, bounds
<1>2. PICK w \in writing :
        /\ w.stage = "free"
        /\ slots' = [slots EXCEPT ![w.slot] = [gen |-> mark[w.slot], held |-> {}]]
        /\ writing' = IF w.held = {} THEN {} ELSE {[w EXCEPT !.stage = "record"]}
  BY DEF FreeSlot
<1> DEFINE next == [w EXCEPT !.stage = "record"]
<1>3. w \in Writings /\ w.slot \in Slots /\ mark[w.slot] \in Gens /\ slots \in Tables
  BY DEF IInv, TypeOK, Writings
<1>4. /\ next \in Writings /\ next.stage = "record" /\ next.slot = w.slot
      /\ next.held = w.held /\ next.attempt = w.attempt
  BY <1>3 DEF Writings
<1>5. /\ slots' \in Tables /\ slots'[w.slot].held = {}
      /\ \A s \in Slots : s # w.slot => slots'[s] = slots[s]
  BY <1>2, <1>3 DEF Tables
<1>6. \A v \in writing' : v = next /\ w.held # {}
  BY <1>2
<1> HIDE DEF next
<1>7. TypeOK'
  BY <1>1, <1>4, <1>5, <1>6 DEF IInv, TypeOK
<1>8. \A s \in Slots : slots'[s].held \subseteq slots[s].held
  BY <1>5
<1>9. TableInv'
  <2>1. OneRecord'
    BY <1>4, <1>6, <1>8 DEF IInv, TableInv, OneRecord
  <2>2. OneKeyOneSlot'
    BY <1>8 DEF IInv, TableInv, OneKeyOneSlot
  <2>3. WritesApart'
    BY <1>4, <1>6, <1>8 DEF IInv, TableInv, WritesApart
  <2>4. OwnersOwnWrite'
    BY <1>4, <1>6 DEF OwnersOwnWrite
  <2>5. GenerationsFresh'
    BY <1>1, <1>2, <1>4, <1>6 DEF IInv, TableInv, GenerationsFresh
  <2>6. QED BY <2>1, <2>2, <2>3, <2>4, <2>5 DEF TableInv
<1>10. TellInv'
  <2>1. \A v \in writing' : v.attempt # 0 => \A o \in v.held : Bound(v.attempt, o.key)
    BY <1>4, <1>6 DEF IInv, TellInv, KeysBound
  <2>2. QED BY <1>1, <2>1, TellingKept
<1>11. QED BY <1>7, <1>9, <1>10 DEF IInv

LEMMA NotStoredStep ==
  ASSUME IInv, NotStored
  PROVE  IInv'
<1>1. /\ UNCHANGED <<phone, handshake, slots, mark, window, leaked, approvals, issued>>
      /\ writing' = {}
  BY DEF NotStored, clientVars
<1>2. PICK w \in writing :
        /\ wire' = wire \cup Say(w, "NotStored", 0, 0)
        /\ mishaps' = mishaps \/ (mishaps < MaxMishaps /\ mishaps' = mishaps + 1)
  BY DEF NotStored
<1>3. /\ w \in Writings /\ "NotStored" \in Outcomes
      /\ 0 \in 0 .. MaxClients /\ 0 \in Gens
  BY RowsAssumption, BoundsAssumption DEF IInv, TypeOK, Outcomes, Gens
<1>4. \A n \in wire' \ wire : n \in Messages /\ n.kind = "answer" /\ n.slot = 0
  BY <1>2, <1>3, SayFacts
<1>5. TypeOK'
  <2>1. mishaps' \in 0 .. MaxMishaps
    BY <1>2, BoundsAssumption DEF IInv, TypeOK
  <2>2. wire' \subseteq Messages
    BY <1>4 DEF IInv, TypeOK
  <2>3. QED BY <1>1, <2>1, <2>2 DEF IInv, TypeOK
<1>6. TableInv'
  BY <1>1, NoWrite
<1>7. TellInv'
  BY <1>1, <1>2, <1>4, TellingKept
<1>8. QED BY <1>5, <1>6, <1>7 DEF IInv

(* The record is stored under a generation its slot never had before.      *)
LEMMA StoreRecordStep ==
  ASSUME IInv, StoreRecord
  PROVE  IInv'
<1>1. /\ UNCHANGED <<phone, handshake, mark, leaked, approvals, mishaps>>
      /\ writing' = {}
  BY DEF StoreRecord, clientVars, bounds
<1>2. PICK w \in writing :
        /\ w.stage = "record"
        /\ slots' = [slots EXCEPT ![w.slot].held = w.held]
        /\ issued' = issued \cup {[slot |-> w.slot, gen |-> mark[w.slot],
                                   key |-> o.key] : o \in w.held}
        /\ wire' = wire \cup Say(w, w.outcome, w.slot, mark[w.slot])
        /\ window' = (window /\ w.attempt = 0)
  BY DEF StoreRecord
<1> DEFINE gen == mark[w.slot]
<1>3. /\ w \in Writings /\ w.slot \in Slots /\ w.held \in SUBSET Records
      /\ w.outcome \in Outcomes /\ slots \in Tables
      /\ mark \in [Slots -> Gens] /\ gen \in Gens
      /\ issued \subseteq [slot : Slots, gen : Gens, key : Keys]
  BY DEF IInv, TypeOK, Writings
<1>4. /\ slots' \in Tables /\ slots'[w.slot].held = w.held
      /\ \A s \in Slots : s # w.slot => slots'[s] = slots[s]
  BY <1>2, <1>3 DEF Tables
<1>5. PICK r \in w.held : w.held = {r}
  BY <1>2 DEF IInv, TableInv, OneRecord
<1> DEFINE e0 == [slot |-> w.slot, gen |-> gen, key |-> r.key]
<1>6. issued' = issued \cup {e0}
  BY <1>2, <1>5
<1>7. /\ e0 \in [slot : Slots, gen : Gens, key : Keys]
      /\ e0.slot = w.slot /\ e0.gen = gen /\ e0.key = r.key
  BY <1>3, <1>5 DEF Records
<1>8. \A e \in issued : e.slot = w.slot => e.gen < gen /\ e.gen \in Int /\ gen \in Int
  BY <1>2, <1>3 DEF IInv, TableInv, GenerationsFresh, Gens
<1> HIDE DEF e0
<1>9. /\ wire \subseteq wire'
      /\ \A n \in wire' \ wire :
           /\ n \in Messages /\ n.kind = "answer" /\ n.slot = w.slot /\ n.gen = gen
           /\ n.attempt = w.attempt /\ w.attempt # 0
  <2>1. w.slot \in 0 .. MaxClients
    BY <1>3, RowsAssumption DEF Slots
  <2> HIDE DEF gen
  <2>2. QED BY <1>2, <1>3, <2>1, SayFacts DEF gen
<1>10. TypeOK'
  <2>1. window' \in BOOLEAN
    BY <1>2 DEF IInv, TypeOK
  <2>2. wire' \subseteq Messages
    BY <1>9 DEF IInv, TypeOK
  <2>3. issued' \subseteq [slot : Slots, gen : Gens, key : Keys]
    BY <1>3, <1>6, <1>7
  <2>4. QED BY <1>1, <1>4, <2>1, <2>2, <2>3 DEF IInv, TypeOK
<1>11. TableInv'
  <2>1. OneRecord'
    BY <1>1, <1>4, <1>5 DEF IInv, TableInv, OneRecord
  <2>2. OneKeyOneSlot'
    <3>1. ASSUME NEW s \in Slots, NEW t \in Slots, s # t,
                 NEW o \in slots'[s].held, NEW p \in slots'[t].held
          PROVE  o.key # p.key
      <4>1. CASE s # w.slot /\ t # w.slot
        BY <1>4, <3>1, <4>1 DEF IInv, TableInv, OneKeyOneSlot
      <4>2. CASE s = w.slot /\ t # w.slot
        BY <1>4, <3>1, <4>2 DEF IInv, TableInv, WritesApart
      <4>3. CASE s # w.slot /\ t = w.slot
        BY <1>4, <3>1, <4>3 DEF IInv, TableInv, WritesApart
      <4>4. QED BY <3>1, <4>1, <4>2, <4>3
    <3>2. QED BY <3>1 DEF OneKeyOneSlot
  <2>3. WritesApart' /\ OwnersOwnWrite'
    BY <1>1 DEF WritesApart, OwnersOwnWrite
  <2>4. GenerationsFresh'
    <3>1. \A e \in issued' : e.gen <= mark'[e.slot]
      BY <1>1, <1>3, <1>6, <1>7 DEF IInv, TableInv, GenerationsFresh, Gens
    <3>2. ASSUME NEW e \in issued', NEW f \in issued', e.slot = f.slot, e.gen = f.gen
          PROVE  e = f
      <4>1. CASE e \in issued /\ f \in issued
        BY <3>2, <4>1 DEF IInv, TableInv, GenerationsFresh
      <4>2. CASE e = e0 \/ f = e0
        BY <1>6, <1>7, <1>8, <3>2, <4>2
      <4>3. QED BY <1>6, <4>1, <4>2
    <3>3. QED BY <1>1, <3>1, <3>2 DEF GenerationsFresh
  <2>5. QED BY <2>1, <2>2, <2>3, <2>4 DEF TableInv
<1>12. KeysBound'
  <2>1. \A a, key : Bound(a, key)' <=> Bound(a, key)
    BY <1>1, BoundUnchanged
  <2>2. w.attempt # 0 => Bound(w.attempt, r.key)
    BY <1>5 DEF IInv, TellInv, KeysBound
  <2>3. \A n \in wire' \ wire :
          /\ n.kind # "message3"
          /\ \E e \in issued' : /\ e.slot = n.slot /\ e.gen = n.gen
                                /\ Bound(n.attempt, e.key)'
    BY <1>6, <1>7, <1>9, <2>1, <2>2
  <2>4. QED BY <1>1, <1>6, <2>1, <2>3, KeysBoundKept
<1>13. ToldTrue'
  <2>1. ASSUME NEW a \in Attempts PROVE Told(a)'
    <3> DEFINE told == phone[a].told
    <3>1. Told(a)
      BY ToldEach DEF IInv, TellInv
    <3>2. told.slot # 0 =>
            /\ \E e \in issued' : e.slot = told.slot /\ e.gen = told.gen
            /\ \A e \in issued' : e.slot = told.slot /\ e.gen = told.gen
                                    => e.key = phone[a].key
      <4>1. SUFFICES ASSUME told.slot # 0
                     PROVE  /\ \E e \in issued' : e.slot = told.slot /\ e.gen = told.gen
                            /\ \A e \in issued' : e.slot = told.slot /\ e.gen = told.gen
                                                    => e.key = phone[a].key
        OBVIOUS
      <4>2. PICK e \in issued : e.slot = told.slot /\ e.gen = told.gen
        BY <3>1, <4>1 DEF Told
      <4>3. ~(e0.slot = told.slot /\ e0.gen = told.gen)
        BY <1>7, <1>8, <4>2
      <4>4. QED BY <1>6, <3>1, <4>1, <4>2, <4>3 DEF Told
    <3>3. phone[a].step = "refused" /\ ~leaked' => Refused(a, told.outcome, TRUE) \in wire'
      <4>1. ~leaked' => ~leaked
        BY <1>1
      <4>2. QED BY <1>9, <3>1, <4>1 DEF Told
    <3>4. phone' = phone
      BY <1>1
    <3>5. QED BY <3>2, <3>3, <3>4 DEF Told
  <2>2. QED BY <2>1, ToldEach
<1>14. QED BY <1>10, <1>11, <1>12, <1>13 DEF IInv, TellInv

-----------------------------------------------------------------------------
LEMMA NextIInv == IInv /\ [Next]_vars => IInv'
<1> SUFFICES ASSUME IInv, [Next]_vars PROVE IInv'
  OBVIOUS
<1>1. ASSUME NEW a \in Attempts, NEW key \in Keys, NEW label \in Labels,
             Start(a, key, label)
      PROVE  IInv'
  BY <1>1, StartStep
<1>2. ASSUME NEW a \in Attempts, ReadReply(a) \/ Finish(a) \/ ReadAnswer(a)
      PROVE  IInv'
  BY <1>2, ReadReplyStep, FinishStep, ReadAnswerStep
<1>3. ASSUME NEW a \in Attempts, PairArrives(a) \/ EnrolArrives(a) \/ EnrolGarbled(a)
      PROVE  IInv'
  BY <1>3, PairArrivesStep, EnrolArrivesStep, EnrolGarbledStep
<1>4. CASE RaiseMark \/ FreeSlot \/ StoreRecord \/ NotStored
  BY <1>4, RaiseMarkStep, FreeSlotStep, StoreRecordStep, NotStoredStep
<1>5. CASE Reset \/ Button \/ Timeout
  BY <1>5, WindowStep
<1>6. ASSUME NEW key \in Keys, NEW label \in Labels,
             NEW role \in {"owner", "admin", "viewer"}, Approve(key, label, role)
      PROVE  IInv'
  BY <1>6, ApproveStep DEF RoleSet
<1>7. ASSUME NEW s \in Slots, Remove(s) PROVE IInv'
  BY <1>7, RemoveStep
<1>8. CASE UNCHANGED vars
  <2>1. UNCHANGED <<phone, handshake, wire, slots, mark, window, writing, leaked,
                    approvals, mishaps, issued>>
    BY <1>8 DEF vars
  <2>2. TypeOK'
    BY <2>1 DEF IInv, TypeOK
  <2>3. TableInv'
    BY <2>1, TableKept
  <2>4. \A w \in writing' : w.attempt # 0 => \A o \in w.held : Bound(w.attempt, o.key)
    BY <2>1 DEF IInv, TellInv, KeysBound
  <2>5. TellInv'
    BY <2>1, <2>4, TellingKept
  <2>6. QED BY <2>2, <2>3, <2>5 DEF IInv
<1>9. QED BY <1>1, <1>2, <1>3, <1>4, <1>5, <1>6, <1>7, <1>8 DEF Next

LEMMA Invariance == Spec => []IInv
<1>1. Init => IInv
  BY InitIInv
<1>2. IInv /\ [Next]_vars => IInv'
  BY NextIInv
<1>3. QED BY <1>1, <1>2, PTL DEF Spec

-----------------------------------------------------------------------------
(* Every message, slot record, mark and history entry keeps its shape,     *)
(* whatever the relay carries and wherever power is lost.                  *)
THEOREM TypeCorrect == Spec => []TypeOK
<1>1. IInv => TypeOK
  BY DEF IInv
<1>2. QED BY <1>1, Invariance, PTL

(* No client key ever holds two slots: P-240's second look at the table,   *)
(* at message 3, is enough, for tables and pairings of any number.         *)
THEOREM NoKeyTwice == Spec => []OneKeyOneSlot
<1>1. IInv => OneKeyOneSlot
  BY DEF IInv, TableInv
<1>2. QED BY <1>1, Invariance, PTL

(* The slot and generation a phone is told are those its own key was       *)
(* stored under, and never another's; a refusal it believes is the         *)
(* controller's, unless the label has leaked.                              *)
THEOREM PhonesToldTrue == Spec => []ToldTrue
<1>1. IInv => ToldTrue
  BY DEF IInv, TellInv
<1>2. QED BY <1>1, Invariance, PTL

(* An owner's slot is emptied only for the owner's own key.                *)
THEOREM OwnersStand == Spec => OwnerStands
<1> DEFINE Gone == \A s \in Slots : \A o \in slots[s].held :
                     o.role = "owner" /\ slots'[s].held = {}
                       => \E w \in writing : \E p \in w.held : p.key = o.key
<1>1. IInv /\ [Next]_vars => [Gone]_vars
  <2> SUFFICES ASSUME IInv, [Next]_vars, NEW s \in Slots, NEW o \in slots[s].held,
                      o.role = "owner", slots'[s].held = {}
               PROVE  \E w \in writing : \E p \in w.held : p.key = o.key
    OBVIOUS
  <2>1. slots' # slots
    OBVIOUS
  <2>2. FreeSlot \/ StoreRecord
    BY <2>1 DEF Next, vars, Start, ReadReply, Finish, ReadAnswer, PairArrives,
       EnrolArrives, EnrolGarbled, RaiseMark, NotStored, Reset, Button, Timeout,
       Approve, Remove, tableVars
  <2>3. CASE FreeSlot
    <3>1. PICK w \in writing :
            /\ w.stage = "free"
            /\ slots' = [slots EXCEPT ![w.slot] = [gen |-> mark[w.slot], held |-> {}]]
      BY <2>3 DEF FreeSlot
    <3>2. s = w.slot
      BY <3>1 DEF IInv, TypeOK, Tables
    <3>3. QED BY <3>1, <3>2 DEF IInv, TableInv, OwnersOwnWrite
  <2>4. CASE StoreRecord
    <3>1. PICK w \in writing :
            w.stage = "record" /\ slots' = [slots EXCEPT ![w.slot].held = w.held]
      BY <2>4 DEF StoreRecord
    <3>2. w.held # {}
      BY <3>1 DEF IInv, TableInv, OneRecord
    <3>3. QED BY <3>1, <3>2 DEF IInv, TypeOK, Tables
  <2>5. QED BY <2>2, <2>3, <2>4
<1>2. QED BY <1>1, Invariance, PTL DEF Spec, OwnerStands
=============================================================================
