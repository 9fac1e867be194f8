----------------------------- MODULE Config_proof -----------------------------
(***************************************************************************)
(* For any board, drivers and bodies: the section of buses and devices     *)
(* implements DeviceRegister, so that an id names one kind of device for   *)
(* ever; it keeps every rule as a whole, and read and sent back it is      *)
(* accepted and changes nothing; and the client's check passes the bodies  *)
(* the controller's does.  For any clients and networks: a board whose     *)
(* stamp matches holds the network the controller holds.                   *)
(***************************************************************************)
EXTENDS MCConfig, WellFoundedInduction, SequenceTheorems, FiniteSetTheorems, TLAPS

-----------------------------------------------------------------------------
(* The network section.  A copy of it, in flash or under way, was drawn by *)
(* this controller or by another; one of the section's own origin is no    *)
(* newer than it, and the same when as new.                                *)
Sections ==
  [version : Nat, origin : Nat \cup {Net!Foreign},
   ssid : Networks \cup {None, Net!Foreign}, psk : Keys \cup {None, Net!Foreign}]

CopySound(s) ==
  /\ s \in Sections
  /\ s.version = None => s = Net!Unwritten
  /\ s.origin = Net!Foreign \/ s.origin <= drawn
  /\ master.version # None /\ s.origin = master.origin =>
       /\ s.version <= master.version
       /\ s.version = master.version => Net!Network(s) = Net!Network(master)

MasterSound ==
  /\ drawn \in Nat /\ master \in Sections
  /\ master.version = None => master = Net!Unwritten
  /\ master.version # None => master.origin = drawn /\ drawn # 0

NetInv ==
  /\ MasterSound
  /\ CopySound(flash) /\ CopySound(drawer)
  /\ pushes \in Seq(Sections) /\ \A i \in DOMAIN pushes : CopySound(pushes[i])

LEMMA UnwrittenFacts ==
  /\ Net!Unwritten.version = None /\ Net!Unwritten.origin = None
  /\ Net!Unwritten \in Sections
BY DEF Net!Unwritten, Net!None, None, Sections

(* The section itself is a sound copy.                                     *)
LEMMA MasterCopy == MasterSound => CopySound(master)
BY UnwrittenFacts DEF MasterSound, CopySound, None, Sections

(* The section rewritten or found unreadable leaves every copy sound: a    *)
(* version is given to one content only, and after a repair the origin is  *)
(* one no copy has.                                                        *)
LEMMA RewriteKeeps ==
  ASSUME MasterSound, NEW ssid \in Networks \cup {None}, NEW psk \in Keys \cup {None},
         NEW held \in Net!passphrase(ssid, psk),
         master' = Net!Rewritten(ssid, held),
         drawn' = IF master.version = None THEN drawn + 1 ELSE drawn
  PROVE  /\ MasterSound'
         /\ \A s : CopySound(s) => CopySound(s)'
<1>1. /\ drawn \in Nat /\ master.version \in Nat /\ master.psk \in Keys \cup {None, Net!Foreign}
      /\ master.origin \in Nat \cup {Net!Foreign}
      /\ master.version # 0 => master.origin = drawn /\ drawn # 0
  BY DEF MasterSound, Sections, None
<1>2. held \in Keys \cup {None, Net!Foreign}
  BY <1>1 DEF Net!passphrase, None, Net!None
<1>3. /\ master'.version = master.version + 1
      /\ master'.origin = IF master.version = 0 THEN drawn + 1 ELSE master.origin
      /\ master' \in Sections
  BY <1>1, <1>2 DEF Net!Rewritten, None, Net!None, Sections
<1>4. drawn' \in Nat /\ drawn <= drawn' /\ drawn' # 0 /\ master'.origin = drawn'
  BY <1>1, <1>3 DEF None
<1>5. master'.version # 0
  BY <1>1, <1>3
<1>6. MasterSound'
  BY <1>3, <1>4, <1>5 DEF MasterSound, None
<1>7. ASSUME NEW s, CopySound(s) PROVE CopySound(s)'
  <2>1. /\ s \in Sections /\ s.version \in Nat
        /\ s.version = None => s = Net!Unwritten
        /\ s.origin = Net!Foreign \/ (s.origin \in Nat /\ s.origin <= drawn)
    BY <1>7 DEF CopySound, Sections, Net!Foreign
  <2>2. s.origin = Net!Foreign \/ s.origin <= drawn'
    BY <1>1, <1>4, <2>1
  <2>3. ASSUME s.origin = master'.origin
        PROVE  s.version <= master'.version /\ s.version # master'.version
    <3>1. CASE master.version = 0
      BY <1>1, <1>3, <2>1, <2>3, <3>1 DEF Net!Foreign
    <3>2. CASE master.version # 0
      <4>1. s.version <= master.version
        BY <1>3, <1>7, <2>3, <3>2 DEF CopySound, None
      <4>2. QED BY <1>1, <1>3, <2>1, <4>1
    <3>3. QED BY <3>1, <3>2
  <2>4. QED BY <2>1, <2>2, <2>3 DEF CopySound
<1>8. QED BY <1>6, <1>7

LEMMA NetInit == Net!Init => NetInv
<1> SUFFICES ASSUME Net!Init PROVE NetInv
  OBVIOUS
<1>1. MasterSound
  BY UnwrittenFacts DEF Net!Init, MasterSound, None
<1>2. CopySound(flash)
  BY UnwrittenFacts DEF Net!Init, CopySound, None
<1>3. /\ drawer.version = 1 /\ drawer.origin = Net!Foreign /\ drawer \in Sections
  BY DEF Net!Init, Sections
<1>4. master.origin = 0 /\ master.version = 0
  BY UnwrittenFacts DEF Net!Init, None
<1>5. CopySound(drawer)
  BY <1>3, <1>4 DEF CopySound, None
<1>6. pushes = <<>>
  BY DEF Net!Init
<1>7. QED BY <1>1, <1>2, <1>5, <1>6 DEF NetInv

LEMMA NetKept ==
  ASSUME NetInv, UNCHANGED <<master, drawn, flash, drawer, pushes>>
  PROVE  NetInv'
BY DEF NetInv, MasterSound, CopySound

LEMMA NetStep ==
  ASSUME NetInv, Net!Next
  PROVE  NetInv'
<1>1. /\ MasterSound /\ CopySound(flash) /\ CopySound(drawer)
      /\ pushes \in Seq(Sections) /\ \A i \in DOMAIN pushes : CopySound(pushes[i])
  BY DEF NetInv
<1>2. ASSUME UNCHANGED <<flash, drawer, pushes>>, MasterSound',
             \A s : CopySound(s) => CopySound(s)'
      PROVE  NetInv'
  <2>1. CopySound(flash)' /\ CopySound(drawer)'
    BY <1>1, <1>2 DEF CopySound
  <2>2. (\A i \in DOMAIN pushes : CopySound(pushes[i]))'
    BY <1>1, <1>2
  <2>3. QED BY <1>1, <1>2, <2>1, <2>2 DEF NetInv
<1>3. ASSUME UNCHANGED <<master, drawn>>, CopySound(flash'), CopySound(drawer'),
             pushes' \in Seq(Sections), \A i \in DOMAIN pushes' : CopySound(pushes'[i])
      PROVE  NetInv'
  <2>1. MasterSound' /\ \A s : CopySound(s) => CopySound(s)'
    BY <1>1, <1>3 DEF MasterSound, CopySound
  <2>2. CopySound(flash)' /\ CopySound(drawer)'
    BY <1>3 DEF CopySound
  <2>3. (\A i \in DOMAIN pushes : CopySound(pushes[i]))'
    BY <1>3, <2>1
  <2>4. QED BY <1>3, <2>1, <2>2, <2>3 DEF NetInv
<1>4. ASSUME pushes # <<>>
      PROVE  /\ Tail(pushes) \in Seq(Sections) /\ CopySound(Head(pushes))
             /\ \A i \in DOMAIN Tail(pushes) : CopySound(Tail(pushes)[i])
  <2>1. /\ Len(pushes) \in Nat /\ Len(pushes) # 0 /\ DOMAIN pushes = 1 .. Len(pushes)
        /\ Head(pushes) = pushes[1]
    BY <1>1, <1>4
  <2>2. /\ Tail(pushes) \in Seq(Sections) /\ DOMAIN Tail(pushes) = 1 .. Len(pushes) - 1
        /\ \A i \in DOMAIN Tail(pushes) : Tail(pushes)[i] = pushes[i + 1]
    BY <1>1, <1>4
  <2>3. \A i \in 1 .. Len(pushes) - 1 : i + 1 \in DOMAIN pushes
    BY <2>1
  <2>4. QED BY <1>1, <2>1, <2>2, <2>3
<1>5. ASSUME NEW c \in Clients, Net!Read(c) PROVE NetInv'
  BY <1>5, NetKept DEF Net!Read
<1>6. ASSUME NEW c \in Clients, NEW ssid \in Networks \cup {None},
             NEW psk \in Keys \cup {None}, Net!Write(c, ssid, psk)
      PROVE  NetInv'
  <2>1. PICK held \in Net!passphrase(ssid, psk) : master' = Net!Rewritten(ssid, held)
    BY <1>6 DEF Net!Write
  <2>2. /\ drawn' = IF master.version = None THEN drawn + 1 ELSE drawn
        /\ UNCHANGED <<flash, drawer, pushes>>
    BY <1>6 DEF Net!Write, None, Net!None
  <2>3. MasterSound' /\ \A s : CopySound(s) => CopySound(s)'
    BY <1>1, <2>1, <2>2, RewriteKeeps
  <2>4. QED BY <1>2, <2>2, <2>3
<1>7. ASSUME Net!Unreadable PROVE NetInv'
  <2>1. /\ master' = Net!Unwritten /\ UNCHANGED <<drawn, flash, drawer, pushes>>
    BY <1>7 DEF Net!Unreadable
  <2>2. MasterSound' /\ \A s : CopySound(s) => CopySound(s)'
    BY <1>1, <2>1, UnwrittenFacts DEF MasterSound, CopySound
  <2>3. QED BY <1>2, <2>1, <2>2
<1>8. ASSUME Net!LinkUp PROVE NetInv'
  BY <1>8, NetKept DEF Net!LinkUp
<1>9. ASSUME Net!Compare PROVE NetInv'
  <2>1. pushes' \in {pushes, <<master>>} /\ UNCHANGED <<master, drawn, flash, drawer>>
    BY <1>9 DEF Net!Compare
  <2>2. CASE pushes' = <<master>>
    <3>1. CopySound(master) /\ master \in Sections
      BY <1>1, MasterCopy DEF MasterSound
    <3>2. /\ pushes' \in Seq(Sections) /\ DOMAIN pushes' = {1} /\ pushes'[1] = master
      BY <2>2, <3>1
    <3>3. QED BY <1>1, <1>3, <2>1, <3>1, <3>2
  <2>3. QED BY <2>1, <2>2, NetKept
<1>10. ASSUME NEW durable \in BOOLEAN, Net!Settle(durable) PROVE NetInv'
  <2>1. /\ pushes # <<>> /\ pushes' = Tail(pushes)
        /\ flash' \in {Head(pushes), flash} /\ UNCHANGED <<master, drawn, drawer>>
    BY <1>10 DEF Net!Settle, Net!settle
  <2>2. QED BY <1>1, <1>3, <1>4, <2>1
<1>11. ASSUME Net!LoseReport PROVE NetInv'
  BY <1>11, NetKept DEF Net!LoseReport
<1>12. ASSUME Net!LosePush PROVE NetInv'
  BY <1>1, <1>3, <1>4, <1>12 DEF Net!LosePush
<1>13. ASSUME Net!Swap PROVE NetInv'
  <2>1. /\ flash' = drawer /\ drawer' = flash /\ pushes' = <<>>
        /\ UNCHANGED <<master, drawn>>
    BY <1>13 DEF Net!Swap
  <2>2. pushes' \in Seq(Sections) /\ DOMAIN pushes' = {}
    BY <2>1
  <2>3. QED BY <1>1, <1>3, <2>1, <2>2
<1>14. Net!None = None
  BY DEF Net!None, None
<1>15. QED
  BY <1>5, <1>6, <1>7, <1>8, <1>9, <1>10, <1>11, <1>12, <1>13, <1>14 DEF Net!Next

LEMMA NetHolds == ConfigSpec => []NetInv
<1>1. ConfigInit => NetInv
  BY NetInit DEF ConfigInit
<1>2. ASSUME NetInv, [ConfigNext]_<<part, vars, net>> PROVE NetInv'
  <2>1. CASE UNCHANGED net
    BY <1>2, <2>1, NetKept DEF net
  <2>2. CASE Net!Next
    BY <1>2, <2>2, NetStep
  <2>3. QED BY <1>2, <2>1, <2>2 DEF ConfigNext, DeviceStep, Within
<1>3. QED BY <1>1, <1>2, PTL DEF ConfigSpec

(* A stamp that matches names the network the controller holds: no board   *)
(* out of another unit, and none that missed a repair, is taken for        *)
(* current (NetStamp::needs_push).                                         *)
THEOREM MatchingStampIsCurrent == ConfigSpec => []CurrentMeansSame
<1>1. ASSUME NetInv PROVE CurrentMeansSame
  <2>1. MasterSound /\ CopySound(flash)
    BY <1>1 DEF NetInv
  <2>2. SUFFICES ASSUME NEW report \in Net!Reports(flash), ~Net!needs_push(report)
                 PROVE  Net!Network(flash) = Net!Network(master)
    BY DEF CurrentMeansSame, Net!CurrentMeansSame
  <2>3. /\ flash.version \in Nat /\ flash.origin \in Nat \cup {Net!Foreign}
        /\ master.version \in Nat
    BY <2>1 DEF MasterSound, CopySound, Sections
  <2>4. report \in {<<flash.version, flash.origin>>, <<flash.version, 0>>, <<-1, 0>>}
    BY <2>2 DEF Net!Reports, Net!Stamp, Net!None, Net!Absent
  <2>5. CASE master.version = 0
    <3>1. report[1] = 0
      BY <2>2, <2>5 DEF Net!needs_push, Net!None
    <3>2. flash.version = 0
      BY <2>3, <2>4, <3>1
    <3>3. flash = master
      BY <2>1, <2>5, <3>2 DEF MasterSound, CopySound, None
    <3>4. QED BY <3>3
  <2>6. CASE master.version # 0
    <3>1. report = <<master.version, master.origin>>
      BY <2>2, <2>6 DEF Net!needs_push, Net!None, Net!Stamp
    <3>2. master.origin # 0
      BY <2>1, <2>6 DEF MasterSound, None
    <3>3. flash.version = master.version /\ flash.origin = master.origin
      BY <2>3, <2>4, <3>1, <3>2
    <3>4. QED BY <2>1, <2>6, <3>3 DEF CopySound, None
  <2>7. QED BY <2>5, <2>6
<1>2. QED BY <1>1, NetHolds, PTL
-----------------------------------------------------------------------------
(* Up to a bound, a set of numbers with 0 and the successor of each of its *)
(* members is all of them: what stands for induction here.                 *)
LEMMA EachUpTo ==
  ASSUME NEW bound \in Nat, NEW T, 0 \in T,
         \A n \in 0 .. bound - 1 : n \in T => n + 1 \in T
  PROVE  \A n \in 0 .. bound : n \in T
<1> DEFINE missing == {n \in 0 .. bound : n \notin T}
<1>1. SUFFICES ASSUME missing # {} PROVE FALSE
  OBVIOUS
<1>2. missing \in SUBSET Nat
  OBVIOUS
<1>3. PICK m \in missing : \A n \in missing : <<n, m>> \notin OpToRel(<, Nat)
  BY <1>1, <1>2, NatLessThanWellFounded, WFMin
<1>4. m # 0 /\ m - 1 \in 0 .. bound - 1 /\ m - 1 \in Nat /\ m - 1 < m
  OBVIOUS
<1>5. \A n \in missing : ~(n < m)
  <2> HIDE DEF missing
  <2>1. QED BY <1>2, <1>3 DEF OpToRel
<1>6. m - 1 \in T
  BY <1>4, <1>5
<1>7. QED BY <1>4, <1>6

(* The ids that go out over a body: Given is a recursion over its entries, *)
(* and these are its values.                                               *)
GivenStep(list, g, i) ==
  IF list[i].dev # None \/ g[i - 1][2] = None
  THEN <<g[i - 1][2], g[i - 1][2]>>
  ELSE <<g[i - 1][2], NextId(g[i - 1][2])>>

GivenTo(list, first, n, g) ==
  g = [i \in 0 .. n |-> IF i = 0 THEN <<first, first>> ELSE GivenStep(list, g, i)]

LEMMA GivenDefined ==
  ASSUME NEW list, NEW first, NEW k \in Nat
  PROVE  \E g : GivenTo(list, first, k, g)
<1> DEFINE T == {n \in 0 .. k : \E g : GivenTo(list, first, n, g)}
<1>1. 0 \in T
  <2> DEFINE g == [i \in 0 .. 0 |-> <<first, first>>]
  <2>1. g = [i \in 0 .. 0 |-> IF i = 0 THEN <<first, first>> ELSE GivenStep(list, g, i)]
    <3>1. \A i \in 0 .. 0 : i = 0
      OBVIOUS
    <3>2. QED BY <3>1
  <2> HIDE DEF g
  <2>2. GivenTo(list, first, 0, g)
    BY <2>1 DEF GivenTo
  <2>3. QED BY <2>2
<1>2. ASSUME NEW n \in 0 .. k - 1, n \in T PROVE n + 1 \in T
  <2>1. PICK f : GivenTo(list, first, n, f)
    BY <1>2
  <2> DEFINE g == [i \in 0 .. n + 1 |->
                     IF i = n + 1 THEN GivenStep(list, f, i) ELSE f[i]]
             at(h, i) == IF i = 0 THEN <<first, first>> ELSE GivenStep(list, h, i)
  <2>2. \A i \in 0 .. n : f[i] = at(f, i)
    BY <2>1 DEF GivenTo
  <2>3. ASSUME NEW i \in 0 .. n + 1 PROVE g[i] = at(g, i)
    <3>1. CASE i = 0
      BY <2>2, <3>1
    <3>2. CASE i # 0
      <4>1. i - 1 \in 0 .. n /\ i - 1 \in 0 .. n + 1 /\ i - 1 # n + 1
        BY <3>2
      <4>2. g[i - 1] = f[i - 1]
        BY <4>1
      <4>3. g[i] = GivenStep(list, f, i)
        <5>1. i = n + 1 \/ i \in 0 .. n
          OBVIOUS
        <5>2. QED BY <2>2, <3>2, <5>1
      <4> HIDE DEF g
      <4>4. QED BY <3>2, <4>2, <4>3 DEF GivenStep
    <3>3. QED BY <3>1, <3>2
  <2>4. g = [i \in 0 .. n + 1 |-> g[i]]
    OBVIOUS
  <2> HIDE DEF g
  <2>5. GivenTo(list, first, n + 1, g)
    BY <2>3, <2>4 DEF GivenTo
  <2>6. QED BY <2>5
<1> HIDE DEF T
<1>3. \A n \in 0 .. k : n \in T
  BY <1>1, <1>2, EachUpTo
<1>4. QED BY <1>3 DEF T

LEMMA GivenAt ==
  ASSUME NEW list, NEW first, Len(list) \in Nat
  PROVE  /\ Given(list, first)[0] = <<first, first>>
         /\ \A i \in 1 .. Len(list) :
              Given(list, first)[i] = GivenStep(list, Given(list, first), i)
<1> DEFINE g == CHOOSE h : GivenTo(list, first, Len(list), h)
<1>1. GivenTo(list, first, Len(list), g)
  BY GivenDefined
<1>2. Given(list, first) = g
  BY DEF Given, GivenTo, GivenStep
<1> HIDE DEF g
<1>3. \A i \in 0 .. Len(list) :
        g[i] = IF i = 0 THEN <<first, first>> ELSE GivenStep(list, g, i)
  BY <1>1 DEF GivenTo
<1>4. 0 \in 0 .. Len(list) /\ \A i \in 1 .. Len(list) : i \in 0 .. Len(list) /\ i # 0
  OBVIOUS
<1>5. g[0] = <<first, first>> /\ \A i \in 1 .. Len(list) : g[i] = GivenStep(list, g, i)
  BY <1>3, <1>4
<1>6. QED BY <1>2, <1>5

(* Where the allocator stands: every id before it was given.               *)
Mark(id) == IF id = None THEN LastDev + 1 ELSE id

(* What the allocator gives along a list: an id at a time, each past the   *)
(* one before.                                                             *)
Allotted(list, first, g) ==
  /\ \A i \in 0 .. Len(list) : g[i][2] \in 0 .. LastDev
  /\ \A i, j \in 0 .. Len(list) : i <= j => Mark(g[i][2]) <= Mark(g[j][2])
  /\ g[0][2] = first
  /\ \A i \in 1 .. Len(list) :
       /\ g[i][1] = g[i - 1][2]
       /\ list[i].dev = None /\ g[i][1] # None =>
            Mark(g[i][2]) = Mark(g[i][1]) + 1

LEMMA GivenFacts ==
  ASSUME NEW list, Len(list) \in Nat, NEW first \in 0 .. LastDev, NEW g,
         g = Given(list, first)
  PROVE  Allotted(list, first, g)
<1> DEFINE k == Len(list)
           p == [i \in 0 .. k |-> g[i][2]]
<1>0. LastDev \in Nat /\ LastDev # 0
  BY DeviceConfigAssumption
<1>1. /\ g[0] = <<first, first>>
      /\ \A i \in 1 .. k : g[i] = GivenStep(list, g, i)
  BY GivenAt
<1>2. /\ p[0] = first
      /\ \A i \in 1 .. k : /\ g[i][1] = p[i - 1] /\ g[i][2] = p[i]
                           /\ p[i] = IF list[i].dev # None \/ p[i - 1] = None
                                     THEN p[i - 1] ELSE NextId(p[i - 1])
  <2>1. p[0] = first
    BY <1>1
  <2>2. ASSUME NEW i \in 1 .. k
        PROVE  /\ g[i][1] = p[i - 1] /\ g[i][2] = p[i]
               /\ p[i] = IF list[i].dev # None \/ p[i - 1] = None
                         THEN p[i - 1] ELSE NextId(p[i - 1])
    <3>1. p[i] = g[i][2] /\ p[i - 1] = g[i - 1][2]
      OBVIOUS
    <3> HIDE DEF p, k
    <3>2. g[i] = GivenStep(list, g, i)
      BY <1>1
    <3>3. QED BY <3>1, <3>2 DEF GivenStep
  <2>3. QED BY <2>1, <2>2
<1>3. k \in Nat /\ \A i \in 0 .. k : p[i] = g[i][2]
  OBVIOUS
<1> HIDE DEF p, k
<1>4. \A i \in 0 .. k : p[i] \in 0 .. LastDev
  <2> DEFINE T == {i \in 0 .. k : p[i] \in 0 .. LastDev}
  <2>1. 0 \in T
    BY <1>2, <1>3
  <2>2. ASSUME NEW n \in 0 .. k - 1, n \in T PROVE n + 1 \in T
    <3>1. n + 1 \in 1 .. k /\ (n + 1) - 1 = n /\ n + 1 \in 0 .. k
      BY <1>3
    <3>2. p[n + 1] \in {p[n], NextId(p[n])}
      BY <1>2, <3>1
    <3>3. p[n + 1] \in 0 .. LastDev
      BY <1>0, <2>2, <3>2 DEF NextId, None
    <3>4. QED BY <3>1, <3>3
  <2> HIDE DEF T
  <2>3. \A n \in 0 .. k : n \in T
    BY <1>3, <2>1, <2>2, EachUpTo
  <2>4. QED BY <2>3 DEF T
<1>5. ASSUME NEW i \in 1 .. k
      PROVE  /\ Mark(p[i - 1]) <= Mark(p[i])
             /\ list[i].dev = None /\ p[i - 1] # None => Mark(p[i]) = Mark(p[i - 1]) + 1
  <2>1. p[i - 1] \in 0 .. LastDev /\ p[i] \in 0 .. LastDev
    BY <1>3, <1>4
  <2>2. p[i] = IF list[i].dev # None \/ p[i - 1] = None
               THEN p[i - 1] ELSE NextId(p[i - 1])
    BY <1>2
  <2>3. QED BY <1>0, <2>1, <2>2 DEF Mark, NextId, None
<1>6. ASSUME NEW i \in 0 .. k PROVE \A j \in 0 .. k : i <= j => Mark(p[i]) <= Mark(p[j])
  <2> DEFINE T == {n \in 0 .. k - i : Mark(p[i]) <= Mark(p[i + n])}
  <2>1. \A j \in 0 .. k : Mark(p[j]) \in Nat
    BY <1>0, <1>4 DEF Mark
  <2>2. 0 \in T
    BY <1>3, <2>1
  <2>3. ASSUME NEW n \in 0 .. k - i - 1, n \in T PROVE n + 1 \in T
    <3>1. /\ i + (n + 1) \in 1 .. k /\ (i + (n + 1)) - 1 = i + n
          /\ i + n \in 0 .. k /\ n + 1 \in 0 .. k - i
          /\ i + (n + 1) \in 0 .. k
      BY <1>3
    <3>2. Mark(p[i]) <= Mark(p[i + n]) /\ Mark(p[i + n]) <= Mark(p[i + (n + 1)])
      BY <1>5, <2>3, <3>1
    <3>3. QED BY <2>1, <3>1, <3>2
  <2>4. k - i \in Nat
    BY <1>3
  <2> HIDE DEF T
  <2>5. \A n \in 0 .. k - i : n \in T
    BY <2>2, <2>3, <2>4, EachUpTo
  <2>6. ASSUME NEW j \in 0 .. k, i <= j PROVE Mark(p[i]) <= Mark(p[j])
    <3>1. j - i \in 0 .. k - i /\ i + (j - i) = j
      BY <1>3, <2>6
    <3>2. QED BY <2>5, <3>1 DEF T
  <2>7. QED BY <2>6
<1>7. \A i \in 0 .. k : g[i][2] = p[i]
  BY <1>3
<1>8. 0 \in 0 .. k /\ \A i \in 1 .. k : i \in 0 .. k
  BY <1>3
<1>9. QED BY <1>2, <1>4, <1>5, <1>6, <1>7, <1>8 DEF k, Allotted
-----------------------------------------------------------------------------
(* The section of buses and devices: no id stands for two devices.         *)
DevSound(held) ==
  /\ held \subseteq DeviceEntries
  /\ \A d \in held : d.dev # None
  /\ \A d, e \in held : d.dev = e.dev => d = e

DevInv == next \in 0 .. LastDev /\ DevSound(devices)

(* An allocator that is not behind stands past every id the section holds. *)
LEMMA NotBehind ==
  ASSUME DevInv, ~Behind
  PROVE  \A was \in devices : was.dev < Mark(next)
<1>1. /\ next \in 0 .. LastDev /\ LastDev \in Nat
      /\ \A was \in devices : was.dev \in 0 .. LastDev
  BY DeviceConfigAssumption DEF DevInv, DevSound, DeviceEntries
<1>2. CASE next = None
  BY <1>1, <1>2 DEF Mark
<1>3. CASE next # None
  BY <1>1, <1>3 DEF Mark, Behind
<1>4. QED BY <1>2, <1>3

(* What a body accepted leaves: every entry is the edit of a device held,  *)
(* of the kind it was, or has an id from where the allocator stood.        *)
Fresh(d) == Mark(next) <= d.dev
Kept(d) == \E was \in devices : was.dev = d.dev /\ was.kind = d.kind

(* The entries as stored: each with an id, no two with one, and otherwise  *)
(* as the body has them.                                                   *)
Apart(list) ==
  /\ \A i \in DOMAIN list : list[i].dev # None
  /\ \A i, j \in DOMAIN list : list[i].dev = list[j].dev => i = j

Settled(list, w) ==
  /\ w \in Seq(DeviceEntries) /\ DOMAIN w = DOMAIN list /\ Apart(w)
  /\ \A i \in DOMAIN w : /\ w[i] = [list[i] EXCEPT !.dev = w[i].dev]
                         /\ list[i].dev # None => w[i] = list[i]

LEMMA AcceptedFacts ==
  ASSUME DevInv, NEW body \in Checked, Accepts(body), NEW acc, acc = Accepted(body)
  PROVE  /\ acc.next \in 0 .. LastDev /\ Mark(next) <= Mark(acc.next)
         /\ DevSound(acc.devices)
         /\ \A d \in acc.devices : Kept(d) \/ (Fresh(d) /\ d.dev < Mark(acc.next))
         /\ \E w : /\ Settled(body.devices, w)
                   /\ acc.devices = {w[i] : i \in DOMAIN w}
<1> DEFINE list == body.devices
           k    == Len(list)
           g    == Given(list, next)
           entry(i) == IF list[i].dev = None THEN [list[i] EXCEPT !.dev = g[i][1]]
                       ELSE list[i]
<1>1. /\ list \in Seq(DeviceEntries) /\ DevsApart(list)
      /\ ~Behind
      /\ \A i \in DOMAIN list : IF list[i].dev = None THEN g[i][1] # None
                                ELSE EditsHeld(list[i])
  BY WritesAssumption DEF Checked, check, Accepts
<1>2. /\ acc.next = g[k][2]
      /\ \A d : d \in acc.devices <=> \E i \in DOMAIN list : d = entry(i)
  BY DEF Accepted
<1> HIDE DEF g, list
<1>3. /\ k \in Nat /\ DOMAIN list = 1 .. k
      /\ \A i \in 1 .. k : list[i] \in DeviceEntries
  BY <1>1
<1>4. /\ next \in 0 .. LastDev /\ LastDev \in Nat
      /\ \A was \in devices : was.dev < Mark(next)
  BY <1>1, NotBehind, DeviceConfigAssumption DEF DevInv
<1>5. /\ \A i \in 0 .. k : g[i][2] \in 0 .. LastDev
      /\ \A i, j \in 0 .. k : i <= j => Mark(g[i][2]) <= Mark(g[j][2])
      /\ g[0][2] = next
      /\ \A i \in 1 .. k :
           /\ g[i][1] = g[i - 1][2]
           /\ list[i].dev = None /\ g[i][1] # None =>
                Mark(g[i][2]) = Mark(g[i][1]) + 1
  <2>1. g = Given(list, next)
    BY DEF g
  <2>2. Allotted(list, next, g)
    BY <1>3, <1>4, <2>1, GivenFacts
  <2>3. QED BY <2>2 DEF Allotted
<1> HIDE DEF k
<1>6. \A i \in 0 .. k : Mark(g[i][2]) \in Nat
  BY <1>4, <1>5 DEF Mark
<1>7. acc.next \in 0 .. LastDev /\ Mark(next) <= Mark(acc.next)
  BY <1>2, <1>3, <1>5
<1>8. ASSUME NEW i \in 1 .. k, list[i].dev = None
      PROVE  /\ g[i][1] \in 1 .. LastDev /\ entry(i).dev = g[i][1]
             /\ Mark(next) <= g[i][1]
             /\ Mark(g[i][2]) = g[i][1] + 1
             /\ entry(i) \in DeviceEntries
  <2>1. i - 1 \in 0 .. k /\ 0 \in 0 .. k /\ 0 <= i - 1 /\ g[i][1] = g[i - 1][2]
    BY <1>3, <1>5
  <2>2. g[i][1] # None
    BY <1>1, <1>3, <1>8
  <2>3. g[i][1] \in 1 .. LastDev
    BY <1>4, <1>5, <2>1, <2>2 DEF None
  <2>4. Mark(g[i][1]) = g[i][1]
    BY <2>2 DEF Mark
  <2>5. Mark(next) <= g[i][1]
    BY <1>5, <2>1, <2>4
  <2>6. Mark(g[i][2]) = g[i][1] + 1
    BY <1>5, <1>8, <2>2, <2>4
  <2>7. list[i] \in DeviceEntries /\ g[i][1] \in 0 .. LastDev
    BY <1>3, <2>3
  <2> HIDE DEF g
  <2>8. entry(i) = [list[i] EXCEPT !.dev = g[i][1]]
    BY <1>8
  <2>9. [list[i] EXCEPT !.dev = g[i][1]] \in DeviceEntries
         /\ [list[i] EXCEPT !.dev = g[i][1]].dev = g[i][1]
    BY <2>7 DEF DeviceEntries
  <2>10. QED BY <2>3, <2>5, <2>6, <2>8, <2>9
<1>9. ASSUME NEW i \in 1 .. k, list[i].dev # None
      PROVE  /\ entry(i) = list[i] /\ entry(i).dev < Mark(next)
             /\ Kept(entry(i)) /\ entry(i) \in DeviceEntries
  <2>1. entry(i) = list[i] /\ EditsHeld(list[i])
    BY <1>1, <1>3, <1>9
  <2> HIDE DEF entry
  <2>2. PICK was \in devices : was.dev = entry(i).dev /\ was.kind = entry(i).kind
    BY <2>1 DEF EditsHeld
  <2>3. QED BY <1>3, <1>4, <2>1, <2>2 DEF Kept
<1> HIDE DEF entry
<1>10. ASSUME NEW i \in 1 .. k, NEW j \in 1 .. k, i < j
       PROVE  entry(i).dev # entry(j).dev
  <2>1. CASE list[i].dev # None /\ list[j].dev # None
    <3>1. list[j].dev # list[i].dev
      <4>1. j \in i + 1 .. Len(list)
        BY <1>3, <1>10 DEF k
      <4>2. QED BY <1>1, <1>3, <2>1, <4>1 DEF DevsApart
    <3>2. entry(i) = list[i] /\ entry(j) = list[j]
      BY <1>9, <2>1
    <3>3. QED BY <3>1, <3>2
  <2>2. CASE list[i].dev = None /\ list[j].dev = None
    <3>1. /\ entry(i).dev = g[i][1] /\ Mark(g[i][2]) = g[i][1] + 1
          /\ g[i][1] \in Nat
      BY <1>8, <2>2
    <3>2. /\ entry(j).dev = g[j][1] /\ g[j][1] \in 1 .. LastDev
          /\ Mark(g[j][1]) = g[j][1]
      BY <1>8, <2>2 DEF Mark, None
    <3>3. Mark(g[i][2]) <= Mark(g[j][1])
      <4>1. i \in 0 .. k /\ j - 1 \in 0 .. k /\ i <= j - 1 /\ g[j][1] = g[j - 1][2]
        BY <1>3, <1>5, <1>10
      <4>2. QED BY <1>5, <4>1
    <3>4. QED BY <3>1, <3>2, <3>3
  <2>3. CASE list[i].dev = None /\ list[j].dev # None
    <3>1. entry(i).dev \in Nat /\ Mark(next) <= entry(i).dev /\ Mark(next) \in Nat
      BY <1>4, <1>8, <2>3 DEF Mark
    <3>2. entry(j).dev < Mark(next)
      BY <1>9, <2>3
    <3>3. QED BY <3>1, <3>2
  <2>4. CASE list[i].dev # None /\ list[j].dev = None
    <3>1. entry(j).dev \in Nat /\ Mark(next) <= entry(j).dev /\ Mark(next) \in Nat
      BY <1>4, <1>8, <2>4 DEF Mark
    <3>2. entry(i).dev < Mark(next)
      BY <1>9, <2>4
    <3>3. QED BY <3>1, <3>2
  <2>5. QED BY <2>1, <2>2, <2>3, <2>4
<1>11. ASSUME NEW d \in acc.devices
       PROVE  /\ d \in DeviceEntries /\ d.dev # None
              /\ Kept(d) \/ (Fresh(d) /\ d.dev < Mark(acc.next))
  <2>1. PICK i \in 1 .. k : d = entry(i)
    BY <1>2, <1>3
  <2>2. CASE list[i].dev = None
    <3>1. /\ d \in DeviceEntries /\ d.dev \in 1 .. LastDev /\ Fresh(d)
          /\ Mark(g[i][2]) = d.dev + 1
      BY <1>8, <2>1, <2>2 DEF Fresh
    <3>2. i \in 0 .. k /\ k \in 0 .. k /\ i <= k
      BY <1>3
    <3>3. Mark(g[i][2]) <= Mark(acc.next) /\ Mark(acc.next) \in Nat
      BY <1>2, <1>5, <1>6, <3>2
    <3>4. QED BY <3>1, <3>3 DEF None
  <2>3. CASE list[i].dev # None
    BY <1>9, <2>1, <2>3
  <2>4. QED BY <2>2, <2>3
<1>12. \A d, e \in acc.devices : d.dev = e.dev => d = e
  <2>1. SUFFICES ASSUME NEW d \in acc.devices, NEW e \in acc.devices, d.dev = e.dev
                 PROVE  d = e
    OBVIOUS
  <2>2. PICK i \in 1 .. k : d = entry(i)
    BY <1>2, <1>3
  <2>3. PICK j \in 1 .. k : e = entry(j)
    BY <1>2, <1>3
  <2>4. ~(i < j) /\ ~(j < i)
    BY <1>10, <2>1, <2>2, <2>3
  <2>5. i = j
    BY <1>3, <2>4
  <2>6. QED BY <2>2, <2>3, <2>5
<1>13. \E w : Settled(list, w) /\ acc.devices = {w[i] : i \in DOMAIN w}
  <2> DEFINE w == [i \in 1 .. k |-> entry(i)]
  <2>1. \A i \in 1 .. k : entry(i) \in DeviceEntries /\ entry(i).dev # None
    BY <1>4, <1>8, <1>9 DEF None
  <2>2. w \in Seq(DeviceEntries) /\ DOMAIN w = DOMAIN list
    BY <1>3, <2>1
  <2>3. \A i \in 1 .. k : w[i] = entry(i)
    OBVIOUS
  <2> HIDE DEF w
  <2>4. acc.devices = {w[i] : i \in DOMAIN w}
    BY <1>2, <1>3, <2>2, <2>3
  <2>5. Apart(w)
    <3>1. ASSUME NEW i \in 1 .. k, NEW j \in 1 .. k, w[i].dev = w[j].dev PROVE i = j
      <4>1. ~(i < j) /\ ~(j < i)
        BY <1>10, <2>3, <3>1
      <4>2. QED BY <1>3, <4>1
    <3>2. QED BY <1>3, <2>1, <2>2, <2>3, <3>1 DEF Apart
  <2>6. ASSUME NEW i \in 1 .. k
        PROVE  w[i] = [list[i] EXCEPT !.dev = w[i].dev] /\ (list[i].dev # None => w[i] = list[i])
    <3>1. CASE list[i].dev = None
      BY <1>8, <2>3, <3>1 DEF entry
    <3>2. CASE list[i].dev # None
      <4>1. w[i] = list[i]
        BY <1>9, <2>3, <3>2
      <4>2. list[i] \in DeviceEntries
        BY <1>3
      <4>3. [list[i] EXCEPT !.dev = list[i].dev] = list[i]
        BY <4>2 DEF DeviceEntries
      <4>4. QED BY <4>1, <4>3
    <3>3. QED BY <3>1, <3>2
  <2>7. QED BY <1>3, <2>2, <2>4, <2>5, <2>6 DEF Settled
<1>14. QED BY <1>7, <1>11, <1>12, <1>13 DEF DevSound, list

(* A step that lists only devices held, of their kind, and devices with    *)
(* ids past the allocator, and never moves the allocator back, is a change *)
(* of the register.                                                        *)
KindOf(held, id) == (CHOOSE d \in held : d.dev = id).kind
Spent(from, to) == {id \in Ids : from <= id /\ id < to}

LEMMA KindFacts ==
  ASSUME NEW held, DevSound(held), NEW d \in held
  PROVE  KindOf(held, d.dev) = d.kind
<1>1. (CHOOSE e \in held : e.dev = d.dev) = d
  BY DEF DevSound
<1>2. QED BY <1>1 DEF KindOf

LEMMA MarkFacts ==
  ASSUME NEW at \in 0 .. LastDev
  PROVE  /\ Mark(at) \in Nat
         /\ \A id \in Ids : (at = None \/ id < at) <=> id < Mark(at)
BY DeviceConfigAssumption DEF Mark, None, Ids

LEMMA RegisterStep ==
  ASSUME DevInv, DevInv', ~Behind,
         Mark(next) <= Mark(next'),
         \A d \in devices' : Kept(d) \/ Mark(next) <= d.dev
  PROVE  Register!Next
<1> DEFINE listed  == Listed'
           before  == Listed
           spent   == Spent(Mark(next), Mark(next'))
           retired == {id \in Ids : (next = None \/ id < next) /\ id \notin before}
           after   == {id \in Ids : (next' = None \/ id < next') /\ id \notin listed}
           live    == [id \in before |-> KindOf(devices, id)]
           later   == [id \in listed |-> KindOf(devices', id)]
<1>1. /\ DevSound(devices) /\ DevSound(devices')
      /\ next \in 0 .. LastDev /\ next' \in 0 .. LastDev
  BY DEF DevInv, DevSound
<1>2. /\ Mark(next) \in Nat /\ Mark(next') \in Nat
      /\ \A id \in Ids : (next = None \/ id < next) <=> id < Mark(next)
      /\ \A id \in Ids : (next' = None \/ id < next') <=> id < Mark(next')
  <2> DEFINE at == next'
  <2>1. at \in 0 .. LastDev
    BY <1>1
  <2> HIDE DEF at
  <2>2. Mark(at) \in Nat /\ \A id \in Ids : (at = None \/ id < at) <=> id < Mark(at)
    BY <2>1, MarkFacts
  <2>3. QED BY <1>1, <2>2, MarkFacts DEF at
<1>3. before \subseteq Ids /\ listed \subseteq Ids /\ \A id \in Ids : id \in Nat
  <2>1. \A held : DevSound(held) => \A d \in held : d.dev \in Ids
    BY DEF DevSound, DeviceEntries, Ids, None
  <2>2. \A id \in Ids : id \in Nat
    BY DEF Ids
  <2>3. \A d \in devices : d.dev \in Ids
    BY <1>1, <2>1
  <2>4. \A d \in devices' : d.dev \in Ids
    BY <1>1, <2>1
  <2>5. QED BY <2>2, <2>3, <2>4 DEF Listed
<1>4. \A id \in before : id < Mark(next)
  BY NotBehind DEF Listed
<1>5. \A id \in listed : id \in before \/ Mark(next) <= id
  BY DEF Listed, Kept
<1>6. \A id \in listed \cap before : later[id] = live[id]
  <2>1. SUFFICES ASSUME NEW id \in listed, id \in before
                 PROVE  KindOf(devices', id) = KindOf(devices, id)
    OBVIOUS
  <2>2. PICK d \in devices' : d.dev = id
    BY DEF Listed
  <2>3. Mark(next) > id /\ id \in Nat
    BY <1>2, <1>3, <1>4, <2>1
  <2>4. PICK was \in devices : was.dev = d.dev /\ was.kind = d.kind
    BY <1>2, <2>2, <2>3 DEF Kept
  <2>5. KindOf(devices, was.dev) = was.kind
    BY <1>1, KindFacts
  <2>6. KindOf(devices', d.dev) = d.kind
    BY <1>1, KindFacts
  <2>7. QED BY <2>2, <2>4, <2>5, <2>6
<1>7. later \in [listed -> Kinds]
  <2>1. SUFFICES ASSUME NEW id \in listed PROVE KindOf(devices', id) \in Kinds
    OBVIOUS
  <2>2. PICK d \in devices' : d.dev = id
    BY DEF Listed
  <2>3. KindOf(devices', d.dev) = d.kind
    BY <1>1, KindFacts
  <2>4. d \in DeviceEntries
    BY <1>1 DEF DevSound
  <2>5. QED BY <2>2, <2>3, <2>4 DEF DeviceEntries
<1>8. \A id : id \in spent <=> id \in Ids /\ Mark(next) <= id /\ id < Mark(next')
  BY DEF Spent
<1>9. /\ \A id : id \in retired <=> id \in Ids /\ id < Mark(next) /\ id \notin before
      /\ \A id : id \in after <=> id \in Ids /\ id < Mark(next') /\ id \notin listed
  BY <1>2
<1> HIDE DEF listed, before, spent, retired, after, live, later
<1>10. listed \cap retired = {} /\ spent \cap before = {}
  BY <1>2, <1>3, <1>4, <1>5, <1>8, <1>9
<1>11. after = retired \cup (before \ listed) \cup (spent \ listed)
  <2>1. ASSUME NEW id \in after
        PROVE  id \in retired \cup (before \ listed) \cup (spent \ listed)
    BY <1>2, <1>3, <1>8, <1>9, <2>1
  <2>2. ASSUME NEW id \in retired \cup (before \ listed) \cup (spent \ listed)
        PROVE  id \in after
    <3>1. id \in Ids /\ id \in Nat /\ id < Mark(next')
      BY <1>2, <1>3, <1>4, <1>8, <1>9, <2>2
    <3>2. id \notin listed
      BY <1>10, <2>2
    <3>3. QED BY <1>9, <3>1, <3>2
  <2>3. QED BY <2>1, <2>2
<1>12. listed \in SUBSET Ids /\ spent \in SUBSET Ids
  BY <1>3, <1>8
<1>13. DOMAIN live = before
  BY DEF live
<1>14. \E given, set_aside \in SUBSET Ids :
          /\ given \cap retired = {} /\ set_aside \cap before = {}
          /\ later \in [given -> Kinds]
          /\ \A id \in given \cap before : later[id] = live[id]
          /\ after = retired \cup (before \ given) \cup (set_aside \ given)
  BY <1>6, <1>7, <1>10, <1>11, <1>12
<1>15. /\ live = [id \in Listed |-> (CHOOSE d \in devices : d.dev = id).kind]
       /\ later = [id \in Listed |-> (CHOOSE d \in devices : d.dev = id).kind]'
       /\ retired = {id \in Ids : (next = None \/ id < next) /\ id \notin Listed}
       /\ after = {id \in Ids : (next = None \/ id < next) /\ id \notin Listed}'
  BY DEF live, later, retired, after, before, listed, KindOf
<1>16. QED BY <1>13, <1>14, <1>15 DEF Register!Next, Register!Change

LEMMA WriteStep ==
  ASSUME DevInv, NEW body \in Checked, Write(body)
  PROVE  DevInv' /\ Register!Next
<1> DEFINE acc == Accepted(body)
<1>1. Accepts(body) /\ ~Behind
  BY DEF Write, Accepts
<1>2. /\ devices' \in {acc.devices, devices} /\ next' \in {acc.next, next}
  BY DEF Write, Store
<1> HIDE DEF acc
<1>3. /\ acc.next \in 0 .. LastDev /\ Mark(next) <= Mark(acc.next)
      /\ DevSound(acc.devices)
      /\ \A d \in acc.devices : Kept(d) \/ Fresh(d)
  <2>1. acc = Accepted(body)
    BY DEF acc
  <2>2. QED BY <1>1, <2>1, AcceptedFacts
<1>4. next \in 0 .. LastDev /\ DevSound(devices) /\ Mark(next) \in Nat
  BY MarkFacts DEF DevInv
<1>5. DevInv'
  <2>1. next' \in 0 .. LastDev
    BY <1>2, <1>3, <1>4
  <2>2. DevSound(devices')
    BY <1>2, <1>3, <1>4
  <2>3. QED BY <2>1, <2>2 DEF DevInv, DevSound
<1>6. \A d \in devices : Kept(d)
  BY DEF Kept
<1>7. \A d \in devices' : Kept(d) \/ Mark(next) <= d.dev
  BY <1>2, <1>3, <1>6 DEF Fresh
<1>8. Mark(next) <= Mark(next')
  BY <1>2, <1>3, <1>4
<1>9. QED BY <1>1, <1>5, <1>7, <1>8, RegisterStep

LEMMA AdoptStep ==
  ASSUME DevInv, Adopt
  PROVE  DevInv' /\ Register!Next
<1>1. next # None /\ ~Behind /\ next' = NextId(next) /\ devices' = devices
  BY DEF Adopt
<1>2. next \in 0 .. LastDev /\ LastDev \in Nat
  BY DeviceConfigAssumption DEF DevInv
<1>3. next' \in 0 .. LastDev /\ Mark(next) <= Mark(next')
  BY <1>1, <1>2 DEF NextId, Mark, None
<1>4. DevInv'
  BY <1>1, <1>3 DEF DevInv, DevSound
<1>5. \A d \in devices' : Kept(d)
  BY <1>1 DEF Kept
<1>6. QED BY <1>1, <1>3, <1>4, <1>5, RegisterStep

LEMMA DevInit == Init => DevInv /\ Register!Init
<1> SUFFICES ASSUME Init PROVE DevInv /\ Register!Init
  OBVIOUS
<1>1. devices = {} /\ next = 1 /\ LastDev \in Nat \ {0}
  BY DeviceConfigAssumption DEF Init
<1>2. DevInv
  BY <1>1 DEF DevInv, DevSound
<1>3. Listed = {}
  BY <1>1 DEF Listed
<1>4. [id \in Listed |-> (CHOOSE d \in devices : d.dev = id).kind] = [id \in {} |-> 0]
  BY <1>3
<1>5. {id \in Ids : (next = None \/ id < next) /\ id \notin Listed} = {}
  BY <1>1 DEF Ids, None
<1>6. Register!Init
  BY <1>4, <1>5 DEF Register!Init
<1>7. QED BY <1>2, <1>6

LEMMA DevStep ==
  ASSUME DevInv, [ConfigNext]_<<part, vars, net>>
  PROVE  DevInv' /\ [Register!Next]_(Register!vars)
<1>1. CASE UNCHANGED vars
  <2>1. UNCHANGED <<devices, next>>
    BY <1>1 DEF vars
  <2>2. DevInv'
    BY <2>1 DEF DevInv, DevSound
  <2>3. UNCHANGED Register!vars
    BY <2>1 DEF Register!vars, Listed
  <2>4. QED BY <2>2, <2>3
<1>2. CASE \E body \in Checked : Write(body)
  BY <1>2, WriteStep
<1>3. CASE Adopt
  BY <1>3, AdoptStep
<1>4. CASE \E body \in Checked : Refuse(body)
  BY <1>1, <1>4 DEF Refuse
<1>5. QED BY <1>1, <1>2, <1>3, <1>4 DEF ConfigNext, DeviceStep, Within, Next

(* An id names one kind of device for ever, and never a second device      *)
(* after its first is removed, though power goes between the two stores of *)
(* a write and sub-devices draw ids in between                             *)
(* (BusesAndDevicesWrite::accept, DevAllocator).                           *)
THEOREM SectionImplementsRegister == ConfigSpec => ImplementsRegister
<1>1. ConfigInit => DevInv /\ Register!Init
  BY DevInit DEF ConfigInit
<1>2. DevInv /\ [ConfigNext]_<<part, vars, net>> => DevInv'
  BY DevStep
<1>3. DevInv /\ [ConfigNext]_<<part, vars, net>> => [Register!Next]_(Register!vars)
  BY DevStep
<1>4. QED BY <1>1, <1>2, <1>3, PTL DEF ConfigSpec, ImplementsRegister, Register!Spec

-----------------------------------------------------------------------------
(* The two checks, and what the section as held keeps.                     *)

(* The client's table of transports says of each what the crate does.      *)
LEMMA TransportsAgree ==
  ASSUME NEW t \in Transports
  PROVE  /\ TRANSPORTS[t].addressed <=> addressed(t)
         /\ TRANSPORTS[t].rate <=> has_rate(t)
         /\ TRANSPORTS[t].serial <=> is_serial_line(t)
BY DEF Transports, TRANSPORTS, Carries, addressed, has_rate, is_serial_line

(* Which entries a rule about later entries speaks of.                     *)
LEMMA LaterEntries ==
  ASSUME NEW S, NEW list \in Seq(S), NEW i \in DOMAIN list
  PROVE  /\ list[i] \in S
         /\ \A j \in i + 1 .. Len(list) : list[j] \in Following(list, i)
         /\ \A e \in Following(list, i) : \E j \in i + 1 .. Len(list) : e = list[j]
BY DEF Following

LEMMA BusesAgree ==
  ASSUME NEW list \in Seq(BusEntries)
  PROVE  check_buses(list) <=> \A i \in DOMAIN list : ~ busRefused(list, i)
<1> SUFFICES ASSUME NEW i \in DOMAIN list
             PROVE  ~ busRefused(list, i) <=>
                      /\ list[i].bus \in DOMAIN Board
                      /\ \A j \in i + 1 .. Len(list) : list[j].bus # list[i].bus
                      /\ BusFits(list[i], Board[list[i].bus])
  BY DEF check_buses
<1> DEFINE entry == list[i]
           t     == Board[entry.bus]
<1>1. entry \in BusEntries
  BY LaterEntries
<1>2. (\E other \in Following(list, i) : other.bus = entry.bus)
        <=> ~ \A j \in i + 1 .. Len(list) : list[j].bus # entry.bus
  BY LaterEntries
<1>3. CASE entry.bus \notin DOMAIN Board
  BY <1>3 DEF busRefused
<1>4. CASE entry.bus \in DOMAIN Board
  <2>1. t \in Transports
    BY <1>4, SiteAssumption
  <2>2. (TRANSPORTS[t].rate <=> has_rate(t)) /\ (TRANSPORTS[t].serial <=> is_serial_line(t))
    BY <2>1, TransportsAgree
  <2>3. entry.set \ {"rate"} # {} <=> entry.set \cap {"data_bits", "parity", "stop_bits"} # {}
    BY <1>1 DEF BusEntries
  <2> HIDE DEF t
  <2>4. BusFits(entry, t) <=>
          /\ entry.set # {}
          /\ "rate" \in entry.set => TRANSPORTS[t].rate
          /\ entry.set \ {"rate"} # {} => TRANSPORTS[t].serial
    BY <2>2, <2>3 DEF BusFits
  <2>5. busRefused(list, i) <=>
          \/ entry.set = {}
          \/ \E other \in Following(list, i) : other.bus = entry.bus
          \/ "rate" \in entry.set /\ ~ TRANSPORTS[t].rate
          \/ entry.set \ {"rate"} # {} /\ ~ TRANSPORTS[t].serial
    BY <1>4 DEF busRefused, t
  <2> HIDE DEF entry
  <2>6. ~ busRefused(list, i) <=>
          /\ \A j \in i + 1 .. Len(list) : list[j].bus # entry.bus
          /\ BusFits(entry, t)
    BY <1>2, <2>4, <2>5
  <2>7. QED BY <1>4, <2>6 DEF entry, t
<1>5. QED BY <1>3, <1>4

(* What the crate asks of one device entry, before it follows its parents. *)
EntryFits(list, i) ==
  /\ list[i].bus \in DOMAIN Board
  /\ check_addr(list, i)
  /\ \E rule \in RuleFor(list[i].kind, Board[list[i].bus]) : OptionsFit(list[i], rule)

LEMMA RulesAgree ==
  ASSUME NEW device \in DeviceEntries, NEW t
  PROVE  ~ dialectRefused(device, t)
           <=> \E rule \in RuleFor(device.kind, t) : OptionsFit(device, rule)
<1> DEFINE D     == DOMAIN Dialects
           fits(i) == RuleFits(Dialects[i], device.kind, t)
           rows  == {i \in D : fits(i)}
           takes(i) == OptionsFit(device, Dialects[i])
<1>1. D \in SUBSET (Nat \ {0}) /\ \A i \in D : \A k \in 1 .. i - 1 : k \in D
  BY SiteAssumption
<1>2. ASSUME NEW i \in D PROVE Dialects[i].min_poll \in Nat
  <2> DEFINE R == [dialect : STRING, transports : SUBSET Transports,
                   options : SUBSET STRING, min_poll : Nat]
  <2>1. Dialects \in Seq(R)
    BY SiteAssumption, Zenon
  <2>2. \A r \in R : r.min_poll \in Nat
    OBVIOUS
  <2> HIDE DEF R
  <2>3. Dialects[i] \in R
    BY <2>1
  <2>4. QED BY <2>2, <2>3
<1>3. device.poll \in Nat
  BY DEF DeviceEntries
<1>4. ASSUME NEW i \in D
      PROVE  takes(i) <=> ~ \/ device.options \ Dialects[i].options # {}
                            \/ /\ "poll_period" \in device.options
                               /\ device.poll < Dialects[i].min_poll
  BY <1>2, <1>3 DEF OptionsFit
<1>5. rows = {i \in DOMAIN Dialects : /\ Dialects[i].dialect = device.kind.dialect
                                      /\ t \in Dialects[i].transports}
  BY DEF RuleFits
<1>6. dialectRefused(device, t) <=>
        \A i \in rows : (\E j \in rows : j < i) \/ ~ takes(i)
  <2> HIDE DEF takes, rows
  <2>1. dialectRefused(device, t) <=>
          \A i \in rows : \/ \E j \in rows : j < i
                          \/ device.options \ Dialects[i].options # {}
                          \/ /\ "poll_period" \in device.options
                             /\ device.poll < Dialects[i].min_poll
    BY <1>5 DEF dialectRefused
  <2>2. \A i \in rows : i \in D
    BY DEF rows
  <2>3. QED BY <1>4, <2>1, <2>2
<1>7. ASSUME NEW i \in rows
      PROVE  (\E j \in rows : j < i) <=> ~ \A k \in 1 .. i - 1 : ~ fits(k)
  <2> HIDE DEF fits
  <2>1. \A j \in rows : j < i => j \in 1 .. i - 1
    BY <1>1
  <2>2. \A k \in 1 .. i - 1 : k \in D /\ k < i
    BY <1>1
  <2>3. QED BY <2>1, <2>2
<1>8. (\E rule \in RuleFor(device.kind, t) : OptionsFit(device, rule))
        <=> \E i \in rows : (\A k \in 1 .. i - 1 : ~ fits(k)) /\ takes(i)
  BY DEF RuleFor
<1> HIDE DEF rows, fits, takes
<1>9. QED BY <1>6, <1>7, <1>8

LEMMA EntriesAgree ==
  ASSUME NEW list \in Seq(DeviceEntries), NEW i \in DOMAIN list
  PROVE  ~ deviceRefused(list, i) <=>
           /\ EntryFits(list, i)
           /\ \A j \in i + 1 .. Len(list) :
                list[i].dev # None => list[j].dev # list[i].dev
<1> DEFINE device == list[i]
           t      == Board[device.bus]
           later(P) == \E j \in i + 1 .. Len(list) : P
<1>1. device \in DeviceEntries
  BY LaterEntries
<1>2. CASE device.bus \notin DOMAIN Board
  BY <1>2 DEF deviceRefused, EntryFits
<1>3. CASE device.bus \in DOMAIN Board
  <2>1. t \in Transports
    BY <1>3, SiteAssumption
  <2>2. TRANSPORTS[t].addressed <=> addressed(t)
    BY <2>1, TransportsAgree
  <2>3. ~ dialectRefused(device, t)
          <=> \E rule \in RuleFor(device.kind, t) : OptionsFit(device, rule)
    BY <1>1, RulesAgree
  <2>4. (\E other \in Following(list, i) : other.bus = device.bus /\ other.addr = device.addr)
          <=> \E j \in i + 1 .. Len(list) :
                list[j].bus = device.bus /\ list[j].addr = device.addr
    BY LaterEntries
  <2>5. (\E other \in Following(list, i) : other.dev = device.dev)
          <=> \E j \in i + 1 .. Len(list) : list[j].dev = device.dev
    BY LaterEntries
  <2>6. check_addr(list, i) <=>
          /\ (device.addr # None) <=> addressed(t)
          /\ addressed(t) => ~ \E j \in i + 1 .. Len(list) :
                                 list[j].bus = device.bus /\ list[j].addr = device.addr
    BY DEF check_addr
  <2>7. deviceRefused(list, i) <=>
          \/ device.addr = None /\ TRANSPORTS[t].addressed
          \/ device.addr # None /\ ~ TRANSPORTS[t].addressed
          \/ device.addr # None /\ \E other \in Following(list, i) :
                                      other.bus = device.bus /\ other.addr = device.addr
          \/ dialectRefused(device, t)
          \/ device.dev # None /\ \E other \in Following(list, i) : other.dev = device.dev
    BY <1>3 DEF deviceRefused
  <2>8. EntryFits(list, i) <=>
          /\ check_addr(list, i)
          /\ \E rule \in RuleFor(device.kind, t) : OptionsFit(device, rule)
    BY <1>3 DEF EntryFits
  <2> HIDE DEF device, t
  <2>9. ~ deviceRefused(list, i) <=>
          /\ EntryFits(list, i)
          /\ ~ (device.dev # None /\ \E j \in i + 1 .. Len(list) : list[j].dev = device.dev)
    BY <2>2, <2>3, <2>4, <2>5, <2>6, <2>7, <2>8
  <2>10. QED BY <2>9 DEF device
<1>4. QED BY <1>2, <1>3

(* A set of numbers that is not empty has a least one.                     *)
LEMMA LeastMember ==
  ASSUME NEW T \in SUBSET Nat, T # {}
  PROVE  \E m \in T : \A n \in T : m <= n
<1>1. PICK m \in T : \A n \in T : <<n, m>> \notin OpToRel(<, Nat)
  BY NatLessThanWellFounded, WFMin
<1>2. \A n \in T : ~(n < m)
  BY <1>1 DEF OpToRel
<1>3. QED BY <1>2

(* A recursive function exists: one value per step, each made of the one   *)
(* before.                                                                 *)
StepsIn(n, V, G) == \A i \in 1 .. n : \A v \in V : G[<<i, v>>] \in V
Recursion(n, V, base, G, f) ==
  f \in [0 .. n -> V] /\ f[0] = base /\ \A i \in 1 .. n : f[i] = G[<<i, f[i - 1]>>]

LEMMA RecursionExists ==
  ASSUME NEW n \in Nat, NEW V, NEW base \in V, NEW G, StepsIn(n, V, G)
  PROVE  \E f : Recursion(n, V, base, G, f)
<1> DEFINE Upto(m, f) == Recursion(m, V, base, G, f)
           D == {m \in 0 .. n : \E f : Upto(m, f)}
<1>1. 0 \in D
  <2>1. Upto(0, [m \in 0 .. 0 |-> base])
    BY DEF Recursion
  <2> HIDE DEF Upto
  <2>2. QED BY <2>1
<1>2. ASSUME NEW m \in 0 .. n - 1, m \in D PROVE m + 1 \in D
  <2>1. PICK f : /\ f \in [0 .. m -> V] /\ f[0] = base
                 /\ \A i \in 1 .. m : f[i] = G[<<i, f[i - 1]>>]
    BY <1>2 DEF Recursion
  <2> DEFINE g == [i \in 0 .. m + 1 |-> IF i = m + 1 THEN G[<<i, f[m]>>] ELSE f[i]]
  <2>2. G[<<m + 1, f[m]>>] \in V
    <3>1. m + 1 \in 1 .. n /\ f[m] \in V
      BY <2>1
    <3>2. QED BY <3>1 DEF StepsIn
  <2>3. g \in [0 .. m + 1 -> V]
    BY <2>1, <2>2
  <2>4. g[0] = base
    BY <2>1
  <2>5. ASSUME NEW i \in 1 .. m + 1 PROVE g[i] = G[<<i, g[i - 1]>>]
    <3>1. CASE i = m + 1
      <4>1. i - 1 = m /\ g[m] = f[m]
        BY <3>1
      <4>2. g[i] = G[<<i, f[m]>>]
        BY <3>1
      <4> HIDE DEF g
      <4>3. QED BY <4>1, <4>2
    <3>2. CASE i \in 1 .. m
      <4>1. g[i] = f[i] /\ g[i - 1] = f[i - 1]
        BY <3>2
      <4> HIDE DEF g
      <4>2. QED BY <2>1, <3>2, <4>1
    <3>3. QED BY <3>1, <3>2
  <2>6. Upto(m + 1, g)
    BY <2>3, <2>4, <2>5 DEF Recursion
  <2> HIDE DEF Upto, g
  <2>7. m + 1 \in 0 .. n
    OBVIOUS
  <2>8. QED BY <2>6, <2>7
<1> HIDE DEF D
<1>3. n \in D
  BY <1>1, <1>2, EachUpTo
<1>4. QED BY <1>3 DEF D

-----------------------------------------------------------------------------
(* The chain of parents above a device.                                    *)
First(list, dev, i) ==
  i \in DOMAIN list /\ list[i].dev = dev /\ \A j \in 1 .. i - 1 : list[j].dev # dev
Named(list, dev) == \E i \in DOMAIN list : list[i].dev = dev

LEMMA FirstFacts ==
  ASSUME NEW list \in Seq(DeviceEntries), NEW dev, Named(list, dev)
  PROVE  /\ \E i : First(list, dev, i)
         /\ \A i, j : First(list, dev, i) /\ First(list, dev, j) => i = j
<1> DEFINE T == {i \in DOMAIN list : list[i].dev = dev}
<1>1. T \in SUBSET Nat /\ T # {}
  BY DEF Named
<1>2. DOMAIN list = 1 .. Len(list) /\ Len(list) \in Nat
  OBVIOUS
<1>3. PICK i \in T : \A j \in T : i <= j
  BY <1>1, LeastMember
<1>4. First(list, dev, i)
  BY <1>2, <1>3 DEF First
<1>5. \A k, j : First(list, dev, k) /\ First(list, dev, j) => k = j
  BY <1>2 DEF First
<1>6. QED BY <1>4, <1>5

LEMMA ParentFacts ==
  ASSUME NEW list \in Seq(DeviceEntries), NEW dev
  PROVE  /\ ~ Named(list, dev) => ParentOf(list, dev) = Lost
         /\ \A i : First(list, dev, i) => ParentOf(list, dev) = list[i].parent
         /\ ParentOf(list, dev) \in Int
<1>1. CASE ~ Named(list, dev)
  BY <1>1 DEF ParentOf, Named, First, Lost
<1>2. CASE Named(list, dev)
  <2> DEFINE c == CHOOSE i \in DOMAIN list : /\ list[i].dev = dev
                                             /\ \A j \in 1 .. i - 1 : list[j].dev # dev
  <2>1. First(list, dev, c)
    BY <1>2, FirstFacts DEF First
  <2>2. ParentOf(list, dev) = list[c].parent
    BY <1>2 DEF ParentOf, Named
  <2> HIDE DEF c
  <2>3. \A i : First(list, dev, i) => i = c
    BY <1>2, <2>1, FirstFacts
  <2>4. list[c] \in DeviceEntries
    BY <2>1 DEF First
  <2>5. list[c].parent \in Int
    BY <2>4, DeviceConfigAssumption DEF DeviceEntries
  <2>6. QED BY <1>2, <2>2, <2>3, <2>5
<1>3. QED BY <1>1, <1>2

AboveStep(list, before) ==
  IF before \in {None, Lost} THEN before ELSE ParentOf(list, before)

LEMMA AboveAt ==
  ASSUME NEW list \in Seq(DeviceEntries), NEW device \in DeviceEntries, NEW up,
         up = Above(list, device)
  PROVE  /\ up[0] = device.parent
         /\ \A n \in 1 .. MAX_CONFIG_DEVICES :
              up[n] = AboveStep(list, up[n - 1])
         /\ \A n \in 0 .. MAX_CONFIG_DEVICES : up[n] \in Int
<1> DEFINE max == MAX_CONFIG_DEVICES
           Values(f) == f = [n \in 0 .. MAX_CONFIG_DEVICES |->
                               IF n = 0 THEN device.parent
                               ELSE IF f[n - 1] \in {None, Lost} THEN f[n - 1]
                               ELSE ParentOf(list, f[n - 1])]
           G == [x \in (1 .. max) \X Int |-> AboveStep(list, x[2])]
<1>1. max \in Nat /\ device.parent \in Int
  BY DeviceConfigAssumption DEF DeviceEntries
<1>2. ASSUME NEW n \in 1 .. max, NEW v \in Int
      PROVE  G[<<n, v>>] = AboveStep(list, v) /\ G[<<n, v>>] \in Int
  <2>1. G[<<n, v>>] = AboveStep(list, v)
    OBVIOUS
  <2>2. AboveStep(list, v) \in Int
    BY ParentFacts DEF AboveStep
  <2>3. QED BY <2>1, <2>2
<1> HIDE DEF G
<1>3. PICK f : Recursion(max, Int, device.parent, G, f)
  <2>1. StepsIn(max, Int, G)
    BY <1>2, Zenon DEF StepsIn
  <2> HIDE DEF max
  <2>2. QED BY <1>1, <2>1, RecursionExists
<1>4. /\ f \in [0 .. max -> Int] /\ f[0] = device.parent
      /\ \A n \in 1 .. max : f[n] = AboveStep(list, f[n - 1])
  <2>1. /\ f \in [0 .. max -> Int] /\ f[0] = device.parent
        /\ \A n \in 1 .. max : f[n] = G[<<n, f[n - 1]>>]
    BY <1>3 DEF Recursion
  <2>2. \A n \in 1 .. max : f[n - 1] \in Int
    BY <1>1, <2>1
  <2>3. QED BY <1>2, <2>1, <2>2
<1>5. Values(f)
  <2>1. ASSUME NEW n \in 0 .. max
        PROVE  f[n] = IF n = 0 THEN device.parent
                      ELSE IF f[n - 1] \in {None, Lost} THEN f[n - 1]
                      ELSE ParentOf(list, f[n - 1])
    <3>1. n = 0 \/ n \in 1 .. max
      BY <1>1
    <3>2. 0 \notin 1 .. max
      BY <1>1
    <3>3. QED BY <1>4, <3>1, <3>2 DEF AboveStep
  <2>2. QED BY <1>4, <2>1
<1> DEFINE h == CHOOSE g : Values(g)
<1>6. Values(h)
  <2> HIDE DEF Values
  <2>1. QED BY <1>5
<1>7. up = h
  BY DEF Above
<1> HIDE DEF h
<1>8. h[0] = device.parent
  <2>1. 0 \in 0 .. max
    BY <1>1
  <2>2. QED BY <1>6, <2>1
<1>9. ASSUME NEW n \in 1 .. max PROVE h[n] = AboveStep(list, h[n - 1])
  <2>1. n \in 0 .. max /\ n # 0
    BY <1>1
  <2>2. QED BY <1>6, <2>1 DEF AboveStep
<1> DEFINE T == {n \in 0 .. max : h[n] \in Int}
<1>10. 0 \in T
  BY <1>1, <1>8
<1>11. ASSUME NEW n \in 0 .. max - 1, n \in T PROVE n + 1 \in T
  <2>1. n + 1 \in 1 .. max /\ (n + 1) - 1 = n /\ n + 1 \in 0 .. max
    BY <1>1
  <2>2. h[n + 1] = AboveStep(list, h[n])
    BY <1>9, <2>1
  <2>3. h[n] \in Int
    BY <1>11
  <2> HIDE DEF T
  <2>4. h[n + 1] \in Int
    BY <2>2, <2>3, ParentFacts DEF AboveStep
  <2>5. QED BY <2>1, <2>4 DEF T
<1> HIDE DEF T, max
<1>12. \A n \in 0 .. max : n \in T
  BY <1>1, <1>10, <1>11, EachUpTo
<1>13. QED BY <1>7, <1>8, <1>9, <1>12 DEF T, max

(* A chain that has ended goes no further ...                              *)
LEMMA EndedStays ==
  ASSUME NEW list \in Seq(DeviceEntries), NEW device \in DeviceEntries, NEW up,
         up = Above(list, device), NEW m \in 0 .. MAX_CONFIG_DEVICES,
         up[m] \in {None, Lost}
  PROVE  \A n \in m .. MAX_CONFIG_DEVICES : up[n] = up[m]
<1> DEFINE max == MAX_CONFIG_DEVICES
           T   == {n \in 0 .. max - m : up[m + n] = up[m]}
<1>1. max \in Nat /\ \A n \in 1 .. max : up[n] = AboveStep(list, up[n - 1])
  BY AboveAt, DeviceConfigAssumption
<1> HIDE DEF max
<1>0. m \in 0 .. max
  BY DEF max
<1>2. 0 \in T
  BY <1>0, <1>1
<1>3. ASSUME NEW n \in 0 .. max - m - 1, n \in T PROVE n + 1 \in T
  <2>1. /\ m + (n + 1) \in 1 .. max /\ (m + (n + 1)) - 1 = m + n /\ n + 1 \in 0 .. max - m
    BY <1>0, <1>1
  <2>2. up[m + (n + 1)] = AboveStep(list, up[m + n])
    BY <1>1, <2>1
  <2>3. up[m + n] = up[m]
    BY <1>3
  <2>4. up[m + (n + 1)] = up[m]
    BY <2>2, <2>3 DEF AboveStep
  <2>5. QED BY <2>1, <2>4
<1>4. max - m \in Nat
  BY <1>0, <1>1
<1> HIDE DEF T
<1>5. \A n \in 0 .. max - m : n \in T
  BY <1>2, <1>3, <1>4, EachUpTo
<1>6. ASSUME NEW n \in m .. max PROVE up[n] = up[m]
  <2>1. n - m \in 0 .. max - m /\ m + (n - m) = n
    BY <1>0, <1>1
  <2>2. QED BY <1>5, <2>1 DEF T
<1>7. QED BY <1>6 DEF max

(* ... and one that meets a listed device goes on as that device's does.   *)
LEMMA AboveShift ==
  ASSUME NEW list \in Seq(DeviceEntries), NEW device \in DeviceEntries, NEW up,
         up = Above(list, device), NEW k \in 0 .. MAX_CONFIG_DEVICES - 1,
         up[k] # None, NEW j, First(list, up[k], j), NEW upj, upj = Above(list, list[j])
  PROVE  \A m \in 0 .. MAX_CONFIG_DEVICES - k - 1 : up[k + 1 + m] = upj[m]
<1> DEFINE max  == MAX_CONFIG_DEVICES
           rest == max - k - 1
           T    == {n \in 0 .. rest : up[k + 1 + n] = upj[n]}
<1>1. /\ max \in Nat /\ \A n \in 1 .. max : up[n] = AboveStep(list, up[n - 1])
      /\ list[j] \in DeviceEntries /\ list[j].dev = up[k]
  BY AboveAt, DeviceConfigAssumption DEF First
<1>2. upj[0] = list[j].parent /\ \A n \in 1 .. max : upj[n] = AboveStep(list, upj[n - 1])
  BY <1>1, AboveAt
<1> HIDE DEF max
<1>0. k \in 0 .. max - 1
  BY DEF max
<1>3. up[k] \notin {None, Lost}
  <2>1. list[j].dev \in 0 .. LastDev
    BY <1>1 DEF DeviceEntries
  <2>2. list[j].dev # Lost
    BY <2>1, DeviceConfigAssumption DEF Lost
  <2>3. QED BY <1>1, <2>2
<1>4. 0 \in T
  <2>1. k + 1 \in 1 .. max /\ (k + 1) - 1 = k /\ k + 1 + 0 = k + 1 /\ 0 \in 0 .. rest
    BY <1>0, <1>1
  <2>2. up[k + 1] = ParentOf(list, up[k])
    BY <1>1, <1>3, <2>1 DEF AboveStep
  <2>3. ParentOf(list, up[k]) = list[j].parent
    BY ParentFacts
  <2>4. QED BY <1>2, <2>1, <2>2, <2>3
<1>5. ASSUME NEW n \in 0 .. rest - 1, n \in T PROVE n + 1 \in T
  <2>1. /\ k + 1 + (n + 1) \in 1 .. max /\ (k + 1 + (n + 1)) - 1 = k + 1 + n
        /\ n + 1 \in 0 .. rest /\ n + 1 \in 1 .. max /\ (n + 1) - 1 = n
    BY <1>0, <1>1
  <2>2. up[k + 1 + (n + 1)] = AboveStep(list, up[k + 1 + n])
    BY <1>1, <2>1
  <2>3. upj[n + 1] = AboveStep(list, upj[n])
    BY <1>2, <2>1
  <2>4. up[k + 1 + n] = upj[n]
    BY <1>5
  <2>5. QED BY <2>1, <2>2, <2>3, <2>4
<1>6. rest \in Nat
  BY <1>0, <1>1
<1> HIDE DEF T, rest
<1>7. \A n \in 0 .. rest : n \in T
  BY <1>4, <1>5, <1>6, EachUpTo
<1>8. QED BY <1>7 DEF T, rest, max

(* Met at most at n: the top of the chain, and where it is that it ends.   *)
Top(up, n) == up[n] = None /\ \A m \in 0 .. n - 1 : up[m] # None

LEMMA TopExists ==
  ASSUME NEW up, NEW n \in Nat, up[n] = None
  PROVE  \E t \in 0 .. n : Top(up, t)
<1> DEFINE T == {m \in 0 .. n : up[m] = None}
<1>1. T \in SUBSET Nat /\ n \in T
  OBVIOUS
<1>2. PICK t \in T : \A m \in T : t <= m
  <2> HIDE DEF T
  <2>1. QED BY <1>1, LeastMember
<1>3. QED BY <1>2 DEF Top

(* How high each entry of a list stands: parents stand lower, and nothing  *)
(* higher than the depth.                                                  *)
Standing(list, high) ==
  \A i \in DOMAIN list :
    /\ high[i] \in Nat /\ high[i] >= 1
    /\ high[i] <= max_topology_depth /\ high[i] <= MAX_CONFIG_DEVICES
    /\ \/ list[i].parent = None
       \/ \E j \in DOMAIN list : list[j].dev = list[i].parent /\ high[j] < high[i]

LEMMA ChainsStand ==
  ASSUME NEW list \in Seq(DeviceEntries), \A i \in DOMAIN list : check_chain(list, list[i])
  PROVE  \E high : Standing(list, high)
<1> DEFINE max    == MAX_CONFIG_DEVICES
           up(i)  == Above(list, list[i])
           top(i) == CHOOSE t \in 0 .. max - 1 : Top(up(i), t)
           high   == [i \in DOMAIN list |-> top(i) + 1]
<1>1. max \in Nat /\ max_topology_depth \in Nat
  BY DeviceConfigAssumption
<1>2. ASSUME NEW i \in DOMAIN list, NEW n \in 0 .. max - 1, up(i)[n] = None
      PROVE  top(i) \in 0 .. max - 1 /\ Top(up(i), top(i)) /\ top(i) <= n
  <2> DEFINE u == up(i)
  <2> HIDE DEF u, max
  <2>1. PICK t \in 0 .. n : Top(u, t)
    BY <1>2, TopExists DEF u
  <2>2. t \in 0 .. max - 1
    BY <1>1
  <2> DEFINE c == CHOOSE s \in 0 .. max - 1 : Top(u, s)
  <2>3. c \in 0 .. max - 1 /\ Top(u, c)
    BY <2>1, <2>2
  <2> HIDE DEF c
  <2>4. c <= n
    BY <1>2, <2>3 DEF Top, u
  <2>5. QED BY <2>3, <2>4 DEF c, u
<1>3. ASSUME NEW i \in DOMAIN list
      PROVE  /\ top(i) \in 0 .. max - 1 /\ Top(up(i), top(i))
             /\ top(i) + 1 <= max_topology_depth
  <2>1. PICK n \in 0 .. max - 1 : up(i)[n] = None /\ n + 1 <= max_topology_depth
    BY DEF check_chain
  <2>2. top(i) \in 0 .. max - 1 /\ Top(up(i), top(i)) /\ top(i) <= n
    BY <1>2, <2>1
  <2> HIDE DEF top, up, max
  <2>3. QED BY <1>1, <2>1, <2>2
<1>4. ASSUME NEW i \in DOMAIN list, list[i].parent # None
      PROVE  \E j \in DOMAIN list : list[j].dev = list[i].parent /\ top(j) < top(i)
  <2> DEFINE p == list[i].parent
             u == up(i)
             t == top(i)
  <2>1. t \in 0 .. max - 1 /\ Top(u, t)
    BY <1>3
  <2>2. list[i] \in DeviceEntries
    OBVIOUS
  <2>3. u = Above(list, list[i])
    OBVIOUS
  <2> HIDE DEF u, t, top
  <2>4. u[0] = p /\ \A n \in 1 .. max : u[n] = AboveStep(list, u[n - 1])
    BY <2>2, <2>3, AboveAt
  <2>5. u[t] = None /\ u[0] # None /\ t # 0
    BY <1>4, <2>1, <2>4 DEF Top
  <2>6. 1 \in 1 .. max /\ 1 - 1 = 0 /\ 1 \in 0 .. max /\ t \in 1 .. max /\ 0 \in 0 .. max - 1
        /\ 0 \in 0 .. max
    BY <1>1, <2>1, <2>5
  <2>7. Named(list, p)
    <3>1. SUFFICES ASSUME ~ Named(list, p) PROVE FALSE
      OBVIOUS
    <3>2. ParentOf(list, p) = Lost
      BY <3>1, ParentFacts
    <3>3. u[1] = Lost
      <4>1. u[1] = AboveStep(list, p)
        BY <2>4, <2>6
      <4>2. QED BY <3>2, <4>1, <1>4 DEF AboveStep, Lost
    <3>4. u[t] = u[1]
      BY <2>2, <2>3, <2>6, <3>3, EndedStays
    <3>5. QED BY <2>5, <3>3, <3>4 DEF None, Lost
  <2>8. PICK j : First(list, p, j)
    BY <2>7, FirstFacts
  <2>9. j \in DOMAIN list /\ list[j].dev = p
    BY <2>8 DEF First
  <2>10. \A m \in 0 .. max - 0 - 1 : u[0 + 1 + m] = up(j)[m]
    <3> DEFINE uj == up(j)
    <3>1. uj = Above(list, list[j])
      OBVIOUS
    <3> HIDE DEF uj, up, p
    <3>2. First(list, u[0], j)
      BY <2>4, <2>8
    <3>3. \A m \in 0 .. max - 0 - 1 : u[0 + 1 + m] = uj[m]
      BY <2>2, <2>3, <2>5, <2>6, <3>1, <3>2, AboveShift
    <3>4. QED BY <3>3 DEF uj
  <2>11. t - 1 \in 0 .. max - 1 /\ t - 1 \in 0 .. max - 0 - 1 /\ 0 + 1 + (t - 1) = t
    BY <1>1, <2>6, <2>1
  <2>12. up(j)[t - 1] = None
    BY <2>5, <2>10, <2>11
  <2>13. top(j) \in 0 .. max - 1 /\ top(j) <= t - 1
    BY <1>2, <2>9, <2>11, <2>12 DEF top
  <2> HIDE DEF up, max
  <2>14. top(j) < t
    BY <1>1, <2>6, <2>13
  <2>15. QED BY <2>9, <2>14 DEF t
<1> HIDE DEF top, up
<1>5. ASSUME NEW i \in DOMAIN list
      PROVE  /\ high[i] \in Nat /\ high[i] >= 1
             /\ high[i] <= max_topology_depth /\ high[i] <= max
             /\ \/ list[i].parent = None
                \/ \E j \in DOMAIN list : list[j].dev = list[i].parent /\ high[j] < high[i]
  <2>1. high[i] = top(i) + 1 /\ \A j \in DOMAIN list : high[j] = top(j) + 1
    OBVIOUS
  <2> HIDE DEF high, max
  <2>2. high[i] \in Nat /\ high[i] >= 1 /\ high[i] <= max_topology_depth /\ high[i] <= max
    BY <1>1, <1>3, <2>1
  <2>3. CASE list[i].parent # None
    <3>1. PICK j \in DOMAIN list : list[j].dev = list[i].parent /\ top(j) < top(i)
      BY <1>4, <2>3
    <3>2. top(j) \in Int /\ top(i) \in Int
      BY <1>1, <1>3
    <3>3. high[j] < high[i]
      BY <2>1, <3>1, <3>2
    <3>4. QED BY <2>2, <3>1, <3>3
  <2>4. QED BY <2>2, <2>3
<1> HIDE DEF high
<1>6. Standing(list, high)
  BY <1>5 DEF Standing
<1>7. QED BY <1>6

(* The client's walk: a step of it, from what it has found so far.         *)
Verdicts == {"onward", "passes", "too_deep", "parent_loop", "parent_not_listed"}
ChainWalks == [at : Int, seen : SUBSET Int, held : Nat, says : Verdicts]
ChainStart(device) == [at |-> device.parent, seen |-> {}, held |-> 1, says |-> "onward"]
Says(w, says) == [w EXCEPT !.says = says]

ChainStep(list, device, w) ==
  IF w.says # "onward" THEN w
  ELSE IF w.at = None
  THEN Says(w, IF w.held > max_topology_depth THEN "too_deep" ELSE "passes")
  ELSE IF w.at = device.dev \/ w.at \in w.seen THEN Says(w, "parent_loop")
  ELSE IF ~ Named(list, w.at) THEN Says(w, "parent_not_listed")
  ELSE [at |-> ParentOf(list, w.at), seen |-> w.seen \cup {w.at},
        held |-> w.held + 1, says |-> "onward"]

LEMMA ChainStepType ==
  ASSUME NEW list \in Seq(DeviceEntries), NEW device, NEW w \in ChainWalks
  PROVE  ChainStep(list, device, w) \in ChainWalks
<1>1. ParentOf(list, w.at) \in Int
  BY ParentFacts
<1>2. \A s \in Verdicts : Says(w, s) \in ChainWalks
  BY DEF Says, ChainWalks
<1>3. [at |-> ParentOf(list, w.at), seen |-> w.seen \cup {w.at},
       held |-> w.held + 1, says |-> "onward"] \in ChainWalks
  <2>1. w.at \in Int /\ w.seen \in SUBSET Int /\ w.held \in Nat
    BY DEF ChainWalks
  <2>2. w.seen \cup {w.at} \in SUBSET Int /\ w.held + 1 \in Nat
    BY <2>1
  <2>3. QED BY <1>1, <2>2 DEF ChainWalks, Verdicts
<1>4. CASE w.says # "onward"
  BY <1>4 DEF ChainStep
<1>5. CASE w.says = "onward"
  <2>1. \/ \E s \in Verdicts : ChainStep(list, device, w) = Says(w, s)
        \/ ChainStep(list, device, w) =
             [at |-> ParentOf(list, w.at), seen |-> w.seen \cup {w.at},
              held |-> w.held + 1, says |-> "onward"]
    BY <1>5 DEF ChainStep, Verdicts
  <2>2. QED BY <1>2, <1>3, <2>1
<1>6. QED BY <1>4, <1>5

LEMMA ChainAt ==
  ASSUME NEW list \in Seq(DeviceEntries), NEW device \in DeviceEntries
  PROVE  \E w : /\ chain(list, device) = w[MAX_CONFIG_DEVICES].says
                /\ w[0] = ChainStart(device)
                /\ \A n \in 1 .. MAX_CONFIG_DEVICES :
                     w[n] = ChainStep(list, device, w[n - 1])
<1> DEFINE max == MAX_CONFIG_DEVICES
           above(dev) == CHOOSE i \in DOMAIN list :
                           list[i].dev = dev /\ \A j \in 1 .. i - 1 : list[j].dev # dev
           one(w) ==
             IF w.says # "onward" THEN w
             ELSE IF w.at = None
             THEN Says(w, IF w.held > max_topology_depth THEN "too_deep" ELSE "passes")
             ELSE IF w.at = device.dev \/ w.at \in w.seen THEN Says(w, "parent_loop")
             ELSE IF \A i \in DOMAIN list : list[i].dev # w.at
             THEN Says(w, "parent_not_listed")
             ELSE [at |-> list[above(w.at)].parent, seen |-> w.seen \cup {w.at},
                   held |-> w.held + 1, says |-> "onward"]
           Values(f) == f = [n \in 0 .. MAX_CONFIG_DEVICES |->
                               IF n = 0 THEN ChainStart(device) ELSE one(f[n - 1])]
           G == [x \in (1 .. max) \X ChainWalks |-> ChainStep(list, device, x[2])]
<1>1. max \in Nat /\ ChainStart(device) \in ChainWalks
  <2>1. device.parent \in Int
    BY DeviceConfigAssumption DEF DeviceEntries
  <2>2. ChainStart(device) \in ChainWalks
    BY <2>1 DEF ChainStart, ChainWalks, Verdicts
  <2>3. QED BY <2>2, DeviceConfigAssumption
<1>2. ASSUME NEW w PROVE one(w) = ChainStep(list, device, w)
  <2>1. ASSUME Named(list, w.at) PROVE list[above(w.at)].parent = ParentOf(list, w.at)
    BY <2>1 DEF ParentOf, Named
  <2>2. (\A i \in DOMAIN list : list[i].dev # w.at) <=> ~ Named(list, w.at)
    BY DEF Named
  <2> HIDE DEF above
  <2>3. QED BY <2>1, <2>2 DEF ChainStep
<1> HIDE DEF one
<1>3. ASSUME NEW n \in 1 .. max, NEW v \in ChainWalks
      PROVE  G[<<n, v>>] = ChainStep(list, device, v) /\ G[<<n, v>>] \in ChainWalks
  <2>1. G[<<n, v>>] = ChainStep(list, device, v)
    OBVIOUS
  <2>2. QED BY <2>1, ChainStepType
<1> HIDE DEF G
<1>4. PICK f : Recursion(max, ChainWalks, ChainStart(device), G, f)
  <2>1. StepsIn(max, ChainWalks, G)
    BY <1>3, Zenon DEF StepsIn
  <2> HIDE DEF max
  <2>2. QED BY <1>1, <2>1, RecursionExists
<1>5. /\ f \in [0 .. max -> ChainWalks] /\ f[0] = ChainStart(device)
      /\ \A n \in 1 .. max : f[n] = ChainStep(list, device, f[n - 1])
  <2>1. /\ f \in [0 .. max -> ChainWalks] /\ f[0] = ChainStart(device)
        /\ \A n \in 1 .. max : f[n] = G[<<n, f[n - 1]>>]
    BY <1>4 DEF Recursion
  <2>2. \A n \in 1 .. max : f[n - 1] \in ChainWalks
    BY <1>1, <2>1
  <2>3. QED BY <1>3, <2>1, <2>2
<1>6. Values(f)
  <2>1. ASSUME NEW n \in 0 .. max
        PROVE  f[n] = IF n = 0 THEN ChainStart(device) ELSE one(f[n - 1])
    <3>1. n = 0 \/ (n \in 1 .. max /\ n # 0)
      BY <1>1
    <3>2. QED BY <1>2, <1>5, <3>1
  <2>2. QED BY <1>5, <2>1
<1> DEFINE h == CHOOSE g : Values(g)
<1>7. Values(h)
  <2> HIDE DEF Values
  <2>1. QED BY <1>6
<1>8. chain(list, device) = h[MAX_CONFIG_DEVICES].says
  BY DEF chain, one, ChainStart, Says
<1> HIDE DEF h
<1>9. h[0] = ChainStart(device)
  <2>1. 0 \in 0 .. max
    BY <1>1
  <2>2. QED BY <1>7, <2>1
<1>10. ASSUME NEW n \in 1 .. max PROVE h[n] = ChainStep(list, device, h[n - 1])
  <2>1. n \in 0 .. max /\ n # 0
    BY <1>1
  <2>2. h[n] = one(h[n - 1])
    BY <1>7, <2>1
  <2>3. QED BY <1>2, <2>2
<1>11. QED BY <1>8, <1>9, <1>10

(* A link the client follows, and what the walk holds while it finds such  *)
(* links only.                                                             *)
Good(list, device, up, m) ==
  /\ up[m] # None /\ up[m] # device.dev /\ Named(list, up[m])
  /\ \A k \in 0 .. m - 1 : up[k] # up[m]
GoodTo(list, device, up, n) == \A m \in 0 .. n - 1 : Good(list, device, up, m)
Passed(up, n) == {up[k] : k \in 0 .. n - 1}
Onward(up, n) == [at |-> up[n], seen |-> Passed(up, n), held |-> n + 1, says |-> "onward"]
EndsAt(list, device, up, n) ==
  up[n] = None /\ n + 1 <= max_topology_depth /\ GoodTo(list, device, up, n)

LEMMA WalkOnward ==
  ASSUME NEW list \in Seq(DeviceEntries), NEW device \in DeviceEntries, NEW up,
         up = Above(list, device), NEW n \in 0 .. MAX_CONFIG_DEVICES - 1,
         NEW w, w = Onward(up, n), GoodTo(list, device, up, n),
         NEW v, v = ChainStep(list, device, w)
  PROVE  /\ Good(list, device, up, n) => v = Onward(up, n + 1)
         /\ v.says = "onward" => Good(list, device, up, n)
         /\ v.says = "passes" <=> up[n] = None /\ n + 1 <= max_topology_depth
<1>1. /\ w.says = "onward" /\ w.at = up[n] /\ w.seen = Passed(up, n) /\ w.held = n + 1
      /\ \A s : Says(w, s).says = s
  BY DEF Onward, Says
<1>2. up[n] \in Passed(up, n) <=> ~ \A k \in 0 .. n - 1 : up[k] # up[n]
  BY DEF Passed
<1>3. n \in Nat /\ max_topology_depth \in Nat
  BY DeviceConfigAssumption
<1>4. CASE up[n] = None
  <2>1. v = Says(w, IF n + 1 > max_topology_depth THEN "too_deep" ELSE "passes")
    BY <1>1, <1>4 DEF ChainStep
  <2>2. ~ Good(list, device, up, n)
    BY <1>4 DEF Good
  <2>3. v.says = IF n + 1 > max_topology_depth THEN "too_deep" ELSE "passes"
    BY <1>1, <2>1
  <2>4. QED BY <1>3, <1>4, <2>2, <2>3
<1>5. CASE up[n] # None /\ Good(list, device, up, n)
  <2>1. v = [at |-> ParentOf(list, up[n]), seen |-> Passed(up, n) \cup {up[n]},
             held |-> n + 1 + 1, says |-> "onward"]
    BY <1>1, <1>2, <1>5 DEF ChainStep, Good
  <2>2. up[n + 1] = ParentOf(list, up[n])
    <3>1. n + 1 \in 1 .. MAX_CONFIG_DEVICES /\ (n + 1) - 1 = n
      BY DeviceConfigAssumption
    <3>2. up[n + 1] = AboveStep(list, up[n])
      BY <3>1, AboveAt
    <3>3. up[n] # Lost
      <4>1. PICK i \in DOMAIN list : list[i].dev = up[n]
        BY <1>5 DEF Good, Named
      <4>2. list[i] \in DeviceEntries
        OBVIOUS
      <4>3. list[i].dev \in 0 .. LastDev
        BY <4>2 DEF DeviceEntries
      <4>4. QED BY <4>1, <4>3, DeviceConfigAssumption DEF Lost
    <3>4. QED BY <1>5, <3>2, <3>3 DEF AboveStep
  <2>3. Passed(up, n + 1) = Passed(up, n) \cup {up[n]}
    <3>1. \A k : k \in 0 .. (n + 1) - 1 <=> k \in 0 .. n - 1 \/ k = n
      BY <1>3
    <3>2. QED BY <3>1 DEF Passed
  <2>4. v = Onward(up, n + 1)
    BY <2>1, <2>2, <2>3 DEF Onward
  <2>5. v.says = "onward"
    BY <2>1
  <2>6. QED BY <1>5, <2>4, <2>5
<1>6. CASE up[n] # None /\ ~ Good(list, device, up, n)
  <2>1. v = Says(w, "parent_loop") \/ v = Says(w, "parent_not_listed")
    BY <1>1, <1>2, <1>6 DEF ChainStep, Good
  <2>2. QED BY <1>1, <1>6, <2>1
<1>7. QED BY <1>4, <1>5, <1>6

LEMMA WalkSays ==
  ASSUME NEW list \in Seq(DeviceEntries), NEW device \in DeviceEntries, NEW up,
         up = Above(list, device), NEW w, w[0] = ChainStart(device),
         \A n \in 1 .. MAX_CONFIG_DEVICES : w[n] = ChainStep(list, device, w[n - 1])
  PROVE  \A n \in 0 .. MAX_CONFIG_DEVICES :
           /\ w[n].says = "onward" => GoodTo(list, device, up, n)
           /\ GoodTo(list, device, up, n) => w[n] = Onward(up, n)
           /\ w[n].says = "passes" <=> \E t \in 0 .. n - 1 : EndsAt(list, device, up, t)
<1> DEFINE max == MAX_CONFIG_DEVICES
           to(n) == GoodTo(list, device, up, n)
           says(n) == /\ w[n].says = "onward" => to(n)
                      /\ to(n) => w[n] = Onward(up, n)
                      /\ w[n].says = "passes" <=> \E t \in 0 .. n - 1 : EndsAt(list, device, up, t)
           T == {n \in 0 .. max : says(n)}
<1>1. max \in Nat
  BY DeviceConfigAssumption
<1>2. 0 \in T
  <2>1. up[0] = device.parent
    BY AboveAt
  <2>2. Passed(up, 0) = {}
    BY DEF Passed
  <2>3. w[0] = Onward(up, 0)
    <3>1. Onward(up, 0) = [at |-> device.parent, seen |-> {}, held |-> 1, says |-> "onward"]
      <4> DEFINE seen == Passed(up, 0)
                 at   == up[0]
                 held == 0 + 1
      <4>1. Onward(up, 0) = [at |-> at, seen |-> seen, held |-> held, says |-> "onward"]
        BY Zenon DEF Onward
      <4>2. at = device.parent /\ seen = {} /\ held = 1
        BY <2>1, <2>2
      <4> HIDE DEF at, seen, held
      <4>3. QED BY <4>1, <4>2
    <3>2. QED BY <3>1 DEF ChainStart
  <2>4. to(0) /\ w[0].says = "onward"
    BY <2>3 DEF GoodTo, Onward
  <2>5. QED BY <1>1, <2>3, <2>4
<1>3. ASSUME NEW n \in 0 .. max - 1, n \in T PROVE n + 1 \in T
  <2>1. says(n)
    BY <1>3
  <2>2. n + 1 \in 1 .. max /\ (n + 1) - 1 = n /\ n + 1 \in 0 .. max /\ n \in Nat
    BY <1>1
  <2>3. w[n + 1] = ChainStep(list, device, w[n])
    BY <2>2
  <2>4. to(n + 1) <=> to(n) /\ Good(list, device, up, n)
    <3>1. \A m : m \in 0 .. (n + 1) - 1 <=> m \in 0 .. n - 1 \/ m = n
      BY <2>2
    <3>2. QED BY <3>1 DEF GoodTo
  <2>5. (\E t \in 0 .. (n + 1) - 1 : EndsAt(list, device, up, t))
           <=> (\E t \in 0 .. n - 1 : EndsAt(list, device, up, t)) \/ EndsAt(list, device, up, n)
    <3>1. \A m : m \in 0 .. (n + 1) - 1 <=> m \in 0 .. n - 1 \/ m = n
      BY <2>2
    <3>2. QED BY <3>1
  <2>6. CASE to(n)
    <3>1. w[n] = Onward(up, n) /\ w[n].says = "onward"
      BY <2>1, <2>6 DEF Onward
    <3>2. /\ Good(list, device, up, n) => w[n + 1] = Onward(up, n + 1)
          /\ w[n + 1].says = "onward" => Good(list, device, up, n)
          /\ w[n + 1].says = "passes" <=> up[n] = None /\ n + 1 <= max_topology_depth
      <4> DEFINE u == w[n]
                 v == w[n + 1]
      <4>1. u = Onward(up, n) /\ v = ChainStep(list, device, u)
        BY <2>3, <3>1
      <4> HIDE DEF u, v
      <4>2. /\ Good(list, device, up, n) => v = Onward(up, n + 1)
            /\ v.says = "onward" => Good(list, device, up, n)
            /\ v.says = "passes" <=> up[n] = None /\ n + 1 <= max_topology_depth
        BY <2>6, <4>1, WalkOnward
      <4>3. QED BY <4>2 DEF v
    <3>3. w[n + 1].says = "passes" <=> EndsAt(list, device, up, n)
      BY <2>6, <3>2 DEF EndsAt
    <3>4. ~ \E t \in 0 .. n - 1 : EndsAt(list, device, up, t)
      BY <2>1, <3>1
    <3> HIDE DEF to
    <3>5. QED BY <2>2, <2>4, <2>5, <2>6, <3>2, <3>3, <3>4
  <2>7. CASE ~ to(n)
    <3>1. w[n + 1] = w[n]
      BY <2>1, <2>3, <2>7 DEF ChainStep
    <3>2. ~ EndsAt(list, device, up, n)
      BY <2>7 DEF EndsAt
    <3> HIDE DEF to
    <3>3. QED BY <2>1, <2>2, <2>4, <2>5, <2>7, <3>1, <3>2
  <2>8. QED BY <2>6, <2>7
<1> HIDE DEF T, max
<1>4. \A n \in 0 .. max : n \in T
  BY <1>1, <1>2, <1>3, EachUpTo
<1>5. QED BY <1>4 DEF T, max

LEMMA ChainsAgree ==
  ASSUME NEW list \in Seq(DeviceEntries), NEW device \in DeviceEntries
  PROVE  chain(list, device) = "passes" <=> check_chain(list, device)
<1> DEFINE max == MAX_CONFIG_DEVICES
           up  == Above(list, device)
<1>1. max \in Nat /\ max_topology_depth \in Nat /\ max \in 0 .. max
  BY DeviceConfigAssumption
<1>2. chain(list, device) = "passes" <=> \E t \in 0 .. max - 1 : EndsAt(list, device, up, t)
  <2>1. PICK w : /\ chain(list, device) = w[max].says
                 /\ w[0] = ChainStart(device)
                 /\ \A n \in 1 .. max : w[n] = ChainStep(list, device, w[n - 1])
    BY ChainAt
  <2> DEFINE u == up
  <2>2. u = Above(list, device)
    OBVIOUS
  <2> HIDE DEF u
  <2>3. w[max].says = "passes" <=> \E t \in 0 .. max - 1 : EndsAt(list, device, u, t)
    BY <1>1, <2>1, <2>2, WalkSays
  <2>4. QED BY <2>1, <2>3 DEF u
<1>3. up = Above(list, device)
  OBVIOUS
<1>4. check_chain(list, device) <=>
        \E n \in 0 .. max - 1 :
           /\ up[n] = None /\ n + 1 <= max_topology_depth
           /\ \A m \in 0 .. n - 1 : /\ up[m] # device.dev
                                    /\ \A k \in 0 .. m - 1 : up[k] # up[m]
  BY DEF check_chain
<1> HIDE DEF up, max
<1>5. ASSUME NEW t \in 0 .. max - 1, EndsAt(list, device, up, t)
      PROVE  check_chain(list, device)
  BY <1>4, <1>5 DEF EndsAt, GoodTo, Good
<1>6. ASSUME NEW n \in 0 .. max - 1, up[n] = None, n + 1 <= max_topology_depth,
             \A m \in 0 .. n - 1 : /\ up[m] # device.dev
                                   /\ \A k \in 0 .. m - 1 : up[k] # up[m]
      PROVE  \E t \in 0 .. max - 1 : EndsAt(list, device, up, t)
  <2>1. n \in Nat
    BY <1>1
  <2>2. PICK t \in 0 .. n : Top(up, t)
    BY <1>6, <2>1, TopExists
  <2>3. t \in 0 .. max - 1 /\ t + 1 <= max_topology_depth /\ up[t] = None
    BY <1>1, <1>6, <2>2 DEF Top
  <2>4. ASSUME NEW m \in 0 .. t - 1 PROVE Good(list, device, up, m)
    <3>1. m \in 0 .. n - 1 /\ up[m] # None
      BY <2>1, <2>2 DEF Top
    <3>2. Named(list, up[m])
      <4>1. SUFFICES ASSUME ~ Named(list, up[m]) PROVE FALSE
        OBVIOUS
      <4>2. m + 1 \in 1 .. max /\ (m + 1) - 1 = m /\ m + 1 \in 0 .. max /\ m \in 0 .. max
            /\ t \in m .. max /\ t \in m + 1 .. max
        BY <1>1, <2>3
      <4>3. up[m + 1] = Lost
        <5>1. up[m + 1] = AboveStep(list, up[m])
          BY <1>3, <4>2, AboveAt DEF max
        <5>2. ParentOf(list, up[m]) = Lost
          BY <4>1, ParentFacts
        <5>3. QED BY <3>1, <5>1, <5>2 DEF AboveStep
      <4> DEFINE p == m + 1
      <4>4. p \in 0 .. max /\ t \in p .. max /\ up[p] = Lost
        BY <4>2, <4>3
      <4> HIDE DEF p
      <4>5. up[t] = up[p]
        BY <1>3, <4>4, EndedStays DEF max
      <4>6. QED BY <2>3, <4>4, <4>5 DEF None, Lost
    <3>3. QED BY <1>6, <3>1, <3>2 DEF Good
  <2>5. QED BY <2>3, <2>4 DEF EndsAt, GoodTo
<1>7. QED BY <1>2, <1>4, <1>5, <1>6

(* The client's check passes the bodies that the crate's check passes.     *)
LEMMA ChecksAgree ==
  ASSUME NEW body, body.buses \in Seq(BusEntries), body.devices \in Seq(DeviceEntries)
  PROVE  checkBusesAndDevices(body) <=> Len(body.buses) <= MAX_CONFIG_BUSES /\ check(body)
<1> DEFINE list == body.devices
<1>1. check_buses(body.buses) <=> \A i \in DOMAIN body.buses : ~ busRefused(body.buses, i)
  BY BusesAgree
<1>2. \A i \in DOMAIN list :
        ~ deviceRefused(list, i) <=>
           /\ EntryFits(list, i)
           /\ \A j \in i + 1 .. Len(list) :
                list[i].dev # None => list[j].dev # list[i].dev
  BY EntriesAgree
<1>3. \A i \in DOMAIN list : chain(list, list[i]) = "passes" <=> check_chain(list, list[i])
  BY ChainsAgree
<1>4. check(body) <=>
        /\ check_buses(body.buses)
        /\ Len(list) <= max_devices /\ Len(list) <= MAX_CONFIG_DEVICES
        /\ \A i \in DOMAIN list : EntryFits(list, i)
        /\ \A i \in DOMAIN list : \A j \in i + 1 .. Len(list) :
             list[i].dev # None => list[j].dev # list[i].dev
        /\ \A i \in DOMAIN list : check_chain(list, list[i])
  BY DEF check, EntryFits, DevsApart
<1> HIDE DEF list
<1>5. checkBusesAndDevices(body) <=>
        /\ Len(body.buses) <= MAX_CONFIG_BUSES
        /\ \A i \in DOMAIN body.buses : ~ busRefused(body.buses, i)
        /\ Len(list) <= max_devices /\ Len(list) <= MAX_CONFIG_DEVICES
        /\ \A i \in DOMAIN list : ~ deviceRefused(list, i)
        /\ \A i \in DOMAIN list : chain(list, list[i]) = "passes"
  BY DEF checkBusesAndDevices, list
<1>6. QED BY <1>1, <1>2, <1>3, <1>4, <1>5

LEMMA ClientPassesChecked == PassedByClient = Checked
<1>1. ASSUME NEW body \in Writes
      PROVE  checkBusesAndDevices(body) <=>
               /\ Len(body.buses) <= MAX_CONFIG_BUSES
               /\ Len(body.devices) <= MAX_CONFIG_DEVICES
               /\ check(body)
  <2>1. checkBusesAndDevices(body) <=> Len(body.buses) <= MAX_CONFIG_BUSES /\ check(body)
    BY WritesAssumption, ChecksAgree
  <2>2. check(body) => Len(body.devices) <= MAX_CONFIG_DEVICES
    BY DEF check
  <2>3. QED BY <2>1, <2>2
<1>2. QED BY <1>1 DEF PassedByClient, Checked

(* A list of devices that stand on each other passes the walk: what is     *)
(* above a device stands lower by a link at a time.                        *)
LowerAt(list, high, up, i, m) ==
  \/ up[m] = None
  \/ \E j \in DOMAIN list : list[j].dev = up[m] /\ high[j] + m + 1 <= high[i]

LEMMA StandingAbove ==
  ASSUME NEW list \in Seq(DeviceEntries), Apart(list), NEW high, Standing(list, high),
         NEW i \in DOMAIN list, NEW up, up = Above(list, list[i])
  PROVE  \A m \in 0 .. MAX_CONFIG_DEVICES : LowerAt(list, high, up, i, m)
<1> DEFINE max == MAX_CONFIG_DEVICES
           T   == {m \in 0 .. max : LowerAt(list, high, up, i, m)}
<1>1. /\ max \in Nat /\ up[0] = list[i].parent
      /\ \A n \in 1 .. max : up[n] = AboveStep(list, up[n - 1])
  <2>1. list[i] \in DeviceEntries
    OBVIOUS
  <2>2. QED BY <2>1, AboveAt, DeviceConfigAssumption
<1>2. \A j \in DOMAIN list : high[j] \in Nat
  BY DEF Standing
<1>3. \A j \in DOMAIN list :
        \/ list[j].parent = None
        \/ \E e \in DOMAIN list : list[e].dev = list[j].parent /\ high[e] < high[j]
  BY DEF Standing
<1> HIDE DEF max
<1>4. 0 \in T
  <2>1. CASE list[i].parent = None
    BY <1>1, <2>1 DEF LowerAt
  <2>2. CASE list[i].parent # None
    <3>1. PICK j \in DOMAIN list : list[j].dev = list[i].parent /\ high[j] < high[i]
      BY <1>3, <2>2
    <3>2. high[j] + 0 + 1 <= high[i]
      BY <1>2, <3>1
    <3>3. QED BY <1>1, <3>1, <3>2 DEF LowerAt
  <2>3. QED BY <2>1, <2>2
<1>5. ASSUME NEW m \in 0 .. max - 1, m \in T PROVE m + 1 \in T
  <2>1. m + 1 \in 1 .. max /\ (m + 1) - 1 = m /\ m + 1 \in 0 .. max /\ m \in Nat
    BY <1>1
  <2>2. up[m + 1] = AboveStep(list, up[m])
    BY <1>1, <2>1
  <2>3. CASE up[m] = None
    <3>1. up[m + 1] = None
      BY <2>2, <2>3 DEF AboveStep
    <3>2. QED BY <2>1, <3>1 DEF LowerAt
  <2>4. CASE up[m] # None
    <3>1. PICK j \in DOMAIN list : list[j].dev = up[m] /\ high[j] + m + 1 <= high[i]
      BY <1>5, <2>4 DEF LowerAt
    <3>2. First(list, up[m], j)
      <4>1. \A e \in 1 .. j - 1 : e \in DOMAIN list /\ e # j
        OBVIOUS
      <4>2. QED BY <3>1, <4>1 DEF First, Apart
    <3>3. ParentOf(list, up[m]) = list[j].parent
      BY <3>2, ParentFacts
    <3>4. up[m] # Lost
      <4>1. list[j] \in DeviceEntries
        OBVIOUS
      <4>2. list[j].dev \in 0 .. LastDev
        BY <4>1 DEF DeviceEntries
      <4>3. QED BY <3>1, <4>2, DeviceConfigAssumption DEF Lost
    <3>5. up[m + 1] = list[j].parent
      BY <2>2, <2>4, <3>3, <3>4 DEF AboveStep
    <3>6. CASE list[j].parent = None
      BY <2>1, <3>5, <3>6 DEF LowerAt
    <3>7. CASE list[j].parent # None
      <4>1. PICK e \in DOMAIN list : list[e].dev = list[j].parent /\ high[e] < high[j]
        BY <1>3, <3>7
      <4>2. high[e] + (m + 1) + 1 <= high[i]
        BY <1>2, <2>1, <3>1, <4>1
      <4>3. QED BY <2>1, <3>5, <4>1, <4>2 DEF LowerAt
    <3>8. QED BY <3>6, <3>7
  <2>5. QED BY <2>3, <2>4
<1> HIDE DEF T
<1>6. \A m \in 0 .. max : m \in T
  BY <1>1, <1>4, <1>5, EachUpTo
<1>7. QED BY <1>6 DEF T, max

LEMMA StandingChains ==
  ASSUME NEW list \in Seq(DeviceEntries), Apart(list), NEW high, Standing(list, high),
         NEW i \in DOMAIN list
  PROVE  check_chain(list, list[i])
<1> DEFINE max == MAX_CONFIG_DEVICES
           up  == Above(list, list[i])
<1>1. /\ max \in Nat /\ max_topology_depth \in Nat
      /\ \A j \in DOMAIN list : high[j] \in Nat /\ high[j] >= 1
      /\ high[i] <= max_topology_depth /\ high[i] <= max
      /\ list[i] \in DeviceEntries
  BY DeviceConfigAssumption DEF Standing
<1>2. up = Above(list, list[i])
  OBVIOUS
<1>3. check_chain(list, list[i]) <=>
        \E n \in 0 .. max - 1 :
           /\ up[n] = None /\ n + 1 <= max_topology_depth
           /\ \A m \in 0 .. n - 1 : /\ up[m] # list[i].dev
                                    /\ \A k \in 0 .. m - 1 : up[k] # up[m]
  BY DEF check_chain
<1> HIDE DEF up
<1>4. \A m \in 0 .. max : LowerAt(list, high, up, i, m)
  BY <1>2, StandingAbove
<1> HIDE DEF max
<1> DEFINE n == high[i] - 1
<1>5. n \in 0 .. max - 1 /\ n \in Nat /\ n \in 0 .. max /\ n + 1 = high[i]
  BY <1>1
<1> HIDE DEF n
<1>6. up[n] = None
  <2>1. ASSUME NEW j \in DOMAIN list PROVE ~ (high[j] + n + 1 <= high[i])
    BY <1>1, <1>5
  <2>2. QED BY <1>4, <1>5, <2>1 DEF LowerAt
<1>7. PICK t \in 0 .. n : Top(up, t)
  BY <1>5, <1>6, TopExists
<1>8. t \in 0 .. max - 1 /\ t + 1 <= max_topology_depth /\ up[t] = None
  BY <1>1, <1>5, <1>7 DEF Top
<1>9. ASSUME NEW m \in 0 .. t - 1 PROVE up[m] # list[i].dev
  <2>1. up[m] # None /\ m \in 0 .. max /\ m \in Nat
    BY <1>1, <1>7, <1>8 DEF Top
  <2>2. PICK j \in DOMAIN list : list[j].dev = up[m] /\ high[j] + m + 1 <= high[i]
    BY <1>4, <2>1 DEF LowerAt
  <2>3. j # i
    BY <1>1, <2>1, <2>2
  <2>4. QED BY <2>2, <2>3 DEF Apart
<1>10. ASSUME NEW m \in 0 .. t - 1, NEW k \in 0 .. m - 1 PROVE up[k] # up[m]
  <2> DEFINE s == m - k - 1
  <2>1. /\ up[k] # None /\ up[m] # None /\ k \in 0 .. max - 1 /\ k \in 0 .. max
        /\ s \in 0 .. max - k - 1 /\ s \in 0 .. max /\ s \in Nat /\ k + 1 + s = m
    BY <1>1, <1>7, <1>8 DEF Top
  <2> HIDE DEF s
  <2>2. PICK j \in DOMAIN list : list[j].dev = up[k] /\ high[j] + k + 1 <= high[i]
    BY <1>4, <2>1 DEF LowerAt
  <2>3. First(list, up[k], j)
    <3>1. \A e \in 1 .. j - 1 : e \in DOMAIN list /\ e # j
      OBVIOUS
    <3>2. QED BY <2>2, <3>1 DEF First, Apart
  <2> DEFINE upj == Above(list, list[j])
  <2>4. upj = Above(list, list[j])
    OBVIOUS
  <2> HIDE DEF upj
  <2>5. up[k + 1 + s] = upj[s]
    BY <1>1, <1>2, <2>1, <2>3, <2>4, AboveShift DEF max
  <2>6. LowerAt(list, high, upj, j, s)
    BY <2>1, <2>4, StandingAbove DEF max
  <2>7. PICK e \in DOMAIN list : list[e].dev = upj[s] /\ high[e] + s + 1 <= high[j]
    BY <2>1, <2>5, <2>6 DEF LowerAt
  <2>8. e # j
    BY <1>1, <2>1, <2>7
  <2>9. list[e].dev = up[m]
    BY <2>1, <2>5, <2>7
  <2>10. QED BY <2>2, <2>8, <2>9 DEF Apart
<1>11. QED BY <1>3, <1>8, <1>9, <1>10

-----------------------------------------------------------------------------
(* The section as held: within the caps, every entry one the board and the *)
(* drivers take, no address twice on a bus, no bus twice, and every parent *)
(* lower.                                                                  *)
DeviceFits(d) ==
  /\ d.bus \in DOMAIN Board
  /\ (d.addr # None) <=> addressed(Board[d.bus])
  /\ \E rule \in RuleFor(d.kind, Board[d.bus]) : OptionsFit(d, rule)

AddressesApart(held) ==
  \A d, e \in held : d.bus = e.bus /\ d.addr = e.addr /\ d.addr # None => d = e

Lower(held, high) ==
  \A d \in held :
    /\ high[d] \in Nat /\ high[d] >= 1
    /\ high[d] <= max_topology_depth /\ high[d] <= MAX_CONFIG_DEVICES
    /\ \/ d.parent = None
       \/ \E e \in held : e.dev = d.parent /\ high[e] < high[d]

WithinCaps(held) ==
  /\ IsFiniteSet(held)
  /\ Cardinality(held) <= max_devices /\ Cardinality(held) <= MAX_CONFIG_DEVICES

Held(held) ==
  /\ DevSound(held) /\ WithinCaps(held) /\ AddressesApart(held)
  /\ \A d \in held : DeviceFits(d)
  /\ \E high : Lower(held, high)

BusesHeld(entries) ==
  /\ IsFiniteSet(entries) /\ Cardinality(entries) <= MAX_CONFIG_BUSES
  /\ \A b, c \in entries : b.bus = c.bus => b = c
  /\ \A b \in entries : /\ b \in BusEntries /\ b.bus \in DOMAIN Board
                        /\ BusFits(b, Board[b.bus])

SectionInv == Held(devices) /\ BusesHeld(buses)

(* What a list holds is finite, and no more than its entries.              *)
LEMMA ListHolds ==
  ASSUME NEW S, NEW list \in Seq(S), NEW held, held = {list[i] : i \in DOMAIN list}
  PROVE  IsFiniteSet(held) /\ Cardinality(held) <= Len(list)
<1>1. Len(list) \in Nat /\ DOMAIN list = 1 .. Len(list)
  OBVIOUS
<1> DEFINE n == Len(list)
<1>2. IsFiniteSet(1 .. n) /\ Cardinality(1 .. n) = n
  <2> HIDE DEF n
  <2>1. n \in Nat
    BY <1>1 DEF n
  <2>2. IsFiniteSet(1 .. n) /\ Cardinality(1 .. n) = IF 1 > n THEN 0 ELSE n - 1 + 1
    BY <2>1, FS_Interval
  <2>3. QED BY <2>1, <2>2
<1>3. list \in Surjection(1 .. n, held)
  BY <1>1 DEF Surjection
<1> HIDE DEF n
<1>4. IsFiniteSet(held) /\ Cardinality(held) <= Cardinality(1 .. n)
  BY <1>2, <1>3, FS_Surjection
<1>5. QED BY <1>2, <1>4 DEF n

LEMMA AcceptedHeld ==
  ASSUME DevInv, NEW body \in Checked, Accepts(body), NEW acc, acc = Accepted(body)
  PROVE  Held(acc.devices) /\ BusesHeld(acc.buses)
<1> DEFINE list == body.devices
<1>1. /\ list \in Seq(DeviceEntries) /\ body.buses \in Seq(BusEntries)
      /\ check_buses(body.buses)
      /\ Len(list) <= max_devices /\ Len(list) <= MAX_CONFIG_DEVICES
      /\ \A i \in DOMAIN list : EntryFits(list, i)
      /\ \A i \in DOMAIN list : check_chain(list, list[i])
  BY WritesAssumption DEF Checked, check, EntryFits
<1>2. DevSound(acc.devices) /\ acc.buses = {body.buses[i] : i \in DOMAIN body.buses}
  BY AcceptedFacts DEF Accepted
<1>3. PICK w : Settled(list, w) /\ acc.devices = {w[i] : i \in DOMAIN w}
  BY AcceptedFacts
<1> DEFINE held == acc.devices
           entries == acc.buses
<1> HIDE DEF list, held, entries
<1>4. /\ w \in Seq(DeviceEntries) /\ DOMAIN w = DOMAIN list /\ Apart(w)
      /\ \A i \in DOMAIN w : /\ w[i] = [list[i] EXCEPT !.dev = w[i].dev]
                             /\ list[i].dev # None => w[i] = list[i]
      /\ \A i \in DOMAIN w : list[i] \in DeviceEntries
  BY <1>1, <1>3 DEF Settled
<1>5. ASSUME NEW i \in DOMAIN w
      PROVE  /\ w[i].bus = list[i].bus /\ w[i].addr = list[i].addr /\ w[i].kind = list[i].kind
             /\ w[i].parent = list[i].parent /\ w[i].options = list[i].options
             /\ w[i].poll = list[i].poll
  <2> DEFINE d == list[i]
             id == w[i].dev
  <2>1. d \in DeviceEntries /\ w[i] = [d EXCEPT !.dev = id]
    BY <1>4
  <2> HIDE DEF d, id
  <2>2. /\ w[i].bus = d.bus /\ w[i].addr = d.addr /\ w[i].kind = d.kind
        /\ w[i].parent = d.parent /\ w[i].options = d.options /\ w[i].poll = d.poll
    BY <2>1 DEF DeviceEntries
  <2>3. QED BY <2>2 DEF d
<1>6. WithinCaps(held)
  <2>1. IsFiniteSet(held) /\ Cardinality(held) <= Len(w)
    BY <1>3, <1>4, ListHolds DEF held
  <2>2. Len(w) = Len(list) /\ Len(w) \in Nat
    BY <1>1, <1>4
  <2>3. Cardinality(held) \in Nat
    BY <2>1, FS_CardinalityType
  <2>4. QED BY <1>1, <2>1, <2>2, <2>3, DeviceConfigAssumption DEF WithinCaps
<1>7. \A d \in held : DeviceFits(d)
  <2>1. SUFFICES ASSUME NEW i \in DOMAIN w PROVE DeviceFits(w[i])
    BY <1>3 DEF held
  <2>2. EntryFits(list, i)
    BY <1>1, <1>4
  <2>3. \A rule : OptionsFit(w[i], rule) <=> OptionsFit(list[i], rule)
    BY <1>5 DEF OptionsFit
  <2>4. QED BY <1>5, <2>2, <2>3 DEF EntryFits, DeviceFits, check_addr
<1>8. AddressesApart(held)
  <2>1. ASSUME NEW i \in DOMAIN w, NEW j \in DOMAIN w, i < j, list[i].addr # None
        PROVE  ~ (list[j].bus = list[i].bus /\ list[j].addr = list[i].addr)
    <3>1. j \in i + 1 .. Len(list)
      BY <1>1, <1>4, <2>1
    <3>2. check_addr(list, i)
      BY <1>1, <1>4 DEF EntryFits
    <3>3. QED BY <2>1, <3>1, <3>2 DEF check_addr
  <2>2. SUFFICES ASSUME NEW i \in DOMAIN w, NEW j \in DOMAIN w, w[i].bus = w[j].bus,
                        w[i].addr = w[j].addr, w[i].addr # None
                 PROVE  i = j
    BY <1>3 DEF AddressesApart, held
  <2>3. ~(i < j) /\ ~(j < i)
    BY <1>5, <2>1, <2>2
  <2>4. QED BY <1>4, <2>3
<1>9. \E high : Lower(held, high)
  <2>1. PICK high : Standing(list, high)
    BY <1>1, ChainsStand
  <2> DEFINE at(d) == CHOOSE i \in DOMAIN w : w[i] = d
             up == [d \in held |-> high[at(d)]]
  <2>2. ASSUME NEW i \in DOMAIN w PROVE w[i] \in held /\ up[w[i]] = high[i]
    <3>1. w[i] \in held
      BY <1>3 DEF held
    <3>2. at(w[i]) = i
      BY <1>4 DEF Apart
    <3>3. QED BY <3>1, <3>2
  <2> HIDE DEF up
  <2>3. SUFFICES ASSUME NEW i \in DOMAIN w
                 PROVE  /\ up[w[i]] \in Nat /\ up[w[i]] >= 1
                        /\ up[w[i]] <= max_topology_depth /\ up[w[i]] <= MAX_CONFIG_DEVICES
                        /\ \/ w[i].parent = None
                           \/ \E e \in held : e.dev = w[i].parent /\ up[e] < up[w[i]]
    BY <1>3 DEF Lower, held
  <2>4. /\ high[i] \in Nat /\ high[i] >= 1
        /\ high[i] <= max_topology_depth /\ high[i] <= MAX_CONFIG_DEVICES
        /\ \/ list[i].parent = None
           \/ \E j \in DOMAIN list : list[j].dev = list[i].parent /\ high[j] < high[i]
    BY <1>4, <2>1 DEF Standing
  <2>5. CASE w[i].parent # None
    <3>1. PICK j \in DOMAIN w : list[j].dev = list[i].parent /\ high[j] < high[i]
      BY <1>4, <1>5, <2>4, <2>5
    <3>2. w[j] = list[j]
      BY <1>4, <1>5, <2>5, <3>1
    <3>3. w[j].dev = w[i].parent /\ up[w[j]] < up[w[i]] /\ w[j] \in held
      BY <1>5, <2>2, <3>1, <3>2
    <3>4. QED BY <2>2, <2>4, <3>3
  <2>6. QED BY <2>2, <2>4, <2>5
<1>10. BusesHeld(entries)
  <2> DEFINE b == body.buses
  <2>1. b \in Seq(BusEntries) /\ entries = {b[i] : i \in DOMAIN b}
    BY <1>1, <1>2 DEF entries
  <2>2. \A i \in DOMAIN b : /\ \A j \in i + 1 .. Len(b) : b[j].bus # b[i].bus
                           /\ b[i].bus \in DOMAIN Board /\ BusFits(b[i], Board[b[i].bus])
    BY <1>1 DEF check_buses
  <2>3. Len(b) <= MAX_CONFIG_BUSES
    BY DEF Checked
  <2> HIDE DEF b
  <2>4. IsFiniteSet(entries) /\ Cardinality(entries) <= Len(b)
    BY <2>1, ListHolds
  <2>5. Cardinality(entries) <= MAX_CONFIG_BUSES
    <3>1. Cardinality(entries) \in Nat /\ Len(b) \in Nat
      BY <2>1, <2>4, FS_CardinalityType
    <3>2. QED BY <2>3, <2>4, <3>1, DeviceConfigAssumption
  <2>6. ASSUME NEW i \in DOMAIN b, NEW j \in DOMAIN b, b[i].bus = b[j].bus PROVE i = j
    <3>1. ~(i < j) /\ ~(j < i)
      BY <2>1, <2>2, <2>6
    <3>2. QED BY <2>1, <3>1
  <2>7. \A e \in entries : /\ e \in BusEntries /\ e.bus \in DOMAIN Board
                          /\ BusFits(e, Board[e.bus])
    BY <2>1, <2>2
  <2>8. \A e, f \in entries : e.bus = f.bus => e = f
    BY <2>1, <2>6
  <2>9. QED BY <2>4, <2>5, <2>7, <2>8 DEF BusesHeld
<1>11. QED BY <1>2, <1>6, <1>7, <1>8, <1>9, <1>10 DEF Held, held, entries

LEMMA SectionStart == Init => SectionInv
<1> SUFFICES ASSUME Init PROVE SectionInv
  OBVIOUS
<1>1. devices = {} /\ buses = {}
  BY DEF Init
<1>2. IsFiniteSet({}) /\ Cardinality({}) = 0
  BY FS_EmptySet
<1>3. Held({})
  <2>1. Lower({}, [d \in {} |-> 0])
    BY DEF Lower
  <2>2. QED BY <1>2, <2>1, DeviceConfigAssumption
            DEF Held, DevSound, WithinCaps, AddressesApart
<1>4. QED BY <1>1, <1>2, <1>3, DeviceConfigAssumption DEF SectionInv, BusesHeld

LEMMA SectionKept ==
  ASSUME SectionInv, UNCHANGED <<buses, devices>>
  PROVE  SectionInv'
BY DEF SectionInv, Held, DevSound, WithinCaps, AddressesApart, Lower, DeviceFits, BusesHeld

LEMMA SectionStep ==
  ASSUME DevInv, SectionInv, [ConfigNext]_<<part, vars, net>>
  PROVE  SectionInv'
<1>1. CASE UNCHANGED <<buses, devices>>
  BY <1>1, SectionKept
<1>2. ASSUME NEW body \in Checked, Write(body) PROVE SectionInv'
  <2> DEFINE acc == Accepted(body)
  <2>1. Accepts(body)
    BY <1>2 DEF Write
  <2>2. \/ devices' = acc.devices /\ buses' = acc.buses
        \/ UNCHANGED <<buses, devices>>
    BY <1>2 DEF Write, Store
  <2>3. acc = Accepted(body)
    OBVIOUS
  <2> HIDE DEF acc
  <2>4. Held(acc.devices) /\ BusesHeld(acc.buses)
    BY <2>1, <2>3, AcceptedHeld
  <2>5. CASE devices' = acc.devices /\ buses' = acc.buses
    <3> DEFINE b == buses'
               d == devices'
    <3>1. Held(d) /\ BusesHeld(b)
      BY <2>4, <2>5
    <3>2. QED
      BY <3>1 DEF SectionInv, Held, DevSound, WithinCaps, AddressesApart, Lower, DeviceFits,
                  BusesHeld
  <2>6. QED BY <2>2, <2>5, SectionKept
<1>3. QED BY <1>1, <1>2 DEF ConfigNext, DeviceStep, Within, Next, Adopt, Refuse, vars

LEMMA SectionHolds == ConfigSpec => [](DevInv /\ SectionInv)
<1>1. ConfigInit => DevInv /\ SectionInv
  BY DevInit, SectionStart DEF ConfigInit
<1>2. DevInv /\ SectionInv /\ [ConfigNext]_<<part, vars, net>> => (DevInv /\ SectionInv)'
  BY DevStep, SectionStep
<1>3. QED BY <1>1, <1>2, PTL DEF ConfigSpec

-----------------------------------------------------------------------------
(* What the section as held says of itself.                                *)

(* A set has as many members as names when no two share one.               *)
LEMMA NamesCount ==
  ASSUME NEW S, IsFiniteSet(S), NEW f, f \in Surjection(S, {f[x] : x \in S}),
         \A x, y \in S : f[x] = f[y] => x = y
  PROVE  IsFiniteSet({f[x] : x \in S}) /\ Cardinality({f[x] : x \in S}) = Cardinality(S)
<1> DEFINE T == {f[x] : x \in S}
<1>1. f \in Injection(S, T)
  BY DEF Injection, IsInjective, Surjection
<1> HIDE DEF T
<1>2. QED BY <1>1, FS_Surjection DEF T

LEMMA AscendingHolds ==
  ASSUME SectionInv
  PROVE  ascending /\ IsFiniteSet(Listed) /\ Cardinality(Listed) = Cardinality(devices)
<1>1. /\ IsFiniteSet(devices) /\ \A d, e \in devices : d.dev = e.dev => d = e
      /\ IsFiniteSet(buses) /\ \A b, c \in buses : b.bus = c.bus => b = c
  BY DEF SectionInv, Held, WithinCaps, DevSound, BusesHeld
<1>2. IsFiniteSet(Listed) /\ Cardinality(Listed) = Cardinality(devices)
  <2> DEFINE f == [d \in devices |-> d.dev]
  <2>1. Listed = {f[d] : d \in devices}
    BY DEF Listed
  <2>2. f \in Surjection(devices, {f[d] : d \in devices})
    BY DEF Surjection
  <2>3. \A d, e \in devices : f[d] = f[e] => d = e
    BY <1>1
  <2> HIDE DEF f
  <2>4. QED BY <1>1, <2>1, <2>2, <2>3, NamesCount
<1>3. Cardinality({b.bus : b \in buses}) = Cardinality(buses)
  <2> DEFINE f == [b \in buses |-> b.bus]
  <2>1. {b.bus : b \in buses} = {f[b] : b \in buses}
    OBVIOUS
  <2>2. f \in Surjection(buses, {f[b] : b \in buses})
    BY DEF Surjection
  <2>3. \A b, c \in buses : f[b] = f[c] => b = c
    BY <1>1
  <2> HIDE DEF f
  <2>4. Cardinality({f[b] : b \in buses}) = Cardinality(buses)
    BY <1>1, <2>2, <2>3, NamesCount
  <2>5. QED BY <2>1, <2>4
<1>4. QED BY <1>2, <1>3 DEF ascending

(* A set of devices with no parent outside it would have no lowest one.    *)
LEMMA NoLoop ==
  ASSUME DevSound(devices), NEW high, Lower(devices, high),
         NEW S \in SUBSET Listed, S # {}
  PROVE  \E d \in devices : d.dev \in S /\ d.parent \notin S
<1> DEFINE D == {d \in devices : d.dev \in S}
           H == {high[d] : d \in D}
<1>1. D # {} /\ \A d \in D : high[d] \in Nat
  BY DEF Listed, Lower
<1>2. PICK m \in H : \A n \in H : m <= n
  <2>1. H \in SUBSET Nat /\ H # {}
    BY <1>1
  <2> HIDE DEF H
  <2>2. QED BY <2>1, LeastMember
<1>3. PICK d \in D : high[d] = m
  BY <1>2
<1>4. ASSUME d.parent \in S PROVE FALSE
  <2>1. d.parent # None
    <3>1. PICK e \in devices : e.dev = d.parent
      BY <1>4 DEF Listed
    <3>2. QED BY <3>1 DEF DevSound
  <2>2. PICK e \in devices : e.dev = d.parent /\ high[e] < high[d]
    BY <2>1 DEF Lower
  <2>3. e \in D
    BY <1>4, <2>2
  <2>4. m <= high[e] /\ high[e] \in Nat /\ m \in Nat
    BY <1>1, <1>2, <1>3, <2>3
  <2>5. QED BY <1>3, <2>2, <2>4
<1>5. QED BY <1>3, <1>4

(* A path from parent to parent falls with every link.                     *)
LEMMA NoLongPath ==
  ASSUME DevSound(devices), NEW high, Lower(devices, high),
         NEW path \in [1 .. max_topology_depth + 1 -> devices]
  PROVE  \E i \in 1 .. max_topology_depth : path[i].parent # path[i + 1].dev
<1> DEFINE depth == max_topology_depth
<1>1. depth \in Nat
  BY DeviceConfigAssumption
<1>2. \A d \in devices : high[d] \in Nat /\ high[d] >= 1 /\ high[d] <= depth
  BY DEF Lower
<1>3. SUFFICES ASSUME \A i \in 1 .. depth : path[i].parent = path[i + 1].dev PROVE FALSE
  OBVIOUS
<1>4. path \in [1 .. depth + 1 -> devices]
  OBVIOUS
<1> HIDE DEF depth
<1>5. ASSUME NEW i \in 1 .. depth PROVE high[path[i + 1]] < high[path[i]]
  <2>1. i \in 1 .. depth + 1 /\ i + 1 \in 1 .. depth + 1
    BY <1>1
  <2>2. path[i] \in devices /\ path[i + 1] \in devices
    BY <1>4, <2>1
  <2>3. path[i].parent = path[i + 1].dev /\ path[i].parent # None
    BY <1>3, <2>2 DEF DevSound
  <2>4. PICK e \in devices : e.dev = path[i].parent /\ high[e] < high[path[i]]
    BY <2>2, <2>3 DEF Lower
  <2>5. e = path[i + 1]
    BY <2>2, <2>3, <2>4 DEF DevSound
  <2>6. QED BY <2>4, <2>5
<1> DEFINE T == {m \in 0 .. depth : high[path[1 + m]] + m <= depth}
<1>6. 0 \in T
  <2>1. path[1] \in devices
    <3>1. 1 \in 1 .. depth + 1
      BY <1>1
    <3>2. QED BY <1>4, <3>1
  <2>2. high[path[1]] + 0 <= depth
    BY <1>1, <1>2, <2>1
  <2>3. QED BY <1>1, <2>2
<1>7. ASSUME NEW m \in 0 .. depth - 1, m \in T PROVE m + 1 \in T
  <2>1. /\ 1 + m \in 1 .. depth /\ (1 + m) + 1 = 1 + (m + 1) /\ m + 1 \in 0 .. depth
        /\ 1 + m \in 1 .. depth + 1 /\ 1 + (m + 1) \in 1 .. depth + 1
    BY <1>1
  <2>2. high[path[1 + (m + 1)]] < high[path[1 + m]]
    BY <1>5, <2>1
  <2>3. high[path[1 + (m + 1)]] \in Nat /\ high[path[1 + m]] \in Nat
    BY <1>2, <1>4, <2>1
  <2>4. high[path[1 + m]] + m <= depth
    BY <1>7
  <2>5. high[path[1 + (m + 1)]] + (m + 1) <= depth
    BY <1>1, <2>1, <2>2, <2>3, <2>4
  <2>6. QED BY <2>1, <2>5
<1> HIDE DEF T
<1>8. depth \in T
  <2>1. \A m \in 0 .. depth : m \in T
    BY <1>1, <1>6, <1>7, EachUpTo
  <2>2. QED BY <1>1, <2>1
<1>9. high[path[1 + depth]] + depth <= depth
  BY <1>8 DEF T
<1>10. path[1 + depth] \in devices
  <2>1. 1 + depth \in 1 .. depth + 1
    BY <1>1
  <2>2. QED BY <1>4, <2>1
<1>11. QED BY <1>1, <1>2, <1>9, <1>10

LEMMA SectionSoundHeld == DevInv /\ SectionInv => SectionSound
<1> SUFFICES ASSUME DevInv, SectionInv PROVE SectionSound
  OBVIOUS
<1>1. PICK high : Lower(devices, high)
  BY DEF SectionInv, Held
<1>2. /\ DevSound(devices) /\ AddressesApart(devices)
      /\ \A d \in devices : DeviceFits(d)
  BY DEF SectionInv, Held
<1>3. ascending
  BY AscendingHolds
<1>4. \A d \in devices : d.parent \in Listed \cup {None}
  BY <1>1 DEF Lower, Listed
<1>5. \A S \in (SUBSET Listed) \ {{}} : \E d \in devices : d.dev \in S /\ d.parent \notin S
  BY <1>1, <1>2, NoLoop
<1>6. \A path \in [1 .. max_topology_depth + 1 -> devices] :
        \E i \in 1 .. max_topology_depth : path[i].parent # path[i + 1].dev
  BY <1>1, <1>2, NoLongPath
<1>7. \A d \in devices : d.bus \in DOMAIN Board /\ (addressed(Board[d.bus]) <=> d.addr # None)
  BY <1>2 DEF DeviceFits
<1>8. QED BY <1>2, <1>3, <1>4, <1>5, <1>6, <1>7 DEF SectionSound, AddressesApart

-----------------------------------------------------------------------------
(* The section as a client sends it back.                                  *)
Rising(n, s) == \A i, j \in 1 .. n : i < j => s[i] < s[j]

(* A finite set of numbers, in order.                                      *)
LEMMA RisingExists ==
  ASSUME NEW set \in SUBSET Nat, IsFiniteSet(set)
  PROVE  \E s \in [1 .. Cardinality(set) -> set] : Rising(Cardinality(set), s)
<1> DEFINE N == Cardinality(set)
           Ordered(n, S) == \E s \in [1 .. n -> S] : Rising(n, s)
           T == {n \in 0 .. N : \A S \in SUBSET Nat :
                                  IsFiniteSet(S) /\ Cardinality(S) = n => Ordered(n, S)}
<1>1. N \in Nat
  BY FS_CardinalityType
<1>2. 0 \in T
  <2>1. ASSUME NEW S PROVE Ordered(0, S)
    <3>1. [i \in 1 .. 0 |-> 0] \in [1 .. 0 -> S] /\ Rising(0, [i \in 1 .. 0 |-> 0])
      BY DEF Rising
    <3>2. QED BY <3>1
  <2> HIDE DEF Ordered, N
  <2>2. QED BY <1>1, <2>1
<1>3. ASSUME NEW n \in 0 .. N - 1, n \in T PROVE n + 1 \in T
  <2>1. SUFFICES ASSUME NEW S \in SUBSET Nat, IsFiniteSet(S), Cardinality(S) = n + 1
                 PROVE  Ordered(n + 1, S)
    <3> HIDE DEF Ordered, N
    <3>1. n + 1 \in 0 .. N
      BY <1>1
    <3>2. QED BY <3>1
  <2>2. n \in Nat /\ n + 1 \in Nat /\ n + 1 # 0
    BY <1>1
  <2>3. S # {}
    BY <2>1, <2>2, FS_EmptySet
  <2>4. PICK m \in S : \A x \in S : m <= x
    BY <2>3, LeastMember
  <2> DEFINE R == S \ {m}
  <2>5. IsFiniteSet(R) /\ Cardinality(R) = n
    <3>1. IsFiniteSet(R) /\ Cardinality(R) = Cardinality(S) - 1
      BY <2>1, <2>4, FS_RemoveElement
    <3>2. QED BY <2>1, <2>2, <3>1
  <2>6. R \in SUBSET Nat /\ \A x \in R : m < x /\ x \in S
    <3>1. \A x \in R : x \in S /\ x \in Nat /\ m \in Nat /\ m <= x /\ x # m
      BY <2>4
    <3> HIDE DEF R
    <3>2. QED BY <3>1
  <2>7. Ordered(n, R)
    <3> HIDE DEF Ordered, N, R
    <3>1. QED BY <1>3, <2>5, <2>6
  <2>8. PICK t \in [1 .. n -> R] : Rising(n, t)
    BY <2>7
  <2> DEFINE s == [i \in 1 .. n + 1 |-> IF i = 1 THEN m ELSE t[i - 1]]
  <2> HIDE DEF R
  <2>9. ASSUME NEW i \in 1 .. n + 1, i # 1 PROVE i - 1 \in 1 .. n /\ s[i] = t[i - 1] /\ s[i] \in R
    <3>1. i - 1 \in 1 .. n
      BY <2>2, <2>9
    <3>2. s[i] = t[i - 1]
      BY <2>9
    <3>3. t[i - 1] \in R
      BY <2>8, <3>1
    <3>4. QED BY <3>1, <3>2, <3>3
  <2>10. 1 \in 1 .. n + 1 /\ s[1] = m
    BY <2>2
  <2>11. s \in [1 .. n + 1 -> S]
    <3>1. \A i \in 1 .. n + 1 : (IF i = 1 THEN m ELSE t[i - 1]) \in S
      BY <2>4, <2>6, <2>9
    <3>2. QED BY <3>1
  <2> HIDE DEF s
  <2>12. Rising(n + 1, s)
    <3>1. SUFFICES ASSUME NEW i \in 1 .. n + 1, NEW j \in 1 .. n + 1, i < j
                   PROVE  s[i] < s[j]
      BY DEF Rising
    <3>2. j # 1
      BY <2>2, <3>1
    <3>3. CASE i = 1
      BY <2>6, <2>9, <2>10, <3>2, <3>3
    <3>4. CASE i # 1
      <4>1. i - 1 \in 1 .. n /\ j - 1 \in 1 .. n /\ s[i] = t[i - 1] /\ s[j] = t[j - 1]
        BY <2>9, <3>2, <3>4
      <4>2. i - 1 < j - 1
        BY <2>2, <3>1
      <4>3. QED BY <2>8, <4>1, <4>2 DEF Rising
    <3>5. QED BY <3>3, <3>4
  <2>13. QED BY <2>11, <2>12
<1> HIDE DEF T
<1>4. N \in T
  <2>1. \A n \in 0 .. N : n \in T
    BY <1>1, <1>2, <1>3, EachUpTo
  <2> HIDE DEF N
  <2>2. N \in 0 .. N
    BY <1>1
  <2>3. QED BY <2>1, <2>2
<1>5. Ordered(N, set)
  <2> HIDE DEF Ordered
  <2>1. QED BY <1>4 DEF T, N
<1>6. QED BY <1>5

LEMMA BackFacts ==
  ASSUME DevInv, SectionInv, NEW list, list = Back
  PROVE  /\ list \in Seq(DeviceEntries) /\ Apart(list)
         /\ Len(list) = Cardinality(devices) /\ Len(list) \in Nat
         /\ devices = {list[i] : i \in DOMAIN list}
<1> DEFINE n == Cardinality(devices)
           Lists(l) == l \in [1 .. n -> devices] /\ \A i, j \in DOMAIN l : i < j => l[i].dev < l[j].dev
<1>1. /\ DevSound(devices) /\ IsFiniteSet(devices)
      /\ IsFiniteSet(Listed) /\ Cardinality(Listed) = n
  BY AscendingHolds DEF SectionInv, Held, WithinCaps
<1>2. \A d \in devices : d \in DeviceEntries /\ d.dev \in Nat /\ d.dev # None
  BY <1>1, DeviceConfigAssumption DEF DevSound, DeviceEntries
<1>3. n \in Nat
  BY <1>1, FS_CardinalityType
<1> HIDE DEF n
<1>4. PICK s \in [1 .. n -> Listed] : Rising(n, s)
  <2>1. Listed \in SUBSET Nat
    BY <1>2 DEF Listed
  <2>2. QED BY <1>1, <2>1, RisingExists
<1>5. \E l : Lists(l)
  <2> DEFINE at(i) == CHOOSE d \in devices : d.dev = s[i]
             l == [i \in 1 .. n |-> at(i)]
  <2>1. \A i \in 1 .. n : at(i) \in devices /\ at(i).dev = s[i]
    BY <1>4 DEF Listed
  <2>2. l \in [1 .. n -> devices] /\ \A i \in 1 .. n : l[i].dev = s[i]
    BY <2>1
  <2> HIDE DEF l
  <2>3. Lists(l)
    BY <1>4, <2>2 DEF Rising
  <2>4. QED BY <2>3
<1>6. Lists(list)
  <2>1. Back = CHOOSE l : Lists(l)
    BY DEF Back, n
  <2> HIDE DEF Lists
  <2>2. QED BY <1>5, <2>1
<1>7. DOMAIN list = 1 .. n /\ list \in [1 .. n -> devices]
  BY <1>6
<1>8. list \in Seq(DeviceEntries) /\ Len(list) = n
  <2>1. list \in [1 .. n -> DeviceEntries]
    BY <1>2, <1>7
  <2>2. QED BY <1>3, <2>1
<1>9. Apart(list)
  <2>1. ASSUME NEW i \in 1 .. n, NEW j \in 1 .. n, list[i].dev = list[j].dev PROVE i = j
    <3>1. list[i].dev \in Nat /\ list[j].dev \in Nat
      BY <1>2, <1>7
    <3>2. ~(i < j) /\ ~(j < i)
      BY <1>6, <1>7, <2>1, <3>1
    <3>3. QED BY <1>3, <3>2
  <2>2. QED BY <1>2, <1>7, <2>1 DEF Apart
<1>10. devices = {list[i] : i \in DOMAIN list}
  <2>1. list \in Injection(1 .. n, devices)
    BY <1>7, <1>9 DEF Injection, IsInjective, Apart
  <2>2. IsFiniteSet(1 .. n) /\ Cardinality(1 .. n) = n
    <3>1. IsFiniteSet(1 .. n) /\ Cardinality(1 .. n) = IF 1 > n THEN 0 ELSE n - 1 + 1
      BY <1>3, FS_Interval
    <3>2. QED BY <1>3, <3>1
  <2>3. list \in Surjection(1 .. n, devices)
    BY <1>1, <2>1, <2>2, FS_Injection DEF n
  <2>4. QED BY <1>7, <2>3 DEF Surjection
<1>11. QED BY <1>3, <1>8, <1>9, <1>10 DEF n

LEMMA BackBusesFacts ==
  ASSUME SectionInv, NEW list, list = BackBuses
  PROVE  /\ list \in Seq(BusEntries) /\ Len(list) = Cardinality(buses) /\ Len(list) \in Nat
         /\ \A i, j \in DOMAIN list : list[i].bus = list[j].bus => i = j
         /\ buses = {list[i] : i \in DOMAIN list}
<1> DEFINE n == Cardinality(buses)
           Names == {b.bus : b \in buses}
           Lists(l) == l \in [1 .. n -> buses] /\ \A i, j \in DOMAIN l : i < j => l[i].bus < l[j].bus
<1>1. /\ IsFiniteSet(buses) /\ \A b, c \in buses : b.bus = c.bus => b = c
      /\ \A b \in buses : b \in BusEntries
  BY DEF SectionInv, BusesHeld
<1>2. \A b \in buses : b.bus \in Nat
  BY <1>1 DEF BusEntries
<1>3. n \in Nat
  BY <1>1, FS_CardinalityType
<1>4. IsFiniteSet(Names) /\ Cardinality(Names) = n
  <2> DEFINE f == [b \in buses |-> b.bus]
  <2>1. Names = {f[b] : b \in buses}
    OBVIOUS
  <2>2. f \in Surjection(buses, {f[b] : b \in buses})
    BY DEF Surjection
  <2>3. \A b, c \in buses : f[b] = f[c] => b = c
    BY <1>1
  <2> HIDE DEF f, Names
  <2>4. QED BY <1>1, <2>1, <2>2, <2>3, NamesCount
<1> HIDE DEF n
<1>5. PICK s \in [1 .. n -> Names] : Rising(n, s)
  <2>1. Names \in SUBSET Nat
    BY <1>2
  <2> HIDE DEF Names
  <2>2. QED BY <1>4, <2>1, RisingExists
<1>6. \E l : Lists(l)
  <2> DEFINE at(i) == CHOOSE b \in buses : b.bus = s[i]
             l == [i \in 1 .. n |-> at(i)]
  <2>1. \A i \in 1 .. n : at(i) \in buses /\ at(i).bus = s[i]
    BY <1>5
  <2>2. l \in [1 .. n -> buses] /\ \A i \in 1 .. n : l[i].bus = s[i]
    BY <2>1
  <2> HIDE DEF l
  <2>3. Lists(l)
    BY <1>5, <2>2 DEF Rising
  <2>4. QED BY <2>3
<1>7. Lists(list)
  <2>1. BackBuses = CHOOSE l : Lists(l)
    BY DEF BackBuses, n
  <2> HIDE DEF Lists
  <2>2. QED BY <1>6, <2>1
<1>8. DOMAIN list = 1 .. n /\ list \in [1 .. n -> buses]
  BY <1>7
<1>9. list \in Seq(BusEntries) /\ Len(list) = n
  <2>1. list \in [1 .. n -> BusEntries]
    BY <1>1, <1>8
  <2>2. QED BY <1>3, <2>1
<1>10. ASSUME NEW i \in 1 .. n, NEW j \in 1 .. n, list[i].bus = list[j].bus PROVE i = j
  <2>1. list[i].bus \in Nat /\ list[j].bus \in Nat
    BY <1>2, <1>8
  <2>2. ~(i < j) /\ ~(j < i)
    BY <1>7, <1>8, <1>10, <2>1
  <2>3. QED BY <1>3, <2>2
<1>11. buses = {list[i] : i \in DOMAIN list}
  <2>1. list \in Injection(1 .. n, buses)
    BY <1>8, <1>10 DEF Injection, IsInjective
  <2>2. IsFiniteSet(1 .. n) /\ Cardinality(1 .. n) = n
    <3>1. IsFiniteSet(1 .. n) /\ Cardinality(1 .. n) = IF 1 > n THEN 0 ELSE n - 1 + 1
      BY <1>3, FS_Interval
    <3>2. QED BY <1>3, <3>1
  <2>3. list \in Surjection(1 .. n, buses)
    BY <1>1, <2>1, <2>2, FS_Injection DEF n
  <2>4. QED BY <1>8, <2>3 DEF Surjection
<1>12. QED BY <1>3, <1>8, <1>9, <1>10, <1>11 DEF n

(* No id is given over a list that brings one with every entry.            *)
LEMMA NothingGiven ==
  ASSUME NEW list \in Seq(DeviceEntries), Apart(list), NEW given, given = Given(list, next)
  PROVE  given[Len(list)][2] = next
<1> DEFINE k == Len(list)
           T == {i \in 0 .. k : given[i][2] = next}
<1>1. k \in Nat /\ DOMAIN list = 1 .. k
  OBVIOUS
<1>2. given[0] = <<next, next>> /\ \A i \in 1 .. k : given[i] = GivenStep(list, given, i)
  BY <1>1, GivenAt
<1> HIDE DEF k
<1>3. 0 \in T
  BY <1>1, <1>2
<1>4. ASSUME NEW i \in 0 .. k - 1, i \in T PROVE i + 1 \in T
  <2>1. i + 1 \in 1 .. k /\ (i + 1) - 1 = i /\ i + 1 \in 0 .. k
    BY <1>1
  <2>2. given[i + 1] = <<given[i][2], given[i][2]>>
    <3>1. list[i + 1].dev # None
      BY <1>1, <2>1 DEF Apart
    <3>2. given[i + 1] = GivenStep(list, given, i + 1)
      BY <1>2, <2>1
    <3>3. QED BY <2>1, <3>1, <3>2 DEF GivenStep
  <2>3. given[i][2] = next
    BY <1>4
  <2>4. given[i + 1][2] = next
    BY <2>2, <2>3
  <2>5. QED BY <2>1, <2>4
<1> HIDE DEF T
<1>5. k \in T
  <2>1. \A i \in 0 .. k : i \in T
    BY <1>1, <1>3, <1>4, EachUpTo
  <2>2. k \in 0 .. k
    BY <1>1
  <2>3. QED BY <2>1, <2>2
<1>6. QED BY <1>5 DEF T, k

LEMMA BackPasses ==
  ASSUME DevInv, SectionInv, NEW body, body = [buses |-> BackBuses, devices |-> Back]
  PROVE  check(body) /\ checkBusesAndDevices(body)
<1> DEFINE list == body.devices
<1>1. list = Back /\ body.buses = BackBuses
  OBVIOUS
<1> HIDE DEF list
<1>2. /\ list \in Seq(DeviceEntries) /\ Apart(list)
      /\ Len(list) = Cardinality(devices) /\ Len(list) \in Nat
      /\ devices = {list[i] : i \in DOMAIN list}
  BY <1>1, BackFacts
<1>3. PICK high : Lower(devices, high)
  BY DEF SectionInv, Held
<1>4. /\ Cardinality(devices) <= max_devices /\ Cardinality(devices) <= MAX_CONFIG_DEVICES
      /\ AddressesApart(devices) /\ \A d \in devices : DeviceFits(d)
  BY DEF SectionInv, Held, WithinCaps
<1>5. DOMAIN list = 1 .. Len(list) /\ \A i \in DOMAIN list : list[i] \in devices
  BY <1>2
<1>6. ASSUME NEW i \in DOMAIN list, NEW j \in i + 1 .. Len(list)
      PROVE  /\ j \in DOMAIN list /\ list[j].dev # list[i].dev
             /\ list[i].addr # None => ~ (list[j].bus = list[i].bus /\ list[j].addr = list[i].addr)
  <2>1. j \in DOMAIN list /\ j # i
    <3> DEFINE n == Len(list)
    <3>1. n \in Nat /\ i \in 1 .. n /\ j \in i + 1 .. n
      BY <1>2, <1>5
    <3> HIDE DEF n
    <3>2. j \in 1 .. n /\ j # i
      BY <3>1
    <3>3. QED BY <1>5, <3>2 DEF n
  <2>2. list[j].dev # list[i].dev
    BY <1>2, <2>1 DEF Apart
  <2>3. QED BY <1>4, <1>5, <2>1, <2>2 DEF AddressesApart
<1>7. ASSUME NEW i \in DOMAIN list PROVE EntryFits(list, i)
  <2>1. DeviceFits(list[i])
    BY <1>4, <1>5
  <2>2. check_addr(list, i)
    BY <1>6, <2>1 DEF DeviceFits, check_addr
  <2>3. QED BY <2>1, <2>2 DEF DeviceFits, EntryFits
<1>8. DevsApart(list)
  BY <1>6 DEF DevsApart
<1>9. \A i \in DOMAIN list : check_chain(list, list[i])
  <2> DEFINE up == [i \in DOMAIN list |-> high[list[i]]]
  <2>1. \A i \in DOMAIN list : up[i] = high[list[i]]
    OBVIOUS
  <2> HIDE DEF up
  <2>2. ASSUME NEW i \in DOMAIN list
        PROVE  /\ up[i] \in Nat /\ up[i] >= 1
               /\ up[i] <= max_topology_depth /\ up[i] <= MAX_CONFIG_DEVICES
               /\ \/ list[i].parent = None
                  \/ \E j \in DOMAIN list : list[j].dev = list[i].parent /\ up[j] < up[i]
    <3>1. /\ high[list[i]] \in Nat /\ high[list[i]] >= 1
          /\ high[list[i]] <= max_topology_depth /\ high[list[i]] <= MAX_CONFIG_DEVICES
          /\ \/ list[i].parent = None
             \/ \E e \in devices : e.dev = list[i].parent /\ high[e] < high[list[i]]
      BY <1>3, <1>5 DEF Lower
    <3>2. CASE list[i].parent # None
      <4>1. PICK e \in devices : e.dev = list[i].parent /\ high[e] < high[list[i]]
        BY <3>1, <3>2
      <4>2. PICK j \in DOMAIN list : e = list[j]
        BY <1>2
      <4>3. QED BY <2>1, <3>1, <4>1, <4>2
    <3>3. QED BY <2>1, <3>1, <3>2
  <2>3. Standing(list, up)
    BY <2>2 DEF Standing
  <2>4. QED BY <1>2, <2>3, StandingChains
<1>10. /\ body.buses \in Seq(BusEntries) /\ Len(body.buses) <= MAX_CONFIG_BUSES
       /\ check_buses(body.buses)
  <2> DEFINE b == body.buses
  <2>1. /\ b \in Seq(BusEntries) /\ Len(b) = Cardinality(buses) /\ Len(b) \in Nat
        /\ \A i, j \in DOMAIN b : b[i].bus = b[j].bus => i = j
        /\ buses = {b[i] : i \in DOMAIN b}
    BY <1>1, BackBusesFacts
  <2>2. /\ Cardinality(buses) <= MAX_CONFIG_BUSES
        /\ \A e \in buses : e.bus \in DOMAIN Board /\ BusFits(e, Board[e.bus])
    BY DEF SectionInv, BusesHeld
  <2> HIDE DEF b
  <2>3. ASSUME NEW i \in DOMAIN b
        PROVE  /\ b[i].bus \in DOMAIN Board /\ BusFits(b[i], Board[b[i].bus])
               /\ \A j \in i + 1 .. Len(b) : b[j].bus # b[i].bus
    <3>1. b[i] \in buses
      BY <2>1
    <3>2. ASSUME NEW j \in i + 1 .. Len(b) PROVE b[j].bus # b[i].bus
      <4>1. i \in 1 .. Len(b) /\ j \in 1 .. Len(b) /\ j # i
        BY <2>1
      <4>2. QED BY <2>1, <4>1
    <3>3. QED BY <2>2, <3>1, <3>2
  <2>4. QED BY <2>1, <2>2, <2>3 DEF check_buses, b
<1>11. check(body)
  BY <1>2, <1>4, <1>7, <1>8, <1>9, <1>10 DEF check, EntryFits, list
<1>12. QED BY <1>2, <1>10, <1>11, ChecksAgree DEF list

LEMMA BackAccepted ==
  ASSUME DevInv, SectionInv, ~Behind, NEW body, body = [buses |-> BackBuses, devices |-> Back]
  PROVE  /\ Accepts(body)
         /\ Accepted(body) = [buses |-> buses, devices |-> devices, next |-> next]
<1> DEFINE list == body.devices
<1>1. list = Back
  OBVIOUS
<1> HIDE DEF list
<1>2. /\ list \in Seq(DeviceEntries) /\ Apart(list)
      /\ devices = {list[i] : i \in DOMAIN list}
  BY <1>1, BackFacts
<1>3. \A i \in DOMAIN list : list[i].dev # None
  BY <1>2 DEF Apart
<1>4. \A i \in DOMAIN list : EditsHeld(list[i])
  BY <1>2 DEF EditsHeld
<1>5. Accepts(body)
  BY <1>3, <1>4 DEF Accepts, list
<1>6. Accepted(body).devices = devices
  <2>1. Accepted(body).devices =
          {IF list[i].dev = None THEN [list[i] EXCEPT !.dev = Given(list, next)[i][1]]
           ELSE list[i] : i \in DOMAIN list}
    BY DEF Accepted, list
  <2>2. QED BY <1>2, <1>3, <2>1
<1>7. Accepted(body).next = next
  <2>1. Accepted(body).next = Given(list, next)[Len(list)][2]
    BY DEF Accepted, list
  <2> DEFINE given == Given(list, next)
  <2>2. given = Given(list, next)
    OBVIOUS
  <2> HIDE DEF given
  <2>3. given[Len(list)][2] = next
    BY <1>2, <2>2, NothingGiven
  <2>4. QED BY <2>1, <2>3 DEF given
<1>8. Accepted(body).buses = buses
  <2>1. Accepted(body).buses = {body.buses[i] : i \in DOMAIN body.buses}
    BY DEF Accepted
  <2>2. body.buses = BackBuses
    OBVIOUS
  <2>3. QED BY <2>1, <2>2, BackBusesFacts
<1>9. Accepted(body) =
        [buses |-> Accepted(body).buses, devices |-> Accepted(body).devices,
         next |-> Accepted(body).next]
  BY DEF Accepted
<1>10. QED BY <1>5, <1>6, <1>7, <1>8, <1>9

(* The section as held keeps every rule; sent back as it is it passes both *)
(* checks, is accepted and changes nothing; and the two checks, written    *)
(* each in its own language, pass the same bodies (check, accept,          *)
(* checkBusesAndDevices).                                                  *)
THEOREM SectionComesBack == ConfigSpec => []SentBackAccepted
<1>1. ASSUME DevInv, SectionInv PROVE SentBackAccepted
  <2> DEFINE body == [buses |-> BackBuses, devices |-> Back]
  <2>1. body = [buses |-> BackBuses, devices |-> Back]
    OBVIOUS
  <2> HIDE DEF body
  <2>2. SectionSound
    BY <1>1, SectionSoundHeld
  <2>3. check(body) /\ checkBusesAndDevices(body)
    BY <1>1, <2>1, BackPasses
  <2>4. ~Behind => /\ Accepts(body)
                   /\ Accepted(body) = [buses |-> buses, devices |-> devices, next |-> next]
    BY <1>1, <2>1, BackAccepted
  <2>5. QED BY <2>2, <2>3, <2>4, ClientPassesChecked DEF SentBackAccepted, body
<1>2. QED BY <1>1, SectionHolds, PTL
===============================================================================
