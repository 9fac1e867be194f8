-------------------------- MODULE Handshakes_proof --------------------------
(***************************************************************************)
(* What two ends agree on, over a carrier that crosses, cuts and alters    *)
(* what it carries, for any number of parties, messages and attempts.      *)
(***************************************************************************)
EXTENDS MCHandshakes, SequenceTheorems, FiniteSetTheorems, TLAPS

-----------------------------------------------------------------------------
(* Vouching: what the verifier issued, what controllers answered under     *)
(* their own keys, and the links that stand on both.                       *)

Bindings == {<<"binding", account>> : account \in Accounts}
Issues   == [account : Accounts, device : Devices, epoch : Nat, nonce : Nat,
             binding : Bindings, spent : BOOLEAN]
Said     == [device : Devices, epoch : Nat, slot : Vouching!Slots, gen : Nat,
             nonce : Nat, binding : Bindings]

VouchTypes ==
  /\ unit \in [Devices -> [epoch : Nat, gen : [Vouching!Slots -> Nat]]]
  /\ issues \in Seq(Issues)
  /\ \A i \in DOMAIN issues : issues[i].binding = <<"binding", issues[i].account>>
  /\ \A l \in links : l = [issue |-> l.issue, slot |-> l.slot, gen |-> l.gen]

(* Every answer is tagged by the controller it speaks of, over what it     *)
(* says.                                                                   *)
TaggedAs(a) ==
  /\ a.said \in Said
  /\ a.tag = Vouching!VouchTag(Vouching!VouchKey(a.said.device, Vouching!CS(a.said.device), a.to),
                               a.said)

(* A link stands on an issue that is spent.                                *)
Grounded(l) ==
  /\ l.issue \in DOMAIN issues /\ issues[l.issue].spent
  /\ issues[l.issue].device \in Recorded
  /\ \E a \in answers : a.said = Vouching!StatementOf(issues[l.issue], l)

VouchInv ==
  /\ VouchTypes
  /\ \A a \in answers : TaggedAs(a)
  /\ \A l \in links : Grounded(l)
  /\ \A l, k \in links : l.issue = k.issue => l = k
  /\ ~slighted

(* The answer to a claim is what the issue asks for, and nothing else: a   *)
(* tag that verifies is over the issue's own statement.                    *)
LEMMA TagSaysIt ==
  ASSUME NEW issue \in Issues, NEW claim, NEW a,
         TaggedAs(a), claim.tag = a.tag, Vouching!VerifyWhy(issue, claim) = ""
  PROVE  issue.device \in Recorded /\ a.said = Vouching!StatementOf(issue, claim)
<1>1. /\ Vouching!Records(issue.device) # {}
      /\ Vouching!VouchTag(Vouching!VouchKey(issue.device, Vouching!VS, claim.controller),
                           Vouching!StatementOf(issue, claim)) = claim.tag
  BY DEF Vouching!VerifyWhy
<1>2. issue.device \in Recorded
  BY <1>1 DEF Vouching!Records
<1> DEFINE s == a.said
           t == Vouching!StatementOf(issue, claim)
           ss   == <<s.device, s.epoch, s.slot, s.gen, s.nonce, s.binding>>
           tt   == <<t.device, t.epoch, t.slot, t.gen, t.nonce, t.binding>>
           his  == Vouching!VouchKey(s.device, Vouching!CS(s.device), a.to)
           mine == Vouching!VouchKey(issue.device, Vouching!VS, claim.controller)
<1>3. ss = tt
  <2>1. <<"vouch", his, ss>> = <<"vouch", mine, tt>>
    BY <1>1, Zenon DEF TaggedAs, Vouching!VouchTag, Vouching!TagOver
  <2> HIDE DEF his, mine, ss, tt
  <2> QED  BY <2>1
<1> HIDE DEF s, t
<1>4. /\ s.device = t.device /\ s.epoch = t.epoch /\ s.slot = t.slot
      /\ s.gen = t.gen /\ s.nonce = t.nonce /\ s.binding = t.binding
  BY <1>3
<1>5. /\ s \in Said
      /\ t = [device |-> t.device, epoch |-> t.epoch, slot |-> t.slot, gen |-> t.gen,
              nonce |-> t.nonce, binding |-> t.binding]
  BY DEF TaggedAs, Vouching!StatementOf, s, t
<1>6. s = t
  BY <1>4, <1>5 DEF Said
<1> QED  BY <1>2, <1>6 DEF s, t

(* A sound claim passes every check: the two ends reach one key.           *)
LEMMA SoundVerifies ==
  ASSUME \A a \in answers : TaggedAs(a), NEW i \in DOMAIN issues, issues[i] \in Issues,
         NEW claim, Vouching!Sound(i, claim)
  PROVE  Vouching!VerifyWhy(issues[i], claim) = ""
<1> DEFINE issue == issues[i]
<1>1. issue.device \in Recorded /\ claim.controller = Vouching!CS(issue.device)
  BY DEF Vouching!Sound
<1>2. PICK a \in answers : /\ a.to = Vouching!VS
                           /\ a.said = Vouching!StatementOf(issue, claim)
                           /\ a.tag = claim.tag
  BY DEF Vouching!Sound
<1>3. a.said.device = issue.device
  BY <1>2 DEF Vouching!StatementOf
<1>4. Vouching!VouchKey(issue.device, Vouching!VS, claim.controller)
        = Vouching!VouchKey(a.said.device, Vouching!CS(a.said.device), a.to)
  BY <1>1, <1>2, <1>3 DEF Vouching!VouchKey, Vouching!Derive, Vouching!Shared
<1>5. Vouching!VouchTag(Vouching!VouchKey(issue.device, Vouching!VS, claim.controller),
                        Vouching!StatementOf(issue, claim)) = claim.tag
  BY <1>2, <1>4 DEF TaggedAs
<1>6. Vouching!Agrees(claim.controller)
  BY <1>1 DEF Vouching!Agrees, Vouching!CS, Vouching!LowOrder, Vouching!Key
<1>7. /\ Vouching!Records(issue.device) = {Vouching!Fingerprint(claim.controller)}
      /\ Vouching!VouchesFor(Vouching!Fingerprint(claim.controller), claim.controller)
  BY <1>1 DEF Vouching!Records, Vouching!VouchesFor
<1> QED  BY <1>5, <1>6, <1>7 DEF Vouching!VerifyWhy

LEMMA VouchInit == Vouching!Init => VouchInv
<1> SUFFICES ASSUME Vouching!Init PROVE VouchInv
  OBVIOUS
<1>1. unit \in [Devices -> [epoch : Nat, gen : [Vouching!Slots -> Nat]]]
  BY DEF Vouching!Init
<1>2. issues = <<>> /\ issues \in Seq(Issues)
  BY DEF Vouching!Init
<1> QED  BY <1>1, <1>2 DEF Vouching!Init, VouchInv, VouchTypes

LEMMA VouchNext == VouchInv /\ Vouching!Next => VouchInv'
<1> SUFFICES ASSUME VouchInv, Vouching!Next PROVE VouchInv'
  OBVIOUS
<1>t. VouchTypes
  BY DEF VouchInv
<1>1. ASSUME NEW account \in Accounts, NEW device \in Devices, Vouching!Issue(account, device)
      PROVE  VouchInv'
  <2> DEFINE new == [account |-> account, device |-> device, epoch |-> unit[device].epoch,
                     nonce |-> Len(issues) + 1, binding |-> <<"binding", account>>,
                     spent |-> FALSE]
  <2>1. issues' = Append(issues, new) /\ UNCHANGED <<unit, answers, links, slighted>>
    BY <1>1 DEF Vouching!Issue
  <2>2. new \in Issues
    BY <1>t DEF VouchTypes, Issues, Bindings
  <2>3. /\ issues' \in Seq(Issues) /\ DOMAIN issues' = DOMAIN issues \cup {Len(issues) + 1}
        /\ \A i \in DOMAIN issues : issues'[i] = issues[i]
        /\ issues'[Len(issues) + 1] = new
    BY <1>t, <2>1, <2>2 DEF VouchTypes
  <2>4. new.binding = <<"binding", new.account>>
    OBVIOUS
  <2> HIDE DEF new
  <2>5. VouchTypes'
    BY <1>t, <2>1, <2>3, <2>4 DEF VouchTypes
  <2>6. ASSUME NEW l \in links PROVE Grounded(l)'
    BY <2>1, <2>3 DEF VouchInv, Grounded
  <2> QED  BY <2>1, <2>5, <2>6 DEF VouchInv, TaggedAs
<1>2. ASSUME NEW device \in Devices, NEW field \in {"epoch", "gen"},
             Vouching!Change(device, field)
      PROVE  VouchInv'
  <2>1. UNCHANGED <<issues, answers, links, slighted>>
    BY <1>2 DEF Vouching!Change
  <2>2. unit' \in [Devices -> [epoch : Nat, gen : [Vouching!Slots -> Nat]]]
    <3>1. unit[device] \in [epoch : Nat, gen : [Vouching!Slots -> Nat]]
      BY <1>t DEF VouchTypes
    <3>2. Vouching!Bumped(unit[device], field) \in [epoch : Nat, gen : [Vouching!Slots -> Nat]]
      BY <3>1 DEF Vouching!Bumped, Vouching!Slots
    <3> QED  BY <1>2, <1>t, <3>2 DEF VouchTypes, Vouching!Change
  <2>3. VouchTypes'
    BY <2>1, <2>2, <1>t DEF VouchTypes
  <2>4. \A l \in links : Grounded(l)'
    BY <2>1 DEF VouchInv, Grounded
  <2> QED  BY <2>1, <2>3, <2>4 DEF VouchInv
<1>3. ASSUME NEW device \in Devices, NEW slot \in Vouching!Slots,
             NEW request \in Vouching!Requests, Vouching!Answer(device, slot, request)
      PROVE  VouchInv'
  <2> DEFINE said == Vouching!Statement(device, slot, request)
             a    == [said |-> said, to |-> request.verifier,
                      tag |-> Vouching!VouchTag(
                        Vouching!VouchKey(device, Vouching!CS(device), request.verifier), said)]
  <2>1. answers' = answers \cup {a} /\ UNCHANGED <<unit, issues, links, slighted>>
    BY <1>3 DEF Vouching!Answer
  <2>2. request.nonce \in Nat /\ request.binding \in Bindings
    <3>1. PICK i \in DOMAIN issues, j \in DOMAIN issues :
            request.nonce = issues[i].nonce /\ request.binding = issues[j].binding
      BY DEF Vouching!Requests
    <3>2. issues[i] \in Issues /\ issues[j] \in Issues
      BY <1>t, <3>1 DEF VouchTypes
    <3> QED  BY <3>1, <3>2 DEF Issues
  <2>3. said \in Said /\ said.device = device
    BY <1>t, <2>2 DEF VouchTypes, Said, Vouching!Statement
  <2>4. TaggedAs(a)
    BY <2>3 DEF TaggedAs
  <2> HIDE DEF a
  <2>5. \A l \in links : Grounded(l)'
    BY <2>1 DEF VouchInv, Grounded
  <2> QED  BY <2>1, <2>4, <2>5 DEF VouchInv, VouchTypes
<1>4. ASSUME NEW i \in DOMAIN issues, NEW claim \in Vouching!Claims, Vouching!Claim(i, claim)
      PROVE  VouchInv'
  <2> DEFINE issue == issues[i]
             new   == [issue |-> i, slot |-> claim.slot, gen |-> claim.gen]
  <2>1. /\ ~issue.spent /\ issues' = [issues EXCEPT ![i].spent = TRUE]
        /\ UNCHANGED <<unit, answers>>
    BY <1>4 DEF Vouching!Claim
  <2>2. issue \in Issues
    BY <1>t DEF VouchTypes
  <2>3. /\ issues' \in Seq(Issues) /\ DOMAIN issues' = DOMAIN issues
        /\ \A j \in DOMAIN issues : j # i => issues'[j] = issues[j]
        /\ issues'[i] = [issue EXCEPT !.spent = TRUE]
    <3>1. issues \in Seq(Issues) /\ [issue EXCEPT !.spent = TRUE] \in Issues
      BY <1>t, <2>2 DEF VouchTypes, Issues
    <3> HIDE DEF issue
    <3>2. issues' = [issues EXCEPT ![i] = [issue EXCEPT !.spent = TRUE]]
      BY <2>1 DEF issue
    <3> QED  BY <3>1, <3>2
  <2>4. /\ issues'[i].account = issue.account /\ issues'[i].device = issue.device
        /\ issues'[i].epoch = issue.epoch /\ issues'[i].nonce = issue.nonce
        /\ issues'[i].binding = issue.binding /\ issues'[i].spent
    BY <2>2, <2>3 DEF Issues
  <2>5. PICK b \in answers : claim.tag = b.tag
    BY DEF Vouching!Claims
  <2>6. \A l \in links : l.issue # i
    BY <2>1 DEF VouchInv, Grounded
  <2>7. ~slighted'
    BY <1>4, <2>2, SoundVerifies DEF Vouching!Claim, VouchInv
  <2>8. \A l \in links : Grounded(l)'
    BY <2>1, <2>3, <2>6 DEF VouchInv, Grounded, Vouching!StatementOf
  <2>9. CASE Vouching!VerifyWhy(issue, claim) # ""
    <3>1. links' = links
      BY <1>4, <2>9 DEF Vouching!Claim
    <3>2. VouchTypes'
      BY <1>t, <2>1, <2>3, <2>4, <3>1 DEF VouchTypes
    <3> QED  BY <2>1, <2>7, <2>8, <3>1, <3>2 DEF VouchInv, TaggedAs
  <2>10. CASE Vouching!VerifyWhy(issue, claim) = ""
    <3>1. links' = links \cup {new}
      BY <1>4, <2>10 DEF Vouching!Claim
    <3>2. VouchTypes'
      BY <1>t, <2>1, <2>3, <2>4, <3>1 DEF VouchTypes
    <3>3. issue.device \in Recorded /\ b.said = Vouching!StatementOf(issue, claim)
      BY <2>2, <2>5, <2>10, TagSaysIt DEF VouchInv
    <3>4. Vouching!StatementOf(issues'[i], new) = b.said
      BY <2>4, <3>3 DEF Vouching!StatementOf
    <3>5. Grounded(new)'
      BY <2>1, <2>3, <2>4, <3>3, <3>4 DEF Grounded
    <3> QED  BY <2>1, <2>6, <2>7, <2>8, <3>1, <3>2, <3>5 DEF VouchInv, TaggedAs
  <2> QED  BY <2>9, <2>10
<1> QED  BY <1>1, <1>2, <1>3, <1>4 DEF Vouching!Next

LEMMA VouchKept == VouchInv /\ [Next]_vars => VouchInv'
<1> SUFFICES ASSUME VouchInv, [Next]_vars PROVE VouchInv'
  OBVIOUS
<1>1. Vouching!Next \/ UNCHANGED vouching
  BY DEF Next, vars
<1>2. CASE UNCHANGED vouching
  BY <1>2 DEF vouching, VouchInv, VouchTypes, Grounded
<1> QED  BY <1>1, <1>2, VouchNext

(* An account is linked only on the answer its own issue's controller gave *)
(* to it, at most once a nonce, and a sound claim is never refused         *)
(* (VouchIssue::verify, VouchRequest::answer).                             *)
THEOREM LinksAreVouched == HandshakesSpec => []LinkedAsVouched
<1>1. Init => VouchInv
  BY VouchInit DEF Init
<1>2. VouchInv => LinkedAsVouched
  <2> SUFFICES ASSUME VouchInv PROVE LinkedAsVouched
    OBVIOUS
  <2>1. ASSUME NEW l \in links
        PROVE  /\ issues[l.issue].device \in Recorded
               /\ \E a \in answers :
                    a.said = [device |-> issues[l.issue].device,
                              epoch |-> issues[l.issue].epoch, slot |-> l.slot,
                              gen |-> l.gen, nonce |-> issues[l.issue].nonce,
                              binding |-> <<"binding", issues[l.issue].account>>]
    BY DEF VouchInv, VouchTypes, Grounded, Vouching!StatementOf
  <2> QED  BY <2>1 DEF VouchInv, LinkedAsVouched, Vouching!LinkedAsVouched
<1> QED  BY <1>1, <1>2, VouchKept, PTL DEF HandshakesSpec

-----------------------------------------------------------------------------
(* Invites: what the guests were shown, what two people compared, and what *)
(* the controller wrote on it.                                             *)

Details == [device : {Inviting!Device}, controller : {Inviting!CS}, epoch : Nat,
            suite : {1}, role : Roles, inviter : {1}, inviterGen : {1}, nonce : Nat]
Rows    == [pending : BOOLEAN,
            invitee : {request.invitee : request \in Inviting!Requests},
            commitment : {request.commitment : request \in Inviting!Requests},
            details : Details]

(* A guest shown no details has nothing else; one that was holds them to   *)
(* the end.                                                                *)
GuestShape(g) ==
  \/ guest[g] = [phase |-> "started"]
  \/ /\ guest[g].phase \in {"refused", "received", "matched"}
     /\ guest[g] = [phase |-> guest[g].phase, details |-> guest[g].details]
  \/ guest[g] = [phase |-> "kept", details |-> guest[g].details,
                 slot |-> guest[g].slot, gen |-> guest[g].gen]

InviteTypes ==
  /\ guest = [g \in Guests |-> guest[g]]
  /\ \A g \in Guests : GuestShape(g)
  /\ rows \in Seq(Rows)
  /\ epoch \in Nat

Shown(g)   == guest[g].phase # "started"
Words(g)   == Inviting!Transcript(guest[g].details, Inviting!IS(g), Inviting!N(g))

(* The digits of a guest were those of the row, for the reveal that came.  *)
Compared(g, m) ==
  /\ Shown(g)
  /\ Words(g) = Inviting!Transcript(rows[m.row].details, rows[m.row].invitee, m.reveal)

(* What was enrolled is a guest's key, at what that guest was shown.       *)
Agreed(g, e) ==
  /\ e.key = Inviting!IS(g) /\ Shown(g)
  /\ guest[g].details.role = e.role /\ guest[g].details.epoch = e.epoch
  /\ guest[g].details.controller = Inviting!CS

Confirms(g, c) ==
  /\ \E e \in enrolled : Agreed(g, e) /\ e.slot = c.slot /\ e.gen = c.gen
  /\ c.tag = Inviting!InviteConfirm(
       Inviting!AdmitKey(Inviting!Device, Inviting!CS, Inviting!IS(g)), Words(g), c.slot, c.gen)

KeptTrue(g) ==
  guest[g].phase = "kept" =>
    \E e \in enrolled : Agreed(g, e) /\ e.slot = guest[g].slot /\ e.gen = guest[g].gen

InviteInv ==
  /\ InviteTypes
  /\ \A i \in DOMAIN rows : rows[i].pending => rows[i].details.epoch = epoch
  /\ \A m \in matched : m.row \in DOMAIN rows /\ \E g \in Guests : Compared(g, m)
  /\ \A e \in enrolled : \E g \in Guests : Agreed(g, e)
  /\ \A c \in confirmed : \E g \in Guests : Confirms(g, c)
  /\ \A g \in Guests : KeptTrue(g)

(* A step takes back nothing a guest was shown, a row says or a slot was   *)
(* written for.                                                            *)
Stands ==
  /\ \A g \in Guests : Shown(g) => Shown(g)' /\ guest'[g].details = guest[g].details
  /\ \A i \in DOMAIN rows : /\ i \in DOMAIN rows'
                            /\ rows'[i].details = rows[i].details
                            /\ rows'[i].invitee = rows[i].invitee
  /\ enrolled \subseteq enrolled'

LEMMA WhatStands ==
  ASSUME Stands, NEW g \in Guests
  PROVE  /\ \A m : m.row \in DOMAIN rows /\ Compared(g, m) => Compared(g, m)'
         /\ \A e : Agreed(g, e) => Agreed(g, e)'
         /\ \A c : Confirms(g, c) => Confirms(g, c)'
<1>1. Shown(g) => Shown(g)' /\ guest'[g].details = guest[g].details
  BY DEF Stands
<1>2. Shown(g) => Words(g)' = Words(g)
  BY <1>1 DEF Words
<1>3. ASSUME NEW m, m.row \in DOMAIN rows, Compared(g, m) PROVE Compared(g, m)'
  <2>1. /\ rows'[m.row].details = rows[m.row].details
        /\ rows'[m.row].invitee = rows[m.row].invitee
    BY <1>3 DEF Stands
  <2> QED  BY <1>1, <1>2, <1>3, <2>1 DEF Compared
<1>4. ASSUME NEW e, Agreed(g, e) PROVE Agreed(g, e)'
  BY <1>1, <1>4 DEF Agreed
<1>5. ASSUME NEW c, Confirms(g, c) PROVE Confirms(g, c)'
  <2>1. PICK e \in enrolled : Agreed(g, e) /\ e.slot = c.slot /\ e.gen = c.gen
    BY <1>5 DEF Confirms
  <2>2. e \in enrolled' /\ Agreed(g, e)'
    BY <1>4, <2>1 DEF Stands
  <2>3. Words(g)' = Words(g)
    BY <1>2, <2>1 DEF Agreed
  <2> QED  BY <1>5, <2>1, <2>2, <2>3 DEF Confirms
<1> QED  BY <1>3, <1>4, <1>5

(* Transcripts are the same when what they are of is the same.             *)
LEMMA SameWords ==
  ASSUME NEW d, NEW k, NEW r, NEW e, NEW l, NEW s,
         Inviting!Transcript(d, k, r) = Inviting!Transcript(e, l, s)
  PROVE  /\ d.device = e.device /\ d.controller = e.controller /\ d.epoch = e.epoch
         /\ d.role = e.role /\ k = l /\ r = s
BY DEF Inviting!Transcript

LEMMA InviteInit == Inviting!Init => InviteInv
<1> SUFFICES ASSUME Inviting!Init PROVE InviteInv
  OBVIOUS
<1>1. /\ guest = [g \in Guests |-> [phase |-> "started"]] /\ epoch = 1 /\ rows = <<>>
      /\ confirmed = {} /\ matched = {} /\ enrolled = {}
  BY DEF Inviting!Init
<1>2. InviteTypes
  BY <1>1 DEF InviteTypes, GuestShape
<1>3. \A g \in Guests : KeptTrue(g)
  BY <1>1 DEF KeptTrue
<1> QED  BY <1>1, <1>2, <1>3 DEF InviteInv

(* What the controller does to its rows and to nothing else.               *)
LEMMA ProposeStep ==
  ASSUME InviteInv, NEW request \in Inviting!Requests, NEW role \in Roles,
         Inviting!Propose(request, role)
  PROVE  InviteInv'
<1> DEFINE new == [pending |-> TRUE, invitee |-> request.invitee,
                   commitment |-> request.commitment,
                   details |-> [device |-> Inviting!Device, controller |-> Inviting!CS,
                                epoch |-> epoch, suite |-> 1, role |-> role, inviter |-> 1,
                                inviterGen |-> 1, nonce |-> Len(rows) + 1]]
<1>t. InviteTypes
  BY DEF InviteInv
<1>1. rows' = Append(rows, new) /\ UNCHANGED <<guest, epoch, told, confirmed, matched, enrolled>>
  BY DEF Inviting!Propose
<1>2. new \in Rows /\ new.details.epoch = epoch
  BY <1>t DEF InviteTypes, Rows, Details
<1> HIDE DEF new
<1>3. /\ rows' \in Seq(Rows) /\ DOMAIN rows' = DOMAIN rows \cup {Len(rows) + 1}
      /\ \A i \in DOMAIN rows : rows'[i] = rows[i]
      /\ rows'[Len(rows) + 1] = new
  BY <1>t, <1>1, <1>2 DEF InviteTypes
<1>4. Stands
  BY <1>1, <1>3 DEF Stands, Shown
<1>5. InviteTypes'
  BY <1>t, <1>1, <1>3 DEF InviteTypes, GuestShape
<1>6. \A i \in DOMAIN rows' : rows'[i].pending => rows'[i].details.epoch = epoch'
  BY <1>1, <1>2, <1>3 DEF InviteInv
<1>7. \A m \in matched' : m.row \in DOMAIN rows' /\ \E g \in Guests : Compared(g, m)'
  BY <1>1, <1>3, <1>4, WhatStands DEF InviteInv
<1>8. /\ \A e \in enrolled' : \E g \in Guests : Agreed(g, e)'
      /\ \A c \in confirmed' : \E g \in Guests : Confirms(g, c)'
  BY <1>1, <1>4, WhatStands DEF InviteInv
<1>9. \A g \in Guests : KeptTrue(g)'
  BY <1>1 DEF InviteInv, KeptTrue, Agreed, Shown
<1> QED  BY <1>5, <1>6, <1>7, <1>8, <1>9 DEF InviteInv

LEMMA ResetStep ==
  ASSUME InviteInv, Inviting!Reset
  PROVE  InviteInv'
<1>t. InviteTypes
  BY DEF InviteInv
<1>1. /\ rows' = [i \in DOMAIN rows |-> [rows[i] EXCEPT !.pending = FALSE]]
      /\ epoch' = epoch + 1 /\ UNCHANGED <<guest, told, confirmed, matched, enrolled>>
  BY DEF Inviting!Reset
<1>2. \A i \in DOMAIN rows : rows[i] \in Rows
  BY <1>t DEF InviteTypes
<1>3. /\ DOMAIN rows' = DOMAIN rows
      /\ \A i \in DOMAIN rows : /\ rows'[i] \in Rows /\ ~rows'[i].pending
                               /\ rows'[i].details = rows[i].details
                               /\ rows'[i].invitee = rows[i].invitee
  BY <1>1, <1>2 DEF Rows
<1>4. rows' \in Seq(Rows)
  <2>1. rows' \in [1 .. Len(rows) -> Rows] /\ Len(rows) \in Nat
    BY <1>t, <1>1, <1>3 DEF InviteTypes
  <2> QED  BY <2>1
<1>5. Stands
  BY <1>1, <1>3 DEF Stands, Shown
<1>6. InviteTypes'
  BY <1>t, <1>1, <1>4 DEF InviteTypes, GuestShape
<1>7. \A m \in matched' : m.row \in DOMAIN rows' /\ \E g \in Guests : Compared(g, m)'
  BY <1>1, <1>3, <1>5, WhatStands DEF InviteInv
<1>8. /\ \A e \in enrolled' : \E g \in Guests : Agreed(g, e)'
      /\ \A c \in confirmed' : \E g \in Guests : Confirms(g, c)'
  BY <1>1, <1>5, WhatStands DEF InviteInv
<1>9. \A g \in Guests : KeptTrue(g)'
  BY <1>1 DEF InviteInv, KeptTrue, Agreed, Shown
<1> QED  BY <1>3, <1>6, <1>7, <1>8, <1>9 DEF InviteInv

(* A step that touches only one guest, and leaves it what it was shown.    *)
LEMMA GuestStep ==
  ASSUME InviteInv, NEW g \in Guests, NEW after,
         guest' = [guest EXCEPT ![g] = after],
         UNCHANGED <<epoch, rows, confirmed, enrolled>>,
         GuestShape(g)', Shown(g)', Shown(g) => guest'[g].details = guest[g].details,
         \A m \in matched' :
           m \in matched \/ (m.row \in DOMAIN rows /\ Compared(g, m)'),
         KeptTrue(g)'
  PROVE  InviteInv'
<1>t. InviteTypes
  BY DEF InviteInv
<1>1. \A h \in Guests : h # g => guest'[h] = guest[h]
  BY <1>t DEF InviteTypes
<1>2. Stands
  BY <1>1 DEF Stands, Shown
<1>3. InviteTypes'
  <2>1. guest' = [h \in Guests |-> guest'[h]]
    BY <1>t DEF InviteTypes
  <2>2. \A h \in Guests : GuestShape(h)'
    BY <1>t, <1>1 DEF InviteTypes, GuestShape
  <2> QED  BY <1>t, <2>1, <2>2 DEF InviteTypes
<1>4. \A m \in matched' : m.row \in DOMAIN rows' /\ \E h \in Guests : Compared(h, m)'
  BY <1>2, WhatStands DEF InviteInv
<1>5. /\ \A e \in enrolled' : \E h \in Guests : Agreed(h, e)'
      /\ \A c \in confirmed' : \E h \in Guests : Confirms(h, c)'
  BY <1>2, WhatStands DEF InviteInv
<1>6. \A h \in Guests : h # g => KeptTrue(h)'
  BY <1>1 DEF InviteInv, KeptTrue, Agreed, Shown
<1>7. \A i \in DOMAIN rows' : rows'[i].pending => rows'[i].details.epoch = epoch'
  BY DEF InviteInv
<1> QED  BY <1>3, <1>4, <1>5, <1>6, <1>7 DEF InviteInv

LEMMA ReceiveStep ==
  ASSUME InviteInv, NEW g \in Guests, NEW d, Inviting!Receive(g, d)
  PROVE  InviteInv'
<1> DEFINE after == [phase |-> IF Inviting!Agrees(d.controller) THEN "received" ELSE "refused",
                     details |-> d]
<1>1. /\ guest[g].phase = "started" /\ guest' = [guest EXCEPT ![g] = after]
      /\ UNCHANGED <<epoch, rows, confirmed, matched, enrolled>>
  BY DEF Inviting!Receive
<1>2. guest'[g] = after
  BY <1>1 DEF InviteInv, InviteTypes
<1>3. /\ after.phase \in {"received", "refused"}
      /\ after = [phase |-> after.phase, details |-> after.details]
  OBVIOUS
<1> HIDE DEF after
<1>4. GuestShape(g)' /\ Shown(g)' /\ KeptTrue(g)' /\ ~Shown(g)
  BY <1>1, <1>2, <1>3 DEF GuestShape, Shown, KeptTrue
<1> QED  BY <1>1, <1>4, GuestStep

LEMMA CompareStep ==
  ASSUME InviteInv, NEW g \in Guests, NEW i \in DOMAIN rows, NEW reveal,
         Inviting!Compare(g, i, reveal)
  PROVE  InviteInv'
<1> DEFINE new == [row |-> i, reveal |-> reveal]
<1>0. PICK after : after = [phase |-> "matched", details |-> guest[g].details]
  OBVIOUS
<1>1. /\ guest[g].phase = "received" /\ guest' = [guest EXCEPT ![g].phase = "matched"]
      /\ matched' = matched \cup {new}
      /\ UNCHANGED <<epoch, rows, confirmed, enrolled>>
  BY DEF Inviting!Compare
<1>2. guest[g] = [phase |-> "received", details |-> guest[g].details]
  BY <1>1 DEF InviteInv, InviteTypes, GuestShape
<1>3. [guest[g] EXCEPT !.phase = "matched"] = after
  BY <1>0, <1>2
<1>4. guest' = [guest EXCEPT ![g] = after]
  BY <1>1, <1>3
<1>5. guest'[g] = after
  BY <1>4 DEF InviteInv, InviteTypes
<1>6. GuestShape(g)' /\ Shown(g)' /\ KeptTrue(g)' /\ guest'[g].details = guest[g].details
  BY <1>0, <1>5 DEF GuestShape, Shown, KeptTrue
<1>7. Compared(g, new)'
  <2>1. Inviting!Sas(guest[g].details, Inviting!IS(g), Inviting!N(g))
          = Inviting!Sas(rows[i].details, rows[i].invitee, reveal)
    BY DEF Inviting!Compare
  <2>2. Words(g) = Inviting!Transcript(rows[i].details, rows[i].invitee, reveal)
    BY <2>1 DEF Inviting!Sas, Words
  <2> QED  BY <1>1, <1>6, <2>2 DEF Compared, Words
<1>8. \A m \in matched' : m \in matched \/ (m.row \in DOMAIN rows /\ Compared(g, m)')
  <2>1. new.row \in DOMAIN rows
    OBVIOUS
  <2> HIDE DEF new
  <2> QED  BY <1>1, <1>7, <2>1
<1> QED  BY <1>1, <1>4, <1>6, <1>8, GuestStep

(* A confirmation that verifies is of this guest's own words, and so of    *)
(* its own enrolment (Matched::keep).                                      *)
LEMMA KeepStep ==
  ASSUME InviteInv, NEW g \in Guests, NEW c \in confirmed, NEW n,
         Inviting!Keep(g, n, c.gen, c.tag)
  PROVE  InviteInv'
<1> DEFINE ok == Inviting!KeepWhy(g, n, c.gen, c.tag) = ""
<1>d. PICK d : d = guest[g].details
  OBVIOUS
<1>a. PICK after : after = IF ok THEN [phase |-> "kept", details |-> d, slot |-> n, gen |-> c.gen]
                           ELSE [phase |-> "refused", details |-> d]
  OBVIOUS
<1>1. /\ guest[g].phase = "matched" /\ guest' = [guest EXCEPT ![g] = after]
      /\ UNCHANGED <<epoch, rows, confirmed, matched, enrolled>>
  BY <1>d, <1>a DEF Inviting!Keep
<1>2. guest'[g] = after
  BY <1>1 DEF InviteInv, InviteTypes
<1>3. Shown(g)
  BY <1>1 DEF Shown
<1>b. /\ ok => after = [phase |-> "kept", details |-> d, slot |-> n, gen |-> c.gen]
      /\ ~ok => after = [phase |-> "refused", details |-> d]
  BY <1>a
<1>4. GuestShape(g)' /\ Shown(g)' /\ guest'[g].details = d
  <2> HIDE DEF ok
  <2>1. CASE ok
    BY <1>2, <1>b, <2>1 DEF GuestShape, Shown
  <2>2. CASE ~ok
    BY <1>2, <1>b, <2>2 DEF GuestShape, Shown
  <2> QED  BY <2>1, <2>2
<1>5. CASE ~ok
  <2> HIDE DEF ok
  <2>1. KeptTrue(g)'
    BY <1>2, <1>5, <1>b DEF KeptTrue
  <2> QED  BY <1>1, <1>4, <1>d, <2>1, GuestStep
<1>6. CASE ok
  <2>1. PICK h \in Guests : Confirms(h, c)
    BY DEF InviteInv
  <2>2. PICK e \in enrolled : Agreed(h, e) /\ e.slot = c.slot /\ e.gen = c.gen
    BY <2>1 DEF Confirms
  <2> DEFINE mine == Inviting!AdmitKey(d.device, Inviting!IS(g), d.controller)
             his  == Inviting!AdmitKey(Inviting!Device, Inviting!CS, Inviting!IS(h))
             wg   == Words(g)
             wh   == Words(h)
  <2>3. Inviting!InviteConfirm(mine, wg, n, c.gen) = Inviting!InviteConfirm(his, wh, c.slot, c.gen)
    BY <1>6, <2>1, <1>d DEF Inviting!KeepWhy, Inviting!Verify, Confirms, Words
  <2>4. wg = wh /\ n = c.slot
    <3> HIDE DEF mine, his, wg, wh
    <3>1. <<wg, n, c.gen>> = <<wh, c.slot, c.gen>>
      BY <2>3 DEF Inviting!InviteConfirm, Inviting!TagOver
    <3> QED  BY <3>1
  <2>5. /\ Inviting!IS(g) = Inviting!IS(h)
        /\ d.role = guest[h].details.role /\ d.epoch = guest[h].details.epoch
        /\ d.controller = guest[h].details.controller
    <3>1. Inviting!Transcript(d, Inviting!IS(g), Inviting!N(g))
            = Inviting!Transcript(guest[h].details, Inviting!IS(h), Inviting!N(h))
      BY <2>4, <1>d DEF Words
    <3> QED  BY <3>1, SameWords
  <2>6. Agreed(g, e)
    BY <1>3, <1>d, <2>2, <2>5 DEF Agreed
  <2>7. KeptTrue(g)'
    <3> HIDE DEF ok
    <3>1. guest'[g].slot = e.slot /\ guest'[g].gen = e.gen
      BY <1>2, <1>6, <1>b, <2>2, <2>4
    <3>2. Agreed(g, e)'
      BY <1>3, <1>4, <1>d, <2>6 DEF Agreed
    <3> QED  BY <1>1, <3>1, <3>2 DEF KeptTrue
  <2> HIDE DEF ok
  <2> QED  BY <1>1, <1>4, <1>d, <2>7, GuestStep
<1> QED  BY <1>5, <1>6

(* What is approved is a row whose words two people read out: the key it   *)
(* enrols is that guest's (Invitation::verify, Verified::confirm).         *)
LEMMA ApproveStep ==
  ASSUME InviteInv, NEW i \in DOMAIN rows, NEW reveal, NEW proof,
         Inviting!Approve(i, reveal, proof)
  PROVE  InviteInv'
<1> DEFINE row  == rows[i]
           slot == Inviting!Cardinality(Inviting!Occupied) + 1
           gen  == Inviting!Cardinality({e \in enrolled : e.slot = slot}) + 1
           new  == [key |-> row.invitee, role |-> row.details.role, epoch |-> epoch,
                    slot |-> slot, gen |-> gen]
           said == [slot |-> slot, gen |-> gen,
                    tag |-> Inviting!InviteConfirm(
                              Inviting!AdmitKey(row.details.device, Inviting!CS, row.invitee),
                              Inviting!Transcript(row.details, row.invitee, reveal), slot, gen)]
<1>t. InviteTypes
  BY DEF InviteInv
<1>1. /\ row.pending /\ [row |-> i, reveal |-> reveal] \in matched
      /\ rows' = [rows EXCEPT ![i].pending = FALSE]
      /\ \/ UNCHANGED <<enrolled, confirmed>>
         \/ enrolled' = enrolled \cup {new} /\ confirmed' = confirmed \cup {said}
      /\ UNCHANGED <<guest, epoch, told, matched>>
  BY DEF Inviting!Approve, Inviting!Withdrawn
<1>2. row \in Rows
  BY <1>t DEF InviteTypes
<1>3. /\ rows' \in Seq(Rows) /\ DOMAIN rows' = DOMAIN rows
      /\ \A j \in DOMAIN rows : /\ rows'[j].pending => rows[j].pending
                               /\ rows'[j].details = rows[j].details
                               /\ rows'[j].invitee = rows[j].invitee
  <2>1. rows \in Seq(Rows) /\ [row EXCEPT !.pending = FALSE] \in Rows
    BY <1>t, <1>2 DEF InviteTypes, Rows
  <2> DEFINE left == [row EXCEPT !.pending = FALSE]
  <2>2. ~left.pending /\ left.details = row.details /\ left.invitee = row.invitee
    BY <1>2 DEF Rows
  <2>3. rows' = [rows EXCEPT ![i] = left]
    BY <1>1
  <2> HIDE DEF left
  <2> QED  BY <2>1, <2>2, <2>3 DEF left
<1>4. Stands
  BY <1>1, <1>3 DEF Stands, Shown
<1>5. InviteTypes'
  BY <1>t, <1>1, <1>3 DEF InviteTypes, GuestShape
<1>6. \A j \in DOMAIN rows' : rows'[j].pending => rows'[j].details.epoch = epoch'
  BY <1>1, <1>3 DEF InviteInv
<1>7. \A m \in matched' : m.row \in DOMAIN rows' /\ \E g \in Guests : Compared(g, m)'
  BY <1>1, <1>3, <1>4, WhatStands DEF InviteInv
<1>8. \A g \in Guests : KeptTrue(g)'
  BY <1>1, <1>4, WhatStands DEF InviteInv, KeptTrue, Stands
<1>9. PICK g \in Guests : Compared(g, [row |-> i, reveal |-> reveal])
  BY <1>1 DEF InviteInv
<1>10. /\ Shown(g) /\ Words(g) = Inviting!Transcript(row.details, row.invitee, reveal)
       /\ Inviting!IS(g) = row.invitee
       /\ guest[g].details.role = row.details.role
       /\ guest[g].details.epoch = row.details.epoch
       /\ guest[g].details.controller = row.details.controller
  <2>1. /\ Shown(g)
        /\ Words(g) = Inviting!Transcript(row.details, row.invitee, reveal)
    BY <1>9 DEF Compared
  <2> HIDE DEF row
  <2> QED  BY <2>1, SameWords DEF Words
<1>11. /\ row.details.controller = Inviting!CS /\ row.details.device = Inviting!Device
       /\ row.details.epoch = epoch
  BY <1>1, <1>2 DEF InviteInv, Rows, Details
<1>12. PICK e : e = new
  OBVIOUS
<1>13. PICK c : c = said
  OBVIOUS
<1>14. /\ Agreed(g, e) /\ e.slot = c.slot /\ e.gen = c.gen
       /\ c.tag = Inviting!InviteConfirm(
            Inviting!AdmitKey(Inviting!Device, Inviting!CS, Inviting!IS(g)), Words(g), c.slot, c.gen)
  BY <1>10, <1>11, <1>12, <1>13 DEF Agreed
<1>15. Agreed(g, e)' /\ Words(g)' = Words(g)
  BY <1>1, <1>4, <1>14, WhatStands DEF Words
<1> HIDE DEF row, new, said
<1>16. enrolled' = enrolled \cup {e} => Confirms(g, c)'
  BY <1>14, <1>15 DEF Confirms
<1>17. \A f \in enrolled' : \E h \in Guests : Agreed(h, f)'
  BY <1>1, <1>4, <1>12, <1>15, WhatStands DEF InviteInv
<1>18. \A f \in confirmed' : \E h \in Guests : Confirms(h, f)'
  <2>1. \A f \in confirmed : \E h \in Guests : Confirms(h, f)'
    BY <1>4, WhatStands DEF InviteInv
  <2> QED  BY <1>1, <1>12, <1>13, <1>16, <2>1
<1> QED  BY <1>5, <1>6, <1>7, <1>8, <1>17, <1>18 DEF InviteInv

LEMMA InviteKept == InviteInv /\ [Next]_vars => InviteInv'
<1> SUFFICES ASSUME InviteInv, [Next]_vars PROVE InviteInv'
  OBVIOUS
<1>1. Inviting!Next \/ UNCHANGED inviting
  BY DEF Next, vars
<1>2. CASE Inviting!Next
  BY <1>2, ProposeStep, ResetStep, ReceiveStep, CompareStep, KeepStep, ApproveStep
  DEF Inviting!Next
<1>3. CASE UNCHANGED inviting
  BY <1>3 DEF inviting, InviteInv, InviteTypes, GuestShape, Compared, Agreed, Confirms,
              KeptTrue, Shown, Words
<1> QED  BY <1>1, <1>2, <1>3

(* Whatever the relay puts in a key's place is never enrolled, and what a  *)
(* phone keeps is the enrolment written for it (Invitation::verify,        *)
(* Matched::keep, P-257).                                                  *)
THEOREM InvitesAreAgreed == HandshakesSpec => []InviteAgreed
<1>1. Init => InviteInv
  BY InviteInit DEF Init
<1>2. InviteInv => InviteAgreed
  BY DEF InviteInv, InviteAgreed, Inviting!InviteAgreed, Agreed, KeptTrue, Shown
<1> QED  BY <1>1, <1>2, InviteKept, PTL DEF HandshakesSpec

-----------------------------------------------------------------------------
(* Pairing: a handshake state is what was mixed into it, so a ciphertext   *)
(* opens only where it was sealed.                                         *)

Shaped(st) == st = [hash |-> st.hash, chain |-> st.chain, nonce |-> st.nonce, why |-> st.why]

LEMMA Sealing ==
  ASSUME NEW st, Shaped(st), NEW plain
  PROVE  /\ Shaped(Pairing!AfterSeal(st, plain))
         /\ Pairing!AfterSeal(st, plain).chain = st.chain
         /\ Pairing!AfterSeal(st, plain).why = st.why
BY DEF Shaped, Pairing!AfterSeal, Pairing!Stepped, Pairing!Mixed, Pairing!MixHash

(* What opens was sealed where it is opened, and the reader is then where  *)
(* the writer was (decrypt_and_hash).                                      *)
LEMMA OpenedAsSealed ==
  ASSUME NEW st, NEW sealed, Shaped(st), Pairing!Going(Pairing!AfterOpen(st, sealed))
  PROVE  /\ Pairing!Going(st) /\ sealed = Pairing!Sealed(st, sealed.plain)
         /\ Pairing!AfterOpen(st, sealed) = Pairing!AfterSeal(st, sealed.plain)
<1>1. Pairing!Going(st)
  BY DEF Pairing!AfterOpen
<1>2. Pairing!Opens(st, sealed)
  <2>1. ~Pairing!Going(Pairing!Refused(st, "Decrypt"))
    BY <1>1 DEF Pairing!Going, Pairing!Refused, Shaped
  <2> QED  BY <1>1, <2>1 DEF Pairing!AfterOpen
<1> QED  BY <1>1, <1>2 DEF Pairing!Opens, Pairing!AfterOpen, Pairing!AfterSeal

LEMMA SealedOpens ==
  ASSUME NEW st, NEW plain, Pairing!Going(st)
  PROVE  Pairing!AfterOpen(st, Pairing!Sealed(st, plain)) = Pairing!AfterSeal(st, plain)
<1>1. Pairing!Sealed(st, plain).plain = plain
  BY DEF Pairing!Sealed
<1> QED  BY <1>1 DEF Pairing!AfterOpen, Pairing!AfterSeal, Pairing!Opens

(* Two keyed states seal alike only when they are one.                     *)
LEMMA SealsAlike ==
  ASSUME NEW st, NEW tt, NEW p, NEW q, Shaped(st), Shaped(tt),
         Pairing!Going(st), Pairing!Going(tt), Pairing!Keyed(st), Pairing!Keyed(tt),
         Pairing!Sealed(st, p) = Pairing!Sealed(tt, q)
  PROVE  st = tt /\ p = q
<1>1. /\ st.chain = tt.chain /\ st.nonce = tt.nonce /\ st.hash = tt.hash /\ p = q
  BY DEF Pairing!Sealed
<1> QED  BY <1>1 DEF Shaped, Pairing!Going

LEMMA MixingDh ==
  ASSUME NEW st, Shaped(st), NEW mine, NEW theirs
  PROVE  /\ Shaped(Pairing!MixDh(st, mine, theirs))
         /\ Pairing!Going(Pairing!MixDh(st, mine, theirs)) =>
              /\ Pairing!Going(st) /\ Pairing!Agrees(theirs)
              /\ Pairing!MixDh(st, mine, theirs).chain
                   = Append(st.chain, Pairing!Shared(mine, theirs))
         /\ Pairing!Going(st) /\ Pairing!Agrees(theirs) =>
              Pairing!Going(Pairing!MixDh(st, mine, theirs))
BY DEF Shaped, Pairing!MixDh, Pairing!MixKey, Pairing!Refused, Pairing!Going

(* Appending to a short tuple writes the longer one.                       *)
LEMMA Append1 ==
  ASSUME NEW a, NEW b
  PROVE  Append(<<a>>, b) = <<a, b>>
<1> DEFINE S == {a, b}
           s == Append(<<a>>, b)
           t == <<a, b>>
<1>1. <<a>> \in Seq(S) /\ Len(<<a>>) = 1
  OBVIOUS
<1>2. s \in Seq(S) /\ Len(s) = 2 /\ s[1] = a /\ s[2] = b
  BY <1>1
<1>3. t \in Seq(S) /\ Len(t) = 2 /\ t[1] = a /\ t[2] = b
  OBVIOUS
<1>4. \A i \in 1 .. 2 : i = 1 \/ i = 2
  OBVIOUS
<1> HIDE DEF s, t, S
<1>5. \A i \in 1 .. Len(s) : s[i] = t[i]
  BY <1>2, <1>3, <1>4
<1> QED  BY <1>2, <1>3, <1>5, SeqEqual DEF s, t

LEMMA Append2 ==
  ASSUME NEW a, NEW b, NEW c
  PROVE  Append(<<a, b>>, c) = <<a, b, c>>
<1> DEFINE S == {a, b, c}
           s == Append(<<a, b>>, c)
           t == <<a, b, c>>
<1>1. <<a, b>> \in Seq(S) /\ Len(<<a, b>>) = 2
  OBVIOUS
<1>2. s \in Seq(S) /\ Len(s) = 3 /\ s[1] = a /\ s[2] = b /\ s[3] = c
  BY <1>1
<1>3. t \in Seq(S) /\ Len(t) = 3 /\ t[1] = a /\ t[2] = b /\ t[3] = c
  OBVIOUS
<1>4. \A i \in 1 .. 3 : i = 1 \/ i = 2 \/ i = 3
  OBVIOUS
<1> HIDE DEF s, t, S
<1>5. \A i \in 1 .. Len(s) : s[i] = t[i]
  BY <1>2, <1>3, <1>4
<1> QED  BY <1>2, <1>3, <1>5, SeqEqual DEF s, t

LEMMA Append3 ==
  ASSUME NEW a, NEW b, NEW c, NEW d
  PROVE  Append(<<a, b, c>>, d) = <<a, b, c, d>>
<1> DEFINE S == {a, b, c, d}
           s == Append(<<a, b, c>>, d)
           t == <<a, b, c, d>>
<1>1. <<a, b, c>> \in Seq(S) /\ Len(<<a, b, c>>) = 3
  OBVIOUS
<1>2. s \in Seq(S) /\ Len(s) = 4 /\ s[1] = a /\ s[2] = b /\ s[3] = c /\ s[4] = d
  BY <1>1
<1>3. t \in Seq(S) /\ Len(t) = 4 /\ t[1] = a /\ t[2] = b /\ t[3] = c /\ t[4] = d
  OBVIOUS
<1>4. \A i \in 1 .. 4 : i = 1 \/ i = 2 \/ i = 3 \/ i = 4
  OBVIOUS
<1> HIDE DEF s, t, S
<1>5. \A i \in 1 .. Len(s) : s[i] = t[i]
  BY <1>2, <1>3, <1>4
<1> QED  BY <1>2, <1>3, <1>5, SeqEqual DEF s, t

LEMMA Append4 ==
  ASSUME NEW a, NEW b, NEW c, NEW d, NEW e
  PROVE  Append(<<a, b, c, d>>, e) = <<a, b, c, d, e>>
<1> DEFINE S == {a, b, c, d, e}
           s == Append(<<a, b, c, d>>, e)
           t == <<a, b, c, d, e>>
<1>1. <<a, b, c, d>> \in Seq(S) /\ Len(<<a, b, c, d>>) = 4
  OBVIOUS
<1>2. s \in Seq(S) /\ Len(s) = 5 /\ s[1] = a /\ s[2] = b /\ s[3] = c /\ s[4] = d /\ s[5] = e
  BY <1>1
<1>3. t \in Seq(S) /\ Len(t) = 5 /\ t[1] = a /\ t[2] = b /\ t[3] = c /\ t[4] = d /\ t[5] = e
  OBVIOUS
<1>4. \A i \in 1 .. 5 : i = 1 \/ i = 2 \/ i = 3 \/ i = 4 \/ i = 5
  OBVIOUS
<1> HIDE DEF s, t, S
<1>5. \A i \in 1 .. Len(s) : s[i] = t[i]
  BY <1>2, <1>3, <1>4
<1> QED  BY <1>2, <1>3, <1>5, SeqEqual DEF s, t

LEMMA Append5 ==
  ASSUME NEW a, NEW b, NEW c, NEW d, NEW e, NEW f
  PROVE  Append(<<a, b, c, d, e>>, f) = <<a, b, c, d, e, f>>
<1> DEFINE S == {a, b, c, d, e, f}
           s == Append(<<a, b, c, d, e>>, f)
           t == <<a, b, c, d, e, f>>
<1>1. <<a, b, c, d, e>> \in Seq(S) /\ Len(<<a, b, c, d, e>>) = 5
  OBVIOUS
<1>2. s \in Seq(S) /\ Len(s) = 6 /\ s[1] = a /\ s[2] = b /\ s[3] = c /\ s[4] = d /\ s[5] = e /\ s[6] = f
  BY <1>1
<1>3. t \in Seq(S) /\ Len(t) = 6 /\ t[1] = a /\ t[2] = b /\ t[3] = c /\ t[4] = d /\ t[5] = e /\ t[6] = f
  OBVIOUS
<1>4. \A i \in 1 .. 6 : i = 1 \/ i = 2 \/ i = 3 \/ i = 4 \/ i = 5 \/ i = 6
  OBVIOUS
<1> HIDE DEF s, t, S
<1>5. \A i \in 1 .. Len(s) : s[i] = t[i]
  BY <1>2, <1>3, <1>4
<1> QED  BY <1>2, <1>3, <1>5, SeqEqual DEF s, t

LEMMA Append6 ==
  ASSUME NEW a, NEW b, NEW c, NEW d, NEW e, NEW f, NEW g
  PROVE  Append(<<a, b, c, d, e, f>>, g) = <<a, b, c, d, e, f, g>>
<1> DEFINE S == {a, b, c, d, e, f, g}
           s == Append(<<a, b, c, d, e, f>>, g)
           t == <<a, b, c, d, e, f, g>>
<1>1. <<a, b, c, d, e, f>> \in Seq(S) /\ Len(<<a, b, c, d, e, f>>) = 6
  OBVIOUS
<1>2. s \in Seq(S) /\ Len(s) = 7 /\ s[1] = a /\ s[2] = b /\ s[3] = c /\ s[4] = d /\ s[5] = e
      /\ s[6] = f /\ s[7] = g
  BY <1>1
<1>3. t \in Seq(S) /\ Len(t) = 7 /\ t[1] = a /\ t[2] = b /\ t[3] = c /\ t[4] = d /\ t[5] = e
      /\ t[6] = f /\ t[7] = g
  OBVIOUS
<1>4. \A i \in 1 .. 7 : i = 1 \/ i = 2 \/ i = 3 \/ i = 4 \/ i = 5 \/ i = 6 \/ i = 7
  OBVIOUS
<1> HIDE DEF s, t, S
<1>5. \A i \in 1 .. Len(s) : s[i] = t[i]
  BY <1>2, <1>3, <1>4
<1> QED  BY <1>2, <1>3, <1>5, SeqEqual DEF s, t

LEMMA MixesKey ==
  ASSUME NEW st, Shaped(st), NEW x
  PROVE  /\ Shaped(Pairing!MixKey(st, x)) /\ Pairing!MixKey(st, x).why = st.why
         /\ Pairing!MixKey(st, x).hash = st.hash
         /\ Pairing!MixKey(st, x).chain = Append(st.chain, x) /\ Pairing!MixKey(st, x).nonce = 0
BY DEF Pairing!MixKey, Shaped

LEMMA MixesHash ==
  ASSUME NEW st, Shaped(st), NEW x
  PROVE  /\ Shaped(Pairing!MixHash(st, x)) /\ Pairing!MixHash(st, x).why = st.why
         /\ Pairing!MixHash(st, x).hash = Append(st.hash, x)
         /\ Pairing!MixHash(st, x).chain = st.chain /\ Pairing!MixHash(st, x).nonce = st.nonce
BY DEF Pairing!MixHash, Shaped

(* The first message's state, written out (PairInitiator::start).          *)
LEMMA FirstIs ==
  ASSUME NEW prologue, NEW psk, NEW e
  PROVE  LET st == Pairing!PairFirst(prologue, psk, e)
         IN  /\ Shaped(st) /\ Pairing!Going(st) /\ st.nonce = 0
             /\ st.hash = <<"XXpsk0", prologue, <<"extra", <<"XXpsk0", psk>>>>, e>>
             /\ st.chain = <<"XXpsk0", psk, e>>
<1> DEFINE st0 == Pairing!Start("XXpsk0", prologue)
           st1 == Pairing!MixKey(st0, psk)
           st2 == Pairing!MixHash(st1, <<"extra", st1.chain>>)
           st3 == Pairing!MixHash(st2, e)
           st4 == Pairing!MixKey(st3, e)
<1>1. /\ Shaped(st0) /\ st0.why = "" /\ st0.hash = <<"XXpsk0", prologue>>
      /\ st0.chain = <<"XXpsk0">>
  BY DEF Pairing!Start, Shaped
<1>a. /\ Append(<<"XXpsk0">>, psk) = <<"XXpsk0", psk>>
      /\ Append(<<"XXpsk0", prologue>>, <<"extra", <<"XXpsk0", psk>>>>)
           = <<"XXpsk0", prologue, <<"extra", <<"XXpsk0", psk>>>>>>
      /\ Append(<<"XXpsk0", prologue, <<"extra", <<"XXpsk0", psk>>>>>>, e)
           = <<"XXpsk0", prologue, <<"extra", <<"XXpsk0", psk>>>>, e>>
      /\ Append(<<"XXpsk0", psk>>, e) = <<"XXpsk0", psk, e>>
  BY Append1, Append2, Append3
<1> HIDE DEF st0
<1>2. /\ Shaped(st1) /\ st1.why = "" /\ st1.hash = <<"XXpsk0", prologue>>
      /\ st1.chain = <<"XXpsk0", psk>>
  <2>1. /\ Shaped(st1) /\ st1.why = st0.why
        /\ st1.hash = st0.hash /\ st1.chain = Append(st0.chain, psk) /\ st1.nonce = 0
    BY <1>1, MixesKey
  <2> HIDE DEF st1
  <2> QED  BY <1>1, <1>a, <2>1
<1> HIDE DEF st1
<1>3. /\ Shaped(st2) /\ st2.why = ""
      /\ st2.hash = <<"XXpsk0", prologue, <<"extra", <<"XXpsk0", psk>>>>>>
      /\ st2.chain = <<"XXpsk0", psk>>
  <2>1. /\ Shaped(st2) /\ st2.why = st1.why
        /\ st2.hash = Append(st1.hash, <<"extra", st1.chain>>) /\ st2.chain = st1.chain
    BY <1>2, MixesHash
  <2> HIDE DEF st2
  <2> QED  BY <1>2, <1>a, <2>1
<1> HIDE DEF st2
<1>4. /\ Shaped(st3) /\ st3.why = ""
      /\ st3.hash = <<"XXpsk0", prologue, <<"extra", <<"XXpsk0", psk>>>>, e>>
      /\ st3.chain = <<"XXpsk0", psk>>
  <2>1. /\ Shaped(st3) /\ st3.why = st2.why
        /\ st3.hash = Append(st2.hash, e) /\ st3.chain = st2.chain
    BY <1>3, MixesHash
  <2> HIDE DEF st3
  <2> QED  BY <1>3, <1>a, <2>1
<1> HIDE DEF st3
<1>5. /\ Shaped(st4) /\ st4.why = "" /\ st4.nonce = 0
      /\ st4.hash = <<"XXpsk0", prologue, <<"extra", <<"XXpsk0", psk>>>>, e>>
      /\ st4.chain = <<"XXpsk0", psk, e>>
  <2>1. /\ Shaped(st4) /\ st4.why = st3.why
        /\ st4.hash = st3.hash /\ st4.chain = Append(st3.chain, e) /\ st4.nonce = 0
    BY <1>4, MixesKey
  <2> HIDE DEF st4
  <2> QED  BY <1>4, <1>a, <2>1
<1>6. Pairing!PairFirst(prologue, psk, e) = st4
  BY DEF Pairing!PairFirst, Pairing!MixEphemeral, Pairing!MixKeyAndHash, st0, st1, st2, st3
<1> HIDE DEF st4
<1> QED  BY <1>5, <1>6 DEF Pairing!Going
-----------------------------------------------------------------------------
(* What may arrive for a message of two parts, or of three.                *)

LEMMA TwoParts ==
  ASSUME NEW S, NEW s \in Seq(S), Len(s) = 2
  PROVE  s = <<s[1], s[2]>>
<1> DEFINE t == <<s[1], s[2]>>
<1>1. s[1] \in S /\ s[2] \in S
  BY ElementOfSeq
<1>2. t \in Seq(S) /\ Len(t) = 2 /\ t[1] = s[1] /\ t[2] = s[2]
  BY <1>1
<1>3. \A i \in 1 .. 2 : i = 1 \/ i = 2
  OBVIOUS
<1> HIDE DEF t
<1>4. \A i \in 1 .. Len(s) : s[i] = t[i]
  BY <1>2, <1>3
<1> QED  BY <1>2, <1>4, SeqEqual DEF t

LEMMA ThreeParts ==
  ASSUME NEW S, NEW s \in Seq(S), Len(s) = 3
  PROVE  s = <<s[1], s[2], s[3]>>
<1> DEFINE t == <<s[1], s[2], s[3]>>
<1>0. 1 \in 1 .. Len(s) /\ 2 \in 1 .. Len(s) /\ 3 \in 1 .. Len(s)
  OBVIOUS
<1>1. s[1] \in S /\ s[2] \in S /\ s[3] \in S
  BY <1>0, ElementOfSeq
<1>2. t \in Seq(S) /\ Len(t) = 3 /\ t[1] = s[1] /\ t[2] = s[2] /\ t[3] = s[3]
  BY <1>1
<1>3. \A i \in 1 .. 3 : i = 1 \/ i = 2 \/ i = 3
  OBVIOUS
<1> HIDE DEF t
<1>4. \A i \in 1 .. Len(s) : s[i] = t[i]
  BY <1>2, <1>3
<1> QED  BY <1>2, <1>4, SeqEqual DEF t

LEMMA ArrivesWhole ==
  ASSUME NEW m1, NEW m2, NEW o1, NEW o2,
         NEW seen \in Pairing!Arriving(<<m1, m2>>, <<o1, o2>>)
  PROVE  \/ Pairing!Cut(seen, 2)
         \/ seen = <<seen[1], seen[2]>> /\ seen[1] \in {m1, o1} /\ seen[2] \in {m2, o2}
<1> DEFINE S == {m1, m2, o1, o2}
           m == <<m1, m2>>
           o == <<o1, o2>>
           Whole(x) == x \in Seq(S) /\ Len(x) = 2 /\ x[1] \in {m1, o1} /\ x[2] \in {m2, o2}
<1>1. m \in Seq(S) /\ Len(m) = 2 /\ o \in Seq(S) /\ Len(o) = 2 /\ DOMAIN m = 1 .. 2
      /\ m[1] = m1 /\ m[2] = m2 /\ o[1] = o1 /\ o[2] = o2
  OBVIOUS
<1>2. seen \in Pairing!Arriving(m, o)
  OBVIOUS
<1> HIDE DEF m, o, S
<1>3. Whole(m) /\ Whole(o)
  BY <1>1
<1>4. Len(SubSeq(m, 1, Len(m) - 1)) = 1
  BY <1>1
<1>5. \A i \in DOMAIN m : Whole([m EXCEPT ![i] = o[i]])
  <2>1. TAKE i \in DOMAIN m
  <2>2. i \in 1 .. Len(m) /\ o[i] \in S
    BY <1>1, ElementOfSeq
  <2>3. PICK x : x = [m EXCEPT ![i] = o[i]]
    OBVIOUS
  <2>4. /\ x \in Seq(S) /\ Len(x) = Len(m)
        /\ \A j \in 1 .. Len(m) : x[j] = IF j = i THEN o[i] ELSE m[j]
    BY <1>1, <2>2, <2>3, ExceptSeq
  <2>5. Whole(x)
    BY <1>1, <2>4
  <2> QED  BY <2>3, <2>5
<1>6. Whole(seen) \/ Len(seen) = 1
  <2> HIDE DEF Whole
  <2> QED  BY <1>2, <1>3, <1>4, <1>5 DEF Pairing!Arriving
<1>7. Whole(seen) => seen = <<seen[1], seen[2]>>
  BY TwoParts
<1> QED  BY <1>6, <1>7 DEF Pairing!Cut

LEMMA ArrivesTwo ==
  ASSUME NEW m1, NEW m2, NEW o1, NEW o2,
         NEW seen \in Pairing!LowOrdered(Pairing!Arriving(<<m1, m2>>, <<o1, o2>>))
  PROVE  \/ Pairing!Cut(seen, 2)
         \/ /\ seen = <<seen[1], seen[2]>> /\ ~Pairing!Cut(seen, 2)
            /\ seen[2] \in {m2, o2}
<1> DEFINE S == {m1, m2, o1, o2, Pairing!LowOrder}
           m == <<m1, m2>>
           o == <<o1, o2>>
           Whole(x) == x \in Seq(S) /\ Len(x) = 2 /\ x[2] \in {m2, o2}
           Short(x) == x \in Seq(S) /\ Len(x) = 1
<1>1. m \in Seq(S) /\ Len(m) = 2 /\ o \in Seq(S) /\ Len(o) = 2 /\ DOMAIN m = 1 .. 2
      /\ m[1] = m1 /\ m[2] = m2 /\ o[1] = o1 /\ o[2] = o2
  OBVIOUS
<1>a. Pairing!LowOrder \in S
  OBVIOUS
<1> HIDE DEF m, o, S
<1>2. \A x \in Pairing!Arriving(m, o) : Whole(x) \/ Short(x)
  <2>1. Whole(m) /\ Whole(o)
    BY <1>1
  <2>2. Short(SubSeq(m, 1, Len(m) - 1))
    BY <1>1
  <2>3. \A i \in DOMAIN m : Whole([m EXCEPT ![i] = o[i]])
    <3>1. TAKE i \in DOMAIN m
    <3>2. i \in 1 .. Len(m) /\ o[i] \in S
      BY <1>1, ElementOfSeq
    <3>3. PICK x : x = [m EXCEPT ![i] = o[i]]
      OBVIOUS
    <3>4. /\ x \in Seq(S) /\ Len(x) = Len(m)
          /\ \A j \in 1 .. Len(m) : x[j] = IF j = i THEN o[i] ELSE m[j]
      BY <1>1, <3>2, <3>3, ExceptSeq
    <3>5. Whole(x)
      BY <1>1, <3>4
    <3> QED  BY <3>3, <3>5
  <2> HIDE DEF Whole, Short
  <2> QED  BY <2>1, <2>2, <2>3 DEF Pairing!Arriving
<1>3. ASSUME NEW x, Whole(x) PROVE Whole([x EXCEPT ![1] = Pairing!LowOrder])
  <2>1. PICK y : y = [x EXCEPT ![1] = Pairing!LowOrder]
    OBVIOUS
  <2>2. x \in Seq(S) /\ 1 \in 1 .. Len(x)
    BY <1>3
  <2>3. /\ y \in Seq(S) /\ Len(y) = Len(x)
        /\ \A j \in 1 .. Len(x) : y[j] = IF j = 1 THEN Pairing!LowOrder ELSE x[j]
    BY <1>a, <2>1, <2>2, ExceptSeq
  <2>4. Whole(y)
    BY <1>3, <2>3
  <2> QED  BY <2>1, <2>4
<1>4. ASSUME NEW x, Short(x) PROVE Short([x EXCEPT ![1] = Pairing!LowOrder])
  <2>1. PICK y : y = [x EXCEPT ![1] = Pairing!LowOrder]
    OBVIOUS
  <2>2. x \in Seq(S) /\ 1 \in 1 .. Len(x)
    BY <1>4
  <2>3. /\ y \in Seq(S) /\ Len(y) = Len(x)
        /\ \A j \in 1 .. Len(x) : y[j] = IF j = 1 THEN Pairing!LowOrder ELSE x[j]
    BY <1>a, <2>1, <2>2, ExceptSeq
  <2>4. Short(y)
    BY <1>4, <2>3
  <2> QED  BY <2>1, <2>4
<1>5. seen \in Pairing!LowOrdered(Pairing!Arriving(m, o))
  BY DEF m, o
<1>6. Whole(seen) \/ Short(seen)
  <2> HIDE DEF Whole, Short
  <2> QED  BY <1>2, <1>3, <1>4, <1>5 DEF Pairing!LowOrdered
<1>7. Whole(seen) => seen = <<seen[1], seen[2]>>
  BY TwoParts
<1> QED  BY <1>6, <1>7 DEF Pairing!Cut

LEMMA ArrivesThree ==
  ASSUME NEW m1, NEW m2, NEW m3, NEW o1, NEW o2, NEW o3,
         NEW seen \in Pairing!LowOrdered(Pairing!Arriving(<<m1, m2, m3>>, <<o1, o2, o3>>))
  PROVE  \/ Pairing!Cut(seen, 3)
         \/ /\ seen = <<seen[1], seen[2], seen[3]>> /\ ~Pairing!Cut(seen, 3)
            /\ seen[2] \in {m2, o2} /\ seen[3] \in {m3, o3}
<1> DEFINE S == {m1, m2, m3, o1, o2, o3, Pairing!LowOrder}
           m == <<m1, m2, m3>>
           o == <<o1, o2, o3>>
           Whole(x) == x \in Seq(S) /\ Len(x) = 3 /\ x[2] \in {m2, o2} /\ x[3] \in {m3, o3}
           Short(x) == x \in Seq(S) /\ Len(x) = 2
<1>1. m \in Seq(S) /\ Len(m) = 3 /\ o \in Seq(S) /\ Len(o) = 3 /\ DOMAIN m = 1 .. 3
      /\ m[1] = m1 /\ m[2] = m2 /\ m[3] = m3 /\ o[1] = o1 /\ o[2] = o2 /\ o[3] = o3
  OBVIOUS
<1>a. Pairing!LowOrder \in S
  OBVIOUS
<1> HIDE DEF m, o, S
<1>2. \A x \in Pairing!Arriving(m, o) : Whole(x) \/ Short(x)
  <2>1. Whole(m) /\ Whole(o)
    BY <1>1
  <2>2. Short(SubSeq(m, 1, Len(m) - 1))
    BY <1>1
  <2>3. \A i \in DOMAIN m : Whole([m EXCEPT ![i] = o[i]])
    <3>1. TAKE i \in DOMAIN m
    <3>2. i \in 1 .. Len(m) /\ o[i] \in S
      BY <1>1, ElementOfSeq
    <3>3. PICK x : x = [m EXCEPT ![i] = o[i]]
      OBVIOUS
    <3>4. /\ x \in Seq(S) /\ Len(x) = Len(m)
          /\ \A j \in 1 .. Len(m) : x[j] = IF j = i THEN o[i] ELSE m[j]
      BY <1>1, <3>2, <3>3, ExceptSeq
    <3>5. Whole(x)
      BY <1>1, <3>4
    <3> QED  BY <3>3, <3>5
  <2> HIDE DEF Whole, Short
  <2> QED  BY <2>1, <2>2, <2>3 DEF Pairing!Arriving
<1>3. ASSUME NEW x, Whole(x) PROVE Whole([x EXCEPT ![1] = Pairing!LowOrder])
  <2>1. PICK y : y = [x EXCEPT ![1] = Pairing!LowOrder]
    OBVIOUS
  <2>2. x \in Seq(S) /\ 1 \in 1 .. Len(x)
    BY <1>3
  <2>3. /\ y \in Seq(S) /\ Len(y) = Len(x)
        /\ \A j \in 1 .. Len(x) : y[j] = IF j = 1 THEN Pairing!LowOrder ELSE x[j]
    BY <1>a, <2>1, <2>2, ExceptSeq
  <2>4. Whole(y)
    BY <1>3, <2>3
  <2> QED  BY <2>1, <2>4
<1>4. ASSUME NEW x, Short(x) PROVE Short([x EXCEPT ![1] = Pairing!LowOrder])
  <2>1. PICK y : y = [x EXCEPT ![1] = Pairing!LowOrder]
    OBVIOUS
  <2>2. x \in Seq(S) /\ 1 \in 1 .. Len(x)
    BY <1>4
  <2>3. /\ y \in Seq(S) /\ Len(y) = Len(x)
        /\ \A j \in 1 .. Len(x) : y[j] = IF j = 1 THEN Pairing!LowOrder ELSE x[j]
    BY <1>a, <2>1, <2>2, ExceptSeq
  <2>4. Short(y)
    BY <1>4, <2>3
  <2> QED  BY <2>1, <2>4
<1>5. seen \in Pairing!LowOrdered(Pairing!Arriving(m, o))
  BY DEF m, o
<1>6. Whole(seen) \/ Short(seen)
  <2> HIDE DEF Whole, Short
  <2> QED  BY <1>2, <1>3, <1>4, <1>5 DEF Pairing!LowOrdered
<1>7. Whole(seen) => seen = <<seen[1], seen[2], seen[3]>>
  BY ThreeParts
<1> QED  BY <1>6, <1>7 DEF Pairing!Cut
-----------------------------------------------------------------------------
(* What a state of the pairing is: the attempt it belongs to is in its     *)
(* chain.                                                                  *)

Tied(st, psk, n) ==
  /\ Shaped(st) /\ Pairing!Going(st)
  /\ st.chain = <<"XXpsk0", psk, Pairing!Ephemeral("phone", n)>>

Ee(st, n)  == Pairing!PairEe(st, Pairing!Ephemeral("unit", n), Pairing!Ephemeral("unit", n),
                             Pairing!Ephemeral("phone", n))
Es(st, n)  == Pairing!PairEs(st, Pairing!Ephemeral("unit", n), Pairing!Ephemeral("phone", n),
                             Pairing!Controller)
Se(st, n)  == Pairing!PairSe(st, Pairing!Client(n), Pairing!Ephemeral("unit", n))

(* None of the pairing's own keys is the low-order one.                    *)
LEMMA KeysAgree ==
  ASSUME NEW n
  PROVE  /\ Pairing!Agrees(Pairing!Ephemeral("phone", n))
         /\ Pairing!Agrees(Pairing!Ephemeral("unit", n))
         /\ Pairing!Agrees(Pairing!Client(n)) /\ Pairing!Agrees(Pairing!Controller)
<1>1. \A k, o, m : k # "low" => Pairing!Key(k, o, m) # Pairing!LowOrder
  BY DEF Pairing!Key, Pairing!LowOrder
<1>2. "ephemeral" # "low" /\ "client" # "low" /\ "controller" # "low"
  OBVIOUS
<1> QED  BY <1>1, <1>2 DEF Pairing!Agrees, Pairing!Ephemeral, Pairing!Client, Pairing!Controller

LEMMA SharedSame ==
  ASSUME NEW a, NEW b
  PROVE  Pairing!Shared(a, b) = Pairing!Shared(b, a)
<1>1. {a, b} = {b, a}
  OBVIOUS
<1> QED  BY <1>1 DEF Pairing!Shared

LEMMA EeIs ==
  ASSUME NEW st, NEW psk, NEW n, Tied(st, psk, n), NEW e, NEW mine, NEW theirs
  PROVE  LET s == Pairing!PairEe(st, e, mine, theirs)
         IN  /\ Shaped(s)
             /\ Pairing!Agrees(theirs) => Pairing!Going(s)
             /\ Pairing!Going(s) =>
                  s.chain = <<"XXpsk0", psk, Pairing!Ephemeral("phone", n), e,
                              Pairing!Shared(mine, theirs)>>
<1>1. PICK h : h = Pairing!MixHash(st, e)
  OBVIOUS
<1>2. Shaped(h) /\ h.why = "" /\ h.chain = st.chain
  BY <1>1, MixesHash DEF Tied, Pairing!Going
<1>3. PICK k : k = Pairing!MixKey(h, e)
  OBVIOUS
<1>4. Shaped(k) /\ k.why = "" /\ k.chain = Append(h.chain, e)
  BY <1>2, <1>3, MixesKey
<1>5. PICK w : w = Pairing!Ephemeral("phone", n)
  OBVIOUS
<1>6. k.chain = <<"XXpsk0", psk, w, e>>
  BY <1>2, <1>4, <1>5, Append3 DEF Tied
<1>7. PICK s : s = Pairing!MixDh(k, mine, theirs)
  OBVIOUS
<1>8. PICK d : d = Pairing!Shared(mine, theirs)
  OBVIOUS
<1>9. /\ Shaped(s)
      /\ Pairing!Agrees(theirs) => Pairing!Going(s)
      /\ Pairing!Going(s) => s.chain = Append(k.chain, d)
  BY <1>4, <1>7, <1>8, MixingDh DEF Pairing!Going
<1>10. Append(<<"XXpsk0", psk, w, e>>, d) = <<"XXpsk0", psk, w, e, d>>
  BY Append4
<1>11. Pairing!PairEe(st, e, mine, theirs) = s
  BY <1>1, <1>3, <1>7 DEF Pairing!PairEe, Pairing!MixEphemeral
<1> QED  BY <1>5, <1>6, <1>8, <1>9, <1>10, <1>11

LEMMA EeGoes ==
  ASSUME NEW st, NEW psk, NEW n, Tied(st, psk, n)
  PROVE  /\ Shaped(Ee(st, n)) /\ Pairing!Going(Ee(st, n)) /\ Pairing!Keyed(Ee(st, n))
         /\ Ee(st, n).chain =
              <<"XXpsk0", psk, Pairing!Ephemeral("phone", n), Pairing!Ephemeral("unit", n),
                Pairing!Shared(Pairing!Ephemeral("unit", n), Pairing!Ephemeral("phone", n))>>
<1>1. PICK u : u = Pairing!Ephemeral("unit", n)
  OBVIOUS
<1>2. PICK w : w = Pairing!Ephemeral("phone", n)
  OBVIOUS
<1>3. PICK s : s = Ee(st, n)
  OBVIOUS
<1>4. s = Pairing!PairEe(st, u, u, w) /\ Pairing!Agrees(w)
  BY <1>1, <1>2, <1>3, KeysAgree DEF Ee
<1>5. /\ Shaped(s) /\ Pairing!Going(s)
      /\ s.chain = <<"XXpsk0", psk, w, u, Pairing!Shared(u, w)>>
  BY <1>2, <1>4, EeIs
<1>6. Len(<<"XXpsk0", psk, w, u, Pairing!Shared(u, w)>>) = 5
  OBVIOUS
<1>7. Pairing!Keyed(s)
  BY <1>5, <1>6 DEF Pairing!Keyed
<1> QED  BY <1>1, <1>2, <1>3, <1>5, <1>7

LEMMA EsGoes ==
  ASSUME NEW st, NEW psk, NEW n, Tied(st, psk, n)
  PROVE  /\ Shaped(Es(st, n)) /\ Pairing!Going(Es(st, n)) /\ Pairing!Keyed(Es(st, n))
         /\ Es(st, n).chain =
              <<"XXpsk0", psk, Pairing!Ephemeral("phone", n), Pairing!Ephemeral("unit", n),
                Pairing!Shared(Pairing!Ephemeral("unit", n), Pairing!Ephemeral("phone", n)),
                Pairing!Shared(Pairing!Controller, Pairing!Ephemeral("phone", n))>>
<1>1. PICK u : u = Pairing!Ephemeral("unit", n)
  OBVIOUS
<1>2. PICK w : w = Pairing!Ephemeral("phone", n)
  OBVIOUS
<1>3. PICK s : s = Ee(st, n)
  OBVIOUS
<1>4. PICK c : c = Pairing!Controller
  OBVIOUS
<1>5. /\ Shaped(s) /\ s.why = "" /\ s.chain = <<"XXpsk0", psk, w, u, Pairing!Shared(u, w)>>
  BY <1>1, <1>2, <1>3, EeGoes DEF Pairing!Going
<1>6. PICK a : a = Pairing!AfterSeal(s, c)
  OBVIOUS
<1>7. Shaped(a) /\ a.chain = s.chain /\ a.why = ""
  BY <1>5, <1>6, Sealing
<1>8. PICK r : r = Pairing!MixDh(a, c, w)
  OBVIOUS
<1>9. PICK d : d = Pairing!Shared(u, w)
  OBVIOUS
<1>10. PICK f : f = Pairing!Shared(c, w)
  OBVIOUS
<1>11. Shaped(r) /\ Pairing!Going(r) /\ r.chain = Append(a.chain, f)
  BY <1>2, <1>7, <1>8, <1>10, MixingDh, KeysAgree DEF Pairing!Going
<1>12. Append(<<"XXpsk0", psk, w, u, d>>, f) = <<"XXpsk0", psk, w, u, d, f>>
  BY Append5
<1>13. r.chain = <<"XXpsk0", psk, w, u, d, f>>
  BY <1>5, <1>7, <1>9, <1>11, <1>12
<1>14. Len(<<"XXpsk0", psk, w, u, d, f>>) = 6
  OBVIOUS
<1>15. Pairing!Keyed(r)
  BY <1>13, <1>14 DEF Pairing!Keyed
<1>16. Es(st, n) = r
  BY <1>1, <1>2, <1>3, <1>4, <1>6, <1>8 DEF Es, Ee, Pairing!PairEs
<1> QED  BY <1>1, <1>2, <1>4, <1>9, <1>10, <1>11, <1>13, <1>15, <1>16

LEMMA SeGoes ==
  ASSUME NEW st, NEW psk, NEW n, Tied(st, psk, n)
  PROVE  LET a == Pairing!Answered(st, n)
         IN  /\ Shaped(a) /\ Pairing!Going(a) /\ Pairing!Keyed(a)
             /\ a.chain = Es(st, n).chain
             /\ Shaped(Se(a, n)) /\ Pairing!Going(Se(a, n)) /\ Pairing!Keyed(Se(a, n))
             /\ Se(a, n).chain =
                  <<"XXpsk0", psk, Pairing!Ephemeral("phone", n), Pairing!Ephemeral("unit", n),
                    Pairing!Shared(Pairing!Ephemeral("unit", n), Pairing!Ephemeral("phone", n)),
                    Pairing!Shared(Pairing!Controller, Pairing!Ephemeral("phone", n)),
                    Pairing!Shared(Pairing!Client(n), Pairing!Ephemeral("unit", n))>>
<1>1. PICK u : u = Pairing!Ephemeral("unit", n)
  OBVIOUS
<1>2. PICK w : w = Pairing!Ephemeral("phone", n)
  OBVIOUS
<1>3. PICK s : s = Es(st, n)
  OBVIOUS
<1>4. PICK c : c = Pairing!Client(n)
  OBVIOUS
<1>5. PICK d : d = Pairing!Shared(u, w)
  OBVIOUS
<1>6. PICK f : f = Pairing!Shared(Pairing!Controller, w)
  OBVIOUS
<1>7. PICK g : g = Pairing!Shared(c, u)
  OBVIOUS
<1>8. /\ Shaped(s) /\ s.why = "" /\ Pairing!Keyed(s) /\ s.chain = <<"XXpsk0", psk, w, u, d, f>>
  BY <1>1, <1>2, <1>3, <1>5, <1>6, EsGoes DEF Pairing!Going
<1>9. PICK a : a = Pairing!AfterSeal(s, "answer")
  OBVIOUS
<1>10. Shaped(a) /\ a.chain = s.chain /\ a.why = ""
  BY <1>8, <1>9, Sealing
<1>11. a = Pairing!Answered(st, n)
  BY <1>3, <1>9 DEF Pairing!Answered, Pairing!PairReplied, Es
<1>12. PICK b : b = Pairing!AfterSeal(a, c)
  OBVIOUS
<1>13. Shaped(b) /\ b.chain = s.chain /\ b.why = ""
  BY <1>10, <1>12, Sealing
<1>14. PICK r : r = Pairing!MixDh(b, c, u)
  OBVIOUS
<1>15. Shaped(r) /\ Pairing!Going(r) /\ r.chain = Append(b.chain, g)
  BY <1>1, <1>7, <1>13, <1>14, MixingDh, KeysAgree DEF Pairing!Going
<1>16. Append(<<"XXpsk0", psk, w, u, d, f>>, g) = <<"XXpsk0", psk, w, u, d, f, g>>
  BY Append6
<1>17. r.chain = <<"XXpsk0", psk, w, u, d, f, g>>
  BY <1>8, <1>13, <1>15, <1>16
<1>18. Len(<<"XXpsk0", psk, w, u, d, f, g>>) = 7
  OBVIOUS
<1>19. Pairing!Keyed(r) /\ Pairing!Keyed(a)
  <2>1. Pairing!Keyed(r)
    BY <1>17, <1>18 DEF Pairing!Keyed
  <2>2. Pairing!Keyed(a)
    BY <1>8, <1>10 DEF Pairing!Keyed
  <2> QED  BY <2>1, <2>2
<1>20. Se(a, n) = r
  BY <1>1, <1>4, <1>12, <1>14 DEF Se, Pairing!PairSe
<1>21. Pairing!Going(a)
  BY <1>10 DEF Pairing!Going
<1> QED  BY <1>1, <1>2, <1>3, <1>4, <1>5, <1>6, <1>7, <1>10, <1>11, <1>15, <1>17, <1>19, <1>20, <1>21

First(v, e)  == Pairing!PairFirst(v.prologue, Pairing!Psk(v), e)
Begun(v, n)  == Pairing!PairStarted(v.prologue, Pairing!Psk(v), Pairing!Ephemeral("phone", n), "offer")

LEMMA FirstGoes ==
  ASSUME NEW v, NEW e
  PROVE  Shaped(First(v, e)) /\ Pairing!Going(First(v, e)) /\ Pairing!Keyed(First(v, e))
<1>1. PICK s : s = First(v, e)
  OBVIOUS
<1>2. PICK k : k = Pairing!Psk(v)
  OBVIOUS
<1>3. Shaped(s) /\ Pairing!Going(s) /\ s.chain = <<"XXpsk0", k, e>>
  BY <1>1, <1>2, FirstIs DEF First
<1>4. Len(<<"XXpsk0", k, e>>) = 3
  OBVIOUS
<1> QED  BY <1>1, <1>3, <1>4 DEF Pairing!Keyed

LEMMA BegunTied ==
  ASSUME NEW v, NEW n
  PROVE  Tied(Begun(v, n), Pairing!Psk(v), n)
<1>1. PICK w : w = Pairing!Ephemeral("phone", n)
  OBVIOUS
<1>2. PICK s : s = First(v, w)
  OBVIOUS
<1>3. PICK k : k = Pairing!Psk(v)
  OBVIOUS
<1>4. Shaped(s) /\ s.why = "" /\ s.chain = <<"XXpsk0", k, w>>
  <2>1. Shaped(s) /\ Pairing!Going(s) /\ s.chain = <<"XXpsk0", k, w>>
    BY <1>2, <1>3, FirstIs DEF First
  <2> QED  BY <2>1 DEF Pairing!Going
<1>5. PICK b : b = Pairing!AfterSeal(s, "offer")
  OBVIOUS
<1>6. Shaped(b) /\ b.chain = s.chain /\ b.why = ""
  BY <1>4, <1>5, Sealing
<1>7. b = Begun(v, n)
  BY <1>1, <1>2, <1>5 DEF Begun, First, Pairing!PairStarted
<1> QED  BY <1>1, <1>3, <1>4, <1>6, <1>7 DEF Tied, Pairing!Going

(* The first message opens under its own label, Discover and ephemeral     *)
(* key alone.                                                              *)
LEMMA FirstAlike ==
  ASSUME NEW v, NEW w, NEW e, NEW f, NEW p, NEW q,
         Pairing!Sealed(First(v, e), p) = Pairing!Sealed(First(w, f), q)
  PROVE  e = f /\ p = q /\ v.prologue = w.prologue /\ v.secret = w.secret
<1>1. PICK s : s = First(v, e)
  OBVIOUS
<1>2. PICK t : t = First(w, f)
  OBVIOUS
<1>3. PICK k : k = Pairing!Psk(v)
  OBVIOUS
<1>4. PICK l : l = Pairing!Psk(w)
  OBVIOUS
<1>5. s = t /\ p = q
  BY <1>1, <1>2, FirstGoes, SealsAlike
<1>6. /\ s.hash = <<"XXpsk0", v.prologue, <<"extra", <<"XXpsk0", k>>>>, e>>
      /\ s.chain = <<"XXpsk0", k, e>>
  BY <1>1, <1>3, FirstIs DEF First
<1>7. /\ t.hash = <<"XXpsk0", w.prologue, <<"extra", <<"XXpsk0", l>>>>, f>>
      /\ t.chain = <<"XXpsk0", l, f>>
  BY <1>2, <1>4, FirstIs DEF First
<1>8. k = l /\ e = f
  BY <1>5, <1>6, <1>7
<1>9. v.prologue = w.prologue
  BY <1>5, <1>6, <1>7
<1>10. v.secret = w.secret
  BY <1>3, <1>4, <1>8 DEF Pairing!Psk, Pairing!PairPsk, Pairing!Derive
<1> QED  BY <1>5, <1>8, <1>9, <1>10

(* Either end's keys agree on one secret, so either mixes the same.        *)
LEMMA MixSame ==
  ASSUME NEW st, NEW a, NEW b, Pairing!Agrees(a), Pairing!Agrees(b)
  PROVE  Pairing!MixDh(st, a, b) = Pairing!MixDh(st, b, a)
<1>1. Pairing!Shared(a, b) = Pairing!Shared(b, a)
  BY SharedSame
<1> QED  BY <1>1 DEF Pairing!MixDh

(* The reader of the second message and its writer mix one set of keys.    *)
LEMMA EeSame ==
  ASSUME NEW st, NEW n
  PROVE  Pairing!PairEe(st, Pairing!Ephemeral("unit", n), Pairing!Ephemeral("phone", n),
                        Pairing!Ephemeral("unit", n)) = Ee(st, n)
BY MixSame, KeysAgree DEF Ee, Pairing!PairEe

LEMMA AnswerIs ==
  ASSUME NEW st, NEW n
  PROVE  /\ Pairing!Answer(st, n) =
              <<Pairing!Ephemeral("unit", n), Pairing!Sealed(Ee(st, n), Pairing!Controller),
                Pairing!Sealed(Es(st, n), "answer")>>
         /\ Pairing!Answered(st, n) = Pairing!AfterSeal(Es(st, n), "answer")
BY DEF Pairing!Answer, Pairing!Answered, Pairing!PairReply, Pairing!PairReplied, Ee, Es

LEMMA FinishIs ==
  ASSUME NEW st, NEW n
  PROVE  /\ Pairing!Finish(st, n) =
              <<Pairing!Sealed(st, Pairing!Client(n)), Pairing!Sealed(Se(st, n), "name")>>
         /\ Pairing!Finished(st, n) = Pairing!AfterSeal(Se(st, n), "name")
BY DEF Pairing!Finish, Pairing!Finished, Pairing!PairFinish, Pairing!PairFinished, Se

(* The two halves of the second message open in their own attempt alone.   *)
LEMMA EeAlike ==
  ASSUME NEW st, NEW psk, Tied(st, psk, 1), NEW tt, NEW qsk, NEW n, Tied(tt, qsk, n),
         NEW e, NEW plain, NEW s, s = Pairing!PairEe(st, e, Pairing!Ephemeral("phone", 1), e),
         Pairing!Going(s), Pairing!Sealed(s, plain) = Pairing!Sealed(Ee(tt, n), Pairing!Controller)
  PROVE  n = 1 /\ e = Pairing!Ephemeral("unit", 1) /\ plain = Pairing!Controller
<1>1. PICK w : w = Pairing!Ephemeral("phone", 1)
  OBVIOUS
<1>2. PICK d : d = Pairing!Shared(w, e)
  OBVIOUS
<1>3. Shaped(s) /\ s.chain = <<"XXpsk0", psk, w, e, d>>
  BY <1>1, <1>2, EeIs
<1>4. PICK t : t = Ee(tt, n)
  OBVIOUS
<1>5. PICK x : x = Pairing!Ephemeral("phone", n)
  OBVIOUS
<1>6. PICK u : u = Pairing!Ephemeral("unit", n)
  OBVIOUS
<1>7. PICK f : f = Pairing!Shared(u, x)
  OBVIOUS
<1>8. Shaped(t) /\ Pairing!Going(t) /\ Pairing!Keyed(t) /\ t.chain = <<"XXpsk0", qsk, x, u, f>>
  BY <1>4, <1>5, <1>6, <1>7, EeGoes
<1>9. Len(<<"XXpsk0", psk, w, e, d>>) = 5
  OBVIOUS
<1>10. Pairing!Keyed(s)
  BY <1>3, <1>9 DEF Pairing!Keyed
<1>11. s = t /\ plain = Pairing!Controller
  BY <1>3, <1>4, <1>8, <1>10, SealsAlike
<1>12. w = x /\ e = u
  BY <1>3, <1>8, <1>11
<1>13. n = 1
  BY <1>1, <1>5, <1>12 DEF Pairing!Ephemeral, Pairing!Key
<1> QED  BY <1>6, <1>11, <1>12, <1>13

LEMMA EsAlike ==
  ASSUME NEW st, NEW psk, Tied(st, psk, 1), NEW tt, NEW qsk, NEW n, Tied(tt, qsk, n),
         NEW p, NEW q, Pairing!Sealed(Es(st, 1), p) = Pairing!Sealed(Es(tt, n), q)
  PROVE  n = 1 /\ p = q
<1>1. PICK w : w = Pairing!Ephemeral("phone", 1)
  OBVIOUS
<1>2. PICK x : x = Pairing!Ephemeral("phone", n)
  OBVIOUS
<1>3. PICK s : s = Es(st, 1)
  OBVIOUS
<1>4. PICK t : t = Es(tt, n)
  OBVIOUS
<1>5. /\ Shaped(s) /\ Pairing!Going(s) /\ Pairing!Keyed(s)
      /\ \E a, b, c : s.chain = <<"XXpsk0", psk, w, a, b, c>>
  BY <1>1, <1>3, EsGoes
<1>6. /\ Shaped(t) /\ Pairing!Going(t) /\ Pairing!Keyed(t)
      /\ \E a, b, c : t.chain = <<"XXpsk0", qsk, x, a, b, c>>
  BY <1>2, <1>4, EsGoes
<1>7. s = t /\ p = q
  BY <1>3, <1>4, <1>5, <1>6, SealsAlike
<1>8. w = x
  BY <1>5, <1>6, <1>7
<1> QED  BY <1>1, <1>2, <1>7, <1>8 DEF Pairing!Ephemeral, Pairing!Key

LEMMA SeAlike ==
  ASSUME NEW st, NEW psk, Tied(st, psk, 1), NEW tt, NEW qsk, NEW n, Tied(tt, qsk, n),
         NEW p, NEW q, NEW a, NEW b, a = Pairing!Answered(st, 1), b = Pairing!Answered(tt, n)
  PROVE  /\ Pairing!Sealed(a, p) = Pairing!Sealed(b, q) => n = 1 /\ p = q
         /\ Pairing!Sealed(Se(a, 1), p) = Pairing!Sealed(Se(b, n), q) => n = 1 /\ p = q
<1>1. PICK w : w = Pairing!Ephemeral("phone", 1)
  OBVIOUS
<1>2. PICK x : x = Pairing!Ephemeral("phone", n)
  OBVIOUS
<1>3. w = x => n = 1
  BY <1>1, <1>2 DEF Pairing!Ephemeral, Pairing!Key
<1>4. /\ Shaped(a) /\ Pairing!Going(a) /\ Pairing!Keyed(a)
      /\ \E c, d, e : a.chain = <<"XXpsk0", psk, w, c, d, e>>
  BY <1>1, SeGoes, EsGoes
<1>5. /\ Shaped(b) /\ Pairing!Going(b) /\ Pairing!Keyed(b)
      /\ \E c, d, e : b.chain = <<"XXpsk0", qsk, x, c, d, e>>
  BY <1>2, SeGoes, EsGoes
<1>6. ASSUME Pairing!Sealed(a, p) = Pairing!Sealed(b, q) PROVE n = 1 /\ p = q
  <2>1. a = b /\ p = q
    BY <1>4, <1>5, <1>6, SealsAlike
  <2>2. w = x
    BY <1>4, <1>5, <2>1
  <2> QED  BY <1>3, <2>1, <2>2
<1>7. PICK s : s = Se(a, 1)
  OBVIOUS
<1>8. PICK t : t = Se(b, n)
  OBVIOUS
<1>9. /\ Shaped(s) /\ Pairing!Going(s) /\ Pairing!Keyed(s)
      /\ \E c, d, e, f : s.chain = <<"XXpsk0", psk, w, c, d, e, f>>
  BY <1>1, <1>7, SeGoes
<1>10. /\ Shaped(t) /\ Pairing!Going(t) /\ Pairing!Keyed(t)
       /\ \E c, d, e, f : t.chain = <<"XXpsk0", qsk, x, c, d, e, f>>
  BY <1>2, <1>8, SeGoes
<1>11. ASSUME Pairing!Sealed(s, p) = Pairing!Sealed(t, q) PROVE n = 1 /\ p = q
  <2>1. s = t /\ p = q
    BY <1>9, <1>10, <1>11, SealsAlike
  <2>2. w = x
    BY <1>9, <1>10, <2>1
  <2> QED  BY <1>3, <2>1, <2>2
<1> QED  BY <1>6, <1>7, <1>8, <1>11
-----------------------------------------------------------------------------
(* The three messages, read: one that opens is the one that was written    *)
(* for this attempt, and that one does open.                               *)

LEMMA RequestOpens ==
  ASSUME NEW v0, NEW v, NEW n, v0.prologue = v.prologue, v0.secret = v.secret
  PROVE  LET st == Pairing!PairReadRequest(v0.prologue, Pairing!Psk(v0),
                     Pairing!PairMessage(v.prologue, Pairing!Psk(v),
                                         Pairing!Ephemeral("phone", n), "offer"))
         IN  st = Begun(v, n) /\ Pairing!Going(st)
<1>1. PICK w : w = Pairing!Ephemeral("phone", n)
  OBVIOUS
<1>2. PICK s : s = First(v, w)
  OBVIOUS
<1>3. PICK x : x = Pairing!Sealed(s, "offer")
  OBVIOUS
<1>4. Pairing!Going(s)
  BY <1>2, FirstGoes
<1>5. First(v0, w) = s
  BY <1>2 DEF First, Pairing!Psk
<1>6. Pairing!AfterOpen(s, x) = Pairing!AfterSeal(s, "offer")
  BY <1>3, <1>4, SealedOpens
<1>7. Pairing!AfterSeal(s, "offer") = Begun(v, n)
  BY <1>1, <1>2 DEF First, Begun, Pairing!PairStarted
<1>8. Pairing!Going(Begun(v, n))
  BY BegunTied DEF Tied
<1>9. Pairing!PairMessage(v.prologue, Pairing!Psk(v), w, "offer") = <<w, x>>
  BY <1>2, <1>3 DEF First, Pairing!PairMessage
<1>10. ~Pairing!Cut(<<w, x>>, 2) /\ <<w, x>>[1] = w /\ <<w, x>>[2] = x
  BY DEF Pairing!Cut
<1>11. Pairing!PairReadRequest(v0.prologue, Pairing!Psk(v0), <<w, x>>) = Pairing!AfterOpen(s, x)
  BY <1>5, <1>10 DEF Pairing!PairReadRequest, First
<1> QED  BY <1>1, <1>6, <1>7, <1>8, <1>9, <1>11

LEMMA RequestRead ==
  ASSUME NEW v0, NEW v1, NEW v2, NEW e, NEW x,
         x \in {Pairing!Sealed(First(v1, Pairing!Ephemeral("phone", 1)), "offer"),
                Pairing!Sealed(First(v2, Pairing!Ephemeral("phone", 2)), "offer")},
         Pairing!Going(Pairing!PairReadRequest(v0.prologue, Pairing!Psk(v0), <<e, x>>))
  PROVE  LET st == Pairing!PairReadRequest(v0.prologue, Pairing!Psk(v0), <<e, x>>)
         IN  \/ /\ e = Pairing!Ephemeral("phone", 1) /\ st = Begun(v1, 1)
                /\ v0.prologue = v1.prologue /\ v0.secret = v1.secret
                /\ x = Pairing!Sealed(First(v1, Pairing!Ephemeral("phone", 1)), "offer")
             \/ /\ e = Pairing!Ephemeral("phone", 2) /\ st = Begun(v2, 2)
                /\ v0.prologue = v2.prologue /\ v0.secret = v2.secret
<1>1. PICK s : s = First(v0, e)
  OBVIOUS
<1>2. ~Pairing!Cut(<<e, x>>, 2) /\ <<e, x>>[1] = e /\ <<e, x>>[2] = x
  BY DEF Pairing!Cut
<1>3. Pairing!PairReadRequest(v0.prologue, Pairing!Psk(v0), <<e, x>>) = Pairing!AfterOpen(s, x)
  BY <1>1, <1>2 DEF Pairing!PairReadRequest, First
<1>4. PICK plain : plain = x.plain
  OBVIOUS
<1>5. /\ x = Pairing!Sealed(s, plain) /\ Pairing!AfterOpen(s, x) = Pairing!AfterSeal(s, plain)
  BY <1>1, <1>3, <1>4, FirstGoes, OpenedAsSealed
<1>6. ASSUME NEW v, NEW n, x = Pairing!Sealed(First(v, Pairing!Ephemeral("phone", n)), "offer")
      PROVE  /\ e = Pairing!Ephemeral("phone", n) /\ Pairing!AfterOpen(s, x) = Begun(v, n)
             /\ v0.prologue = v.prologue /\ v0.secret = v.secret
  <2>1. PICK w : w = Pairing!Ephemeral("phone", n)
    OBVIOUS
  <2>2. e = w /\ plain = "offer" /\ v0.prologue = v.prologue /\ v0.secret = v.secret
    <3>1. Pairing!Sealed(First(v0, e), plain) = Pairing!Sealed(First(v, w), "offer")
      BY <1>1, <1>5, <1>6, <2>1
    <3> QED  BY <3>1, FirstAlike
  <2>3. s = First(v, w)
    BY <1>1, <2>2 DEF First, Pairing!Psk
  <2>4. Pairing!AfterSeal(s, "offer") = Begun(v, n)
    BY <2>1, <2>3 DEF First, Begun, Pairing!PairStarted
  <2> QED  BY <1>5, <2>1, <2>2, <2>4
<1> QED  BY <1>3, <1>6

LEMMA ReplyOpens ==
  ASSUME NEW st, NEW psk, Tied(st, psk, 1)
  PROVE  LET r == Pairing!PairReadReply(st, Pairing!Ephemeral("phone", 1), Pairing!Answer(st, 1))
         IN  r = Pairing!Answered(st, 1) /\ Pairing!Going(r)
<1>1. PICK u : u = Pairing!Ephemeral("unit", 1)
  OBVIOUS
<1>2. PICK w : w = Pairing!Ephemeral("phone", 1)
  OBVIOUS
<1>3. PICK s : s = Ee(st, 1)
  OBVIOUS
<1>4. PICK c : c = Pairing!Controller
  OBVIOUS
<1>5. PICK t : t = Es(st, 1)
  OBVIOUS
<1>6. PICK x : x = Pairing!Sealed(s, c)
  OBVIOUS
<1>7. PICK y : y = Pairing!Sealed(t, "answer")
  OBVIOUS
<1>8. Pairing!Going(s) /\ Pairing!Going(t)
  BY <1>3, <1>5, EeGoes, EsGoes
<1>9. Pairing!PairEe(st, u, w, u) = s
  BY <1>1, <1>2, <1>3, EeSame
<1>10. Pairing!AfterOpen(s, x) = Pairing!AfterSeal(s, c) /\ x.plain = c
  BY <1>6, <1>8, SealedOpens DEF Pairing!Sealed
<1>11. Pairing!MixDh(Pairing!AfterSeal(s, c), w, c) = t
  <2>1. PICK a : a = Pairing!AfterSeal(s, c)
    OBVIOUS
  <2>2. Pairing!MixDh(a, w, c) = Pairing!MixDh(a, c, w)
    BY <1>2, <1>4, MixSame, KeysAgree
  <2>3. Pairing!MixDh(a, c, w) = t
    BY <1>1, <1>2, <1>3, <1>4, <1>5, <2>1 DEF Es, Ee, Pairing!PairEs
  <2> QED  BY <2>1, <2>2, <2>3
<1>12. Pairing!AfterOpen(t, y) = Pairing!AfterSeal(t, "answer")
  BY <1>7, <1>8, SealedOpens
<1>13. Pairing!Answer(st, 1) = <<u, x, y>> /\ Pairing!Answered(st, 1) = Pairing!AfterSeal(t, "answer")
  BY <1>1, <1>3, <1>4, <1>5, <1>6, <1>7, AnswerIs
<1>14. ~Pairing!Cut(<<u, x, y>>, 3) /\ <<u, x, y>>[1] = u /\ <<u, x, y>>[2] = x
       /\ <<u, x, y>>[3] = y
  BY DEF Pairing!Cut
<1>15. Pairing!PairReadReply(st, w, <<u, x, y>>) = Pairing!AfterOpen(t, y)
  BY <1>9, <1>10, <1>11, <1>14 DEF Pairing!PairReadReply
<1>16. Pairing!Going(Pairing!Answered(st, 1))
  BY SeGoes
<1> QED  BY <1>2, <1>12, <1>13, <1>15, <1>16

LEMMA ReplyRead ==
  ASSUME NEW st, NEW psk, Tied(st, psk, 1), NEW tt, NEW qsk, NEW n, Tied(tt, qsk, n),
         n = 1 => tt = st, NEW oo, NEW rsk, Tied(oo, rsk, 2), NEW e, NEW x, NEW y,
         x \in {Pairing!Sealed(Ee(tt, n), Pairing!Controller),
                Pairing!Sealed(Ee(oo, 2), Pairing!Controller)},
         y \in {Pairing!Sealed(Es(tt, n), "answer"), Pairing!Sealed(Es(oo, 2), "answer")},
         Pairing!Going(Pairing!PairReadReply(st, Pairing!Ephemeral("phone", 1), <<e, x, y>>))
  PROVE  n = 1 /\ <<e, x, y>> = Pairing!Answer(st, 1)
<1>1. PICK w : w = Pairing!Ephemeral("phone", 1)
  OBVIOUS
<1>2. PICK s : s = Pairing!PairEe(st, e, w, e)
  OBVIOUS
<1>3. PICK a : a = Pairing!AfterOpen(s, x)
  OBVIOUS
<1>4. PICK p : p = x.plain
  OBVIOUS
<1>5. PICK b : b = Pairing!MixDh(a, w, p)
  OBVIOUS
<1>6. ~Pairing!Cut(<<e, x, y>>, 3) /\ <<e, x, y>>[1] = e /\ <<e, x, y>>[2] = x
      /\ <<e, x, y>>[3] = y
  BY DEF Pairing!Cut
<1>7. Pairing!Going(Pairing!AfterOpen(b, y))
  BY <1>1, <1>2, <1>3, <1>4, <1>5, <1>6 DEF Pairing!PairReadReply
<1>8. Shaped(s)
  BY <1>2, EeIs
<1>9. Shaped(a)
  BY <1>3, <1>8 DEF Shaped, Pairing!AfterOpen, Pairing!Stepped, Pairing!Mixed, Pairing!MixHash,
                    Pairing!Refused
<1>10. Shaped(b)
  BY <1>5, <1>9, MixingDh
<1>11. PICK q : q = y.plain
  OBVIOUS
<1>12. Pairing!Going(b) /\ y = Pairing!Sealed(b, q)
  BY <1>7, <1>10, <1>11, OpenedAsSealed
<1>13. Pairing!Going(a)
  BY <1>5, <1>9, <1>12, MixingDh
<1>14. Pairing!Going(s) /\ x = Pairing!Sealed(s, p) /\ a = Pairing!AfterSeal(s, p)
  BY <1>3, <1>4, <1>8, <1>13, OpenedAsSealed
<1>15. ~(x = Pairing!Sealed(Ee(oo, 2), Pairing!Controller))
  BY <1>1, <1>2, <1>14, EeAlike
<1>16. /\ n = 1 /\ e = Pairing!Ephemeral("unit", 1) /\ p = Pairing!Controller
  BY <1>1, <1>2, <1>14, <1>15, EeAlike
<1>17. tt = st /\ x = Pairing!Sealed(Ee(st, 1), Pairing!Controller)
  BY <1>15, <1>16
<1>18. b = Es(st, 1)
  <2>1. PICK u : u = Pairing!Ephemeral("unit", 1)
    OBVIOUS
  <2>2. PICK c : c = Pairing!Controller
    OBVIOUS
  <2>3. s = Ee(st, 1)
    BY <1>1, <1>2, <1>16, EeSame
  <2>4. a = Pairing!AfterSeal(Ee(st, 1), c) /\ b = Pairing!MixDh(a, w, c)
    BY <1>5, <1>14, <1>16, <2>2, <2>3
  <2>5. b = Pairing!MixDh(a, c, w)
    BY <1>1, <2>2, <2>4, MixSame, KeysAgree
  <2> QED  BY <1>1, <2>2, <2>4, <2>5 DEF Es, Ee, Pairing!PairEs
<1>19. ~(y = Pairing!Sealed(Es(oo, 2), "answer"))
  BY <1>12, <1>18, EsAlike
<1>20. y = Pairing!Sealed(Es(st, 1), "answer")
  BY <1>16, <1>17, <1>19
<1> QED  BY <1>16, <1>17, <1>20, AnswerIs

LEMMA FinishOpens ==
  ASSUME NEW st, NEW psk, Tied(st, psk, 1), NEW a, a = Pairing!Answered(st, 1)
  PROVE  LET r == Pairing!PairReadFinish(a, Pairing!Ephemeral("unit", 1), Pairing!Finish(a, 1))
         IN  r = Pairing!Finished(a, 1) /\ Pairing!Going(r)
<1>1. PICK u : u = Pairing!Ephemeral("unit", 1)
  OBVIOUS
<1>2. PICK c : c = Pairing!Client(1)
  OBVIOUS
<1>3. PICK s : s = Se(a, 1)
  OBVIOUS
<1>4. PICK x : x = Pairing!Sealed(a, c)
  OBVIOUS
<1>5. PICK y : y = Pairing!Sealed(s, "name")
  OBVIOUS
<1>6. Pairing!Going(a) /\ Shaped(s) /\ Pairing!Going(s)
  BY <1>3, SeGoes
<1>7. PICK b : b = Pairing!AfterSeal(a, c)
  OBVIOUS
<1>8. Pairing!AfterOpen(a, x) = b /\ x.plain = c
  BY <1>4, <1>6, <1>7, SealedOpens DEF Pairing!Sealed
<1>9. Pairing!MixDh(b, u, c) = s
  <2>1. Pairing!MixDh(b, u, c) = Pairing!MixDh(b, c, u)
    BY <1>1, <1>2, MixSame, KeysAgree
  <2> QED  BY <1>1, <1>2, <1>3, <1>7, <2>1 DEF Se, Pairing!PairSe
<1>10. Pairing!AfterOpen(s, y) = Pairing!AfterSeal(s, "name")
  BY <1>5, <1>6, SealedOpens
<1>11. Pairing!Finish(a, 1) = <<x, y>> /\ Pairing!Finished(a, 1) = Pairing!AfterSeal(s, "name")
  BY <1>2, <1>3, <1>4, <1>5, FinishIs
<1>12. ~Pairing!Cut(<<x, y>>, 2) /\ <<x, y>>[1] = x /\ <<x, y>>[2] = y
  BY DEF Pairing!Cut
<1>13. Pairing!PairReadFinish(a, u, <<x, y>>) = Pairing!AfterOpen(s, y)
  BY <1>8, <1>9, <1>12 DEF Pairing!PairReadFinish
<1>14. PICK f : f = Pairing!AfterSeal(s, "name")
  OBVIOUS
<1>15. f.why = s.why
  BY <1>6, <1>14, Sealing
<1>16. Pairing!Going(f)
  BY <1>6, <1>15 DEF Pairing!Going
<1> QED  BY <1>1, <1>10, <1>11, <1>13, <1>14, <1>16

LEMMA FinishRead ==
  ASSUME NEW st, NEW psk, Tied(st, psk, 1), NEW oo, NEW rsk, Tied(oo, rsk, 2),
         NEW a, a = Pairing!Answered(st, 1), NEW b, b = Pairing!Answered(oo, 2), NEW x, NEW y,
         x \in {Pairing!Sealed(a, Pairing!Client(1)), Pairing!Sealed(b, Pairing!Client(2))},
         y \in {Pairing!Sealed(Se(a, 1), "name"), Pairing!Sealed(Se(b, 2), "name")},
         Pairing!Going(Pairing!PairReadFinish(a, Pairing!Ephemeral("unit", 1), <<x, y>>))
  PROVE  <<x, y>> = Pairing!Finish(a, 1)
<1>1. PICK u : u = Pairing!Ephemeral("unit", 1)
  OBVIOUS
<1>2. PICK c : c = Pairing!Client(1)
  OBVIOUS
<1>3. PICK p : p = x.plain
  OBVIOUS
<1>4. PICK r : r = Pairing!AfterOpen(a, x)
  OBVIOUS
<1>5. PICK s : s = Pairing!MixDh(r, u, p)
  OBVIOUS
<1>6. ~Pairing!Cut(<<x, y>>, 2) /\ <<x, y>>[1] = x /\ <<x, y>>[2] = y
  BY DEF Pairing!Cut
<1>7. Pairing!Going(Pairing!AfterOpen(s, y))
  BY <1>1, <1>3, <1>4, <1>5, <1>6 DEF Pairing!PairReadFinish
<1>8. Shaped(a)
  BY SeGoes
<1>9. Shaped(r)
  BY <1>4, <1>8 DEF Shaped, Pairing!AfterOpen, Pairing!Stepped, Pairing!Mixed, Pairing!MixHash,
                    Pairing!Refused
<1>10. Shaped(s)
  BY <1>5, <1>9, MixingDh
<1>11. PICK q : q = y.plain
  OBVIOUS
<1>12. Pairing!Going(s) /\ y = Pairing!Sealed(s, q)
  BY <1>7, <1>10, <1>11, OpenedAsSealed
<1>13. Pairing!Going(r)
  BY <1>5, <1>9, <1>12, MixingDh
<1>14. x = Pairing!Sealed(a, p) /\ r = Pairing!AfterSeal(a, p)
  BY <1>3, <1>4, <1>8, <1>13, OpenedAsSealed
<1>15. ~(x = Pairing!Sealed(b, Pairing!Client(2)))
  BY <1>14, SeAlike
<1>16. x = Pairing!Sealed(a, c)
  BY <1>2, <1>15
<1>17. p = c
  BY <1>3, <1>16 DEF Pairing!Sealed
<1>18. s = Se(a, 1)
  <2>1. PICK k : k = Pairing!AfterSeal(a, c)
    OBVIOUS
  <2>2. s = Pairing!MixDh(k, u, c)
    BY <1>5, <1>14, <1>17, <2>1
  <2>3. s = Pairing!MixDh(k, c, u)
    BY <1>1, <1>2, <2>2, MixSame, KeysAgree
  <2> QED  BY <1>1, <1>2, <2>1, <2>3 DEF Se, Pairing!PairSe
<1>19. ~(y = Pairing!Sealed(Se(b, 2), "name"))
  BY <1>12, <1>18, SeAlike
<1>20. y = Pairing!Sealed(Se(a, 1), "name")
  BY <1>19
<1> QED  BY <1>2, <1>16, <1>20, FinishIs
-----------------------------------------------------------------------------
(* Where an attempt is, and what its two ends then hold.                   *)

PairInv ==
  /\ view \in [0 .. 2 -> Pairing!Views]
  /\ stage \in {"offered", "asked", "answered", "paired", "refused"}
  /\ stage = "offered" => client = Begun(view[1], 1) /\ ~altered
  /\ stage = "asked" =>
       /\ answering \in {1, 2} /\ (altered <=> answering = 2)
       /\ client = Begun(view[1], 1) /\ server = Begun(view[answering], answering)
       /\ view[answering] = view[0]
  /\ stage = "answered" =>
       /\ answering = 1 /\ ~altered
       /\ client = Pairing!Answered(Begun(view[1], 1), 1) /\ server = client
  /\ stage = "paired" => answering = 1 /\ ~altered /\ server = client
  /\ stage = "refused" => altered \/ view[1] # view[0]

LEMMA PairInit == Pairing!Init => PairInv
BY DEF Pairing!Init, PairInv, Pairing!Started, Begun

LEMMA SameView ==
  ASSUME NEW v \in Pairing!Views, NEW w \in Pairing!Views,
         v.prologue = w.prologue, v.secret = w.secret
  PROVE  v = w
BY DEF Pairing!Views

LEMMA ReadRequestStep == PairInv /\ Pairing!ReadRequest => PairInv'
<1> SUFFICES ASSUME PairInv, Pairing!ReadRequest PROVE PairInv'
  OBVIOUS
<1>1. PICK v0 : v0 = view[0]
  OBVIOUS
<1>2. PICK v1 : v1 = view[1]
  OBVIOUS
<1>3. PICK v2 : v2 = view[2]
  OBVIOUS
<1>4. v0 \in Pairing!Views /\ v1 \in Pairing!Views /\ v2 \in Pairing!Views
  BY <1>1, <1>2, <1>3 DEF PairInv
<1>5. PICK w1 : w1 = Pairing!Ephemeral("phone", 1)
  OBVIOUS
<1>6. PICK w2 : w2 = Pairing!Ephemeral("phone", 2)
  OBVIOUS
<1>7. w1 # w2
  BY <1>5, <1>6 DEF Pairing!Ephemeral, Pairing!Key
<1>8. PICK x1 : x1 = Pairing!Sealed(First(v1, w1), "offer")
  OBVIOUS
<1>9. PICK x2 : x2 = Pairing!Sealed(First(v2, w2), "offer")
  OBVIOUS
<1>10. Pairing!Offer(1) = <<w1, x1>> /\ Pairing!Offer(2) = <<w2, x2>>
  BY <1>2, <1>3, <1>5, <1>6, <1>8, <1>9 DEF Pairing!Offer, Pairing!PairMessage, First
<1>11. PICK seen \in Pairing!LowOrdered(Pairing!Arriving(<<w1, x1>>, <<w2, x2>>)) :
         /\ server' = Pairing!PairReadRequest(v0.prologue, Pairing!Psk(v0), seen)
         /\ stage' = IF Pairing!Going(server') THEN "asked" ELSE "refused"
         /\ answering' = IF seen[1] = w2 THEN 2 ELSE 1
         /\ altered' = (seen # <<w1, x1>>)
  BY <1>1, <1>6, <1>10 DEF Pairing!ReadRequest
<1>12. UNCHANGED <<view, client>> /\ stage = "offered"
  BY DEF Pairing!ReadRequest
<1>13. CASE Pairing!Going(server')
  <2>1. ~Pairing!Cut(seen, 2)
    BY <1>11, <1>13 DEF Pairing!PairReadRequest, Pairing!Refused, Pairing!Going, Pairing!Start
  <2>2. seen = <<seen[1], seen[2]>> /\ seen[2] \in {x1, x2}
    BY <2>1, ArrivesTwo
  <2>3. PICK e : e = seen[1]
    OBVIOUS
  <2>4. PICK x : x = seen[2]
    OBVIOUS
  <2>5. seen = <<e, x>> /\ x \in {x1, x2}
    BY <2>2, <2>3, <2>4
  <2>6. \/ /\ e = w1 /\ server' = Begun(v1, 1) /\ x = x1
           /\ v0.prologue = v1.prologue /\ v0.secret = v1.secret
        \/ /\ e = w2 /\ server' = Begun(v2, 2)
           /\ v0.prologue = v2.prologue /\ v0.secret = v2.secret
    BY <1>5, <1>6, <1>8, <1>9, <1>11, <1>13, <2>5, RequestRead
  <2>7. CASE e = w1 /\ server' = Begun(v1, 1) /\ x = x1 /\ v0 = v1
    <3>1. answering' = 1 /\ altered' = FALSE
      BY <1>7, <1>11, <2>3, <2>5, <2>7
    <3>2. stage' = "asked"
      BY <1>11, <1>13
    <3>3. server' = Begun(view'[answering'], answering') /\ view'[answering'] = view'[0]
      BY <1>1, <1>2, <1>12, <2>7, <3>1
    <3> QED  BY <1>12, <3>1, <3>2, <3>3 DEF PairInv
  <2>8. CASE e = w2 /\ server' = Begun(v2, 2) /\ v0 = v2
    <3>1. <<e, x>>[1] = e /\ <<w1, x1>>[1] = w1
      OBVIOUS
    <3>2. answering' = 2 /\ altered' = TRUE
      BY <1>7, <1>11, <2>3, <2>5, <2>8, <3>1
    <3> QED  BY <1>1, <1>3, <1>11, <1>12, <1>13, <2>8, <3>2 DEF PairInv
  <2> QED  BY <1>4, <2>6, <2>7, <2>8, SameView
<1>14. CASE ~Pairing!Going(server')
  <2>1. ~(seen = <<w1, x1>> /\ v0 = v1)
    <3>1. Pairing!PairMessage(v1.prologue, Pairing!Psk(v1), w1, "offer") = <<w1, x1>>
      BY <1>8 DEF Pairing!PairMessage, First
    <3>2. v0 = v1 => Pairing!Going(Pairing!PairReadRequest(v0.prologue, Pairing!Psk(v0), <<w1, x1>>))
      BY <1>5, <3>1, RequestOpens
    <3> QED  BY <1>11, <1>14, <3>2
  <2> QED  BY <1>1, <1>2, <1>11, <1>12, <1>14, <2>1 DEF PairInv
<1> QED  BY <1>13, <1>14

LEMMA ReadReplyStep == PairInv /\ Pairing!ReadReply => PairInv'
<1> SUFFICES ASSUME PairInv, Pairing!ReadReply PROVE PairInv'
  OBVIOUS
<1>1. PICK n : n = answering
  OBVIOUS
<1>2. PICK st : st = Begun(view[1], 1)
  OBVIOUS
<1>3. PICK tt : tt = Begun(view[n], n)
  OBVIOUS
<1>4. PICK oo : oo = Begun(view[2], 2)
  OBVIOUS
<1>5. PICK p1 : p1 = Pairing!Psk(view[1])
  OBVIOUS
<1>6. PICK pn : pn = Pairing!Psk(view[n])
  OBVIOUS
<1>7. PICK p2 : p2 = Pairing!Psk(view[2])
  OBVIOUS
<1>8. PICK v : v = view
  OBVIOUS
<1>9. Tied(st, p1, 1) /\ Tied(tt, pn, n) /\ Tied(oo, p2, 2)
  <2>1. \A u, m : Tied(Begun(u, m), Pairing!Psk(u), m)
    BY BegunTied
  <2> QED  BY <1>2, <1>3, <1>4, <1>5, <1>6, <1>7, <2>1
<1>10. /\ stage = "asked" /\ n \in {1, 2} /\ (altered <=> n = 2) /\ client = st /\ server = tt
       /\ n = 1 => tt = st
  BY <1>1, <1>2, <1>3 DEF PairInv, Pairing!ReadReply
<1>11. PICK u : u = Pairing!Ephemeral("unit", n)
  OBVIOUS
<1>12. PICK x1 : x1 = Pairing!Sealed(Ee(tt, n), Pairing!Controller)
  OBVIOUS
<1>13. PICK y1 : y1 = Pairing!Sealed(Es(tt, n), "answer")
  OBVIOUS
<1>14. PICK x2 : x2 = Pairing!Sealed(Ee(oo, 2), Pairing!Controller)
  OBVIOUS
<1>15. PICK y2 : y2 = Pairing!Sealed(Es(oo, 2), "answer")
  OBVIOUS
<1>16. PICK u2 : u2 = Pairing!Ephemeral("unit", 2)
  OBVIOUS
<1>17. Pairing!Answer(tt, n) = <<u, x1, y1>> /\ Pairing!Answer(oo, 2) = <<u2, x2, y2>>
  BY <1>11, <1>12, <1>13, <1>14, <1>15, <1>16, AnswerIs
<1>18. Pairing!Started(2) = oo
  BY <1>4 DEF Pairing!Started, Begun
<1>19. PICK w : w = Pairing!Ephemeral("phone", 1)
  OBVIOUS
<1>20. PICK seen \in Pairing!LowOrdered(Pairing!Arriving(<<u, x1, y1>>, <<u2, x2, y2>>)) :
         /\ client' = Pairing!PairReadReply(st, w, seen)
         /\ stage' = IF Pairing!Going(client') THEN "answered" ELSE "refused"
         /\ altered' = (altered \/ seen # <<u, x1, y1>>)
  BY <1>1, <1>10, <1>17, <1>18, <1>19 DEF Pairing!ReadReply
<1>21. server' = Pairing!Answered(tt, n) /\ UNCHANGED <<view, answering>>
  BY <1>1, <1>10 DEF Pairing!ReadReply
<1>22. CASE Pairing!Going(client')
  <2>1. ~Pairing!Cut(seen, 3)
    <3>1. Pairing!Cut(seen, 3) => client' = Pairing!Refused(st, "Truncated")
      BY <1>20 DEF Pairing!PairReadReply
    <3>2. ~Pairing!Going(Pairing!Refused(st, "Truncated"))
      BY <1>9 DEF Tied, Shaped, Pairing!Refused, Pairing!Going
    <3> QED  BY <1>22, <3>1, <3>2
  <2>2. PICK e : e = seen[1]
    OBVIOUS
  <2>3. PICK x : x = seen[2]
    OBVIOUS
  <2>4. PICK y : y = seen[3]
    OBVIOUS
  <2>5. seen = <<e, x, y>> /\ x \in {x1, x2} /\ y \in {y1, y2}
    BY <2>1, <2>2, <2>3, <2>4, ArrivesThree
  <2>6. Pairing!Going(Pairing!PairReadReply(st, w, <<e, x, y>>))
    BY <1>20, <1>22, <2>5
  <2>7. n = 1 /\ <<e, x, y>> = Pairing!Answer(st, 1)
    BY <1>9, <1>10, <1>12, <1>13, <1>14, <1>15, <1>19, <2>5, <2>6, ReplyRead
  <2>8. client' = Pairing!Answered(st, 1)
    BY <1>9, <1>19, <1>20, <2>5, <2>7, ReplyOpens
  <2>9. ~altered'
    <3>1. seen = <<u, x1, y1>>
      BY <1>10, <1>17, <2>5, <2>7
    <3>2. ~altered
      BY <1>10, <2>7
    <3> HIDE DEF PairInv
    <3> QED  BY <1>20, <3>1, <3>2
  <2> QED  BY <1>1, <1>2, <1>10, <1>20, <1>21, <1>22, <2>7, <2>8, <2>9 DEF PairInv
<1>23. CASE ~Pairing!Going(client')
  <2>1. altered' = TRUE
    <3>1. Pairing!Going(Pairing!PairReadReply(st, w, Pairing!Answer(st, 1)))
      BY <1>9, <1>19, ReplyOpens
    <3>2. n = 1 => seen # <<u, x1, y1>>
      BY <1>10, <1>17, <1>20, <1>23, <3>1
    <3> QED  BY <1>10, <1>20, <3>2
  <2> QED  BY <1>20, <1>21, <1>23, <2>1 DEF PairInv
<1> QED  BY <1>22, <1>23

LEMMA ReadFinishStep == PairInv /\ Pairing!ReadFinish => PairInv'
<1> SUFFICES ASSUME PairInv, Pairing!ReadFinish PROVE PairInv'
  OBVIOUS
<1>1. PICK st : st = Begun(view[1], 1)
  OBVIOUS
<1>2. PICK oo : oo = Begun(view[2], 2)
  OBVIOUS
<1>3. PICK p1 : p1 = Pairing!Psk(view[1])
  OBVIOUS
<1>4. PICK p2 : p2 = Pairing!Psk(view[2])
  OBVIOUS
<1>5. Tied(st, p1, 1) /\ Tied(oo, p2, 2)
  <2>1. \A u, m : Tied(Begun(u, m), Pairing!Psk(u), m)
    BY BegunTied
  <2> QED  BY <1>1, <1>2, <1>3, <1>4, <2>1
<1>6. PICK a : a = Pairing!Answered(st, 1)
  OBVIOUS
<1>7. PICK b : b = Pairing!Answered(oo, 2)
  OBVIOUS
<1>8. stage = "answered" /\ answering = 1 /\ ~altered /\ client = a /\ server = a
  BY <1>1, <1>6 DEF PairInv, Pairing!ReadFinish
<1>9. PICK x1 : x1 = Pairing!Sealed(a, Pairing!Client(1))
  OBVIOUS
<1>10. PICK y1 : y1 = Pairing!Sealed(Se(a, 1), "name")
  OBVIOUS
<1>11. PICK x2 : x2 = Pairing!Sealed(b, Pairing!Client(2))
  OBVIOUS
<1>12. PICK y2 : y2 = Pairing!Sealed(Se(b, 2), "name")
  OBVIOUS
<1>13. Pairing!Finish(a, 1) = <<x1, y1>> /\ Pairing!Finish(b, 2) = <<x2, y2>>
  BY <1>9, <1>10, <1>11, <1>12, FinishIs
<1>14. Pairing!Started(2) = oo
  BY <1>2 DEF Pairing!Started, Begun
<1>15. PICK u : u = Pairing!Ephemeral("unit", 1)
  OBVIOUS
<1>16. PICK seen \in Pairing!Arriving(<<x1, y1>>, <<x2, y2>>) :
         /\ server' = Pairing!PairReadFinish(a, u, seen)
         /\ stage' = IF Pairing!Going(server') THEN "paired" ELSE "refused"
         /\ altered' = (altered \/ seen # <<x1, y1>>)
  BY <1>7, <1>8, <1>13, <1>14, <1>15 DEF Pairing!ReadFinish
<1>17. client' = Pairing!Finished(a, 1) /\ UNCHANGED <<view, answering>>
  BY <1>8 DEF Pairing!ReadFinish
<1>18. CASE Pairing!Going(server')
  <2>1. ~Pairing!Cut(seen, 2)
    <3>1. Pairing!Cut(seen, 2) => server' = Pairing!Refused(a, "Truncated")
      BY <1>16 DEF Pairing!PairReadFinish
    <3>2. Shaped(a)
      BY <1>5, <1>6, SeGoes
    <3>3. ~Pairing!Going(Pairing!Refused(a, "Truncated"))
      BY <3>2 DEF Shaped, Pairing!Refused, Pairing!Going
    <3> QED  BY <1>18, <3>1, <3>3
  <2>2. PICK x : x = seen[1]
    OBVIOUS
  <2>3. PICK y : y = seen[2]
    OBVIOUS
  <2>4. seen = <<x, y>> /\ x \in {x1, x2} /\ y \in {y1, y2}
    BY <1>16, <2>1, <2>2, <2>3, ArrivesWhole
  <2>5. Pairing!Going(Pairing!PairReadFinish(a, u, <<x, y>>))
    BY <1>16, <1>18, <2>4
  <2>6. <<x, y>> = Pairing!Finish(a, 1)
    BY <1>5, <1>6, <1>7, <1>9, <1>10, <1>11, <1>12, <1>15, <2>4, <2>5, FinishRead
  <2>7. server' = Pairing!Finished(a, 1)
    BY <1>5, <1>6, <1>15, <1>16, <2>4, <2>6, FinishOpens
  <2>8. altered' = FALSE
    BY <1>8, <1>13, <1>16, <2>4, <2>6
  <2> QED  BY <1>8, <1>16, <1>17, <1>18, <2>7, <2>8 DEF PairInv
<1>19. CASE ~Pairing!Going(server')
  <2>1. altered' = TRUE
    <3>1. Pairing!Going(Pairing!PairReadFinish(a, u, Pairing!Finish(a, 1)))
      BY <1>5, <1>6, <1>15, FinishOpens
    <3> QED  BY <1>13, <1>16, <1>19, <3>1
  <2> QED  BY <1>16, <1>17, <1>19, <2>1 DEF PairInv
<1> QED  BY <1>18, <1>19

LEMMA PairKept == PairInv /\ [Next]_vars => PairInv'
<1> SUFFICES ASSUME PairInv, [Next]_vars PROVE PairInv'
  OBVIOUS
<1>1. Pairing!Next \/ UNCHANGED pairing
  BY DEF Next, vars
<1>2. CASE Pairing!Next
  BY <1>2, ReadRequestStep, ReadReplyStep, ReadFinishStep DEF Pairing!Next
<1>3. CASE UNCHANGED pairing
  BY <1>3 DEF pairing, PairInv
<1> QED  BY <1>1, <1>2, <1>3

(* Whatever the carrier cuts, replaces or crosses, a pairing message that  *)
(* opens leaves its reader where its writer was, and one that arrives as   *)
(* written is not refused (read_request, read_reply, read_finish).         *)
THEOREM PairingsOpenAsWritten == HandshakesSpec => []PairOpensAsWritten
<1>1. Init => PairInv
  BY PairInit DEF Init
<1>2. PairInv => PairOpensAsWritten
  <2> SUFFICES ASSUME PairInv PROVE PairOpensAsWritten
    OBVIOUS
  <2>1. stage = "asked" => server = Pairing!Started(answering) /\ view[answering] = view[0]
    BY DEF PairInv, Pairing!Started, Begun
  <2>2. stage \in {"answered", "paired"} => answering = 1 /\ client = server /\ ~altered
    BY DEF PairInv
  <2>3. LET mine == Pairing!ForInitiator(Pairing!Split(client))
            theirs == Pairing!ForResponder(Pairing!Split(client))
        IN  mine.send = theirs.receive /\ mine.receive = theirs.send /\ mine.send # mine.receive
    BY DEF Pairing!ForInitiator, Pairing!ForResponder, Pairing!Split
  <2>4. stage = "refused" => altered \/ view[1] # view[0]
    BY DEF PairInv
  <2> QED  BY <2>1, <2>2, <2>3, <2>4 DEF PairOpensAsWritten, Pairing!PairOpensAsWritten
<1> QED  BY <1>1, <1>2, PairKept, PTL DEF HandshakesSpec

-----------------------------------------------------------------------------
(* Opening a session: who wrote a Hello is in the Hello itself.            *)

LEMMA OpeningMixesKey ==
  ASSUME NEW st, Shaped(st), NEW x
  PROVE  /\ Shaped(Opening!MixKey(st, x)) /\ Opening!MixKey(st, x).why = st.why
         /\ Opening!MixKey(st, x).hash = st.hash
         /\ Opening!MixKey(st, x).chain = Append(st.chain, x) /\ Opening!MixKey(st, x).nonce = 0
BY DEF Opening!MixKey, Shaped

LEMMA OpeningMixesHash ==
  ASSUME NEW st, Shaped(st), NEW x
  PROVE  /\ Shaped(Opening!MixHash(st, x)) /\ Opening!MixHash(st, x).why = st.why
         /\ Opening!MixHash(st, x).hash = Append(st.hash, x)
         /\ Opening!MixHash(st, x).chain = st.chain /\ Opening!MixHash(st, x).nonce = st.nonce
BY DEF Opening!MixHash, Shaped

LEMMA OpeningMixesDh ==
  ASSUME NEW st, Shaped(st), NEW mine, NEW theirs
  PROVE  /\ Shaped(Opening!MixDh(st, mine, theirs))
         /\ Opening!MixDh(st, mine, theirs).hash = st.hash
         /\ Opening!Going(Opening!MixDh(st, mine, theirs)) =>
              /\ Opening!Going(st) /\ Opening!Agrees(theirs)
              /\ Opening!MixDh(st, mine, theirs).chain
                   = Append(st.chain, Opening!Shared(mine, theirs))
         /\ Opening!Going(st) /\ Opening!Agrees(theirs) =>
              Opening!Going(Opening!MixDh(st, mine, theirs))
BY DEF Shaped, Opening!MixDh, Opening!MixKey, Opening!Refused, Opening!Going

LEMMA OpeningSealing ==
  ASSUME NEW st, Shaped(st), Opening!Keyed(st), NEW plain
  PROVE  /\ Shaped(Opening!AfterSeal(st, plain))
         /\ Opening!AfterSeal(st, plain).chain = st.chain
         /\ Opening!AfterSeal(st, plain).why = st.why
         /\ Opening!AfterSeal(st, plain).hash
              = Append(st.hash, <<"sealed", st.chain, st.nonce, plain>>)
<1>1. PICK x : x = Opening!Sealed(st, plain)
  OBVIOUS
<1>2. x = [key |-> st.chain, nonce |-> st.nonce, ad |-> st.hash, plain |-> plain]
  BY <1>1 DEF Opening!Sealed
<1>3. PICK m : m = Opening!Mixed(st, x)
  OBVIOUS
<1>4. /\ Shaped(m) /\ m.why = st.why /\ m.chain = st.chain
      /\ m.hash = Append(st.hash, <<"sealed", st.chain, st.nonce, plain>>)
  BY <1>2, <1>3, OpeningMixesHash DEF Opening!Mixed
<1>5. Opening!AfterSeal(st, plain) = Opening!Stepped(m)
  BY <1>1, <1>3 DEF Opening!AfterSeal
<1> QED  BY <1>4, <1>5 DEF Opening!Stepped, Shaped

LEMMA OpeningOpenedAsSealed ==
  ASSUME NEW st, NEW sealed, Shaped(st), Opening!Going(Opening!AfterOpen(st, sealed))
  PROVE  /\ Opening!Going(st) /\ sealed = Opening!Sealed(st, sealed.plain)
         /\ Opening!AfterOpen(st, sealed) = Opening!AfterSeal(st, sealed.plain)
<1>1. Opening!Going(st)
  BY DEF Opening!AfterOpen
<1>2. Opening!Opens(st, sealed)
  <2>1. ~Opening!Going(Opening!Refused(st, "Decrypt"))
    BY <1>1 DEF Opening!Going, Opening!Refused, Shaped
  <2> QED  BY <1>1, <2>1 DEF Opening!AfterOpen
<1> QED  BY <1>1, <1>2 DEF Opening!Opens, Opening!AfterOpen, Opening!AfterSeal

LEMMA OpeningSealedOpens ==
  ASSUME NEW st, NEW plain, Opening!Going(st)
  PROVE  Opening!AfterOpen(st, Opening!Sealed(st, plain)) = Opening!AfterSeal(st, plain)
<1>1. Opening!Sealed(st, plain).plain = plain
  BY DEF Opening!Sealed
<1> QED  BY <1>1 DEF Opening!AfterOpen, Opening!AfterSeal, Opening!Opens

LEMMA OpeningSealsAlike ==
  ASSUME NEW st, NEW tt, NEW p, NEW q, Shaped(st), Shaped(tt),
         Opening!Going(st), Opening!Going(tt), Opening!Keyed(st), Opening!Keyed(tt),
         Opening!Sealed(st, p) = Opening!Sealed(tt, q)
  PROVE  st = tt /\ p = q
<1>1. /\ st.chain = tt.chain /\ st.nonce = tt.nonce /\ st.hash = tt.hash /\ p = q
  BY DEF Opening!Sealed
<1> QED  BY <1>1 DEF Shaped, Opening!Going

LEMMA OpeningMixSame ==
  ASSUME NEW st, NEW a, NEW b, Opening!Agrees(a), Opening!Agrees(b)
  PROVE  Opening!MixDh(st, a, b) = Opening!MixDh(st, b, a)
<1>1. {a, b} = {b, a}
  OBVIOUS
<1> QED  BY <1>1 DEF Opening!MixDh, Opening!Shared

(* A Hello as its sender wrote it: which phone, which of its keys, which   *)
(* request, over what prologue and in what version.                        *)
KeyOf(h)  == Opening!Key("client", h.phone, h.gen)
EphOf(h)  == Opening!Key("ephemeral", h.phone, h.req)
OfferOf(h) == <<"offer", h.speaks>>
IC        == Opening!Controller
HelloIn(h) == Opening!HelloMessage(h.prologue, IC, KeyOf(h), EphOf(h), OfferOf(h))
BegunBy(h) == Opening!HelloStarted(h.prologue, IC, KeyOf(h), EphOf(h), OfferOf(h))

LEMMA HelloKeysAgree ==
  ASSUME NEW h, NEW n
  PROVE  /\ Opening!Agrees(KeyOf(h)) /\ Opening!Agrees(EphOf(h)) /\ Opening!Agrees(IC)
         /\ Opening!Agrees(Opening!Fresh(n))
<1>1. \A k, o, m : k # "low" => Opening!Key(k, o, m) # Opening!LowOrder
  BY DEF Opening!Key, Opening!LowOrder
<1>2. "ephemeral" # "low" /\ "client" # "low" /\ "controller" # "low"
  OBVIOUS
<1> QED  BY <1>1, <1>2 DEF Opening!Agrees, EphOf, KeyOf, IC, Opening!Controller, Opening!Fresh

(* As far as the first ciphertext (HelloInitiator::start, e and es).       *)
LEMMA HelloFirstIs ==
  ASSUME NEW pi, NEW c, NEW e, Opening!Agrees(IC)
  PROVE  LET st == Opening!HelloFirst(pi, IC, c, e)
         IN  /\ Shaped(st) /\ Opening!Going(st) /\ Opening!Keyed(st)
             /\ st.hash = <<"IK", pi, IC, e>>
             /\ st.chain = <<"IK", Opening!Shared(e, IC)>>
<1>1. PICK st0 : st0 = Opening!Start("IK", pi)
  OBVIOUS
<1>2. /\ Shaped(st0) /\ st0.why = "" /\ st0.hash = <<"IK", pi>> /\ st0.chain = <<"IK">>
  BY <1>1 DEF Opening!Start, Shaped
<1>3. PICK st1 : st1 = Opening!MixHash(st0, IC)
  OBVIOUS
<1>4. /\ Shaped(st1) /\ st1.why = "" /\ st1.hash = Append(<<"IK", pi>>, IC) /\ st1.chain = <<"IK">>
  BY <1>2, <1>3, OpeningMixesHash
<1>5. PICK c0 : c0 = IC
  OBVIOUS
<1>6. st1.hash = <<"IK", pi, c0>>
  BY <1>4, <1>5, Append2
<1>7. PICK st2 : st2 = Opening!MixHash(st1, e)
  OBVIOUS
<1>8. /\ Shaped(st2) /\ st2.why = "" /\ st2.hash = Append(<<"IK", pi, c0>>, e) /\ st2.chain = <<"IK">>
  BY <1>4, <1>6, <1>7, OpeningMixesHash
<1>9. st2.hash = <<"IK", pi, c0, e>>
  BY <1>8, Append3
<1>10. PICK d : d = Opening!Shared(e, c0)
  OBVIOUS
<1>11. PICK st3 : st3 = Opening!MixDh(st2, e, c0)
  OBVIOUS
<1>12. /\ Shaped(st3) /\ Opening!Going(st3) /\ st3.hash = st2.hash
       /\ st3.chain = Append(st2.chain, d)
  <2>1. Opening!Agrees(c0) /\ Opening!Going(st2)
    BY <1>5, <1>8 DEF Opening!Going
  <2> QED  BY <1>8, <1>10, <1>11, <2>1, OpeningMixesDh
<1>13. st3.chain = <<"IK", d>>
  BY <1>8, <1>12, Append1
<1>14. Len(<<"IK", d>>) = 2
  OBVIOUS
<1>15. Opening!Keyed(st3)
  BY <1>13, <1>14 DEF Opening!Keyed
<1>16. Opening!HelloFirst(pi, IC, c, e) = st3
  BY <1>1, <1>3, <1>5, <1>7, <1>11 DEF Opening!HelloFirst, Opening!MixEphemeral
<1> QED  BY <1>5, <1>9, <1>10, <1>12, <1>13, <1>15, <1>16

(* As far as the second (s and ss), and after it.                          *)
LEMMA HelloSecondIs ==
  ASSUME NEW pi, NEW c, NEW e, Opening!Agrees(IC)
  PROVE  LET st == Opening!HelloSecond(pi, IC, c, e)
         IN  /\ Shaped(st) /\ Opening!Going(st) /\ Opening!Keyed(st)
             /\ \E x : st.hash = <<"IK", pi, IC, e, x>>
             /\ \E a, b : st.chain = <<"IK", a, b>>
<1>1. PICK st0 : st0 = Opening!HelloFirst(pi, IC, c, e)
  OBVIOUS
<1>2. PICK c0 : c0 = IC
  OBVIOUS
<1>3. PICK a : a = Opening!Shared(e, c0)
  OBVIOUS
<1>4. /\ Shaped(st0) /\ st0.why = "" /\ Opening!Keyed(st0) /\ st0.hash = <<"IK", pi, c0, e>>
      /\ st0.chain = <<"IK", a>>
  <2>1. /\ Shaped(st0) /\ Opening!Going(st0) /\ Opening!Keyed(st0)
        /\ st0.hash = <<"IK", pi, c0, e>> /\ st0.chain = <<"IK", a>>
    BY <1>1, <1>2, <1>3, HelloFirstIs
  <2> QED  BY <2>1 DEF Opening!Going
<1>5. PICK st1 : st1 = Opening!AfterSeal(st0, c)
  OBVIOUS
<1>6. PICK x : x = <<"sealed", st0.chain, st0.nonce, c>>
  OBVIOUS
<1>7. Shaped(st1) /\ st1.why = "" /\ st1.chain = st0.chain /\ st1.hash = Append(st0.hash, x)
  BY <1>4, <1>5, <1>6, OpeningSealing
<1>8. PICK st2 : st2 = Opening!MixDh(st1, c, c0)
  OBVIOUS
<1>9. PICK b : b = Opening!Shared(c, c0)
  OBVIOUS
<1>10. /\ Shaped(st2) /\ Opening!Going(st2) /\ st2.hash = st1.hash
       /\ st2.chain = Append(st1.chain, b)
  <2>1. Opening!Agrees(c0) /\ Opening!Going(st1)
    BY <1>2, <1>7 DEF Opening!Going
  <2> QED  BY <1>7, <1>8, <1>9, <2>1, OpeningMixesDh
<1>11. st2.hash = <<"IK", pi, c0, e, x>>
  BY <1>4, <1>7, <1>10, Append4
<1>12. st2.chain = <<"IK", a, b>>
  BY <1>4, <1>7, <1>10, Append2
<1>13. Len(<<"IK", a, b>>) = 3
  OBVIOUS
<1>14. Opening!Keyed(st2)
  BY <1>12, <1>13 DEF Opening!Keyed
<1>15. Opening!HelloSecond(pi, IC, c, e) = st2
  BY <1>1, <1>2, <1>5, <1>8 DEF Opening!HelloSecond
<1> QED  BY <1>2, <1>10, <1>11, <1>12, <1>14, <1>15

LEMMA HelloStartedIs ==
  ASSUME NEW pi, NEW c, NEW e, NEW payload, Opening!Agrees(IC)
  PROVE  LET st == Opening!HelloStarted(pi, IC, c, e, payload)
         IN  /\ Shaped(st) /\ Opening!Going(st)
             /\ \E x, y : st.hash = <<"IK", pi, IC, e, x, y>>
             /\ \E a, b : st.chain = <<"IK", a, b>>
<1>1. PICK st0 : st0 = Opening!HelloSecond(pi, IC, c, e)
  OBVIOUS
<1>2. /\ Shaped(st0) /\ Opening!Going(st0) /\ Opening!Keyed(st0)
      /\ \E x : st0.hash = <<"IK", pi, IC, e, x>>
      /\ \E a, b : st0.chain = <<"IK", a, b>>
  BY <1>1, HelloSecondIs
<1>3. PICK x : st0.hash = <<"IK", pi, IC, e, x>>
  BY <1>2
<1>4. PICK st1 : st1 = Opening!AfterSeal(st0, payload)
  OBVIOUS
<1>5. PICK y : y = <<"sealed", st0.chain, st0.nonce, payload>>
  OBVIOUS
<1>6. Shaped(st1) /\ st1.why = st0.why /\ st1.chain = st0.chain /\ st1.hash = Append(st0.hash, y)
  BY <1>2, <1>4, <1>5, OpeningSealing
<1>7. PICK c0 : c0 = IC
  OBVIOUS
<1>8. st1.hash = <<"IK", pi, c0, e, x, y>>
  BY <1>3, <1>6, <1>7, Append5
<1>9. Opening!HelloStarted(pi, IC, c, e, payload) = st1
  BY <1>1, <1>4 DEF Opening!HelloStarted
<1>10. Opening!Going(st1)
  BY <1>2, <1>6 DEF Opening!Going
<1> QED  BY <1>2, <1>6, <1>7, <1>8, <1>9, <1>10

(* One message was written by one sender.                                  *)
LEMMA HelloSays ==
  ASSUME NEW h
  PROVE  LET m == HelloIn(h)
         IN  /\ m[1] = EphOf(h) /\ m[2].plain = KeyOf(h) /\ m[3].plain = OfferOf(h)
             /\ m[2].ad = <<"IK", h.prologue, IC, EphOf(h)>>
             /\ Len(m) = 3
<1>1. PICK e : e = EphOf(h)
  OBVIOUS
<1>2. PICK c : c = KeyOf(h)
  OBVIOUS
<1>3. PICK o : o = OfferOf(h)
  OBVIOUS
<1>4. PICK s : s = Opening!HelloFirst(h.prologue, IC, c, e)
  OBVIOUS
<1>5. PICK t : t = Opening!HelloSecond(h.prologue, IC, c, e)
  OBVIOUS
<1>6. PICK x : x = Opening!Sealed(s, c)
  OBVIOUS
<1>7. PICK y : y = Opening!Sealed(t, o)
  OBVIOUS
<1>8. /\ Opening!Keyed(s) /\ s.hash = <<"IK", h.prologue, IC, e>>
  BY <1>4, HelloFirstIs, HelloKeysAgree
<1>9. x.plain = c /\ x.ad = s.hash /\ y.plain = o
  BY <1>6, <1>7, <1>8 DEF Opening!Sealed
<1>10. HelloIn(h) = <<e, x, y>>
  BY <1>1, <1>2, <1>3, <1>4, <1>5, <1>6, <1>7 DEF HelloIn, Opening!HelloMessage
<1> QED  BY <1>1, <1>2, <1>3, <1>8, <1>9, <1>10

LEMMA HelloApart ==
  ASSUME NEW h, NEW k, HelloIn(h) = HelloIn(k)
  PROVE  /\ h.phone = k.phone /\ h.gen = k.gen /\ h.req = k.req
         /\ h.prologue = k.prologue /\ h.speaks = k.speaks
<1>1. PICK m : m = HelloIn(h)
  OBVIOUS
<1>2. /\ m[1] = EphOf(h) /\ m[2].plain = KeyOf(h) /\ m[3].plain = OfferOf(h)
      /\ m[2].ad = <<"IK", h.prologue, IC, EphOf(h)>>
  BY <1>1, HelloSays
<1>3. /\ m[1] = EphOf(k) /\ m[2].plain = KeyOf(k) /\ m[3].plain = OfferOf(k)
      /\ m[2].ad = <<"IK", k.prologue, IC, EphOf(k)>>
  BY <1>1, HelloSays
<1>4. h.prologue = k.prologue
  BY <1>2, <1>3
<1>5. h.phone = k.phone /\ h.req = k.req
  BY <1>2, <1>3 DEF EphOf, Opening!Key
<1>6. h.gen = k.gen
  BY <1>2, <1>3 DEF KeyOf, Opening!Key
<1>7. h.speaks = k.speaks
  BY <1>2, <1>3 DEF OfferOf
<1> QED  BY <1>4, <1>5, <1>6, <1>7

(* Over its own prologue a Hello opens, claim and proof                    *)
(* (HelloResponder::read_claim, HelloClaimed::prove).                      *)
LEMMA HelloOpens ==
  ASSUME NEW h
  PROVE  LET c == Opening!ReadClaim(h.prologue, IC, HelloIn(h))
             p == Opening!Prove(c, IC, HelloIn(h))
         IN  Opening!Going(c) /\ p = BegunBy(h) /\ Opening!Going(p)
<1>1. PICK e : e = EphOf(h)
  OBVIOUS
<1>2. PICK k : k = KeyOf(h)
  OBVIOUS
<1>3. PICK o : o = OfferOf(h)
  OBVIOUS
<1>4. PICK s : s = Opening!HelloFirst(h.prologue, IC, k, e)
  OBVIOUS
<1>5. PICK t : t = Opening!HelloSecond(h.prologue, IC, k, e)
  OBVIOUS
<1>6. PICK x : x = Opening!Sealed(s, k)
  OBVIOUS
<1>7. PICK y : y = Opening!Sealed(t, o)
  OBVIOUS
<1>8. Shaped(s) /\ Opening!Keyed(s) /\ Opening!Going(s)
  BY <1>4, HelloFirstIs, HelloKeysAgree
<1>9. Opening!Going(t)
  BY <1>5, HelloSecondIs, HelloKeysAgree
<1>10. x.plain = k
  BY <1>6 DEF Opening!Sealed
<1>11. HelloIn(h) = <<e, x, y>>
  BY <1>1, <1>2, <1>3, <1>4, <1>5, <1>6, <1>7 DEF HelloIn, Opening!HelloMessage
<1>12. /\ ~Opening!Cut(<<e, x, y>>, 2) /\ ~Opening!Cut(<<e, x, y>>, 3)
       /\ <<e, x, y>>[1] = e /\ <<e, x, y>>[2] = x /\ <<e, x, y>>[3] = y
  BY DEF Opening!Cut
<1>13. Opening!MixDh(Opening!MixEphemeral(Opening!MixHash(Opening!Start("IK", h.prologue), IC),
                                          e, FALSE), IC, e) = s
  <2>1. PICK z : z = Opening!MixEphemeral(Opening!MixHash(Opening!Start("IK", h.prologue), IC), e, FALSE)
    OBVIOUS
  <2>2. Opening!MixDh(z, IC, e) = Opening!MixDh(z, e, IC)
    BY <1>1, OpeningMixSame, HelloKeysAgree
  <2> QED  BY <1>4, <2>1, <2>2 DEF Opening!HelloFirst
<1>14. PICK c : c = Opening!AfterSeal(s, k)
  OBVIOUS
<1>15. Opening!ReadClaim(h.prologue, IC, <<e, x, y>>) = c
  <2>1. Opening!AfterOpen(s, x) = c
    BY <1>6, <1>8, <1>14, OpeningSealedOpens
  <2> QED  BY <1>12, <1>13, <2>1 DEF Opening!ReadClaim
<1>16. Opening!Going(c)
  <2>1. c.why = s.why
    BY <1>8, <1>14, OpeningSealing
  <2> QED  BY <1>8, <2>1 DEF Opening!Going
<1>17. Opening!MixDh(c, IC, k) = t
  <2>1. Opening!MixDh(c, IC, k) = Opening!MixDh(c, k, IC)
    BY <1>2, OpeningMixSame, HelloKeysAgree
  <2> QED  BY <1>4, <1>5, <1>14, <2>1 DEF Opening!HelloSecond
<1>18. PICK b : b = Opening!AfterSeal(t, o)
  OBVIOUS
<1>19. Opening!Prove(c, IC, <<e, x, y>>) = b
  <2>1. Opening!AfterOpen(t, y) = b
    BY <1>7, <1>9, <1>18, OpeningSealedOpens
  <2> QED  BY <1>10, <1>12, <1>17, <2>1 DEF Opening!Prove
<1>20. b = BegunBy(h)
  BY <1>1, <1>2, <1>3, <1>5, <1>18 DEF BegunBy, Opening!HelloStarted
<1>21. Opening!Going(BegunBy(h))
  BY HelloStartedIs, HelloKeysAgree DEF BegunBy
<1> QED  BY <1>11, <1>15, <1>16, <1>19, <1>20, <1>21

(* The state the reply is sealed in, at either end                         *)
(* (HelloProved::reply, HelloInitiator::read_reply).                       *)
AnswersTo(h, e) == Opening!HelloAnswering(BegunBy(h), e, EphOf(h), KeyOf(h))

LEMMA TokensAre ==
  ASSUME NEW h, NEW e, NEW ee, NEW es, NEW se, NEW ss,
         NEW st, st = Opening!HelloTokens(BegunBy(h), e, <<ee, es>>, <<se, ss>>)
  PROVE  /\ Shaped(st)
         /\ \E x, y : st.hash = <<"IK", h.prologue, IC, EphOf(h), x, y, e>>
         /\ Opening!Agrees(es) /\ Opening!Agrees(ss) => Opening!Going(st)
         /\ Opening!Going(st) => Opening!Keyed(st)
<1>1. PICK st0 : st0 = BegunBy(h)
  OBVIOUS
<1>2. /\ Shaped(st0) /\ Opening!Going(st0)
      /\ \E x, y : st0.hash = <<"IK", h.prologue, IC, EphOf(h), x, y>>
      /\ \E a, b : st0.chain = <<"IK", a, b>>
  BY <1>1, HelloStartedIs, HelloKeysAgree DEF BegunBy
<1>3. PICK x, y : st0.hash = <<"IK", h.prologue, IC, EphOf(h), x, y>>
  BY <1>2
<1>4. PICK a, b : st0.chain = <<"IK", a, b>>
  BY <1>2
<1>5. PICK c0 : c0 = IC
  OBVIOUS
<1>6. PICK w : w = EphOf(h)
  OBVIOUS
<1>7. PICK pi : pi = h.prologue
  OBVIOUS
<1>8. PICK st1 : st1 = Opening!MixHash(st0, e)
  OBVIOUS
<1>9. /\ Shaped(st1) /\ st1.why = st0.why /\ st1.hash = Append(st0.hash, e) /\ st1.chain = st0.chain
  BY <1>2, <1>8, OpeningMixesHash
<1>10. st1.hash = <<"IK", pi, c0, w, x, y, e>>
  BY <1>3, <1>5, <1>6, <1>7, <1>9, Append6
<1>11. PICK st2 : st2 = Opening!MixDh(st1, ee, es)
  OBVIOUS
<1>12. PICK d : d = Opening!Shared(ee, es)
  OBVIOUS
<1>13. Opening!Going(st1)
  BY <1>2, <1>9 DEF Opening!Going
<1>14. /\ Shaped(st2) /\ st2.hash = st1.hash
       /\ Opening!Going(st2) => st2.chain = Append(st1.chain, d)
       /\ Opening!Agrees(es) => Opening!Going(st2)
  BY <1>9, <1>11, <1>12, <1>13, OpeningMixesDh
<1>15. PICK st3 : st3 = Opening!MixDh(st2, se, ss)
  OBVIOUS
<1>16. PICK f : f = Opening!Shared(se, ss)
  OBVIOUS
<1>17. /\ Shaped(st3) /\ st3.hash = st2.hash
       /\ Opening!Going(st3) => Opening!Going(st2) /\ st3.chain = Append(st2.chain, f)
       /\ Opening!Going(st2) /\ Opening!Agrees(ss) => Opening!Going(st3)
  BY <1>14, <1>15, <1>16, OpeningMixesDh
<1>18. Opening!Going(st3) => Opening!Keyed(st3)
  <2> SUFFICES ASSUME Opening!Going(st3) PROVE Opening!Keyed(st3)
    OBVIOUS
  <2>1. st2.chain = <<"IK", a, b, d>>
    BY <1>4, <1>9, <1>14, <1>17, Append3
  <2>2. st3.chain = <<"IK", a, b, d, f>>
    BY <1>17, <2>1, Append4
  <2>3. Len(<<"IK", a, b, d, f>>) = 5
    OBVIOUS
  <2> QED  BY <2>2, <2>3 DEF Opening!Keyed
<1>19. st = st3
  <2>1. <<ee, es>>[1] = ee /\ <<ee, es>>[2] = es /\ <<se, ss>>[1] = se /\ <<se, ss>>[2] = ss
    OBVIOUS
  <2> QED  BY <1>1, <1>8, <1>11, <1>15, <2>1 DEF Opening!HelloTokens, Opening!MixEphemeral
<1> QED  BY <1>5, <1>6, <1>7, <1>10, <1>14, <1>17, <1>18, <1>19

LEMMA ReplyIs ==
  ASSUME NEW h, NEW e, NEW report
  PROVE  /\ Opening!HelloReply(BegunBy(h), e, EphOf(h), KeyOf(h), report)
              = <<e, Opening!Sealed(AnswersTo(h, e), report)>>
         /\ Opening!HelloReplied(BegunBy(h), e, EphOf(h), KeyOf(h), report)
              = Opening!AfterSeal(AnswersTo(h, e), report)
BY DEF Opening!HelloReply, Opening!HelloReplied, AnswersTo

LEMMA AnswersGo ==
  ASSUME NEW h, NEW n
  PROVE  LET e == Opening!Fresh(n)
             st == AnswersTo(h, e)
         IN  /\ Shaped(st) /\ Opening!Going(st) /\ Opening!Keyed(st)
             /\ \E x, y : st.hash = <<"IK", h.prologue, IC, EphOf(h), x, y, e>>
             /\ Opening!HelloTokens(BegunBy(h), e, <<EphOf(h), e>>, <<KeyOf(h), e>>) = st
<1>1. PICK e : e = Opening!Fresh(n)
  OBVIOUS
<1>2. PICK w : w = EphOf(h)
  OBVIOUS
<1>3. PICK k : k = KeyOf(h)
  OBVIOUS
<1>4. PICK st : st = Opening!HelloTokens(BegunBy(h), e, <<e, w>>, <<e, k>>)
  OBVIOUS
<1>5. Opening!Agrees(e) /\ Opening!Agrees(w) /\ Opening!Agrees(k)
  BY <1>1, <1>2, <1>3, HelloKeysAgree
<1>6. /\ Shaped(st) /\ Opening!Going(st) /\ Opening!Keyed(st)
      /\ \E x, y : st.hash = <<"IK", h.prologue, IC, EphOf(h), x, y, e>>
  <2>1. /\ Shaped(st)
        /\ \E x, y : st.hash = <<"IK", h.prologue, IC, EphOf(h), x, y, e>>
        /\ Opening!Agrees(w) /\ Opening!Agrees(k) => Opening!Going(st)
        /\ Opening!Going(st) => Opening!Keyed(st)
    BY <1>4, TokensAre
  <2> QED  BY <1>5, <2>1
<1>7. st = AnswersTo(h, e)
  BY <1>2, <1>3, <1>4 DEF AnswersTo, Opening!HelloAnswering
<1>8. Opening!HelloTokens(BegunBy(h), e, <<w, e>>, <<k, e>>) = st
  <2>1. PICK z : z = Opening!MixEphemeral(BegunBy(h), e, FALSE)
    OBVIOUS
  <2>2. Opening!MixDh(z, e, w) = Opening!MixDh(z, w, e)
    BY <1>5, OpeningMixSame
  <2>3. PICK y : y = Opening!MixDh(z, e, w)
    OBVIOUS
  <2>4. Opening!MixDh(y, e, k) = Opening!MixDh(y, k, e)
    BY <1>5, OpeningMixSame
  <2>5. /\ <<e, w>>[1] = e /\ <<e, w>>[2] = w /\ <<e, k>>[1] = e /\ <<e, k>>[2] = k
        /\ <<w, e>>[1] = w /\ <<w, e>>[2] = e /\ <<k, e>>[1] = k /\ <<k, e>>[2] = e
    OBVIOUS
  <2>6. st = Opening!MixDh(y, e, k)
    BY <1>4, <2>1, <2>3, <2>5 DEF Opening!HelloTokens
  <2>7. Opening!HelloTokens(BegunBy(h), e, <<w, e>>, <<k, e>>) = Opening!MixDh(y, k, e)
    BY <2>1, <2>2, <2>3, <2>5 DEF Opening!HelloTokens
  <2> QED  BY <2>4, <2>6, <2>7
<1> QED  BY <1>1, <1>2, <1>3, <1>6, <1>7, <1>8

(* A reply read as it was written opens, where it was sealed.              *)
LEMMA HelloReplyOpens ==
  ASSUME NEW h, NEW n, NEW report
  PROVE  LET st == Opening!HelloReadReply(BegunBy(h), EphOf(h), KeyOf(h),
                     Opening!HelloReply(BegunBy(h), Opening!Fresh(n), EphOf(h), KeyOf(h), report))
         IN  /\ Opening!Going(st)
             /\ st = Opening!HelloReplied(BegunBy(h), Opening!Fresh(n), EphOf(h), KeyOf(h), report)
<1>1. PICK e : e = Opening!Fresh(n)
  OBVIOUS
<1>2. PICK s : s = AnswersTo(h, e)
  OBVIOUS
<1>3. /\ Shaped(s) /\ Opening!Going(s) /\ Opening!Keyed(s)
      /\ Opening!HelloTokens(BegunBy(h), e, <<EphOf(h), e>>, <<KeyOf(h), e>>) = s
  BY <1>1, <1>2, AnswersGo
<1>4. PICK x : x = Opening!Sealed(s, report)
  OBVIOUS
<1>5. Opening!HelloReply(BegunBy(h), e, EphOf(h), KeyOf(h), report) = <<e, x>>
  BY <1>2, <1>4, ReplyIs
<1>6. ~Opening!Cut(<<e, x>>, 2) /\ <<e, x>>[1] = e /\ <<e, x>>[2] = x
  BY DEF Opening!Cut
<1>7. PICK r : r = Opening!AfterSeal(s, report)
  OBVIOUS
<1>8. Opening!AfterOpen(s, x) = r
  BY <1>3, <1>4, <1>7, OpeningSealedOpens
<1>9. Opening!HelloReadReply(BegunBy(h), EphOf(h), KeyOf(h), <<e, x>>) = r
  BY <1>3, <1>6, <1>8 DEF Opening!HelloReadReply
<1>10. r.why = s.why
  BY <1>3, <1>7, OpeningSealing
<1>11. Opening!Going(r)
  BY <1>3, <1>10 DEF Opening!Going
<1>12. r = Opening!HelloReplied(BegunBy(h), e, EphOf(h), KeyOf(h), report)
  BY <1>2, <1>7, ReplyIs
<1> QED  BY <1>1, <1>5, <1>9, <1>11, <1>12

(* A reply that opens is the one to this Hello.                            *)
LEMMA HelloReplyRead ==
  ASSUME NEW h, NEW k, NEW n, NEW report, NEW e,
         Opening!Going(Opening!HelloReadReply(BegunBy(k), EphOf(k), KeyOf(k),
           <<e, Opening!Sealed(AnswersTo(h, Opening!Fresh(n)), report)>>))
  PROVE  EphOf(k) = EphOf(h) /\ e = Opening!Fresh(n)
<1>1. PICK f : f = Opening!Fresh(n)
  OBVIOUS
<1>2. PICK s : s = AnswersTo(h, f)
  OBVIOUS
<1>3. /\ Shaped(s) /\ Opening!Going(s) /\ Opening!Keyed(s)
      /\ \E x, y : s.hash = <<"IK", h.prologue, IC, EphOf(h), x, y, f>>
  BY <1>1, <1>2, AnswersGo
<1>4. PICK t : t = Opening!HelloTokens(BegunBy(k), e, <<EphOf(k), e>>, <<KeyOf(k), e>>)
  OBVIOUS
<1>5. /\ Shaped(t) /\ (Opening!Going(t) => Opening!Keyed(t))
      /\ \E x, y : t.hash = <<"IK", k.prologue, IC, EphOf(k), x, y, e>>
  <2>1. PICK w : w = EphOf(k)
    OBVIOUS
  <2>2. PICK c : c = KeyOf(k)
    OBVIOUS
  <2>3. t = Opening!HelloTokens(BegunBy(k), e, <<w, e>>, <<c, e>>)
    BY <1>4, <2>1, <2>2
  <2>4. /\ Shaped(t)
        /\ \E x, y : t.hash = <<"IK", k.prologue, IC, EphOf(k), x, y, e>>
        /\ Opening!Going(t) => Opening!Keyed(t)
    BY <2>3, TokensAre
  <2> QED  BY <2>4
<1>6. PICK x : x = Opening!Sealed(s, report)
  OBVIOUS
<1>7. ~Opening!Cut(<<e, x>>, 2) /\ <<e, x>>[1] = e /\ <<e, x>>[2] = x
  BY DEF Opening!Cut
<1>8. Opening!Going(Opening!AfterOpen(t, x))
  BY <1>1, <1>2, <1>4, <1>6, <1>7 DEF Opening!HelloReadReply
<1>9. PICK p : p = x.plain
  OBVIOUS
<1>10. Opening!Going(t) /\ x = Opening!Sealed(t, p)
  <2>1. Shaped(t)
    BY <1>5
  <2> QED  BY <2>1, <1>8, <1>9, OpeningOpenedAsSealed
<1>11. s = t
  <2>1. Shaped(s) /\ Opening!Going(s) /\ Opening!Keyed(s)
    BY <1>3
  <2>2. Shaped(t) /\ Opening!Going(t) /\ Opening!Keyed(t)
    BY <1>5, <1>10
  <2>3. Opening!Sealed(s, report) = Opening!Sealed(t, p)
    BY <1>6, <1>10
  <2> QED  BY <2>1, <2>2, <2>3, OpeningSealsAlike
<1>12. PICK a, b : s.hash = <<"IK", h.prologue, IC, EphOf(h), a, b, f>>
  BY <1>3
<1>13. PICK c, d : t.hash = <<"IK", k.prologue, IC, EphOf(k), c, d, e>>
  BY <1>5
<1>14. EphOf(k) = EphOf(h) /\ e = f
  BY <1>11, <1>12, <1>13
<1> QED  BY <1>1, <1>14
-----------------------------------------------------------------------------
(* What was written, by whom, and what stands on it.                       *)

Hellos  == {m \in wire : m.kind = "hello"}
Replies == {m \in wire : m.kind = "reply"}
Gens    == 1 .. (MaxRekeys + 1)
Own(p, g) == Opening!Enrolment(Opening!Key("client", p, g))

Written(o, h) ==
  /\ h.phone \in Phones /\ h.speaks \in Speaks
  /\ o = [kind |-> "hello", req |-> h.req, handle |-> h.prologue[7], suite |-> 1,
          message |-> HelloIn(h),
          admit |-> Opening!AdmitTag(Opening!AdmitKey(Opening!Device, KeyOf(h), IC),
                                     h.prologue, HelloIn(h))]
Sent(h) == \E o \in Hellos : Written(o, h)

(* The session opened for one Hello, and the reply that says so.           *)
ReportOf(h) == <<"report", Version, h.prologue[7], h.phone, h.gen>>
OpenedBy(h, n) ==
  Opening!HelloReplied(BegunBy(h), Opening!Fresh(n), EphOf(h), KeyOf(h), ReportOf(h))
ReplyTo(h, n) ==
  Opening!HelloReply(BegunBy(h), Opening!Fresh(n), EphOf(h), KeyOf(h), ReportOf(h))
Session(s, h, n) ==
  /\ s.e = EphOf(h) /\ s.key = KeyOf(h) /\ s.slot = h.phone /\ s.gen = h.gen
  /\ s.prologue = h.prologue /\ s.handle = h.prologue[7] /\ s.handle \in Opening!Handles
  /\ s.version = Opening!Agreed(Version, h.speaks) /\ Opening!SameMajor(Version, h.speaks)
  /\ s.channel = Opening!ForResponder(Opening!Split(OpenedBy(h, n)))
Answers(r, h, n) ==
  r = [kind |-> "reply", req |-> h.req, handle |-> r.handle, message |-> ReplyTo(h, n)]
Backed(s, h, n) == Sent(h) /\ Session(s, h, n)

ConnOK ==
  /\ conn = [handle |-> conn.handle, challenge |-> conn.challenge, live |-> conn.live]
  /\ conn.handle \in Opening!Handles /\ conn.challenge \in Nat /\ conn.live \in BOOLEAN

TableOK ==
  /\ DOMAIN table = Phones
  /\ \A p \in Phones : \E g \in Gens : table[p] = Opening!Row(Opening!Key("client", p, g), g)

HellosOK ==
  /\ IsFiniteSet(Hellos)
  /\ \A o \in Hellos : o.req \in 1 .. Cardinality(Hellos) /\ \E h : Written(o, h)
  /\ \A o, q \in Hellos : o.req = q.req => o = q

(* A phone's enrolment is its own; what it is in the middle of it wrote;   *)
(* and what it has open the controller opened.                             *)
Holds(kept, p) == \E g \in Gens : kept \in {Own(p, g), Opening!WithSlot(Own(p, g), p, g)}
Awaits(ph, p) == \E k :
  /\ Sent(k) /\ k.phone = p /\ ph.req = k.req /\ ph.e = EphOf(k)
  /\ ph.kept.key = KeyOf(k) /\ ph.prologue = k.prologue /\ ph.speaks = k.speaks
  /\ ph.handle = k.prologue[7] /\ ph.pending = BegunBy(k)
Shares(ph, p, s) ==
  /\ s.channel = [send |-> ph.channel.receive, receive |-> ph.channel.send]
  /\ s.key = ph.kept.key /\ s.slot = p
  /\ ph.kept.slot = <<s.slot, s.gen>>
  /\ s.prologue = ph.prologue /\ s.handle = ph.handle
  /\ s.version = ph.version /\ s.version = Opening!Agreed(Version, ph.speaks)
PhoneOK(ph, p) ==
  /\ ph.phase # "unpaired" => Holds(ph.kept, p)
  /\ ph.phase = "pending" => Awaits(ph, p)
  /\ ph.phase = "open" => \E s \in opened : Shares(ph, p, s)
PhonesOK ==
  DOMAIN phone = Phones /\ \A p \in Phones : \E ph : ph = phone[p] /\ PhoneOK(ph, p)

Admitted(a, h) ==
  /\ a.slot = h.phone /\ a.hello.message = HelloIn(h) /\ a.hello.req = h.req
  /\ a.hello.suite = 1
AdmittedOK ==
  \/ admitted = Opening!Nobody
  \/ /\ ~conn.live
     /\ \E h : Sent(h) /\ Admitted(admitted, h) /\ h.prologue = Opening!OwnPrologue

(* One session at most to a challenge, and none yet to a live one.         *)
Past(s) ==
  /\ s.prologue[6] \in Nat /\ s.prologue[6] <= conn.challenge
  /\ s.prologue[6] = conn.challenge => ~conn.live /\ admitted = Opening!Nobody
SessionsOK ==
  /\ \A s \in opened : Past(s) /\ \E h, n : Backed(s, h, n)
  /\ \A s, t \in opened : s.prologue = t.prologue => s = t
RepliesOK ==
  \A r \in Replies : \E s \in opened : \E h, n : Backed(s, h, n) /\ Answers(r, h, n)

HelloInv ==
  /\ ConnOK /\ TableOK /\ HellosOK /\ PhonesOK /\ AdmittedOK /\ SessionsOK /\ RepliesOK
  /\ ~wronged

LEMMA MessagesAre == Opening!Messages("hello") = Hellos /\ Opening!Messages("reply") = Replies
BY DEF Opening!Messages, Hellos, Replies

LEMMA HelloInit == Opening!Init => HelloInv
<1> SUFFICES ASSUME Opening!Init PROVE HelloInv
  OBVIOUS
<1>1. Hellos = {} /\ Replies = {} /\ opened = {}
  BY DEF Opening!Init, Hellos, Replies
<1>2. ConnOK
  BY DEF Opening!Init, ConnOK, Opening!Handles
<1>3. 1 \in Gens
  BY VersionsAssumption DEF Gens
<1>4. TableOK
  BY <1>3 DEF Opening!Init, TableOK
<1>5. HellosOK
  BY <1>1, FS_EmptySet DEF HellosOK
<1>6. PhonesOK
  BY <1>3 DEF Opening!Init, PhonesOK, PhoneOK, Holds, Own
<1>7. AdmittedOK /\ SessionsOK /\ RepliesOK
  BY <1>1 DEF AdmittedOK, SessionsOK, RepliesOK, Opening!Init
<1> QED  BY <1>2, <1>4, <1>5, <1>6, <1>7 DEF HelloInv, Opening!Init

(* One request was one Hello.                                              *)
LEMMA SentOnce ==
  ASSUME HellosOK, NEW h, NEW k, Sent(h), Sent(k), h.req = k.req
  PROVE  /\ h.phone = k.phone /\ h.gen = k.gen /\ h.req = k.req
         /\ h.prologue = k.prologue /\ h.speaks = k.speaks
<1>1. PICK o \in Hellos : Written(o, h)
  BY DEF Sent
<1>2. PICK q \in Hellos : Written(q, k)
  BY DEF Sent
<1>3. o.req = h.req /\ o.message = HelloIn(h)
  BY <1>1 DEF Written
<1>4. q.req = k.req /\ q.message = HelloIn(k)
  BY <1>2 DEF Written
<1>5. o = q
  BY <1>1, <1>2, <1>3, <1>4 DEF HellosOK
<1> QED  BY <1>3, <1>4, <1>5, HelloApart

LEMMA SameHello ==
  ASSUME NEW h, NEW k, h.phone = k.phone, h.gen = k.gen, h.req = k.req,
         h.prologue = k.prologue, h.speaks = k.speaks, NEW n
  PROVE  /\ KeyOf(h) = KeyOf(k) /\ EphOf(h) = EphOf(k) /\ HelloIn(h) = HelloIn(k)
         /\ BegunBy(h) = BegunBy(k) /\ ReportOf(h) = ReportOf(k)
         /\ OpenedBy(h, n) = OpenedBy(k, n) /\ ReplyTo(h, n) = ReplyTo(k, n)
BY DEF KeyOf, EphOf, HelloIn, BegunBy, OfferOf, ReportOf, OpenedBy, ReplyTo

(* What the comms processor hands on of a Hello, and of a reply.           *)
LEMMA HelloSeen ==
  ASSUME NEW o, NEW h, Written(o, h), NEW seen \in Opening!Altered(o)
  PROVE  /\ seen.kind = "hello" /\ seen.req = h.req
         /\ seen.admit # Opening!CutTag =>
              seen.admit = o.admit \/ \E q \in Hellos : seen.admit = q.admit
         /\ \/ seen.message = HelloIn(h)
            \/ seen.message = SubSeq(HelloIn(h), 1, 2)
            \/ seen.message = Opening!LowFirst(HelloIn(h))
<1>1. PICK a, b, c, d : o = [kind |-> "hello", req |-> a, handle |-> b, suite |-> 1,
                             message |-> c, admit |-> d]
                        /\ a = h.req /\ c = HelloIn(h)
  BY DEF Written
<1>2. \/ seen = o
      \/ seen = [o EXCEPT !.suite = 2]
      \/ seen = [o EXCEPT !.admit = Opening!CutTag]
      \/ seen = [o EXCEPT !.message = SubSeq(c, 1, 2)]
      \/ seen = [o EXCEPT !.message = Opening!LowFirst(c)]
      \/ \E x \in Opening!Handles : seen = [o EXCEPT !.handle = x]
      \/ \E q \in Hellos : seen = [o EXCEPT !.admit = q.admit]
  BY <1>1, MessagesAre DEF Opening!Altered
<1>3. CASE seen = o
  BY <1>1, <1>3
<1>4. CASE seen = [o EXCEPT !.suite = 2]
  BY <1>1, <1>4
<1>5. CASE seen = [o EXCEPT !.admit = Opening!CutTag]
  BY <1>1, <1>5
<1>6. CASE seen = [o EXCEPT !.message = SubSeq(c, 1, 2)]
  BY <1>1, <1>6
<1>7. CASE seen = [o EXCEPT !.message = Opening!LowFirst(c)]
  BY <1>1, <1>7
<1>8. CASE \E x \in Opening!Handles : seen = [o EXCEPT !.handle = x]
  BY <1>1, <1>8
<1>9. CASE \E q \in Hellos : seen = [o EXCEPT !.admit = q.admit]
  BY <1>1, <1>9
<1> QED  BY <1>2, <1>3, <1>4, <1>5, <1>6, <1>7, <1>8, <1>9

(* A message that was cut or begins with the low-order point is nobody's.  *)
LEMMA TornIsNone ==
  ASSUME NEW h, NEW k
  PROVE  /\ HelloIn(k) # SubSeq(HelloIn(h), 1, 2)
         /\ HelloIn(k) # Opening!LowFirst(HelloIn(h))
<1>1. PICK a, b, c : HelloIn(h) = <<a, b, c>>
  BY DEF HelloIn, Opening!HelloMessage
<1>2. Len(HelloIn(k)) = 3 /\ HelloIn(k)[1] = EphOf(k)
  BY HelloSays
<1>3. Len(SubSeq(<<a, b, c>>, 1, 2)) = 2
  <2>1. <<a, b, c>> \in Seq({a, b, c}) /\ Len(<<a, b, c>>) = 3
    OBVIOUS
  <2> QED  BY <2>1
<1>4. Opening!LowFirst(<<a, b, c>>)[1] = Opening!LowOrder
  BY DEF Opening!LowFirst
<1>5. EphOf(k) # Opening!LowOrder
  BY HelloKeysAgree DEF Opening!Agrees
<1> QED  BY <1>1, <1>2, <1>3, <1>4, <1>5

LEMMA ReplySeen ==
  ASSUME NEW r, NEW f, NEW x, NEW rq, NEW hd,
         r = [kind |-> "reply", req |-> rq, handle |-> hd, message |-> <<f, x>>],
         NEW seen \in Opening!AlteredReply(r)
  PROVE  \/ Opening!Cut(seen.message, 2)
         \/ seen.message = <<f, x>>
         \/ seen.message = <<Opening!LowOrder, x>>
<1>1. \/ seen.message = <<f, x>>
      \/ seen.message = SubSeq(<<f, x>>, 1, 1)
      \/ seen.message = Opening!LowFirst(<<f, x>>)
  <2>1. \/ seen = r
        \/ seen = [r EXCEPT !.handle = 0]
        \/ seen = [r EXCEPT !.message = SubSeq(<<f, x>>, 1, 1)]
        \/ seen = [r EXCEPT !.message = Opening!LowFirst(<<f, x>>)]
        \/ \E y \in Opening!Handles : seen = [r EXCEPT !.handle = y]
        \/ \E q \in Hellos : seen = [r EXCEPT !.req = q.req]
    BY MessagesAre DEF Opening!AlteredReply
  <2> QED  BY <2>1
<1>2. Len(SubSeq(<<f, x>>, 1, 1)) = 1
  <2>1. <<f, x>> \in Seq({f, x}) /\ Len(<<f, x>>) = 2
    OBVIOUS
  <2> QED  BY <2>1
<1>3. Opening!LowFirst(<<f, x>>) = <<Opening!LowOrder, x>>
  <2>1. PICK m : m = <<f, x>>
    OBVIOUS
  <2>2. PICK s : s = [m EXCEPT ![1] = Opening!LowOrder]
    OBVIOUS
  <2>3. PICK S : S = {f, x, Opening!LowOrder}
    OBVIOUS
  <2>4. m \in Seq(S) /\ Len(m) = 2 /\ m[1] = f /\ m[2] = x /\ Opening!LowOrder \in S
    BY <2>1, <2>3
  <2>5. /\ s \in Seq(S) /\ Len(s) = Len(m)
        /\ \A j \in 1 .. Len(m) : s[j] = IF j = 1 THEN Opening!LowOrder ELSE m[j]
    BY <2>2, <2>4, ExceptSeq
  <2>6. Len(s) = 2 /\ s[1] = Opening!LowOrder /\ s[2] = x
    BY <2>4, <2>5
  <2> QED  BY <2>1, <2>2, <2>5, <2>6, TwoParts DEF Opening!LowFirst
<1> QED  BY <1>1, <1>2, <1>3 DEF Opening!Cut
-----------------------------------------------------------------------------
(* What was written and opened stays so.                                   *)
LEMMA HelloStays ==
  ASSUME Hellos \subseteq Hellos', opened \subseteq opened'
  PROVE  /\ \A h : Sent(h) => Sent(h)'
         /\ \A ph, p : PhoneOK(ph, p) => PhoneOK(ph, p)'
         /\ \A s, h, n : Backed(s, h, n) => Backed(s, h, n)'
<1>1. \A h : Sent(h) => Sent(h)'
  BY DEF Sent
<1>2. ASSUME NEW ph, NEW p, Awaits(ph, p) PROVE Awaits(ph, p)'
  BY <1>1, <1>2 DEF Awaits
<1>3. \A ph, p : PhoneOK(ph, p) => PhoneOK(ph, p)'
  BY <1>2 DEF PhoneOK
<1>4. \A s, h, n : Backed(s, h, n) => Backed(s, h, n)'
  BY <1>1 DEF Backed
<1> QED  BY <1>1, <1>3, <1>4

LEMMA PhonesStay ==
  ASSUME PhonesOK, Hellos \subseteq Hellos', opened \subseteq opened', phone' = phone
  PROVE  PhonesOK'
BY HelloStays DEF PhonesOK

LEMMA PhoneMoves ==
  ASSUME PhonesOK, Hellos \subseteq Hellos', opened \subseteq opened',
         NEW p \in Phones, NEW x, phone' = [phone EXCEPT ![p] = x], PhoneOK(x, p)'
  PROVE  PhonesOK'
<1>1. \A ph, q : PhoneOK(ph, q) => PhoneOK(ph, q)'
  BY HelloStays
<1>2. DOMAIN phone = Phones
  BY DEF PhonesOK
<1>3. DOMAIN phone' = Phones /\ phone'[p] = x
  BY <1>2
<1>4. ASSUME NEW q \in Phones PROVE \E ph : ph = phone'[q] /\ PhoneOK(ph, q)'
  <2>1. CASE q = p
    BY <1>3, <2>1
  <2>2. CASE q # p
    <3>1. phone'[q] = phone[q]
      BY <1>2, <2>2
    <3> QED  BY <1>1, <3>1 DEF PhonesOK
  <2> QED  BY <2>1, <2>2
<1> QED  BY <1>3, <1>4 DEF PhonesOK

LEMMA WritingStays ==
  ASSUME HellosOK, RepliesOK, Hellos' = Hellos, Replies' = Replies, opened' = opened
  PROVE  HellosOK' /\ RepliesOK'
<1>1. HellosOK'
  BY DEF HellosOK
<1>2. \A s, h, n : Backed(s, h, n) => Backed(s, h, n)'
  BY HelloStays
<1>3. RepliesOK'
  BY <1>2 DEF RepliesOK
<1> QED  BY <1>1, <1>3

LEMMA ConnectStep ==
  ASSUME HelloInv, NEW handle \in Opening!Handles, Opening!Connect(handle)
  PROVE  HelloInv'
<1>1. Hellos' = Hellos /\ Replies' = Replies /\ opened' = opened /\ phone' = phone
      /\ table' = table /\ wronged' = wronged /\ admitted' = Opening!Nobody
      /\ conn' = [handle |-> handle, challenge |-> conn.challenge + 1, live |-> TRUE]
  BY DEF Opening!Connect, Hellos, Replies
<1>2. ConnOK'
  BY <1>1 DEF HelloInv, ConnOK
<1>3. SessionsOK'
  <2>1. ASSUME NEW s \in opened PROVE Past(s)'
    <3>1. s.prologue[6] \in Nat /\ s.prologue[6] <= conn.challenge /\ conn.challenge \in Nat
      BY DEF HelloInv, SessionsOK, Past, ConnOK
    <3>2. conn.challenge' = conn.challenge + 1
      BY <1>1
    <3> QED  BY <3>1, <3>2 DEF Past
  <2>2. \A s, h, n : Backed(s, h, n) => Backed(s, h, n)'
    BY <1>1, HelloStays
  <2> QED  BY <1>1, <2>1, <2>2 DEF HelloInv, SessionsOK
<1>4. HellosOK' /\ RepliesOK' /\ PhonesOK'
  BY <1>1, WritingStays, PhonesStay DEF HelloInv
<1>5. TableOK' /\ AdmittedOK'
  BY <1>1 DEF HelloInv, TableOK, AdmittedOK
<1> QED  BY <1>1, <1>2, <1>3, <1>4, <1>5 DEF HelloInv

(* A step of the phones alone leaves the controller's part as it was.      *)
LEMMA ControllerStays ==
  ASSUME HelloInv, Hellos \subseteq Hellos', Replies' = Replies,
         UNCHANGED <<conn, admitted, opened>>, wronged' => wronged
  PROVE  ConnOK' /\ AdmittedOK' /\ SessionsOK' /\ RepliesOK' /\ ~wronged'
<1>1. /\ \A h : Sent(h) => Sent(h)'
      /\ \A s, h, n : Backed(s, h, n) => Backed(s, h, n)'
  BY HelloStays
<1>2. ConnOK' /\ ~wronged'
  BY DEF HelloInv, ConnOK
<1>3. AdmittedOK'
  <2>1. Opening!OwnPrologue' = Opening!OwnPrologue
    BY DEF Opening!OwnPrologue
  <2> QED  BY <1>1, <2>1 DEF HelloInv, AdmittedOK
<1>4. SessionsOK'
  <2>1. ASSUME NEW s \in opened PROVE Past(s)'
    BY DEF HelloInv, SessionsOK, Past
  <2> QED  BY <1>1, <2>1 DEF HelloInv, SessionsOK
<1>5. RepliesOK'
  BY <1>1 DEF HelloInv, RepliesOK
<1> QED  BY <1>2, <1>3, <1>4, <1>5

LEMMA DiscoverStep ==
  ASSUME HelloInv, Opening!Discover
  PROVE  HelloInv'
<1>1. PICK m : m = [kind |-> "discover", version |-> Version, device |-> Opening!Device,
                    epoch |-> Opening!Epoch, challenge |-> conn.challenge,
                    handle |-> conn.handle]
  OBVIOUS
<1>2. wire' = wire \cup {m} /\ m.kind = "discover"
  BY <1>1 DEF Opening!Discover
<1>3. Hellos' = Hellos /\ Replies' = Replies
  BY <1>2 DEF Hellos, Replies
<1>4. UNCHANGED <<conn, table, admitted, phone, opened, wronged>>
  BY DEF Opening!Discover
<1>5. HellosOK' /\ PhonesOK'
  BY <1>3, <1>4, WritingStays, PhonesStay DEF HelloInv
<1>6. TableOK'
  BY <1>4 DEF HelloInv, TableOK
<1>7. ConnOK' /\ AdmittedOK' /\ SessionsOK' /\ RepliesOK' /\ ~wronged'
  BY <1>3, <1>4, ControllerStays
<1> QED  BY <1>5, <1>6, <1>7 DEF HelloInv

LEMMA RekeyStep ==
  ASSUME HelloInv, NEW p \in Phones, Opening!Rekey(p)
  PROVE  HelloInv'
<1>1. PICK g : g = table[p].gen + 1
  OBVIOUS
<1>2. PICK key : key = Opening!Key("client", p, g)
  OBVIOUS
<1>3. PICK x : x = [kept |-> Opening!Enrolment(key), phase |-> "idle"]
  OBVIOUS
<1>4. /\ g <= MaxRekeys + 1
      /\ table' = [table EXCEPT ![p] = Opening!Row(key, g)]
      /\ phone' = [phone EXCEPT ![p] = x]
      /\ UNCHANGED <<conn, admitted, wire, opened, wronged>>
  BY <1>1, <1>2, <1>3 DEF Opening!Rekey
<1>5. Hellos' = Hellos /\ Replies' = Replies
  BY <1>4 DEF Hellos, Replies
<1>6. g \in Gens
  <2>1. PICK f \in Gens : table[p] = Opening!Row(Opening!Key("client", p, f), f)
    BY DEF HelloInv, TableOK
  <2>2. table[p].gen = f
    BY <2>1 DEF Opening!Row
  <2> QED  BY <1>1, <1>4, <2>1, <2>2, VersionsAssumption DEF Gens
<1>7. TableOK'
  BY <1>2, <1>4, <1>6 DEF HelloInv, TableOK
<1>8. PhonesOK'
  <2>1. PhoneOK(x, p)'
    <3>1. x.phase = "idle" /\ x.kept = Own(p, g)
      BY <1>2, <1>3 DEF Own
    <3> QED  BY <1>6, <3>1 DEF PhoneOK, Holds
  <2> QED  BY <1>4, <1>5, <2>1, PhoneMoves DEF HelloInv
<1>9. HellosOK'
  BY <1>4, <1>5, WritingStays DEF HelloInv
<1>10. ConnOK' /\ AdmittedOK' /\ SessionsOK' /\ RepliesOK' /\ ~wronged'
  BY <1>4, <1>5, ControllerStays
<1> QED  BY <1>7, <1>8, <1>9, <1>10 DEF HelloInv

Decodes(st) == Opening!DecodeWhy(st) = ""

(* What decodes again is the enrolment that was stored, or that without    *)
(* the slot (StoredEnrolment::decode).                                     *)
LEMMA DecodesWhole ==
  ASSUME NEW p, NEW kept, Holds(kept, p),
         NEW st \in Opening!HandedBack(Opening!Stored(kept)), Decodes(st)
  PROVE  Holds(st.kept, p)
<1>1. PICK g \in Gens : kept \in {Own(p, g), Opening!WithSlot(Own(p, g), p, g)}
  BY DEF Holds
<1>2. PICK a, b, c, d, e, f :
        /\ kept = [device |-> a, controller |-> b, key |-> c, suite |-> d, epoch |-> e, slot |-> f]
        /\ Own(p, g) = [device |-> a, controller |-> b, key |-> c, suite |-> d, epoch |-> e,
                        slot |-> <<"", 0>>]
        /\ f = <<"", 0>> \/ f = <<p, g>>
  BY <1>1 DEF Own, Opening!Enrolment, Opening!WithSlot, Opening!NoSlot
<1>3. g # 0
  <2>1. \A i \in Gens : i # 0
    BY VersionsAssumption DEF Gens
  <2> QED  BY <2>1
<1>4. PICK t : t = [kept |-> kept, format |-> 2, whole |-> TRUE]
  OBVIOUS
<1>5. PICK u : u = f[1]
  OBVIOUS
<1>6. PICK v : v = f[2]
  OBVIOUS
<1>7. PICK z : z = 0
  OBVIOUS
<1>8. PICK k : k = [kept EXCEPT !.slot = <<u, z>>]
  OBVIOUS
<1>9. PICK w : w = ""
  OBVIOUS
<1>10. PICK l : l = [kept EXCEPT !.slot = <<w, v>>]
  OBVIOUS
<1>11. PICK x : x = [kept EXCEPT !.suite = 9]
  OBVIOUS
<1>12. PICK y : y = [kept EXCEPT !.epoch = 0]
  OBVIOUS
<1>13. \/ st = t
       \/ st = [t EXCEPT !.whole = FALSE]
       \/ st = [t EXCEPT !.format = 1]
       \/ st = [t EXCEPT !.kept = x]
       \/ st = [t EXCEPT !.kept = y]
       \/ st = [t EXCEPT !.kept = k]
       \/ st = [t EXCEPT !.kept = l]
  BY <1>2, <1>4, <1>5, <1>6, <1>7, <1>8, <1>9, <1>10, <1>11, <1>12
     DEF Opening!HandedBack, Opening!Stored, Opening!FORMAT
<1>14. /\ st.whole /\ st.format = 2
       /\ st.kept.suite \in {1} /\ st.kept.epoch # 0
  BY DEF Decodes, Opening!DecodeWhy, Opening!FORMAT, Opening!Suites
<1>15. st.kept.slot[1] = "" <=> st.kept.slot[2] = 0
  BY Zenon DEF Decodes, Opening!DecodeWhy
<1>16. \A q, n : <<q, n>>[1] = q /\ <<q, n>>[2] = n
  OBVIOUS
<1>17. CASE st = t
  BY <1>1, <1>4, <1>17 DEF Holds
<1>18. CASE st = [t EXCEPT !.whole = FALSE]
  BY <1>4, <1>14, <1>18
<1>19. CASE st = [t EXCEPT !.format = 1]
  BY <1>4, <1>14, <1>19
<1>20. CASE st = [t EXCEPT !.kept = x]
  <2>1. st.kept = x
    BY <1>4, <1>20
  <2>2. x.suite = 9
    BY <1>2, <1>11
  <2> QED  BY <1>14, <2>1, <2>2
<1>21. CASE st = [t EXCEPT !.kept = y]
  <2>1. st.kept = y
    BY <1>4, <1>21
  <2>2. y.epoch = 0
    BY <1>2, <1>12
  <2> QED  BY <1>14, <2>1, <2>2
<1>22. CASE st = [t EXCEPT !.kept = k]
  <2>1. st.kept = k
    BY <1>4, <1>22
  <2>2. k = [device |-> a, controller |-> b, key |-> c, suite |-> d, epoch |-> e,
             slot |-> <<u, z>>]
    BY <1>2, <1>8
  <2>3. st.kept.slot = <<u, z>>
    BY <2>1, <2>2
  <2>4. u = "" <=> z = 0
    BY <1>15, <1>16, <2>3, Zenon
  <2>5. k = Own(p, g)
    BY <1>2, <1>7, <2>2, <2>4
  <2> QED  BY <1>1, <2>1, <2>5 DEF Holds
<1>23. CASE st = [t EXCEPT !.kept = l]
  <2>1. st.kept = l
    BY <1>4, <1>23
  <2>2. l = [device |-> a, controller |-> b, key |-> c, suite |-> d, epoch |-> e,
             slot |-> <<w, v>>]
    BY <1>2, <1>10
  <2>3. st.kept.slot = <<w, v>>
    BY <2>1, <2>2
  <2>4. w = "" <=> v = 0
    BY <1>15, <1>16, <2>3, Zenon
  <2>5. l = Own(p, g)
    BY <1>2, <1>9, <2>2, <2>4
  <2> QED  BY <1>1, <2>1, <2>5 DEF Holds
<1> QED  BY <1>13, <1>17, <1>18, <1>19, <1>20, <1>21, <1>22, <1>23

LEMMA RelaunchStep ==
  ASSUME HelloInv, NEW p \in Phones, Opening!Relaunch(p)
  PROVE  HelloInv'
<1>1. PICK kept : kept = phone[p].kept
  OBVIOUS
<1>2. PICK st \in Opening!HandedBack(Opening!Stored(kept)) :
        phone' = [phone EXCEPT ![p] =
          IF Decodes(st) THEN [kept |-> st.kept, phase |-> "idle"]
          ELSE [phase |-> "unpaired"]]
  BY <1>1 DEF Opening!Relaunch, Decodes
<1>3. PICK x : x = IF Decodes(st) THEN [kept |-> st.kept, phase |-> "idle"]
                   ELSE [phase |-> "unpaired"]
  OBVIOUS
<1>4. UNCHANGED <<conn, table, admitted, wire, opened, wronged>>
  BY DEF Opening!Relaunch
<1>5. Hellos' = Hellos /\ Replies' = Replies
  BY <1>4 DEF Hellos, Replies
<1>6. Holds(kept, p)
  BY <1>1 DEF Opening!Relaunch, HelloInv, PhonesOK, PhoneOK
<1>7. PhoneOK(x, p)'
  <2>1. CASE Decodes(st)
    <3>1. Holds(st.kept, p)
      BY <1>2, <1>6, <2>1, DecodesWhole
    <3>2. x.phase = "idle" /\ x.kept = st.kept
      BY <1>3, <2>1
    <3> QED  BY <3>1, <3>2 DEF PhoneOK
  <2>2. CASE ~Decodes(st)
    BY <1>3, <2>2 DEF PhoneOK
  <2> QED  BY <2>1, <2>2
<1>8. PhonesOK'
  BY <1>2, <1>3, <1>4, <1>5, <1>7, PhoneMoves DEF HelloInv
<1>9. HellosOK'
  BY <1>4, <1>5, WritingStays DEF HelloInv
<1>10. TableOK'
  BY <1>4 DEF HelloInv, TableOK
<1>11. ConnOK' /\ AdmittedOK' /\ SessionsOK' /\ RepliesOK' /\ ~wronged'
  BY <1>4, <1>5, ControllerStays
<1> QED  BY <1>8, <1>9, <1>10, <1>11 DEF HelloInv

LEMMA CountsAlike == ASSUME NEW S PROVE Opening!Cardinality(S) = Cardinality(S)
BY DEF Opening!Cardinality, Cardinality

(* A phone writes its Hello under its own key, over what it was told       *)
(* (HelloPending::start).                                                  *)
LEMMA StartHelloStep ==
  ASSUME HelloInv, NEW p \in Phones, NEW speaks \in Speaks, NEW d,
         Opening!StartHello(p, speaks, d)
  PROVE  HelloInv'
<1>1. PICK req : req = Cardinality(Hellos) + 1
  OBVIOUS
<1>2. PICK kept : kept = phone[p].kept
  OBVIOUS
<1>3. PICK pi : pi = Opening!PrologueOf(d)
  OBVIOUS
<1>4. phone[p].phase = "idle"
  BY DEF Opening!StartHello
<1>5. Holds(kept, p)
  BY <1>2, <1>4 DEF HelloInv, PhonesOK, PhoneOK
<1>6. PICK g \in Gens : kept \in {Own(p, g), Opening!WithSlot(Own(p, g), p, g)}
  BY <1>5 DEF Holds
<1>7. PICK h : h = [phone |-> p, gen |-> g, req |-> req, prologue |-> pi, speaks |-> speaks]
  OBVIOUS
<1>8. h.phone = p /\ h.gen = g /\ h.req = req /\ h.prologue = pi /\ h.speaks = speaks
  BY <1>7
<1>9. kept.key = KeyOf(h) /\ kept.controller = IC /\ kept.device = Opening!Device
  BY <1>6, <1>8 DEF Own, Opening!Enrolment, Opening!WithSlot, KeyOf, IC
<1>10. EphOf(h) = Opening!Key("ephemeral", p, req) /\ OfferOf(h) = <<"offer", speaks>>
  BY <1>8 DEF EphOf, OfferOf
<1>11. pi[7] = d.handle
  BY <1>3 DEF Opening!PrologueOf, Opening!Prologue
<1>12. PICK o : o = [kind |-> "hello", req |-> req, handle |-> d.handle, suite |-> 1,
                     message |-> HelloIn(h),
                     admit |-> Opening!AdmitTag(Opening!AdmitKey(Opening!Device, KeyOf(h), IC),
                                                pi, HelloIn(h))]
  OBVIOUS
<1>13. PICK x : x = [kept |-> kept, phase |-> "pending", req |-> req, e |-> EphOf(h),
                     prologue |-> pi, speaks |-> speaks, handle |-> d.handle,
                     pending |-> BegunBy(h)]
  OBVIOUS
<1>14. /\ wire' = wire \cup {o}
       /\ phone' = [phone EXCEPT ![p] = x]
       /\ UNCHANGED <<conn, table, admitted, opened, wronged>>
  <2> DEFINE rq == Opening!Cardinality(Opening!Messages("hello")) + 1
             e  == Opening!Key("ephemeral", p, rq)
             kp == phone[p].kept
             pr == Opening!PrologueOf(d)
             of == <<"offer", speaks>>
             m  == Opening!HelloMessage(pr, kp.controller, kp.key, e, of)
             b  == Opening!HelloStarted(pr, kp.controller, kp.key, e, of)
             a  == Opening!AdmitTag(Opening!AdmitKeyOf(kp), pr, m)
  <2>1. /\ wire' = wire \cup {[kind |-> "hello", req |-> rq, handle |-> d.handle, suite |-> 1,
                               message |-> m, admit |-> a]}
        /\ phone' = [phone EXCEPT ![p] =
             [kept |-> kp, phase |-> "pending", req |-> rq, e |-> e, prologue |-> pr,
              speaks |-> speaks, handle |-> d.handle, pending |-> b]]
    BY DEF Opening!StartHello, Opening!RestoreWhy
  <2>2. rq = req /\ kp = kept /\ pr = pi
    BY <1>1, <1>2, <1>3, MessagesAre, CountsAlike
  <2>3. e = EphOf(h) /\ of = OfferOf(h)
    BY <1>10, <2>2
  <2>4. UNCHANGED <<conn, table, admitted, opened, wronged>>
    BY DEF Opening!StartHello
  <2>5. e = EphOf(h) /\ m = HelloIn(h) /\ b = BegunBy(h)
    <3> HIDE DEF rq, e, kp, pr, of
    <3> QED  BY <1>8, <1>9, <2>2, <2>3 DEF HelloIn, BegunBy
  <2>6. a = Opening!AdmitTag(Opening!AdmitKey(Opening!Device, KeyOf(h), IC), pi, HelloIn(h))
    <3> HIDE DEF m, kp, pr
    <3> QED  BY <1>9, <2>2, <2>5 DEF Opening!AdmitKeyOf
  <2> HIDE DEF rq, e, kp, pr, of, m, b, a
  <2> QED  BY <1>12, <1>13, <2>1, <2>2, <2>3, <2>4, <2>5, <2>6
<1>15. Written(o, h)
  BY <1>8, <1>11, <1>12 DEF Written
<1>16. o.kind = "hello" /\ o.req = req
  BY <1>12
<1>17. Hellos' = Hellos \cup {o} /\ Replies' = Replies
  BY <1>14, <1>16 DEF Hellos, Replies
<1>18. HellosOK'
  <2>1. IsFiniteSet(Hellos) /\ Cardinality(Hellos) \in Nat
    BY FS_CardinalityType DEF HelloInv, HellosOK
  <2>2. \A q \in Hellos : q.req \in 1 .. Cardinality(Hellos) /\ q.req # req
    BY <1>1, <2>1 DEF HelloInv, HellosOK
  <2>3. o \notin Hellos
    BY <1>16, <2>2
  <2>4. IsFiniteSet(Hellos') /\ Cardinality(Hellos') = Cardinality(Hellos) + 1
    BY <1>17, <2>1, <2>3, FS_AddElement
  <2>5. \A q \in Hellos' : q.req \in 1 .. Cardinality(Hellos')
    BY <1>1, <1>16, <1>17, <2>1, <2>2, <2>4
  <2>6. \A q \in Hellos' : \E k : Written(q, k)
    BY <1>15, <1>17 DEF HelloInv, HellosOK
  <2>7. \A q, r \in Hellos' : q.req = r.req => q = r
    BY <1>16, <1>17, <2>2 DEF HelloInv, HellosOK
  <2> QED  BY <2>4, <2>5, <2>6, <2>7 DEF HellosOK
<1>19. PhoneOK(x, p)'
  <2>1. Sent(h)'
    BY <1>15, <1>17 DEF Sent
  <2>2. Awaits(x, p)'
    <3>1. /\ h.phone = p /\ x.req = h.req /\ x.e = EphOf(h)
          /\ x.kept.key = KeyOf(h) /\ x.prologue = h.prologue /\ x.speaks = h.speaks
          /\ x.handle = h.prologue[7] /\ x.pending = BegunBy(h)
      BY <1>8, <1>9, <1>11, <1>13
    <3> QED  BY <2>1, <3>1 DEF Awaits
  <2>3. x.phase = "pending" /\ x.kept = kept
    BY <1>13
  <2> QED  BY <1>5, <2>2, <2>3 DEF PhoneOK
<1>20. PhonesOK'
  BY <1>14, <1>17, <1>19, PhoneMoves DEF HelloInv
<1>21. TableOK'
  BY <1>14 DEF HelloInv, TableOK
<1>22. ConnOK' /\ AdmittedOK' /\ SessionsOK' /\ RepliesOK' /\ ~wronged'
  BY <1>14, <1>17, ControllerStays
<1> QED  BY <1>18, <1>20, <1>21, <1>22 DEF HelloInv
-----------------------------------------------------------------------------
(* Admission. A tag says which key it was made under, over what.           *)
LEMMA AdmitTagsAlike ==
  ASSUME NEW k, NEW pi, NEW m, NEW l, NEW pj, NEW n,
         Opening!AdmitTag(k, pi, m) = Opening!AdmitTag(l, pj, n)
  PROVE  k = l /\ pi = pj /\ m = n
BY DEF Opening!AdmitTag, Opening!TagOver

LEMMA TagIsWhole ==
  ASSUME NEW k, NEW pi, NEW m
  PROVE  Opening!AdmitTag(k, pi, m) # Opening!CutTag
<1>1. Len(<<"hello-admit", k, <<pi, m>>>>) = 3 /\ Len(<<"cut">>) = 1
  OBVIOUS
<1> QED  BY <1>1 DEF Opening!AdmitTag, Opening!TagOver, Opening!CutTag

LEMMA AdmitKeysAlike ==
  ASSUME NEW a, NEW b, NEW c, NEW d, a # c,
         Opening!AdmitKey(d, a, c) = Opening!AdmitKey(d, c, b)
  PROVE  a = b
<1>1. Opening!Shared(a, c) = Opening!Shared(c, b)
  BY DEF Opening!AdmitKey, Opening!Derive
<1>2. {a, c} = {c, b}
  BY <1>1 DEF Opening!Shared
<1> QED  BY <1>2

LEMMA ClientsApart ==
  ASSUME NEW p, NEW g, NEW h
  PROVE  /\ KeyOf(h) # IC
         /\ KeyOf(h) = Opening!Key("client", p, g) => h.phone = p /\ h.gen = g
<1>1. "client" # "controller"
  OBVIOUS
<1> QED  BY <1>1 DEF KeyOf, IC, Opening!Controller, Opening!Key

(* A Hello that is admitted is as its phone wrote it, over this            *)
(* connection's Discover (HelloArrival::admit).                            *)
LEMMA TagSaysWho ==
  ASSUME HelloInv, NEW o \in Hellos, NEW seen \in Opening!Altered(o),
         NEW p \in Opening!Tagged(seen)
  PROVE  \E h : /\ Sent(h) /\ h.phone = p /\ seen.message = HelloIn(h)
                /\ seen.req = h.req /\ h.prologue = Opening!OwnPrologue
<1>1. PICK h : Written(o, h)
  BY DEF HelloInv, HellosOK
<1>2. PICK pi : pi = Opening!OwnPrologue
  OBVIOUS
<1>3. PICK row : row = table[p]
  OBVIOUS
<1>4. /\ p \in Phones
      /\ seen.admit # Opening!CutTag
      /\ seen.admit = Opening!AdmitTag(row.admit, pi, seen.message)
  BY <1>2, <1>3 DEF Opening!Tagged, Opening!Verify
<1>5. PICK g : row = Opening!Row(Opening!Key("client", p, g), g)
  BY <1>3, <1>4 DEF HelloInv, TableOK
<1>6. PICK key : key = Opening!Key("client", p, g)
  OBVIOUS
<1>7. row.admit = Opening!AdmitKey(Opening!Device, IC, key)
  BY <1>5, <1>6 DEF Opening!Row, IC
<1>8. PICK q \in Hellos : seen.admit = q.admit
  BY <1>1, <1>4, HelloSeen
<1>9. PICK k : Written(q, k)
  BY <1>8 DEF HelloInv, HellosOK
<1>10. seen.admit = Opening!AdmitTag(Opening!AdmitKey(Opening!Device, KeyOf(k), IC),
                                     k.prologue, HelloIn(k))
  BY <1>8, <1>9 DEF Written
<1>11. PICK a : a = Opening!AdmitKey(Opening!Device, KeyOf(k), IC)
  OBVIOUS
<1>12. PICK b : b = Opening!AdmitKey(Opening!Device, IC, key)
  OBVIOUS
<1>13. a = b /\ k.prologue = pi /\ HelloIn(k) = seen.message
  <2>1. PICK m, n, pk : m = HelloIn(k) /\ n = seen.message /\ pk = k.prologue
    OBVIOUS
  <2>2. Opening!AdmitTag(a, pk, m) = Opening!AdmitTag(b, pi, n)
    BY <1>4, <1>7, <1>10, <1>11, <1>12, <2>1
  <2> QED  BY <2>1, <2>2, AdmitTagsAlike
<1>14. KeyOf(k) = key
  <2>1. PICK c, d, e : c = KeyOf(k) /\ d = IC /\ e = Opening!Device
    OBVIOUS
  <2>2. c # d
    BY <2>1, ClientsApart
  <2>3. Opening!AdmitKey(e, c, d) = Opening!AdmitKey(e, d, key)
    BY <1>11, <1>12, <1>13, <2>1
  <2> QED  BY <2>1, <2>2, <2>3, AdmitKeysAlike
<1>15. k.phone = p
  BY <1>6, <1>14, ClientsApart
<1>16. HelloIn(k) = HelloIn(h)
  BY <1>1, <1>13, HelloSeen, TornIsNone
<1>17. seen.req = k.req
  <2>1. seen.req = h.req
    BY <1>1, HelloSeen
  <2> QED  BY <1>16, <2>1, HelloApart
<1>18. Sent(k)
  BY <1>8, <1>9 DEF Sent
<1> QED  BY <1>2, <1>13, <1>15, <1>17, <1>18

(* What stands as it was written is admitted, or its challenge is spent.   *)
LEMMA SoundIsTaken ==
  ASSUME HelloInv, NEW o \in Hellos, NEW m \in Opening!Altered(o), Opening!Sound(m)
  PROVE  m.suite \in Opening!Suites /\ m.admit # Opening!CutTag /\ Opening!Tagged(m) # {}
<1>1. PICK h : Written(o, h)
  BY DEF HelloInv, HellosOK
<1>2. m \in Hellos
  BY <1>1, HelloSeen DEF Opening!Sound, Hellos
<1>3. PICK k : Written(m, k)
  BY <1>2 DEF HelloInv, HellosOK
<1>4. m.suite = 1
  BY <1>3 DEF Written
<1>5. PICK p \in Phones : m.admit = Opening!AdmitTag(table[p].admit, Opening!OwnPrologue, m.message)
  BY DEF Opening!Sound
<1>6. PICK t : t = Opening!AdmitTag(table[p].admit, Opening!OwnPrologue, m.message)
  OBVIOUS
<1>7. t # Opening!CutTag
  <2>1. PICK a, b, c : a = table[p].admit /\ b = Opening!OwnPrologue /\ c = m.message
    OBVIOUS
  <2>2. t = Opening!AdmitTag(a, b, c)
    BY <1>6, <2>1
  <2> QED  BY <2>2, TagIsWhole
<1>8. p \in Opening!Tagged(m)
  BY <1>5, <1>6, <1>7 DEF Opening!Tagged, Opening!Verify
<1> QED  BY <1>4, <1>5, <1>6, <1>7, <1>8 DEF Opening!Suites

(* What an arrival may do: nothing, spend the challenge, or admit.         *)
LEMMA Arrival ==
  ASSUME HelloInv, NEW o \in Hellos, NEW m \in Opening!Altered(o), Opening!Arrive(m)
  PROVE  /\ UNCHANGED <<table, phone, wire, opened>> /\ admitted = Opening!Nobody /\ ~wronged'
         /\ \/ UNCHANGED <<conn, admitted>>
            \/ /\ conn.live /\ conn' = [conn EXCEPT !.live = FALSE]
               /\ \/ UNCHANGED admitted
                  \/ \E p \in Opening!Tagged(m) :
                       admitted' = [slot |-> p, hello |-> m] /\ m.suite = 1
<1>1. UNCHANGED <<table, phone, wire, opened>> /\ admitted = Opening!Nobody /\ ~wronged
  BY DEF Opening!Arrive, HelloInv
<1>2. Opening!Sound(m) =>
        m.suite \in Opening!Suites /\ m.admit # Opening!CutTag /\ Opening!Tagged(m) # {}
  BY SoundIsTaken
<1>3. CASE m.suite \notin Opening!Suites
  BY <1>1, <1>2, <1>3 DEF Opening!Arrive
<1>4. CASE m.suite \in Opening!Suites /\ ~conn.live
  BY <1>1, <1>4 DEF Opening!Arrive
<1>5. CASE m.suite \in Opening!Suites /\ conn.live /\ m.admit = Opening!CutTag
  BY <1>1, <1>2, <1>5 DEF Opening!Arrive
<1>6. CASE /\ m.suite \in Opening!Suites /\ conn.live /\ m.admit # Opening!CutTag
           /\ Opening!Tagged(m) = {}
  BY <1>1, <1>2, <1>6 DEF Opening!Arrive
<1>7. CASE /\ m.suite \in Opening!Suites /\ conn.live /\ m.admit # Opening!CutTag
           /\ Opening!Tagged(m) # {}
  <2>1. m.suite = 1
    BY <1>7 DEF Opening!Suites
  <2>2. (CHOOSE p \in Opening!Tagged(m) : TRUE) \in Opening!Tagged(m)
    BY <1>7
  <2> QED  BY <1>1, <1>7, <2>1, <2>2 DEF Opening!Arrive
<1> QED  BY <1>3, <1>4, <1>5, <1>6, <1>7

LEMMA ArriveStep ==
  ASSUME HelloInv, NEW o \in Hellos, NEW m \in Opening!Altered(o), Opening!Arrive(m)
  PROVE  HelloInv'
<1>1. /\ UNCHANGED <<table, phone, wire, opened>> /\ admitted = Opening!Nobody /\ ~wronged'
      /\ \/ UNCHANGED <<conn, admitted>>
         \/ /\ conn.live /\ conn' = [conn EXCEPT !.live = FALSE]
            /\ \/ UNCHANGED admitted
               \/ \E p \in Opening!Tagged(m) :
                    admitted' = [slot |-> p, hello |-> m] /\ m.suite = 1
  BY Arrival
<1>2. Hellos' = Hellos /\ Replies' = Replies
  BY <1>1 DEF Hellos, Replies
<1>3. HellosOK' /\ RepliesOK' /\ PhonesOK'
  BY <1>1, <1>2, WritingStays, PhonesStay DEF HelloInv
<1>4. TableOK'
  BY <1>1 DEF HelloInv, TableOK
<1>5. CASE UNCHANGED <<conn, admitted>>
  <2>1. UNCHANGED <<conn, admitted, opened>> /\ (wronged' => wronged)
    BY <1>1, <1>5
  <2>2. ConnOK' /\ AdmittedOK' /\ SessionsOK'
    BY <1>2, <2>1, ControllerStays
  <2> QED  BY <1>1, <1>3, <1>4, <2>2 DEF HelloInv
<1>6. CASE conn.live /\ conn' = [conn EXCEPT !.live = FALSE]
  <2>1. PICK a, b, c : conn = [handle |-> a, challenge |-> b, live |-> c]
                       /\ a \in Opening!Handles /\ b \in Nat
    BY DEF HelloInv, ConnOK
  <2>2. conn' = [handle |-> a, challenge |-> b, live |-> FALSE]
    BY <1>6, <2>1
  <2>3. /\ conn.handle = a /\ conn.challenge = b /\ conn.live
        /\ conn'.handle = a /\ conn'.challenge = b /\ ~conn'.live
    BY <1>6, <2>1, <2>2
  <2>4. ConnOK'
    BY <2>1, <2>2, <2>3 DEF ConnOK
  <2>5. Opening!OwnPrologue' = Opening!OwnPrologue
    BY <2>3 DEF Opening!OwnPrologue
  <2>6. SessionsOK'
    <3>1. ASSUME NEW s \in opened PROVE Past(s)'
      BY <2>3 DEF HelloInv, SessionsOK, Past
    <3>2. \A s, h, n : Backed(s, h, n) => Backed(s, h, n)'
      BY <1>1, <1>2, HelloStays
    <3> QED  BY <1>1, <3>1, <3>2 DEF HelloInv, SessionsOK
  <2>7. AdmittedOK'
    <3>1. CASE UNCHANGED admitted
      BY <1>1, <3>1 DEF AdmittedOK
    <3>2. ASSUME NEW p \in Opening!Tagged(m),
                 admitted' = [slot |-> p, hello |-> m] /\ m.suite = 1
          PROVE  AdmittedOK'
      <4>1. PICK h : /\ Sent(h) /\ h.phone = p /\ m.message = HelloIn(h)
                     /\ m.req = h.req /\ h.prologue = Opening!OwnPrologue
        BY TagSaysWho
      <4>2. Sent(h)'
        BY <1>1, <1>2, <4>1, HelloStays
      <4>3. Admitted(admitted', h)
        BY <3>2, <4>1 DEF Admitted
      <4>4. h.prologue = Opening!OwnPrologue'
        BY <2>5, <4>1
      <4> QED  BY <2>3, <4>2, <4>3, <4>4 DEF AdmittedOK
    <3> QED  BY <1>1, <1>6, <3>1, <3>2
  <2> QED  BY <1>1, <1>3, <1>4, <2>4, <2>6, <2>7 DEF HelloInv
<1> QED  BY <1>1, <1>5, <1>6
-----------------------------------------------------------------------------
(* The proof. What was admitted proves itself, and is answered unless the  *)
(* slot holds another key by now or the majors differ (Admitted::prove).   *)
LEMMA ProvesItself ==
  ASSUME NEW h, NEW pi, pi = Opening!OwnPrologue, NEW m,
         m.message = HelloIn(h), h.prologue = pi
  PROVE  /\ Opening!Going(Opening!Claim(m)) /\ Opening!Proof(m) = BegunBy(h)
         /\ Opening!Going(Opening!Proof(m))
         /\ m.message[1] = EphOf(h) /\ m.message[2].plain = KeyOf(h)
         /\ m.message[3].plain = OfferOf(h)
<1>1. PICK c : c = Opening!ReadClaim(pi, IC, m.message)
  OBVIOUS
<1>2. PICK p : p = Opening!Prove(c, IC, m.message)
  OBVIOUS
<1>3. Opening!Going(c) /\ p = BegunBy(h) /\ Opening!Going(p)
  BY <1>1, <1>2, HelloOpens
<1>4. Opening!Claim(m) = c
  BY <1>1 DEF Opening!Claim, IC
<1>5. Opening!Proof(m) = p
  BY <1>2, <1>4 DEF Opening!Proof, IC
<1>6. /\ m.message[1] = EphOf(h) /\ m.message[2].plain = KeyOf(h)
      /\ m.message[3].plain = OfferOf(h)
  BY HelloSays
<1> QED  BY <1>3, <1>4, <1>5, <1>6

Proves(m, row) == Opening!ProveWhy(m, row) = ""

LEMMA ProveSays ==
  ASSUME NEW h, NEW m, NEW row, m.suite = row.suite,
         Opening!Going(Opening!Claim(m)), Opening!Going(Opening!Proof(m)),
         m.message[2].plain = KeyOf(h), m.message[3].plain = OfferOf(h)
  PROVE  Proves(m, row) <=> KeyOf(h) = row.key /\ Opening!SameMajor(Version, h.speaks)
<1>1. OfferOf(h)[2] = h.speaks
  BY DEF OfferOf
<1> QED  BY <1>1 DEF Proves, Opening!ProveWhy

(* A session that is opened is a new one.                                  *)
LEMMA OpeningSession ==
  ASSUME HelloInv, NEW h, Sent(h), h.prologue = Opening!OwnPrologue,
         ~conn.live, admitted # Opening!Nobody, admitted' = Opening!Nobody,
         NEW n, NEW s, Session(s, h, n), opened' = opened \cup {s}, NEW r, Answers(r, h, n),
         wire' = wire \cup {r},
         UNCHANGED <<conn, table, phone>>, ~wronged'
  PROVE  HelloInv'
<1>1. r.kind = "reply"
  BY DEF Answers
<1>2. Hellos' = Hellos /\ Replies' = Replies \cup {r}
  BY <1>1 DEF Hellos, Replies
<1>3. \A t, k, i : Backed(t, k, i) => Backed(t, k, i)'
  BY <1>2, HelloStays
<1>4. Backed(s, h, n)'
  BY <1>2 DEF Backed, Sent
<1>5. /\ conn.challenge \in Nat /\ h.prologue[6] = conn.challenge
      /\ s.prologue = h.prologue
  BY DEF HelloInv, ConnOK, Opening!OwnPrologue, Opening!Prologue, Session
<1>6. SessionsOK'
  <2>1. ASSUME NEW t \in opened PROVE Past(t)' /\ t.prologue[6] # conn.challenge
    BY DEF HelloInv, SessionsOK, Past
  <2>2. Past(s)'
    BY <1>5 DEF Past
  <2>3. \A t \in opened : t.prologue # s.prologue
    BY <1>5, <2>1
  <2>4. \A t \in opened' : Past(t)'
    BY <2>1, <2>2
  <2>5. \A t \in opened' : \E k, i : Backed(t, k, i)'
    BY <1>3, <1>4 DEF HelloInv, SessionsOK
  <2>6. \A t, u \in opened' : t.prologue = u.prologue => t = u
    BY <2>3 DEF HelloInv, SessionsOK
  <2> QED  BY <2>4, <2>5, <2>6 DEF SessionsOK
<1>7. RepliesOK'
  <2>1. ASSUME NEW q \in Replies PROVE \E t \in opened' : \E k, i : Backed(t, k, i)' /\ Answers(q, k, i)
    BY <1>3 DEF HelloInv, RepliesOK
  <2>2. \E t \in opened' : \E k, i : Backed(t, k, i)' /\ Answers(r, k, i)
    BY <1>4
  <2> QED  BY <1>2, <2>1, <2>2 DEF RepliesOK
<1>8. HellosOK'
  BY <1>2 DEF HelloInv, HellosOK
<1>9. PhonesOK'
  BY <1>2, PhonesStay DEF HelloInv
<1>10. ConnOK' /\ TableOK' /\ AdmittedOK'
  BY DEF HelloInv, ConnOK, TableOK, AdmittedOK
<1> QED  BY <1>6, <1>7, <1>8, <1>9, <1>10 DEF HelloInv

LEMMA ProveAndReplyStep ==
  ASSUME HelloInv, Opening!ProveAndReply
  PROVE  HelloInv'
<1>1. /\ admitted # Opening!Nobody /\ admitted' = Opening!Nobody
      /\ UNCHANGED <<conn, table, phone>>
  BY DEF Opening!ProveAndReply
<1>2. /\ ~conn.live
      /\ \E h : Sent(h) /\ Admitted(admitted, h) /\ h.prologue = Opening!OwnPrologue
  BY <1>1 DEF HelloInv, AdmittedOK
<1>3. PICK h : Sent(h) /\ Admitted(admitted, h) /\ h.prologue = Opening!OwnPrologue
  BY <1>2
<1>4. PICK m : m = admitted.hello
  OBVIOUS
<1>5. PICK slot : slot = admitted.slot
  OBVIOUS
<1>6. /\ slot = h.phone /\ m.message = HelloIn(h) /\ m.req = h.req /\ m.suite = 1
      /\ h.phone \in Phones
  BY <1>3, <1>4, <1>5 DEF Admitted, Sent, Written
<1>7. PICK row : row = table[slot]
  OBVIOUS
<1>8. PICK g : g \in Gens /\ row = Opening!Row(Opening!Key("client", slot, g), g)
  BY <1>6, <1>7 DEF HelloInv, TableOK
<1>9. row.key = Opening!Key("client", slot, g) /\ row.gen = g /\ row.suite = 1
  BY <1>8 DEF Opening!Row
<1>10. /\ Opening!Going(Opening!Claim(m)) /\ Opening!Proof(m) = BegunBy(h)
       /\ Opening!Going(Opening!Proof(m))
       /\ m.message[1] = EphOf(h) /\ m.message[2].plain = KeyOf(h)
       /\ m.message[3].plain = OfferOf(h)
  BY <1>3, <1>6, ProvesItself
<1>11. Proves(m, row) <=> KeyOf(h) = row.key /\ Opening!SameMajor(Version, h.speaks)
  BY <1>6, <1>9, <1>10, ProveSays
<1>12. PICK pi : pi = Opening!OwnPrologue
  OBVIOUS
<1>13. pi[7] = conn.handle /\ conn.handle \in Opening!Handles
  BY <1>12 DEF Opening!OwnPrologue, Opening!Prologue, HelloInv, ConnOK
<1>14. OfferOf(h)[2] = h.speaks
  BY DEF OfferOf
<1>15. Opening!Sound(m) => Proves(m, row)
  <2> SUFFICES ASSUME Opening!Sound(m) PROVE Proves(m, row)
    OBVIOUS
  <2>1. PICK p \in Phones : /\ m.message[2].plain = table[p].key
                            /\ Opening!SameMajor(m.message[3].plain[2], Version)
    BY DEF Opening!Sound
  <2>2. PICK f : table[p] = Opening!Row(Opening!Key("client", p, f), f)
    BY DEF HelloInv, TableOK
  <2>3. KeyOf(h) = Opening!Key("client", p, f)
    BY <1>10, <2>1, <2>2 DEF Opening!Row
  <2>4. p = slot
    BY <1>6, <2>3, ClientsApart
  <2>5. Opening!SameMajor(Version, h.speaks)
    BY <1>10, <1>14, <2>1 DEF Opening!SameMajor
  <2> QED  BY <1>7, <1>10, <1>11, <2>1, <2>4, <2>5
<1>16. ~wronged'
  BY <1>4, <1>5, <1>7, <1>15 DEF Opening!ProveAndReply, HelloInv, Proves
<1>17. CASE ~Proves(m, row)
  <2>1. UNCHANGED <<wire, opened>>
    BY <1>4, <1>5, <1>7, <1>17 DEF Opening!ProveAndReply, Proves
  <2>2. Hellos' = Hellos /\ Replies' = Replies
    BY <2>1 DEF Hellos, Replies
  <2>3. HellosOK' /\ RepliesOK' /\ PhonesOK'
    BY <1>1, <2>1, <2>2, WritingStays, PhonesStay DEF HelloInv
  <2>4. ConnOK' /\ TableOK' /\ AdmittedOK'
    BY <1>1 DEF HelloInv, ConnOK, TableOK, AdmittedOK
  <2>5. SessionsOK'
    <3>1. ASSUME NEW s \in opened PROVE Past(s)'
      BY <1>1 DEF HelloInv, SessionsOK, Past
    <3>2. \A s, k, n : Backed(s, k, n) => Backed(s, k, n)'
      BY <2>1, <2>2, HelloStays
    <3> QED  BY <2>1, <3>1, <3>2 DEF HelloInv, SessionsOK
  <2> QED  BY <1>16, <2>3, <2>4, <2>5 DEF HelloInv
<1>18. CASE Proves(m, row)
  <2>1. PICK n : n = Opening!Cardinality(opened) + 1
    OBVIOUS
  <2>2. h.gen = g /\ KeyOf(h) = row.key /\ Opening!SameMajor(Version, h.speaks)
    BY <1>9, <1>11, <1>18, ClientsApart
  <2>3. PICK report : report = <<"report", Version, conn.handle, slot, row.gen>>
    OBVIOUS
  <2>4. report = ReportOf(h)
    BY <1>3, <1>6, <1>9, <1>12, <1>13, <2>2, <2>3 DEF ReportOf
  <2>5. PICK r : r = [kind |-> "reply", req |-> m.req, handle |-> m.handle,
                      message |-> Opening!HelloReply(Opening!Proof(m), Opening!Fresh(n),
                                                     m.message[1], row.key, report)]
    OBVIOUS
  <2>6. PICK s : s = [channel |-> Opening!ForResponder(Opening!Split(
                        Opening!HelloReplied(Opening!Proof(m), Opening!Fresh(n),
                                             m.message[1], row.key, report))),
                      slot |-> slot, gen |-> row.gen, key |-> row.key, e |-> m.message[1],
                      prologue |-> Opening!OwnPrologue, handle |-> conn.handle,
                      version |-> Opening!Agreed(Version, m.message[3].plain[2])]
    OBVIOUS
  <2>7. wire' = wire \cup {r}
    BY <1>4, <1>5, <1>7, <1>18, <2>1, <2>3, <2>5 DEF Opening!ProveAndReply, Proves
  <2>8. opened' = opened \cup {s}
    BY <1>4, <1>5, <1>7, <1>18, <2>1, <2>3, <2>6 DEF Opening!ProveAndReply, Proves
  <2>9. Answers(r, h, n)
    BY <1>6, <1>10, <2>2, <2>4, <2>5 DEF Answers, ReplyTo
  <2>10. Session(s, h, n)
    BY <1>3, <1>6, <1>9, <1>10, <1>12, <1>13, <1>14, <2>2, <2>4, <2>6 DEF Session, OpenedBy
  <2> QED  BY <1>1, <1>2, <1>3, <1>16, <2>7, <2>8, <2>9, <2>10, OpeningSession
<1> QED  BY <1>17, <1>18

(* The phone's end.                                                        *)
Finishes(p, r) == Opening!FinishWhy(p, r) = ""

LEMMA FinishSays ==
  ASSUME NEW p, NEW r, NEW ph, ph = phone[p]
  PROVE  Finishes(p, r) <=>
           /\ r.req = ph.req /\ r.handle # 0
           /\ Opening!Going(Opening!HelloReadReply(ph.pending, ph.e, ph.kept.key, r.message))
           /\ r.message[2].plain[3] = r.handle
           /\ Opening!SameMajor(ph.speaks, r.message[2].plain[2])
BY DEF Finishes, Opening!FinishWhy, Opening!Going

LEMMA ReplyHas ==
  ASSUME NEW h, NEW n
  PROVE  \E x : /\ ReplyTo(h, n) = <<Opening!Fresh(n), x>> /\ x.plain = ReportOf(h)
                /\ x = Opening!Sealed(AnswersTo(h, Opening!Fresh(n)), ReportOf(h))
<1>1. PICK s : s = AnswersTo(h, Opening!Fresh(n))
  OBVIOUS
<1>2. PICK o : o = ReportOf(h)
  OBVIOUS
<1>3. PICK x : x = Opening!Sealed(s, o)
  OBVIOUS
<1>4. x.plain = o
  BY <1>3 DEF Opening!Sealed
<1>5. PICK f : f = Opening!Fresh(n)
  OBVIOUS
<1>6. ReplyTo(h, n) = <<f, x>>
  BY <1>1, <1>2, <1>3, <1>5, ReplyIs DEF ReplyTo
<1> QED  BY <1>1, <1>2, <1>3, <1>4, <1>5, <1>6

LEMMA MinorsAgree ==
  ASSUME NEW v \in Nat \X Nat, NEW w \in Nat \X Nat, Opening!SameMajor(v, w)
  PROVE  Opening!Agreed(v, w) = Opening!Agreed(w, v)
BY DEF Opening!SameMajor, Opening!Major, Opening!Agreed

(* A reply that a phone finishes on is the controller's to its own Hello   *)
(* (HelloPending::finish).                                                 *)
LEMMA FinishesOnItsOwn ==
  ASSUME HelloInv, NEW k, Sent(k), NEW r \in Replies, NEW seen \in Opening!AlteredReply(r),
         Opening!Going(Opening!HelloReadReply(BegunBy(k), EphOf(k), KeyOf(k), seen.message))
  PROVE  \E s \in opened : \E n :
           /\ Session(s, k, n) /\ seen.message = ReplyTo(k, n)
           /\ seen.message[2].plain = ReportOf(k)
           /\ Opening!HelloReadReply(BegunBy(k), EphOf(k), KeyOf(k), seen.message) = OpenedBy(k, n)
<1>1. PICK s \in opened : \E h, n : Backed(s, h, n) /\ Answers(r, h, n)
  BY DEF HelloInv, RepliesOK
<1>2. PICK h, n : Backed(s, h, n) /\ Answers(r, h, n)
  BY <1>1
<1>3. PICK x : /\ ReplyTo(h, n) = <<Opening!Fresh(n), x>> /\ x.plain = ReportOf(h)
               /\ x = Opening!Sealed(AnswersTo(h, Opening!Fresh(n)), ReportOf(h))
  BY ReplyHas
<1>4. PICK f : f = Opening!Fresh(n)
  OBVIOUS
<1>5. PICK rq, hd : r = [kind |-> "reply", req |-> rq, handle |-> hd, message |-> <<f, x>>]
  BY <1>2, <1>3, <1>4 DEF Answers
<1>6. \/ Opening!Cut(seen.message, 2)
      \/ seen.message = <<f, x>>
      \/ seen.message = <<Opening!LowOrder, x>>
  BY <1>5, ReplySeen
<1>7. ~Opening!Cut(seen.message, 2)
  <2>1. PICK b : b = BegunBy(k)
    OBVIOUS
  <2>2. Shaped(b) /\ Opening!Going(b)
    BY <2>1, HelloStartedIs, HelloKeysAgree DEF BegunBy
  <2>3. ~Opening!Going(Opening!Refused(b, "Truncated"))
    BY <2>2 DEF Opening!Going, Opening!Refused, Shaped
  <2> QED  BY <2>1, <2>3 DEF Opening!HelloReadReply
<1>8. PICK e : seen.message = <<e, x>>
  BY <1>6, <1>7
<1>9. EphOf(k) = EphOf(h) /\ e = f
  <2>1. PICK report : report = ReportOf(h)
    OBVIOUS
  <2>2. x = Opening!Sealed(AnswersTo(h, Opening!Fresh(n)), report)
    BY <1>3, <2>1
  <2>3. Opening!Going(Opening!HelloReadReply(BegunBy(k), EphOf(k), KeyOf(k),
          <<e, Opening!Sealed(AnswersTo(h, Opening!Fresh(n)), report)>>))
    BY <1>8, <2>2
  <2> QED  BY <1>4, <2>3, HelloReplyRead
<1>10. k.req = h.req
  BY <1>9 DEF EphOf, Opening!Key
<1>11. Sent(h) /\ Session(s, h, n)
  BY <1>2 DEF Backed
<1>12. /\ k.phone = h.phone /\ k.gen = h.gen /\ k.req = h.req
       /\ k.prologue = h.prologue /\ k.speaks = h.speaks
  BY <1>10, <1>11, SentOnce DEF HelloInv
<1>13. /\ KeyOf(k) = KeyOf(h) /\ EphOf(k) = EphOf(h) /\ BegunBy(k) = BegunBy(h)
       /\ ReportOf(k) = ReportOf(h) /\ OpenedBy(k, n) = OpenedBy(h, n)
       /\ ReplyTo(k, n) = ReplyTo(h, n)
  BY <1>12, SameHello
<1>14. Session(s, k, n)
  BY <1>11, <1>12, <1>13 DEF Session
<1>15. seen.message = ReplyTo(k, n)
  BY <1>3, <1>4, <1>8, <1>9, <1>13
<1>16. seen.message[2].plain = ReportOf(k)
  BY <1>3, <1>8, <1>13
<1>17. Opening!HelloReadReply(BegunBy(k), EphOf(k), KeyOf(k), seen.message) = OpenedBy(k, n)
  <2>1. PICK report : report = ReportOf(k)
    OBVIOUS
  <2>2. seen.message = Opening!HelloReply(BegunBy(k), Opening!Fresh(n), EphOf(k), KeyOf(k), report)
    BY <1>15, <2>1 DEF ReplyTo
  <2>3. OpenedBy(k, n) = Opening!HelloReplied(BegunBy(k), Opening!Fresh(n), EphOf(k), KeyOf(k), report)
    BY <2>1 DEF OpenedBy
  <2> QED  BY <2>2, <2>3, HelloReplyOpens
<1> QED  BY <1>14, <1>15, <1>16, <1>17

LEMMA FinishStep ==
  ASSUME HelloInv, NEW p \in Phones, NEW r \in Replies, NEW seen \in Opening!AlteredReply(r),
         Opening!Finish(p, seen)
  PROVE  HelloInv'
<1>1. PICK ph : ph = phone[p]
  OBVIOUS
<1>2. ph.phase = "pending"
  BY <1>1 DEF Opening!Finish
<1>3. Holds(ph.kept, p) /\ Awaits(ph, p)
  BY <1>1, <1>2 DEF HelloInv, PhonesOK, PhoneOK
<1>4. PICK report : report = seen.message[2].plain
  OBVIOUS
<1>5. PICK st : st = Opening!HelloReadReply(ph.pending, ph.e, ph.kept.key, seen.message)
  OBVIOUS
<1>6. PICK idle : idle = [kept |-> ph.kept, phase |-> "idle"]
  OBVIOUS
<1>7. PICK open : open = [kept |-> Opening!WithSlot(ph.kept, report[4], report[5]), phase |-> "open",
             channel |-> Opening!ForInitiator(Opening!Split(st)),
             version |-> Opening!Agreed(ph.speaks, report[2]),
             handle |-> seen.handle, prologue |-> ph.prologue, speaks |-> ph.speaks]
  OBVIOUS
<1>8. /\ phone' = [phone EXCEPT ![p] = IF Finishes(p, seen) THEN open ELSE idle]
      /\ UNCHANGED <<conn, table, admitted, wire, opened, wronged>>
  BY <1>1, <1>4, <1>5, <1>6, <1>7 DEF Opening!Finish, Finishes
<1>9. PICK x : x = IF Finishes(p, seen) THEN open ELSE idle
  OBVIOUS
<1>10. Hellos' = Hellos /\ Replies' = Replies
  BY <1>8 DEF Hellos, Replies
<1>11. PhoneOK(x, p)'
  <2>1. CASE ~Finishes(p, seen)
    <3>1. x.phase = "idle" /\ x.kept = ph.kept
      BY <1>6, <1>9, <2>1
    <3> QED  BY <1>3, <3>1 DEF PhoneOK
  <2>2. CASE Finishes(p, seen)
    <3>1. PICK k : /\ Sent(k) /\ k.phone = p /\ ph.req = k.req /\ ph.e = EphOf(k)
                   /\ ph.kept.key = KeyOf(k) /\ ph.prologue = k.prologue /\ ph.speaks = k.speaks
                   /\ ph.handle = k.prologue[7] /\ ph.pending = BegunBy(k)
      BY <1>3 DEF Awaits
    <3>2. /\ Opening!Going(st) /\ report[3] = seen.handle
          /\ Opening!SameMajor(ph.speaks, report[2])
      BY <1>1, <1>4, <1>5, <2>2, FinishSays
    <3>3. st = Opening!HelloReadReply(BegunBy(k), EphOf(k), KeyOf(k), seen.message)
      BY <1>5, <3>1
    <3>4. PICK s \in opened : \E n :
            /\ Session(s, k, n) /\ report = ReportOf(k) /\ st = OpenedBy(k, n)
      BY <1>4, <3>1, <3>2, <3>3, FinishesOnItsOwn
    <3>5. PICK n : Session(s, k, n) /\ report = ReportOf(k) /\ st = OpenedBy(k, n)
      BY <3>4
    <3>6. /\ report[2] = Version /\ report[3] = k.prologue[7] /\ report[4] = k.phone
          /\ report[5] = k.gen
      BY <3>5 DEF ReportOf
    <3>7. PICK g \in Gens : ph.kept \in {Own(p, g), Opening!WithSlot(Own(p, g), p, g)}
      BY <1>3 DEF Holds
    <3>8. g = k.gen
      <4>1. KeyOf(k) = Opening!Key("client", p, g)
        BY <3>1, <3>7 DEF Own, Opening!Enrolment, Opening!WithSlot
      <4> QED  BY <4>1, ClientsApart
    <3>9. PICK kept : kept = Opening!WithSlot(ph.kept, p, g)
      OBVIOUS
    <3>10. /\ kept = Opening!WithSlot(Own(p, g), p, g)
           /\ kept.key = KeyOf(k) /\ kept.slot = <<p, g>>
      BY <3>1, <3>7, <3>9 DEF Own, Opening!Enrolment, Opening!WithSlot
    <3>11. Holds(kept, p)
      BY <3>10 DEF Holds
    <3>12. /\ x.phase = "open" /\ x.kept = kept
           /\ x.channel = Opening!ForInitiator(Opening!Split(st))
           /\ x.version = Opening!Agreed(k.speaks, Version) /\ x.handle = k.prologue[7]
           /\ x.prologue = k.prologue /\ x.speaks = k.speaks
      BY <1>7, <1>9, <2>2, <3>1, <3>2, <3>6, <3>8, <3>9
    <3>13. Opening!Agreed(k.speaks, Version) = Opening!Agreed(Version, k.speaks)
      <4>1. k.speaks \in Nat \X Nat /\ Version \in Nat \X Nat
        BY <3>1, VersionsAssumption DEF Sent, Written
      <4>2. PICK v, w : v = k.speaks /\ w = Version
        OBVIOUS
      <4>3. Opening!SameMajor(v, w)
        BY <3>1, <3>2, <3>6, <4>2
      <4> QED  BY <4>1, <4>2, <4>3, MinorsAgree
    <3>14. s.channel = [send |-> x.channel.receive, receive |-> x.channel.send]
      BY <3>5, <3>12 DEF Session, Opening!ForInitiator, Opening!ForResponder
    <3>15. Shares(x, p, s)
      BY <3>1, <3>5, <3>8, <3>10, <3>12, <3>13, <3>14 DEF Shares, Session
    <3> QED  BY <1>8, <3>11, <3>12, <3>15 DEF PhoneOK
  <2> QED  BY <2>1, <2>2
<1>12. PhonesOK'
  BY <1>8, <1>9, <1>10, <1>11, PhoneMoves DEF HelloInv
<1>13. HellosOK'
  BY <1>8, <1>10, WritingStays DEF HelloInv
<1>14. TableOK'
  BY <1>8 DEF HelloInv, TableOK
<1>15. ConnOK' /\ AdmittedOK' /\ SessionsOK' /\ RepliesOK' /\ ~wronged'
  BY <1>8, <1>10, ControllerStays
<1> QED  BY <1>12, <1>13, <1>14, <1>15 DEF HelloInv

LEMMA HelloKept == HelloInv /\ [Next]_vars => HelloInv'
<1> SUFFICES ASSUME HelloInv, [Next]_vars PROVE HelloInv'
  OBVIOUS
<1>1. CASE UNCHANGED opening
  <2>1. UNCHANGED <<conn, table, admitted, phone, wire, opened, wronged>>
    BY <1>1 DEF opening
  <2>2. Hellos' = Hellos /\ Replies' = Replies
    BY <2>1 DEF Hellos, Replies
  <2>3. HellosOK' /\ PhonesOK' /\ TableOK'
    BY <2>1, <2>2, WritingStays, PhonesStay DEF HelloInv, TableOK
  <2>4. ConnOK' /\ AdmittedOK' /\ SessionsOK' /\ RepliesOK' /\ ~wronged'
    BY <2>1, <2>2, ControllerStays
  <2> QED  BY <2>3, <2>4 DEF HelloInv
<1>2. CASE Opening!Next
  <2>1. ASSUME NEW handle \in Opening!Handles, Opening!Connect(handle) PROVE HelloInv'
    BY <2>1, ConnectStep
  <2>2. CASE Opening!Discover
    BY <2>2, DiscoverStep
  <2>3. ASSUME NEW p \in Phones, Opening!Rekey(p) \/ Opening!Relaunch(p) PROVE HelloInv'
    BY <2>3, RekeyStep, RelaunchStep
  <2>4. ASSUME NEW p \in Phones, NEW speaks \in Speaks, NEW d, Opening!StartHello(p, speaks, d)
        PROVE  HelloInv'
    BY <2>4, StartHelloStep
  <2>5. ASSUME NEW m \in Hellos, NEW seen \in Opening!Altered(m), Opening!Arrive(seen)
        PROVE  HelloInv'
    BY <2>5, ArriveStep
  <2>6. CASE Opening!ProveAndReply
    BY <2>6, ProveAndReplyStep
  <2>7. ASSUME NEW p \in Phones, NEW r \in Replies, NEW seen \in Opening!AlteredReply(r),
               Opening!Finish(p, seen)
        PROVE  HelloInv'
    BY <2>7, FinishStep
  <2> QED  BY <1>2, <2>1, <2>2, <2>3, <2>4, <2>5, <2>6, <2>7, MessagesAre DEF Opening!Next
<1> QED  BY <1>1, <1>2 DEF Next, vars, opening

LEMMA HelloAgrees == HelloInv => SessionAgreed
<1> SUFFICES ASSUME HelloInv PROVE SessionAgreed
  OBVIOUS
<1>1. ASSUME NEW p \in Phones, phone[p].phase = "open"
      PROVE  \E s \in opened :
         /\ s.channel = [send |-> phone[p].channel.receive, receive |-> phone[p].channel.send]
         /\ s.key = phone[p].kept.key /\ s.slot = p
         /\ phone[p].kept.slot = <<s.slot, s.gen>>
         /\ s.prologue = phone[p].prologue /\ s.handle = phone[p].handle
         /\ s.version = phone[p].version /\ s.version = Opening!Agreed(Version, phone[p].speaks)
  <2>1. PICK ph : ph = phone[p] /\ PhoneOK(ph, p)
    BY DEF HelloInv, PhonesOK
  <2>2. PICK s \in opened : Shares(ph, p, s)
    BY <1>1, <2>1 DEF PhoneOK
  <2>3. /\ s.channel = [send |-> ph.channel.receive, receive |-> ph.channel.send]
        /\ s.key = ph.kept.key /\ s.slot = p /\ ph.kept.slot = <<s.slot, s.gen>>
        /\ s.prologue = ph.prologue /\ s.handle = ph.handle
        /\ s.version = ph.version /\ s.version = Opening!Agreed(Version, ph.speaks)
    BY <2>2 DEF Shares
  <2> QED  BY <2>1, <2>3
<1>2. ASSUME NEW s \in opened
      PROVE  \E m \in Opening!Messages("hello") :
         /\ m.message[1] = s.e
         /\ m.message[2].plain = s.key
         /\ m.admit = Opening!AdmitTag(Opening!AdmitKey(Opening!Device, s.key, Opening!Controller),
                                       s.prologue, m.message)
  <2>1. PICK h, n : Sent(h) /\ Session(s, h, n)
    BY DEF HelloInv, SessionsOK, Backed
  <2>2. PICK m \in Hellos : Written(m, h)
    BY <2>1 DEF Sent
  <2>3. /\ m.message = HelloIn(h)
        /\ m.admit = Opening!AdmitTag(Opening!AdmitKey(Opening!Device, KeyOf(h), IC), h.prologue,
                                      m.message)
    BY <2>2 DEF Written
  <2>4. m.message[1] = EphOf(h) /\ m.message[2].plain = KeyOf(h)
    BY <2>3, HelloSays
  <2>5. s.e = EphOf(h) /\ s.key = KeyOf(h) /\ s.prologue = h.prologue
    BY <2>1 DEF Session
  <2> QED  BY <2>2, <2>3, <2>4, <2>5, MessagesAre DEF IC
<1>3. ASSUME NEW s \in opened, NEW t \in opened, s.e = t.e \/ s.prologue = t.prologue
      PROVE  s = t
  <2>1. CASE s.prologue = t.prologue
    BY <2>1 DEF HelloInv, SessionsOK
  <2>2. CASE s.e = t.e
    <3>1. PICK h, n : Sent(h) /\ Session(s, h, n)
      BY DEF HelloInv, SessionsOK, Backed
    <3>2. PICK k, i : Sent(k) /\ Session(t, k, i)
      BY DEF HelloInv, SessionsOK, Backed
    <3>3. EphOf(h) = EphOf(k) /\ s.prologue = h.prologue /\ t.prologue = k.prologue
      BY <2>2, <3>1, <3>2 DEF Session
    <3>4. h.req = k.req
      BY <3>3 DEF EphOf, Opening!Key
    <3>5. h.prologue = k.prologue
      BY <3>1, <3>2, <3>4, SentOnce DEF HelloInv
    <3> QED  BY <2>1, <3>3, <3>5
  <2> QED  BY <1>3, <2>1, <2>2
<1>4. ASSUME NEW p \in Phones, phone[p].phase # "unpaired"
      PROVE  \E gen \in 1 .. (MaxRekeys + 1) :
               phone[p].kept \in {Own(p, gen), Opening!WithSlot(Own(p, gen), p, gen)}
  BY <1>4 DEF HelloInv, PhonesOK, PhoneOK, Holds, Gens
<1> QED  BY <1>1, <1>2, <1>3, <1>4 DEF SessionAgreed, Opening!SessionAgreed, Own

(* What a phone has open the controller opened, the same keys the other    *)
(* way round, for that phone's key and slot over one Discover; it opens    *)
(* only what a Hello asked for, once; and what a phone keeps is its own    *)
(* enrolment (HelloPending::finish, HelloArrival::admit, Admitted::prove,  *)
(* StoredEnrolment::decode): whatever was altered, repeated or crossed,    *)
(* for any number of phones, connections, Hellos and re-keyings.           *)
THEOREM SessionsAreShared == HandshakesSpec => []SessionAgreed
<1>1. Init => HelloInv
  BY HelloInit DEF Init
<1> QED  BY <1>1, HelloKept, HelloAgrees, PTL DEF HandshakesSpec

LEMMA HelloSound == HelloInv => SoundHelloOpens
<1> SUFFICES ASSUME HelloInv PROVE SoundHelloOpens
  OBVIOUS
<1>1. ASSUME NEW p \in Phones, NEW r \in Replies,
             phone[p].phase = "pending", r.req = phone[p].req, r.handle = phone[p].handle
      PROVE  Finishes(p, r)
  <2>1. PICK ph : ph = phone[p]
    OBVIOUS
  <2>2. PICK k : /\ Sent(k) /\ k.phone = p /\ ph.req = k.req /\ ph.e = EphOf(k)
                 /\ ph.kept.key = KeyOf(k) /\ ph.speaks = k.speaks
                 /\ ph.handle = k.prologue[7] /\ ph.pending = BegunBy(k)
    BY <1>1, <2>1 DEF HelloInv, PhonesOK, PhoneOK, Awaits
  <2>3. PICK s \in opened : \E h, n : Backed(s, h, n) /\ Answers(r, h, n)
    BY DEF HelloInv, RepliesOK
  <2>4. PICK h, n : Sent(h) /\ Session(s, h, n) /\ Answers(r, h, n)
    BY <2>3 DEF Backed
  <2>5. r.req = h.req /\ r.message = ReplyTo(h, n)
    BY <2>4 DEF Answers
  <2>6. /\ h.phone = k.phone /\ h.gen = k.gen /\ h.req = k.req
        /\ h.prologue = k.prologue /\ h.speaks = k.speaks
    BY <1>1, <2>1, <2>2, <2>4, <2>5, SentOnce DEF HelloInv
  <2>7. /\ KeyOf(h) = KeyOf(k) /\ EphOf(h) = EphOf(k) /\ BegunBy(h) = BegunBy(k)
    BY <2>6, SameHello
  <2>8. Opening!Going(Opening!HelloReadReply(ph.pending, ph.e, ph.kept.key, r.message))
    <3>1. PICK report : report = ReportOf(h)
      OBVIOUS
    <3>2. r.message = Opening!HelloReply(BegunBy(h), Opening!Fresh(n), EphOf(h), KeyOf(h), report)
      BY <2>5, <3>1 DEF ReplyTo
    <3>3. Opening!Going(Opening!HelloReadReply(BegunBy(h), EphOf(h), KeyOf(h), r.message))
      BY <3>2, HelloReplyOpens
    <3> QED  BY <2>2, <2>7, <3>3
  <2>9. r.message[2].plain = ReportOf(h)
    BY <2>5, ReplyHas
  <2>10. /\ ReportOf(h)[2] = Version /\ ReportOf(h)[3] = h.prologue[7]
    BY DEF ReportOf
  <2>11. /\ h.prologue[7] \in Opening!Handles /\ Opening!SameMajor(Version, h.speaks)
    BY <2>4 DEF Session
  <2>12. r.handle = h.prologue[7] /\ r.handle # 0
    BY <1>1, <2>1, <2>2, <2>6, <2>11 DEF Opening!Handles
  <2>13. Opening!SameMajor(ph.speaks, Version)
    BY <2>2, <2>6, <2>11 DEF Opening!SameMajor
  <2> QED  BY <1>1, <2>1, <2>8, <2>9, <2>10, <2>12, <2>13, FinishSays
<1> QED  BY <1>1, MessagesAre DEF HelloInv, SoundHelloOpens, Opening!SoundHelloOpens, Finishes

(* A Hello that arrives as written while its slot still holds its key is   *)
(* refused for nothing but a spent challenge, and a reply that arrives as  *)
(* written never fails at the phone (Admitted::prove,                      *)
(* HelloPending::finish).                                                  *)
THEOREM SoundHellosOpen == HandshakesSpec => []SoundHelloOpens
<1>1. Init => HelloInv
  BY HelloInit DEF Init
<1> QED  BY <1>1, HelloKept, HelloSound, PTL DEF HandshakesSpec
=============================================================================
