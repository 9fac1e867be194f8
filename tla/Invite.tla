------------------------------- MODULE Invite -------------------------------
(***************************************************************************)
(* An owner-approved invite (invite.rs): a phone that never meets the      *)
(* controller, the owner's phone, the controller, and a relay that carries *)
(* everything between the invited phone and the others and may alter it or *)
(* bring another key in its place (P-257).                                 *)
(*                                                                         *)
(* The owner's session is its own: rows are read and approvals sent over   *)
(* it. What Invite and Approve do around the cryptography is the           *)
(* firmware's (external), as P-252 and P-255 order it. The digits are the  *)
(* transcript they are computed from: two different transcripts with the   *)
(* same six digits are left out.                                           *)
(***************************************************************************)
EXTENDS Noise, FiniteSets

CONSTANTS
  Guests,       \* invited phones
  Roles,
  MaxInvites,   \* bound: invites proposed
  MaxResets     \* bound: factory resets

VARIABLES
  guest,        \* each invited phone: InviteeStart, Invitee, Matched, Enrolment
  epoch,
  rows,         \* external: the invites proposed, and which are pending
  told,         \* the reveals and proofs the guests sent
  confirmed,    \* the confirmations the controller sent
  matched,      \* the comparisons two people said yes to
  enrolled      \* external: every key an invite was written for

vars == <<guest, epoch, rows, told, confirmed, matched, enrolled>>

Device == "unit"
CS     == Key("controller", "", 0)
\* A key that is nobody's here.
Stray  == Key("stray", "", 0)
IS(g)  == Key("guest", g, 0)
N(g)   == Key("nonce", g, 0)

(* Commitment::of and opens.                                               *)
Commitment(invitee, reveal) == <<"invite-commit", invitee, reveal>>
CommitmentOpens(commitment, invitee, reveal) == commitment = Commitment(invitee, reveal)

(* Seeded fault: digits that do not cover the role.                        *)
TranscriptNoRole(d, invitee, reveal) ==
  <<d.device, d.controller, d.epoch, d.suite, d.inviter, d.inviterGen,
    invitee, d.nonce, reveal>>
(* Invitation::transcript and sas: `d` is what InviteDetails names.        *)
Transcript(d, invitee, reveal) ==
  <<d.device, d.controller, d.epoch, d.suite, d.role, d.inviter, d.inviterGen,
    invitee, d.nonce, reveal>>
Sas(d, invitee, reveal) == <<"invite-sas", Transcript(d, invitee, reveal)>>

Init ==
  /\ guest = [g \in Guests |-> [phase |-> "started"]]
  /\ epoch = 1
  /\ rows = <<>>
  /\ told = {} /\ confirmed = {} /\ matched = {} /\ enrolled = {}
-----------------------------------------------------------------------------
(* What the relay makes of what it carries.                                *)

\* A guest's proposal, its parts crossed, or a stray key in its place.
Requests ==
  {[invitee |-> k, commitment |-> c] :
     k \in {IS(g) : g \in Guests} \cup {Stray},
     c \in {Commitment(IS(g), N(g)) : g \in Guests} \cup {Commitment(Stray, Stray)}}
\* Details with another key for the controller's, another role, or parts of
\* another invite's.
Altered(d) ==
  {d, [d EXCEPT !.controller = Stray], [d EXCEPT !.controller = LowOrder]}
  \cup {[d EXCEPT !.role = role] : role \in Roles}
  \cup {[d EXCEPT !.epoch = rows[i].details.epoch] : i \in DOMAIN rows}
Reveals == {t.reveal : t \in told} \cup {Stray}
Proofs(row) ==
  {t.proof : t \in told} \cup {CutTag}
  \cup {InviteProof(AdmitKey(Device, Stray, CS), Transcript(row.details, Stray, Stray))}
-----------------------------------------------------------------------------
(* External: the controller stores what reached the owner, under a nonce   *)
(* of its own; a factory reset withdraws every invite; a row expires.      *)

Propose(request, role) ==
  /\ Len(rows) < MaxInvites
  /\ rows' = Append(rows,
       [pending |-> TRUE, invitee |-> request.invitee, commitment |-> request.commitment,
        details |-> [device |-> Device, controller |-> CS, epoch |-> epoch, suite |-> 1,
                     role |-> role, inviter |-> 1, inviterGen |-> 1,
                     nonce |-> Len(rows) + 1]])
  /\ UNCHANGED <<guest, epoch, told, confirmed, matched, enrolled>>

Reset ==
  /\ epoch <= MaxResets
  /\ epoch' = epoch + 1
  /\ rows' = [i \in DOMAIN rows |-> [rows[i] EXCEPT !.pending = FALSE]]
  /\ UNCHANGED <<guest, told, confirmed, matched, enrolled>>

Withdrawn(i) == [rows EXCEPT ![i].pending = FALSE]
-----------------------------------------------------------------------------
(* The guest.                                                              *)

(* InviteeStart::receive, then Invitee::reveal and proof. The key pair is  *)
(* gone when the agreement is refused.                                     *)
Receive(g, d) ==
  /\ guest[g].phase = "started"
  /\ IF ~Agrees(d.controller)
     THEN /\ guest' = [guest EXCEPT ![g] = [phase |-> "refused", details |-> d]]
          /\ UNCHANGED told
     ELSE /\ guest' = [guest EXCEPT ![g] = [phase |-> "received", details |-> d]]
          /\ told' = told \cup
               {[reveal |-> N(g),
                 proof |-> InviteProof(AdmitKey(d.device, IS(g), d.controller),
                                       Transcript(d, IS(g), N(g)))]}
  /\ UNCHANGED <<epoch, rows, confirmed, matched, enrolled>>

(* Two people compare the digits: the owner's over the row its session     *)
(* reads and the reveal the relay brought. Invitee::digits_matched.        *)
Compare(g, i, reveal) ==
  /\ guest[g].phase = "received"
  /\ rows[i].pending
  /\ Sas(guest[g].details, IS(g), N(g)) = Sas(rows[i].details, rows[i].invitee, reveal)
  /\ guest' = [guest EXCEPT ![g].phase = "matched"]
  /\ matched' = matched \cup {[row |-> i, reveal |-> reveal]}
  /\ UNCHANGED <<epoch, rows, told, confirmed, enrolled>>

(* Matched::keep: the confirmation, for the slot it came with.             *)
KeepWhy(g, slot, gen, tag) ==
  LET d == guest[g].details
  IN  Verify(InviteConfirm(AdmitKey(d.device, IS(g), d.controller),
                           Transcript(d, IS(g), N(g)), slot, gen), tag)
Keep(g, slot, gen, tag) ==
  /\ guest[g].phase = "matched"
  /\ guest' = [guest EXCEPT ![g] =
       IF KeepWhy(g, slot, gen, tag) # "" THEN [phase |-> "refused", details |-> @.details]
       ELSE [phase |-> "kept", details |-> @.details, slot |-> slot, gen |-> gen]]
  /\ UNCHANGED <<epoch, rows, told, confirmed, matched, enrolled>>
-----------------------------------------------------------------------------
(* The controller.                                                         *)

(* Invitation::verify                                                      *)
VerifyWhy(row, reveal, proof) ==
  IF ~CommitmentOpens(row.commitment, row.invitee, reveal) THEN "CommitmentDoesNotOpen"
  ELSE IF row.details.controller # CS THEN "NotThisController"
  ELSE IF ~Agrees(row.invitee) THEN "Agreement"
  ELSE Verify(InviteProof(AdmitKey(row.details.device, CS, row.invitee),
                          Transcript(row.details, row.invitee, reveal)), proof)

(* Approve (external) around Verified::confirm: a row is good for one      *)
(* decision, a key holds one slot, and the slot is a new generation.       *)
Occupied == {e \in enrolled : e.epoch = epoch}
Approve(i, reveal, proof) ==
  LET row  == rows[i]
      slot == Cardinality(Occupied) + 1
      gen  == Cardinality({e \in enrolled : e.slot = slot}) + 1
  IN
  /\ row.pending
  /\ [row |-> i, reveal |-> reveal] \in matched
  /\ rows' = Withdrawn(i)
  /\ IF VerifyWhy(row, reveal, proof) # "" \/ \E e \in Occupied : e.key = row.invitee
     THEN UNCHANGED <<enrolled, confirmed>>
     ELSE /\ enrolled' = enrolled \cup
               {[key |-> row.invitee, role |-> row.details.role, epoch |-> epoch,
                 slot |-> slot, gen |-> gen]}
          /\ confirmed' = confirmed \cup
               {[slot |-> slot, gen |-> gen,
                 tag |-> InviteConfirm(AdmitKey(row.details.device, CS, row.invitee),
                           Transcript(row.details, row.invitee, reveal), slot, gen)]}
  /\ UNCHANGED <<guest, epoch, told, matched>>

Next ==
  \/ \E request \in Requests, role \in Roles : Propose(request, role)
  \/ Reset
  \/ \E g \in Guests, i \in DOMAIN rows : \E d \in Altered(rows[i].details) : Receive(g, d)
  \/ \E g \in Guests, i \in DOMAIN rows, reveal \in Reveals : Compare(g, i, reveal)
  \/ \E i \in DOMAIN rows, reveal \in Reveals : \E proof \in Proofs(rows[i]) :
       Approve(i, reveal, proof)
  \/ \E g \in Guests, c \in confirmed, n \in 1 .. MaxInvites :
       Keep(g, n, c.gen, c.tag)

Spec == Init /\ [][Next]_vars
-----------------------------------------------------------------------------
(* A key the controller enrols is the key of a phone whose own digits were *)
(* read out, at the role and in the epoch that phone was shown, and proved *)
(* against this controller's key; and an enrolment a phone keeps is one    *)
(* the controller wrote, for its key, in that slot and generation:         *)
(* whatever the relay put in a key's place is never enrolled and a         *)
(* confirmation of something else never kept (Invitation::verify,          *)
(* Matched::keep, P-257).                                                  *)
InviteAgreed ==
  /\ \A e \in enrolled : \E g \in Guests :
       /\ e.key = IS(g)
       /\ guest[g].phase # "started"
       /\ guest[g].details.role = e.role /\ guest[g].details.epoch = e.epoch
       /\ guest[g].details.controller = CS
  /\ \A g \in Guests : guest[g].phase = "kept" =>
       /\ guest[g].details.controller = CS
       /\ \E e \in enrolled :
            /\ e.key = IS(g) /\ e.slot = guest[g].slot /\ e.gen = guest[g].gen
            /\ e.role = guest[g].details.role /\ e.epoch = guest[g].details.epoch
=============================================================================
