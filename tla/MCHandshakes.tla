---------------------------- MODULE MCHandshakes ----------------------------
(***************************************************************************)
(* The exchanges that make two parties agree on something, each under the  *)
(* carrier it has to survive: the pairing handshake, the opening of a      *)
(* session, an owner-approved invite and a vouch; and the generator that   *)
(* their ephemeral keys and nonces are drawn from. One runs at a time; the *)
(* others stay where they start.                                           *)
(***************************************************************************)
EXTENDS Drbg, TLC

CONSTANTS
  Secrets, Prologues,                                       \* Pair
  Phones, Speaks, Version, MaxConns, MaxHellos, MaxRekeys,  \* Hello
  Guests, Roles, MaxInvites, MaxResets,                     \* Invite
  Accounts, Devices, Recorded, MaxIssues, MaxAnswers, MaxChanges  \* Vouch

(* A version is two counts, and a re-keying one more generation.           *)
ASSUME VersionsAssumption ==
  Version \in Nat \X Nat /\ Speaks \subseteq Nat \X Nat /\ MaxRekeys \in Nat

VARIABLES
  part,
  view, stage, client, server, answering, altered,          \* Pair
  conn, table, admitted, phone, wire, opened, wronged,      \* Hello
  guest, epoch, rows, told, confirmed, matched, enrolled,   \* Invite
  unit, issues, answers, links, slighted                    \* Vouch

pairing  == <<view, stage, client, server, answering, altered>>
opening  == <<conn, table, admitted, phone, wire, opened, wronged>>
inviting == <<guest, epoch, rows, told, confirmed, matched, enrolled>>
vouching == <<unit, issues, answers, links, slighted>>
vars     == <<part, pairing, opening, inviting, vouching, drbgVars>>

Pairing  == INSTANCE Pair
Opening  == INSTANCE Hello
Inviting == INSTANCE Invite
Vouching == INSTANCE Vouch

(* The controller is at version 1.1, and a phone's app one minor ahead or  *)
(* a major ahead.                                                          *)
MCVersion == <<1, 1>>
MCSpeaks  == {<<1, 2>>, <<2, 0>>}

(* Nothing but its name tells one phone from another, and no two slots     *)
(* match one tag.                                                          *)
Twins == Permutations(Phones)

Init ==
  /\ part \in {"pair", "hello", "invite", "vouch", "draw"}
  /\ Pairing!Init /\ (part = "pair" \/ \A n \in DOMAIN view : view[n] = CHOOSE v \in Pairing!Views : TRUE)
  /\ Opening!Init /\ Inviting!Init /\ Vouching!Init /\ DrbgInit

Next ==
  /\ UNCHANGED part
  /\ \/ part = "pair" /\ Pairing!Next /\ UNCHANGED <<opening, inviting, vouching, drbgVars>>
     \/ part = "hello" /\ Opening!Next /\ UNCHANGED <<pairing, inviting, vouching, drbgVars>>
     \/ part = "invite" /\ Inviting!Next /\ UNCHANGED <<pairing, opening, vouching, drbgVars>>
     \/ part = "vouch" /\ Vouching!Next /\ UNCHANGED <<pairing, opening, inviting, drbgVars>>
     \/ part = "draw" /\ DrbgNext /\ UNCHANGED <<pairing, opening, inviting, vouching>>

HandshakesSpec == Init /\ [][Next]_vars

(* Pair: both ends of a pairing are where the other is.                    *)
PairOpensAsWritten == Pairing!PairOpensAsWritten
(* Hello: a phone's session is the controller's, and the other way round.  *)
SessionAgreed == Opening!SessionAgreed
(* Hello: what arrives as it was written is not refused.                   *)
SoundHelloOpens == Opening!SoundHelloOpens
(* Invite: the key enrolled is the key compared, and the enrolment kept    *)
(* the one written.                                                        *)
InviteAgreed == Inviting!InviteAgreed
(* Vouch: an account is linked to what vouched for it.                     *)
LinkedAsVouched == Vouching!LinkedAsVouched
=============================================================================
