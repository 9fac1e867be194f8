-------------------------------- MODULE Noise --------------------------------
(***************************************************************************)
(* The two Noise handshakes (noise.rs), the keys derived beside them       *)
(* (kdf.rs) and the tags under those keys (mac.rs), over terms: a hash is  *)
(* the sequence of what was mixed into it, a key is the chain it came out  *)
(* of, and a tag or a ciphertext is what it was computed from. Two terms   *)
(* are equal exactly when their inputs are.                                *)
(*                                                                         *)
(* A key pair and its public half share one name. A handshake state that   *)
(* refused keeps its reason in `why`; no later step clears it.             *)
(***************************************************************************)
EXTENDS Naturals, Sequences

Key(kind, owner, n) == <<kind, owner, n>>
LowOrder == Key("low", "", 0)
-----------------------------------------------------------------------------
(* kdf.rs and mac.rs.                                                      *)

(* Prk::of and expand: salt and input key material are separate arguments. *)
Derive(derivation, salt, ikm) == <<derivation, salt, ikm>>
(* Preimage: the label first, then the parts; the tag is all of it.        *)
TagOver(key, domain, parts) == <<domain, key, parts>>
(* Tag::verify: a candidate of another width is refused, not compared.     *)
CutTag == <<"cut">>
Verify(tag, candidate) ==
  IF candidate = CutTag THEN "WrongWidth"
  ELSE IF candidate = tag THEN "" ELSE "Mismatch"

(* StaticKey::agree: both ends reach one value, and never a constant.      *)
Shared(mine, theirs) == <<"dh", {mine, theirs}>>
Agrees(theirs) == theirs # LowOrder

(* Label::pair_psk and refusal_key, StaticKey::admit_key and vouch_key.    *)
PairPsk(device, secret)         == Derive("pair-psk", device, secret)
RefusalKey(device, secret)      == Derive("pair-refusal", device, secret)
AdmitKey(device, mine, theirs)  == Derive("admit-key", device, Shared(mine, theirs))
VouchKey(device, mine, theirs)  == Derive("vouch-key", device, Shared(mine, theirs))

(* RefusalKey::refusal, AdmitKey::admit, invite_proof and invite_confirm,  *)
(* and VouchKey::tag.                                                      *)
RefusalTag(key, h1, outcome)    == TagOver(key, "pair-refused", <<h1, outcome>>)
AdmitTag(key, prologue, message) == TagOver(key, "hello-admit", <<prologue, message>>)
InviteProof(key, transcript)    == TagOver(key, "invite-proof", <<transcript>>)
InviteConfirm(key, transcript, slot, gen) ==
  TagOver(key, "invite-confirm", <<transcript, slot, gen>>)
VouchTag(key, s) ==
  TagOver(key, "vouch", <<s.device, s.epoch, s.slot, s.gen, s.nonce, s.binding>>)

(* Fingerprint::of and vouches_for.                                        *)
Fingerprint(controller) == <<"controller-fp", controller>>
VouchesFor(printed, controller) == printed = Fingerprint(controller)
-----------------------------------------------------------------------------
(* SymmetricState and its CipherState.                                     *)

(* InitializeSymmetric, then the prologue.                                 *)
Start(name, prologue) ==
  [hash |-> <<name, prologue>>, chain |-> <<name>>, nonce |-> 0, why |-> ""]
Refused(st, why) == IF st.why = "" THEN [st EXCEPT !.why = why] ELSE st
Going(st) == st.why = ""

MixHash(st, data) == [st EXCEPT !.hash = Append(@, data)]
(* The key is the one the chain now yields, and its nonce starts over.     *)
MixKey(st, material) ==
  [hash |-> st.hash, chain |-> Append(st.chain, material), nonce |-> 0, why |-> st.why]
MixKeyAndHash(st, material) ==
  LET keyed == MixKey(st, material) IN MixHash(keyed, <<"extra", keyed.chain>>)
(* Any of the tokens ee, es, se and ss.                                    *)
MixDh(st, mine, theirs) ==
  IF Agrees(theirs) THEN MixKey(st, Shared(mine, theirs))
  ELSE Refused(st, "LowOrderPoint")

Keyed(st) == Len(st.chain) > 1

(* CipherState::encrypt: in clear while there is no key.                   *)
Sealed(st, plain) ==
  IF Keyed(st) THEN [key |-> st.chain, nonce |-> st.nonce, ad |-> st.hash, plain |-> plain]
  ELSE [key |-> <<>>, nonce |-> 0, ad |-> <<>>, plain |-> plain]
(* What a ciphertext adds to the hash. Its associated data is the hash     *)
(* itself, and not repeated.                                               *)
Mixed(st, sealed) == MixHash(st, <<"sealed", sealed.key, sealed.nonce, sealed.plain>>)
Stepped(st) == IF Keyed(st) THEN [st EXCEPT !.nonce = @ + 1] ELSE st
(* encrypt_and_hash                                                        *)
AfterSeal(st, plain) == Stepped(Mixed(st, Sealed(st, plain)))
(* Seeded fault: a ciphertext opens over any hash.                         *)
OpensUnbound(st, sealed) ==
  Keyed(st) => sealed.key = st.chain /\ sealed.nonce = st.nonce
(* decrypt_and_hash: the nonce moves only once the tag has verified.       *)
Opens(st, sealed) == sealed = Sealed(st, sealed.plain)
AfterOpen(st, sealed) ==
  IF ~Going(st) THEN st
  ELSE IF Opens(st, sealed) THEN Stepped(Mixed(st, sealed))
  ELSE Refused(st, "Decrypt")

(* `e`, on either side: into the key as well where there is a psk.         *)
MixEphemeral(st, e, psk) ==
  LET mixed == MixHash(st, e) IN IF psk THEN MixKey(mixed, e) ELSE mixed

(* Split, and SessionKeys::for_initiator and for_responder.                *)
Split(st) == [there |-> <<"split", 1, st.chain>>, back |-> <<"split", 2, st.chain>>]
ForInitiator(keys) == [send |-> keys.there, receive |-> keys.back]
ForResponder(keys) == [send |-> keys.back, receive |-> keys.there]
-----------------------------------------------------------------------------
(* Messages: a sequence of an ephemeral key, a sealed static key and a     *)
(* sealed payload, as the pattern has them; a shorter one was cut.         *)

Cut(message, len) == Len(message) < len

(* IK: HelloInitiator::start, e, es, s, ss.                                *)
HelloFirst(prologue, controller, client, e) ==
  MixDh(MixEphemeral(MixHash(Start("IK", prologue), controller), e, FALSE), e, controller)
HelloSecond(prologue, controller, client, e) ==
  MixDh(AfterSeal(HelloFirst(prologue, controller, client, e), client), client, controller)
HelloStarted(prologue, controller, client, e, payload) ==
  AfterSeal(HelloSecond(prologue, controller, client, e), payload)
HelloMessage(prologue, controller, client, e, payload) ==
  <<e, Sealed(HelloFirst(prologue, controller, client, e), client),
       Sealed(HelloSecond(prologue, controller, client, e), payload)>>

(* HelloResponder::read_claim: as far as the client's key.                 *)
ReadClaim(prologue, controller, message) ==
  IF Cut(message, 2) THEN Refused(Start("IK", prologue), "Truncated")
  ELSE LET e  == message[1]
           es == MixDh(MixEphemeral(MixHash(Start("IK", prologue), controller), e, FALSE),
                       controller, e)
       IN  AfterOpen(es, message[2])
(* HelloClaimed::prove: ss, and the payload.                               *)
Prove(st, controller, message) ==
  IF Cut(message, 3) THEN Refused(st, "Truncated")
  ELSE AfterOpen(MixDh(st, controller, message[2].plain), message[3])

(* HelloProved::reply and HelloInitiator::read_reply: e, ee, se. A pair is *)
(* the reader's or writer's own key and the other end's.                   *)
HelloTokens(st, e, ee, se) ==
  MixDh(MixDh(MixEphemeral(st, e, FALSE), ee[1], ee[2]), se[1], se[2])
HelloAnswering(st, e, theirs, client) == HelloTokens(st, e, <<e, theirs>>, <<e, client>>)
HelloReply(st, e, theirs, client, payload) ==
  <<e, Sealed(HelloAnswering(st, e, theirs, client), payload)>>
HelloReplied(st, e, theirs, client, payload) ==
  AfterSeal(HelloAnswering(st, e, theirs, client), payload)
(* Seeded fault: se before ee, on the reader's side alone.                 *)
HelloReadReplySwapped(st, mine, client, message) ==
  IF Cut(message, 2) THEN Refused(st, "Truncated")
  ELSE LET e == message[1]
       IN  AfterOpen(HelloTokens(st, e, <<client, e>>, <<mine, e>>), message[2])
HelloReadReply(st, mine, client, message) ==
  IF Cut(message, 2) THEN Refused(st, "Truncated")
  ELSE LET e == message[1]
       IN  AfterOpen(HelloTokens(st, e, <<mine, e>>, <<client, e>>), message[2])
-----------------------------------------------------------------------------
(* XXpsk0: PairInitiator::start and PairResponder::read_request, psk, e.   *)
PairFirst(prologue, psk, e) ==
  MixEphemeral(MixKeyAndHash(Start("XXpsk0", prologue), psk), e, TRUE)
PairStarted(prologue, psk, e, payload) == AfterSeal(PairFirst(prologue, psk, e), payload)
PairMessage(prologue, psk, e, payload) ==
  <<e, Sealed(PairFirst(prologue, psk, e), payload)>>
PairReadRequest(prologue, psk, message) ==
  IF Cut(message, 2) THEN Refused(Start("XXpsk0", prologue), "Truncated")
  ELSE AfterOpen(PairFirst(prologue, psk, message[1]), message[2])

(* PairRequested::reply and PairInitiator::read_reply: e, ee, s, es.       *)
PairEe(st, e, mine, theirs) == MixDh(MixEphemeral(st, e, TRUE), mine, theirs)
PairEs(st, e, theirs, controller) ==
  MixDh(AfterSeal(PairEe(st, e, e, theirs), controller), controller, theirs)
PairReply(st, e, theirs, controller, payload) ==
  <<e, Sealed(PairEe(st, e, e, theirs), controller),
       Sealed(PairEs(st, e, theirs, controller), payload)>>
PairReplied(st, e, theirs, controller, payload) ==
  AfterSeal(PairEs(st, e, theirs, controller), payload)
PairReadReply(st, mine, message) ==
  IF Cut(message, 3) THEN Refused(st, "Truncated")
  ELSE LET s  == AfterOpen(PairEe(st, message[1], mine, message[1]), message[2])
       IN  AfterOpen(MixDh(s, mine, message[2].plain), message[3])

(* PairReplied::finish and PairAwaiting::read_finish: s, se.               *)
PairSe(st, client, theirs) == MixDh(AfterSeal(st, client), client, theirs)
PairFinish(st, client, theirs, payload) ==
  <<Sealed(st, client), Sealed(PairSe(st, client, theirs), payload)>>
PairFinished(st, client, theirs, payload) == AfterSeal(PairSe(st, client, theirs), payload)
PairReadFinish(st, mine, message) ==
  IF Cut(message, 2) THEN Refused(st, "Truncated")
  ELSE AfterOpen(MixDh(AfterOpen(st, message[1]), mine, message[1].plain), message[2])
=============================================================================
