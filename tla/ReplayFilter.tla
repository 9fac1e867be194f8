---------------------------- MODULE ReplayFilter ----------------------------
(***************************************************************************)
(* What a receiving direction promises, with no window in it: the set of   *)
(* every nonce ever accepted decides each verdict.  A nonce is accepted at *)
(* most once, one that lags the highest by Span or more is too old, and a  *)
(* frame that does not verify leaves no trace.                             *)
(***************************************************************************)
EXTENDS Integers

CONSTANTS ReservedNonce,  \* the nonce Noise reserves
          Span            \* how many nonces, ending at the highest, are told apart

VARIABLES accepted,   \* every nonce accepted so far
          verdict     \* what the last frame was answered with

vars == <<accepted, verdict>>

Nonces == 0 .. ReservedNonce

\* What stops a frame after the replay check: a body too short to carry a
\* tag, a destination too small for the plaintext, a tag that fails.
Faults == {"none", "Open", "DestinationTooSmall"}

Verdict(nonce, fault) ==
  IF nonce = ReservedNonce THEN "Reserved"
  ELSE IF \E m \in accepted : nonce + Span <= m THEN "TooOld"
  ELSE IF nonce \in accepted THEN "Replayed"
  ELSE IF fault # "none" THEN fault
  ELSE "Ok"

Init == accepted = {} /\ verdict = "none"

Receive(nonce, fault) ==
  /\ verdict' = Verdict(nonce, fault)
  /\ accepted' = IF verdict' = "Ok" THEN accepted \cup {nonce} ELSE accepted

Next == \E nonce \in Nonces, fault \in Faults : Receive(nonce, fault)

Spec == Init /\ [][Next]_vars
=============================================================================
