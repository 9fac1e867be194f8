------------------------------- MODULE Opener -------------------------------
(***************************************************************************)
(* One receiving direction (sealed.rs, Opener and Sealed::open), fed any   *)
(* frames in any order: replayed, reordered, altered, cut short.  The      *)
(* `accepted` history is not in the code; it is what the code's word of    *)
(* bits stands for, and what ReplayFilter is stated over.                  *)
(***************************************************************************)
EXTENDS Window

CONSTANTS ReservedNonce, Span

\* The const_assert beside MAX_REPLAY_WINDOW: a window is one bit per nonce.
ASSUME SpanAssumption ==
  /\ ReservedNonce \in Nat
  /\ Span \in Nat \ {0}
  /\ Span <= Width

VARIABLES window, accepted, verdict

openerVars == <<window, accepted, verdict>>

Filter == INSTANCE ReplayFilter

Verdicts == {"none", "Ok", "Reserved", "TooOld", "Replayed", "Open",
             "DestinationTooSmall"}

-----------------------------------------------------------------------------

OpenerInit ==
  /\ window = NewWindow(Span)
  /\ accepted = {}
  /\ verdict = "none"

(* Sealed::open: the reserved nonce, the window, the body's length and the *)
(* destination, the tag, and only then the window moves.                   *)
OpenFrame(nonce, fault) ==
  LET admitted == Admits(window, nonce) IN
  /\ verdict' = IF nonce = ReservedNonce THEN "Reserved"
                ELSE IF admitted = "Ok" /\ fault # "none" THEN fault
                ELSE admitted
  /\ window' = IF verdict' = "Ok" THEN Accept(window, nonce) ELSE window
  /\ accepted' = IF verdict' = "Ok" THEN accepted \cup {nonce} ELSE accepted

OpenerNext == \E nonce \in Filter!Nonces, fault \in Filter!Faults : OpenFrame(nonce, fault)

OpenerSpec == OpenerInit /\ [][OpenerNext]_openerVars

-----------------------------------------------------------------------------

OpenerTypeOK ==
  /\ window \in [highest : Filter!Nonces \cup {NoNonce}, seen : SUBSET Positions,
                 span : {Span}]
  /\ accepted \subseteq Filter!Nonces
  /\ verdict \in Verdicts

(* No shift loses a bit the window still needs and none appears from       *)
(* nowhere, over any order of arrival (Window::accept).                    *)
WindowIsHistory == Remembers(window, accepted)

(* Observed from outside, the window is the full history: every verdict is *)
(* the one ReplayFilter gives from the set of all accepted nonces.         *)
ImplementsFilter == Filter!Spec
=============================================================================
