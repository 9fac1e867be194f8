------------------------------- MODULE Window -------------------------------
(***************************************************************************)
(* The replay window of one receiving direction (sealed.rs, Window): the   *)
(* highest nonce accepted so far and one bit per nonce below it.           *)
(*                                                                         *)
(* The word of bits is the set of the positions that are set, so a bit     *)
(* shifted past the top of the word is a member that is lost.  Width is    *)
(* the number of bits of that word, 64 in the code.                        *)
(***************************************************************************)
EXTENDS Integers

CONSTANT Width

ASSUME WidthAssumption == Width \in Nat \ {0}

\* `highest: None`.  Every nonce is greater, which is what the code's early
\* return for None says.
NoNonce == -1

Positions == 0 .. Width - 1

NewWindow(span) == [highest |-> NoNonce, seen |-> {}, span |-> span]

\* `seen.checked_shl(shift).unwrap_or(0)`
Shl(seen, shift) == {b + shift : b \in seen} \cap Positions

Age(w, nonce) == w.highest - nonce
-----------------------------------------------------------------------------
(* Seeded faults, each a plausible slip in the code below.                 *)

AdmitsOffByOne(w, nonce) ==
  IF nonce > w.highest THEN "Ok"
  ELSE IF Age(w, nonce) > w.span THEN "TooOld"
  ELSE IF Age(w, nonce) \in w.seen THEN "Replayed"
  ELSE "Ok"

AcceptForgetsShift(w, nonce) ==
  [highest |-> IF nonce > w.highest THEN nonce ELSE w.highest,
   seen    |-> w.seen \cup {0},
   span    |-> w.span]
-----------------------------------------------------------------------------
(* Window::admits: whether a nonce may be opened, before its tag is tried. *)
Admits(w, nonce) ==
  IF nonce > w.highest THEN "Ok"
  ELSE IF Age(w, nonce) >= w.span \/ Age(w, nonce) \notin Positions THEN "TooOld"
  ELSE IF Age(w, nonce) \in w.seen THEN "Replayed"
  ELSE "Ok"

(* Window::accept: record a nonce whose tag verified.                      *)
Accept(w, nonce) ==
  IF nonce > w.highest
  THEN [highest |-> nonce,
        seen    |-> Shl(w.seen, nonce - w.highest) \cup {0},
        span    |-> w.span]
  ELSE [highest |-> w.highest,
        seen    |-> w.seen \cup ({Age(w, nonce)} \cap Positions),
        span    |-> w.span]

(* What the window stands for: the highest nonce is the maximum of those   *)
(* accepted, and the word says which of the last Width were.               *)
Remembers(w, accepted) ==
  /\ (w.highest = NoNonce) <=> (accepted = {})
  /\ w.highest # NoNonce => w.highest \in accepted
  /\ \A m \in accepted : m <= w.highest
  /\ w.seen = {a \in Positions : w.highest - a \in accepted}
=============================================================================
