-------------------------------- MODULE Drbg --------------------------------
(***************************************************************************)
(* The controller's random bit generator (drbg.rs): a state in FRAM, a     *)
(* generator in RAM, and an asynchronous draw that may be refused,         *)
(* cancelled at either await or cut by a reset.                            *)
(*                                                                         *)
(* A generator state is the seed it descends from and the extras folded in *)
(* since.  HMAC is taken as injective and one way, so a draw is named by   *)
(* the state it was drawn from, and two equal states draw the same value.  *)
(***************************************************************************)
EXTENDS Naturals, Sequences

CONSTANTS Extras,    \* what draw_mixing may fold in, the empty slice included
          MaxDraws,  \* bound: the draws of one seed
          LastSeed   \* bound: the seeds the station writes, 0 at manufacture

ASSUME DrbgAssumption == MaxDraws \in Nat /\ LastSeed \in Nat

VARIABLES
  store,       \* what FRAM holds: a state, or Torn
  drbg,        \* the generator between draws, or None
  draw,        \* the future of a draw in progress, or None
  seed,        \* external: the last seed written at manufacture or reseed
  released,    \* history: the states a draw was handed out from
  repeated     \* history: some draw was handed out twice

drbgVars == <<store, drbg, draw, seed, released, repeated>>

None == [none |-> TRUE]
Torn == [torn |-> TRUE]

States == [seed : 0 .. LastSeed, mixed : Seq(Extras)]
Draws  == [at : {"write", "read"}, self : States, next : States]

DrbgInit ==
  /\ store = [seed |-> 0, mixed |-> <<>>]
  /\ drbg = None
  /\ draw = None
  /\ seed = 0
  /\ released = {}
  /\ repeated = FALSE
-----------------------------------------------------------------------------
(* Seeded faults.                                                          *)

AdvanceStuck(state, extra) == state

ReadBackUnchecked(result) ==
  /\ draw # None /\ draw.at = "read"
  /\ draw' = None
  /\ IF result = Torn
     THEN UNCHANGED <<drbg, released, repeated>>
     ELSE /\ drbg' = draw.next
          /\ released' = released \cup {draw.self}
          /\ repeated' = (repeated \/ draw.self \in released)
  /\ UNCHANGED <<store, seed>>
-----------------------------------------------------------------------------

(* keyed(state, NEXT, extra): the state that replaces this one.            *)
Advance(state, extra) ==
  [seed |-> state.seed, mixed |-> Append(state.mixed, extra)]

(* Drbg::from_stored, over a state that passed the caller's integrity      *)
(* check.  The caller holds no other generator: there is no Clone.         *)
FromStored ==
  /\ store # Torn
  /\ drbg = None /\ draw = None
  /\ drbg' = store
  /\ UNCHANGED <<store, draw, seed, released, repeated>>

(* Drbg::draw_mixing up to its first await: the generator moves into the   *)
(* future, and both values are computed.  Drbg::draw mixes nothing in.     *)
DrawMixing(extra) ==
  /\ drbg # None
  /\ Len(drbg.mixed) < MaxDraws
  /\ draw' = [at |-> "write", self |-> drbg, next |-> Advance(drbg, extra)]
  /\ drbg' = None
  /\ UNCHANGED <<store, seed, released, repeated>>

(* store.write: it lands, is lost or is torn, and says so or does not.     *)
Write(holds, ok) ==
  /\ draw # None /\ draw.at = "write"
  /\ holds \in {store, draw.next, Torn}
  /\ store' = holds
  /\ draw' = IF ok
             THEN [at |-> "read", self |-> draw.self, next |-> draw.next]
             ELSE None
  /\ UNCHANGED <<drbg, seed, released, repeated>>

(* store.read and the comparison: anything but the state written, a failed *)
(* read (Torn) included, withholds the draw and drops the generator.       *)
ReadBack(result) ==
  /\ draw # None /\ draw.at = "read"
  /\ result \in {store, Torn}
  /\ draw' = None
  /\ IF result = draw.next
     THEN /\ drbg' = draw.next
          /\ released' = released \cup {draw.self}
          /\ repeated' = (repeated \/ draw.self \in released)
     ELSE UNCHANGED <<drbg, released, repeated>>
  /\ UNCHANGED <<store, seed>>

(* The future is dropped at an await, and with it the generator.  A write  *)
(* under way may or may not have landed.                                   *)
Cancel(holds) ==
  /\ draw # None
  /\ holds \in IF draw.at = "write" THEN {store, draw.next, Torn} ELSE {store}
  /\ store' = holds
  /\ draw' = None
  /\ UNCHANGED <<drbg, seed, released, repeated>>

(* A reset between draws: RAM is gone and FRAM is what is left.  One in    *)
(* the middle of a draw leaves what Cancel leaves.                         *)
Reset ==
  /\ drbg # None
  /\ drbg' = None
  /\ UNCHANGED <<store, draw, seed, released, repeated>>

(* The station's reseed over SWD, the only cure for a state that does not  *)
(* read back (external).                                                   *)
Reseed ==
  /\ store = Torn /\ drbg = None /\ draw = None
  /\ seed < LastSeed
  /\ seed' = seed + 1
  /\ store' = [seed |-> seed + 1, mixed |-> <<>>]
  /\ UNCHANGED <<drbg, draw, released, repeated>>

DrbgNext ==
  \/ FromStored
  \/ \E extra \in Extras : DrawMixing(extra)
  \/ draw # None /\ \E holds \in {store, draw.next, Torn}, ok \in BOOLEAN :
       Write(holds, ok)
  \/ \E result \in {store, Torn} : ReadBack(result)
  \/ draw # None /\ \E holds \in {store, draw.next, Torn} : Cancel(holds)
  \/ Reset
  \/ Reseed

DrbgSpec == DrbgInit /\ [][DrbgNext]_drbgVars
-----------------------------------------------------------------------------
DrbgTypeOK ==
  /\ store \in States \cup {Torn}
  /\ drbg \in States \cup {None}
  /\ draw \in Draws \cup {None}
  /\ seed \in 0 .. LastSeed
  /\ released \subseteq States
  /\ repeated \in BOOLEAN

(* No draw is handed out twice, over any sequence of failed, lost and torn *)
(* writes, failed read-backs, cancelled draws and resets: no challenge and *)
(* no ephemeral key comes back (P-237).                                    *)
NeverDrawnTwice == ~repeated

(* The order of two states of the controller's life.                       *)
Before(s, t) ==
  \/ s.seed < t.seed
  \/ s.seed = t.seed /\ Len(s.mixed) < Len(t.mixed)

(* The states somebody with a probe can read at this moment.               *)
Readable ==
  {s \in {store, drbg} : s \notin {Torn, None}}
    \cup (IF draw = None THEN {} ELSE {draw.self, draw.next})

(* A state read out of FRAM or RAM yields none of the draws already handed *)
(* out: every one of them was drawn strictly before it.                    *)
ProbeYieldsNoPastDraw ==
  \A s \in released, t \in Readable : Before(s, t)
=============================================================================
