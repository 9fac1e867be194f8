---------------------------- MODULE Channel_proof ----------------------------
(***************************************************************************)
(* What a session's secrecy stands on: the window a direction receives     *)
(* behind, the channel of two such directions, and the generator its keys  *)
(* are drawn from.                                                         *)
(*                                                                         *)
(* For every width of the word, every span that fits it and every nonce    *)
(* space, the word of bits says exactly what the history says, so the      *)
(* window implements ReplayFilter.  However much the comms processor       *)
(* replays and alters, no nonce keys two frames, no frame opens twice,     *)
(* what opens is what the peer sealed, a replay is answered by nothing,    *)
(* and only an altered frame counts as a failure.  For any extras and any  *)
(* number of draws and reseeds, no draw of the generator is handed out     *)
(* twice, and no state that can be read out yields one that was.           *)
(***************************************************************************)
EXTENDS SealedChannel, Opener, Drbg, FiniteSetTheorems, TLAPS

(* The replay window, of any width and span, over any set of nonces.       *)

WindowType(w, span) ==
  /\ w = [highest |-> w.highest, seen |-> w.seen, span |-> span]
  /\ w.highest \in Nat \cup {NoNonce}
  /\ w.seen \subseteq Positions
  /\ w.span = span

(* The shifted word holds a bit exactly where the word held one k places   *)
(* lower.                                                                  *)
LEMMA ShlMember ==
  ASSUME NEW seen \in SUBSET Positions, NEW k \in Nat, NEW a \in Positions
  PROVE  a \in Shl(seen, k) <=> a - k \in seen
<1> USE WidthAssumption DEF Positions
<1>1. ASSUME a \in Shl(seen, k) PROVE a - k \in seen
  <2>1. PICK b \in seen : a = b + k
    BY <1>1 DEF Shl
  <2>2. b \in Int /\ a - k = b
    BY <2>1
  <2>3. QED BY <2>2
<1>2. ASSUME a - k \in seen PROVE a \in Shl(seen, k)
  <2>1. a = (a - k) + k
    OBVIOUS
  <2>2. QED BY <1>2, <2>1 DEF Shl
<1>3. QED BY <1>1, <1>2

(* Window::accept of an admitted nonce: the new word is the word of the    *)
(* enlarged history.                                                       *)
LEMMA AcceptRemembers ==
  ASSUME NEW w, NEW span \in Nat \ {0}, NEW taken \in SUBSET Nat,
         NEW nonce \in Nat,
         WindowType(w, span), Remembers(w, taken),
         Admits(w, nonce) = "Ok"
  PROVE  /\ WindowType(Accept(w, nonce), span)
         /\ Remembers(Accept(w, nonce), taken \cup {nonce})
<1> USE WidthAssumption DEF NoNonce, Positions
<1> DEFINE v == Accept(w, nonce)
           after == taken \cup {nonce}
<1>0. /\ \A m \in taken : m <= w.highest
      /\ \A m \in taken : m \in Int
  <2>1. \A m \in taken : m <= w.highest
    BY Zenon DEF Remembers
  <2>2. QED BY <2>1
<1>1. CASE nonce > w.highest
  <2> DEFINE k == nonce - w.highest
  <2>1. /\ v = [highest |-> nonce, seen |-> Shl(w.seen, k) \cup {0},
                span |-> w.span]
        /\ k \in Nat \ {0}
    BY <1>1 DEF Accept, WindowType
  <2> HIDE DEF v, k
  <2>2. /\ WindowType(v, span)
        /\ v.highest = nonce /\ v.seen = Shl(w.seen, k) \cup {0}
        /\ w.seen \in SUBSET Positions
    BY <2>1 DEF WindowType, Shl
  <2>k. k = nonce - w.highest /\ w.highest \in Int
    BY DEF k, WindowType
  <2>3. ASSUME NEW a \in Positions
        PROVE  a \in v.seen <=> nonce - a \in after
    <3>1. CASE a = 0
      BY <2>2, <3>1
    <3>2. CASE a # 0 /\ a >= k
      <4>1. a \in Shl(w.seen, k) <=> a - k \in w.seen
        BY <2>1, <2>2, ShlMember
      <4>2. a - k \in w.seen <=> w.highest - (a - k) \in taken
        <5>1. a - k \in Positions
          BY <2>1, <3>2
        <5>2. QED BY <5>1 DEF Remembers
      <4>3. w.highest - (a - k) = nonce - a
        BY <2>1, <2>k
      <4>4. nonce - a # nonce
        BY <3>2
      <4>5. QED BY <4>1, <4>2, <4>3, <4>4, <2>2, <3>2
    <3>3. CASE a # 0 /\ a < k
      <4>1. a \notin v.seen
        <5>1. a - k \notin Positions
          BY <2>1, <3>3
        <5>2. QED BY <5>1, <2>1, <2>2, <3>3, ShlMember
      <4>2. nonce - a \notin after
        <5>1. nonce - a > w.highest /\ nonce - a # nonce /\ nonce - a \in Int
          BY <2>1, <2>k, <3>3
        <5>2. nonce - a \notin taken
          BY <5>1, <1>0, <2>k
        <5>3. QED BY <5>1, <5>2
      <4>3. QED BY <4>1, <4>2
    <3>4. QED BY <3>1, <3>2, <3>3, <2>1
  <2>4. v.seen = {a \in Positions : v.highest - a \in after}
    <3>1. v.seen \subseteq Positions
      BY <2>2 DEF WindowType
    <3>2. QED BY <2>2, <2>3, <3>1
  <2>5. Remembers(v, after)
    <3>1. \A m \in after : m <= nonce
      BY <1>0, <2>k, <1>1
    <3>2. nonce # NoNonce /\ after # {} /\ nonce \in after
      OBVIOUS
    <3>3. QED BY <2>2, <2>4, <3>1, <3>2 DEF Remembers
  <2>6. QED BY <2>2, <2>5 DEF v
<1>2. CASE ~(nonce > w.highest)
  <2> DEFINE age == w.highest - nonce
  <2>1. /\ v = [highest |-> w.highest, seen |-> w.seen \cup ({age} \cap Positions),
                span |-> w.span]
        /\ w.highest \in Nat /\ age \in Nat
    BY <1>2 DEF Accept, Age, WindowType
  <2>2. age \in Positions
    BY <1>2, <2>1 DEF Admits, Age, WindowType
  <2> HIDE DEF v
  <2>3. WindowType(v, span) /\ v.seen = w.seen \cup {age}
    BY <2>1, <2>2 DEF WindowType
  <2>4. ASSUME NEW a \in Positions
        PROVE  a \in v.seen <=> w.highest - a \in after
    <3>1. a \in w.seen <=> w.highest - a \in taken
      BY DEF Remembers
    <3>2. a = age <=> w.highest - a = nonce
      BY <2>1
    <3>3. QED BY <3>1, <3>2, <2>3
  <2>5. v.seen = {a \in Positions : v.highest - a \in after}
    BY <2>1, <2>3, <2>4 DEF WindowType
  <2>6. Remembers(v, after)
    BY <2>1, <2>5, <1>2 DEF Remembers, WindowType
  <2>7. QED BY <2>3, <2>6 DEF v
<1>3. QED BY <1>1, <1>2

(* Window::admits decides from the word what the whole history decides, as *)
(* long as the span fits the word.                                         *)
LEMMA AdmitsIsHistory ==
  ASSUME NEW w, NEW span \in Nat \ {0}, NEW taken \in SUBSET Nat,
         NEW nonce \in Nat, span <= Width,
         WindowType(w, span), Remembers(w, taken)
  PROVE  Admits(w, nonce) =
           IF \E m \in taken : nonce + span <= m THEN "TooOld"
           ELSE IF nonce \in taken THEN "Replayed" ELSE "Ok"
<1> USE WidthAssumption DEF NoNonce, Positions
<1>1. CASE nonce > w.highest
  <2>1. /\ ~ \E m \in taken : nonce + span <= m
        /\ nonce \notin taken
    BY <1>1 DEF WindowType, Remembers
  <2>2. Admits(w, nonce) = "Ok"
    BY <1>1 DEF Admits
  <2>3. QED BY <2>1, <2>2
<1>2. CASE ~(nonce > w.highest)
  <2>1. /\ w.highest \in taken /\ w.highest \in Nat
        /\ w.span = span
        /\ Age(w, nonce) = w.highest - nonce
        /\ Age(w, nonce) \in Nat
    BY <1>2 DEF WindowType, Remembers, Age
  <2>2. Age(w, nonce) >= span <=> \E m \in taken : nonce + span <= m
    <3>1. \A m \in taken : m <= w.highest /\ m \in Nat
      BY DEF Remembers
    <3>2. ASSUME Age(w, nonce) >= span PROVE nonce + span <= w.highest
      BY <2>1, <3>2
    <3>3. ASSUME NEW m \in taken, nonce + span <= m PROVE Age(w, nonce) >= span
      BY <2>1, <3>1, <3>3
    <3>4. QED BY <2>1, <3>2, <3>3
  <2>3. CASE Age(w, nonce) >= span
    BY <2>1, <2>2, <2>3, <1>2 DEF Admits
  <2>4. CASE ~(Age(w, nonce) >= span)
    <3>1. Age(w, nonce) \in Positions
      BY <2>1, <2>4
    <3>2. w.highest - Age(w, nonce) = nonce
      BY <2>1
    <3>3. Age(w, nonce) \in w.seen <=> nonce \in taken
      BY <3>1, <3>2 DEF Remembers
    <3>4. QED BY <2>1, <2>2, <2>4, <3>1, <3>3, <1>2 DEF Admits
  <2>5. QED BY <2>3, <2>4
<1>3. QED BY <1>1, <1>2

(* A window nothing was taken on remembers the empty history.           *)
LEMMA NewRemembers ==
  ASSUME NEW span \in Nat \ {0}
  PROVE  WindowType(NewWindow(span), span) /\ Remembers(NewWindow(span), {})
BY DEF WindowType, Remembers, NewWindow, NoNonce, Positions

-----------------------------------------------------------------------------

(* The opener's inductive invariant.                                       *)
OpenerInv == OpenerTypeOK /\ WindowIsHistory

-----------------------------------------------------------------------------
LEMMA TypedWindow ==
  ASSUME OpenerTypeOK
  PROVE  WindowType(window, Span) /\ accepted \in SUBSET Nat
BY SpanAssumption DEF OpenerTypeOK, WindowType, Filter!Nonces

LEMMA InitOpenerInv == OpenerInit => OpenerInv
<1> SUFFICES ASSUME OpenerInit PROVE OpenerInv
  OBVIOUS
<1>1. OpenerTypeOK
  BY SpanAssumption DEF OpenerInit, OpenerTypeOK, NewWindow, NoNonce, Filter!Nonces, Positions, Verdicts
<1>2. WindowIsHistory
  BY SpanAssumption, NewRemembers DEF OpenerInit, WindowIsHistory
<1>3. QED BY <1>1, <1>2 DEF OpenerInv

LEMMA NextOpenerInv == OpenerInv /\ [OpenerNext]_openerVars => OpenerInv'
<1> SUFFICES ASSUME OpenerInv, [OpenerNext]_openerVars PROVE OpenerInv'
  OBVIOUS
<1>1. ASSUME NEW nonce \in Filter!Nonces, NEW fault \in Filter!Faults,
             OpenFrame(nonce, fault)
      PROVE  OpenerInv'
  <2>1. verdict' \in Verdicts
    BY <1>1 DEF OpenFrame, Verdicts, Filter!Faults, Admits
  <2>2. CASE verdict' = "Ok"
    <3>1. Admits(window, nonce) = "Ok"
      BY <1>1, <2>2 DEF OpenFrame
    <3>2. window' = Accept(window, nonce) /\ accepted' = accepted \cup {nonce}
      BY <1>1, <2>2 DEF OpenFrame
    <3>3. nonce \in Nat
      BY SpanAssumption DEF Filter!Nonces
    <3>4. WindowType(window', Span) /\ WindowIsHistory'
      BY <3>1, <3>2, <3>3, TypedWindow, AcceptRemembers, SpanAssumption
      DEF OpenerInv, WindowIsHistory
    <3>5. window'.highest \in Filter!Nonces \cup {NoNonce}
      BY <3>2 DEF OpenerInv, OpenerTypeOK, Accept
    <3>6. OpenerTypeOK'
      BY <3>2, <3>4, <3>5, <2>1 DEF OpenerInv, OpenerTypeOK, WindowType
    <3>7. QED BY <3>4, <3>6 DEF OpenerInv
  <2>3. CASE verdict' # "Ok"
    BY <1>1, <2>1, <2>3 DEF OpenFrame, OpenerInv, OpenerTypeOK, WindowIsHistory
  <2>4. QED BY <2>2, <2>3
<1>2. CASE UNCHANGED openerVars
  BY <1>2 DEF openerVars, OpenerInv, OpenerTypeOK, WindowIsHistory
<1>3. QED BY <1>1, <1>2 DEF OpenerNext

(* Type correctness of the receiving direction (sealed.rs, Opener).        *)
THEOREM OpenerTypeCorrect == OpenerSpec => []OpenerTypeOK
<1>1. OpenerInv => OpenerTypeOK
  BY DEF OpenerInv
<1>2. QED BY <1>1, InitOpenerInv, NextOpenerInv, PTL DEF OpenerSpec

(* In every reachable state, whatever arrived and in whatever order, the   *)
(* word of bits is the accepted history of the last Width nonces           *)
(* (Window::accept).                                                       *)
THEOREM WindowCorrect == OpenerSpec => []WindowIsHistory
<1>1. OpenerInv => WindowIsHistory
  BY DEF OpenerInv
<1>2. QED BY <1>1, InitOpenerInv, NextOpenerInv, PTL DEF OpenerSpec

(* The window implements the specification that remembers everything:      *)
(* Sealed::open gives the same verdict as a receiver that keeps the set of *)
(* all nonces it ever accepted.                                            *)
THEOREM OpenerImplementsFilter == OpenerSpec => ImplementsFilter
<1>1. OpenerInit => Filter!Init
  BY DEF OpenerInit, Filter!Init
<1>2. OpenerInv /\ [OpenerNext]_openerVars => [Filter!Next]_(Filter!vars)
  <2> SUFFICES ASSUME OpenerInv, [OpenerNext]_openerVars PROVE [Filter!Next]_(Filter!vars)
    OBVIOUS
  <2>1. ASSUME NEW nonce \in Filter!Nonces, NEW fault \in Filter!Faults,
               OpenFrame(nonce, fault)
        PROVE  Filter!Next
    <3>1. Admits(window, nonce) =
            IF \E m \in accepted : nonce + Span <= m THEN "TooOld"
            ELSE IF nonce \in accepted THEN "Replayed" ELSE "Ok"
      <4>1. nonce \in Nat
        BY SpanAssumption DEF Filter!Nonces
      <4>2. QED BY <4>1, TypedWindow, AdmitsIsHistory, SpanAssumption
                DEF OpenerInv, WindowIsHistory
    <3>2. Filter!Verdict(nonce, fault) = verdict'
      BY <2>1, <3>1 DEF OpenFrame, Filter!Verdict, Filter!Faults
    <3>3. Filter!Receive(nonce, fault)
      BY <2>1, <3>2 DEF OpenFrame, Filter!Receive
    <3>4. QED BY <3>3 DEF Filter!Next, Filter!Nonces
  <2>2. CASE UNCHANGED openerVars
    BY <2>2 DEF openerVars, Filter!vars
  <2>3. QED BY <2>1, <2>2 DEF OpenerNext
<1>3. QED BY <1>1, <1>2, InitOpenerInv, NextOpenerInv, PTL DEF OpenerSpec, ImplementsFilter, Filter!Spec

-----------------------------------------------------------------------------
(* The span of the window each side receives behind (Opener::new).         *)
SpanOf(side) == IF side = "client" THEN ReplaySpan ELSE MaxInflight + 1

NoncesOf(frames) == {NonceOf(f) : f \in frames}

(* The frames a side has sealed are as its sealer wrote them, under nonces *)
(* its counter has left behind, no two under the same one.                 *)
SealedInOrder ==
  /\ \A f \in sealed["client"] :
       /\ f.kind = Request /\ f.body = "whole" /\ f.nonce = f.req
       /\ f.req < reqNext
  /\ \A f \in sealed["controller"] :
       /\ f.kind \in {Response, Error, Event} /\ f.body = "whole"
       /\ f.kind = Event => f.req = 0
       /\ f.nonce < ctlNext
  /\ \A side \in Sides : \A f, g \in sealed[side] :
       NonceOf(f) = NonceOf(g) => f = g

(* What can be delivered was sealed.                                       *)
WireSealed == \A side \in Sides, f \in Frames :
                <<side, f>> \in wire => f \in sealed[side]

(* Each window stands for the nonces of the frames opened behind it.       *)
WindowsRemember ==
  \A side \in Sides : /\ WindowType(rx[side], SpanOf(side))
                      /\ Remembers(rx[side], NoncesOf(opened[side]))

(* A response owed or sealed answers a request the controller opened, and  *)
(* a request has one of the two at most.                                   *)
Asked(req) == \E g \in opened["controller"] : g.req = req

OneAnswer ==
  /\ \A a \in owed : a.kind = Response => Asked(a.req)
  /\ \A f \in sealed["controller"] : f.kind = Response =>
       Asked(f.req) /\ [kind |-> Response, req |-> f.req] \notin owed
  /\ \A f, g \in sealed["controller"] :
       f.kind = Response /\ g.kind = Response /\ f.req = g.req => f = g

(* The errors sealed to a request, and the one still owed to it, are paid  *)
(* for by arrivals that were altered or did not fit.                       *)
OwedError(req) == IF [kind |-> Error, req |-> req] \in owed THEN 1 ELSE 0

ErrorsPaid ==
  \A req \in Reqs :
    /\ IsFiniteSet(Errors(sealed["controller"], req))
    /\ Cardinality(Errors(sealed["controller"], req)) + OwedError(req) <= spoiled[req]

IInv ==
  /\ TypeOK
  /\ SealedInOrder
  /\ WireSealed
  /\ WindowsRemember
  /\ NonceUsedOnce
  /\ OpenedOnceAsSealed
  /\ OneAnswer
  /\ ErrorsPaid
  /\ CountedWasAltered
-----------------------------------------------------------------------------
LEMMA Distinct ==
  /\ Request \in Kinds /\ Response \in Kinds /\ Error \in Kinds /\ Event \in Kinds
  /\ Request \notin {Response, Error, Event}
  /\ Response \notin {Error, Event} /\ Error # Event
BY DEF Request, Response, Error, Event, Kinds

LEMMA SpanType == \A side \in Sides : SpanOf(side) \in Nat \ {0} /\ SpanOf(side) <= Width
BY ChannelAssumption, WidthAssumption DEF SpanOf, Sides

LEMMA NonceType == \A f \in Frames : NonceOf(f) \in Nonces /\ NonceOf(f) \in Nat
BY ChannelAssumption DEF Frames, NonceOf, Direction, Nonces, Reqs

LEMMA WholeType ==
  ASSUME NEW kind \in Kinds, NEW req \in Reqs, NEW nonce \in Nonces
  PROVE  /\ Whole(kind, req, nonce) \in Frames
         /\ Whole(kind, req, nonce).kind = kind
         /\ Whole(kind, req, nonce).req = req
         /\ Whole(kind, req, nonce).nonce = nonce
         /\ Whole(kind, req, nonce).body = "whole"
BY DEF Whole, Frames

LEMMA InitIInv == Init => IInv
<1> SUFFICES ASSUME Init PROVE IInv
  OBVIOUS
<1> USE ChannelAssumption DEF Init
<1>1. \A side \in Sides : rx[side] = NewWindow(SpanOf(side))
  BY DEF Sides, SpanOf
<1>2. TypeOK
  <2>1. rx \in [Sides -> [highest : Nonces \cup {NoNonce}, seen : SUBSET Positions,
                         span : {ReplaySpan, MaxInflight + 1}]]
    <3>1. ASSUME NEW side \in Sides
          PROVE  rx[side] \in [highest : Nonces \cup {NoNonce}, seen : SUBSET Positions,
                               span : {ReplaySpan, MaxInflight + 1}]
      <4>1. /\ NewWindow(SpanOf(side)) = [highest |-> NoNonce, seen |-> {},
                                        span |-> SpanOf(side)]
            /\ SpanOf(side) \in {ReplaySpan, MaxInflight + 1}
        BY DEF NewWindow, SpanOf
      <4>2. rx[side] = [highest |-> NoNonce, seen |-> {}, span |-> SpanOf(side)]
        BY <1>1, <4>1
      <4> HIDE DEF Init
      <4>3. QED BY <4>1, <4>2
    <3>2. rx = [side \in Sides |-> rx[side]]
      BY DEF Sides
    <3>3. QED BY <3>1, <3>2
  <2>2. reqNext \in 1 .. LastReq /\ ctlNext \in Nonces
    BY DEF Nonces
  <2>3. /\ failures \in Nat /\ replays \in 0 .. MaxReplays
        /\ altered \in 0 .. MaxUpsets /\ tight \in 0 .. MaxUpsets
    OBVIOUS
  <2>4. QED BY <2>1, <2>2, <2>3 DEF TypeOK
<1>3. SealedInOrder /\ WireSealed /\ OneAnswer
  BY DEF SealedInOrder, WireSealed, OneAnswer, Sides
<1>4. WindowsRemember
  <2>1. ASSUME NEW side \in Sides PROVE NoncesOf(opened[side]) = {}
    BY <2>1 DEF NoncesOf
  <2>2. QED BY <1>1, <2>1, SpanType, NewRemembers DEF WindowsRemember
<1>5. NonceUsedOnce /\ OpenedOnceAsSealed /\ CountedWasAltered
  BY DEF NonceUsedOnce, OpenedOnceAsSealed, CountedWasAltered, Sides, Peer
<1>6. ErrorsPaid
  <2>1. ASSUME NEW req \in Reqs
        PROVE  /\ Errors(sealed["controller"], req) = {} /\ OwedError(req) = 0
               /\ spoiled[req] = 0
    BY DEF Errors, OwedError, Sides
  <2>2. IsFiniteSet({}) /\ Cardinality({}) = 0
    BY FS_EmptySet
  <2> HIDE DEF Init
  <2>3. QED BY <2>1, <2>2 DEF ErrorsPaid
<1>7. QED BY <1>2, <1>3, <1>4, <1>5, <1>6 DEF IInv

(* What Sealed::open says of a frame that reaches the side it was sealed   *)
(* for unaltered: its shape never stops it, and it opens only if its nonce *)
(* has not been opened behind this window.                                 *)
LEMMA GenuineResult ==
  ASSUME IInv, NEW side \in Sides, NEW f \in Frames, NEW fits \in BOOLEAN,
         f \in sealed[Peer(side)]
  PROVE  /\ OpenResult(rx[side], f, fits, TRUE)
              \in {"Ok", "Reserved", "TooOld", "Replayed", "DestinationTooSmall"}
         /\ OpenResult(rx[side], f, fits, TRUE) = "Ok" =>
              /\ Admits(rx[side], NonceOf(f)) = "Ok"
              /\ NonceOf(f) \notin NoncesOf(opened[side])
<1>1. Decode(f) = "Ok"
  <2>1. CASE side = "client"
    BY <2>1, Distinct DEF IInv, SealedInOrder, Peer, Decode, Direction
  <2>2. CASE side = "controller"
    BY <2>2, Distinct DEF IInv, SealedInOrder, Peer, Decode, Direction
  <2>3. QED BY <2>1, <2>2 DEF Sides
<1>2. f.body = "whole"
  BY DEF IInv, SealedInOrder, Peer, Sides
<1>3. Admits(rx[side], NonceOf(f)) =
        IF \E m \in NoncesOf(opened[side]) : NonceOf(f) + SpanOf(side) <= m THEN "TooOld"
        ELSE IF NonceOf(f) \in NoncesOf(opened[side]) THEN "Replayed" ELSE "Ok"
  <2>1. NoncesOf(opened[side]) \in SUBSET Nat
    BY NonceType DEF IInv, TypeOK, NoncesOf
  <2>2. QED BY <2>1, NonceType, SpanType, AdmitsIsHistory DEF IInv, WindowsRemember
<1>4. Admits(rx[side], NonceOf(f)) \in {"Ok", "TooOld", "Replayed"}
  BY <1>3
<1>5. QED BY <1>1, <1>2, <1>3, <1>4 DEF OpenResult

(* The two ways a step preserves the parts of the invariant that speak of  *)
(* sealing, and of opening.                                                *)
LEMMA SealingKept ==
  ASSUME IInv, UNCHANGED <<reqNext, ctlNext, sealed, reused>>, wire' \subseteq wire
  PROVE  SealedInOrder' /\ WireSealed' /\ NonceUsedOnce'
BY DEF IInv, SealedInOrder, WireSealed, NonceUsedOnce

LEMMA OpeningKept ==
  ASSUME IInv, UNCHANGED <<rx, opened, reopened>>,
         \A side \in Sides : sealed[side] \subseteq sealed'[side]
  PROVE  WindowsRemember' /\ OpenedOnceAsSealed'
<1>1. WindowsRemember'
  BY DEF IInv, WindowsRemember
<1>2. OpenedOnceAsSealed'
  <2>1. \A side \in Sides : Peer(side) \in Sides
    BY DEF Peer, Sides
  <2>2. QED BY <2>1 DEF IInv, OpenedOnceAsSealed
<1>3. QED BY <1>1, <1>2

(* An error newly owed is paid for by a newly spoiled arrival.             *)
LEMMA PaidKept ==
  ASSUME IInv, sealed' = sealed, spoiled' \in [Reqs -> Nat],
         \A r \in Reqs :
           /\ spoiled[r] <= spoiled'[r]
           /\ [kind |-> Error, req |-> r] \in owed' =>
                \/ [kind |-> Error, req |-> r] \in owed
                \/ spoiled'[r] = spoiled[r] + 1
  PROVE  ErrorsPaid'
<1> SUFFICES ASSUME NEW r \in Reqs
             PROVE  /\ IsFiniteSet(Errors(sealed'["controller"], r))
                    /\ Cardinality(Errors(sealed'["controller"], r)) + OwedError(r)'
                         <= spoiled'[r]
  BY DEF ErrorsPaid
<1> DEFINE n == Cardinality(Errors(sealed["controller"], r))
<1>1. /\ IsFiniteSet(Errors(sealed["controller"], r))
      /\ n + OwedError(r) <= spoiled[r]
  BY DEF IInv, ErrorsPaid
<1>2. n \in Nat
  BY <1>1, FS_CardinalityType
<1>3. spoiled[r] \in Nat /\ spoiled'[r] \in Nat
  BY DEF IInv, TypeOK
<1> HIDE DEF n
<1>4. n + OwedError(r)' <= spoiled'[r]
  BY <1>1, <1>2, <1>3 DEF OwedError
<1>5. QED BY <1>1, <1>4 DEF n

(* What ErrorsPaid says of a request goes on when less is owed to it, and  *)
(* when the error that was owed is sealed.                                 *)
LEMMA PaidLess ==
  ASSUME IInv, spoiled' = spoiled, NEW r \in Reqs, NEW errors,
         errors = Errors(sealed["controller"], r), NEW owing \in Nat,
         owing <= OwedError(r)
  PROVE  IsFiniteSet(errors) /\ Cardinality(errors) + owing <= spoiled'[r]
<1>1. IsFiniteSet(errors) /\ Cardinality(errors) + OwedError(r) <= spoiled[r]
  BY DEF IInv, ErrorsPaid
<1>2. Cardinality(errors) \in Nat
  BY <1>1, FS_CardinalityType
<1>3. spoiled[r] \in Nat /\ OwedError(r) \in Nat
  BY DEF IInv, TypeOK, OwedError
<1>4. QED BY <1>1, <1>2, <1>3

LEMMA PaidMore ==
  ASSUME IInv, spoiled' = spoiled, NEW r \in Reqs, NEW f,
         f \notin Errors(sealed["controller"], r), OwedError(r) = 1,
         NEW errors, errors = Errors(sealed["controller"], r) \cup {f}
  PROVE  IsFiniteSet(errors) /\ Cardinality(errors) + 0 <= spoiled'[r]
<1> DEFINE before == Errors(sealed["controller"], r)
<1>1. IsFiniteSet(before) /\ Cardinality(before) + 1 <= spoiled[r]
  BY DEF IInv, ErrorsPaid
<1>2. f \notin before /\ errors = before \cup {f}
  OBVIOUS
<1> HIDE DEF before
<1>3. IsFiniteSet(errors) /\ Cardinality(errors) = Cardinality(before) + 1
  BY <1>1, <1>2, FS_AddElement
<1>4. Cardinality(before) \in Nat
  BY <1>1, FS_CardinalityType
<1>5. QED BY <1>1, <1>3, <1>4

LEMMA FitsType ==
  ASSUME IInv, NEW fits \in BOOLEAN, Fits(fits)
  PROVE  tight' \in 0 .. MaxUpsets
BY ChannelAssumption DEF IInv, TypeOK, Fits

(* An unaltered frame reaches the side it was sealed for: at most it opens *)
(* for the first time, and it never counts as a failure.                   *)
LEMMA OpenGenuine ==
  ASSUME IInv, NEW side \in Sides, NEW f \in Frames, NEW fits \in BOOLEAN,
         <<Peer(side), f>> \in wire, Open(side, f, fits, TRUE),
         wire' \subseteq wire, replays' \in 0 .. MaxReplays, altered' = altered
  PROVE  IInv'
<1> DEFINE result == OpenResult(rx[side], f, fits, TRUE)
<1>1. f \in sealed[Peer(side)] /\ Peer(side) \in Sides
  BY DEF IInv, WireSealed, Peer, Sides
<1>2. /\ result \in {"Ok", "Reserved", "TooOld", "Replayed", "DestinationTooSmall"}
      /\ result = "Ok" => /\ Admits(rx[side], NonceOf(f)) = "Ok"
                          /\ NonceOf(f) \notin NoncesOf(opened[side])
  BY <1>1, GenuineResult
<1> HIDE DEF result
<1>3. SealedInOrder' /\ WireSealed' /\ NonceUsedOnce'
  BY SealingKept DEF Open
<1>4. CountedWasAltered'
  BY <1>2 DEF result, Open, Counts, IInv, CountedWasAltered
<1>5. /\ UNCHANGED <<reqNext, ctlNext, sealed, reused>>
      /\ tight' \in 0 .. MaxUpsets /\ failures' = failures
  BY <1>2, FitsType DEF result, Open, Counts
<1>9. /\ spoiled' \in [Reqs -> Nat]
      /\ \A r \in Reqs : spoiled[r] <= spoiled'[r]
  BY DEF Open, IInv, TypeOK, Frames
<1>6. CASE result # "Ok"
  <2>1. /\ UNCHANGED <<rx, opened, reopened, outstanding>>
        /\ owed' = owed \/ owed' = owed \cup {[kind |-> Error, req |-> f.req]}
        /\ refused' \subseteq refused \cup {f.req}
    BY <1>6 DEF result, Open, Refusal, IInv, TypeOK
  <2>a. owed' # owed => side = "controller" /\ ~fits
    <3>1. result = "DestinationTooSmall" => ~fits
      BY DEF result, OpenResult, Decode, Admits
    <3>2. QED BY <1>2, <1>6, <3>1 DEF result, Open, Refusal
  <2>b. ErrorsPaid'
    <3>1. ASSUME NEW r \in Reqs, [kind |-> Error, req |-> r] \in owed',
                 [kind |-> Error, req |-> r] \notin owed
          PROVE  spoiled'[r] = spoiled[r] + 1
      <4>1. r = f.req /\ side = "controller" /\ ~fits
        BY <2>1, <2>a, <3>1
      <4>2. QED BY <4>1 DEF Open, IInv, TypeOK
    <3>2. QED BY <1>5, <1>9, <3>1, PaidKept
  <2>2. WindowsRemember' /\ OpenedOnceAsSealed'
    BY <1>5, <2>1, OpeningKept
  <2>3. OneAnswer'
    BY <1>5, <2>1, Distinct DEF IInv, OneAnswer, Asked
  <2>4. f.req \in Reqs
    BY DEF Frames
  <2>5. TypeOK'
    BY <1>5, <1>9, <2>1, <2>4 DEF IInv, TypeOK
  <2>6. QED BY <1>3, <1>4, <2>2, <2>3, <2>b, <2>5 DEF IInv
<1>7. CASE result = "Ok"
  <2>1. /\ rx' = [rx EXCEPT ![side] = Accept(rx[side], NonceOf(f))]
        /\ opened' = [opened EXCEPT ![side] = opened[side] \cup {f}]
        /\ reopened' = (reopened \/ f \in opened[side])
        /\ owed' = IF side = "controller"
                   THEN owed \cup {[kind |-> Response, req |-> f.req]} ELSE owed
        /\ outstanding' \subseteq outstanding
        /\ refused' = refused
    BY <1>7 DEF result, Open, Response
  <2>2. f \notin opened[side]
    BY <1>2, <1>7 DEF NoncesOf
  <2>3. OpenedOnceAsSealed'
    BY <1>1, <1>5, <2>1, <2>2 DEF IInv, TypeOK, OpenedOnceAsSealed
  <2>4. WindowsRemember'
    <3>1. NoncesOf(opened'[side]) = NoncesOf(opened[side]) \cup {NonceOf(f)}
      BY <2>1 DEF NoncesOf, IInv, TypeOK
    <3>2. NoncesOf(opened[side]) \in SUBSET Nat
      BY NonceType DEF IInv, TypeOK, NoncesOf
    <3> DEFINE after == Accept(rx[side], NonceOf(f))
               before == NoncesOf(opened[side])
    <3>3. /\ WindowType(after, SpanOf(side))
          /\ Remembers(after, before \cup {NonceOf(f)})
      <4>1. WindowType(rx[side], SpanOf(side)) /\ Remembers(rx[side], before)
        BY DEF IInv, WindowsRemember
      <4>2. Admits(rx[side], NonceOf(f)) = "Ok"
        BY <1>2, <1>7
      <4> HIDE DEF before
      <4>3. QED BY <4>1, <4>2, <3>2, NonceType, SpanType, AcceptRemembers DEF before
    <3>a. rx'[side] = after
      BY <2>1 DEF IInv, TypeOK
    <3>b. /\ WindowType(rx'[side], SpanOf(side))
          /\ Remembers(rx'[side], NoncesOf(opened'[side]))
      BY <3>1, <3>3, <3>a
    <3>4. \A other \in Sides : other # side =>
            rx'[other] = rx[other] /\ opened'[other] = opened[other]
      BY <2>1 DEF IInv, TypeOK
    <3>5. QED BY <3>b, <3>4 DEF IInv, WindowsRemember
  <2>5. OneAnswer'
    <3>1. CASE side = "client"
      BY <1>5, <2>1, <3>1 DEF IInv, TypeOK, OneAnswer, Asked, Sides
    <3>2. CASE side = "controller"
      <4>1. /\ opened'["controller"] = opened["controller"] \cup {f}
            /\ owed' = owed \cup {[kind |-> Response, req |-> f.req]}
            /\ sealed' = sealed
        BY <1>5, <2>1, <3>2 DEF IInv, TypeOK
      <4>2. f.kind = Request /\ NonceOf(f) = f.req
        BY <1>1, <3>2, Distinct DEF IInv, SealedInOrder, Peer, NonceOf, Direction
      <4>3. ASSUME NEW h \in sealed["controller"], h.kind = Response
            PROVE  h.req # f.req
        <5>1. PICK g \in opened["controller"] : g.req = h.req
          BY <4>3 DEF IInv, OneAnswer, Asked
        <5>2. g \in sealed["client"] /\ NonceOf(g) = g.req
          <6>1. g \in sealed["client"]
            BY DEF IInv, OpenedOnceAsSealed, Sides, Peer
          <6>2. QED BY <6>1, Distinct DEF IInv, SealedInOrder, NonceOf, Direction
        <5>3. NonceOf(g) \in NoncesOf(opened["controller"])
          BY DEF NoncesOf
        <5>4. QED BY <1>2, <1>7, <3>2, <4>2, <5>1, <5>2, <5>3
      <4>4. \A a \in owed' : a.kind = Response => Asked(a.req)'
        BY <4>1 DEF IInv, OneAnswer, Asked
      <4>5. \A h \in sealed'["controller"] : h.kind = Response =>
              Asked(h.req)' /\ [kind |-> Response, req |-> h.req] \notin owed'
        BY <4>1, <4>3 DEF IInv, OneAnswer, Asked
      <4>6. QED BY <4>1, <4>4, <4>5 DEF IInv, OneAnswer
    <3>3. QED BY <3>1, <3>2 DEF Sides
  <2>6. TypeOK'
    <3>1. rx'[side] \in [highest : Nonces \cup {NoNonce}, seen : SUBSET Positions,
                         span : {ReplaySpan, MaxInflight + 1}]
      <4>1. /\ rx'[side] = [highest |-> rx'[side].highest, seen |-> rx'[side].seen,
                            span |-> SpanOf(side)]
            /\ rx'[side].seen \subseteq Positions
        BY <2>4 DEF WindowsRemember, WindowType
      <4>2. rx'[side].highest \in Nonces \cup {NoNonce}
        BY <2>1, NonceType DEF IInv, TypeOK, Accept
      <4>3. SpanOf(side) \in {ReplaySpan, MaxInflight + 1}
        BY DEF SpanOf
      <4>4. QED BY <4>1, <4>2, <4>3
    <3>2. rx' \in [Sides -> [highest : Nonces \cup {NoNonce}, seen : SUBSET Positions,
                             span : {ReplaySpan, MaxInflight + 1}]]
      BY <2>1, <3>1 DEF IInv, TypeOK
    <3>3. opened' \in [Sides -> SUBSET Frames] /\ f.req \in Reqs
      BY <2>1 DEF IInv, TypeOK, Frames
    <3>4. owed' \subseteq [kind : {Response, Error}, req : Reqs]
      BY <2>1, <3>3 DEF IInv, TypeOK
    <3>5. reopened' \in BOOLEAN
      BY <2>1 DEF IInv, TypeOK
    <3>6. QED BY <1>5, <1>9, <2>1, <3>2, <3>3, <3>4, <3>5 DEF IInv, TypeOK
  <2>7. ErrorsPaid'
    <3>1. \A r \in Reqs : [kind |-> Error, req |-> r] \in owed' =>
                           [kind |-> Error, req |-> r] \in owed
      BY <2>1, Distinct
    <3>2. QED BY <1>5, <1>9, <3>1, PaidKept
  <2>8. QED BY <1>3, <1>4, <2>3, <2>4, <2>5, <2>6, <2>7 DEF IInv
<1>8. QED BY <1>6, <1>7

(* An altered frame, or one at the side that sealed it, opens nowhere; it  *)
(* may count as a failure, and is one alteration.                          *)
LEMMA OpenForged ==
  ASSUME IInv, NEW side \in Sides, NEW f \in Frames,
         altered + tight < MaxUpsets, Open(side, f, TRUE, FALSE),
         wire' = wire, replays' = replays, altered' = altered + 1
  PROVE  IInv'
<1> DEFINE result == OpenResult(rx[side], f, TRUE, FALSE)
<1>1. result # "Ok"
  BY DEF OpenResult
<1>2. Refusal(result) \in {"silence", Error} /\ Refusal(result) # Response
  BY Distinct DEF Refusal, Response
<1> HIDE DEF result
<1>3. /\ UNCHANGED <<reqNext, ctlNext, sealed, reused, rx, opened, reopened,
                     outstanding>>
      /\ owed' = owed \/ owed' = owed \cup {[kind |-> Error, req |-> f.req]}
      /\ refused' = refused
      /\ tight' = tight
      /\ failures' = failures \/ failures' = failures + 1
  BY <1>1, <1>2 DEF result, Open, Fits, IInv, TypeOK
<1>a. owed' # owed => side = "controller"
  BY DEF Open
<1>b. /\ spoiled' \in [Reqs -> Nat]
      /\ \A r \in Reqs : spoiled[r] <= spoiled'[r]
      /\ side = "controller" => spoiled'[f.req] = spoiled[f.req] + 1
  BY DEF Open, IInv, TypeOK, Frames
<1>c. ErrorsPaid'
  <2>1. ASSUME NEW r \in Reqs, [kind |-> Error, req |-> r] \in owed',
               [kind |-> Error, req |-> r] \notin owed
        PROVE  spoiled'[r] = spoiled[r] + 1
    <3>1. r = f.req /\ side = "controller"
      BY <1>3, <1>a, <2>1
    <3>2. QED BY <1>b, <3>1
  <2>2. QED BY <1>3, <1>b, <2>1, PaidKept
<1>4. SealedInOrder' /\ WireSealed' /\ NonceUsedOnce'
  BY <1>3, SealingKept
<1>5. WindowsRemember' /\ OpenedOnceAsSealed'
  BY <1>3, OpeningKept
<1>6. OneAnswer'
  BY <1>3, Distinct DEF IInv, OneAnswer, Asked
<1>7. CountedWasAltered'
  BY <1>3 DEF IInv, TypeOK, CountedWasAltered
<1>8. TypeOK'
  <2>1. f.req \in Reqs
    BY DEF Frames
  <2>2. owed' \subseteq [kind : {Response, Error}, req : Reqs]
    BY <1>3, <2>1 DEF IInv, TypeOK
  <2>3. altered' \in 0 .. MaxUpsets /\ failures' \in Nat
    BY <1>3, ChannelAssumption DEF IInv, TypeOK
  <2>4. QED BY <1>3, <1>b, <2>2, <2>3 DEF IInv, TypeOK
<1>9. QED BY <1>4, <1>5, <1>6, <1>7, <1>8, <1>c DEF IInv

(* A frame written under the counter's nonce: the counter has moved past   *)
(* it, so no frame of this side carries it already.                        *)
LEMMA SealRequestStep ==
  ASSUME IInv, NEW fits \in BOOLEAN, SealRequest(fits)
  PROVE  IInv'
<1> DEFINE f == Whole(Request, reqNext, reqNext)
<1>1. /\ reqNext \in Reqs /\ reqNext \in Nonces /\ reqNext' = reqNext + 1
      /\ reqNext' \in 1 .. LastReq
  BY ChannelAssumption DEF SealRequest, IInv, TypeOK, AfterSeal, Reqs, Nonces
<1>2. /\ f \in Frames /\ f.kind = Request /\ f.req = reqNext
      /\ f.nonce = reqNext /\ f.body = "whole"
  BY <1>1, WholeType, Distinct
<1>3. /\ UNCHANGED <<ctlNext, rx, opened, reopened, owed, refused, spoiled,
                     failures, replays, altered>>
      /\ tight' \in 0 .. MaxUpsets
  BY FitsType DEF SealRequest
<1>4. CASE ~fits
  <2>1. UNCHANGED <<wire, sealed, reused, outstanding>>
    BY <1>4 DEF SealRequest, NotWritten
  <2>2. SealedInOrder' /\ WireSealed' /\ NonceUsedOnce'
    <3>1. \A g \in sealed["client"] : g.req < reqNext + 1
      BY <1>1 DEF IInv, TypeOK, SealedInOrder, Frames, Reqs, Sides
    <3>2. QED BY <1>1, <1>3, <2>1, <3>1
              DEF IInv, SealedInOrder, WireSealed, NonceUsedOnce
  <2>3. WindowsRemember' /\ OpenedOnceAsSealed'
    BY <1>3, <2>1, OpeningKept
  <2>4. OneAnswer' /\ ErrorsPaid' /\ CountedWasAltered'
    BY <1>3, <2>1 DEF IInv, OneAnswer, Asked, ErrorsPaid, OwedError, CountedWasAltered
  <2>5. TypeOK'
    BY <1>1, <1>3, <2>1 DEF IInv, TypeOK
  <2>6. QED BY <2>2, <2>3, <2>4, <2>5 DEF IInv
<1>5. CASE fits
  <2> HIDE DEF f
  <2>1. /\ wire' = wire \cup {<<"client", f>>}
        /\ sealed' = [sealed EXCEPT !["client"] = sealed["client"] \cup {f}]
        /\ reused' = (reused \/ \E g \in sealed["client"] : NonceOf(g) = NonceOf(f))
        /\ outstanding' = outstanding \cup {reqNext}
    BY <1>5 DEF SealRequest, Written, f
  <2>2. /\ sealed'["client"] = sealed["client"] \cup {f}
        /\ sealed'["controller"] = sealed["controller"]
    BY <2>1 DEF IInv, TypeOK, Sides
  <2>3. /\ NonceOf(f) = reqNext
        /\ \A g \in sealed["client"] : NonceOf(g) = g.req /\ g.req < reqNext
                                       /\ g.req \in Nat
    BY <1>2, ChannelAssumption
    DEF NonceOf, Direction, IInv, TypeOK, SealedInOrder, Frames, Reqs, Sides
  <2>4. \A g \in sealed["client"] : NonceOf(g) # NonceOf(f)
    BY <1>1, <2>3 DEF Reqs
  <2>5. NonceUsedOnce'
    BY <2>1, <2>4 DEF IInv, NonceUsedOnce
  <2>6. SealedInOrder'
    <3>1. \A g \in sealed'["client"] :
            /\ g.kind = Request /\ g.body = "whole" /\ g.nonce = g.req
            /\ g.req < reqNext'
      BY <1>1, <1>2, <2>2, <2>3 DEF IInv, SealedInOrder, Reqs
    <3>2. \A g, h \in sealed'["client"] : NonceOf(g) = NonceOf(h) => g = h
      BY <2>2, <2>4 DEF IInv, SealedInOrder, Sides
    <3>3. \A side \in Sides : \A g, h \in sealed'[side] :
            NonceOf(g) = NonceOf(h) => g = h
      BY <2>2, <3>2 DEF IInv, SealedInOrder, Sides
    <3>4. QED BY <1>3, <2>2, <3>1, <3>3 DEF IInv, SealedInOrder
  <2>7. WireSealed'
    BY <2>1, <2>2 DEF IInv, WireSealed, Sides
  <2>8. WindowsRemember' /\ OpenedOnceAsSealed'
    <3>1. \A side \in Sides : sealed[side] \subseteq sealed'[side]
      BY <2>2 DEF Sides
    <3>2. QED BY <1>3, <3>1, OpeningKept
  <2>9. OneAnswer' /\ ErrorsPaid' /\ CountedWasAltered'
    BY <1>3, <2>2 DEF IInv, OneAnswer, Asked, ErrorsPaid, OwedError, CountedWasAltered
  <2>10. TypeOK'
    <3>1. wire' \subseteq Sides \X Frames /\ sealed' \in [Sides -> SUBSET Frames]
      BY <1>2, <2>1 DEF IInv, TypeOK, Sides
    <3>2. reused' \in BOOLEAN /\ outstanding' \subseteq Reqs
      BY <1>1, <2>1, <2>5 DEF IInv, TypeOK, NonceUsedOnce
    <3>3. QED BY <1>1, <1>3, <3>1, <3>2 DEF IInv, TypeOK
  <2>11. QED BY <2>5, <2>6, <2>7, <2>8, <2>9, <2>10 DEF IInv
<1>6. QED BY <1>4, <1>5

(* The same for the controller: a response it seals is one it owed, and    *)
(* owes no longer.                                                         *)
LEMMA SealControllerStep ==
  ASSUME IInv, NEW kind \in {Response, Error, Event}, NEW req \in Reqs,
         NEW fits \in BOOLEAN, SealController(kind, req, fits)
  PROVE  IInv'
<1> DEFINE f == Whole(kind, req, ctlNext)
           a == [kind |-> kind, req |-> req]
<1>1. /\ ctlNext \in Nonces /\ ctlNext' = ctlNext + 1 /\ ctlNext' \in Nonces
  BY ChannelAssumption DEF SealController, IInv, TypeOK, AfterSeal, Nonces
<1>2. /\ f \in Frames /\ f.kind = kind /\ f.req = req
      /\ f.nonce = ctlNext /\ f.body = "whole"
  BY <1>1, WholeType, Distinct
<1>3. /\ UNCHANGED <<reqNext, rx, opened, reopened, outstanding, refused,
                     spoiled, failures, replays, altered>>
      /\ tight' \in 0 .. MaxUpsets
  BY FitsType DEF SealController
<1>4. /\ owed' \subseteq owed
      /\ kind = Event => req = 0
      /\ kind # Event => a \in owed /\ a \notin owed'
  BY Distinct DEF SealController, IInv, TypeOK
<1>5. CASE ~fits
  <2>1. UNCHANGED <<wire, sealed, reused>>
    BY <1>5 DEF SealController, NotWritten
  <2>2. SealedInOrder' /\ WireSealed' /\ NonceUsedOnce'
    <3>1. \A g \in sealed["controller"] : g.nonce < ctlNext + 1
      BY <1>1 DEF IInv, TypeOK, SealedInOrder, Frames, Nonces, Sides
    <3>2. QED BY <1>1, <1>3, <2>1, <3>1
              DEF IInv, SealedInOrder, WireSealed, NonceUsedOnce
  <2>3. WindowsRemember' /\ OpenedOnceAsSealed'
    BY <1>3, <2>1, OpeningKept
  <2>4. OneAnswer' /\ CountedWasAltered'
    BY <1>3, <1>4, <2>1, Distinct DEF IInv, OneAnswer, Asked, CountedWasAltered
  <2>a. ErrorsPaid'
    BY <1>3, <1>4, <2>1, PaidKept DEF IInv, TypeOK
  <2>5. TypeOK'
    BY <1>1, <1>3, <1>4, <2>1 DEF IInv, TypeOK
  <2>6. QED BY <2>2, <2>3, <2>4, <2>a, <2>5 DEF IInv
<1>6. CASE fits
  <2> HIDE DEF f
  <2>1. /\ wire' = wire \cup {<<"controller", f>>}
        /\ sealed' = [sealed EXCEPT !["controller"] = sealed["controller"] \cup {f}]
        /\ reused' = (reused \/ \E g \in sealed["controller"] : NonceOf(g) = NonceOf(f))
    BY <1>6 DEF SealController, Written, f
  <2>2. /\ sealed'["controller"] = sealed["controller"] \cup {f}
        /\ sealed'["client"] = sealed["client"]
    BY <2>1 DEF IInv, TypeOK, Sides
  <2>3. /\ NonceOf(f) = ctlNext
        /\ \A g \in sealed["controller"] : NonceOf(g) = g.nonce /\ g.nonce < ctlNext
                                       /\ g.nonce \in Nat
    BY <1>2, ChannelAssumption, Distinct
    DEF NonceOf, Direction, IInv, TypeOK, SealedInOrder, Frames, Nonces, Sides
  <2>4. \A g \in sealed["controller"] : NonceOf(g) # NonceOf(f)
    BY <1>1, <2>3 DEF Nonces
  <2>5. NonceUsedOnce'
    BY <2>1, <2>4 DEF IInv, NonceUsedOnce
  <2>6. SealedInOrder'
    <3>1. \A g \in sealed'["controller"] :
            /\ g.kind \in {Response, Error, Event} /\ g.body = "whole"
            /\ g.kind = Event => g.req = 0
            /\ g.nonce < ctlNext'
      BY <1>1, <1>2, <1>4, <2>2, <2>3 DEF IInv, SealedInOrder, Nonces
    <3>2. \A g, h \in sealed'["controller"] : NonceOf(g) = NonceOf(h) => g = h
      BY <2>2, <2>4 DEF IInv, SealedInOrder, Sides
    <3>3. \A side \in Sides : \A g, h \in sealed'[side] :
            NonceOf(g) = NonceOf(h) => g = h
      BY <2>2, <3>2 DEF IInv, SealedInOrder, Sides
    <3>4. QED BY <1>3, <2>2, <3>1, <3>3 DEF IInv, SealedInOrder
  <2>7. WireSealed'
    BY <2>1, <2>2 DEF IInv, WireSealed, Sides
  <2>8. WindowsRemember' /\ OpenedOnceAsSealed'
    <3>1. \A side \in Sides : sealed[side] \subseteq sealed'[side]
      BY <2>2 DEF Sides
    <3>2. QED BY <1>3, <3>1, OpeningKept
  <2>9. OneAnswer'
    <3>1. \A r \in Reqs : Asked(r)' <=> Asked(r)
      BY <1>3 DEF Asked
    <3>2. \A b \in owed' : b.kind = Response => Asked(b.req)'
      BY <1>3, <1>4 DEF IInv, OneAnswer, Asked
    <3>3. kind = Response =>
            /\ Asked(req)'
            /\ \A h \in sealed["controller"] : h.kind = Response => h.req # req
      BY <1>3, <1>4, Distinct DEF IInv, OneAnswer, Asked
    <3>4. \A h \in sealed'["controller"] : h.kind = Response =>
            Asked(h.req)' /\ [kind |-> Response, req |-> h.req] \notin owed'
      BY <1>2, <1>3, <1>4, <2>2, <3>3, Distinct DEF IInv, OneAnswer, Asked
    <3>5. \A g, h \in sealed'["controller"] :
            g.kind = Response /\ h.kind = Response /\ g.req = h.req => g = h
      BY <1>2, <2>2, <3>3 DEF IInv, OneAnswer
    <3>6. QED BY <3>2, <3>4, <3>5 DEF OneAnswer
  <2>10. CountedWasAltered'
    BY <1>3 DEF IInv, CountedWasAltered
  <2>11. TypeOK'
    BY <1>1, <1>2, <1>3, <1>4, <2>1, <2>5 DEF IInv, TypeOK, NonceUsedOnce, Sides
  <2>12. ErrorsPaid'
    <3> SUFFICES ASSUME NEW r \in Reqs
                 PROVE  /\ IsFiniteSet(Errors(sealed'["controller"], r))
                        /\ Cardinality(Errors(sealed'["controller"], r))
                             + OwedError(r)' <= spoiled'[r]
      BY DEF ErrorsPaid
    <3>1. CASE kind # Error \/ r # req
      <4>1. Errors(sealed'["controller"], r) = Errors(sealed["controller"], r)
        BY <1>2, <2>2, <3>1 DEF Errors
      <4>2. OwedError(r)' <= OwedError(r) /\ OwedError(r)' \in Nat
        BY <1>4 DEF OwedError
      <4>3. spoiled' = spoiled
        BY <1>3
      <4>4. QED BY <4>1, <4>2, <4>3, PaidLess
    <3>2. CASE kind = Error /\ r = req
      <4>1. Errors(sealed'["controller"], r)
              = Errors(sealed["controller"], r) \cup {f}
        BY <1>2, <2>2, <3>2 DEF Errors
      <4>2. f \notin Errors(sealed["controller"], r)
        BY <2>4 DEF Errors
      <4>3. OwedError(r) = 1 /\ OwedError(r)' = 0
        BY <1>4, <3>2, Distinct DEF OwedError
      <4>4. spoiled' = spoiled
        BY <1>3
      <4>5. QED BY <4>1, <4>2, <4>3, <4>4, PaidMore
    <3>3. QED BY <3>1, <3>2
  <2>13. QED BY <2>5, <2>6, <2>7, <2>8, <2>9, <2>10, <2>11, <2>12 DEF IInv
<1>7. QED BY <1>5, <1>6

LEMMA AlterationsType ==
  ASSUME NEW f \in Frames PROVE Alterations(f) \subseteq Frames
BY DEF Frames, Alterations

LEMMA NextIInv == IInv /\ [Next]_vars => IInv'
<1> SUFFICES ASSUME IInv, [Next]_vars PROVE IInv'
  OBVIOUS
<1>m. \A m \in wire : m[1] \in Sides /\ m[2] \in Frames /\ m = <<m[1], m[2]>>
  BY DEF IInv, TypeOK
<1>1. ASSUME NEW fits \in BOOLEAN, SealRequest(fits) PROVE IInv'
  BY <1>1, SealRequestStep
<1>2. ASSUME NEW kind \in {Response, Error, Event}, NEW req \in Reqs,
             NEW fits \in BOOLEAN, SealController(kind, req, fits)
      PROVE  IInv'
  BY <1>2, SealControllerStep
<1>3. ASSUME NEW side \in Sides, NEW m \in wire, NEW fits \in BOOLEAN,
             Deliver(side, m[2], fits)
      PROVE  IInv'
  <2>1. replays' \in 0 .. MaxReplays
    BY <1>3 DEF Deliver, IInv, TypeOK
  <2>2. QED BY <1>3, <1>m, <2>1, OpenGenuine DEF Deliver
<1>4. ASSUME NEW side \in Sides, NEW m \in wire, NEW fits \in BOOLEAN,
             Replay(side, m[2], fits)
      PROVE  IInv'
  <2>1. replays' \in 0 .. MaxReplays
    BY <1>4, ChannelAssumption DEF Replay, IInv, TypeOK
  <2>2. QED BY <1>4, <1>m, <2>1, OpenGenuine DEF Replay
<1>5. ASSUME NEW side \in Sides, NEW m \in wire, NEW g \in Alterations(m[2]),
             Alter(m[1], side, m[2], g)
      PROVE  IInv'
  <2>1. g \in Frames
    BY <1>m, AlterationsType
  <2>2. QED BY <1>5, <2>1, OpenForged DEF Alter
<1>6. CASE UNCHANGED vars
  <2>1. SealedInOrder' /\ WireSealed' /\ NonceUsedOnce'
    BY <1>6, SealingKept DEF vars
  <2>2. WindowsRemember' /\ OpenedOnceAsSealed'
    BY <1>6, OpeningKept DEF vars
  <2>3. TypeOK' /\ OneAnswer' /\ CountedWasAltered'
    BY <1>6 DEF vars, IInv, TypeOK, OneAnswer, Asked, CountedWasAltered
  <2>5. ErrorsPaid'
    BY <1>6, PaidKept DEF vars, IInv, TypeOK
  <2>4. QED BY <2>1, <2>2, <2>3, <2>5 DEF IInv
<1>7. QED BY <1>1, <1>2, <1>3, <1>4, <1>5, <1>6 DEF Next

-----------------------------------------------------------------------------
(* Type correctness of the channel: counters, windows, frames, bounds.     *)
THEOREM TypeCorrect == Spec => []TypeOK
<1>1. IInv => TypeOK
  BY DEF IInv
<1>2. QED BY <1>1, InitIInv, NextIInv, PTL DEF Spec

(* P-232: a nonce keys at most one frame of a direction, whether or not    *)
(* the frames fitted their buffers, up to the counters' last values        *)
(* (RequestSealer::seal, ControllerSealer::seal).                          *)
THEOREM NoncesNeverReused == Spec => []NonceUsedOnce
<1>1. IInv => NonceUsedOnce
  BY DEF IInv
<1>2. QED BY <1>1, InitIInv, NextIInv, PTL DEF Spec

(* However frames are delayed, replayed, reflected and altered, each one   *)
(* opens once at most and is one its peer sealed (Sealed::open).           *)
THEOREM OpenedOnce == Spec => []OpenedOnceAsSealed
<1>1. IInv => OpenedOnceAsSealed
  BY DEF IInv
<1>2. QED BY <1>1, InitIInv, NextIInv, PTL DEF Spec

(* A request has one response at most, to a request the controller opened, *)
(* and no error but for an arrival that was altered or did not fit: what   *)
(* the window turns away is answered with silence (SealError::refusal).    *)
THEOREM OneAnswerOnly == Spec => []OneAnswerPerRequest
<1>1. IInv => OneAnswerPerRequest
  <2> SUFFICES ASSUME IInv PROVE OneAnswerPerRequest
    OBVIOUS
  <2>1. opened["client"] \subseteq sealed["controller"]
    BY DEF IInv, OpenedOnceAsSealed, Sides, Peer
  <2>2. \A f \in opened["client"] : f.kind = Response =>
          /\ \E g \in opened["controller"] : g.req = f.req
          /\ \A h \in opened["client"] : h.kind = Response /\ h.req = f.req => h = f
    BY <2>1 DEF IInv, OneAnswer, Asked
  <2>3. ASSUME NEW req \in Reqs
        PROVE  Cardinality(Errors(opened["client"], req)) <= spoiled[req]
    <3> DEFINE all == Errors(sealed["controller"], req)
               some == Errors(opened["client"], req)
    <3>1. IsFiniteSet(all) /\ Cardinality(all) + OwedError(req) <= spoiled[req]
      BY DEF IInv, ErrorsPaid
    <3>2. some \subseteq all
      BY <2>1 DEF Errors
    <3>3. OwedError(req) \in Nat /\ spoiled[req] \in Nat
      BY DEF OwedError, IInv, TypeOK
    <3> HIDE DEF all, some
    <3>4. Cardinality(some) <= Cardinality(all)
      BY <3>1, <3>2, FS_Subset
    <3>5. Cardinality(some) \in Nat /\ Cardinality(all) \in Nat
      BY <3>1, <3>2, FS_Subset, FS_CardinalityType
    <3>6. QED BY <3>1, <3>3, <3>4, <3>5 DEF some
  <2>4. QED BY <2>2, <2>3 DEF OneAnswerPerRequest
<1>2. QED BY <1>1, InitIInv, NextIInv, PTL DEF Spec

(* What counts against MAX_AUTH_FAILURES never exceeds the frames somebody *)
(* altered (SealError::counts).                                            *)
THEOREM OnlyAlteredCounts == Spec => []CountedWasAltered
<1>1. IInv => CountedWasAltered
  BY DEF IInv
<1>2. QED BY <1>1, InitIInv, NextIInv, PTL DEF Spec

-----------------------------------------------------------------------------
(* What a draw in progress carries: the successor is one draw later.       *)
DrawAdvances ==
  draw # None => /\ draw.next.seed = draw.self.seed
                 /\ Len(draw.next.mixed) = Len(draw.self.mixed) + 1

(* The seeds in use and in the history are ones the station has written.   *)
SeedsWritten ==
  /\ \A s \in released : s.seed <= seed
  /\ store # Torn => store.seed <= seed
  /\ drbg # None => drbg.seed <= seed
  /\ draw # None => draw.self.seed <= seed

DrbgInv == /\ DrbgTypeOK
        /\ NeverDrawnTwice
        /\ ProbeYieldsNoPastDraw
        /\ DrawAdvances
        /\ SeedsWritten

-----------------------------------------------------------------------------
LEMMA NoState == /\ None \notin States /\ Torn \notin States
                 /\ None \notin Draws
BY DEF None, Torn, States, Draws

LEMMA NoneDraw ==
  ASSUME NEW at, NEW self, NEW next
  PROVE  [at |-> at, self |-> self, next |-> next] # None
BY DEF None

(* The readable states, without the set that collects them.                *)
Past(t) == \A s \in released : Before(s, t)

LEMMA ReadableFacts ==
  ProbeYieldsNoPastDraw <=>
    /\ store \notin {Torn, None} => Past(store)
    /\ drbg \notin {Torn, None} => Past(drbg)
    /\ draw # None => Past(draw.self) /\ Past(draw.next)
BY DEF ProbeYieldsNoPastDraw, Readable, Past

LEMMA InitDrbgInv == DrbgInit => DrbgInv
<1> SUFFICES ASSUME DrbgInit PROVE DrbgInv
  OBVIOUS
<1>1. DrbgTypeOK
  <2>1. <<>> \in Seq(Extras) /\ 0 \in 0 .. LastSeed
    BY DrbgAssumption
  <2>2. [seed |-> 0, mixed |-> <<>>] \in States
    BY <2>1 DEF States
  <2>3. QED BY <2>1, <2>2 DEF DrbgInit, DrbgTypeOK
<1>2. NeverDrawnTwice /\ ProbeYieldsNoPastDraw /\ DrawAdvances
  BY DEF DrbgInit, NeverDrawnTwice, ProbeYieldsNoPastDraw, DrawAdvances
<1>3. SeedsWritten
  BY DEF DrbgInit, SeedsWritten
<1>4. QED BY <1>1, <1>2, <1>3 DEF DrbgInv

LEMMA AdvanceFacts ==
  ASSUME NEW s \in States, NEW extra \in Extras
  PROVE  /\ Advance(s, extra) \in States
         /\ Advance(s, extra).seed = s.seed
         /\ Len(Advance(s, extra).mixed) = Len(s.mixed) + 1
         /\ Before(s, Advance(s, extra))
<1>1. s.mixed \in Seq(Extras) /\ s.seed \in 0 .. LastSeed
  BY DEF States
<1>2. /\ Append(s.mixed, extra) \in Seq(Extras)
      /\ Len(Append(s.mixed, extra)) = Len(s.mixed) + 1
      /\ Len(s.mixed) \in Nat
  BY <1>1
<1>3. QED BY <1>1, <1>2 DEF Advance, States, Before

LEMMA BeforeTransitive ==
  ASSUME NEW r \in States, NEW s \in States, NEW t \in States,
         Before(r, s), Before(s, t)
  PROVE  Before(r, t)
<1>1. \A u \in States : u.seed \in Nat /\ Len(u.mixed) \in Nat
  BY DrbgAssumption DEF States
<1>2. QED BY <1>1 DEF Before

LEMMA BeforeIrreflexive ==
  ASSUME NEW s \in States
  PROVE  ~Before(s, s)
<1>1. s.seed \in Nat /\ Len(s.mixed) \in Nat
  BY DrbgAssumption DEF States
<1>2. QED BY <1>1 DEF Before

LEMMA NextDrbgInv == DrbgInv /\ [DrbgNext]_drbgVars => DrbgInv'
<1> SUFFICES ASSUME DrbgInv, [DrbgNext]_drbgVars PROVE DrbgInv'
  OBVIOUS
<1>t. DrbgTypeOK /\ NeverDrawnTwice /\ DrawAdvances /\ SeedsWritten
  BY DEF DrbgInv
<1>p. /\ store \notin {Torn, None} => Past(store)
      /\ drbg \notin {Torn, None} => Past(drbg)
      /\ draw # None => Past(draw.self) /\ Past(draw.next)
  BY ReadableFacts DEF DrbgInv
<1>d. draw # None => draw \in Draws /\ draw.self \in States /\ draw.next \in States
  BY <1>t DEF DrbgTypeOK, Draws
<1>r. (/\ store' \notin {Torn, None} => Past(store)'
       /\ drbg' \notin {Torn, None} => Past(drbg)'
       /\ draw' # None => Past(draw.self)' /\ Past(draw.next)')
      => ProbeYieldsNoPastDraw'
  BY DEF ProbeYieldsNoPastDraw, Readable, Past
<1>1. CASE FromStored
  BY <1>1, <1>t, <1>p, <1>r, NoState
  DEF FromStored, DrbgInv, DrbgTypeOK, NeverDrawnTwice, DrawAdvances, SeedsWritten, Past
<1>2. ASSUME NEW extra \in Extras, DrawMixing(extra) PROVE DrbgInv'
  <2>1. /\ drbg \in States /\ drbg # Torn
        /\ draw' = [at |-> "write", self |-> drbg, next |-> Advance(drbg, extra)]
        /\ drbg' = None
        /\ UNCHANGED <<store, seed, released, repeated>>
    BY <1>2, <1>t, NoState DEF DrawMixing, DrbgTypeOK
  <2>2. draw' # None /\ draw'.self = drbg /\ draw'.next = Advance(drbg, extra)
    BY <2>1, NoneDraw
  <2>3. DrbgTypeOK'
    BY <2>1, <1>t, AdvanceFacts DEF DrbgTypeOK, Draws
  <2>4. Past(draw.self)' /\ Past(draw.next)'
    BY <2>1, <2>2, <1>2, <1>t, <1>p, AdvanceFacts, BeforeTransitive
    DEF Past, DrbgTypeOK, DrawMixing
  <2>5. ProbeYieldsNoPastDraw'
    BY <2>1, <2>4, <1>p, <1>r DEF Past
  <2>6. DrawAdvances' /\ SeedsWritten' /\ NeverDrawnTwice'
    BY <2>1, <2>2, <1>2, <1>t, AdvanceFacts
    DEF DrawAdvances, SeedsWritten, NeverDrawnTwice, DrawMixing
  <2>7. QED BY <2>3, <2>5, <2>6 DEF DrbgInv
<1>3. ASSUME draw # None, NEW holds \in {store, draw.next, Torn}, NEW ok \in BOOLEAN,
             Write(holds, ok)
      PROVE  DrbgInv'
  <2>1. /\ store' = holds /\ UNCHANGED <<drbg, seed, released, repeated>>
        /\ draw' = None \/ (/\ draw' \in Draws /\ draw'.self = draw.self
                             /\ draw'.next = draw.next)
    BY <1>3, <1>d DEF Write, Draws
  <2>2. DrbgTypeOK'
    BY <2>1, <1>3, <1>d, <1>t DEF DrbgTypeOK
  <2>3. ProbeYieldsNoPastDraw'
    BY <2>1, <1>3, <1>p, <1>r DEF Past
  <2>4. DrawAdvances' /\ SeedsWritten' /\ NeverDrawnTwice'
    BY <2>1, <1>3, <1>t DEF DrawAdvances, SeedsWritten, NeverDrawnTwice
  <2>5. QED BY <2>2, <2>3, <2>4 DEF DrbgInv
<1>4. ASSUME NEW result \in {store, Torn}, ReadBack(result) PROVE DrbgInv'
  <2>1. draw # None /\ draw' = None /\ UNCHANGED <<store, seed>>
    BY <1>4 DEF ReadBack
  <2>2. CASE result = draw.next
    <3>1. /\ store = draw.next /\ drbg' = draw.next
          /\ released' = released \cup {draw.self}
          /\ repeated' = (repeated \/ draw.self \in released)
      BY <1>4, <2>1, <2>2, <1>d, NoState DEF ReadBack
    <3>2. draw.self \notin released
      BY <2>1, <1>p, <1>d, BeforeIrreflexive DEF Past
    <3>3. NeverDrawnTwice'
      BY <3>1, <3>2, <1>t DEF NeverDrawnTwice
    <3>4. Before(draw.self, draw.next)
      BY <2>1, <1>d, <1>t DEF DrawAdvances, Before, States
    <3>5. Past(store)' /\ Past(drbg)'
      BY <2>1, <3>1, <3>4, <1>p DEF Past
    <3>6. ProbeYieldsNoPastDraw'
      BY <2>1, <3>5, <1>r
    <3>7. DrbgTypeOK'
      BY <2>1, <3>1, <3>2, <1>d, <1>t DEF DrbgTypeOK, NeverDrawnTwice
    <3>8. DrawAdvances' /\ SeedsWritten'
      BY <2>1, <3>1, <1>t DEF DrawAdvances, SeedsWritten
    <3>9. QED BY <3>3, <3>6, <3>7, <3>8 DEF DrbgInv
  <2>3. CASE result # draw.next
    BY <1>4, <2>1, <2>3, <1>t, <1>p, <1>r
    DEF ReadBack, DrbgInv, DrbgTypeOK, NeverDrawnTwice, DrawAdvances, SeedsWritten, Past
  <2>4. QED BY <2>2, <2>3
<1>5. ASSUME draw # None, NEW holds \in {store, draw.next, Torn}, Cancel(holds)
      PROVE  DrbgInv'
  <2>1. /\ store' = holds /\ draw' = None
        /\ UNCHANGED <<drbg, seed, released, repeated>>
    BY <1>5 DEF Cancel
  <2>2. DrbgTypeOK'
    BY <2>1, <1>5, <1>d, <1>t DEF DrbgTypeOK
  <2>3. ProbeYieldsNoPastDraw'
    BY <2>1, <1>5, <1>p, <1>r DEF Past
  <2>4. DrawAdvances' /\ SeedsWritten' /\ NeverDrawnTwice'
    BY <2>1, <1>5, <1>t DEF DrawAdvances, SeedsWritten, NeverDrawnTwice
  <2>5. QED BY <2>2, <2>3, <2>4 DEF DrbgInv
<1>6. CASE Reset
  BY <1>6, <1>t, <1>p, <1>r
  DEF Reset, DrbgInv, DrbgTypeOK, NeverDrawnTwice, DrawAdvances, SeedsWritten, Past
<1>7. CASE Reseed
  <2>1. /\ drbg = None /\ draw = None /\ seed' = seed + 1 /\ seed' \in 0 .. LastSeed
        /\ store' = [seed |-> seed + 1, mixed |-> <<>>]
        /\ store'.seed = seed + 1
        /\ UNCHANGED <<drbg, draw, released, repeated>>
    BY <1>7, <1>t, DrbgAssumption DEF Reseed, DrbgTypeOK
  <2>2. <<>> \in Seq(Extras)
    OBVIOUS
  <2>3. DrbgTypeOK'
    BY <2>1, <2>2, <1>t DEF DrbgTypeOK, States
  <2>4. \A s \in released : s.seed \in Nat /\ s.seed <= seed /\ seed \in Nat
    BY <1>t, DrbgAssumption DEF SeedsWritten, DrbgTypeOK, States
  <2>5. Past(store)'
    BY <2>1, <2>4 DEF Past, Before
  <2>6. ProbeYieldsNoPastDraw'
    BY <2>1, <2>5, <1>r
  <2>7. DrawAdvances' /\ SeedsWritten' /\ NeverDrawnTwice'
    BY <2>1, <2>4, <1>t DEF DrawAdvances, SeedsWritten, NeverDrawnTwice, DrbgTypeOK
  <2>8. QED BY <2>3, <2>6, <2>7 DEF DrbgInv
<1>8. CASE UNCHANGED drbgVars
  BY <1>8 DEF drbgVars, DrbgInv, DrbgTypeOK, NeverDrawnTwice, ProbeYieldsNoPastDraw,
              Readable, DrawAdvances, SeedsWritten
<1>9. QED BY <1>1, <1>2, <1>3, <1>4, <1>5, <1>6, <1>7, <1>8 DEF DrbgNext

(* Type correctness of the generator and its store (drbg.rs).              *)
THEOREM DrawsTyped == DrbgSpec => []DrbgTypeOK
<1>1. DrbgInv => DrbgTypeOK
  BY DEF DrbgInv
<1>2. QED BY <1>1, InitDrbgInv, NextDrbgInv, PTL DEF DrbgSpec

(* Drbg::draw_mixing never hands out a value twice, however its writes,    *)
(* read-backs, cancellations and resets fall (P-237).                      *)
THEOREM DrawsDiffer == DrbgSpec => []NeverDrawnTwice
<1>1. DrbgInv => NeverDrawnTwice
  BY DEF DrbgInv
<1>2. QED BY <1>1, InitDrbgInv, NextDrbgInv, PTL DEF DrbgSpec

(* Whatever is read out of FRAM or RAM, at whatever moment, lies strictly  *)
(* after every draw handed out so far.                                     *)
THEOREM PastStaysHidden == DrbgSpec => []ProbeYieldsNoPastDraw
<1>1. DrbgInv => ProbeYieldsNoPastDraw
  BY DEF DrbgInv
<1>2. QED BY <1>1, InitDrbgInv, NextDrbgInv, PTL DEF DrbgSpec
=============================================================================
