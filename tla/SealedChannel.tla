---------------------------- MODULE SealedChannel ----------------------------
(***************************************************************************)
(* A session after its handshake (sealed.rs): the client seals requests    *)
(* under a req_id it issues itself, the controller seals responses and     *)
(* events under a nonce of its own, and each side opens what arrives       *)
(* behind a replay window.  Between them is the comms processor, which may *)
(* delay, reorder, drop, replay, reflect and alter frames.                 *)
(*                                                                         *)
(* A frame is its routing scalars and nonce; the tag is what makes an      *)
(* altered or reflected one not open.  The firmware's part, answering an   *)
(* opened request and respecting MAX_INFLIGHT, is external: it is modelled *)
(* as far as the crate's rules (P-022, P-024, P-027) speak of it.          *)
(***************************************************************************)
EXTENDS Window, FiniteSets

CONSTANTS
  MaxInflight,   \* MAX_INFLIGHT: the controller's window is one wider
  ReplaySpan,    \* MAX_REPLAY_WINDOW: the client's window
  LastReq,       \* u32::MAX
  LastNonce,     \* u64::MAX, the nonce Noise reserves
  MaxReplays,    \* bound: frames delivered without leaving the wire
  MaxUpsets      \* bound: frames delivered altered or to the wrong side, and
                 \* buffers too small for what they are to hold, together

ASSUME ChannelAssumption ==
  /\ MaxInflight \in Nat \ {0} /\ ReplaySpan \in Nat \ {0}
  /\ MaxInflight < ReplaySpan /\ ReplaySpan <= Width
  /\ LastReq \in Nat \ {0} /\ LastNonce \in Nat /\ LastReq <= LastNonce
  /\ MaxReplays \in Nat /\ MaxUpsets \in Nat

VARIABLES
  reqNext,       \* RequestSealer.next
  ctlNext,       \* ControllerSealer.next
  rx,            \* each side's Opener.window
  wire,          \* frames sealed and not yet delivered for the last time
  sealed,        \* history: every frame ever sealed, by side
  reused,        \* history: some nonce has keyed two frames of one side
  opened,        \* history: every frame opened, by side
  reopened,      \* history: some frame was opened a second time
  outstanding,   \* the client's requests without an answer (external)
  owed,          \* answers the controller has yet to seal (external)
  refused,       \* history: req_ids of genuine requests the window turned away
  spoiled,       \* history: by req_id, the arrivals at the controller that were
                 \* altered or did not fit its buffer
  failures,      \* failures that count against MAX_AUTH_FAILURES
  replays, altered, tight   \* what the bounds count

vars == <<reqNext, ctlNext, rx, wire, sealed, reused, opened, reopened,
          outstanding, owed, refused, spoiled, failures, replays, altered, tight>>

Sides == {"client", "controller"}

\* One type stands for all the types of its row of P-052's table.
Request  == "Command"
Response == "CommandResponse"
Error    == "ErrorResponse"
Event    == "EventResponse"
Kinds == {Request, Response, Error, Event, "Hello"}

Nonces == 0 .. LastNonce
Reqs   == 0 .. LastReq

\* `body` is the shape of the sealed body: whole, with a key beside the two
\* it carries, without its ciphertext, or too short to hold a tag.
Frames == [kind : Kinds, req : Reqs, nonce : Nonces,
           body : {"whole", "stray", "missing", "short"}]

-----------------------------------------------------------------------------
(* Seeded faults.                                                          *)

CountsReplay(error) == error \in {"Missing", "Open", "Replayed"}

RefusalAnswersReplay(error) ==
  IF error \in {"Reserved", "TooOld"} THEN "silence" ELSE Error

AfterSealStuck(next) == next
-----------------------------------------------------------------------------

(* Direction::of, and None for the types that do not travel sealed.        *)
Direction(kind) ==
  IF kind = Request THEN "Request"
  ELSE IF kind \in {Response, Error, Event} THEN "Controller"
  ELSE "None"

(* Direction::check and Sealed::decode: why a frame is refused on its      *)
(* shape, or "Ok".                                                         *)
Decode(f) ==
  IF Direction(f.kind) = "None" THEN "NotSealed"
  ELSE IF f.kind = Event /\ f.req # 0 THEN "EventCarriesReqId"
  ELSE IF f.body = "stray" THEN "UnknownKey"
  ELSE IF f.body = "missing" THEN "Missing"
  ELSE "Ok"

\* A request's nonce is its req_id; a controller's is carried in key 2.
NonceOf(f) == IF Direction(f.kind) = "Request" THEN f.req ELSE f.nonce

(* Sealed::open on the window of one side: what stops the frame, or "Ok".  *)
OpenResult(w, f, fits, authentic) ==
  IF Decode(f) # "Ok" THEN Decode(f)
  ELSE IF NonceOf(f) = LastNonce THEN "Reserved"
  ELSE IF Admits(w, NonceOf(f)) # "Ok" THEN Admits(w, NonceOf(f))
  ELSE IF f.body = "short" THEN "Open"
  ELSE IF ~fits THEN "DestinationTooSmall"
  ELSE IF ~authentic THEN "Open"
  ELSE "Ok"

(* SealError::refusal: the kind of the answer, or silence.                 *)
Refusal(error) ==
  IF error \in {"Reserved", "TooOld", "Replayed"} THEN "silence" ELSE Error

(* SealError::counts                                                       *)
Counts(error) == error \in {"Missing", "Open"}

(* RequestSealer::seal and ControllerSealer::seal move the counter before  *)
(* the frame is written.                                                   *)
AfterSeal(next) == next + 1
-----------------------------------------------------------------------------

Init ==
  /\ reqNext = 1
  /\ ctlNext = 0
  /\ rx = [client |-> NewWindow(ReplaySpan),
           controller |-> NewWindow(MaxInflight + 1)]
  /\ wire = {}
  /\ sealed = [s \in Sides |-> {}]
  /\ reused = FALSE
  /\ opened = [s \in Sides |-> {}]
  /\ reopened = FALSE
  /\ outstanding = {}
  /\ owed = {}
  /\ refused = {}
  /\ spoiled = [req \in Reqs |-> 0]
  /\ failures = 0
  /\ replays = 0
  /\ altered = 0
  /\ tight = 0

Whole(kind, req, nonce) ==
  [kind |-> kind, req |-> req, nonce |-> nonce, body |-> "whole"]

(* A frame that was written: on the wire, and in the history of its side.  *)
Written(side, f) ==
  /\ wire' = wire \cup {<<side, f>>}
  /\ sealed' = [sealed EXCEPT ![side] = @ \cup {f}]
  /\ reused' = (reused \/ \E g \in sealed[side] : NonceOf(g) = NonceOf(f))

NotWritten == UNCHANGED <<wire, sealed, reused>>

(* The buffer the caller hands in holds the frame, or is one too small.    *)
Fits(fits) ==
  /\ fits \/ altered + tight < MaxUpsets
  /\ tight' = IF fits THEN tight ELSE tight + 1

(* RequestSealer::seal.  The req_id is spent whether or not the frame fits *)
(* the buffer; the last one is never issued.                               *)
SealRequest(fits) ==
  /\ Fits(fits)
  /\ Cardinality(outstanding) < MaxInflight
  /\ reqNext < LastReq
  /\ reqNext' = AfterSeal(reqNext)
  /\ IF fits
     THEN /\ Written("client", Whole(Request, reqNext, reqNext))
          /\ outstanding' = outstanding \cup {reqNext}
     ELSE NotWritten /\ UNCHANGED outstanding
  /\ UNCHANGED <<ctlNext, rx, opened, reopened, owed, refused, spoiled,
                 failures, replays, altered>>

(* ControllerSealer::seal for an answer that is owed, echoing its request, *)
(* or for an event.                                                        *)
SealController(kind, req, fits) ==
  /\ Fits(fits)
  /\ ctlNext # LastNonce
  /\ ctlNext' = AfterSeal(ctlNext)
  /\ \/ kind = Event /\ req = 0 /\ UNCHANGED owed
     \/ [kind |-> kind, req |-> req] \in owed
        /\ owed' = owed \ {[kind |-> kind, req |-> req]}
  /\ IF fits THEN Written("controller", Whole(kind, req, ctlNext)) ELSE NotWritten
  /\ UNCHANGED <<reqNext, rx, opened, reopened, outstanding, refused,
                 spoiled, failures, replays, altered>>

(* What opening f does to the side it arrived at: the window, the          *)
(* histories, and what the side owes or no longer waits for.               *)
Open(side, f, fits, authentic) ==
  LET result == OpenResult(rx[side], f, fits, authentic)
      answer == IF result = "Ok" THEN Response ELSE Refusal(result)
  IN
  /\ Fits(fits)
  /\ rx' = IF result = "Ok"
           THEN [rx EXCEPT ![side] = Accept(@, NonceOf(f))] ELSE rx
  /\ opened' = IF result = "Ok"
               THEN [opened EXCEPT ![side] = @ \cup {f}] ELSE opened
  /\ reopened' = (reopened \/ (result = "Ok" /\ f \in opened[side]))
  /\ failures' = IF side = "controller" /\ Counts(result)
                 THEN failures + 1 ELSE failures
  /\ owed' = IF side = "controller" /\ answer # "silence"
             THEN owed \cup {[kind |-> answer, req |-> f.req]} ELSE owed
  /\ outstanding' = IF side = "client" /\ result = "Ok"
                    THEN outstanding \ {f.req} ELSE outstanding
  /\ refused' = IF result = "TooOld" /\ authentic /\ side = "controller"
                THEN refused \cup {f.req} ELSE refused
  /\ spoiled' = IF side = "controller" /\ ~(fits /\ authentic)
                THEN [spoiled EXCEPT ![f.req] = @ + 1] ELSE spoiled
  /\ UNCHANGED <<reqNext, ctlNext, sealed, reused>>

Peer(side) == IF side = "client" THEN "controller" ELSE "client"

(* The comms processor hands a frame to the side it was sealed for.        *)
Deliver(side, f, fits) ==
  /\ <<Peer(side), f>> \in wire
  /\ Open(side, f, fits, TRUE)
  /\ wire' = wire \ {<<Peer(side), f>>}
  /\ UNCHANGED <<replays, altered>>

(* ... or hands over a copy and keeps the frame for later.                 *)
Replay(side, f, fits) ==
  /\ replays < MaxReplays
  /\ <<Peer(side), f>> \in wire
  /\ Open(side, f, fits, TRUE)
  /\ replays' = replays + 1
  /\ UNCHANGED <<wire, altered>>

(* ... or alters a frame, or hands it to the side that sealed it.          *)
Alter(from, side, f, g) ==
  /\ altered + tight < MaxUpsets
  /\ <<from, f>> \in wire
  /\ from = side \/ g # f
  /\ Open(side, g, TRUE, FALSE)
  /\ altered' = altered + 1
  /\ UNCHANGED <<wire, replays>>

\* What an altered frame may become: one scalar moved, or its body damaged.
Alterations(f) ==
  {f} \cup {[f EXCEPT !.kind = k] : k \in Kinds}
      \cup {[f EXCEPT !.req = r] : r \in Reqs}
      \cup {[f EXCEPT !.nonce = n] : n \in Nonces}
      \cup {[f EXCEPT !.body = b] : b \in {"stray", "missing", "short"}}

Next ==
  \/ \E fits \in BOOLEAN : SealRequest(fits)
  \/ \E kind \in {Response, Error, Event}, req \in Reqs, fits \in BOOLEAN :
       SealController(kind, req, fits)
  \/ \E side \in Sides, m \in wire, fits \in BOOLEAN :
       Deliver(side, m[2], fits) \/ Replay(side, m[2], fits)
  \/ \E side \in Sides, m \in wire : \E g \in Alterations(m[2]) :
       Alter(m[1], side, m[2], g)

Spec == Init /\ [][Next]_vars

-----------------------------------------------------------------------------
TypeOK ==
  /\ reqNext \in 1 .. LastReq
  /\ ctlNext \in Nonces
  /\ rx \in [Sides -> [highest : Nonces \cup {NoNonce}, seen : SUBSET Positions,
                       span : {ReplaySpan, MaxInflight + 1}]]
  /\ wire \subseteq Sides \X Frames
  /\ sealed \in [Sides -> SUBSET Frames]
  /\ opened \in [Sides -> SUBSET Frames]
  /\ reused \in BOOLEAN /\ reopened \in BOOLEAN
  /\ outstanding \subseteq Reqs
  /\ owed \subseteq [kind : {Response, Error}, req : Reqs]
  /\ refused \subseteq Reqs
  /\ spoiled \in [Reqs -> Nat]
  /\ failures \in Nat /\ replays \in 0 .. MaxReplays /\ altered \in 0 .. MaxUpsets
  /\ tight \in 0 .. MaxUpsets

(* A nonce keys at most one frame per direction, over requests, responses, *)
(* errors and events, failed writes and exhaustion included (P-232).       *)
NonceUsedOnce == ~reused

(* Whatever the comms processor replays, no frame is opened twice, and     *)
(* every frame opened is one its peer sealed, scalar for scalar (P-022,    *)
(* P-233, P-234).                                                          *)
OpenedOnceAsSealed ==
  /\ ~reopened
  /\ \A side \in Sides : opened[side] \subseteq sealed[Peer(side)]

Errors(frames, req) == {f \in frames : f.kind = Error /\ f.req = req}

(* A request is answered once.  It has at most one response that opens,    *)
(* which answers a request the controller opened; and it has no more       *)
(* errors than arrivals under its req_id that were altered or did not fit. *)
(* So a replay, and what comes too late for the window, mints no second    *)
(* answer, not even an error under a fresh nonce (SealError::refusal).     *)
OneAnswerPerRequest ==
  /\ \A f \in opened["client"] : f.kind = Response =>
       /\ \E g \in opened["controller"] : g.req = f.req
       /\ \A h \in opened["client"] : h.kind = Response /\ h.req = f.req => h = f
  /\ \A req \in Reqs : Cardinality(Errors(opened["client"], req)) <= spoiled[req]

(* Every failure that counts against MAX_AUTH_FAILURES is a frame somebody *)
(* altered: delays, reorderings and replays of honest frames count nothing *)
(* (SealError::counts, P-051).                                             *)
CountedWasAltered == failures <= altered

(* An honest client's request is never turned away by the window: only a   *)
(* replay or a broken client reaches it, as PROTOCOL.md says of P-022.     *)
HonestNeverRefused == refused = {}
=============================================================================
