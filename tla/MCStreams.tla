------------------------------ MODULE MCStreams ------------------------------
(***************************************************************************)
(* The four ways a controller says, piece by piece, what it could not say  *)
(* at once, checked side by side: a behaviour is a catch-up over the log,  *)
(* a subscription, a walk over pages of readings or concerns, or the       *)
(* events of what changed; the others stay as they began.                  *)
(***************************************************************************)
EXTENDS LogWalk

CONSTANTS
  MaxSubs, MaxFaults,
  LastSig, MaxWidth, MAX_SAMPLES, MAX_SERIES, MAX_READINGS_BYTES,
  MAX_CONCERN_PAGE_ROWS, MAX_CONCERN_PAGE_BYTES, SWEEP_ROWS, MAX_EVENT_BODY,
  MaxTotal, MaxChanges

ASSUME SignalAssumption == LastSig \in Nat

VARIABLES
  part,
  ring, recorded, sub, wire, mark, ack, taken, subs, faults,
  width, series, total, run, sent, status, claimed, heard, walk, changes

stream == <<ring, recorded, sub, wire, mark, ack, taken, subs, faults>>
hot    == <<width, series, total, run, sent, status, claimed, heard, walk, changes>>

Stream == INSTANCE EventStream WITH
            log <- ring, written <- recorded
Hot    == INSTANCE HotPlane WITH told <- claimed

StreamsInit == /\ part \in {"catch-up", "subscription", "pages", "changes"}
               /\ Init /\ Stream!Init /\ Hot!Init
               \* What only one part reads is fixed in the others.
               /\ part # "catch-up" => first = 0 /\ ask = CHOOSE n \in Asks : TRUE
               /\ part \notin {"pages", "changes"} =>
                    series = {} /\ width = [s \in 1 .. LastSig |-> 1]

CatchUp(A) == part = "catch-up" /\ A /\ UNCHANGED <<stream, hot>>
Changed(A) == part = "changes" /\ A /\ UNCHANGED <<vars, stream>>

StreamsNext ==
  /\ \/ CatchUp(Next)
     \/ part = "subscription" /\ Stream!Next /\ UNCHANGED <<vars, hot>>
     \/ part = "pages" /\ Hot!PageNext /\ UNCHANGED <<vars, stream>>
     \/ Changed(Hot!EventNext)
  /\ UNCHANGED part

StreamsSpec ==
  /\ StreamsInit /\ [][StreamsNext]_<<part, vars, stream, hot>>
  /\ WF_vars(CatchUp(\E n \in 1 .. PageSize : ReadPage(n)))
  /\ WF_hot(Changed(Hot!Tick))

(* EventStream: a record reaches the client at most once, in order.        *)
TakenOnceInOrder == Stream!TakenOnceInOrder
(* EventStream: what the client missed, it was told of.                    *)
NoSilentLoss == Stream!NoSilentLoss
(* HotPlane: a row means the same in whichever page it falls.              *)
PagesWhole == Hot!PagesWhole
(* HotPlane: what changed is heard in the end.                             *)
HeardInTheEnd == Hot!HeardInTheEnd
(* LogWalk: a catch-up over the log ends.                                  *)
CatchUpEnds == part = "catch-up" => WalkEnds
=============================================================================
