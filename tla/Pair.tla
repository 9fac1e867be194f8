-------------------------------- MODULE Pair --------------------------------
(***************************************************************************)
(* The pairing handshake under its payloads (PairInitiator and             *)
(* PairResponder of noise.rs): one attempt whose every message the carrier *)
(* may cut, replace by another attempt's, or cross part by part with it.   *)
(* The two ends may have read different labels or different Discovers.     *)
(* What the payloads say is Enrolment's.                                   *)
(***************************************************************************)
EXTENDS Noise

CONSTANTS Secrets, Prologues

VARIABLES
  view,         \* what each attempt, and the controller (0), took from label and Discover
  stage,        \* "offered", "asked", "answered", "paired", "refused"
  client,       \* PairInitiator, then PairReplied
  server,       \* PairRequested, then PairAwaiting, then PairFinished
  answering,    \* history: whose ephemeral key message 1 brought
  altered       \* history: a message did not arrive as it was written

vars == <<view, stage, client, server, answering, altered>>

Controller      == Key("controller", "", 0)
Client(n)       == Key("client", "", n)
Ephemeral(w, n) == Key("ephemeral", w, n)
Attempts        == {1, 2}
Views           == [secret : Secrets, prologue : Prologues]
Psk(v)          == PairPsk("unit", v.secret)

(* Each message and the state behind it, in an attempt nothing happens to. *)
Started(n)  == PairStarted(view[n].prologue, Psk(view[n]), Ephemeral("phone", n), "offer")
Offer(n)    == PairMessage(view[n].prologue, Psk(view[n]), Ephemeral("phone", n), "offer")
Answer(st, n) ==
  PairReply(st, Ephemeral("unit", n), Ephemeral("phone", n), Controller, "answer")
Answered(st, n) ==
  PairReplied(st, Ephemeral("unit", n), Ephemeral("phone", n), Controller, "answer")
Finish(st, n)   == PairFinish(st, Client(n), Ephemeral("unit", n), "name")
Finished(st, n) == PairFinished(st, Client(n), Ephemeral("unit", n), "name")

(* What may arrive for m, beside the other attempt's message o.            *)
Arriving(m, o) ==
  {m, o, SubSeq(m, 1, Len(m) - 1)} \cup {[m EXCEPT ![i] = o[i]] : i \in DOMAIN m}
LowOrdered(messages) == messages \cup {[m EXCEPT ![1] = LowOrder] : m \in messages}

Init ==
  /\ view \in [0 .. 2 -> Views]
  /\ stage = "offered"
  /\ client = Started(1)
  /\ server = <<>>
  /\ answering = 0
  /\ altered = FALSE

ReadRequest ==
  /\ stage = "offered"
  /\ \E seen \in LowOrdered(Arriving(Offer(1), Offer(2))) :
       /\ server' = PairReadRequest(view[0].prologue, Psk(view[0]), seen)
       /\ stage' = IF Going(server') THEN "asked" ELSE "refused"
       /\ answering' = IF seen[1] = Ephemeral("phone", 2) THEN 2 ELSE 1
       /\ altered' = (seen # Offer(1))
  /\ UNCHANGED <<view, client>>

\* The controller answers the attempt it opened.
ReadReply ==
  /\ stage = "asked"
  /\ \E seen \in LowOrdered(Arriving(Answer(server, answering), Answer(Started(2), 2))) :
       /\ client' = PairReadReply(client, Ephemeral("phone", 1), seen)
       /\ stage' = IF Going(client') THEN "answered" ELSE "refused"
       /\ altered' = (altered \/ seen # Answer(server, answering))
  /\ server' = Answered(server, answering)
  /\ UNCHANGED <<view, answering>>

ReadFinish ==
  /\ stage = "answered"
  /\ \E seen \in Arriving(Finish(client, 1), Finish(Answered(Started(2), 2), 2)) :
       /\ server' = PairReadFinish(server, Ephemeral("unit", answering), seen)
       /\ stage' = IF Going(server') THEN "paired" ELSE "refused"
       /\ altered' = (altered \/ seen # Finish(client, 1))
  /\ client' = Finished(client, 1)
  /\ UNCHANGED <<view, answering>>

Next == ReadRequest \/ ReadReply \/ ReadFinish

Spec == Init /\ [][Next]_vars
-----------------------------------------------------------------------------
(* Whichever message opens, its reader is then where its writer was: the   *)
(* same label, Discover and messages so far, so that each end holds the    *)
(* other's own key and their two session keys cross. One that arrives as   *)
(* it was written, under one label and one Discover, is never refused      *)
(* (read_request, read_reply, read_finish).                                *)
PairOpensAsWritten ==
  /\ stage = "asked" => server = Started(answering) /\ view[answering] = view[0]
  /\ stage \in {"answered", "paired"} => answering = 1 /\ client = server /\ ~altered
  /\ stage = "paired" =>
       LET mine == ForInitiator(Split(client)) theirs == ForResponder(Split(server))
       IN  mine.send = theirs.receive /\ mine.receive = theirs.send /\ mine.send # mine.receive
  /\ stage = "refused" => altered \/ view[1] # view[0]
=============================================================================
