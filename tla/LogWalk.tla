------------------------------- MODULE LogWalk -------------------------------
(***************************************************************************)
(* A client's catch-up (readlog.rs): pages of log entries, each asked for  *)
(* at the cursor of the one before, while the ring goes on overwriting.    *)
(* Nothing is kept on the controller between two pages, so a lost answer   *)
(* is asked for again and changes nothing.                                 *)
(***************************************************************************)
EXTENDS LogRing, Sequences, SequencesExt

CONSTANTS
  PageEntries,   \* MAX_LOG_PAGE_ENTRIES
  Asks           \* the max_entries a client may ask for

ASSUME WalkAssumption == PageEntries \in Nat \ {0} /\ Asks \subseteq Nat \ {0}

VARIABLES
  first,      \* the from_seq of the first page
  ask,        \* the max_entries the client asks for
  cursor,     \* the next_seq to pass back
  got,        \* the records received
  again,      \* history: the records received more than once
  told,       \* the positions a page said were gone: asked for, and before
              \* its oldest_seq
  complete    \* the last page said it caught up

vars == <<log, written, first, ask, cursor, got, again, told, complete>>

Init ==
  /\ RingInit
  /\ first \in 0 .. LastSeq
  /\ ask \in Asks
  /\ cursor = first
  /\ got = {} /\ again = {}
  /\ told = {}
  /\ complete = FALSE
-----------------------------------------------------------------------------
(* Seeded faults.                                                          *)

PushAtLast(page, seq) ==
  IF seq = LastSeq \/ Len(page.entries) = PageEntries
  THEN [page EXCEPT !.refused = TRUE]
  ELSE [page EXCEPT !.entries = Append(@, seq), !.next = seq + 1]

PushUnpast(page, seq) ==
  IF seq = LastSeq \/ Len(page.entries) = PageEntries
  THEN [page EXCEPT !.refused = TRUE]
  ELSE [page EXCEPT !.entries = Append(@, seq),
                    !.next = IF seq > @ THEN seq ELSE @]
-----------------------------------------------------------------------------

(* ReadLog::page_size                                                      *)
PageSize == IF ask < PageEntries THEN ask ELSE PageEntries

(* ReadLog::start_at                                                       *)
StartAt(from) == IF from < Oldest THEN Oldest ELSE from

(* LogPage::new                                                            *)
NewPage(resume, oldest) ==
  [entries |-> <<>>, next |-> resume, oldest |-> oldest, refused |-> FALSE]

(* LogPage::push: the cursor moves past the highest record the page        *)
(* carries.  A record at the ceiling has no position past it.              *)
Push(page, seq) ==
  IF seq = LastSeq \/ Len(page.entries) = PageEntries
  THEN [page EXCEPT !.refused = TRUE]
  ELSE [page EXCEPT !.entries = Append(@, seq),
                    !.next = IF seq + 1 > @ THEN seq + 1 ELSE @]

\* The n oldest of a set of records.
Lowest(S, n) == {s \in S : Cardinality({t \in S : t < s}) < n}

(* The page of `n` records the controller builds, which may put them in    *)
(* any order (external).                                                   *)
Built(from, order) == FoldLeft(Push, NewPage(StartAt(from), Oldest), order)

(* A ReadLog at the cursor and its LogPage.  Records too long for the page *)
(* (MAX_LOG_PAGE_BYTES) leave fewer than were asked for, but one; a refused *)
(* record leaves no page.                                                  *)
ReadPage(n) ==
  LET held == {seq \in log : seq >= StartAt(cursor)}
      some == Lowest(held, n)
  IN
  /\ ~complete
  /\ n \in 1 .. PageSize
  /\ \E order \in SetToSeqs(some) :
       LET page == Built(cursor, order)
       IN  /\ ~page.refused
           /\ got' = got \cup ToSet(page.entries)
           /\ again' = again \cup (got \cap ToSet(page.entries))
           /\ cursor' = page.next
           /\ told' = told \cup cursor .. page.oldest - 1
           /\ complete' = (some = held)
  /\ UNCHANGED <<log, written, first, ask>>

Write(seq) ==
  /\ Record(seq)
  /\ UNCHANGED <<first, ask, cursor, got, again, told, complete>>

Next ==
  \/ \E n \in 1 .. PageSize : ReadPage(n)
  \/ \E seq \in Seqs : Write(seq)

\* The client goes on asking until a page is complete.
Spec ==
  /\ Init /\ [][Next]_vars
  /\ WF_vars(\E n \in 1 .. PageSize : ReadPage(n))
-----------------------------------------------------------------------------
TypeOK ==
  /\ log \subseteq written /\ written \subseteq Seqs
  /\ first \in 0 .. LastSeq /\ cursor \in 0 .. LastSeq /\ ask \in Asks
  /\ again \subseteq got /\ got \subseteq Seqs
  /\ told \subseteq 0 .. LastSeq
  /\ complete \in BOOLEAN

(* However the ring moves between two pages, every record between the      *)
(* first position asked for and the cursor is received exactly once, or    *)
(* was told to be gone by a page's oldest_seq (LogPage::push, P-029,       *)
(* P-099).                                                                 *)
EveryRecordOnceOrTold ==
  /\ again = {}
  /\ \A seq \in written :
       first <= seq /\ seq < cursor => seq \in got \/ seq \in told
  /\ \A seq \in got : first <= seq /\ seq \notin told

(* The paging ends, whatever is written under it and however few records   *)
(* a page holds, unless the log reaches the ceiling: no page hands back    *)
(* the cursor it was asked for with records still to come.                 *)
WalkEnds == <>(complete \/ LastSeq \in log)
=============================================================================
