------------------------------- MODULE HotPlane -------------------------------
(***************************************************************************)
(* What a controller says of its signals while they move: pages of         *)
(* readings and of concerns, walked by a client from cursor to cursor      *)
(* (readings.rs, concerns.rs), counters that restart (counter.rs), and the *)
(* coalesced event of what changed, sent on each tick (changes.rs).  Each  *)
(* builder takes rows until one does not fit, and what did not fit has to  *)
(* be said later: on the next page, in the next event, and with the same   *)
(* meaning.  A page may be lost, and is asked for again.                   *)
(***************************************************************************)
EXTENDS Integers, Sequences, FiniteSets

CONSTANTS
  LastSig,                 \* signals are 1 .. LastSig, and concerns too
  MaxWidth,                \* bytes of the widest row
  MAX_SAMPLES, MAX_SERIES, MAX_READINGS_BYTES,
  MAX_CONCERN_PAGE_ROWS, MAX_CONCERN_PAGE_BYTES,
  SWEEP_ROWS, MAX_EVENT_BODY,
  MaxTotal,                \* bound: a counter's total
  MaxChanges               \* bound: times a signal moves

VARIABLES
  width, series, \* of each row: its encoded length; which signals are series
  total,         \* what each counter reads now
  run,           \* CounterRun of each counter: the last total published
  sent,          \* history: the last two totals published of each counter,
                 \* and what the later one was called
  status,        \* the validity of each signal
  told,          \* the validity the controller last told of
  heard,         \* and the client last heard
  walk,          \* the client's walk: what it reads, its cursor, what it got
  changes        \* what the bound counts

vars == <<width, series, total, run, sent, status, told, heard, walk, changes>>

Sigs == 1 .. LastSig
None == -1
Validities == {"Ok", "Stale"}

-----------------------------------------------------------------------------
(* CounterRun *)

judge(last, now) ==
  IF now < 0 THEN "OutOfRange"
  ELSE IF last # None /\ now < last THEN "Reset" ELSE "Ok"

published(last, now) == IF now >= 0 THEN now ELSE last

-----------------------------------------------------------------------------
(* The page builders.  A page is the rows taken and the sig of the one it  *)
(* had no room for, 0 while every row offered was taken.                   *)

NewPage == [rows |-> <<>>, next |-> 0]

Used(page) == LET sum[i \in 0 .. Len(page.rows)] ==
                    IF i = 0 THEN 0 ELSE sum[i - 1] + width[page.rows[i]]
              IN  sum[Len(page.rows)]

Take(page, sig) == [page EXCEPT !.rows = Append(@, sig)]
Full(page, sig) == [page EXCEPT !.next = sig]

OfKind(page, isSeries) ==
  Cardinality({i \in DOMAIN page.rows : (page.rows[i] \in series) = isSeries})

\* ReadingsPage::keep: one budget of bytes for both kinds.
keep(page, sig) ==
  /\ Used(page) + width[sig] <= MAX_READINGS_BYTES
  /\ Len(page.rows) < MAX_SAMPLES + MAX_SERIES

push_sample(page, sig) ==
  IF OfKind(page, FALSE) >= MAX_SAMPLES \/ ~ keep(page, sig)
  THEN Full(page, sig) ELSE Take(page, sig)

push_series(page, sig) ==
  IF OfKind(page, TRUE) >= MAX_SERIES \/ ~ keep(page, sig)
  THEN Full(page, sig) ELSE Take(page, sig)

\* ConcernsPage::push
push_concern(page, cid) ==
  IF \/ Len(page.rows) >= MAX_CONCERN_PAGE_ROWS
     \/ Used(page) + width[cid] > MAX_CONCERN_PAGE_BYTES
  THEN Full(page, cid) ELSE Take(page, cid)

\* The page that answers a request from a cursor: rows offered in ascending
\* order until one is refused.
Built(what, from) ==
  LET page[s \in 0 .. LastSig] ==
        IF s = 0 THEN NewPage
        ELSE IF s < from \/ page[s - 1].next # 0 THEN page[s - 1]
        ELSE IF what = "concerns" THEN push_concern(page[s - 1], s)
        ELSE IF s \in series THEN push_series(page[s - 1], s)
        ELSE push_sample(page[s - 1], s)
  IN  page[LastSig]

\* ReadingsPage::encode_array: the rows of one kind, in the order pushed.
encode_array(page, isSeries) ==
  LET put[i \in 0 .. Len(page.rows)] ==
        IF i = 0 THEN <<>>
        ELSE IF (page.rows[i] \in series) = isSeries
             THEN Append(put[i - 1], page.rows[i]) ELSE put[i - 1]
  IN  put[Len(page.rows)]

\* Seeded fault: the total that was judged and did not fit is recorded with them.
OnTheWireJudged(page) ==
  {page.rows[i] : i \in DOMAIN page.rows} \cup ({page.next} \cap Sigs)

\* The counters a page publishes: published is called once the sample is on
\* the wire and not before.
OnTheWire(page) == {page.rows[i] : i \in DOMAIN page.rows}

-----------------------------------------------------------------------------
(* Sweep: what changed since the client was told, as many as fit. *)

SweepFits(entries, sig) ==
  /\ Len(entries) < SWEEP_ROWS
  /\ Used([rows |-> entries]) + width[sig] <= MAX_EVENT_BODY

\* Entries are pushed until one is refused.
Sweep ==
  LET swept[s \in 0 .. LastSig] ==
        IF s = 0 THEN [taken |-> <<>>, full |-> FALSE]
        ELSE IF status[s] = told[s] \/ swept[s - 1].full THEN swept[s - 1]
        ELSE IF SweepFits(swept[s - 1].taken, s)
             THEN [swept[s - 1] EXCEPT !.taken = Append(@, s)]
        ELSE [swept[s - 1] EXCEPT !.full = TRUE]
  IN  swept[LastSig].taken

\* Seeded fault: everything that changed counts as told.
TakenAll(entries) == IF entries = <<>> THEN {} ELSE {s \in Sigs : status[s] # told[s]}

\* Sweep::taken: what the event carried, to mark as told.
Taken(entries) == {entries[i] : i \in DOMAIN entries}

-----------------------------------------------------------------------------
Idle == [what |-> "none", from |-> 0, got |-> [s \in Sigs |-> 0]]

Init ==
  /\ width \in [Sigs -> 1 .. MaxWidth] /\ series \in SUBSET Sigs
  /\ total = [s \in Sigs |-> 1] /\ run = [s \in Sigs |-> None]
  /\ sent = [s \in Sigs |-> [was |-> None, now |-> None, called |-> "Ok"]]
  /\ status = [s \in Sigs |-> "Ok"] /\ told = status /\ heard = status
  /\ walk = Idle /\ changes = 0

\* A counter moves: up, back to the start, or to a value no counter has.
Count(s, now) ==
  /\ changes < MaxChanges /\ s \notin series /\ now # total[s]
  /\ total' = [total EXCEPT ![s] = now]
  /\ changes' = changes + 1
  /\ UNCHANGED <<width, series, run, sent, status, told, heard, walk>>

\* A signal's validity moves, perhaps back before anybody was told.
Move(s, validity) ==
  /\ changes < MaxChanges /\ validity # status[s]
  /\ status' = [status EXCEPT ![s] = validity]
  /\ changes' = changes + 1
  /\ UNCHANGED <<width, series, total, run, sent, told, heard, walk>>

Ask(what) ==
  /\ walk.what = "none"
  /\ walk' = [what |-> what, from |-> 1, got |-> [s \in Sigs |-> 0]]
  /\ UNCHANGED <<width, series, total, run, sent, status, told, heard, changes>>

\* What a client makes of a page: the rows of its two arrays, and the cursor
\* to ask from next.
Followed(page) ==
  LET rows == encode_array(page, FALSE) \o encode_array(page, TRUE)
  IN  [walk EXCEPT !.from = page.next,
         !.got = [s \in Sigs |-> @[s] + Cardinality({i \in DOMAIN rows : rows[i] = s})]]

\* The controller answers the walk's cursor, and the page arrives or is lost.
Page(arrives) ==
  /\ walk.what # "none" /\ walk.from # 0
  /\ LET page == Built(walk.what, walk.from)
         counters == IF walk.what = "readings" THEN OnTheWire(page) \ series ELSE {}
     IN  /\ run' = [s \in Sigs |-> IF s \in counters THEN published(run[s], total[s])
                                   ELSE run[s]]
         /\ sent' = [s \in Sigs |->
              IF walk.what = "readings" /\ s \in {page.rows[i] : i \in DOMAIN page.rows} \ series
                 /\ judge(run[s], total[s]) # "OutOfRange"
              THEN [was |-> sent[s].now, now |-> total[s], called |-> judge(run[s], total[s])]
              ELSE sent[s]]
         /\ walk' = IF arrives THEN Followed(page) ELSE walk
  /\ UNCHANGED <<width, series, total, status, told, heard, changes>>

\* A walk that met the end is put away.
Done ==
  /\ walk.what # "none" /\ walk.from = 0
  /\ walk' = Idle
  /\ UNCHANGED <<width, series, total, run, sent, status, told, heard, changes>>

\* One tick: the event of what changed, and the mark of what it carried.
Tick ==
  /\ Sweep # <<>>
  /\ heard' = [s \in Sigs |-> IF \E i \in DOMAIN Sweep : Sweep[i] = s
                              THEN status[s] ELSE heard[s]]
  /\ told' = [s \in Sigs |-> IF s \in Taken(Sweep) THEN status[s] ELSE told[s]]
  /\ UNCHANGED <<width, series, total, run, sent, status, walk, changes>>

PageNext ==
  \/ \E s \in Sigs : \E now \in -1 .. MaxTotal : Count(s, now)
  \/ \E what \in {"readings", "concerns"} : Ask(what)
  \/ \E arrives \in BOOLEAN : Page(arrives)
  \/ Done

EventNext == (\E s \in Sigs, validity \in Validities : Move(s, validity)) \/ Tick

Next == PageNext \/ EventNext

Spec == Init /\ [][Next]_vars /\ WF_vars(Tick)

-----------------------------------------------------------------------------
(* Properties *)

\* A row keeps its meaning whichever page it falls in. Whoever joins what was
\* published of a counter into a line never meets a fall that is not called a
\* reset, nor a reset that is not a fall, however often a full page put the
\* judged sample off to the next one; and a walk that met the end of the
\* selection was given every row once, through row caps, the shared budget of
\* bytes, lost pages and two arrays per page (CounterRun::judge and published,
\* ReadingsPage, ConcernsPage).
PagesWhole ==
  /\ \A s \in Sigs : (sent[s].called = "Reset") <=> (sent[s].now < sent[s].was)
  /\ walk.what # "none" /\ walk.from = 0 => \A s \in Sigs : walk.got[s] = 1

\* What the client last heard of every signal is in the end what it is: an
\* entry that did not fit the event is carried to the next tick (P-182).
HeardInTheEnd == <>[](heard = status)
=============================================================================
