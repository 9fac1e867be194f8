---------------------------- MODULE InventoryWalk ----------------------------
(***************************************************************************)
(* The cold plane (inventory.rs): a client reads the controller's          *)
(* descriptor tables a page at a time and keeps them as a cache, named by  *)
(* a revision and a digest over the rows' bytes.  The controller pins      *)
(* nothing between two pages, so a row may change under the walk; it       *)
(* should move the revision when one does, and the digest is there for the *)
(* day it does not.                                                        *)
(*                                                                         *)
(* SHA-256 is taken as injective: a digest is its preimage.                *)
(***************************************************************************)
EXTENDS Naturals, Sequences, FiniteSets

CONSTANTS
  LastKind,        \* the row kinds are 1 .. LastKind, RowKind::number
  MaxId,           \* bound: row ids are 1 .. MaxId
  Contents,        \* what a row may say
  Width(_),        \* the bytes a row encodes to
  PageRows,        \* MAX_INVENTORY_PAGE_ROWS
  PageBytes,       \* MAX_INVENTORY_PAGE_BYTES
  FirstTables,     \* bound: the tables a kind may start with
  MaxBumped,       \* bound: edits that move the revision
  MaxUnbumped      \* bound: edits that forget to

ASSUME WalkAssumption ==
  /\ LastKind \in Nat \ {0} /\ MaxId \in Nat
  /\ PageRows \in Nat \ {0}
  /\ \A c \in Contents : Width(c) \in 1 .. PageBytes
  /\ FirstTables \subseteq UNION {[ids -> Contents] :
                                   ids \in SUBSET (1 .. MaxId)}
  /\ MaxBumped \in Nat /\ MaxUnbumped \in Nat

VARIABLES
  rev, tables,     \* the controller's revision and rows
  bumped, unbumped,\* the edits so far
  pins,            \* whether the client's requests name the walk's revision
  walk,            \* the walk under way
  wire,            \* the request or response in flight, if any; `stood` is
                   \* history: the tables when a response was built
  cache,           \* the rows a walk assembled, and their digest, if any
  fault            \* the client surfaced a controller fault (P-149)

walkVars == <<rev, tables, bumped, unbumped, pins, walk, wire, cache, fault>>

Kinds == 1 .. LastKind
NoDigest == <<>>

\* A table is a function from the ids in use to what each row says; a row is
\* its id and its content, and those are its bytes.
Tables == UNION {[ids -> Contents] : ids \in SUBSET (1 .. MaxId)}
RowsFrom(table, from) ==
  LET ids == {d \in DOMAIN table : d >= from}
      Nth(i) == CHOOSE d \in ids : Cardinality({e \in ids : e < d}) = i - 1
  IN  [i \in 1 .. Cardinality(ids) |-> <<Nth(i), table[Nth(i)]>>]

\* Every row of every kind, in canonical order.
AllRows ==
  LET upTo[k \in 0 .. LastKind] ==
        IF k = 0 THEN <<>> ELSE upTo[k - 1] \o RowsFrom(tables[k], 1)
  IN  upTo[LastKind]

-----------------------------------------------------------------------------
(* Seeded faults.                                                          *)

PushSkipsRow(page, row) ==
  IF page.full THEN page
  ELSE IF \/ Len(page.rows) >= PageRows
          \/ page.used + Width(row[2]) > PageBytes
  THEN [page EXCEPT !.next = row[1] + 1, !.full = TRUE]
  ELSE [page EXCEPT !.rows = Append(@, row), !.used = @ + Width(row[2])]

AbsorbLast(d, kind, rows) == [d EXCEPT !.last = kind, !.bytes = rows]

-----------------------------------------------------------------------------
(* Pages and the digest.                                                   *)

(* Page::new                                                               *)
NewPage(kind) ==
  [kind |-> kind, rows |-> <<>>, used |-> 0, next |-> 0, full |-> FALSE]

(* Page::push: the row cap, then the byte cap.  `full` is the caller's     *)
(* stopping at the first row the page did not take.                        *)
Push(page, row) ==
  IF page.full THEN page
  ELSE IF \/ Len(page.rows) >= PageRows
          \/ page.used + Width(row[2]) > PageBytes
  THEN [page EXCEPT !.next = row[1], !.full = TRUE]
  ELSE [page EXCEPT !.rows = Append(@, row), !.used = @ + Width(row[2])]

(* TopoDigest::new                                                         *)
NewDigest(r) == [rev |-> r, last |-> 0, bytes |-> <<>>]

(* TopoDigest::absorb refuses a kind that goes backwards ...               *)
InOrder(d, kind) == kind >= d.last

(* ... and takes the rows' bytes as they stand.                            *)
Absorb(d, kind, rows) == [d EXCEPT !.last = kind, !.bytes = @ \o rows]

(* TopoDigest::finish                                                      *)
Finish(d) == <<d.rev, d.bytes>>

\* The digest of the controller's tables as they stand.
CurrentDigest ==
  LET upTo[k \in 0 .. LastKind] ==
        IF k = 0 THEN NewDigest(rev)
        ELSE Absorb(upTo[k - 1], k, RowsFrom(tables[k], 1))
  IN  Finish(upTo[LastKind])

\* The page of the rows that fit, from the first one asked for.
Built(what, rows) ==
  LET upTo[i \in 0 .. Len(rows)] ==
        IF i = 0 THEN NewPage(what) ELSE Push(upTo[i - 1], rows[i])
  IN  upTo[Len(rows)]

-----------------------------------------------------------------------------
(* The bodies of a request and of a response.                              *)

Request(r, what, from) == [rev |-> r, what |-> what, from |-> from]

(* InventoryOutcome, in the order P-146 and P-147 give: what the handler   *)
(* answers to a request (external).                                        *)
OutcomeOf(req) ==
  IF req.rev \notin {0, rev} THEN "Superseded"
  ELSE IF req.what \notin Kinds THEN "UnknownKind"
  ELSE IF req.from # 0 /\ RowsFrom(tables[req.what], req.from) = <<>>
  THEN "OutOfRange"
  ELSE "Ok"

(* What InventoryBody::encode will not write, and InventoryHeader::decode  *)
(* will not read: nothing but an Ok carries rows or a digest, and no page  *)
(* but the last carries a digest.                                          *)
Forbidden(outcome, rows, next, digest) ==
  \/ outcome # "Ok" /\ (rows # <<>> \/ digest # NoDigest)
  \/ digest # NoDigest /\ next # 0

(* InventoryBody::encode                                                   *)
Encode(outcome, what, page, digest) ==
  [rev |-> rev, what |-> what, outcome |-> outcome,
   rows |-> IF outcome = "Ok" THEN page.rows ELSE <<>>,
   next |-> IF outcome = "Ok" THEN page.next ELSE 0, digest |-> digest]

(* InventoryHeader::decode                                                 *)
Decodes(body) == ~Forbidden(body.outcome, body.rows, body.next, body.digest)

-----------------------------------------------------------------------------
(* The controller.                                                         *)

\* What a table looks like once one row was added, removed or rewritten.
Edits(table) ==
  {t \in Tables : \E id \in 1 .. MaxId :
     /\ t # table
     /\ (DOMAIN t) \ {id} = (DOMAIN table) \ {id}
     /\ \A other \in (DOMAIN t) \ {id} : t[other] = table[other]}

(* A descriptor row changes and the revision moves (external).             *)
Edit ==
  /\ bumped < MaxBumped
  /\ bumped' = bumped + 1
  /\ rev' = rev + 1
  /\ \E k \in Kinds : \E t \in Edits(tables[k]) :
       tables' = [tables EXCEPT ![k] = t]
  /\ UNCHANGED <<unbumped, pins, walk, wire, cache, fault>>

(* The silent failure the digest is for: the revision stays (external).    *)
EditUnbumped ==
  /\ unbumped < MaxUnbumped
  /\ unbumped' = unbumped + 1
  /\ \E k \in Kinds : \E t \in Edits(tables[k]) :
       tables' = [tables EXCEPT ![k] = t]
  /\ UNCHANGED <<rev, bumped, pins, walk, wire, cache, fault>>

(* The handler of ReadInventory (external): the rows at and after `from`,  *)
(* until a page is full, and the digest where the last kind ends.          *)
Answer == \E m \in wire :
  /\ m.to = "controller"
  /\ LET what == m.body.what
         out  == OutcomeOf(m.body)
         page == IF out = "Ok"
                 THEN Built(what, RowsFrom(tables[what], m.body.from))
                 ELSE NewPage(what)
         digest == IF out = "Ok" /\ what = LastKind /\ page.next = 0
                   THEN CurrentDigest ELSE NoDigest
     IN  /\ ~Forbidden(out, page.rows, page.next, digest)
         /\ wire' = {[to |-> "client", stood |-> AllRows,
                      body |-> Encode(out, what, page, digest)]}
  /\ UNCHANGED <<rev, tables, bumped, unbumped, pins, walk, cache, fault>>

-----------------------------------------------------------------------------
(* The client, as P-146, P-149 and the comments on InventoryHeader have it *)
(* (external).                                                             *)

NotWalking == [kind |-> 0, rev |-> 0, from |-> 0, rows |-> <<>>,
               digest |-> NewDigest(0)]
Start      == [NotWalking EXCEPT !.kind = 1]

(* A session opens, and Hello's Topology names the controller's revision   *)
(* and digest: a cache under another identity is discarded.                *)
Hello ==
  /\ walk.kind = 0
  /\ cache' = {c \in cache : c.digest = CurrentDigest}
  /\ walk'  = IF cache' = {} THEN Start ELSE walk
  /\ fault' = (fault \/ \E c \in cache \ cache' : c.digest[1] = rev)
  /\ UNCHANGED <<rev, tables, bumped, unbumped, pins, wire>>

Ask ==
  /\ walk.kind # 0 /\ wire = {}
  /\ wire' = {[to |-> "controller", stood |-> <<>>,
               body |-> Request(IF pins THEN walk.rev ELSE 0, walk.kind,
                                walk.from)]}
  /\ UNCHANGED <<rev, tables, bumped, unbumped, pins, walk, cache, fault>>

(* The link gives out with something in flight, and the client asks again. *)
Lose ==
  /\ wire # {}
  /\ wire' = {}
  /\ UNCHANGED <<rev, tables, bumped, unbumped, pins, walk, cache, fault>>

\* A page that ends the walk: refused, not Ok, or of another revision.
Torn(body) ==
  \/ ~Decodes(body)
  \/ body.outcome # "Ok"
  \/ walk.rev # 0 /\ body.rev # walk.rev

\* The walk with one more page.
Taken(body) ==
  LET d == IF walk.rev = 0 THEN NewDigest(body.rev) ELSE walk.digest
  IN  [kind   |-> IF body.next = 0 THEN walk.kind + 1 ELSE walk.kind,
       rev    |-> body.rev,
       from   |-> body.next,
       rows   |-> walk.rows \o body.rows,
       digest |-> Absorb(d, body.what, body.rows)]

(* A page arrives.  After the last one the walk is whole if the digests    *)
(* agree.                                                                  *)
Receive == \E m \in wire :
  /\ m.to = "client"
  /\ wire' = {}
  /\ LET after == Taken(m.body)
         whole == Finish(after.digest) = m.body.digest
     IN  \/ /\ Torn(m.body)
            /\ walk' = Start
            /\ UNCHANGED <<cache, fault>>
         \/ /\ ~Torn(m.body) /\ InOrder(walk.digest, m.body.what)
            /\ after.kind <= LastKind
            /\ walk' = after
            /\ UNCHANGED <<cache, fault>>
         \/ /\ ~Torn(m.body) /\ InOrder(walk.digest, m.body.what)
            /\ after.kind > LastKind
            /\ walk'  = IF whole THEN NotWalking ELSE Start
            /\ cache' = IF whole THEN {[rows |-> after.rows,
                                        digest |-> Finish(after.digest)]}
                        ELSE {}
            /\ fault' = (fault \/ ~whole)
  /\ UNCHANGED <<rev, tables, bumped, unbumped, pins>>

-----------------------------------------------------------------------------
WalkInit ==
  /\ rev = 1 /\ tables \in [Kinds -> FirstTables]
  /\ bumped = 0 /\ unbumped = 0
  /\ pins \in BOOLEAN
  /\ walk = NotWalking /\ wire = {} /\ cache = {}
  /\ fault = FALSE

WalkNext == Edit \/ EditUnbumped \/ Answer \/ Hello \/ Ask \/ Lose \/ Receive

\* A client with no cache opens sessions and asks, the controller answers, and
\* a link that keeps losing pages delivers one in the end.
WalkSpec ==
  /\ WalkInit /\ [][WalkNext]_walkVars
  /\ WF_walkVars(Hello) /\ WF_walkVars(Ask)
  /\ SF_walkVars(Answer) /\ SF_walkVars(Receive)

-----------------------------------------------------------------------------
WalkTypeOK ==
  /\ rev \in 1 .. 1 + MaxBumped
  /\ tables \in [Kinds -> Tables]
  /\ bumped \in 0 .. MaxBumped /\ unbumped \in 0 .. MaxUnbumped
  /\ walk.kind \in 0 .. LastKind /\ walk.rev \in 0 .. rev
  /\ walk.from \in 0 .. MaxId
  /\ fault \in BOOLEAN

\* A walk that completes hands the client one state of the controller: the
\* rows it cached are, byte for byte, the tables as they stood when the last
\* page was built, whatever was edited between pages and whether or not the
\* revision moved; and a controller that moves its revision with every edit
\* is never called faulty for it (TopoDigest::absorb, InventoryHeader::decode,
\* Page::push).
CompletedWhole ==
  [][/\ Receive => \A c \in cache', m \in wire : c.rows = m.stood
     /\ fault' => unbumped' > 0]_walkVars

\* When the edits stop, the client ends with the tables as they stand: pages
\* within the two caps carry every row to it, and a cache that an edit left
\* stale is discarded, also one that left the revision alone (Page::push,
\* TopoDigest::absorb).
CurrentInTheEnd == <>[](\E c \in cache : c.rows = AllRows)
=============================================================================
