--------------------------- MODULE Inventory_proof ---------------------------
(***************************************************************************)
(* Both clients of the inventory, for tables, pages and walks of any size. *)
(*   - ReceivedTopology: what a client holds is the last row of every bus  *)
(*     and device of the walk, P-202 was judged after each of its rows,    *)
(*     and no more devices are held than there is room for.                *)
(*   - InventoryWalk: a cache is the tables as they stood when its last    *)
(*     page was built, and a controller that moves its revision with every *)
(*     edit is never found at fault.                                       *)
(***************************************************************************)
EXTENDS ReceivedTopology, InventoryWalk, WellFoundedInduction,
  FiniteSetTheorems, SequenceTheorems, TLAPS

-----------------------------------------------------------------------------
(* The rows of a history h of pages: their places, the places up to one,   *)
(* and the rows no later row of a set of places has replaced.              *)
PlacesIn(h, w, what) ==
  {at \in w \X (1 .. MaxRows) : h[at[1]].what = what /\ at[2] \in DOMAIN h[at[1]].rows}

UpTo(h, w, what, at) == {a \in PlacesIn(h, w, what) : Earlier(a, at)}

RowOf(h, at) == h[at[1]].rows[at[2]]

Alike(what, r, s) == IF what = "Bus" THEN SameBus(r, s) ELSE SameDev(r, s)

Unreplaced(h, what, U) ==
  {a \in U : \A b \in U : Alike(what, RowOf(h, a), RowOf(h, b)) => Earlier(b, a)}

LastRows(h, what, U) == {RowOf(h, a) : a \in Unreplaced(h, what, U)}

Shows(t, h, w, at) ==
  /\ t.buses = LastRows(h, "Bus", UpTo(h, w, "Bus", at))
  /\ t.devices = LastRows(h, "Device", UpTo(h, w, "Device", at))

IsPlace(h, w, what, a) ==
  /\ a = <<a[1], a[2]>> /\ a[1] \in w /\ a[2] \in 1 .. MaxRows
  /\ h[a[1]].what = what /\ a[2] \in DOMAIN h[a[1]].rows

LEMMA PlaceFacts ==
  ASSUME NEW h, NEW w \in SUBSET Nat, NEW what, NEW a
  PROVE  a \in PlacesIn(h, w, what) <=> IsPlace(h, w, what, a)
<1>1. a \in w \X (1 .. MaxRows) <=>
        a = <<a[1], a[2]>> /\ a[1] \in w /\ a[2] \in 1 .. MaxRows
  OBVIOUS
<1>2. QED BY <1>1 DEF PlacesIn, IsPlace

(* A place after all the others: its row replaces the one like it.         *)
LEMMA Replaces ==
  ASSUME NEW h, NEW what, NEW U, NEW c, c \notin U,
         Earlier(c, c),
         \A a \in U : Earlier(a, c) /\ ~Earlier(c, a)
  PROVE  LastRows(h, what, U \cup {c}) =
           {r \in LastRows(h, what, U) : ~Alike(what, r, RowOf(h, c))} \cup {RowOf(h, c)}
<1> DEFINE V    == U \cup {c}
           kept == {a \in Unreplaced(h, what, U) : ~Alike(what, RowOf(h, a), RowOf(h, c))}
<1>1. ASSUME NEW a
      PROVE  a \in Unreplaced(h, what, V) <=> a \in kept \/ a = c
  BY DEF Unreplaced
<1>2. Unreplaced(h, what, V) = kept \cup {c}
  BY <1>1
<1>3. {r \in LastRows(h, what, U) : ~Alike(what, r, RowOf(h, c))}
        = {RowOf(h, a) : a \in kept}
  BY DEF LastRows
<1> HIDE DEF V, kept
<1>4. LastRows(h, what, V) = {RowOf(h, a) : a \in kept} \cup {RowOf(h, c)}
  BY <1>2 DEF LastRows
<1>5. QED BY <1>3, <1>4 DEF V

(* Places whose rows are the same in two histories.                        *)
LEMMA SameRows ==
  ASSUME NEW h, NEW g, NEW what, NEW U,
         \A a \in U : RowOf(h, a) = RowOf(g, a)
  PROVE  LastRows(h, what, U) = LastRows(g, what, U)
<1>1. Unreplaced(h, what, U) = Unreplaced(g, what, U)
  BY DEF Unreplaced
<1>2. \A a \in Unreplaced(h, what, U) : RowOf(h, a) = RowOf(g, a)
  BY DEF Unreplaced
<1>3. QED BY <1>1, <1>2 DEF LastRows

(* What the model calls the view as of a place.                            *)
ViewsShown ==
  \A at : /\ ViewAt(at).buses = LastRows(accepted, "Bus", UpTo(accepted, Walk, "Bus", at))
          /\ ViewAt(at).devices = LastRows(accepted, "Device", UpTo(accepted, Walk, "Device", at))

LEMMA ViewIsLastRows == ViewsShown
<1> SUFFICES ASSUME NEW at
    PROVE  /\ ViewAt(at).buses = LastRows(accepted, "Bus", UpTo(accepted, Walk, "Bus", at))
           /\ ViewAt(at).devices = LastRows(accepted, "Device", UpTo(accepted, Walk, "Device", at))
  BY DEF ViewsShown
<1>1. \A what : Places(what) = PlacesIn(accepted, Walk, what)
  BY DEF Places, PlacesIn
<1>2. \A a : RowAt(a) = RowOf(accepted, a)
  BY DEF RowAt, RowOf
<1>3. {a \in Places("Bus") : /\ Earlier(a, at)
                             /\ \A b \in Places("Bus") :
                                  Earlier(b, at) /\ SameBus(RowAt(a), RowAt(b)) => Earlier(b, a)}
        = Unreplaced(accepted, "Bus", UpTo(accepted, Walk, "Bus", at))
  BY <1>1, <1>2 DEF Unreplaced, UpTo, Alike
<1>4. {a \in Places("Device") : /\ Earlier(a, at)
                                /\ \A b \in Places("Device") :
                                     Earlier(b, at) /\ SameDev(RowAt(a), RowAt(b)) => Earlier(b, a)}
        = Unreplaced(accepted, "Device", UpTo(accepted, Walk, "Device", at))
  BY <1>1, <1>2 DEF Unreplaced, UpTo, Alike
<1>5. Latest("Bus", SameBus, at) = LastRows(accepted, "Bus", UpTo(accepted, Walk, "Bus", at))
  BY <1>2, <1>3 DEF Latest, LastRows
<1>6. Latest("Device", SameDev, at) = LastRows(accepted, "Device", UpTo(accepted, Walk, "Device", at))
  BY <1>2, <1>4 DEF Latest, LastRows
<1>7. QED BY <1>5, <1>6 DEF ViewAt

LEMMA NextViewIsLastRows == ViewsShown'
BY ViewIsLastRows, PTL

-----------------------------------------------------------------------------
(* A history and the one page appended to it.                              *)
Extended(h, g, p) ==
  /\ Len(h) \in Nat
  /\ \A i \in 1 .. Len(h) : g[i] = h[i]
  /\ g[Len(h) + 1] = p
  /\ Len(p.rows) \in 0 .. MaxRows /\ DOMAIN p.rows = 1 .. Len(p.rows)

(* The places of the old pages are what they were, and all come before the *)
(* new page's rows.                                                        *)
OldKept(h, g, w, what) ==
  LET more == w \cup {Len(h) + 1} IN
  /\ \A i \in 1 .. Len(h), n \in Nat :
       UpTo(g, more, what, <<i, n>>) = UpTo(h, w, what, <<i, n>>)
  /\ UpTo(g, more, what, <<Len(h) + 1, 0>>) = UpTo(h, w, what, <<Len(h), MaxRows>>)
  /\ UpTo(g, {Len(h) + 1}, what, <<Len(h) + 1, 0>>) = {}
  /\ \A a \in PlacesIn(h, w, what) : RowOf(g, a) = RowOf(h, a)

LEMMA OldPlaces ==
  ASSUME NEW h, NEW g, NEW p, Extended(h, g, p),
         NEW w \in SUBSET (1 .. Len(h)), NEW what
  PROVE  OldKept(h, g, w, what)
<1> DEFINE last == Len(h)
           more == w \cup {last + 1}
<1>0. MaxRows \in Nat /\ last \in Nat /\ w \in SUBSET Nat /\ more \in SUBSET Nat
  <2>1. MaxRows \in Nat /\ last \in Nat
    BY TopologyAssumption DEF Extended
  <2>2. w \in SUBSET Nat /\ last + 1 \in Nat
    BY <2>1
  <2>3. QED BY <2>1, <2>2
<1>1. ASSUME NEW a PROVE a \in PlacesIn(h, w, what) <=> a \in PlacesIn(g, more, what) /\ a[1] # last + 1
  <2>1. a[1] \in w => a[1] \in 1 .. last /\ a[1] # last + 1 /\ g[a[1]] = h[a[1]]
    BY <1>0 DEF Extended
  <2>2. a[1] \in more /\ a[1] # last + 1 => a[1] \in w
    OBVIOUS
  <2>3. a[1] \in w => a[1] \in more
    OBVIOUS
  <2> HIDE DEF more, last
  <2>4. QED BY <1>0, <2>1, <2>2, <2>3, PlaceFacts DEF IsPlace
<1>2. ASSUME NEW a \in PlacesIn(g, more, what)
      PROVE  a[1] \in 1 .. last + 1 /\ a[2] \in 1 .. MaxRows
  <2>1. a[1] \in more /\ a[2] \in 1 .. MaxRows
    <3> HIDE DEF more
    <3>1. QED BY <1>0, <1>2, PlaceFacts DEF IsPlace
  <2>2. QED BY <1>0, <2>1
<1>3. ASSUME NEW i \in 1 .. last, NEW n \in Nat
      PROVE  UpTo(g, more, what, <<i, n>>) = UpTo(h, w, what, <<i, n>>)
  <2>1. ASSUME NEW a \in PlacesIn(g, more, what), a[1] = last + 1
        PROVE  ~Earlier(a, <<i, n>>)
    BY <1>0, <2>1 DEF Earlier
  <2> HIDE DEF more, last
  <2>2. QED BY <1>1, <2>1 DEF UpTo
<1>4. UpTo(g, more, what, <<last + 1, 0>>) = UpTo(h, w, what, <<last, MaxRows>>)
  <2>1. ASSUME NEW a \in PlacesIn(g, more, what)
        PROVE  Earlier(a, <<last + 1, 0>>) <=> a[1] # last + 1
    <3>1. a[1] \in 1 .. last + 1 /\ a[2] \in 1 .. MaxRows
      BY <1>2, <2>1
    <3> HIDE DEF more, last
    <3>2. QED BY <1>0, <3>1 DEF Earlier
  <2>2. ASSUME NEW a \in PlacesIn(g, more, what), a[1] # last + 1
        PROVE  Earlier(a, <<last, MaxRows>>)
    <3>1. a[1] \in 1 .. last + 1 /\ a[2] \in 1 .. MaxRows
      BY <1>2, <2>2
    <3> HIDE DEF more, last
    <3>2. QED BY <1>0, <2>2, <3>1 DEF Earlier
  <2> HIDE DEF more, last
  <2>3. QED BY <1>1, <2>1, <2>2 DEF UpTo
<1>5. UpTo(g, {last + 1}, what, <<last + 1, 0>>) = {}
  <2>1. ASSUME NEW a \in PlacesIn(g, {last + 1}, what)
        PROVE  ~Earlier(a, <<last + 1, 0>>)
    <3>1. a[1] = last + 1 /\ a[2] \in 1 .. MaxRows
      <4>1. {last + 1} \in SUBSET Nat
        BY <1>0
      <4> HIDE DEF last
      <4>2. QED BY <4>1, PlaceFacts DEF IsPlace
    <3>2. QED BY <1>0, <3>1 DEF Earlier
  <2>2. QED BY <2>1 DEF UpTo
<1>6. ASSUME NEW a \in PlacesIn(h, w, what) PROVE RowOf(g, a) = RowOf(h, a)
  <2>1. a[1] \in 1 .. last
    BY <1>0, <1>6, PlaceFacts DEF IsPlace
  <2>2. QED BY <2>1 DEF Extended, RowOf
<1>7. QED BY <1>3, <1>4, <1>5, <1>6 DEF OldKept

(* The places of the new page: each row adds its own, after all before.    *)
NewAdded(new, g, p, w, what) ==
  LET at(n) == <<new, n>> IN
  /\ \A n \in 1 .. Len(p.rows) :
       /\ UpTo(g, w, what, at(n)) =
            UpTo(g, w, what, at(n - 1)) \cup (IF p.what = what THEN {at(n)} ELSE {})
       /\ RowOf(g, at(n)) = p.rows[n]
       /\ at(n) \notin UpTo(g, w, what, at(n - 1))
       /\ Earlier(at(n), at(n))
       /\ \A a \in UpTo(g, w, what, at(n - 1)) : Earlier(a, at(n)) /\ ~Earlier(at(n), a)
  /\ UpTo(g, w, what, at(MaxRows)) = UpTo(g, w, what, at(Len(p.rows)))

LEMMA NewPlaces ==
  ASSUME NEW h, NEW g, NEW p, Extended(h, g, p),
         NEW w \in SUBSET (1 .. Len(h) + 1), Len(h) + 1 \in w, NEW what
  PROVE  NewAdded(Len(h) + 1, g, p, w, what)
<1> DEFINE new == Len(h) + 1
           k == Len(p.rows)
           at(n) == <<new, n>>
           P == PlacesIn(g, w, what)
<1>0. /\ MaxRows \in Nat /\ new \in Nat /\ k \in 0 .. MaxRows /\ w \in SUBSET Nat
      /\ new \in w /\ g[new] = p /\ DOMAIN p.rows = 1 .. k
      /\ \A i \in w : i <= new
  BY TopologyAssumption DEF Extended
<1>1. ASSUME NEW a \in P
      PROVE  /\ a = <<a[1], a[2]>> /\ a[1] \in Nat /\ a[1] <= new /\ a[2] \in 1 .. MaxRows
             /\ a[1] = new => p.what = what /\ a[2] \in 1 .. k
  <2> HIDE DEF new, k
  <2>1. QED BY <1>0, <1>1, PlaceFacts DEF IsPlace
<1>2. ASSUME NEW n \in 1 .. k, p.what = what PROVE at(n) \in P
  <2>1. at(n) = <<at(n)[1], at(n)[2]>> /\ at(n)[1] = new /\ at(n)[2] = n /\ n \in 1 .. MaxRows
    BY <1>0
  <2> HIDE DEF new, k, at
  <2>2. QED BY <1>0, <1>2, <2>1, PlaceFacts DEF IsPlace
<1> HIDE DEF P, k
<1>3. ASSUME NEW n \in 1 .. k
      PROVE  /\ UpTo(g, w, what, at(n)) =
                  UpTo(g, w, what, at(n - 1)) \cup (IF p.what = what THEN {at(n)} ELSE {})
             /\ RowOf(g, at(n)) = p.rows[n]
             /\ at(n) \notin UpTo(g, w, what, at(n - 1))
             /\ Earlier(at(n), at(n))
             /\ \A a \in UpTo(g, w, what, at(n - 1)) : Earlier(a, at(n)) /\ ~Earlier(at(n), a)
  <2>0. n \in Nat /\ n - 1 \in Int /\ n # 0
    BY <1>0
  <2>1. ASSUME NEW a \in P
        PROVE  /\ Earlier(a, at(n)) <=> Earlier(a, at(n - 1)) \/ (a = at(n))
               /\ a = at(n) => ~Earlier(a, at(n - 1))
               /\ Earlier(a, at(n - 1)) => Earlier(a, at(n)) /\ ~Earlier(at(n), a)
    <3>1. a = at(n) <=> a[1] = new /\ a[2] = n
      BY <1>1
    <3>2. Earlier(a, at(n)) <=> a[1] < new \/ (a[1] = new /\ a[2] <= n)
      BY DEF Earlier
    <3>3. Earlier(a, at(n - 1)) <=> a[1] < new \/ (a[1] = new /\ a[2] <= n - 1)
      BY DEF Earlier
    <3>4. Earlier(at(n), a) <=> new < a[1] \/ (new = a[1] /\ n <= a[2])
      BY DEF Earlier
    <3>5. a[1] \in Nat /\ a[2] \in Nat
      BY <1>0, <1>1
    <3> HIDE DEF at, new
    <3>6. QED BY <1>0, <2>0, <3>1, <3>2, <3>3, <3>4, <3>5
  <2>2. Earlier(at(n), at(n)) /\ RowOf(g, at(n)) = p.rows[n]
    BY <1>0, <2>0 DEF Earlier, RowOf
  <2>3. p.what # what => at(n) \notin P
    BY <1>1
  <2>4. ~Earlier(at(n), at(n - 1))
    BY <1>0, <2>0 DEF Earlier
  <2> HIDE DEF at, new
  <2>5. UpTo(g, w, what, at(n)) =
          UpTo(g, w, what, at(n - 1)) \cup (IF p.what = what THEN {at(n)} ELSE {})
    <3>1. CASE p.what = what
      BY <1>2, <2>1, <3>1 DEF UpTo, P
    <3>2. CASE p.what # what
      BY <2>1, <2>3, <3>2 DEF UpTo, P
    <3>3. QED BY <3>1, <3>2
  <2>6. QED BY <2>1, <2>2, <2>4, <2>5 DEF UpTo, P
<1>4. UpTo(g, w, what, at(MaxRows)) = UpTo(g, w, what, at(k))
  <2>1. ASSUME NEW a \in P
        PROVE  Earlier(a, at(MaxRows)) <=> Earlier(a, at(k))
    <3>1. a[1] = new => a[2] <= MaxRows /\ a[2] <= k
      BY <1>0, <1>1
    <3>2. QED BY <3>1 DEF Earlier
  <2> HIDE DEF at
  <2>2. QED BY <2>1 DEF UpTo, P
<1>5. QED BY <1>3, <1>4 DEF k, at, new, NewAdded
-----------------------------------------------------------------------------
(* Up to a bound, a set of numbers with 0 and the successor of each of its *)
(* members is all of them: what stands for induction here.                 *)
LEMMA EachUpTo ==
  ASSUME NEW bound \in Nat, NEW T, 0 \in T,
         \A n \in 0 .. bound - 1 : n \in T => n + 1 \in T
  PROVE  \A n \in 0 .. bound : n \in T
<1> DEFINE missing == {n \in 0 .. bound : n \notin T}
<1>1. SUFFICES ASSUME missing # {} PROVE FALSE
  OBVIOUS
<1>2. missing \in SUBSET Nat
  OBVIOUS
<1>3. PICK m \in missing : \A n \in missing : <<n, m>> \notin OpToRel(<, Nat)
  BY <1>1, <1>2, NatLessThanWellFounded, WFMin
<1>4. m # 0 /\ m - 1 \in 0 .. bound - 1 /\ m - 1 \in Nat /\ m - 1 < m
  OBVIOUS
<1>5. \A n \in missing : ~(n < m)
  <2> HIDE DEF missing
  <2>1. QED BY <1>2, <1>3 DEF OpToRel
<1>6. m - 1 \in T
  BY <1>4, <1>5
<1>7. QED BY <1>4, <1>6

(* A row of a page taken into the copy, and judged.                        *)
RowAdded(before, what, row) ==
  LET after == IF what = "Bus" THEN HoldBus(before, row) ELSE HoldDevice(before, row)
  IN  IF before = Refused \/ ~P202Holds(after) THEN Refused ELSE after

(* The copies of the first n rows of a page.                               *)
CopiesTo(t, what, rows, n, f) ==
  f = [m \in 0 .. n |-> IF m = 0 THEN t ELSE RowAdded(f[m - 1], what, rows[m])]

LEMMA CopiesDefined ==
  ASSUME NEW t, NEW what, NEW rows, NEW k \in Nat
  PROVE  \E f : CopiesTo(t, what, rows, k, f)
<1> DEFINE T == {n \in 0 .. k : \E f : CopiesTo(t, what, rows, n, f)}
<1>1. 0 \in T
  <2> DEFINE f == [m \in 0 .. 0 |-> t]
  <2>1. f = [m \in 0 .. 0 |-> IF m = 0 THEN t ELSE RowAdded(f[m - 1], what, rows[m])]
    <3>1. \A m \in 0 .. 0 : m = 0
      OBVIOUS
    <3>2. QED BY <3>1
  <2> HIDE DEF f
  <2>2. CopiesTo(t, what, rows, 0, f)
    BY <2>1 DEF CopiesTo
  <2>3. QED BY <2>2
<1>2. ASSUME NEW n \in 0 .. k - 1, n \in T PROVE n + 1 \in T
  <2>1. PICK f : CopiesTo(t, what, rows, n, f)
    BY <1>2
  <2> DEFINE g == [m \in 0 .. n + 1 |->
                     IF m = n + 1 THEN RowAdded(f[n], what, rows[m]) ELSE f[m]]
  <2>2. \A m \in 0 .. n : f[m] = IF m = 0 THEN t ELSE RowAdded(f[m - 1], what, rows[m])
    BY <2>1 DEF CopiesTo
  <2>3. ASSUME NEW m \in 0 .. n + 1
        PROVE  g[m] = IF m = 0 THEN t ELSE RowAdded(g[m - 1], what, rows[m])
    <3>1. CASE m = n + 1
      <4>1. m # 0 /\ m - 1 = n /\ n \in 0 .. n + 1 /\ n # n + 1
        BY <3>1
      <4>2. g[m - 1] = f[n] /\ g[m] = RowAdded(f[n], what, rows[m])
        BY <3>1, <4>1
      <4> HIDE DEF g
      <4>3. QED BY <4>1, <4>2
    <3>2. CASE m # n + 1
      <4>1. m \in 0 .. n /\ (m # 0 => m - 1 \in 0 .. n + 1 /\ m - 1 # n + 1)
        BY <3>2
      <4>2. g[m] = f[m] /\ (m # 0 => g[m - 1] = f[m - 1])
        BY <3>2, <4>1
      <4> HIDE DEF g
      <4>3. QED BY <2>2, <4>1, <4>2
    <3>3. QED BY <3>1, <3>2
  <2>4. g = [m \in 0 .. n + 1 |-> g[m]]
    OBVIOUS
  <2> HIDE DEF g
  <2>5. CopiesTo(t, what, rows, n + 1, g)
    BY <2>3, <2>4 DEF CopiesTo
  <2>6. QED BY <2>5
<1> HIDE DEF T
<1>3. \A n \in 0 .. k : n \in T
  BY <1>1, <1>2, EachUpTo
<1>4. QED BY <1>3 DEF T

(* ReceivedTopology::page goes row by row; a copy once refused stays so.   *)
Copies(t, what, rows, f) ==
  /\ f[0] = t
  /\ \A n \in 1 .. Len(rows) : f[n] = RowAdded(f[n - 1], what, rows[n])
  /\ Apply(t, what, rows) = f[Len(rows)]
  /\ f[Len(rows)] # Refused => \A n \in 0 .. Len(rows) : f[n] # Refused

LEMMA ApplyCopies ==
  ASSUME NEW t, NEW what, NEW rows, Len(rows) \in Nat
  PROVE  \E f : Copies(t, what, rows, f)
<1> DEFINE k == Len(rows)
           f == CHOOSE g : CopiesTo(t, what, rows, k, g)
<1>1. CopiesTo(t, what, rows, k, f)
  BY CopiesDefined
<1>2. Apply(t, what, rows) = f[k]
  BY DEF Apply, CopiesTo, RowAdded
<1> HIDE DEF f, k
<1>3. k \in Nat
  BY DEF k
<1>4. \A n \in 0 .. k : f[n] = IF n = 0 THEN t ELSE RowAdded(f[n - 1], what, rows[n])
  BY <1>1 DEF CopiesTo
<1>5. f[0] = t /\ \A n \in 1 .. k : f[n] = RowAdded(f[n - 1], what, rows[n])
  <2>1. 0 \in 0 .. k /\ \A n \in 1 .. k : n \in 0 .. k /\ n # 0
    BY <1>3
  <2>2. QED BY <1>4, <2>1
<1>6. ASSUME f[k] # Refused PROVE \A n \in 0 .. k : f[n] # Refused
  <2> DEFINE T == {n \in 0 .. k : f[k - n] # Refused}
  <2>1. 0 \in T
    BY <1>3, <1>6
  <2>2. ASSUME NEW n \in 0 .. k - 1, n \in T PROVE n + 1 \in T
    <3>1. k - n \in 1 .. k /\ (k - n) - 1 = k - (n + 1) /\ n + 1 \in 0 .. k
      BY <1>3
    <3>2. f[k - n] = RowAdded(f[k - (n + 1)], what, rows[k - n])
      BY <1>5, <3>1
    <3>3. f[k - (n + 1)] # Refused
      BY <2>2, <3>2 DEF RowAdded
    <3>4. QED BY <3>1, <3>3
  <2> HIDE DEF T
  <2>3. \A n \in 0 .. k : n \in T
    BY <1>3, <2>1, <2>2, EachUpTo
  <2>4. ASSUME NEW n \in 0 .. k PROVE f[n] # Refused
    <3>1. k - n \in 0 .. k /\ k - (k - n) = n
      BY <1>3
    <3>2. QED BY <2>3, <3>1 DEF T
  <2>5. QED BY <2>4
<1>7. QED BY <1>2, <1>5, <1>6 DEF Copies, k
-----------------------------------------------------------------------------
(* A view within its types and its room, and one that P-202 allows.        *)
Fits(t) ==
  /\ t = [rev |-> t.rev, buses |-> t.buses, devices |-> t.devices]
  /\ t.buses \subseteq [bus : Buses, transport : Transports]
  /\ t.devices \subseteq [dev : Devs, bus : Buses, addr : Addrs \cup {NoAddr}]
  /\ IsFiniteSet(t.devices) /\ Cardinality(t.devices) <= Devices

Judged(buses, devices) ==
  /\ \A d \in devices : d.addr = NoAddr =>
       [bus |-> d.bus, transport |-> "addressed"] \notin buses
  /\ \A d, e \in devices :
       d.bus = e.bus /\ d.addr = e.addr /\ d.addr # NoAddr => d = e

LEMMA P202IsJudged ==
  ASSUME NEW t, P202Holds(t)
  PROVE  Judged(t.buses, t.devices)
BY DEF P202Holds, Judged, Addressed

(* hold_bus and hold_device: a row taken replaces the one like it, within  *)
(* the room there is, and the other table stays.                           *)
LEMMA RowTaken ==
  ASSUME NEW t, Fits(t), NEW what \in {"Bus", "Device"}, NEW row \in Rows(what),
         NEW u, u = RowAdded(t, what, row), u # Refused
  PROVE  /\ Fits(u) /\ u.rev = t.rev /\ Judged(u.buses, u.devices)
         /\ what = "Bus" =>
              /\ u.buses = {b \in t.buses : ~Alike("Bus", b, row)} \cup {row}
              /\ u.devices = t.devices
         /\ what = "Device" =>
              /\ u.devices = {d \in t.devices : ~Alike("Device", d, row)} \cup {row}
              /\ u.buses = t.buses
<1>1. /\ P202Holds(u)
      /\ u = IF what = "Bus" THEN HoldBus(t, row) ELSE HoldDevice(t, row)
  BY DEF RowAdded
<1>2. Judged(u.buses, u.devices)
  BY <1>1, P202IsJudged
<1>3. CASE what = "Bus"
  <2>1. /\ row \in BusRows /\ row.transport # Unknown
        /\ u = [t EXCEPT !.buses = {b \in t.buses : b.bus # row.bus} \cup {row}]
    BY <1>1, <1>3 DEF HoldBus, Rows
  <2>2. row \in [bus : Buses, transport : Transports]
    BY <2>1 DEF BusRows
  <2>3. /\ u = [rev |-> t.rev, buses |-> {b \in t.buses : b.bus # row.bus} \cup {row},
                devices |-> t.devices]
    BY <2>1 DEF Fits
  <2>4. /\ u.rev = t.rev /\ u.devices = t.devices
        /\ u.buses = {b \in t.buses : b.bus # row.bus} \cup {row}
        /\ u = [rev |-> u.rev, buses |-> u.buses, devices |-> u.devices]
    BY <2>3
  <2>5. Fits(u)
    BY <2>2, <2>4 DEF Fits
  <2>6. u.buses = {b \in t.buses : ~Alike("Bus", b, row)} \cup {row}
    BY <2>4 DEF Alike, SameBus
  <2>7. QED BY <1>2, <1>3, <2>4, <2>5, <2>6
<1>4. CASE what = "Device"
  <2> DEFINE others == {d \in t.devices : d.dev # row.dev}
  <2>1. /\ row \in DeviceRows /\ row.addr # TooLong
        /\ ~(others = t.devices /\ Cardinality(others) >= Devices)
        /\ u = [t EXCEPT !.devices = others \cup {row}]
    BY <1>1, <1>4 DEF HoldDevice, Rows
  <2>2. row \in [dev : Devs, bus : Buses, addr : Addrs \cup {NoAddr}]
    BY <2>1 DEF DeviceRows
  <2>3. others \subseteq t.devices /\ Devices \in Nat
    BY TopologyAssumption
  <2>4. u.devices = {d \in t.devices : ~Alike("Device", d, row)} \cup {row}
    BY <2>1 DEF Alike, SameDev, Fits
  <2> HIDE DEF others
  <2>5. u = [rev |-> t.rev, buses |-> t.buses, devices |-> others \cup {row}]
    BY <2>1 DEF Fits
  <2>6. /\ u.rev = t.rev /\ u.buses = t.buses /\ u.devices = others \cup {row}
        /\ u = [rev |-> u.rev, buses |-> u.buses, devices |-> u.devices]
    BY <2>5
  <2>7. IsFiniteSet(others \cup {row}) /\ Cardinality(others \cup {row}) <= Devices
    <3>1. IsFiniteSet(t.devices) /\ Cardinality(t.devices) <= Devices
      BY DEF Fits
    <3>2. /\ IsFiniteSet(others) /\ Cardinality(others) <= Cardinality(t.devices)
          /\ Cardinality(t.devices) = Cardinality(others) => t.devices = others
      BY <2>3, <3>1, FS_Subset
    <3>3. Cardinality(others) \in Nat /\ Cardinality(t.devices) \in Nat
      BY <3>1, <3>2, FS_CardinalityType
    <3>4. Cardinality(others) < Devices
      BY <2>1, <2>3, <3>1, <3>2, <3>3
    <3>5. /\ IsFiniteSet(others \cup {row})
          /\ \/ Cardinality(others \cup {row}) = Cardinality(others)
             \/ Cardinality(others \cup {row}) = Cardinality(others) + 1
      BY <3>2, FS_AddElement
    <3>6. QED BY <2>3, <3>3, <3>4, <3>5
  <2>8. Fits(u)
    BY <2>2, <2>3, <2>6, <2>7 DEF Fits
  <2>9. QED BY <1>2, <1>4, <2>4, <2>6, <2>8
<1>5. QED BY <1>3, <1>4
-----------------------------------------------------------------------------
HistInv ==
  /\ held = [rev |-> held.rev, buses |-> held.buses, devices |-> held.devices]
  /\ IsFiniteSet(held.devices)
  /\ accepted \in Seq(Pages)
  /\ accepted = <<>> => held.buses = {} /\ held.devices = {}
  /\ accepted # <<>> => held.rev = accepted[Len(accepted)].rev

IInv == TypeOK /\ HistInv /\ HeldIsLatest /\ EveryRowJudged

LEMMA PageFacts ==
  ASSUME NEW p \in Pages, p.ok
  PROVE  /\ p.what \in {"Bus", "Device"} /\ p.rev \in Revs
         /\ Len(p.rows) \in 0 .. MaxRows /\ DOMAIN p.rows = 1 .. Len(p.rows)
         /\ \A n \in 1 .. Len(p.rows) : p.rows[n] \in Rows(p.what)
<1>1. PICK what \in {"Bus", "Device"} : p \in PagesOf(what)
  BY DEF Pages
<1>2. p \in [what : {what}, rev : Revs, ok : {TRUE},
             rows : UNION {[1 .. n -> Rows(what)] : n \in 0 .. MaxRows}]
  BY <1>1 DEF PagesOf
<1>3. p.what = what /\ p.rev \in Revs
      /\ p.rows \in UNION {[1 .. n -> Rows(what)] : n \in 0 .. MaxRows}
  BY <1>2
<1>4. PICK n \in 0 .. MaxRows : p.rows \in [1 .. n -> Rows(what)]
  BY <1>3
<1>5. Len(p.rows) = n /\ DOMAIN p.rows = 1 .. n /\ n \in Nat
  <2>1. n \in Nat
    BY TopologyAssumption
  <2>2. QED BY <1>4, <2>1
<1>6. QED BY <1>3, <1>4, <1>5

LEMMA InitIInv == Init => IInv
<1> SUFFICES ASSUME Init PROVE IInv
  OBVIOUS
<1>1. /\ held = Nothing(NoRev) /\ accepted = <<>> /\ pages = 0
      /\ held.buses = {} /\ held.devices = {} /\ held.rev = NoRev
  BY DEF Init, Nothing
<1>2. TypeOK /\ HistInv
  <2>1. IsFiniteSet(held.devices) /\ Cardinality(held.devices) = 0
    BY <1>1, FS_EmptySet
  <2>2. TypeOK
    BY <1>1, <2>1, TopologyAssumption DEF TypeOK
  <2>3. <<>> \in Seq(Pages)
    OBVIOUS
  <2>4. HistInv
    BY <1>1, <2>1, <2>3 DEF HistInv, Nothing
  <2>5. QED BY <2>2, <2>4
<1>3. Walk = {}
  BY <1>1 DEF Walk
<1>4. \A what : PlacesIn(accepted, Walk, what) = {}
  BY <1>3 DEF PlacesIn
<1>5. HeldIsLatest
  <2>1. \A what, at : LastRows(accepted, what, UpTo(accepted, Walk, what, at)) = {}
    BY <1>4 DEF LastRows, Unreplaced, UpTo
  <2>2. QED BY <1>1, <2>1, ViewIsLastRows DEF HeldIsLatest, ViewsShown
<1>6. EveryRowJudged
  BY <1>4 DEF EveryRowJudged, Places, PlacesIn
<1>7. QED BY <1>2, <1>5, <1>6 DEF IInv

(* The pages of the walk once another is taken.                            *)
LEMMA NextWalk ==
  ASSUME HistInv, NEW p, accepted' = Append(accepted, p), held'.rev = p.rev
  PROVE  Walk' = IF held.rev = p.rev THEN Walk \cup {Len(accepted) + 1}
                 ELSE {Len(accepted) + 1}
<1> DEFINE last == Len(accepted)
           new  == last + 1
<1>1. /\ last \in Nat /\ DOMAIN accepted = 1 .. last
      /\ DOMAIN accepted' = 1 .. new /\ Len(accepted') = new
      /\ \A i \in 1 .. last : accepted'[i] = accepted[i]
      /\ accepted'[new] = p
  BY DEF HistInv
<1>2. last # 0 => accepted[last].rev = held.rev
  BY <1>1 DEF HistInv
<1>3. Walk = {i \in 1 .. last : \A j \in i .. last : accepted[j].rev = held.rev}
  BY <1>1 DEF Walk
<1>4. Walk' = {i \in 1 .. new : \A j \in i .. new : accepted'[j].rev = p.rev}
  BY <1>1 DEF Walk
<1> HIDE DEF last
<1>5. new \in Walk'
  BY <1>1, <1>4
<1>6. CASE held.rev = p.rev
  <2>1. ASSUME NEW i \in 1 .. last
        PROVE  i \in Walk' <=> i \in Walk
    <3>1. \A j : j \in i .. new <=> j \in i .. last \/ j = new
      BY <1>1
    <3>2. \A j \in i .. last : accepted'[j] = accepted[j]
      BY <1>1
    <3>3. i \in 1 .. new
      BY <1>1
    <3> HIDE DEF new
    <3>4. QED BY <1>1, <1>3, <1>4, <1>6, <3>1, <3>2, <3>3
  <2>2. \A i : i \in 1 .. new <=> i \in 1 .. last \/ i = new
    BY <1>1
  <2> HIDE DEF new
  <2>3. Walk' = Walk \cup {new}
    BY <1>3, <1>4, <1>5, <2>1, <2>2
  <2>4. QED BY <1>6, <2>3 DEF new, last
<1>7. CASE held.rev # p.rev
  <2>1. ASSUME NEW i \in 1 .. last PROVE i \notin Walk'
    <3>1. last \in i .. new /\ last # 0 /\ last \in 1 .. last
      BY <1>1
    <3>2. accepted'[last].rev # p.rev
      BY <1>1, <1>2, <1>7, <3>1
    <3>3. QED BY <1>4, <3>1, <3>2
  <2>2. \A i : i \in 1 .. new <=> i \in 1 .. last \/ i = new
    BY <1>1
  <2> HIDE DEF new
  <2>3. Walk' = {new}
    BY <1>4, <1>5, <2>1, <2>2
  <2>4. QED BY <1>7, <2>3 DEF new, last
<1>8. QED BY <1>6, <1>7

(* A page taken: its copies are the views as of its rows.                  *)
LEMMA PageTaken ==
  ASSUME IInv, NEW p \in Pages, p.ok,
         held' = Apply(StartOfWalk(held, p.rev), p.what, p.rows), held' # Refused,
         accepted' = Append(accepted, p)
  PROVE  /\ Fits(held') /\ held'.rev = p.rev
         /\ HeldIsLatest' /\ EveryRowJudged'
<1> DEFINE last == Len(accepted)
           new  == last + 1
           k    == Len(p.rows)
           t    == StartOfWalk(held, p.rev)
           at(n) == <<new, n>>
           w    == Walk'
           shown(what, place) == LastRows(accepted', what, UpTo(accepted', w, what, place))
<1>1. /\ p.what \in {"Bus", "Device"} /\ p.rev \in Revs
      /\ k \in 0 .. MaxRows /\ DOMAIN p.rows = 1 .. k /\ k \in Nat
      /\ \A n \in 1 .. k : p.rows[n] \in Rows(p.what)
  BY PageFacts, TopologyAssumption
<1>2. /\ Fits(t) /\ t.rev = p.rev
      /\ held.rev = p.rev => t = held
      /\ held.rev # p.rev => t.buses = {} /\ t.devices = {}
  <2>1. CASE held.rev = p.rev
    BY <2>1 DEF StartOfWalk, Fits, IInv, TypeOK, HistInv
  <2>2. CASE held.rev # p.rev
    <3>1. t = [rev |-> p.rev, buses |-> {}, devices |-> {}]
      BY <2>2 DEF StartOfWalk, Nothing
    <3>2. t.rev = p.rev /\ t.buses = {} /\ t.devices = {}
      BY <3>1
    <3>3. Fits(t)
      BY <3>1, <3>2, FS_EmptySet, TopologyAssumption DEF Fits
    <3>4. QED BY <2>2, <3>2, <3>3
  <2>3. QED BY <2>1, <2>2
<1>3. PICK f : Copies(t, p.what, p.rows, f)
  BY <1>1, ApplyCopies
<1>4. /\ f[0] = t /\ held' = f[k]
      /\ \A n \in 1 .. k : f[n] = RowAdded(f[n - 1], p.what, p.rows[n])
      /\ \A n \in 0 .. k : f[n] # Refused
  BY <1>3 DEF Copies
<1> HIDE DEF t, k
<1>5. \A n \in 0 .. k : Fits(f[n]) /\ f[n].rev = p.rev
  <2> DEFINE T == {n \in 0 .. k : Fits(f[n]) /\ f[n].rev = p.rev}
  <2>1. 0 \in T
    BY <1>1, <1>2, <1>4
  <2>2. ASSUME NEW n \in 0 .. k - 1, n \in T PROVE n + 1 \in T
    <3>1. n + 1 \in 1 .. k /\ (n + 1) - 1 = n /\ n + 1 \in 0 .. k
      BY <1>1
    <3>2. /\ f[n + 1] = RowAdded(f[n], p.what, p.rows[n + 1]) /\ f[n + 1] # Refused
          /\ p.rows[n + 1] \in Rows(p.what)
      BY <1>1, <1>4, <3>1
    <3>3. Fits(f[n + 1]) /\ f[n + 1].rev = f[n].rev
      BY <1>1, <2>2, <3>2, RowTaken
    <3>4. QED BY <2>2, <3>1, <3>3
  <2> HIDE DEF T
  <2>3. \A n \in 0 .. k : n \in T
    BY <1>1, <2>1, <2>2, EachUpTo
  <2>4. QED BY <2>3 DEF T
<1>6. Fits(held') /\ held'.rev = p.rev
  BY <1>1, <1>4, <1>5
<1>7. w = IF held.rev = p.rev THEN Walk \cup {new} ELSE {new}
  BY <1>6, NextWalk DEF IInv
<1>8. /\ last \in Nat /\ Walk \in SUBSET (1 .. last)
      /\ new \in w /\ w \in SUBSET (1 .. new) /\ new \in Nat
  <2>1. last \in Nat /\ DOMAIN accepted = 1 .. last
    BY DEF IInv, HistInv
  <2>2. Walk \in SUBSET (1 .. last)
    BY <2>1 DEF Walk
  <2> HIDE DEF w, last
  <2>3. QED BY <1>7, <2>1, <2>2
<1>9. Extended(accepted, accepted', p)
  BY <1>1 DEF Extended, IInv, HistInv, k
<1> HIDE DEF w
<1>10. shown("Bus", at(0)) = t.buses /\ shown("Device", at(0)) = t.devices
  <2>1. CASE held.rev = p.rev
    <3>1. w = Walk \cup {new}
      BY <1>7, <2>1
    <3>2. ASSUME NEW what
          PROVE  shown(what, at(0)) =
                   LastRows(accepted, what, UpTo(accepted, Walk, what, <<last, MaxRows>>))
      <4> DEFINE U == UpTo(accepted, Walk, what, <<last, MaxRows>>)
      <4>1. OldKept(accepted, accepted', Walk, what)
        BY <1>8, <1>9, OldPlaces
      <4>2. UpTo(accepted', w, what, at(0)) = U
        BY <3>1, <4>1 DEF OldKept
      <4>3. \A a \in U : RowOf(accepted', a) = RowOf(accepted, a)
        BY <4>1 DEF OldKept, UpTo
      <4> HIDE DEF U, at
      <4>4. LastRows(accepted', what, U) = LastRows(accepted, what, U)
        BY <4>3, SameRows
      <4>5. QED BY <4>2, <4>4 DEF U
    <3>3. /\ held.buses =
               LastRows(accepted, "Bus", UpTo(accepted, Walk, "Bus", <<last, MaxRows>>))
          /\ held.devices =
               LastRows(accepted, "Device", UpTo(accepted, Walk, "Device", <<last, MaxRows>>))
      BY ViewIsLastRows DEF ViewsShown, IInv, HeldIsLatest
    <3>4. QED BY <1>2, <2>1, <3>2, <3>3
  <2>2. CASE held.rev # p.rev
    <3>1. w = {new}
      BY <1>7, <2>2
    <3>2. ASSUME NEW what PROVE shown(what, at(0)) = {}
      <4>1. OldKept(accepted, accepted', Walk, what)
        BY <1>8, <1>9, OldPlaces
      <4>2. UpTo(accepted', w, what, at(0)) = {}
        BY <3>1, <4>1 DEF OldKept
      <4>3. QED BY <4>2 DEF LastRows, Unreplaced
    <3>3. QED BY <1>2, <2>2, <3>2
  <2>3. QED BY <2>1, <2>2
<1>11. ASSUME NEW n \in 1 .. k, NEW what \in {"Bus", "Device"}
       PROVE  shown(what, at(n)) =
                IF what = p.what
                THEN {r \in shown(what, at(n - 1)) : ~Alike(what, r, p.rows[n])} \cup {p.rows[n]}
                ELSE shown(what, at(n - 1))
  <2>1. /\ UpTo(accepted', w, what, at(n)) =
              UpTo(accepted', w, what, at(n - 1)) \cup (IF p.what = what THEN {at(n)} ELSE {})
        /\ RowOf(accepted', at(n)) = p.rows[n]
        /\ at(n) \notin UpTo(accepted', w, what, at(n - 1))
        /\ Earlier(at(n), at(n))
        /\ \A a \in UpTo(accepted', w, what, at(n - 1)) : Earlier(a, at(n)) /\ ~Earlier(at(n), a)
    <3>1. NewAdded(new, accepted', p, w, what)
      BY <1>8, <1>9, NewPlaces
    <3>2. QED BY <3>1 DEF NewAdded, k
  <2> HIDE DEF at
  <2>2. CASE p.what = what
    <3> DEFINE U == UpTo(accepted', w, what, at(n - 1))
    <3>1. /\ at(n) \notin U /\ Earlier(at(n), at(n))
          /\ \A a \in U : Earlier(a, at(n)) /\ ~Earlier(at(n), a)
      BY <2>1
    <3>2. UpTo(accepted', w, what, at(n)) = U \cup {at(n)}
      BY <2>1, <2>2
    <3> HIDE DEF U
    <3>3. LastRows(accepted', what, U \cup {at(n)}) =
            {r \in LastRows(accepted', what, U) : ~Alike(what, r, RowOf(accepted', at(n)))}
              \cup {RowOf(accepted', at(n))}
      BY <3>1, Replaces
    <3>4. RowOf(accepted', at(n)) = p.rows[n]
      BY <2>1
    <3>5. /\ shown(what, at(n)) = LastRows(accepted', what, U \cup {at(n)})
          /\ shown(what, at(n - 1)) = LastRows(accepted', what, U)
      BY <3>2 DEF U
    <3> HIDE DEF shown
    <3>6. shown(what, at(n)) =
            {r \in shown(what, at(n - 1)) : ~Alike(what, r, p.rows[n])} \cup {p.rows[n]}
      BY <3>3, <3>4, <3>5
    <3>7. QED BY <2>2, <3>6
  <2>3. CASE p.what # what
    BY <2>1, <2>3
  <2>4. QED BY <2>2, <2>3
<1> HIDE DEF shown, at
<1>12. \A n \in 0 .. k : shown("Bus", at(n)) = f[n].buses /\ shown("Device", at(n)) = f[n].devices
  <2> DEFINE T == {n \in 0 .. k : /\ shown("Bus", at(n)) = f[n].buses
                                  /\ shown("Device", at(n)) = f[n].devices}
  <2>1. 0 \in T
    BY <1>1, <1>4, <1>10
  <2>2. ASSUME NEW n \in 0 .. k - 1, n \in T PROVE n + 1 \in T
    <3>1. n + 1 \in 1 .. k /\ (n + 1) - 1 = n /\ n + 1 \in 0 .. k /\ n \in 0 .. k
      BY <1>1
    <3> DEFINE row == p.rows[n + 1]
    <3>2. /\ f[n + 1] = RowAdded(f[n], p.what, row) /\ f[n + 1] # Refused
          /\ row \in Rows(p.what) /\ Fits(f[n])
      BY <1>1, <1>4, <1>5, <3>1
    <3>3. /\ p.what = "Bus" =>
               /\ f[n + 1].buses = {b \in f[n].buses : ~Alike("Bus", b, row)} \cup {row}
               /\ f[n + 1].devices = f[n].devices
          /\ p.what = "Device" =>
               /\ f[n + 1].devices = {d \in f[n].devices : ~Alike("Device", d, row)} \cup {row}
               /\ f[n + 1].buses = f[n].buses
      BY <1>1, <3>2, RowTaken
    <3>4. /\ shown("Bus", at(n + 1)) =
               IF "Bus" = p.what
               THEN {r \in shown("Bus", at(n)) : ~Alike("Bus", r, row)} \cup {row}
               ELSE shown("Bus", at(n))
          /\ shown("Device", at(n + 1)) =
               IF "Device" = p.what
               THEN {r \in shown("Device", at(n)) : ~Alike("Device", r, row)} \cup {row}
               ELSE shown("Device", at(n))
      BY <1>11, <3>1
    <3> HIDE DEF row
    <3>5. QED BY <1>1, <2>2, <3>1, <3>3, <3>4
  <2> HIDE DEF T
  <2>3. \A n \in 0 .. k : n \in T
    BY <1>1, <2>1, <2>2, EachUpTo
  <2>4. QED BY <2>3 DEF T
<1>13. ASSUME NEW place
       PROVE  /\ ViewAt(place)'.buses = shown("Bus", place)
              /\ ViewAt(place)'.devices = shown("Device", place)
  BY NextViewIsLastRows DEF ViewsShown, shown, w
<1>14. HeldIsLatest'
  <2>1. \A what : shown(what, at(MaxRows)) = shown(what, at(k))
    <3>1. \A what : NewAdded(new, accepted', p, w, what)
      BY <1>8, <1>9, NewPlaces
    <3>2. QED BY <3>1 DEF NewAdded, k, at, shown
  <2>2. Len(accepted') = new
    BY DEF IInv, HistInv
  <2>3. /\ held'.buses = shown("Bus", at(MaxRows))
        /\ held'.devices = shown("Device", at(MaxRows))
    BY <1>1, <1>4, <1>12, <2>1
  <2>4. at(MaxRows) = <<Len(accepted'), MaxRows>>
    BY <2>2 DEF at
  <2>5. QED BY <1>13, <2>3, <2>4 DEF HeldIsLatest
<1>15. EveryRowJudged'
  <2>1. SUFFICES ASSUME NEW what \in {"Bus", "Device"}, NEW a \in PlacesIn(accepted', w, what)
                 PROVE  Judged(shown("Bus", a), shown("Device", a))
    <3>1. \A what : Places(what)' = PlacesIn(accepted', w, what)
      BY DEF Places, PlacesIn, w
    <3>2. QED BY <1>13, <3>1 DEF EveryRowJudged, Judged
  <2>2. w \in SUBSET Nat
    BY <1>8
  <2>3. /\ a = <<a[1], a[2]>> /\ a[1] \in w /\ a[2] \in 1 .. MaxRows
        /\ accepted'[a[1]].what = what /\ a[2] \in DOMAIN accepted'[a[1]].rows
    <3>1. IsPlace(accepted', w, what, a)
      BY <2>1, <2>2, PlaceFacts
    <3>2. QED BY <3>1 DEF IsPlace
  <2>4. CASE a[1] = new
    <3>1. a[2] \in 1 .. k /\ a = at(a[2])
      BY <1>1, <1>9, <2>3, <2>4 DEF Extended, at
    <3>2. PICK n \in 1 .. k : a = at(n)
      BY <3>1
    <3>3. n \in 0 .. k /\ n - 1 \in 0 .. k
      BY <1>1
    <3>4. /\ f[n] = RowAdded(f[n - 1], p.what, p.rows[n]) /\ f[n] # Refused
          /\ p.rows[n] \in Rows(p.what) /\ Fits(f[n - 1])
      BY <1>1, <1>4, <1>5, <3>3
    <3>5. Judged(f[n].buses, f[n].devices)
      BY <1>1, <3>4, RowTaken
    <3>6. QED BY <1>12, <3>2, <3>3, <3>5
  <2>5. CASE a[1] # new
    <3>1. held.rev = p.rev /\ w = Walk \cup {new} /\ a[1] \in Walk /\ a[1] \in 1 .. last
      BY <1>7, <1>8, <2>3, <2>5
    <3>2. accepted'[a[1]] = accepted[a[1]]
      BY <1>9, <3>1 DEF Extended
    <3>3. a \in PlacesIn(accepted, Walk, what)
      <4>1. Walk \in SUBSET Nat
        BY <1>8
      <4>2. QED BY <2>3, <3>1, <3>2, <4>1, PlaceFacts DEF IsPlace
    <3>4. a[2] \in Nat
      BY <2>3, TopologyAssumption
    <3>5. ASSUME NEW kind
          PROVE  shown(kind, a) = LastRows(accepted, kind, UpTo(accepted, Walk, kind, a))
      <4>1. OldKept(accepted, accepted', Walk, kind)
        BY <1>8, <1>9, OldPlaces
      <4>2. UpTo(accepted', w, kind, <<a[1], a[2]>>) = UpTo(accepted, Walk, kind, <<a[1], a[2]>>)
        BY <3>1, <3>4, <4>1 DEF OldKept
      <4>3. UpTo(accepted', w, kind, a) = UpTo(accepted, Walk, kind, a)
        BY <2>3, <4>2
      <4>4. \A b \in UpTo(accepted, Walk, kind, a) : RowOf(accepted', b) = RowOf(accepted, b)
        BY <4>1 DEF OldKept, UpTo
      <4>5. QED BY <4>3, <4>4, SameRows DEF shown
    <3>6. Judged(ViewAt(a).buses, ViewAt(a).devices)
      <4>1. Places(what) = PlacesIn(accepted, Walk, what)
        BY DEF Places, PlacesIn
      <4>2. QED BY <3>3, <4>1 DEF IInv, EveryRowJudged, Judged
    <3>7. QED BY <3>5, <3>6, ViewIsLastRows DEF ViewsShown
  <2>6. QED BY <2>4, <2>5
<1>16. QED BY <1>6, <1>14, <1>15

(* Nothing taken, nothing to judge again.                                  *)
LEMMA ViewsStay ==
  ASSUME HeldIsLatest, EveryRowJudged, held' = held, accepted' = accepted
  PROVE  HeldIsLatest' /\ EveryRowJudged'
<1>1. Walk' = Walk
  BY DEF Walk
<1>2. \A what : Places(what)' = Places(what)
  BY <1>1 DEF Places
<1>3. \A at : ViewAt(at)'.buses = ViewAt(at).buses /\ ViewAt(at)'.devices = ViewAt(at).devices
  BY <1>1, ViewIsLastRows, NextViewIsLastRows DEF ViewsShown
<1>4. HeldIsLatest'
  BY <1>3 DEF HeldIsLatest
<1>5. EveryRowJudged'
  BY <1>2, <1>3 DEF EveryRowJudged
<1>6. QED BY <1>4, <1>5

(* Any page: taken as PageTaken says, or nothing it carried is held.       *)
LEMMA PageHolds ==
  ASSUME IInv, NEW p \in Pages, Page(p)
  PROVE  IInv'
<1> DEFINE next == Apply(StartOfWalk(held, p.rev), p.what, p.rows)
           took == p.ok /\ next # Refused
<1>1. /\ pages < MaxPages /\ pages' = pages + 1
      /\ held' = IF took THEN next ELSE held
      /\ accepted' = IF took THEN Append(accepted, p) ELSE accepted
  BY DEF Page
<1> HIDE DEF next
<1>2. pages' \in 0 .. MaxPages
  BY <1>1, TopologyAssumption DEF IInv, TypeOK
<1>3. CASE took
  <2>1. /\ held' = next /\ held' # Refused /\ p.ok
        /\ accepted' = Append(accepted, p)
    BY <1>1, <1>3
  <2>2. /\ Fits(held') /\ held'.rev = p.rev
        /\ HeldIsLatest' /\ EveryRowJudged'
    BY <2>1, PageTaken DEF next
  <2>3. p.rev \in Revs
    BY <2>1, PageFacts
  <2>4. TypeOK'
    BY <1>2, <2>2, <2>3 DEF TypeOK, Fits
  <2>5. HistInv'
    <3>1. /\ accepted' \in Seq(Pages) /\ accepted' # <<>>
          /\ accepted'[Len(accepted')] = p
      BY <2>1 DEF IInv, HistInv
    <3>2. QED BY <2>2, <3>1 DEF HistInv, Fits
  <2>6. QED BY <2>2, <2>4, <2>5 DEF IInv
<1>4. CASE ~took
  <2>1. held' = held /\ accepted' = accepted
    BY <1>1, <1>4
  <2>2. TypeOK' /\ HistInv'
    BY <1>2, <2>1 DEF IInv, TypeOK, HistInv
  <2>3. HeldIsLatest' /\ EveryRowJudged'
    BY <2>1, ViewsStay DEF IInv
  <2>4. QED BY <2>2, <2>3 DEF IInv
<1>5. QED BY <1>3, <1>4

LEMMA NextIInv == IInv /\ [Next]_vars => IInv'
<1> SUFFICES ASSUME IInv, [Next]_vars PROVE IInv'
  OBVIOUS
<1>1. ASSUME NEW p \in Pages, Page(p) PROVE IInv'
  BY <1>1, PageHolds
<1>2. CASE UNCHANGED vars
  <2>1. held' = held /\ accepted' = accepted /\ pages' = pages
    BY <1>2 DEF vars
  <2>2. TypeOK' /\ HistInv'
    BY <2>1 DEF IInv, TypeOK, HistInv
  <2>3. HeldIsLatest' /\ EveryRowJudged'
    BY <2>1, ViewsStay DEF IInv
  <2>4. QED BY <2>2, <2>3 DEF IInv
<1>3. QED BY <1>1, <1>2 DEF Next
-----------------------------------------------------------------------------
LEMMA AlwaysIInv == Spec => []IInv
BY InitIInv, NextIInv, PTL DEF Spec

(* What is held has its types, and never more devices than there is room   *)
(* for: a row without a slot refuses its page (hold_device).               *)
THEOREM TypeCorrect == Spec => []TypeOK
<1>1. IInv => TypeOK
  BY DEF IInv
<1>2. QED BY <1>1, AlwaysIInv, PTL

(* However the pages of a walk arrive, twice, out of order or refused, and *)
(* whenever the revision moves, what is held is the last row of every bus  *)
(* and device taken at the revision held (ReceivedTopology::page).         *)
THEOREM HeldIsTheWalk == Spec => []HeldIsLatest
<1>1. IInv => HeldIsLatest
  BY DEF IInv
<1>2. QED BY <1>1, AlwaysIInv, PTL

(* P-202 held as of every row of the walk, of the rows later replaced too  *)
(* (ReceivedTopology::p_202_holds, called after each row).                 *)
THEOREM JudgedRowByRow == Spec => []EveryRowJudged
<1>1. IInv => EveryRowJudged
  BY DEF IInv
<1>2. QED BY <1>1, AlwaysIInv, PTL

-----------------------------------------------------------------------------
(* The walk that checks its digest (InventoryWalk).                        *)
LEMMA WalkFacts == MaxId \in Nat /\ LastKind \in Nat /\ LastKind # 0
BY Zenon, WalkAssumption

LEMMA IdsFinite ==
  ASSUME NEW S \in SUBSET (1 .. MaxId)
  PROVE  IsFiniteSet(S)
<1>1. IsFiniteSet(1 .. MaxId)
  BY WalkFacts, FS_Interval
<1>2. QED BY <1>1, FS_Subset

(* The rows of a table in order of their ids. The row at a place is the    *)
(* one with as many ids below it as places.                                *)
Below(S, n) == {e \in S : e < n}
Rank(S, n)  == Cardinality(Below(S, n))

LEMMA RankBelow ==
  ASSUME NEW S \in SUBSET (1 .. MaxId), NEW d \in S, NEW e \in S, d < e
  PROVE  Rank(S, d) < Rank(S, e)
<1>1. IsFiniteSet(S)
  BY IdsFinite
<1>2. IsFiniteSet(Below(S, d)) /\ IsFiniteSet(Below(S, e))
  BY <1>1, FS_Subset DEF Below
<1>3. d \notin Below(S, d) /\ Below(S, d) \cup {d} \subseteq Below(S, e)
  <2>1. \A x \in S : x \in Nat
    OBVIOUS
  <2>2. \A x \in S : x < d => x < e
    BY <2>1
  <2>3. ~(d < d)
    BY <2>1
  <2>4. QED BY <2>2, <2>3 DEF Below
<1>4. Cardinality(Below(S, d) \cup {d}) = Cardinality(Below(S, d)) + 1
  BY <1>2, <1>3, FS_AddElement
<1>5. Cardinality(Below(S, d) \cup {d}) <= Cardinality(Below(S, e))
  BY <1>2, <1>3, FS_Subset
<1>6. Cardinality(Below(S, d)) \in Nat /\ Cardinality(Below(S, e)) \in Nat
  BY <1>2, FS_CardinalityType
<1>7. QED BY <1>4, <1>5, <1>6 DEF Rank

LEMMA RankType ==
  ASSUME NEW S \in SUBSET (1 .. MaxId)
  PROVE  /\ IsFiniteSet(S) /\ Cardinality(S) \in Nat
         /\ \A d \in S : Rank(S, d) \in 0 .. Cardinality(S) - 1
         /\ \A d, e \in S : Rank(S, d) = Rank(S, e) => d = e
<1>1. IsFiniteSet(S)
  BY IdsFinite
<1>2. Cardinality(S) \in Nat
  BY <1>1, FS_CardinalityType
<1>3. ASSUME NEW d \in S PROVE Rank(S, d) \in 0 .. Cardinality(S) - 1
  <2>1. Below(S, d) \in SUBSET S /\ Below(S, d) # S
    BY WalkFacts DEF Below
  <2>2. /\ Cardinality(Below(S, d)) \in Nat
        /\ Cardinality(Below(S, d)) <= Cardinality(S)
        /\ Cardinality(S) # Cardinality(Below(S, d))
    BY <1>1, <2>1, FS_Subset, FS_CardinalityType
  <2>3. QED BY <1>2, <2>2 DEF Rank
<1>4. ASSUME NEW d \in S, NEW e \in S, Rank(S, d) = Rank(S, e) PROVE d = e
  <2>1. Rank(S, d) \in Nat /\ d \in Nat /\ e \in Nat
    BY <1>3, WalkFacts
  <2>2. ~(d < e) /\ ~(e < d)
    BY <1>4, <2>1, <1>3, RankBelow
  <2>3. QED BY <2>1, <2>2
<1>5. QED BY <1>1, <1>2, <1>3, <1>4

(* Every place is some id's.                                               *)
LEMMA RankOnto ==
  ASSUME NEW S \in SUBSET (1 .. MaxId), NEW i \in 1 .. Cardinality(S)
  PROVE  \E d \in S : Rank(S, d) = i - 1
<1> DEFINE n == Cardinality(S)
           f == [d \in S |-> Rank(S, d)]
<1>1. n \in Nat /\ IsFiniteSet(S)
  BY RankType
<1>2. f \in [S -> 0 .. n - 1] /\ \A d, e \in S : f[d] = f[e] => d = e
  BY RankType
<1>3. f \in Injection(S, 0 .. n - 1)
  BY <1>2 DEF Injection, IsInjective
<1>4. IsFiniteSet(0 .. n - 1) /\ Cardinality(0 .. n - 1) = n
  <2> HIDE DEF n
  <2>1. /\ IsFiniteSet(0 .. n - 1)
        /\ Cardinality(0 .. n - 1) = IF 0 > n - 1 THEN 0 ELSE (n - 1) - 0 + 1
    BY <1>1, FS_Interval
  <2>2. QED BY <1>1, <2>1
<1>5. f \in Surjection(S, 0 .. n - 1)
  BY <1>3, <1>4, FS_Injection
<1>6. i - 1 \in 0 .. n - 1
  BY <1>1
<1> HIDE DEF n
<1>7. QED BY <1>5, <1>6 DEF Surjection

(* What RowsFrom lists.                                                    *)
Row == (1 .. MaxId) \X Contents
IdsFrom(table, from) == {d \in DOMAIN table : d >= from}

LEMMA RowsListed ==
  ASSUME NEW table \in Tables, NEW from \in Nat
  PROVE  LET S == IdsFrom(table, from)
             s == RowsFrom(table, from)
         IN  /\ S \in SUBSET (1 .. MaxId)
             /\ s \in Seq(Row) /\ Len(s) = Cardinality(S) /\ Len(s) \in Nat
             /\ \A i \in 1 .. Len(s) : /\ s[i][1] \in S /\ Rank(S, s[i][1]) = i - 1
                                       /\ s[i] = <<s[i][1], table[s[i][1]]>>
<1> DEFINE S == IdsFrom(table, from)
           Nth(i) == CHOOSE d \in S : Cardinality({e \in S : e < d}) = i - 1
           s == [i \in 1 .. Cardinality(S) |-> <<Nth(i), table[Nth(i)]>>]
<1>1. PICK ids \in SUBSET (1 .. MaxId) : table \in [ids -> Contents]
  BY DEF Tables
<1>2. S \in SUBSET (1 .. MaxId) /\ \A d \in S : table[d] \in Contents
  BY <1>1 DEF IdsFrom
<1>3. Cardinality(S) \in Nat
  BY <1>2, RankType
<1>4. RowsFrom(table, from) = s
  BY DEF RowsFrom, IdsFrom
<1>5. ASSUME NEW i \in 1 .. Cardinality(S)
      PROVE  Nth(i) \in S /\ Rank(S, Nth(i)) = i - 1
  <2> HIDE DEF S
  <2>1. \E d \in S : Cardinality({e \in S : e < d}) = i - 1
    BY <1>2, RankOnto DEF Rank, Below
  <2>2. QED BY <2>1 DEF Rank, Below
<1> HIDE DEF Nth, S
<1>6. \A i \in 1 .. Cardinality(S) : s[i] \in Row
  BY <1>2, <1>5 DEF Row
<1>7. s \in Seq(Row)
  BY <1>3, <1>6
<1>8. Len(s) = Cardinality(S)
  BY <1>3
<1>9. QED BY <1>2, <1>3, <1>4, <1>5, <1>7, <1>8 DEF S

(* The rows from a row of the list on are the rest of the list.            *)
LEMMA RestOfRows ==
  ASSUME NEW table \in Tables, NEW from \in Nat, NEW n \in Nat,
         n + 1 \in 1 .. Len(RowsFrom(table, from))
  PROVE  LET s == RowsFrom(table, from)
         IN  /\ s[n + 1][1] \in Nat
             /\ RowsFrom(table, s[n + 1][1]) = SubSeq(s, n + 1, Len(s))
<1> DEFINE s == RowsFrom(table, from)
           S == IdsFrom(table, from)
           next == s[n + 1][1]
           T == IdsFrom(table, next)
           t == RowsFrom(table, next)
<1>1. /\ S \in SUBSET (1 .. MaxId) /\ s \in Seq(Row)
      /\ Len(s) = Cardinality(S) /\ Len(s) \in Nat
      /\ \A i \in 1 .. Len(s) : /\ s[i][1] \in S /\ Rank(S, s[i][1]) = i - 1
                                /\ s[i] = <<s[i][1], table[s[i][1]]>>
  BY RowsListed
<1>2. next \in S /\ next \in Nat /\ Rank(S, next) = n /\ n + 1 \in 1 .. Len(s)
  BY <1>1
<1>3. /\ T \in SUBSET (1 .. MaxId) /\ t \in Seq(Row)
      /\ Len(t) = Cardinality(T) /\ Len(t) \in Nat
      /\ \A i \in 1 .. Len(t) : /\ t[i][1] \in T /\ Rank(T, t[i][1]) = i - 1
                                /\ t[i] = <<t[i][1], table[t[i][1]]>>
  <2> HIDE DEF next
  <2>1. QED BY <1>2, RowsListed
<1>4. \A d \in S : d \in Nat
  BY <1>1
<1>5. T = {d \in S : d >= next}
  <2>1. S = {d \in DOMAIN table : d >= from} /\ T = {d \in DOMAIN table : d >= next}
    BY DEF IdsFrom
  <2>2. next >= from
    BY <1>2, <2>1
  <2>3. \A d \in T : d \in Nat
    BY <1>3
  <2>4. \A d \in T : d >= from
    BY <1>2, <2>1, <2>2, <2>3
  <2> HIDE DEF S, T, next
  <2>5. QED BY <2>1, <2>4
<1> HIDE DEF s, S, next, T, t
<1>6. \A d \in T : Rank(S, d) = n + Rank(T, d)
  <2> SUFFICES ASSUME NEW d \in T PROVE Rank(S, d) = n + Rank(T, d)
    OBVIOUS
  <2>1. d \in S /\ d >= next /\ d \in Nat
    BY <1>4, <1>5
  <2>2. Below(S, d) = Below(S, next) \cup Below(T, d)
    <3>1. \A x \in S : x \in Nat /\ (x < d <=> x < next \/ (x >= next /\ x < d))
      BY <1>2, <1>4, <2>1
    <3>2. QED BY <1>5, <3>1 DEF Below
  <2>3. Below(S, next) \cap Below(T, d) = {}
    <3>1. \A x \in S : ~(x < next /\ x >= next)
      BY <1>2, <1>4
    <3>2. QED BY <1>5, <3>1 DEF Below
  <2>4. IsFiniteSet(Below(S, next)) /\ IsFiniteSet(Below(T, d))
    <3>1. Below(S, next) \in SUBSET S /\ Below(T, d) \in SUBSET T
      BY DEF Below
    <3>2. IsFiniteSet(S) /\ IsFiniteSet(T)
      BY <1>1, <1>3, IdsFinite
    <3>3. QED BY <3>1, <3>2, FS_Subset
  <2>5. Cardinality(Below(S, next) \cup Below(T, d))
          = Cardinality(Below(S, next)) + Cardinality(Below(T, d)) - Cardinality({})
    BY <2>3, <2>4, FS_Union
  <2>6. /\ Cardinality({}) = 0
        /\ Cardinality(Below(S, next)) \in Nat /\ Cardinality(Below(T, d)) \in Nat
    BY <2>4, FS_EmptySet, FS_CardinalityType
  <2>7. QED BY <1>2, <2>2, <2>5, <2>6 DEF Rank
<1>7. Cardinality(S) = n + Cardinality(T)
  <2>1. S = Below(S, next) \cup T
    <3>1. \A x \in S : x < next \/ x >= next
      BY <1>2, <1>4
    <3>2. QED BY <1>5, <3>1 DEF Below
  <2>2. Below(S, next) \cap T = {}
    <3>1. \A x \in S : ~(x < next /\ x >= next)
      BY <1>2, <1>4
    <3>2. QED BY <1>5, <3>1 DEF Below
  <2>3. IsFiniteSet(Below(S, next)) /\ IsFiniteSet(T)
    <3>1. Below(S, next) \in SUBSET S
      BY DEF Below
    <3>2. IsFiniteSet(S) /\ IsFiniteSet(T)
      BY <1>1, <1>3, IdsFinite
    <3>3. QED BY <3>1, <3>2, FS_Subset
  <2>4. Cardinality(Below(S, next) \cup T)
          = Cardinality(Below(S, next)) + Cardinality(T) - Cardinality({})
    BY <2>2, <2>3, FS_Union
  <2>5. /\ Cardinality({}) = 0
        /\ Cardinality(Below(S, next)) \in Nat /\ Cardinality(T) \in Nat
    BY <2>3, FS_EmptySet, FS_CardinalityType
  <2>6. Cardinality(S) = Cardinality(Below(S, next)) + Cardinality(T) - Cardinality({})
    BY <2>1, <2>4
  <2>7. QED BY <1>2, <2>5, <2>6 DEF Rank
<1>8. ASSUME NEW i \in 1 .. Len(t) PROVE t[i] = s[n + i]
  <2>1. n + i \in 1 .. Len(s) /\ (n + i) - 1 = n + (i - 1)
    BY <1>1, <1>3, <1>7
  <2>2. t[i][1] \in T /\ t[i][1] \in S /\ Rank(T, t[i][1]) = i - 1
    BY <1>3, <1>5
  <2>3. Rank(S, t[i][1]) = n + (i - 1)
    BY <1>6, <2>2
  <2>4. s[n + i][1] \in S /\ Rank(S, s[n + i][1]) = n + (i - 1)
    BY <1>1, <2>1
  <2>5. \A d, e \in S : Rank(S, d) = Rank(S, e) => d = e
    BY <1>1, RankType
  <2> DEFINE x == t[i][1]
             y == s[n + i][1]
  <2> HIDE DEF x, y
  <2>9. x = y
    <3>1. x \in S /\ y \in S /\ Rank(S, x) = Rank(S, y)
      BY <2>2, <2>3, <2>4 DEF x, y
    <3>2. QED BY <2>5, <3>1
  <2>6. s[n + i] = <<s[n + i][1], table[s[n + i][1]]>>
    BY <1>1, <2>1
  <2>7. t[i] = <<t[i][1], table[t[i][1]]>>
    BY <1>3
  <2>8. QED BY <2>6, <2>7, <2>9 DEF x, y
<1>9. t = SubSeq(s, n + 1, Len(s))
  <2> DEFINE u == SubSeq(s, n + 1, Len(s))
  <2>1. \A i \in n + 1 .. Len(s) : s[i] \in Row
    BY <1>1, ElementOfSeq
  <2>2. n + 1 \in Int /\ Len(s) \in Int /\ n + 1 <= Len(s)
    BY <1>1, <1>2
  <2>3. /\ u \in Seq(Row) /\ Len(u) = IF n + 1 <= Len(s) THEN Len(s) - (n + 1) + 1 ELSE 0
        /\ \A i \in 1 .. Len(s) - (n + 1) + 1 : u[i] = s[(n + 1) + i - 1]
    BY <2>1, <2>2, SubSeqProperties
  <2>4. Len(u) = Len(t)
    BY <1>1, <1>3, <1>7, <2>2, <2>3
  <2>5. \A i \in 1 .. Len(t) : u[i] = t[i]
    <3> SUFFICES ASSUME NEW i \in 1 .. Len(t) PROVE u[i] = t[i]
      OBVIOUS
    <3>1. i \in 1 .. Len(s) - (n + 1) + 1 /\ (n + 1) + i - 1 = n + i
      BY <1>1, <1>3, <1>7
    <3>2. u[i] = s[n + i]
      BY <2>3, <3>1
    <3>3. QED BY <1>8, <3>2
  <2> HIDE DEF u
  <2>6. u = t
    BY <1>3, <2>3, <2>4, <2>5, SeqEqual
  <2>7. QED BY <2>6 DEF u
<1>10. QED BY <1>2, <1>9 DEF s, next, t

-----------------------------------------------------------------------------
(* A recursive function exists: one value per step, each made of the one   *)
(* before.                                                                 *)
StepsIn(n, V, G) == \A i \in 1 .. n : \A v \in V : G[<<i, v>>] \in V
Recursion(n, V, base, G, f) ==
  f \in [0 .. n -> V] /\ f[0] = base /\ \A i \in 1 .. n : f[i] = G[<<i, f[i - 1]>>]

LEMMA RecursionExists ==
  ASSUME NEW n \in Nat, NEW V, NEW base \in V, NEW G, StepsIn(n, V, G)
  PROVE  \E f : Recursion(n, V, base, G, f)
<1> DEFINE Upto(m, f) == Recursion(m, V, base, G, f)
           D == {m \in 0 .. n : \E f : Upto(m, f)}
<1>1. 0 \in D
  <2>1. Upto(0, [m \in 0 .. 0 |-> base])
    BY DEF Recursion
  <2> HIDE DEF Upto
  <2>2. QED BY <2>1
<1>2. ASSUME NEW m \in 0 .. n - 1, m \in D PROVE m + 1 \in D
  <2>1. PICK f : /\ f \in [0 .. m -> V] /\ f[0] = base
                 /\ \A i \in 1 .. m : f[i] = G[<<i, f[i - 1]>>]
    BY <1>2 DEF Recursion
  <2> DEFINE g == [i \in 0 .. m + 1 |-> IF i = m + 1 THEN G[<<i, f[m]>>] ELSE f[i]]
  <2>2. G[<<m + 1, f[m]>>] \in V
    <3>1. m + 1 \in 1 .. n /\ f[m] \in V
      BY <2>1
    <3>2. QED BY <3>1 DEF StepsIn
  <2>3. g \in [0 .. m + 1 -> V]
    BY <2>1, <2>2
  <2>4. g[0] = base
    BY <2>1
  <2>5. ASSUME NEW i \in 1 .. m + 1 PROVE g[i] = G[<<i, g[i - 1]>>]
    <3>1. CASE i = m + 1
      <4>1. i - 1 = m /\ g[m] = f[m]
        BY <3>1
      <4>2. g[i] = G[<<i, f[m]>>]
        BY <3>1
      <4> HIDE DEF g
      <4>3. QED BY <4>1, <4>2
    <3>2. CASE i \in 1 .. m
      <4>1. g[i] = f[i] /\ g[i - 1] = f[i - 1]
        BY <3>2
      <4> HIDE DEF g
      <4>2. QED BY <2>1, <3>2, <4>1
    <3>3. QED BY <3>1, <3>2
  <2>6. Upto(m + 1, g)
    BY <2>3, <2>4, <2>5 DEF Recursion
  <2> HIDE DEF Upto, g
  <2>7. m + 1 \in 0 .. n
    OBVIOUS
  <2>8. QED BY <2>6, <2>7
<1> HIDE DEF D
<1>3. n \in D
  BY <1>1, <1>2, EachUpTo
<1>4. QED BY <1>3 DEF D

(* The rows of the first kinds, as AllRows and CurrentDigest go over them. *)
RowsUpTo(tabs) ==
  LET upTo[k \in 0 .. LastKind] ==
        IF k = 0 THEN <<>> ELSE upTo[k - 1] \o RowsFrom(tabs[k], 1)
  IN  upTo

LEMMA KindByKind ==
  ASSUME NEW tabs \in [Kinds -> Tables]
  PROVE  /\ RowsUpTo(tabs) = [k \in 0 .. LastKind |-> RowsUpTo(tabs)[k]]
         /\ RowsUpTo(tabs)[0] = <<>>
         /\ \A k \in Kinds : /\ k - 1 \in 0 .. LastKind
                             /\ RowsUpTo(tabs)[k] = RowsUpTo(tabs)[k - 1] \o RowsFrom(tabs[k], 1)
         /\ \A k \in 0 .. LastKind : RowsUpTo(tabs)[k] \in Seq(Row)
<1> DEFINE Values(f) == f = [k \in 0 .. LastKind |->
                               IF k = 0 THEN <<>> ELSE f[k - 1] \o RowsFrom(tabs[k], 1)]
           V == Seq(Row)
           G == [x \in (1 .. LastKind) \X V |-> x[2] \o RowsFrom(tabs[x[1]], 1)]
<1>1. LastKind \in Nat
  BY WalkFacts
<1>2. ASSUME NEW k \in 1 .. LastKind, NEW v \in V
      PROVE  G[<<k, v>>] = v \o RowsFrom(tabs[k], 1) /\ G[<<k, v>>] \in V
  <2>1. G[<<k, v>>] = v \o RowsFrom(tabs[k], 1)
    OBVIOUS
  <2>2. tabs[k] \in Tables
    BY DEF Kinds
  <2>3. RowsFrom(tabs[k], 1) \in V
    BY <2>2, RowsListed
  <2>4. v \o RowsFrom(tabs[k], 1) \in V
    BY <2>3, ConcatProperties
  <2>5. QED BY <2>1, <2>4
<1>3. <<>> \in V
  OBVIOUS
<1> HIDE DEF G, V
<1>4. PICK f : Recursion(LastKind, V, <<>>, G, f)
  <2>1. StepsIn(LastKind, V, G)
    BY <1>2, Zenon DEF StepsIn
  <2>2. QED BY <1>1, <1>3, <2>1, RecursionExists
<1>5. /\ f \in [0 .. LastKind -> V] /\ f[0] = <<>>
      /\ \A k \in 1 .. LastKind : f[k] = f[k - 1] \o RowsFrom(tabs[k], 1)
  <2>1. /\ f \in [0 .. LastKind -> V] /\ f[0] = <<>>
        /\ \A k \in 1 .. LastKind : f[k] = G[<<k, f[k - 1]>>]
    BY <1>4 DEF Recursion
  <2>2. \A k \in 1 .. LastKind : f[k - 1] \in V
    BY <1>1, <2>1
  <2>3. QED BY <1>2, <2>1, <2>2
<1>6. Values(f)
  <2>1. ASSUME NEW k \in 0 .. LastKind
        PROVE  f[k] = IF k = 0 THEN <<>> ELSE f[k - 1] \o RowsFrom(tabs[k], 1)
    <3>1. k = 0 \/ k \in 1 .. LastKind
      BY <1>1
    <3>2. 0 \notin 1 .. LastKind
      BY <1>1
    <3>3. QED BY <1>5, <3>1, <3>2
  <2>2. QED BY <1>5, <2>1
<1> DEFINE h == CHOOSE g : Values(g)
<1>7. Values(h)
  <2> HIDE DEF Values
  <2>1. QED BY <1>6
<1>8. RowsUpTo(tabs) = h
  BY DEF RowsUpTo
<1> HIDE DEF h
<1>9. \A k \in 0 .. LastKind :
        h[k] = IF k = 0 THEN <<>> ELSE h[k - 1] \o RowsFrom(tabs[k], 1)
  BY <1>7
<1>10. h = [k \in 0 .. LastKind |-> h[k]]
  BY <1>7
<1>11. h[0] = <<>>
  BY <1>1, <1>9
<1>12. \A k \in 1 .. LastKind : k - 1 \in 0 .. LastKind /\ h[k] = h[k - 1] \o RowsFrom(tabs[k], 1)
  <2> SUFFICES ASSUME NEW k \in 1 .. LastKind
               PROVE k - 1 \in 0 .. LastKind /\ h[k] = h[k - 1] \o RowsFrom(tabs[k], 1)
    OBVIOUS
  <2>1. k \in 0 .. LastKind /\ k # 0 /\ k - 1 \in 0 .. LastKind
    BY <1>1
  <2>2. QED BY <1>9, <2>1
<1>13. \A k \in 0 .. LastKind : h[k] \in V
  <2> DEFINE T == {k \in 0 .. LastKind : h[k] \in V}
  <2>1. 0 \in T
    BY <1>1, <1>3, <1>11
  <2>2. ASSUME NEW k \in 0 .. LastKind - 1, k \in T PROVE k + 1 \in T
    <3>1. k + 1 \in 1 .. LastKind /\ (k + 1) - 1 = k /\ k + 1 \in 0 .. LastKind
      BY <1>1
    <3>2. h[k + 1] = h[k] \o RowsFrom(tabs[k + 1], 1) /\ h[k] \in V
      BY <1>12, <2>2, <3>1
    <3>3. h[k + 1] \in V
      BY <1>2, <3>1, <3>2
    <3>4. QED BY <3>1, <3>3
  <2> HIDE DEF T
  <2>3. \A k \in 0 .. LastKind : k \in T
    BY <1>1, <2>1, <2>2, EachUpTo
  <2>4. QED BY <2>3 DEF T
<1>14. QED BY <1>8, <1>10, <1>11, <1>12, <1>13 DEF Kinds, V

DigestOf(r, last, bytes) == [rev |-> r, last |-> last, bytes |-> bytes]

LEMMA AbsorbFields ==
  ASSUME NEW of, NEW last, NEW bytes, NEW kind, NEW rows
  PROVE  Absorb(DigestOf(of, last, bytes), kind, rows) = DigestOf(of, kind, bytes \o rows)
<1> DEFINE d == DigestOf(of, last, bytes)
           more == bytes \o rows
<1>1. d.bytes = bytes
  BY DEF DigestOf
<1>2. Absorb(d, kind, rows) = [d EXCEPT !.last = kind, !.bytes = d.bytes \o rows]
  BY Zenon DEF Absorb
<1> HIDE DEF more
<1>3. [d EXCEPT !.last = kind] = DigestOf(of, kind, bytes)
  BY DEF DigestOf
<1>4. [DigestOf(of, kind, bytes) EXCEPT !.bytes = more] = DigestOf(of, kind, more)
  BY DEF DigestOf
<1>5. QED BY <1>1, <1>2, <1>3, <1>4, Zenon DEF more

(* AllRows and the digest are of the last kind and all before it.          *)
LEMMA WholeTables ==
  ASSUME tables \in [Kinds -> Tables]
  PROVE  /\ AllRows = RowsUpTo(tables)[LastKind]
         /\ CurrentDigest = <<rev, RowsUpTo(tables)[LastKind]>>
<1> DEFINE r == RowsUpTo(tables)
           Values(f) == f = [k \in 0 .. LastKind |->
                               IF k = 0 THEN NewDigest(rev)
                               ELSE Absorb(f[k - 1], k, RowsFrom(tables[k], 1))]
           At(k) == DigestOf(rev, k, r[k])
           g == [k \in 0 .. LastKind |-> At(k)]
           h == CHOOSE f : Values(f)
<1>1. LastKind \in Nat
  BY WalkFacts
<1>2. /\ r[0] = <<>>
      /\ \A k \in 1 .. LastKind : /\ k - 1 \in 0 .. LastKind
                                  /\ r[k] = r[k - 1] \o RowsFrom(tables[k], 1)
  BY KindByKind DEF Kinds
<1> HIDE DEF r
<1>3. NewDigest(rev) = At(0)
  BY <1>2 DEF NewDigest, DigestOf
<1>4. \A k \in 1 .. LastKind : Absorb(At(k - 1), k, RowsFrom(tables[k], 1)) = At(k)
  <2> SUFFICES ASSUME NEW k \in 1 .. LastKind
               PROVE Absorb(At(k - 1), k, RowsFrom(tables[k], 1)) = At(k)
    OBVIOUS
  <2> DEFINE j == k - 1
             rows == RowsFrom(tables[k], 1)
             before == r[j]
  <2>1. r[k] = before \o rows
    BY <1>2
  <2> HIDE DEF j, rows, before
  <2>2. Absorb(DigestOf(rev, j, before), k, rows) = DigestOf(rev, k, before \o rows)
    BY AbsorbFields
  <2>3. QED BY <2>1, <2>2 DEF j, rows, before
<1> HIDE DEF At
<1>5. Values(g)
  <2>1. ASSUME NEW k \in 0 .. LastKind
        PROVE  g[k] = IF k = 0 THEN NewDigest(rev)
                      ELSE Absorb(g[k - 1], k, RowsFrom(tables[k], 1))
    <3>1. CASE k = 0
      BY <1>3, <3>1
    <3>2. CASE k # 0
      <4>1. k \in 1 .. LastKind /\ k - 1 \in 0 .. LastKind
        BY <1>1, <3>2
      <4>2. g[k] = At(k) /\ g[k - 1] = At(k - 1)
        BY <4>1
      <4> HIDE DEF g
      <4>3. QED BY <1>4, <3>2, <4>1, <4>2
    <3>3. QED BY <3>1, <3>2
  <2>2. g = [k \in 0 .. LastKind |-> g[k]]
    OBVIOUS
  <2> HIDE DEF g
  <2>3. QED BY <2>1, <2>2
<1>6. Values(h)
  <2> HIDE DEF Values, g
  <2>1. QED BY <1>5
<1>7. CurrentDigest = Finish(h[LastKind])
  BY DEF CurrentDigest
<1>8. AllRows = r[LastKind]
  BY DEF AllRows, RowsUpTo, r
<1> HIDE DEF h
<1>9. \A k \in 0 .. LastKind :
        h[k] = IF k = 0 THEN NewDigest(rev) ELSE Absorb(h[k - 1], k, RowsFrom(tables[k], 1))
  BY <1>6
<1> DEFINE T == {k \in 0 .. LastKind : h[k] = At(k)}
<1>10. 0 \in T
  BY <1>1, <1>3, <1>9
<1>11. ASSUME NEW k \in 0 .. LastKind - 1, k \in T PROVE k + 1 \in T
  <2>1. /\ k + 1 \in 1 .. LastKind /\ (k + 1) - 1 = k /\ k + 1 # 0
        /\ k + 1 \in 0 .. LastKind
    BY <1>1
  <2>2. h[k + 1] = Absorb(At(k), k + 1, RowsFrom(tables[k + 1], 1))
    BY <1>9, <1>11, <2>1
  <2>3. QED BY <1>4, <2>1, <2>2
<1> HIDE DEF T
<1>12. \A k \in 0 .. LastKind : k \in T
  BY <1>1, <1>10, <1>11, EachUpTo
<1>13. h[LastKind] = At(LastKind)
  BY <1>1, <1>12 DEF T
<1>14. Finish(At(LastKind)) = <<rev, r[LastKind]>>
  BY DEF Finish, At, DigestOf
<1>15. QED BY <1>7, <1>8, <1>13, <1>14 DEF r

-----------------------------------------------------------------------------
(* A page, row by row.                                                     *)
InventoryPages(what) ==
  [kind : {what}, rows : Seq(Row), used : Int, next : Nat, full : BOOLEAN]

PageOf(what, rows, used, next, full) ==
  [kind |-> what, rows |-> rows, used |-> used, next |-> next, full |-> full]

Closed(page, next, full) == [page EXCEPT !.next = next, !.full = full]
Filled(page, rows, used) == [page EXCEPT !.rows = rows, !.used = used]

LEMMA PageFields ==
  ASSUME NEW page, NEW what, NEW rows, NEW used, NEW next, NEW full, NEW x, NEW y,
         page = PageOf(what, rows, used, next, full)
  PROVE  /\ Closed(page, x, y) = PageOf(what, rows, used, x, y)
         /\ Filled(page, x, y) = PageOf(what, x, y, next, full)
<1>1. [page EXCEPT !.next = x] = PageOf(what, rows, used, x, full)
  BY DEF PageOf
<1>2. [PageOf(what, rows, used, x, full) EXCEPT !.full = y] = PageOf(what, rows, used, x, y)
  BY DEF PageOf
<1>3. [page EXCEPT !.rows = x] = PageOf(what, x, used, next, full)
  BY DEF PageOf
<1>4. [PageOf(what, x, used, next, full) EXCEPT !.used = y] = PageOf(what, x, y, next, full)
  BY DEF PageOf
<1>5. QED BY <1>1, <1>2, <1>3, <1>4, Zenon DEF Closed, Filled

LEMMA PushFacts ==
  ASSUME NEW what, NEW page \in InventoryPages(what), NEW row \in Row
  PROVE  /\ Push(page, row) \in InventoryPages(what)
         /\ page.full => Push(page, row) = page
         /\ ~page.full =>
              \/ /\ Push(page, row).full = TRUE /\ Push(page, row).rows = page.rows
                 /\ Push(page, row).next = row[1] /\ row[1] # 0
              \/ /\ Push(page, row).full = FALSE
                 /\ Push(page, row).rows = Append(page.rows, row)
                 /\ Push(page, row).next = page.next
<1>1. PICK rows, used, next, full :
        /\ page = PageOf(what, rows, used, next, full)
        /\ rows \in Seq(Row) /\ used \in Int /\ next \in Nat /\ full \in BOOLEAN
  BY DEF InventoryPages, PageOf
<1>0. page = PageOf(what, rows, used, next, full)
  BY <1>1
<1> DEFINE longer == Append(page.rows, row)
           wider == page.used + Width(row[2])
           id == row[1]
           yes == TRUE
           shut == PageOf(what, rows, used, id, yes)
           more == PageOf(what, longer, wider, next, full)
<1>2. page.rows = rows /\ page.used = used /\ page.next = next /\ page.full = full
  BY <1>0 DEF PageOf
<1>3. id \in Nat /\ id # 0 /\ row[2] \in Contents
  BY WalkFacts DEF Row
<1>4. longer \in Seq(Row) /\ wider \in Int /\ yes \in BOOLEAN
  <2>1. Width(row[2]) \in 1 .. PageBytes
    BY <1>3, WalkAssumption, Zenon
  <2>2. QED BY <1>1, <1>2, <2>1
<1>5. /\ page.full => Push(page, row) = page
      /\ ~page.full =>
           Push(page, row) \in {Closed(page, id, yes), Filled(page, longer, wider)}
  BY Zenon DEF Push, Closed, Filled
<1> HIDE DEF longer, wider, id, yes
<1>6. Closed(page, id, yes) = shut
  BY <1>0, PageFields
<1>7. Filled(page, longer, wider) = more
  BY <1>0, PageFields
<1>8. shut \in InventoryPages(what) /\ more \in InventoryPages(what)
  BY <1>1, <1>3, <1>4 DEF InventoryPages, PageOf
<1>9. shut.full = yes /\ shut.rows = rows /\ shut.next = id
  BY DEF PageOf
<1>10. more.full = full /\ more.rows = longer /\ more.next = next
  BY DEF PageOf
<1> HIDE DEF shut, more
<1>11. CASE page.full
  BY <1>5, <1>11
<1>12. CASE ~page.full /\ Push(page, row) = shut
  BY <1>2, <1>3, <1>8, <1>9, <1>12 DEF yes, id
<1>13. CASE ~page.full /\ Push(page, row) = more
  BY <1>2, <1>8, <1>10, <1>13 DEF longer
<1>14. QED BY <1>5, <1>6, <1>7, <1>11, <1>12, <1>13

(* A page holds the head of the rows asked for, and hands back the id of   *)
(* the first row that it left.                                             *)
Holds(page, rows, n) ==
  /\ page.rows = SubSeq(rows, 1, n)
  /\ \/ page.next = 0 /\ n = Len(rows)
     \/ n + 1 \in 1 .. Len(rows) /\ page.next = rows[n + 1][1] /\ page.next # 0

LEMMA OneMore ==
  ASSUME NEW S, NEW s \in Seq(S), NEW n \in Nat, n + 1 \in 1 .. Len(s)
  PROVE  Append(SubSeq(s, 1, n), s[n + 1]) = SubSeq(s, 1, n + 1)
<1>1. n + 1 \in 1 .. Len(s) /\ 1 \in 1 .. Len(s) /\ n + 1 \in 1 .. Len(s)
  OBVIOUS
<1>2. SubSeq(s, 1, n + 1) = SubSeq(s, 1, n) \o <<s[n + 1]>>
  <2>1. (n + 1) - 1 = n
    OBVIOUS
  <2>2. SubSeq(s, 1, n + 1) = SubSeq(s, 1, (n + 1) - 1) \o <<s[n + 1]>>
    BY <1>1, SubSeqRecursiveSecond
  <2>3. QED BY <2>1, <2>2
<1>3. SubSeq(s, 1, n) \in Seq(S) /\ s[n + 1] \in S
  <2>1. \A i \in 1 .. n : s[i] \in S
    OBVIOUS
  <2>2. QED BY <2>1, SubSeqProperties
<1> DEFINE u == SubSeq(s, 1, n)
           e == s[n + 1]
<1> HIDE DEF u, e
<1>4. Append(u, e) = u \o <<e>>
  BY <1>3 DEF u, e
<1>5. QED BY <1>2, <1>4 DEF u, e

LEMMA BuiltHolds ==
  ASSUME NEW what, NEW rows \in Seq(Row)
  PROVE  /\ Built(what, rows) \in InventoryPages(what)
         /\ \E n \in 0 .. Len(rows) : Holds(Built(what, rows), rows, n)
<1> DEFINE len == Len(rows)
           V == InventoryPages(what)
           Values(f) == f = [i \in 0 .. Len(rows) |->
                               IF i = 0 THEN NewPage(what) ELSE Push(f[i - 1], rows[i])]
           G == [x \in (1 .. len) \X V |-> Push(x[2], rows[x[1]])]
<1>1. len \in Nat /\ \A i \in 1 .. len : rows[i] \in Row
  BY ElementOfSeq
<1>2. /\ NewPage(what) \in V /\ NewPage(what).rows = <<>>
      /\ NewPage(what).next = 0 /\ NewPage(what).full = FALSE
  BY DEF NewPage, InventoryPages
<1>3. ASSUME NEW i \in 1 .. len, NEW v \in V
      PROVE  G[<<i, v>>] = Push(v, rows[i]) /\ G[<<i, v>>] \in V
  <2>1. G[<<i, v>>] = Push(v, rows[i])
    OBVIOUS
  <2>2. QED BY <1>1, <2>1, PushFacts
<1> HIDE DEF G, V
<1>4. PICK f : Recursion(len, V, NewPage(what), G, f)
  <2>1. StepsIn(len, V, G)
    BY <1>3, Zenon DEF StepsIn
  <2> HIDE DEF len
  <2>2. QED BY <1>1, <1>2, <2>1, RecursionExists
<1>5. /\ f \in [0 .. len -> V] /\ f[0] = NewPage(what)
      /\ \A i \in 1 .. len : f[i] = Push(f[i - 1], rows[i])
  <2>1. /\ f \in [0 .. len -> V] /\ f[0] = NewPage(what)
        /\ \A i \in 1 .. len : f[i] = G[<<i, f[i - 1]>>]
    BY <1>4 DEF Recursion
  <2>2. \A i \in 1 .. len : f[i - 1] \in V
    BY <1>1, <2>1
  <2>3. QED BY <1>3, <2>1, <2>2
<1>6. Values(f)
  <2>1. ASSUME NEW i \in 0 .. len
        PROVE  f[i] = IF i = 0 THEN NewPage(what) ELSE Push(f[i - 1], rows[i])
    <3>1. i = 0 \/ i \in 1 .. len
      BY <1>1
    <3>2. 0 \notin 1 .. len
      BY <1>1
    <3>3. QED BY <1>5, <3>1, <3>2
  <2>2. QED BY <1>5, <2>1
<1> DEFINE h == CHOOSE g : Values(g)
<1>7. Values(h)
  <2> HIDE DEF Values
  <2>1. QED BY <1>6
<1>8. Built(what, rows) = h[len]
  BY DEF Built
<1> HIDE DEF h
<1>9. h[0] = NewPage(what)
  <2>1. 0 \in 0 .. len
    BY <1>1
  <2>2. QED BY <1>7, <2>1
<1>10. \A i \in 1 .. len : h[i] = Push(h[i - 1], rows[i])
  <2> SUFFICES ASSUME NEW i \in 1 .. len PROVE h[i] = Push(h[i - 1], rows[i])
    OBVIOUS
  <2>1. i \in 0 .. len /\ i # 0
    BY <1>1
  <2>2. QED BY <1>7, <2>1
<1> HIDE DEF Values
\* After i rows: all of them, or the head up to the row that did not fit.
<1> DEFINE Reached(i) ==
             \E n \in 0 .. i :
               /\ h[i].rows = SubSeq(rows, 1, n)
               /\ \/ ~h[i].full /\ h[i].next = 0 /\ n = i
                  \/ h[i].full /\ n < i /\ h[i].next = rows[n + 1][1] /\ h[i].next # 0
<1> HIDE DEF Reached
<1> DEFINE T == {i \in 0 .. len : h[i] \in V /\ Reached(i)}
<1>11. 0 \in T
  <2>1. SubSeq(rows, 1, 0) = <<>>
    BY SubSeqEmpty
  <2>2. Reached(0)
    <3>1. 0 \in 0 .. 0 /\ ~h[0].full /\ h[0].next = 0 /\ h[0].rows = SubSeq(rows, 1, 0)
      <4>1. h[0].rows = <<>> /\ h[0].next = 0 /\ h[0].full = FALSE
        BY <1>2, <1>9, Zenon
      <4>2. QED BY <2>1, <4>1
    <3>2. QED BY <3>1 DEF Reached
  <2>3. QED BY <1>1, <1>2, <1>9, <2>2
<1>12. ASSUME NEW i \in 0 .. len - 1, i \in T PROVE i + 1 \in T
  <2>1. i + 1 \in 1 .. len /\ (i + 1) - 1 = i /\ i \in Nat /\ i + 1 \in 0 .. len
    BY <1>1
  <2>2. h[i + 1] = Push(h[i], rows[i + 1]) /\ h[i] \in V /\ rows[i + 1] \in Row
    BY <1>1, <1>10, <1>12, <2>1
  <2>3. PICK n \in 0 .. i :
          /\ h[i].rows = SubSeq(rows, 1, n)
          /\ \/ ~h[i].full /\ h[i].next = 0 /\ n = i
             \/ h[i].full /\ n < i /\ h[i].next = rows[n + 1][1] /\ h[i].next # 0
    BY <1>12 DEF Reached
  <2> DEFINE p == h[i]
             q == h[i + 1]
             row == rows[i + 1]
  <2> HIDE DEF p, q, row
  <2>4. /\ q \in V
        /\ p.full => q = p
        /\ ~p.full => \/ q.full = TRUE /\ q.rows = p.rows /\ q.next = row[1] /\ row[1] # 0
                      \/ q.full = FALSE /\ q.rows = Append(p.rows, row) /\ q.next = p.next
    <3>1. q = Push(p, row) /\ p \in InventoryPages(what) /\ row \in Row
      BY <2>2 DEF V, p, q, row
    <3>2. QED BY <3>1, PushFacts DEF V
  <2>5. Append(SubSeq(rows, 1, i), row) = SubSeq(rows, 1, i + 1)
    BY <2>1, OneMore DEF row
  <2>6. CASE p.full
    <3>1. q = p /\ n \in 0 .. i + 1 /\ n < i + 1
      BY <2>1, <2>3, <2>4, <2>6
    <3>2. Reached(i + 1)
      BY <2>3, <2>6, <3>1 DEF p, q, Reached
    <3>3. QED BY <2>1, <2>4, <3>2 DEF q
  <2>7. CASE ~p.full /\ q.full = TRUE
    <3>1. q.rows = SubSeq(rows, 1, i) /\ q.next = rows[i + 1][1] /\ q.next # 0
      BY <2>3, <2>4, <2>7 DEF p, row
    <3>2. i \in 0 .. i + 1 /\ i < i + 1
      BY <2>1
    <3>3. Reached(i + 1)
      BY <2>7, <3>1, <3>2 DEF q, Reached
    <3>4. QED BY <2>1, <2>4, <3>3 DEF q
  <2>8. CASE ~p.full /\ q.full = FALSE
    <3>1. q.rows = SubSeq(rows, 1, i + 1) /\ q.next = 0
      BY <2>3, <2>4, <2>5, <2>8 DEF p
    <3>2. i + 1 \in 0 .. i + 1
      BY <2>1
    <3>3. Reached(i + 1)
      BY <2>8, <3>1, <3>2 DEF q, Reached
    <3>4. QED BY <2>1, <2>4, <3>3 DEF q
  <2>9. QED BY <2>4, <2>6, <2>7, <2>8
<1> HIDE DEF T
<1>13. \A i \in 0 .. len : i \in T
  <2> HIDE DEF len
  <2>1. QED BY <1>1, <1>11, <1>12, EachUpTo
<1>14. h[len] \in V /\ Reached(len)
  <2>1. len \in 0 .. len
    BY <1>1
  <2>2. QED BY <1>13, <2>1 DEF T
<1>15. \E n \in 0 .. len : Holds(h[len], rows, n)
  <2>1. PICK n \in 0 .. len :
          /\ h[len].rows = SubSeq(rows, 1, n)
          /\ \/ ~h[len].full /\ h[len].next = 0 /\ n = len
             \/ h[len].full /\ n < len /\ h[len].next = rows[n + 1][1] /\ h[len].next # 0
    BY <1>14 DEF Reached
  <2>2. n < len => n + 1 \in 1 .. len
    BY <1>1
  <2>3. QED BY <2>1, <2>2 DEF Holds
<1>16. QED BY <1>8, <1>14, <1>15 DEF V

(* A page's rows, and then those still to be asked for, are the rows that  *)
(* were asked for.                                                         *)
StillToCome(table, next) == IF next = 0 THEN <<>> ELSE RowsFrom(table, next)

LEMMA PageThenRest ==
  ASSUME NEW what, NEW table \in Tables, NEW from \in Nat
  PROVE  LET page == Built(what, RowsFrom(table, from))
         IN  /\ page.rows \in Seq(Row) /\ page.next \in Nat
             /\ page.rows \o StillToCome(table, page.next) = RowsFrom(table, from)
<1> DEFINE s == RowsFrom(table, from)
           page == Built(what, s)
<1>1. s \in Seq(Row) /\ Len(s) \in Nat
  BY RowsListed
<1>2. \A n \in Nat : n + 1 \in 1 .. Len(s) =>
        s[n + 1][1] \in Nat /\ RowsFrom(table, s[n + 1][1]) = SubSeq(s, n + 1, Len(s))
  BY RestOfRows
<1> HIDE DEF s
<1>3. page \in InventoryPages(what) /\ \E n \in 0 .. Len(s) : Holds(page, s, n)
  BY <1>1, BuiltHolds
<1> HIDE DEF page
<1>4. PICK n \in 0 .. Len(s) : Holds(page, s, n)
  BY <1>3
<1>5. page.rows \in Seq(Row) /\ page.next \in Nat
  BY <1>3 DEF InventoryPages
<1>6. CASE page.next = 0 /\ n = Len(s)
  <2>1. page.rows = s
    BY <1>1, <1>4, <1>6, SubSeqFull DEF Holds
  <2>2. s \o <<>> = s
    BY <1>1, ConcatEmptySeq
  <2>3. QED BY <1>5, <1>6, <2>1, <2>2 DEF StillToCome, s, page
<1>7. CASE n + 1 \in 1 .. Len(s) /\ page.next = s[n + 1][1] /\ page.next # 0
  <2>1. StillToCome(table, page.next) = SubSeq(s, n + 1, Len(s))
    BY <1>2, <1>7 DEF StillToCome
  <2>2. 1 \in 1 .. Len(s) + 1 /\ n \in 1 - 1 .. Len(s) /\ Len(s) \in n .. Len(s)
    BY <1>1
  <2>3. SubSeq(s, 1, n) \o SubSeq(s, n + 1, Len(s)) = SubSeq(s, 1, Len(s))
    BY <1>1, <2>2, ConcatAdjacentSubSeq
  <2>4. SubSeq(s, 1, Len(s)) = s
    BY <1>1, SubSeqFull
  <2>5. page.rows \o StillToCome(table, page.next) = s
    BY <1>4, <2>1, <2>3, <2>4 DEF Holds
  <2>6. QED BY <1>5, <2>5 DEF s, page
<1>8. QED BY <1>4, <1>6, <1>7 DEF Holds

-----------------------------------------------------------------------------
(* What holds of the walk. What was taken is what the digest was taken of; *)
(* a page on its way is the answer to the walk's own question, and the     *)
(* digest it ends with is of the tables it was built from.                 *)
WalkInv ==
  /\ rev \in Nat /\ rev >= 1 /\ unbumped \in Nat
  /\ tables \in [Kinds -> Tables]
  /\ walk.kind \in 0 .. LastKind /\ walk.from \in Nat /\ walk.rows \in Seq(Row)
  /\ walk.digest = DigestOf(walk.digest.rev, walk.digest.last, walk.rows)
  /\ IF walk.rev = 0 THEN walk \in {NotWalking, Start}
     ELSE walk.rev \in 1 .. rev /\ walk.digest.rev = walk.rev
  /\ walk.kind # 0 => cache = {}

Asked(m) == m.to = "controller" /\ m.body.what = walk.kind /\ m.body.from = walk.from

Answered(m) ==
  /\ m.to = "client" /\ m.body.what = walk.kind
  /\ m.body.rev \in 1 .. rev /\ m.body.next \in Nat /\ m.body.rows \in Seq(Row)
  /\ m.body.digest \in {NoDigest, <<m.body.rev, m.stood>>}
  /\ m.body.outcome = "Ok" /\ walk.kind = LastKind /\ m.body.next = 0 =>
       m.body.digest = <<m.body.rev, m.stood>>

WireInv ==
  /\ wire # {} => walk.kind # 0
  /\ \A m \in wire : Asked(m) \/ Answered(m)
  /\ \A m, n \in wire : m = n

(* While every edit moved the revision, a revision names one state of the  *)
(* tables: past says which. The walk, a page on its way and the cache are  *)
(* each of the state their revision names.                                 *)
OnItsWay(past, r) ==
  walk.rev \in {0, r} /\ walk.kind # 0 =>
    walk.rows \o RowsFrom(past[r][walk.kind], walk.from) = RowsUpTo(past[r])[walk.kind]

PageOfPast(past, m) ==
  m.to = "client" /\ m.body.outcome = "Ok" =>
    LET table == past[m.body.rev][walk.kind]
    IN  /\ m.stood = RowsUpTo(past[m.body.rev])[LastKind]
        /\ m.body.rows \o StillToCome(table, m.body.next) = RowsFrom(table, walk.from)

CacheOfPast(past, c) ==
  /\ c.digest[1] \in 1 .. rev
  /\ c.digest = <<c.digest[1], RowsUpTo(past[c.digest[1]])[LastKind]>>

Pasts == [1 .. rev -> [Kinds -> Tables]]
Past(past) ==
  /\ past[rev] = tables
  /\ \A r \in 1 .. rev : OnItsWay(past, r)
  /\ \A m \in wire : PageOfPast(past, m)
  /\ \A c \in cache : CacheOfPast(past, c)

FaultInv == unbumped = 0 => ~fault /\ \E past \in Pasts : Past(past)

InventoryInv == WalkInv /\ WireInv /\ FaultInv

(* Ids count from 1, so the rows from 0 are those from 1; and a walk that  *)
(* starts is on its way at any revision.                                   *)
Listed(S, table) ==
  LET Nth(i) == CHOOSE d \in S : Cardinality({e \in S : e < d}) = i - 1
  IN  [i \in 1 .. Cardinality(S) |-> <<Nth(i), table[Nth(i)]>>]

LEMMA FromZero ==
  ASSUME NEW table \in Tables
  PROVE  RowsFrom(table, 0) = RowsFrom(table, 1)
<1>1. \A from : RowsFrom(table, from) = Listed(IdsFrom(table, from), table)
  BY DEF RowsFrom, Listed, IdsFrom
<1>2. IdsFrom(table, 0) = IdsFrom(table, 1)
  <2>1. PICK ids \in SUBSET (1 .. MaxId) : table \in [ids -> Contents]
    BY DEF Tables
  <2>2. \A d \in DOMAIN table : d >= 0 <=> d >= 1
    BY <2>1
  <2>3. QED BY <2>2 DEF IdsFrom
<1>3. QED BY <1>1, <1>2

LEMMA StartFits ==
  ASSUME NEW tabs \in [Kinds -> Tables]
  PROVE  /\ Start.kind = 1 /\ Start.rev = 0 /\ Start.from = 0 /\ Start.rows = <<>>
         /\ Start.digest = NewDigest(0) /\ 1 \in Kinds
         /\ Start.rows \o RowsFrom(tabs[1], 0) = RowsUpTo(tabs)[1]
<1>1. /\ Start.kind = 1 /\ Start.rev = 0 /\ Start.from = 0 /\ Start.rows = <<>>
      /\ Start.digest = NewDigest(0)
  BY DEF Start, NotWalking
<1>2. 1 \in Kinds /\ 1 - 1 = 0
  BY WalkFacts DEF Kinds
<1>3. RowsUpTo(tabs)[1] = RowsUpTo(tabs)[0] \o RowsFrom(tabs[1], 1) /\ RowsUpTo(tabs)[0] = <<>>
  BY <1>2, KindByKind
<1>4. tabs[1] \in Tables
  BY <1>2
<1>5. RowsFrom(tabs[1], 0) = RowsFrom(tabs[1], 1)
  BY <1>4, FromZero
<1>6. QED BY <1>1, <1>2, <1>3, <1>5

LEMMA InitInventory == WalkInit => InventoryInv
<1> SUFFICES ASSUME WalkInit PROVE InventoryInv
  OBVIOUS
<1>1. /\ rev = 1 /\ unbumped = 0 /\ walk = NotWalking /\ wire = {} /\ cache = {}
      /\ fault = FALSE /\ tables \in [Kinds -> FirstTables]
  BY DEF WalkInit
<1>2. tables \in [Kinds -> Tables]
  <2>1. FirstTables \subseteq Tables
    BY WalkAssumption, Zenon DEF Tables
  <2>2. QED BY <1>1, <2>1
<1>3. /\ NotWalking.kind = 0 /\ NotWalking.rev = 0 /\ NotWalking.from = 0
      /\ NotWalking.rows = <<>> /\ NotWalking.digest = DigestOf(0, 0, <<>>)
  BY DEF NotWalking, NewDigest, DigestOf
<1>4. WalkInv
  <2>1. walk.digest.rev = 0 /\ walk.digest.last = 0
    BY <1>1, <1>3 DEF DigestOf
  <2>2. 0 \in 0 .. LastKind /\ <<>> \in Seq(Row)
    BY WalkFacts
  <2>3. QED BY <1>1, <1>2, <1>3, <2>1, <2>2 DEF WalkInv
<1>5. WireInv
  BY <1>1 DEF WireInv
<1>6. FaultInv
  <2> DEFINE past == [r \in 1 .. 1 |-> tables]
  <2>1. past \in Pasts /\ past[rev] = tables
    BY <1>1, <1>2 DEF Pasts
  <2>2. \A r \in 1 .. rev : OnItsWay(past, r)
    BY <1>1, <1>3 DEF OnItsWay
  <2> HIDE DEF past
  <2>3. Past(past)
    BY <1>1, <2>1, <2>2 DEF Past
  <2>4. QED BY <1>1, <2>1, <2>3 DEF FaultInv
<1>7. QED BY <1>4, <1>5, <1>6 DEF InventoryInv

LEMMA EditInventory ==
  ASSUME InventoryInv, Edit
  PROVE  InventoryInv'
<1>1. /\ WalkInv /\ WireInv /\ FaultInv
  BY DEF InventoryInv
<1>2. /\ rev' = rev + 1 /\ unbumped' = unbumped /\ walk' = walk /\ wire' = wire
      /\ cache' = cache /\ fault' = fault
  BY DEF Edit
<1>3. tables' \in [Kinds -> Tables]
  <2>1. PICK k \in Kinds : \E t \in Edits(tables[k]) : tables' = [tables EXCEPT ![k] = t]
    BY DEF Edit
  <2>2. PICK t \in Edits(tables[k]) : tables' = [tables EXCEPT ![k] = t]
    BY <2>1
  <2>3. t \in Tables
    BY <2>2 DEF Edits
  <2>4. QED BY <1>1, <2>2, <2>3 DEF WalkInv
<1>4. rev \in Nat /\ rev >= 1 /\ \A r \in 1 .. rev : r \in 1 .. rev'
  BY <1>1, <1>2 DEF WalkInv
<1>5. WalkInv'
  <2>1. rev' \in Nat /\ rev' >= 1
    BY <1>2, <1>4
  <2>2. QED BY <1>1, <1>2, <1>3, <1>4, <2>1 DEF WalkInv
<1>6. WireInv'
  BY <1>1, <1>2, <1>4 DEF WireInv, Asked, Answered
<1>7. ASSUME unbumped = 0 PROVE ~fault' /\ \E past \in Pasts' : Past(past)'
  <2>1. PICK past \in Pasts : Past(past)
    BY <1>1, <1>7 DEF FaultInv
  <2>2. past \in [1 .. rev -> [Kinds -> Tables]]
    BY <2>1 DEF Pasts
  <2>3. PICK later : /\ later \in [1 .. rev + 1 -> [Kinds -> Tables]]
                     /\ later[rev + 1] = tables'
                     /\ \A r \in 1 .. rev : later[r] = past[r]
    <3> DEFINE f == [r \in 1 .. rev + 1 |-> IF r = rev + 1 THEN tables' ELSE past[r]]
    <3>1. /\ f \in [1 .. rev + 1 -> [Kinds -> Tables]]
          /\ f[rev + 1] = tables'
          /\ \A r \in 1 .. rev : f[r] = past[r]
      BY <1>3, <1>4, <2>2
    <3> HIDE DEF f
    <3>2. QED BY <3>1
  <2>4. ASSUME NEW r \in 1 .. rev + 1 PROVE OnItsWay(later, r)'
    <3>1. CASE walk.rev = 0
      <4>1. walk \in {NotWalking, Start}
        BY <1>1, <3>1 DEF WalkInv
      <4>2. later[r] \in [Kinds -> Tables]
        BY <2>3
      <4>3. CASE walk = NotWalking
        BY <1>2, <4>3 DEF OnItsWay, NotWalking
      <4>4. CASE walk = Start
        BY <1>2, <4>2, <4>4, StartFits DEF OnItsWay
      <4>5. QED BY <4>1, <4>3, <4>4
    <3>2. CASE walk.rev # 0 /\ r \in 1 .. rev
      BY <1>2, <2>1, <2>3, <3>2 DEF OnItsWay, Past
    <3>3. CASE walk.rev # 0 /\ r = rev + 1
      <4>1. walk.rev \in 1 .. rev
        BY <1>1, <3>3 DEF WalkInv
      <4>2. walk.rev # r
        BY <1>4, <3>3, <4>1
      <4>3. QED BY <1>2, <3>3, <4>2 DEF OnItsWay
    <3>4. r \in 1 .. rev \/ r = rev + 1
      BY <1>4
    <3>5. QED BY <3>1, <3>2, <3>3, <3>4
  <2>5. ASSUME NEW m \in wire PROVE PageOfPast(later, m)'
    <3>1. PageOfPast(past, m) /\ (m.to = "client" => m.body.rev \in 1 .. rev)
      BY <1>1, <2>1 DEF Past, WireInv, Asked, Answered
    <3>2. m.to = "client" => later[m.body.rev] = past[m.body.rev]
      BY <2>3, <3>1
    <3>3. QED BY <1>2, <3>1, <3>2 DEF PageOfPast
  <2>6. ASSUME NEW c \in cache PROVE CacheOfPast(later, c)'
    <3>1. CacheOfPast(past, c)
      BY <2>1 DEF Past
    <3>2. QED BY <1>2, <1>4, <2>3, <3>1 DEF CacheOfPast
  <2>7. Past(later)'
    BY <1>2, <2>3, <2>4, <2>5, <2>6 DEF Past
  <2>8. later \in Pasts'
    BY <1>2, <2>3 DEF Pasts
  <2>9. QED BY <1>1, <1>2, <1>7, <2>7, <2>8 DEF FaultInv
<1>8. FaultInv'
  BY <1>2, <1>7 DEF FaultInv
<1>9. QED BY <1>5, <1>6, <1>8 DEF InventoryInv

LEMMA UnbumpedInventory ==
  ASSUME InventoryInv, EditUnbumped
  PROVE  InventoryInv'
<1>1. /\ WalkInv /\ WireInv
  BY DEF InventoryInv
<1>2. /\ rev' = rev /\ unbumped' = unbumped + 1 /\ walk' = walk /\ wire' = wire
      /\ cache' = cache /\ fault' = fault
  BY DEF EditUnbumped
<1>3. tables' \in [Kinds -> Tables]
  <2>1. PICK k \in Kinds : \E t \in Edits(tables[k]) : tables' = [tables EXCEPT ![k] = t]
    BY DEF EditUnbumped
  <2>2. PICK t \in Edits(tables[k]) : tables' = [tables EXCEPT ![k] = t]
    BY <2>1
  <2>3. t \in Tables
    BY <2>2 DEF Edits
  <2>4. QED BY <1>1, <2>2, <2>3 DEF WalkInv
<1>4. unbumped' \in Nat /\ unbumped' # 0
  BY <1>1, <1>2 DEF WalkInv
<1>5. WalkInv'
  BY <1>1, <1>2, <1>3, <1>4 DEF WalkInv
<1>6. WireInv'
  BY <1>1, <1>2 DEF WireInv, Asked, Answered
<1>7. FaultInv'
  BY <1>4 DEF FaultInv
<1>8. QED BY <1>5, <1>6, <1>7 DEF InventoryInv

LEMMA AskInventory ==
  ASSUME InventoryInv, Ask
  PROVE  InventoryInv'
<1>1. /\ WalkInv /\ WireInv /\ FaultInv
  BY DEF InventoryInv
<1>2. /\ rev' = rev /\ unbumped' = unbumped /\ walk' = walk /\ tables' = tables
      /\ cache' = cache /\ fault' = fault /\ walk.kind # 0
  BY DEF Ask
<1>3. PICK m : /\ wire' = {m} /\ m.to = "controller"
               /\ m.body.what = walk.kind /\ m.body.from = walk.from
  <2> DEFINE asked == [to |-> "controller", stood |-> <<>>,
                       body |-> Request(IF pins THEN walk.rev ELSE 0, walk.kind, walk.from)]
  <2>1. wire' = {asked}
    BY DEF Ask
  <2>2. asked.to = "controller" /\ asked.body.what = walk.kind /\ asked.body.from = walk.from
    BY DEF Request
  <2> HIDE DEF asked
  <2>3. QED BY <2>1, <2>2
<1>4. WalkInv'
  BY <1>1, <1>2 DEF WalkInv
<1>5. WireInv'
  BY <1>2, <1>3 DEF WireInv, Asked
<1>6. ASSUME unbumped = 0 PROVE ~fault' /\ \E past \in Pasts' : Past(past)'
  <2>1. PICK past \in Pasts : Past(past)
    BY <1>1, <1>6 DEF FaultInv
  <2>2. PageOfPast(past, m)'
    BY <1>3 DEF PageOfPast
  <2>3. \A r \in 1 .. rev : OnItsWay(past, r)'
    BY <1>2, <2>1 DEF Past, OnItsWay
  <2>4. \A c \in cache : CacheOfPast(past, c)'
    BY <1>2, <2>1 DEF Past, CacheOfPast
  <2>5. Past(past)'
    <3>1. \A n \in wire' : PageOfPast(past, n)'
      BY <1>3, <2>2
    <3>2. QED BY <1>2, <2>1, <2>3, <2>4, <3>1 DEF Past
  <2>6. past \in Pasts'
    BY <1>2, <2>1 DEF Pasts
  <2>7. QED BY <1>1, <1>2, <1>6, <2>5, <2>6 DEF FaultInv
<1>7. FaultInv'
  BY <1>2, <1>6 DEF FaultInv
<1>8. QED BY <1>4, <1>5, <1>7 DEF InventoryInv

LEMMA LoseInventory ==
  ASSUME InventoryInv, Lose
  PROVE  InventoryInv'
<1>1. /\ WalkInv /\ WireInv /\ FaultInv
  BY DEF InventoryInv
<1>2. /\ rev' = rev /\ unbumped' = unbumped /\ walk' = walk /\ tables' = tables
      /\ cache' = cache /\ fault' = fault /\ wire' = {}
  BY DEF Lose
<1>3. WalkInv' /\ WireInv'
  BY <1>1, <1>2 DEF WalkInv, WireInv
<1>4. ASSUME unbumped = 0 PROVE ~fault' /\ \E past \in Pasts' : Past(past)'
  <2>1. PICK past \in Pasts : Past(past)
    BY <1>1, <1>4 DEF FaultInv
  <2>2. Past(past)'
    <3>1. \A r \in 1 .. rev : OnItsWay(past, r)'
      BY <1>2, <2>1 DEF Past, OnItsWay
    <3>2. \A c \in cache : CacheOfPast(past, c)'
      BY <1>2, <2>1 DEF Past, CacheOfPast
    <3>3. QED BY <1>2, <2>1, <3>1, <3>2 DEF Past
  <2>3. past \in Pasts'
    BY <1>2, <2>1 DEF Pasts
  <2>4. QED BY <1>1, <1>2, <1>4, <2>2, <2>3 DEF FaultInv
<1>5. FaultInv'
  BY <1>2, <1>4 DEF FaultInv
<1>6. QED BY <1>3, <1>5 DEF InventoryInv

(* The controller answers the walk's own question, of the tables as they   *)
(* stand.                                                                  *)
LEMMA AnswerInventory ==
  ASSUME InventoryInv, Answer
  PROVE  InventoryInv'
<1>1. /\ WalkInv /\ WireInv /\ FaultInv
  BY DEF InventoryInv
<1>2. /\ rev' = rev /\ unbumped' = unbumped /\ walk' = walk /\ tables' = tables
      /\ cache' = cache /\ fault' = fault
  BY DEF Answer
<1>3. PICK q \in wire :
        /\ q.to = "controller"
        /\ LET what == q.body.what
               out  == OutcomeOf(q.body)
               page == IF out = "Ok"
                       THEN Built(what, RowsFrom(tables[what], q.body.from))
                       ELSE NewPage(what)
               digest == IF out = "Ok" /\ what = LastKind /\ page.next = 0
                         THEN CurrentDigest ELSE NoDigest
           IN  wire' = {[to |-> "client", stood |-> AllRows,
                         body |-> Encode(out, what, page, digest)]}
  BY DEF Answer
<1> DEFINE what == q.body.what
           out  == OutcomeOf(q.body)
           page == IF out = "Ok"
                   THEN Built(what, RowsFrom(tables[what], q.body.from))
                   ELSE NewPage(what)
           digest == IF out = "Ok" /\ what = LastKind /\ page.next = 0
                     THEN CurrentDigest ELSE NoDigest
           rows == IF out = "Ok" THEN page.rows ELSE <<>>
           next == IF out = "Ok" THEN page.next ELSE 0
           stood == AllRows
<1>4. what = walk.kind /\ q.body.from = walk.from /\ walk.kind # 0
  BY <1>1, <1>3 DEF WireInv, Asked, Answered
<1>5. out = "Ok" => what \in Kinds
  BY DEF OutcomeOf
<1>6. tables \in [Kinds -> Tables] /\ walk.from \in Nat /\ rev \in Nat /\ rev >= 1
  BY <1>1 DEF WalkInv
<1>7. out = "Ok" => /\ page.rows \in Seq(Row) /\ page.next \in Nat
                    /\ page.rows \o StillToCome(tables[what], page.next)
                         = RowsFrom(tables[what], walk.from)
  <2>1. out = "Ok" => tables[what] \in Tables
    BY <1>5, <1>6
  <2>2. out = "Ok" => page = Built(what, RowsFrom(tables[what], walk.from))
    BY <1>4
  <2> HIDE DEF page, out, what
  <2>3. QED BY <1>6, <2>1, <2>2, PageThenRest
<1>8. /\ rows \in Seq(Row) /\ next \in Nat
      /\ digest \in {NoDigest, <<rev, stood>>}
      /\ out = "Ok" /\ what = LastKind /\ next = 0 => digest = <<rev, stood>>
  <2>1. CurrentDigest = <<rev, stood>>
    BY <1>6, WholeTables
  <2>2. <<>> \in Seq(Row) /\ 0 \in Nat
    OBVIOUS
  <2> HIDE DEF page, out, what, stood
  <2>3. rows \in Seq(Row) /\ next \in Nat
    BY <1>7, <2>2
  <2>4. QED BY <2>1, <2>3
<1> DEFINE sent == [to |-> "client", stood |-> stood,
                    body |-> [rev |-> rev, what |-> what, outcome |-> out, rows |-> rows,
                              next |-> next, digest |-> digest]]
<1>9. wire' = {sent}
  BY <1>3, Zenon DEF Encode
<1>10. out = "Ok" => rows = page.rows /\ next = page.next
  OBVIOUS
<1> HIDE DEF what, out, page, digest, rows, next, stood
<1>11. PICK m : /\ wire' = {m} /\ m.to = "client" /\ m.stood = stood
                /\ m.body.what = what /\ m.body.rev = rev /\ m.body.outcome = out
                /\ m.body.rows = rows /\ m.body.next = next /\ m.body.digest = digest
  <2>1. /\ sent.to = "client" /\ sent.stood = stood /\ sent.body.what = what
        /\ sent.body.rev = rev /\ sent.body.outcome = out /\ sent.body.rows = rows
        /\ sent.body.next = next /\ sent.body.digest = digest
    OBVIOUS
  <2> HIDE DEF sent
  <2>2. QED BY <1>9, <2>1
<1>12. WalkInv'
  BY <1>1, <1>2 DEF WalkInv
<1>13. Answered(m)'
  <2>1. m.body.rev \in 1 .. rev
    BY <1>6, <1>11
  <2>2. QED BY <1>2, <1>4, <1>8, <1>11, <2>1 DEF Answered
<1>14. WireInv'
  BY <1>2, <1>4, <1>11, <1>13 DEF WireInv
<1>15. ASSUME unbumped = 0 PROVE ~fault' /\ \E past \in Pasts' : Past(past)'
  <2>1. PICK past \in Pasts : Past(past)
    BY <1>1, <1>15 DEF FaultInv
  <2>2. past[rev] = tables
    BY <2>1 DEF Past
  <2>3. stood = RowsUpTo(tables)[LastKind]
    BY <1>6, WholeTables DEF stood
  <2>4. PageOfPast(past, m)'
    <3>1. CASE out # "Ok"
      BY <1>11, <3>1 DEF PageOfPast
    <3>2. CASE out = "Ok"
      <4>1. rows \o StillToCome(tables[walk.kind], next) = RowsFrom(tables[walk.kind], walk.from)
        BY <1>4, <1>7, <1>10, <3>2
      <4>2. QED BY <1>2, <1>11, <2>2, <2>3, <4>1 DEF PageOfPast
    <3>3. QED BY <3>1, <3>2
  <2>5. \A r \in 1 .. rev : OnItsWay(past, r)'
    BY <1>2, <2>1 DEF Past, OnItsWay
  <2>6. \A c \in cache : CacheOfPast(past, c)'
    BY <1>2, <2>1 DEF Past, CacheOfPast
  <2>7. Past(past)'
    <3>1. \A n \in wire' : PageOfPast(past, n)'
      BY <1>11, <2>4
    <3>2. QED BY <1>2, <2>1, <2>5, <2>6, <3>1 DEF Past
  <2>8. past \in Pasts'
    BY <1>2, <2>1 DEF Pasts
  <2>9. QED BY <1>1, <1>2, <1>15, <2>7, <2>8 DEF FaultInv
<1>16. FaultInv'
  BY <1>2, <1>15 DEF FaultInv
<1>17. QED BY <1>12, <1>14, <1>16 DEF InventoryInv

(* The walk stops or starts over.                                          *)
LEMMA Restarted ==
  ASSUME WalkInv, rev' = rev, unbumped' = unbumped, tables' = tables,
         walk' \in {NotWalking, Start}, walk' = Start => cache' = {}
  PROVE  /\ WalkInv'
         /\ \A past \in Pasts : \A r \in 1 .. rev : OnItsWay(past, r)'
<1>1. \A w \in {NotWalking, Start} :
        /\ w.kind \in 0 .. LastKind /\ w.from \in Nat /\ w.rows \in Seq(Row)
        /\ w.digest = DigestOf(w.digest.rev, w.digest.last, w.rows)
        /\ w.rev = 0
  <2>1. 0 \in 0 .. LastKind /\ 1 \in 0 .. LastKind /\ <<>> \in Seq(Row)
    BY WalkFacts
  <2>2. NewDigest(0) = DigestOf(0, 0, <<>>) /\ NewDigest(0).rev = 0 /\ NewDigest(0).last = 0
    BY DEF NewDigest, DigestOf
  <2>3. /\ NotWalking.kind = 0 /\ NotWalking.from = 0 /\ NotWalking.rows = <<>>
        /\ NotWalking.digest = NewDigest(0) /\ NotWalking.rev = 0
    BY DEF NotWalking
  <2>4. /\ Start.kind = 1 /\ Start.from = 0 /\ Start.rows = <<>>
        /\ Start.digest = NewDigest(0) /\ Start.rev = 0
    BY DEF NotWalking, Start
  <2> SUFFICES ASSUME NEW w, w = NotWalking \/ w = Start
               PROVE  /\ w.kind \in 0 .. LastKind /\ w.from \in Nat /\ w.rows \in Seq(Row)
                      /\ w.digest = DigestOf(w.digest.rev, w.digest.last, w.rows)
                      /\ w.rev = 0
    OBVIOUS
  <2>5. /\ w.kind \in 0 .. LastKind /\ w.from = 0 /\ w.rows = <<>>
        /\ w.digest = NewDigest(0) /\ w.rev = 0
    BY <2>1, <2>3, <2>4
  <2>6. w.digest = DigestOf(w.digest.rev, w.digest.last, w.rows)
    BY <2>2, <2>5
  <2>7. QED BY <2>1, <2>5, <2>6
<1>2. NotWalking.kind = 0
  BY DEF NotWalking
<1>3. WalkInv'
  <2>1. walk'.kind # 0 => cache' = {}
    BY <1>2
  <2>2. /\ walk'.kind \in 0 .. LastKind /\ walk'.from \in Nat /\ walk'.rows \in Seq(Row)
        /\ walk'.digest = DigestOf(walk'.digest.rev, walk'.digest.last, walk'.rows)
        /\ walk'.rev = 0
    BY <1>1
  <2>3. QED BY <2>1, <2>2 DEF WalkInv
<1>4. ASSUME NEW past \in Pasts, NEW r \in 1 .. rev PROVE OnItsWay(past, r)'
  <2>1. past[r] \in [Kinds -> Tables]
    BY DEF Pasts
  <2>2. CASE walk' = NotWalking
    BY <1>2, <2>2 DEF OnItsWay
  <2>3. CASE walk' = Start
    BY <2>1, <2>3, StartFits DEF OnItsWay
  <2>4. QED BY <2>2, <2>3
<1>5. QED BY <1>3, <1>4

LEMMA HelloInventory ==
  ASSUME InventoryInv, Hello
  PROVE  InventoryInv'
<1>1. /\ WalkInv /\ WireInv /\ FaultInv
  BY DEF InventoryInv
<1>2. /\ rev' = rev /\ unbumped' = unbumped /\ tables' = tables /\ wire' = wire
      /\ walk.kind = 0 /\ cache' = {c \in cache : c.digest = CurrentDigest}
      /\ walk' = IF cache' = {} THEN Start ELSE walk
      /\ fault' = (fault \/ \E c \in cache \ cache' : c.digest[1] = rev)
  BY DEF Hello
<1>3. wire = {}
  BY <1>1, <1>2 DEF WireInv
<1>4. WalkInv' /\ \A past \in Pasts : Past(past) => \A r \in 1 .. rev : OnItsWay(past, r)'
  <2>1. CASE cache' = {}
    <3>1. walk' = Start
      BY <1>2, <2>1
    <3>2. QED BY <1>1, <1>2, <2>1, <3>1, Restarted
  <2>2. CASE cache' # {}
    <3>1. walk' = walk
      BY <1>2, <2>2
    <3>2. WalkInv'
      BY <1>1, <1>2, <3>1 DEF WalkInv
    <3>3. \A past \in Pasts : \A r \in 1 .. rev : OnItsWay(past, r)'
      BY <1>2, <3>1 DEF OnItsWay
    <3>4. QED BY <3>2, <3>3
  <2>3. QED BY <2>1, <2>2
<1>5. WireInv'
  BY <1>2, <1>3 DEF WireInv
<1>6. ASSUME unbumped = 0 PROVE ~fault' /\ \E past \in Pasts' : Past(past)'
  <2>1. PICK past \in Pasts : Past(past)
    BY <1>1, <1>6 DEF FaultInv
  <2>2. ASSUME NEW c \in cache, c.digest[1] = rev PROVE c \in cache'
    <3>1. CacheOfPast(past, c) /\ past[rev] = tables
      BY <2>1 DEF Past
    <3>2. c.digest = <<rev, RowsUpTo(tables)[LastKind]>>
      BY <2>2, <3>1 DEF CacheOfPast
    <3>3. c.digest = CurrentDigest
      BY <1>1, <3>2, WholeTables DEF WalkInv
    <3>4. QED BY <1>2, <3>3
  <2>3. ~fault'
    BY <1>1, <1>2, <1>6, <2>2 DEF FaultInv
  <2>4. \A c \in cache' : CacheOfPast(past, c)'
    BY <1>2, <2>1 DEF Past, CacheOfPast
  <2>5. Past(past)'
    <3>1. \A r \in 1 .. rev : OnItsWay(past, r)'
      BY <1>4, <2>1
    <3>2. past[rev] = tables /\ wire' = {}
      BY <1>2, <1>3, <2>1 DEF Past
    <3>3. QED BY <1>2, <2>4, <3>1, <3>2 DEF Past
  <2>6. past \in Pasts'
    BY <1>2, <2>1 DEF Pasts
  <2>7. QED BY <2>3, <2>5, <2>6
<1>7. FaultInv'
  BY <1>2, <1>6 DEF FaultInv
<1>8. QED BY <1>4, <1>5, <1>7 DEF InventoryInv

(* A page taken is added to the rows and to the digest alike ...           *)
LEMMA TakenFields ==
  ASSUME WalkInv, NEW body, body.rows \in Seq(Row), walk.rev \in {0, body.rev}
  PROVE  LET after == Taken(body)
             rows  == walk.rows \o body.rows
         IN  /\ after.kind = IF body.next = 0 THEN walk.kind + 1 ELSE walk.kind
             /\ after.rev = body.rev /\ after.from = body.next
             /\ after.rows = rows /\ rows \in Seq(Row)
             /\ after.digest = DigestOf(body.rev, body.what, rows)
             /\ Finish(after.digest) = <<body.rev, rows>>
<1> DEFINE after == Taken(body)
           taken == walk.rows
           rows == taken \o body.rows
           d == IF walk.rev = 0 THEN NewDigest(body.rev) ELSE walk.digest
<1>1. /\ after.kind = IF body.next = 0 THEN walk.kind + 1 ELSE walk.kind
      /\ after.rev = body.rev /\ after.from = body.next /\ after.rows = rows
      /\ after.digest = Absorb(d, body.what, body.rows)
  BY DEF Taken
<1>2. taken \in Seq(Row)
  BY DEF WalkInv
<1>3. rows \in Seq(Row)
  BY <1>2, ConcatProperties
<1>4. \E last : d = DigestOf(body.rev, last, taken)
  <2>1. CASE walk.rev = 0
    <3>1. walk.rows = <<>>
      BY <2>1, StartFits DEF WalkInv, NotWalking, Start
    <3>2. d = DigestOf(body.rev, 0, taken)
      BY <2>1, <3>1 DEF NewDigest, DigestOf
    <3>3. QED BY <3>2
  <2>2. CASE walk.rev # 0
    <3>1. d = DigestOf(body.rev, walk.digest.last, taken)
      BY <2>2 DEF WalkInv
    <3>2. QED BY <3>1
  <2>3. QED BY <2>1, <2>2
<1>5. PICK last : d = DigestOf(body.rev, last, taken)
  BY <1>4
<1> HIDE DEF d, taken, after
<1> DEFINE more == body.rows
           of   == body.rev
           kind == body.what
<1> HIDE DEF more, of, kind
<1>6. Absorb(DigestOf(of, last, taken), kind, more) = DigestOf(of, kind, taken \o more)
  BY AbsorbFields
<1>7. after.digest = DigestOf(body.rev, body.what, rows)
  BY <1>1, <1>5, <1>6 DEF more, of, kind
<1>8. Finish(DigestOf(body.rev, body.what, rows)) = <<body.rev, rows>>
  BY DEF Finish, DigestOf
<1>9. QED BY <1>1, <1>3, <1>7, <1>8 DEF taken, after

(* ... and while the revision names its tables it brings the walk on.      *)
LEMMA TakenOnItsWay ==
  ASSUME WalkInv, NEW past, NEW m,
         walk.kind # 0, walk.rev \in {0, m.body.rev}, OnItsWay(past, m.body.rev),
         m.to = "client", m.body.outcome = "Ok", m.body.rows \in Seq(Row),
         m.body.next \in Nat, m.body.rev \in 1 .. rev,
         past[m.body.rev] \in [Kinds -> Tables], PageOfPast(past, m)
  PROVE  (walk.rows \o m.body.rows) \o StillToCome(past[m.body.rev][walk.kind], m.body.next)
           = RowsUpTo(past[m.body.rev])[walk.kind]
<1> DEFINE tabs  == past[m.body.rev]
           table == tabs[walk.kind]
           taken == walk.rows
           more  == m.body.rows
           rest  == StillToCome(table, m.body.next)
<1>1. walk.kind \in Kinds
  BY WalkFacts DEF WalkInv, Kinds
<1>2. table \in Tables
  BY <1>1
<1>3. taken \in Seq(Row) /\ more \in Seq(Row)
  BY DEF WalkInv
<1>4. rest \in Seq(Row)
  <2>1. <<>> \in Seq(Row)
    OBVIOUS
  <2> HIDE DEF table
  <2>2. RowsFrom(table, m.body.next) \in Seq(Row)
    BY <1>2, RowsListed
  <2>3. QED BY <2>1, <2>2 DEF StillToCome
<1>5. taken \o RowsFrom(table, walk.from) = RowsUpTo(tabs)[walk.kind]
  BY DEF OnItsWay
<1>6. more \o rest = RowsFrom(table, walk.from)
  BY DEF PageOfPast
<1> HIDE DEF taken, more, rest
<1>7. (taken \o more) \o rest = taken \o (more \o rest)
  BY <1>3, <1>4, ConcatAssociative
<1>8. QED BY <1>5, <1>6, <1>7 DEF taken, more, rest

(* What a page that is taken brings: the walk is as long as its digest, and *)
(* at the end what the digests are compared for is the rows themselves.    *)
LEMMA PageArrives ==
  ASSUME InventoryInv, NEW m \in wire, m.to = "client", ~Torn(m.body)
  PROVE  LET after == Taken(m.body)
             rows  == walk.rows \o m.body.rows
         IN  /\ Answered(m) /\ m.body.outcome = "Ok" /\ walk.rev \in {0, m.body.rev}
             /\ after.kind = IF m.body.next = 0 THEN walk.kind + 1 ELSE walk.kind
             /\ after.rev = m.body.rev /\ after.from = m.body.next
             /\ after.rows = rows /\ rows \in Seq(Row)
             /\ after.digest = DigestOf(m.body.rev, m.body.what, rows)
             /\ Finish(after.digest) = <<m.body.rev, rows>>
             /\ after.kind > LastKind =>
                  /\ m.body.next = 0 /\ walk.kind = LastKind
                  /\ m.body.digest = <<m.body.rev, m.stood>>
             /\ \A past \in Pasts : Past(past) =>
                  rows \o StillToCome(past[m.body.rev][walk.kind], m.body.next)
                    = RowsUpTo(past[m.body.rev])[walk.kind]
<1> DEFINE after == Taken(m.body)
           rows  == walk.rows \o m.body.rows
<1>1. WalkInv /\ WireInv
  BY DEF InventoryInv
<1>2. Answered(m) /\ walk.kind # 0
  BY <1>1 DEF WireInv, Asked
<1>3. /\ m.body.rows \in Seq(Row) /\ m.body.next \in Nat /\ m.body.rev \in 1 .. rev
      /\ m.body.what = walk.kind
  BY <1>2 DEF Answered
<1>4. m.body.outcome = "Ok" /\ walk.rev \in {0, m.body.rev}
  BY DEF Torn
<1>5. /\ after.kind = IF m.body.next = 0 THEN walk.kind + 1 ELSE walk.kind
      /\ after.rev = m.body.rev /\ after.from = m.body.next
      /\ after.rows = rows /\ rows \in Seq(Row)
      /\ after.digest = DigestOf(m.body.rev, m.body.what, rows)
      /\ Finish(after.digest) = <<m.body.rev, rows>>
  BY <1>1, <1>3, <1>4, TakenFields
<1> HIDE DEF after, rows
<1>6. after.kind > LastKind =>
        /\ m.body.next = 0 /\ walk.kind = LastKind
        /\ m.body.digest = <<m.body.rev, m.stood>>
  <2>1. walk.kind \in 0 .. LastKind /\ LastKind \in Nat
    BY <1>1, WalkFacts DEF WalkInv
  <2>2. after.kind > LastKind => m.body.next = 0 /\ walk.kind = LastKind
    BY <1>5, <2>1
  <2>3. QED BY <1>2, <1>4, <2>2 DEF Answered
<1>7. ASSUME NEW past \in Pasts, Past(past)
      PROVE  rows \o StillToCome(past[m.body.rev][walk.kind], m.body.next)
               = RowsUpTo(past[m.body.rev])[walk.kind]
  <2>1. OnItsWay(past, m.body.rev) /\ PageOfPast(past, m)
    BY <1>3, <1>7 DEF Past
  <2>2. past[m.body.rev] \in [Kinds -> Tables]
    BY <1>3 DEF Pasts
  <2>3. QED BY <1>1, <1>2, <1>3, <1>4, <2>1, <2>2, TakenOnItsWay DEF rows
<1>8. QED BY <1>2, <1>4, <1>5, <1>6, <1>7 DEF after, rows

(* The outcomes of Receive.                                                *)
WalkRefused(m) == Torn(m.body) /\ walk' = Start /\ cache' = cache /\ fault' = fault
Further(m) ==
  /\ ~Torn(m.body) /\ Taken(m.body).kind <= LastKind
  /\ walk' = Taken(m.body) /\ cache' = cache /\ fault' = fault
Ended(m) ==
  LET after == Taken(m.body)
      whole == Finish(after.digest) = m.body.digest
  IN  /\ ~Torn(m.body) /\ after.kind > LastKind
      /\ walk'  = IF whole THEN NotWalking ELSE Start
      /\ cache' = IF whole THEN {[rows |-> after.rows, digest |-> Finish(after.digest)]}
                  ELSE {}
      /\ fault' = (fault \/ ~whole)

LEMMA ReceiveCases ==
  ASSUME Receive
  PROVE  /\ rev' = rev /\ unbumped' = unbumped /\ tables' = tables /\ wire' = {}
         /\ \E m \in wire : m.to = "client" /\ (WalkRefused(m) \/ Further(m) \/ Ended(m))
<1>1. PICK m \in wire :
        /\ m.to = "client"
        /\ LET after == Taken(m.body)
               whole == Finish(after.digest) = m.body.digest
           IN  \/ /\ Torn(m.body)
                  /\ walk' = Start
                  /\ UNCHANGED <<cache, fault>>
               \/ /\ ~Torn(m.body) /\ InOrder(walk.digest, m.body.what)
                  /\ after.kind <= LastKind
                  /\ walk' = after
                  /\ UNCHANGED <<cache, fault>>
               \/ /\ ~Torn(m.body) /\ InOrder(walk.digest, m.body.what)
                  /\ after.kind > LastKind
                  /\ walk'  = IF whole THEN NotWalking ELSE Start
                  /\ cache' = IF whole THEN {[rows |-> after.rows,
                                              digest |-> Finish(after.digest)]}
                              ELSE {}
                  /\ fault' = (fault \/ ~whole)
  BY DEF Receive
<1>2. WalkRefused(m) \/ Further(m) \/ Ended(m)
  BY <1>1, Zenon DEF WalkRefused, Further, Ended
<1>3. QED BY <1>1, <1>2 DEF Receive

(* While every edit moved the revision, a walk that ends is whole.         *)
LEMMA EndsWhole ==
  ASSUME InventoryInv, NEW m \in wire, m.to = "client", Ended(m),
         NEW past \in Pasts, Past(past)
  PROVE  /\ m.body.rev \in 1 .. rev
         /\ Finish(Taken(m.body).digest) = m.body.digest
         /\ m.body.digest = <<m.body.rev, RowsUpTo(past[m.body.rev])[LastKind]>>
<1> DEFINE rows == walk.rows \o m.body.rows
<1>1. ~Torn(m.body) /\ Taken(m.body).kind > LastKind
  BY DEF Ended
<1>2. /\ Answered(m) /\ m.body.outcome = "Ok" /\ rows \in Seq(Row)
      /\ Finish(Taken(m.body).digest) = <<m.body.rev, rows>>
      /\ m.body.next = 0 /\ walk.kind = LastKind
      /\ m.body.digest = <<m.body.rev, m.stood>>
      /\ rows \o StillToCome(past[m.body.rev][walk.kind], m.body.next)
           = RowsUpTo(past[m.body.rev])[walk.kind]
  BY <1>1, PageArrives
<1>3. m.stood = RowsUpTo(past[m.body.rev])[LastKind]
  BY <1>2 DEF Past, PageOfPast
<1> HIDE DEF rows
<1>4. rows \o <<>> = RowsUpTo(past[m.body.rev])[LastKind]
  BY <1>2 DEF StillToCome
<1>5. rows \o <<>> = rows
  BY <1>2, ConcatEmptySeq
<1>6. m.body.rev \in 1 .. rev
  BY <1>2 DEF Answered
<1>7. QED BY <1>2, <1>3, <1>4, <1>5, <1>6

(* A walk that goes on stays on its way at its revision.                   *)
LEMMA FurtherOnItsWay ==
  ASSUME InventoryInv, NEW m \in wire, m.to = "client", Further(m), rev' = rev,
         NEW past \in Pasts, Past(past), NEW r \in 1 .. rev
  PROVE  OnItsWay(past, r)'
<1> DEFINE rows == walk.rows \o m.body.rows
           tabs == past[m.body.rev]
           k    == walk.kind
<1>1. ~Torn(m.body) /\ Taken(m.body).kind <= LastKind /\ walk' = Taken(m.body)
  BY DEF Further
<1>2. /\ Answered(m) /\ rows \in Seq(Row)
      /\ walk'.kind = IF m.body.next = 0 THEN k + 1 ELSE k
      /\ walk'.rev = m.body.rev /\ walk'.from = m.body.next /\ walk'.rows = rows
      /\ rows \o StillToCome(tabs[k], m.body.next) = RowsUpTo(tabs)[k]
  BY <1>1, PageArrives
<1>3. /\ m.body.rev \in 1 .. rev /\ m.body.next \in Nat
      /\ k \in 0 .. LastKind /\ k # 0 /\ LastKind \in Nat
  BY <1>2, WalkFacts DEF Answered, InventoryInv, WalkInv, WireInv
<1>4. tabs \in [Kinds -> Tables]
  BY <1>3 DEF Pasts
<1>5. CASE r # m.body.rev
  <2>1. walk'.rev # r /\ walk'.rev # 0
    BY <1>2, <1>3, <1>5
  <2>2. QED BY <2>1 DEF OnItsWay
<1>6. CASE r = m.body.rev /\ m.body.next # 0
  <2> HIDE DEF rows, k
  <2>1. rows \o RowsFrom(tabs[k], m.body.next) = RowsUpTo(tabs)[k]
    BY <1>2, <1>6 DEF StillToCome
  <2>2. QED BY <1>2, <1>6, <2>1 DEF OnItsWay
<1>7. CASE r = m.body.rev /\ m.body.next = 0
  <2>1. k + 1 \in Kinds /\ (k + 1) - 1 = k
    BY <1>1, <1>2, <1>3, <1>7 DEF Kinds
  <2> HIDE DEF rows, k, tabs
  <2>2. rows = RowsUpTo(tabs)[k]
    <3>1. rows \o <<>> = RowsUpTo(tabs)[k]
      BY <1>2, <1>7 DEF StillToCome
    <3>2. QED BY <1>2, <3>1, ConcatEmptySeq
  <2>3. RowsUpTo(tabs)[k + 1] = RowsUpTo(tabs)[k] \o RowsFrom(tabs[k + 1], 1)
    BY <1>4, <2>1, KindByKind
  <2>4. RowsFrom(tabs[k + 1], 0) = RowsFrom(tabs[k + 1], 1)
    <3>1. tabs[k + 1] \in Tables
      BY <1>4, <2>1
    <3>2. QED BY <3>1, FromZero
  <2>5. rows \o RowsFrom(tabs[k + 1], 0) = RowsUpTo(tabs)[k + 1]
    BY <2>2, <2>3, <2>4
  <2>6. QED BY <1>2, <1>7, <2>5 DEF OnItsWay, tabs
<1>8. QED BY <1>5, <1>6, <1>7

LEMMA StartsWalking == NotWalking # Start
<1>1. NotWalking.kind = 0 /\ Start.kind = 1
  BY DEF NotWalking, Start
<1>2. QED BY <1>1

LEMMA ReceiveInventory ==
  ASSUME InventoryInv, Receive
  PROVE  InventoryInv'
<1>1. /\ WalkInv /\ WireInv /\ FaultInv
  BY DEF InventoryInv
<1>2. /\ rev' = rev /\ unbumped' = unbumped /\ tables' = tables /\ wire' = {}
  BY ReceiveCases
<1>3. PICK m \in wire : m.to = "client" /\ (WalkRefused(m) \/ Further(m) \/ Ended(m))
  BY ReceiveCases
<1>4. cache = {}
  BY <1>1 DEF WalkInv, WireInv
<1>5. WireInv'
  BY <1>2 DEF WireInv
<1>6. WalkInv'
  <2>1. CASE WalkRefused(m)
    <3>1. walk' = Start /\ cache' = {}
      BY <1>4, <2>1 DEF WalkRefused
    <3>2. QED BY <1>1, <1>2, <3>1, Restarted
  <2>2. CASE Ended(m)
    <3>1. walk' \in {NotWalking, Start} /\ (walk' = Start => cache' = {})
      <4>1. NotWalking # Start
        BY StartsWalking
      <4>2. QED BY <2>2, <4>1 DEF Ended
    <3>2. QED BY <1>1, <1>2, <3>1, Restarted
  <2>3. CASE Further(m)
    <3> DEFINE rows == walk.rows \o m.body.rows
    <3>1. /\ ~Torn(m.body) /\ Taken(m.body).kind <= LastKind
          /\ walk' = Taken(m.body) /\ cache' = {}
      BY <1>4, <2>3 DEF Further
    <3>2. /\ Answered(m) /\ rows \in Seq(Row)
          /\ walk'.kind = IF m.body.next = 0 THEN walk.kind + 1 ELSE walk.kind
          /\ walk'.rev = m.body.rev /\ walk'.from = m.body.next /\ walk'.rows = rows
          /\ walk'.digest = DigestOf(m.body.rev, m.body.what, rows)
      BY <1>3, <3>1, PageArrives
    <3>3. walk'.kind \in 0 .. LastKind
      BY <1>1, <3>1, <3>2 DEF WalkInv
    <3>4. m.body.rev \in 1 .. rev /\ m.body.rev # 0 /\ m.body.next \in Nat
      BY <1>1, <3>2 DEF Answered, WalkInv
    <3>5. walk'.digest = DigestOf(walk'.digest.rev, walk'.digest.last, walk'.rows)
      BY <3>2 DEF DigestOf
    <3>6. walk'.digest.rev = walk'.rev
      BY <3>2 DEF DigestOf
    <3> HIDE DEF rows
    <3>7. QED BY <1>1, <1>2, <3>1, <3>2, <3>3, <3>4, <3>5, <3>6 DEF WalkInv
  <2>4. QED BY <1>3, <2>1, <2>2, <2>3
<1>7. ASSUME unbumped = 0 PROVE ~fault' /\ \E past \in Pasts' : Past(past)'
  <2>1. PICK past \in Pasts : Past(past)
    BY <1>1, <1>7 DEF FaultInv
  <2>2. ~fault /\ past[rev] = tables
    BY <1>1, <1>7, <2>1 DEF FaultInv, Past
  <2>3. ~fault'
    <3>1. CASE WalkRefused(m) \/ Further(m)
      BY <2>2, <3>1 DEF WalkRefused, Further
    <3>2. CASE Ended(m)
      <4>1. Finish(Taken(m.body).digest) = m.body.digest
        BY <1>3, <2>1, <3>2, EndsWhole
      <4>2. QED BY <2>2, <3>2, <4>1 DEF Ended
    <3>3. QED BY <1>3, <3>1, <3>2
  <2>4. \A r \in 1 .. rev : OnItsWay(past, r)'
    <3>1. CASE WalkRefused(m)
      <4>1. walk' = Start /\ cache' = {}
        BY <1>4, <3>1 DEF WalkRefused
      <4>2. QED BY <1>1, <1>2, <2>1, <4>1, Restarted
    <3>2. CASE Ended(m)
      <4>1. walk' = NotWalking
        BY <1>3, <2>1, <3>2, EndsWhole DEF Ended
      <4>2. NotWalking # Start
        BY StartsWalking
      <4>3. QED BY <1>1, <1>2, <2>1, <4>1, <4>2, Restarted
    <3>3. CASE Further(m)
      BY <1>2, <1>3, <2>1, <3>3, FurtherOnItsWay
    <3>4. QED BY <1>3, <3>1, <3>2, <3>3
  <2>5. \A c \in cache' : CacheOfPast(past, c)'
    <3>1. CASE WalkRefused(m) \/ Further(m)
      <4>1. cache' = {}
        BY <1>4, <3>1 DEF WalkRefused, Further
      <4>2. QED BY <4>1
    <3>2. CASE Ended(m)
      <4>1. PICK digest :
              /\ m.body.rev \in 1 .. rev
              /\ digest = <<m.body.rev, RowsUpTo(past[m.body.rev])[LastKind]>>
              /\ Finish(Taken(m.body).digest) = digest
              /\ Finish(Taken(m.body).digest) = m.body.digest
        BY <1>3, <2>1, <3>2, EndsWhole
      <4>2. cache' = {[rows |-> Taken(m.body).rows, digest |-> digest]}
        BY <3>2, <4>1 DEF Ended
      <4>3. ASSUME NEW c \in cache' PROVE CacheOfPast(past, c)'
        <5>1. c.digest = digest
          BY <4>2
        <5>2. digest[1] = m.body.rev
          BY <4>1
        <5>3. QED BY <1>2, <4>1, <5>1, <5>2 DEF CacheOfPast
      <4>4. QED BY <4>3
    <3>3. QED BY <1>3, <3>1, <3>2
  <2>6. Past(past)'
    BY <1>2, <2>2, <2>4, <2>5 DEF Past
  <2>7. past \in Pasts'
    BY <1>2, <2>1 DEF Pasts
  <2>8. QED BY <2>3, <2>6, <2>7
<1>8. FaultInv'
  BY <1>2, <1>7 DEF FaultInv
<1>9. QED BY <1>5, <1>6, <1>8 DEF InventoryInv

LEMMA NextInventory ==
  ASSUME InventoryInv, [WalkNext]_walkVars
  PROVE  InventoryInv'
<1>1. CASE UNCHANGED walkVars
  <2>1. /\ rev' = rev /\ tables' = tables /\ unbumped' = unbumped /\ walk' = walk
        /\ wire' = wire /\ cache' = cache /\ fault' = fault
    BY <1>1 DEF walkVars
  <2>2. WalkInv' /\ WireInv'
    BY <2>1 DEF InventoryInv, WalkInv, WireInv, Asked, Answered
  <2>3. \A past : Past(past)' <=> Past(past)
    BY <2>1 DEF Past, OnItsWay, PageOfPast, CacheOfPast
  <2>4. Pasts' = Pasts
    BY <2>1 DEF Pasts
  <2>5. FaultInv'
    BY <2>1, <2>3, <2>4 DEF InventoryInv, FaultInv
  <2>6. QED BY <2>2, <2>5 DEF InventoryInv
<1>2. CASE WalkNext
  BY <1>2, EditInventory, UnbumpedInventory, AnswerInventory, HelloInventory,
     AskInventory, LoseInventory, ReceiveInventory DEF WalkNext
<1>3. QED BY <1>1, <1>2

(* The invariant of the walk holds.                                        *)
LEMMA InventoryHolds == WalkSpec => []InventoryInv
<1>1. InventoryInv /\ [WalkNext]_walkVars => InventoryInv'
  BY NextInventory
<1>2. QED BY InitInventory, <1>1, PTL DEF WalkSpec

(* A walk that completes cached one state of the controller, and a         *)
(* controller that moves its revision with every edit is never found at    *)
(* fault (TopoDigest::absorb, InventoryHeader::decode, Page::push).        *)
THEOREM CompletedWholeHolds == WalkSpec => CompletedWhole
<1> DEFINE Whole == /\ Receive => \A c \in cache', m \in wire : c.rows = m.stood
                    /\ fault' => unbumped' > 0
<1>1. ASSUME InventoryInv, InventoryInv', WalkNext
      PROVE  Whole
  <2>1. ASSUME Receive, NEW c \in cache', NEW n \in wire PROVE c.rows = n.stood
    <3>1. PICK m \in wire : m.to = "client" /\ (WalkRefused(m) \/ Further(m) \/ Ended(m))
      BY <2>1, ReceiveCases
    <3>2. n = m /\ cache = {}
      BY <1>1 DEF InventoryInv, WalkInv, WireInv
    <3>3. Ended(m) /\ ~Torn(m.body) /\ Taken(m.body).kind > LastKind
      <4>1. cache' # cache
        BY <3>2
      <4>2. QED BY <3>1, <4>1 DEF WalkRefused, Further, Ended
    <3> DEFINE rows == walk.rows \o m.body.rows
    <3>4. /\ Taken(m.body).rows = rows
          /\ Finish(Taken(m.body).digest) = <<m.body.rev, rows>>
          /\ m.body.digest = <<m.body.rev, m.stood>>
      BY <1>1, <3>1, <3>3, PageArrives
    <3>5. /\ Finish(Taken(m.body).digest) = m.body.digest
          /\ c.rows = Taken(m.body).rows
      BY <3>3 DEF Ended
    <3> HIDE DEF rows
    <3>6. rows = m.stood
      <4>1. <<m.body.rev, rows>> = <<m.body.rev, m.stood>>
        BY <3>4, <3>5
      <4>2. QED BY <4>1
    <3>7. QED BY <3>2, <3>4, <3>5, <3>6
  <2>2. ASSUME fault' PROVE unbumped' > 0
    BY <1>1, <2>2 DEF InventoryInv, WalkInv, FaultInv
  <2>3. QED BY <2>1, <2>2
<1>2. InventoryInv /\ InventoryInv' /\ [WalkNext]_walkVars => [Whole]_walkVars
  BY <1>1
<1> HIDE DEF Whole
<1>3. WalkSpec => [][Whole]_walkVars
  BY <1>2, InventoryHolds, PTL DEF WalkSpec
<1>4. QED BY <1>3 DEF Whole, CompletedWhole
=============================================================================
