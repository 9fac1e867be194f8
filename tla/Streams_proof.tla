---------------------------- MODULE Streams_proof ----------------------------
(***************************************************************************)
(* For a log and a ring of any extent: a catch-up over the log receives    *)
(* every record once or is told of it, a subscription takes each record    *)
(* once and in order whatever the comms processor does, and over one that  *)
(* only carries nothing is lost in silence. For pages of any caps, a walk  *)
(* of the hot plane is given every row once.                               *)
(***************************************************************************)
EXTENDS MCStreams, WellFoundedInduction, FiniteSetTheorems, SequenceTheorems, TLAPS

(* A set of numbers that is not empty has a least one, and below a bound a *)
(* greatest one.                                                           *)
LEMMA LeastMember ==
  ASSUME NEW T \in SUBSET Nat, T # {}
  PROVE  \E m \in T : \A n \in T : m <= n
<1>1. PICK m \in T : \A n \in T : <<n, m>> \notin OpToRel(<, Nat)
  BY NatLessThanWellFounded, WFMin
<1>2. \A n \in T : ~(n < m)
  BY <1>1 DEF OpToRel
<1>3. QED BY <1>2

LEMMA MinMember ==
  ASSUME NEW T \in SUBSET Nat, T # {}
  PROVE  Min(T) \in T /\ \A n \in T : Min(T) <= n
<1>1. \E m \in T : \A n \in T : m <= n
  BY LeastMember
<1>2. QED BY <1>1 DEF Min

LEMMA MaxMember ==
  ASSUME NEW bound \in Nat, NEW T \in SUBSET (0 .. bound), T # {}
  PROVE  Max(T) \in T /\ \A n \in T : n <= Max(T)
<1> DEFINE under == {bound - n : n \in T}
<1>1. under \in SUBSET Nat /\ under # {}
  <2>1. \A n \in T : bound - n \in Nat
    OBVIOUS
  <2>2. QED BY <2>1
<1>2. PICK k \in under : \A n \in under : k <= n
  BY <1>1, LeastMember
<1>3. PICK m \in T : k = bound - m
  BY <1>2
<1>4. \A n \in T : bound - n \in under
  OBVIOUS
<1>5. \A n \in T : n <= m
  BY <1>2, <1>3, <1>4
<1>6. \E x \in T : \A y \in T : x >= y
  BY <1>5
<1>7. Max(T) \in T /\ \A y \in T : Max(T) >= y
  BY <1>6 DEF Max
<1>8. QED BY <1>7

(* A set of numbers that holds 0 and the successor of each of its members, *)
(* up to a bound, holds every number up to it.                             *)
LEMMA EachUpTo ==
  ASSUME NEW bound \in Nat, NEW T, 0 \in T,
         \A n \in 0 .. bound - 1 : n \in T => n + 1 \in T
  PROVE  \A n \in 0 .. bound : n \in T
<1> DEFINE missing == {n \in 0 .. bound : n \notin T}
<1>1. SUFFICES ASSUME missing # {} PROVE FALSE
  OBVIOUS
<1>2. missing \in SUBSET Nat
  OBVIOUS
<1>3. PICK m \in missing : \A n \in missing : m <= n
  BY <1>1, <1>2, LeastMember
<1>4. m # 0 /\ m - 1 \in 0 .. bound - 1 /\ m - 1 \in T
  BY <1>3
<1>5. QED BY <1>4
-----------------------------------------------------------------------------
(* The ring holds the newest of what was written.                          *)
RingSound(ring_, all) ==
  /\ ring_ \subseteq all /\ all \subseteq Seqs
  /\ all # {} => ring_ # {}
  /\ \A s \in all \ ring_, l \in ring_ : s < l

OldestOf(ring_) == IF ring_ = {} THEN 0 ELSE Min(ring_)
NewestOf(ring_) == IF ring_ = {} THEN 0 ELSE Max(ring_)

LEMMA RingFacts ==
  ASSUME NEW R, NEW W, RingSound(R, W)
  PROVE  /\ OldestOf(R) \in Nat /\ NewestOf(R) \in 0 .. LastSeq
         /\ OldestOf(R) <= NewestOf(R)
         /\ \A s \in W : s <= NewestOf(R) /\ (s >= OldestOf(R) <=> s \in R)
         /\ R # {} => OldestOf(R) \in R /\ NewestOf(R) \in R
<1>1. CASE R = {}
  BY <1>1, RingAssumption DEF RingSound, OldestOf, NewestOf, Seqs
<1>2. CASE R # {}
  <2>1. R \in SUBSET (0 .. LastSeq) /\ R \in SUBSET Nat /\ LastSeq \in Nat
    BY RingAssumption DEF RingSound, Seqs
  <2>2. /\ Min(R) \in R /\ \A n \in R : Min(R) <= n
        /\ Max(R) \in R /\ \A n \in R : n <= Max(R)
    BY <1>2, <2>1, MinMember, MaxMember
  <2>3. \A s \in W : s \in Nat
    BY RingAssumption DEF RingSound, Seqs
  <2>4. \A s \in W : s <= Max(R) /\ (s >= Min(R) <=> s \in R)
    <3>1. ASSUME NEW s \in W, s \notin R PROVE s <= Max(R) /\ ~(s >= Min(R))
      <4>1. s \in Nat /\ Min(R) \in Nat /\ Max(R) \in Nat
        BY <2>1, <2>2, <2>3
      <4>2. s < Min(R) /\ s < Max(R)
        BY <2>2, <3>1 DEF RingSound
      <4>3. QED BY <4>1, <4>2
    <3>2. QED BY <2>2, <3>1
  <2>6. OldestOf(R) = Min(R) /\ NewestOf(R) = Max(R)
    BY <1>2 DEF OldestOf, NewestOf
  <2>7. \A x \in R : x \in 0 .. LastSeq
    BY <2>1
  <2>8. QED BY <1>2, <2>2, <2>4, <2>6, <2>7
<1>3. QED BY <1>1, <1>2

(* A record written is past every record before it, and at most the oldest *)
(* gives way to it.                                                        *)
LEMMA RingWrite ==
  ASSUME NEW R, NEW W, RingSound(R, W), NEW seq \in Seqs, NewestOf(R) < seq,
         NEW out \in {{}, {OldestOf(R)}}
  PROVE  /\ RingSound((R \ out) \cup {seq}, W \cup {seq})
         /\ \A s \in W : s < seq
         /\ NewestOf((R \ out) \cup {seq}) = seq
<1> DEFINE Q == (R \ out) \cup {seq}
<1>1. /\ OldestOf(R) \in Nat /\ NewestOf(R) \in 0 .. LastSeq
      /\ \A s \in W : s <= NewestOf(R) /\ (s >= OldestOf(R) <=> s \in R)
  BY RingFacts
<1>2. R \subseteq W /\ W \subseteq Seqs /\ \A s \in Seqs : s \in Nat
  BY DEF RingSound, Seqs
<1>3. \A s \in W : s < seq
  BY <1>1, <1>2
<1>4. \A s \in (W \cup {seq}) \ Q, l \in Q : s < l
  <2>1. ASSUME NEW s \in W, s \notin Q, NEW l \in R, l \notin out PROVE s < l
    BY <1>1, <1>2, <2>1 DEF RingSound
  <2>2. QED BY <1>3, <2>1
<1>5. RingSound(Q, W \cup {seq})
  BY <1>2, <1>4 DEF RingSound
<1>6. NewestOf(Q) = seq
  <2>1. /\ NewestOf(Q) \in Q /\ \A s \in W \cup {seq} : s <= NewestOf(Q)
    BY <1>5, RingFacts
  <2>2. QED BY <1>2, <1>3, <2>1
<1>7. QED BY <1>3, <1>5, <1>6
-----------------------------------------------------------------------------
(* The page a controller builds.  FoldLeft is a recursion over sets of     *)
(* places; these are its values, one per prefix of the order.              *)
FoldStep(base, order, f, s) ==
  IF s = {} THEN base ELSE Push(f[s \ {Max(s)}], order[Max(s)])
Fold(base, order, k, f) ==
  f = [s \in SUBSET (1 .. k) |-> FoldStep(base, order, f, s)]

LEMMA FoldAt ==
  ASSUME NEW base, NEW order, NEW k, NEW f, Fold(base, order, k, f),
         NEW s \in SUBSET (1 .. k)
  PROVE  f[s] = FoldStep(base, order, f, s)
BY DEF Fold

LEMMA FoldDefined ==
  ASSUME NEW base, NEW order, NEW k \in Nat
  PROVE  \E f : Fold(base, order, k, f)
<1> DEFINE D == {n \in 0 .. k : \E f : Fold(base, order, n, f)}
<1>1. 0 \in D
  <2> DEFINE f == [s \in SUBSET (1 .. 0) |-> base]
  <2>1. f = [s \in SUBSET (1 .. 0) |->
               FoldStep(base, order, f, s)]
    <3>1. \A s \in SUBSET (1 .. 0) : s = {}
      OBVIOUS
    <3>2. QED BY <3>1 DEF FoldStep
  <2> HIDE DEF f
  <2>2. Fold(base, order, 0, f)
    BY <2>1 DEF Fold
  <2>3. QED BY <2>2
<1>2. ASSUME NEW n \in 0 .. k - 1, n \in D PROVE n + 1 \in D
  <2>1. PICK f : Fold(base, order, n, f)
    BY <1>2
  <2> DEFINE g == [s \in SUBSET (1 .. n + 1) |->
                     IF n + 1 \in s THEN Push(f[s \ {n + 1}], order[n + 1]) ELSE f[s]]
  <2>2. f[{}] = base
    <3>1. {} \in SUBSET (1 .. n)
      OBVIOUS
    <3>2. QED BY <2>1, <3>1, FoldAt DEF FoldStep
  <2>3. ASSUME NEW s \in SUBSET (1 .. n + 1)
        PROVE  g[s] = FoldStep(base, order, g, s)
    <3>1. CASE s = {}
      BY <2>2, <3>1 DEF FoldStep
    <3>2. CASE n + 1 \in s
      <4>1. Max(s) = n + 1
        <5>1. s \in SUBSET (0 .. n + 1) /\ n + 1 \in Nat /\ s # {}
          BY <3>2
        <5>2. Max(s) \in s /\ \A m \in s : m <= Max(s)
          BY <5>1, MaxMember
        <5>3. Max(s) \in 0 .. n + 1 /\ n + 1 <= Max(s)
          BY <3>2, <5>1, <5>2
        <5>4. QED BY <5>3
      <4>2. s \ {n + 1} \in SUBSET (1 .. n + 1) /\ n + 1 \notin s \ {n + 1}
        OBVIOUS
      <4>3. g[s \ {n + 1}] = f[s \ {n + 1}]
        BY <4>2
      <4>4. g[s] = Push(f[s \ {n + 1}], order[n + 1])
        BY <3>2
      <4> HIDE DEF g
      <4>5. QED BY <3>2, <4>1, <4>3, <4>4 DEF FoldStep
    <3>3. CASE s # {} /\ n + 1 \notin s
      <4>1. s \in SUBSET (1 .. n)
        <5>1. \A m \in 1 .. n + 1 : m # n + 1 => m \in 1 .. n
          OBVIOUS
        <5> HIDE DEF g
        <5>2. \A m \in s : m \in 1 .. n
          BY <3>3, <5>1
        <5>3. QED BY <5>2
      <4>2. f[s] = Push(f[s \ {Max(s)}], order[Max(s)])
        <5> HIDE DEF g
        <5>1. n \in Nat
          OBVIOUS
        <5>2. f[s] = FoldStep(base, order, f, s)
          BY <2>1, <4>1, <5>1, FoldAt, Zenon
        <5>3. QED BY <3>3, <5>2, Zenon DEF FoldStep
      <4>3. /\ s \ {Max(s)} \in SUBSET (1 .. n + 1)
            /\ n + 1 \notin s \ {Max(s)}
        BY <3>3
      <4>4. g[s] = f[s] /\ g[s \ {Max(s)}] = f[s \ {Max(s)}]
        BY <3>3, <4>3
      <4> HIDE DEF g
      <4>5. QED BY <3>3, <4>2, <4>4 DEF FoldStep
    <3>4. QED BY <3>1, <3>2, <3>3
  <2>4. Fold(base, order, n + 1, g)
    <3>1. g = [s \in SUBSET (1 .. n + 1) |-> g[s]]
      OBVIOUS
    <3> HIDE DEF g
    <3>2. QED BY <2>3, <3>1 DEF Fold
  <2> HIDE DEF g
  <2>5. QED BY <2>4
<1> HIDE DEF D
<1>3. \A n \in 0 .. k : n \in D
  BY <1>1, <1>2, EachUpTo
<1>4. QED BY <1>3 DEF D

Pushed(base, order) == FoldLeft(Push, base, order)

LEMMA FoldSteps ==
  ASSUME NEW base, NEW order, NEW k \in Nat, DOMAIN order = 1 .. k
  PROVE  \E h : /\ h[0] = base /\ h[k] = Pushed(base, order)
                /\ \A i \in 1 .. k : h[i] = Push(h[i - 1], order[i])
<1> DEFINE f == CHOOSE g : Fold(base, order, k, g)
           h == [i \in 0 .. k |-> f[1 .. i]]
<1>1. Fold(base, order, k, f)
  BY FoldDefined
<1>2. Pushed(base, order) = f[1 .. k]
  BY DEF Pushed, FoldLeft, MapThenFoldSet, Fold, FoldStep
<1> HIDE DEF f
<1>3. f[1 .. 0] = base
  <2>1. 1 .. 0 = {} /\ {} \in SUBSET (1 .. k)
    OBVIOUS
  <2>2. QED BY <1>1, <2>1, FoldAt DEF FoldStep
<1>4. ASSUME NEW i \in 1 .. k PROVE f[1 .. i] = Push(f[1 .. i - 1], order[i])
  <2>1. /\ 1 .. i \in SUBSET (1 .. k) /\ 1 .. i \in SUBSET (0 .. i)
        /\ i \in 1 .. i /\ i \in Nat
    OBVIOUS
  <2>2. Max(1 .. i) = i
    <3>1. 1 .. i # {}
      BY <2>1
    <3>2. Max(1 .. i) \in 1 .. i /\ \A m \in 1 .. i : m <= Max(1 .. i)
      BY <2>1, <3>1, MaxMember
    <3>3. i <= Max(1 .. i)
      BY <2>1, <3>2
    <3>4. QED BY <3>2, <3>3
  <2>3. (1 .. i) \ {i} = 1 .. i - 1
    <3>1. \A m : m \in (1 .. i) \ {i} <=> m \in 1 .. i - 1
      OBVIOUS
    <3>2. QED BY <3>1
  <2>4. 1 .. i # {}
    BY <2>1
  <2> DEFINE s == 1 .. i
  <2>5. f[s] = FoldStep(base, order, f, s)
    <3>1. s \in SUBSET (1 .. k)
      BY <2>1
    <3> HIDE DEF s
    <3>2. QED BY <1>1, <3>1, FoldAt
  <2>6. QED BY <2>2, <2>3, <2>4, <2>5 DEF FoldStep
<1>5. /\ h[0] = base /\ h[k] = Pushed(base, order)
      /\ \A i \in 1 .. k : h[i] = Push(h[i - 1], order[i])
  BY <1>2, <1>3, <1>4
<1>6. QED BY <1>5

(* One push: the page is refused, or carries the record and hands back a   *)
(* position past it.                                                       *)
PageSet == [entries : Seq(Seqs), next : Nat, oldest : Nat, refused : BOOLEAN]

LEMMA PushFacts ==
  ASSUME NEW page \in PageSet, NEW seq \in Seqs
  PROVE  /\ Push(page, seq) \in PageSet /\ Push(page, seq).oldest = page.oldest
         /\ page.refused => Push(page, seq).refused
         /\ ~Push(page, seq).refused =>
              /\ seq # LastSeq
              /\ Push(page, seq).entries = Append(page.entries, seq)
              /\ Push(page, seq).next = IF seq + 1 > page.next THEN seq + 1 ELSE page.next
<1>1. seq \in Nat
  BY DEF Seqs
<1>2. CASE seq = LastSeq \/ Len(page.entries) = PageEntries
  <2>1. Push(page, seq) = [page EXCEPT !.refused = TRUE]
    BY <1>2 DEF Push
  <2>2. QED BY <2>1 DEF PageSet
<1>3. CASE seq # LastSeq /\ Len(page.entries) # PageEntries
  <2>1. Push(page, seq) = [page EXCEPT !.entries = Append(@, seq),
                             !.next = IF seq + 1 > @ THEN seq + 1 ELSE @]
    BY <1>3 DEF Push
  <2>2. Append(page.entries, seq) \in Seq(Seqs)
    BY DEF PageSet
  <2>3. (IF seq + 1 > page.next THEN seq + 1 ELSE page.next) \in Nat
    BY <1>1 DEF PageSet
  <2>4. QED BY <1>3, <2>1, <2>2, <2>3 DEF PageSet
<1>4. QED BY <1>2, <1>3

(* A page carries the records it was built of, and hands back the position *)
(* past the last of them, whatever order they were pushed in.              *)
LEMMA PageFacts ==
  ASSUME NEW resume \in Nat, NEW oldest \in Nat, NEW some \in SUBSET Seqs,
         IsFiniteSet(some), NEW order \in SetToSeqs(some), NEW page,
         page = Pushed(NewPage(resume, oldest), order), ~page.refused
  PROVE  /\ ToSet(page.entries) = some /\ page.oldest = oldest
         /\ page.next \in Nat /\ page.next >= resume
         /\ \A x \in some : x < page.next
         /\ page.next = resume \/ \E x \in some : page.next = x + 1
         /\ LastSeq \notin some
<1> DEFINE k == Cardinality(some)
<1>1. /\ k \in Nat /\ order \in [1 .. k -> some] /\ DOMAIN order = 1 .. k
      /\ \A i, j \in 1 .. k : i # j => order[i] # order[j]
  BY FS_CardinalityType DEF SetToSeqs
<1>2. \A x \in some : \E i \in 1 .. k : order[i] = x
  <2>1. SUFFICES ASSUME NEW x \in some, \A i \in 1 .. k : order[i] # x PROVE FALSE
    OBVIOUS
  <2>2. order \in [1 .. k -> some \ {x}]
    BY <1>1, <2>1
  <2>3. IsFiniteSet(some \ {x}) /\ Cardinality(some \ {x}) = k - 1
    BY FS_RemoveElement
  <2>4. IsFiniteSet(1 .. k) /\ Cardinality(1 .. k) = k
    <3>1. k > 0 \/ k = 0
      BY <1>1
    <3>2. QED BY <1>1, <3>1, FS_Interval
  <2>5. \E i, j \in 1 .. k : i # j /\ order[i] = order[j]
    BY <1>1, <2>2, <2>3, <2>4, FS_PigeonHole
  <2>6. QED BY <1>1, <2>5
<1> HIDE DEF k
<1>3. PICK h : /\ h[0] = NewPage(resume, oldest)
               /\ h[k] = Pushed(NewPage(resume, oldest), order)
               /\ \A i \in 1 .. k : h[i] = Push(h[i - 1], order[i])
  BY <1>1, FoldSteps
<1>4. \A i \in 1 .. k : order[i] \in some /\ order[i] \in Seqs /\ order[i] \in Nat
  <2>1. \A s \in Seqs : s \in Nat
    BY DEF Seqs
  <2>2. \A i \in 1 .. k : order[i] \in some
    BY <1>1
  <2>3. QED BY <2>1, <2>2
<1> DEFINE Carries(i) ==
             /\ h[i].entries = [j \in 1 .. i |-> order[j]]
             /\ h[i].next >= resume
             /\ \A j \in 1 .. i : order[j] < h[i].next /\ order[j] # LastSeq
             /\ h[i].next = resume \/ \E j \in 1 .. i : h[i].next = order[j] + 1
           Good(i) == /\ h[i] \in PageSet /\ h[i].oldest = oldest
                      /\ h[i].refused \/ Carries(i)
           T == {i \in 0 .. k : Good(i)}
<1>5. 0 \in T
  <2>1. NewPage(resume, oldest) \in PageSet
    BY DEF NewPage, PageSet
  <2>2. [j \in 1 .. 0 |-> order[j]] = << >>
    OBVIOUS
  <2>3. Carries(0)
    BY <1>3, <2>2 DEF NewPage
  <2>4. h[0].oldest = oldest
    BY <1>3 DEF NewPage
  <2> HIDE DEF Carries
  <2>5. QED BY <1>1, <1>3, <2>1, <2>3, <2>4
<1>6. ASSUME NEW n \in 0 .. k - 1, n \in T PROVE n + 1 \in T
  <2> DEFINE m == n + 1
             seq == order[m]
  <2>1. m \in 1 .. k /\ m - 1 = n /\ n \in Nat /\ m \in 0 .. k
    BY <1>1
  <2>2. /\ seq \in Seqs /\ seq \in Nat /\ h[m] = Push(h[n], seq)
    BY <1>3, <1>4, <2>1
  <2>3. h[n] \in PageSet /\ h[n].oldest = oldest /\ (h[n].refused \/ Carries(n))
    BY <1>6
  <2> HIDE DEF Carries
  <2>4. /\ h[m] \in PageSet /\ h[m].oldest = h[n].oldest
        /\ h[n].refused => h[m].refused
        /\ ~h[m].refused =>
             /\ seq # LastSeq
             /\ h[m].entries = Append(h[n].entries, seq)
             /\ h[m].next = IF seq + 1 > h[n].next THEN seq + 1 ELSE h[n].next
    <3> DEFINE q == h[n]
    <3>1. q \in PageSet
      BY <2>3
    <3> HIDE DEF q, m, seq
    <3>2. /\ Push(q, seq) \in PageSet /\ Push(q, seq).oldest = q.oldest
          /\ q.refused => Push(q, seq).refused
          /\ ~Push(q, seq).refused =>
               /\ seq # LastSeq
               /\ Push(q, seq).entries = Append(q.entries, seq)
               /\ Push(q, seq).next = IF seq + 1 > q.next THEN seq + 1 ELSE q.next
      BY <2>2, <3>1, PushFacts
    <3>3. h[m] = Push(q, seq)
      BY <2>2 DEF q
    <3>4. QED BY <3>2, <3>3 DEF q
  <2>5. ASSUME ~h[m].refused PROVE Carries(m)
    <3>1. Carries(n)
      BY <2>3, <2>4, <2>5
    <3>2. \A j \in 1 .. m : j \in 1 .. n \/ j = m
      BY <2>1
    <3>3. h[n].next \in Nat /\ \A j \in 1 .. n : order[j] \in Nat
      BY <1>1, <1>4, <2>1, <2>3 DEF PageSet
    <3>4. h[m].entries = [j \in 1 .. m |-> order[j]]
      <4>1. Append([j \in 1 .. n |-> order[j]], seq) = [j \in 1 .. m |-> order[j]]
        BY <2>1
      <4>2. QED BY <2>4, <2>5, <3>1, <4>1 DEF Carries
    <3>5. h[m].next >= resume /\ h[m].next >= h[n].next /\ seq < h[m].next
      BY <2>2, <2>4, <2>5, <3>1, <3>3 DEF Carries
    <3>6. \A j \in 1 .. m : order[j] < h[m].next /\ order[j] # LastSeq
      <4>1. h[m].next \in Nat
        BY <2>4 DEF PageSet
      <4>2. QED BY <2>4, <2>5, <3>1, <3>2, <3>3, <3>5, <4>1 DEF Carries
    <3>7. h[m].next = resume \/ \E j \in 1 .. m : h[m].next = order[j] + 1
      <4>1. \A j \in 1 .. n : j \in 1 .. m
        BY <2>1
      <4>2. m \in 1 .. m
        BY <2>1
      <4>3. QED BY <2>4, <2>5, <3>1, <4>1, <4>2 DEF Carries
    <3>8. QED BY <3>4, <3>5, <3>6, <3>7 DEF Carries
  <2>6. QED BY <2>1, <2>3, <2>4, <2>5
<1> HIDE DEF T
<1>7. \A i \in 0 .. k : i \in T
  BY <1>1, <1>5, <1>6, EachUpTo
<1>8. Good(k) /\ page = h[k]
  BY <1>1, <1>3, <1>7 DEF T
<1>9. Carries(k)
  BY <1>8
<1>10. ToSet(page.entries) = some
  BY <1>1, <1>2, <1>8, <1>9 DEF ToSet
<1>11. QED BY <1>1, <1>2, <1>4, <1>8, <1>9, <1>10 DEF PageSet
-----------------------------------------------------------------------------
(* The catch-up.  A cursor that has moved is at most one past the newest   *)
(* record, so that no record still to be written falls behind it.          *)
WalkInv ==
  /\ RingSound(log, written)
  /\ first \in 0 .. LastSeq /\ cursor \in 0 .. LastSeq /\ ask \in Asks
  /\ first <= cursor /\ (cursor = first \/ cursor <= NewestOf(log) + 1)
  /\ got \subseteq written /\ told \subseteq Nat
  /\ again = {}
  /\ \A seq \in written : first <= seq /\ seq < cursor => seq \in got \/ seq \in told
  /\ \A seq \in got : first <= seq /\ seq < cursor /\ seq \notin told
  /\ \A seq \in told : seq < cursor

LEMMA WalkWrite ==
  ASSUME WalkInv, NEW seq \in Seqs, Write(seq)
  PROVE  WalkInv'
<1>1. /\ log' = (log \ Overwritten) \cup {seq} /\ written' = written \cup {seq}
      /\ seq \in {NewestOf(log) + 1, NewestOf(log) + 2}
      /\ UNCHANGED <<first, ask, cursor, got, again, told>>
  BY DEF Write, Record, Newest, NewestOf
<1>2. Overwritten \in {{}, {OldestOf(log)}}
  BY DEF Overwritten, Oldest, OldestOf
<1>3. /\ NewestOf(log) \in Nat /\ seq \in Nat /\ NewestOf(log) < seq
      /\ cursor \in Nat /\ first \in Nat
  BY <1>1, RingFacts DEF WalkInv, Seqs
<1>4. /\ RingSound(log', written') /\ NewestOf(log') = seq
      /\ \A s \in written : s < seq
  <2> DEFINE out  == Overwritten
             held == (log \ out) \cup {seq}
             all  == written \cup {seq}
  <2>1. RingSound(log, written)
    BY DEF WalkInv
  <2>2. out \in {{}, {OldestOf(log)}}
    BY <1>2
  <2>3. log' = held /\ written' = all
    BY <1>1
  <2> HIDE DEF out
  <2>4. RingSound(held, all) /\ NewestOf(held) = seq /\ \A s \in written : s < seq
    BY <1>3, <2>1, <2>2, RingWrite
  <2> HIDE DEF held, all
  <2>5. QED BY <2>3, <2>4
<1>5. cursor = first \/ cursor <= seq + 1
  BY <1>3 DEF WalkInv
<1>6. \A s \in written' : first <= s /\ s < cursor => s \in got \/ s \in told
  <2>1. ~(first <= seq /\ seq < cursor)
    BY <1>1, <1>3 DEF WalkInv
  <2>2. QED BY <1>1, <2>1 DEF WalkInv
<1>7. QED BY <1>1, <1>4, <1>5, <1>6 DEF WalkInv

(* The records of a page are the oldest past the cursor, without a hole.   *)
LEMMA LowestFacts ==
  ASSUME NEW S \in SUBSET Seqs, NEW n \in Nat
  PROVE  /\ Lowest(S, n) \in SUBSET S /\ IsFiniteSet(Lowest(S, n))
         /\ \A s \in S, t \in Lowest(S, n) : s <= t => s \in Lowest(S, n)
<1>1. IsFiniteSet(S) /\ \A s \in S : s \in Nat
  <2>1. IsFiniteSet(Seqs)
    BY FS_Interval, RingAssumption DEF Seqs
  <2>2. \A s \in Seqs : s \in Nat
    BY DEF Seqs
  <2>3. QED BY <2>1, <2>2, FS_Subset
<1>2. Lowest(S, n) \in SUBSET S
  BY DEF Lowest
<1>3. IsFiniteSet(Lowest(S, n))
  BY <1>1, <1>2, FS_Subset
<1>4. ASSUME NEW s \in S, NEW t \in Lowest(S, n), s <= t PROVE s \in Lowest(S, n)
  <2> DEFINE under(x) == {y \in S : y < x}
  <2>1. under(s) \in SUBSET under(t)
    BY <1>1, <1>2, <1>4
  <2>2. /\ IsFiniteSet(under(t)) /\ IsFiniteSet(under(s))
    BY <1>1, FS_Subset
  <2>3. Cardinality(under(t)) < n
    BY DEF Lowest
  <2>4. Cardinality(under(s)) <= Cardinality(under(t))
    BY <2>1, <2>2, FS_Subset
  <2>5. Cardinality(under(s)) < n
    <3>1. Cardinality(under(s)) \in Nat /\ Cardinality(under(t)) \in Nat
      BY <2>2, FS_CardinalityType
    <3> HIDE DEF under
    <3>2. QED BY <2>3, <2>4, <3>1
  <2>6. QED BY <2>5 DEF Lowest
<1>5. QED BY <1>2, <1>3, <1>4

LEMMA WalkRead ==
  ASSUME WalkInv, NEW n \in Nat, ReadPage(n)
  PROVE  WalkInv'
<1> DEFINE from   == StartAt(cursor)
           oldest == OldestOf(log)
           held   == {seq \in log : seq >= from}
           some   == Lowest(held, n)
<1>1. /\ RingSound(log, written) /\ log \subseteq written
      /\ written \subseteq Seqs /\ \A s \in Seqs : s \in Nat
      /\ cursor \in Nat /\ first \in Nat /\ first <= cursor
      /\ got \subseteq written /\ told \subseteq Nat
  BY DEF WalkInv, RingSound, Seqs
<1>2. /\ oldest \in Nat /\ NewestOf(log) \in Nat /\ oldest <= NewestOf(log)
      /\ NewestOf(log) \in 0 .. LastSeq
      /\ \A s \in written : s <= NewestOf(log) /\ (s >= oldest <=> s \in log)
  BY <1>1, RingFacts
<1>3. from = IF cursor < oldest THEN oldest ELSE cursor
  BY DEF StartAt, Oldest, OldestOf
<1>4. from \in Nat /\ cursor <= from /\ oldest <= from /\ from \in 0 .. LastSeq
  <2> HIDE DEF from, oldest
  <2>1. cursor \in 0 .. LastSeq /\ oldest \in 0 .. LastSeq
    BY <1>2, RingAssumption DEF WalkInv
  <2>2. QED BY <1>1, <1>2, <1>3, <2>1
<1>5. /\ some \in SUBSET held /\ IsFiniteSet(some) /\ some \in SUBSET Seqs
      /\ \A s \in held, t \in some : s <= t => s \in some
  <2>1. held \in SUBSET Seqs
    BY <1>1
  <2> HIDE DEF held
  <2>2. QED BY <2>1, LowestFacts
<1>6. PICK order \in SetToSeqs(some) :
        LET page == Built(cursor, order)
        IN  /\ ~page.refused
            /\ got' = got \cup ToSet(page.entries)
            /\ again' = again \cup (got \cap ToSet(page.entries))
            /\ cursor' = page.next
            /\ told' = told \cup cursor .. page.oldest - 1
  BY DEF ReadPage
<1> DEFINE page == Built(cursor, order)
<1>7. page = Pushed(NewPage(from, oldest), order)
  BY DEF Built, Pushed, Oldest, OldestOf
<1> HIDE DEF from, oldest, held, some, page
<1>8. /\ ToSet(page.entries) = some /\ page.oldest = oldest
      /\ page.next \in Nat /\ page.next >= from
      /\ \A x \in some : x < page.next
      /\ page.next = from \/ \E x \in some : page.next = x + 1
      /\ LastSeq \notin some
  <2>1. ~page.refused
    BY <1>6 DEF page
  <2>2. QED BY <1>2, <1>4, <1>5, <1>7, <2>1, PageFacts
<1>9. /\ got' = got \cup some /\ again' = again \cup (got \cap some)
      /\ cursor' = page.next /\ told' = told \cup cursor .. oldest - 1
      /\ UNCHANGED <<log, written, first, ask>>
  BY <1>6, <1>8 DEF ReadPage, page
<1>10. \A s \in some : s \in log /\ s \in Nat /\ s >= from /\ s <= NewestOf(log)
  BY <1>1, <1>2, <1>5 DEF held
<1>11. again' = {}
  <2>1. \A s \in got : s < cursor /\ s \in Nat
    BY <1>1 DEF WalkInv
  <2>2. got \cap some = {}
    BY <1>1, <1>4, <1>10, <2>1
  <2>3. QED BY <1>9, <2>2 DEF WalkInv
<1>12. cursor' \in 0 .. LastSeq /\ first <= cursor' /\ cursor <= cursor'
  <2>1. \A s \in some : s + 1 \in 0 .. LastSeq
    BY <1>5, <1>8, RingAssumption DEF Seqs
  <2>2. QED BY <1>1, <1>4, <1>8, <1>9, <2>1
<1>13. cursor' = first \/ cursor' <= NewestOf(log') + 1
  <2>1. CASE \E x \in some : page.next = x + 1
    BY <1>2, <1>9, <1>10, <2>1
  <2>2. CASE page.next = from
    BY <1>1, <1>2, <1>3, <1>9, <2>2 DEF WalkInv
  <2>3. QED BY <1>8, <2>1, <2>2
<1>14. \A s \in written' : first' <= s /\ s < cursor' => s \in got' \/ s \in told'
  <2>1. SUFFICES ASSUME NEW s \in written, first <= s, s < cursor', s \notin got,
                        s \notin told
                 PROVE  s \in some \/ s \in cursor .. oldest - 1
    BY <1>9
  <2>2. s \in Nat /\ s >= cursor
    BY <1>1, <2>1 DEF WalkInv
  <2>3. CASE s < oldest
    BY <1>1, <1>2, <2>2, <2>3
  <2>4. CASE s >= oldest
    <3>1. s \in held
      BY <1>2, <1>3, <2>1, <2>2, <2>4 DEF held
    <3>2. s >= from
      BY <3>1 DEF held
    <3>3. PICK x \in some : page.next = x + 1
      BY <1>4, <1>8, <1>9, <2>1, <2>2, <3>2
    <3>4. s <= x
      BY <1>9, <1>10, <2>1, <2>2, <3>3
    <3>5. QED BY <1>5, <3>1, <3>4
  <2>5. QED BY <1>2, <2>2, <2>3, <2>4
<1>15. \A s \in got' : first' <= s /\ s < cursor' /\ s \notin told'
  <2>1. ASSUME NEW s \in got PROVE first <= s /\ s < cursor' /\ s \notin told'
    <3>1. s \in Nat /\ first <= s /\ s < cursor /\ s \notin told
      BY <1>1 DEF WalkInv
    <3>2. QED BY <1>1, <1>8, <1>9, <1>12, <3>1
  <2>2. ASSUME NEW s \in some PROVE first <= s /\ s < cursor' /\ s \notin told'
    <3>1. s \in Nat /\ s >= cursor /\ s >= oldest /\ s < cursor'
      BY <1>1, <1>2, <1>4, <1>8, <1>9, <1>10
    <3>2. s \notin told
      BY <1>1, <3>1 DEF WalkInv
    <3>3. QED BY <1>1, <1>2, <1>9, <3>1, <3>2
  <2>3. QED BY <1>9, <2>1, <2>2
<1>16. \A s \in told' : s < cursor' /\ s \in Nat
  <2>1. ASSUME NEW s \in told PROVE s < cursor' /\ s \in Nat
    BY <1>1, <1>8, <1>9, <1>12 DEF WalkInv
  <2>2. ASSUME NEW s \in cursor .. oldest - 1 PROVE s < cursor' /\ s \in Nat
    BY <1>1, <1>2, <1>4, <1>8, <1>9
  <2>3. QED BY <1>9, <2>1, <2>2
<1>17. got' \subseteq written'
  BY <1>1, <1>9, <1>10
<1>18. QED
  BY <1>9, <1>11, <1>12, <1>13, <1>14, <1>15, <1>16, <1>17 DEF WalkInv
-----------------------------------------------------------------------------
(* The subscription.  An answer says gap, or starts where it was asked to. *)
AckSound(a) ==
  /\ a.accepted \in Nat /\ a.wanted \in Nat /\ a.gap \in BOOLEAN
  /\ a.wanted <= a.accepted
  /\ IF a.gap THEN a.accepted <= NewestOf(ring) ELSE a.wanted = a.accepted

MessageSound(m) ==
  IF m \in Stream!Events THEN m.seq \in recorded ELSE AckSound(m)

WireInv == wire \in Seq(Stream!Acks \cup Stream!Events)
             /\ \A i \in DOMAIN wire : MessageSound(wire[i])

(* What was taken lies between the answer and the mark; a mark that has    *)
(* moved past the answer has met every record below it.                    *)
ClientInv ==
  /\ mark \in Nat /\ AckSound(ack) /\ ack.accepted <= mark
  /\ mark = ack.wanted \/ mark <= NewestOf(ring) + 1
  /\ taken \in Seq(Nat)
  /\ \A i \in DOMAIN taken :
       taken[i] \in recorded /\ ack.accepted <= taken[i] /\ taken[i] < mark
  /\ \A i, j \in DOMAIN taken : i < j => taken[i] < taken[j]

(* What left the ring was sent, or the session would be closed (P-098).    *)
RingInv ==
  /\ RingSound(ring, recorded)
  /\ sub \in Nat /\ faults \in Nat
  /\ sub # 0 => \A s \in recorded \ ring : s < sub

(* Over a comms processor that only carries, each event on the wire is the *)
(* next record after what is before it, and the next to send after all.    *)
Expected(i) ==
  IF i = 1 THEN mark
  ELSE IF wire[i - 1] \in Stream!Events THEN wire[i - 1].seq + 1
  ELSE wire[i - 1].accepted

Follows(i) ==
  wire[i] \in Stream!Events =>
    /\ Expected(i) # 0 /\ Expected(i) <= wire[i].seq
    /\ \A s \in recorded : ~(Expected(i) <= s /\ s < wire[i].seq)

Known ==
  \A s \in recorded : ack.wanted <= s /\ s < mark =>
    s \in ToSet(taken) \/ (ack.gap /\ s < ack.accepted)

CarriedInv ==
  faults = 0 =>
    /\ \A i \in DOMAIN wire : Follows(i)
    /\ Expected(Len(wire) + 1) = sub \/ sub = LastSeq + 1
    /\ Known

StreamInv == RingInv /\ WireInv /\ ClientInv /\ CarriedInv

(* A message that arrives leaves the client's side sound, in whatever      *)
(* order and however often it comes.                                       *)
LEMMA ArrivesKeeps ==
  ASSUME StreamInv, NEW m \in Stream!Acks \cup Stream!Events, MessageSound(m),
         Stream!Arrives(m), UNCHANGED <<ring, recorded>>
  PROVE  ClientInv'
<1> USE DEF Stream!NoMark
<1>0. recorded \subseteq Nat
  BY DEF StreamInv, RingInv, RingSound, Seqs
<1>1. CASE m \in Stream!Events /\ mark # 0 /\ ~(m.seq < mark \/ m.seq = LastSeq)
  <2>1. /\ mark' = m.seq + 1 /\ taken' = Append(taken, m.seq) /\ ack' = ack
    BY <1>1 DEF Stream!Arrives, Stream!Accept
  <2>2. m.seq \in recorded /\ m.seq \in Nat /\ m.seq >= mark /\ mark \in Nat
    <3>1. m.seq \in recorded
      BY <1>1 DEF MessageSound
    <3>2. mark \in Nat
      BY DEF StreamInv, ClientInv
    <3>3. m.seq \in Nat
      BY <1>0, <3>1
    <3>4. QED BY <1>1, <3>1, <3>2, <3>3
  <2>3. m.seq <= NewestOf(ring) /\ NewestOf(ring) \in Nat
    BY <2>2, RingFacts DEF StreamInv, RingInv
  <2>4. /\ taken' \in Seq(Nat) /\ DOMAIN taken' = 1 .. Len(taken) + 1
        /\ DOMAIN taken = 1 .. Len(taken) /\ Len(taken) \in Nat
        /\ taken'[Len(taken) + 1] = m.seq
        /\ \A i \in DOMAIN taken : taken'[i] = taken[i]
    BY <2>1, <2>2 DEF StreamInv, ClientInv
  <2>5. \A i \in DOMAIN taken' : i \in DOMAIN taken \/ i = Len(taken) + 1
    BY <2>4
  <2>6. \A i \in DOMAIN taken : taken[i] \in Nat /\ taken[i] < m.seq
    BY <1>0, <2>2 DEF StreamInv, ClientInv
  <2>7. \A i \in DOMAIN taken' : taken'[i] \in recorded /\ ack.accepted <= taken'[i]
                                   /\ taken'[i] < mark'
    BY <2>1, <2>2, <2>4, <2>5, <2>6 DEF StreamInv, ClientInv, AckSound
  <2>8. \A i, j \in DOMAIN taken' : i < j => taken'[i] < taken'[j]
    BY <2>4, <2>5, <2>6 DEF StreamInv, ClientInv
  <2>9. AckSound(ack)' /\ ack'.accepted <= mark'
    BY <2>1, <2>2 DEF StreamInv, ClientInv, AckSound
  <2>10. QED BY <2>1, <2>2, <2>3, <2>4, <2>7, <2>8, <2>9 DEF ClientInv
<1>2. CASE m \in Stream!Events /\ ~(mark # 0 /\ ~(m.seq < mark \/ m.seq = LastSeq))
  <2>1. UNCHANGED <<mark, taken, ack>>
    BY <1>2 DEF Stream!Arrives, Stream!Accept
  <2>2. QED BY <2>1 DEF StreamInv, ClientInv, AckSound
<1>3. CASE m \notin Stream!Events
  <2>1. mark' = m.accepted /\ ack' = m /\ taken' = <<>>
    BY <1>3 DEF Stream!Arrives
  <2>2. AckSound(m) /\ NewestOf(ring) \in Nat
    BY <1>3, RingFacts DEF MessageSound, StreamInv, RingInv
  <2>3. QED BY <2>1, <2>2 DEF ClientInv, AckSound
<1>4. QED BY <1>1, <1>2, <1>3

(* What a Subscribe is answered: a position of the log, and gap when the   *)
(* one asked for is no longer there.                                       *)
LEMMA AnswerFacts ==
  ASSUME StreamInv, NEW from \in 0 .. LastSeq,
         ~(from = 0 /\ Stream!Newest = LastSeq)
  PROVE  LET a == Stream!Answer(from)
         IN  /\ a \in Stream!Acks /\ a \notin Stream!Events /\ AckSound(a)
             /\ a.accepted # 0
             /\ \A s \in recorded \ ring : s < a.accepted
<1> DEFINE a == Stream!Answer(from)
           oldest == OldestOf(ring)
           newest == NewestOf(ring)
<1>1. /\ oldest \in Nat /\ newest \in 0 .. LastSeq /\ oldest <= newest
      /\ \A s \in recorded : s <= newest /\ (s >= oldest <=> s \in ring)
      /\ \A s \in recorded : s \in Nat
  <2>1. \A s \in recorded : s \in Nat
    BY DEF StreamInv, RingInv, RingSound, Seqs
  <2>2. QED BY <2>1, RingFacts DEF StreamInv, RingInv
<1>2. Stream!Newest = newest /\ Stream!Oldest = oldest
  BY DEF Stream!Newest, Stream!Oldest, Stream!Max, Stream!Min, Max, Min,
         NewestOf, OldestOf
<1> HIDE DEF oldest, newest
<1>3. a = [accepted |-> IF from = 0 THEN newest + 1
                        ELSE IF from < oldest THEN oldest ELSE from,
           gap      |-> from # 0 /\ from < oldest,
           wanted   |-> IF from = 0 THEN newest + 1 ELSE from]
  BY <1>2 DEF Stream!Answer
<1> HIDE DEF a
<1>4. /\ a.accepted = IF from = 0 THEN newest + 1
                      ELSE IF from < oldest THEN oldest ELSE from
      /\ a.gap = (from # 0 /\ from < oldest)
      /\ a.wanted = IF from = 0 THEN newest + 1 ELSE from
  BY <1>3
<1>5. newest # LastSeq \/ from # 0
  BY <1>2
<1>6. /\ a.accepted \in 1 .. LastSeq /\ a.wanted \in 1 .. LastSeq
      /\ a.gap \in BOOLEAN
  BY <1>1, <1>4, <1>5, RingAssumption
<1>7. a \in Stream!Acks
  BY <1>3, <1>6 DEF Stream!Acks, Stream!Seqs
<1>8. a \notin Stream!Events
  <2>1. "gap" \in DOMAIN a
    BY <1>3
  <2>2. \A e \in Stream!Events : DOMAIN e = {"seq"}
    BY DEF Stream!Events
  <2>3. QED BY <2>1, <2>2
<1>9. AckSound(a)
  <2>1. CASE from # 0 /\ from < oldest
    <3>1. a.gap = TRUE /\ a.accepted = oldest /\ a.wanted = from
      BY <1>4, <2>1
    <3>2. QED BY <1>1, <1>6, <2>1, <3>1 DEF AckSound, newest
  <2>2. CASE ~(from # 0 /\ from < oldest)
    <3>1. a.gap = FALSE /\ a.accepted = a.wanted
      BY <1>1, <1>4, <2>2
    <3>2. QED BY <1>6, <3>1 DEF AckSound
  <2>3. QED BY <2>1, <2>2
<1>10. \A s \in recorded \ ring : s < a.accepted
  <2>1. a.accepted >= oldest
    BY <1>1, <1>4
  <2>2. \A s \in recorded \ ring : s \in Nat /\ s < oldest
    BY <1>1
  <2>3. QED BY <1>1, <1>6, <2>1, <2>2
<1>11. QED BY <1>6, <1>7, <1>8, <1>9, <1>10 DEF a

(* A message put on the wire leaves what is before it as it was.           *)
LEMMA AppendKeeps ==
  ASSUME StreamInv, NEW m \in Stream!Acks \cup Stream!Events,
         wire' = Append(wire, m), UNCHANGED <<ring, recorded, mark>>,
         MessageSound(m)
  PROVE  /\ WireInv'
         /\ \A i \in 1 .. Len(wire) + 1 : Expected(i)' = Expected(i)
         /\ \A i : i = Len(wire) + 2 =>
              Expected(i)' = IF m \in Stream!Events THEN m.seq + 1 ELSE m.accepted
         /\ Len(wire') = Len(wire) + 1 /\ wire'[Len(wire) + 1] = m
         /\ \A i \in DOMAIN wire : wire'[i] = wire[i]
<1>1. /\ wire \in Seq(Stream!Acks \cup Stream!Events)
      /\ Len(wire) \in Nat /\ DOMAIN wire = 1 .. Len(wire)
  BY DEF StreamInv, WireInv
<1>2. /\ wire' \in Seq(Stream!Acks \cup Stream!Events)
      /\ Len(wire') = Len(wire) + 1 /\ DOMAIN wire' = 1 .. Len(wire) + 1
      /\ wire'[Len(wire) + 1] = m
      /\ \A i \in DOMAIN wire : wire'[i] = wire[i]
  BY <1>1
<1>3. WireInv'
  <2>1. \A i \in DOMAIN wire : MessageSound(wire[i])
    BY DEF StreamInv, WireInv
  <2>2. \A i \in DOMAIN wire' : MessageSound(wire'[i])
    BY <1>1, <1>2, <2>1
  <2>3. QED BY <1>2, <2>2 DEF WireInv, MessageSound, AckSound
<1>4. \A i \in 1 .. Len(wire) + 1 : Expected(i)' = Expected(i)
  <2>1. ASSUME NEW i \in 1 .. Len(wire) + 1, i # 1 PROVE wire'[i - 1] = wire[i - 1]
    BY <1>1, <1>2, <2>1
  <2>2. QED BY <2>1 DEF Expected
<1>5. ASSUME NEW i, i = Len(wire) + 2
      PROVE  Expected(i)' = IF m \in Stream!Events THEN m.seq + 1 ELSE m.accepted
  <2>1. i # 1 /\ i - 1 = Len(wire) + 1
    BY <1>1, <1>5
  <2>2. wire'[i - 1] = m
    BY <1>2, <2>1
  <2>3. QED BY <2>1, <2>2 DEF Expected
<1>6. QED BY <1>2, <1>3, <1>4, <1>5

(* A message taken off the front does too, and what follows it is expected *)
(* where it was.                                                           *)
LEMMA TailKeeps ==
  ASSUME StreamInv, wire # <<>>, wire' = Tail(wire), UNCHANGED <<ring, recorded>>
  PROVE  /\ WireInv' /\ Len(wire) \in Nat /\ Len(wire) >= 1
         /\ Len(wire') = Len(wire) - 1
         /\ \A i \in DOMAIN wire' : wire'[i] = wire[i + 1]
         /\ \A i \in 2 .. Len(wire) : Expected(i)' = Expected(i + 1)
<1>1. /\ wire \in Seq(Stream!Acks \cup Stream!Events)
      /\ Len(wire) \in Nat /\ DOMAIN wire = 1 .. Len(wire) /\ Len(wire) >= 1
  BY DEF StreamInv, WireInv
<1>2. /\ wire' \in Seq(Stream!Acks \cup Stream!Events)
      /\ Len(wire') = Len(wire) - 1 /\ DOMAIN wire' = 1 .. Len(wire) - 1
      /\ \A i \in DOMAIN wire' : wire'[i] = wire[i + 1]
  BY <1>1
<1>3. WireInv'
  <2>1. \A i \in DOMAIN wire : MessageSound(wire[i])
    BY DEF StreamInv, WireInv
  <2>2. \A i \in DOMAIN wire' : MessageSound(wire'[i])
    BY <1>1, <1>2, <2>1
  <2>3. QED BY <1>2, <2>2 DEF WireInv, MessageSound, AckSound
<1>4. \A i \in 2 .. Len(wire) : Expected(i)' = Expected(i + 1)
  <2>1. ASSUME NEW i \in 2 .. Len(wire)
        PROVE  /\ wire'[i - 1] = wire[i] /\ i # 1
               /\ i + 1 # 1 /\ (i + 1) - 1 = i
    BY <1>1, <1>2
  <2>2. QED BY <2>1 DEF Expected
<1>5. QED BY <1>1, <1>2, <1>3, <1>4

(* A second answer replaces the subscription: what is sent next is what it *)
(* says is accepted.                                                       *)
LEMMA SubscribeKeeps ==
  ASSUME StreamInv, NEW from \in 0 .. LastSeq, Stream!Subscribe(from)
  PROVE  StreamInv'
<1> DEFINE a == Stream!Answer(from)
<1>1. /\ wire' = Append(wire, a) /\ sub' = a.accepted
      /\ UNCHANGED <<ring, recorded, mark, ack, taken, faults>>
      /\ ~(from = 0 /\ Stream!Newest = LastSeq)
  BY DEF Stream!Subscribe
<1>2. /\ a \in Stream!Acks /\ a \notin Stream!Events /\ AckSound(a)
      /\ a.accepted # 0
      /\ \A s \in recorded \ ring : s < a.accepted
  BY <1>1, AnswerFacts
<1> HIDE DEF a
<1>3. /\ WireInv'
      /\ \A i \in 1 .. Len(wire) + 1 : Expected(i)' = Expected(i)
      /\ \A i : i = Len(wire) + 2 => Expected(i)' = a.accepted
      /\ Len(wire') = Len(wire) + 1 /\ wire'[Len(wire) + 1] = a
      /\ \A i \in DOMAIN wire : wire'[i] = wire[i]
  <2>1. MessageSound(a)
    BY <1>2 DEF MessageSound
  <2>2. QED BY <1>1, <1>2, <2>1, AppendKeeps
<1>4. RingInv'
  BY <1>1, <1>2 DEF StreamInv, RingInv, AckSound
<1>5. ClientInv'
  BY <1>1 DEF StreamInv, ClientInv, AckSound
<1>6. ASSUME faults' = 0
      PROVE  /\ \A i \in DOMAIN wire' : Follows(i)'
             /\ \A i : i = Len(wire') + 1 => Expected(i)' = sub'
             /\ Known'
  <2>1. Len(wire) \in Nat /\ DOMAIN wire = 1 .. Len(wire)
        /\ DOMAIN wire' = 1 .. Len(wire) + 1
    BY <1>1, <1>3 DEF StreamInv, WireInv
  <2>2. (\A i \in DOMAIN wire : Follows(i)) /\ Known
    BY <1>1, <1>6 DEF StreamInv, CarriedInv
  <2>3. ASSUME NEW i \in DOMAIN wire' PROVE Follows(i)'
    <3>1. CASE i = Len(wire) + 1
      BY <1>2, <1>3, <3>1 DEF Follows
    <3>2. CASE i \in DOMAIN wire
      BY <1>1, <1>3, <2>1, <2>2, <3>2 DEF Follows
    <3>3. QED BY <2>1, <3>1, <3>2
  <2>4. ASSUME NEW i, i = Len(wire') + 1 PROVE Expected(i)' = sub'
    <3>1. i = Len(wire) + 2
      BY <1>3, <2>1, <2>4
    <3>2. QED BY <1>1, <1>3, <3>1
  <2>5. QED BY <1>1, <2>2, <2>3, <2>4 DEF Known
<1>7. CarriedInv'
  BY <1>6 DEF CarriedInv
<1>8. QED BY <1>3, <1>4, <1>5, <1>7 DEF StreamInv

(* The record sent is the next the ring holds, and none written lies       *)
(* between it and the one before.                                          *)
LEMMA SendKeeps ==
  ASSUME StreamInv, Stream!Send
  PROVE  StreamInv'
<1> DEFINE due  == {seq \in ring : sub # Stream!NoSub /\ seq >= sub}
           next == Stream!Min(due)
           e    == [seq |-> next]
<1>1. /\ due # {} /\ wire' = Append(wire, e) /\ sub' = next + 1
      /\ UNCHANGED <<ring, recorded, mark, ack, taken, faults>>
  BY DEF Stream!Send
<1>2. /\ recorded \subseteq Seqs /\ ring \subseteq recorded /\ sub \in Nat
      /\ \A s \in recorded : s \in Nat /\ s \in 1 .. LastSeq
  BY DEF StreamInv, RingInv, RingSound, Seqs
<1>3. /\ next \in ring /\ sub # 0 /\ sub <= next
      /\ \A s \in ring : s >= sub => next <= s
  <2>1. due \in SUBSET Nat
    BY <1>2
  <2>2. next = Min(due)
    BY DEF Stream!Min, Min
  <2> HIDE DEF next
  <2>3. next \in due /\ \A s \in due : next <= s
    BY <1>1, <2>1, <2>2, MinMember
  <2>4. QED BY <2>3 DEF Stream!NoSub
<1> HIDE DEF due, next
<1>4. next \in recorded /\ next \in Nat /\ next <= LastSeq /\ LastSeq \in Nat
  BY <1>2, <1>3, RingAssumption
<1>5. e \in Stream!Events /\ MessageSound(e) /\ e.seq = next
  BY <1>2, <1>4 DEF Stream!Events, Stream!Seqs, Seqs, MessageSound
<1> HIDE DEF e
<1>6. /\ WireInv'
      /\ \A i \in 1 .. Len(wire) + 1 : Expected(i)' = Expected(i)
      /\ \A i : i = Len(wire) + 2 => Expected(i)' = next + 1
      /\ Len(wire') = Len(wire) + 1 /\ wire'[Len(wire) + 1] = e
      /\ \A i \in DOMAIN wire : wire'[i] = wire[i]
  BY <1>1, <1>5, AppendKeeps
<1>7. \A s \in recorded \ ring : s < sub
  BY <1>3 DEF StreamInv, RingInv
<1>8. RingInv'
  <2>1. \A s \in recorded \ ring : s < next + 1
    BY <1>2, <1>3, <1>4, <1>7
  <2>2. RingSound(ring, recorded) /\ faults \in Nat
    BY DEF StreamInv, RingInv
  <2>3. sub' = next + 1 /\ UNCHANGED <<ring, recorded, faults>>
    BY <1>1
  <2>4. QED BY <1>4, <2>1, <2>2, <2>3 DEF RingInv
<1>9. ClientInv'
  BY <1>1 DEF StreamInv, ClientInv, AckSound
<1>10. ASSUME faults' = 0
       PROVE  /\ \A i \in DOMAIN wire' : Follows(i)'
              /\ \A i : i = Len(wire') + 1 => Expected(i)' = sub'
              /\ Known'
  <2>1. Len(wire) \in Nat /\ DOMAIN wire = 1 .. Len(wire)
        /\ DOMAIN wire' = 1 .. Len(wire) + 1
    BY <1>1, <1>6 DEF StreamInv, WireInv
  <2>2. /\ \A i \in DOMAIN wire : Follows(i)
        /\ Expected(Len(wire) + 1) = sub \/ sub = LastSeq + 1
        /\ Known
    BY <1>1, <1>10 DEF StreamInv, CarriedInv
  <2>3. Expected(Len(wire) + 1) = sub
    BY <1>3, <1>4, <2>2
  <2>4. ASSUME NEW i \in DOMAIN wire' PROVE Follows(i)'
    <3>1. CASE i = Len(wire) + 1
      <4>1. Expected(i)' = sub /\ wire'[i] = e
        BY <1>6, <2>1, <2>3, <3>1
      <4>2. \A s \in recorded : ~(sub <= s /\ s < next)
        BY <1>2, <1>3, <1>4, <1>7
      <4>3. QED BY <1>1, <1>3, <1>5, <4>1, <4>2 DEF Follows
    <3>2. CASE i \in DOMAIN wire
      BY <1>1, <1>6, <2>1, <2>2, <3>2 DEF Follows
    <3>3. QED BY <2>1, <3>1, <3>2
  <2>5. ASSUME NEW i, i = Len(wire') + 1 PROVE Expected(i)' = sub'
    <3>1. i = Len(wire) + 2
      BY <1>6, <2>1, <2>5
    <3>2. QED BY <1>1, <1>6, <3>1
  <2>6. QED BY <1>1, <2>2, <2>4, <2>5 DEF Known
<1>11. CarriedInv'
  BY <1>10 DEF CarriedInv
<1>12. QED BY <1>6, <1>8, <1>9, <1>11 DEF StreamInv

(* A record written is past everything sent and taken.  When it pushes out *)
(* one the session had still to send, the session is closed.               *)
LEMMA StreamWriteKeeps ==
  ASSUME StreamInv, NEW seq \in Seqs, Stream!Write(seq)
  PROVE  StreamInv'
<1> DEFINE out == Stream!Overwritten
<1>1. /\ ring' = (ring \ out) \cup {seq} /\ recorded' = recorded \cup {seq}
      /\ seq \in {NewestOf(ring) + 1, NewestOf(ring) + 2}
      /\ out \in {{}, {OldestOf(ring)}}
      /\ faults' = faults
  <2>1. Stream!Newest = NewestOf(ring) /\ Stream!Oldest = OldestOf(ring)
    BY DEF Stream!Newest, Stream!Oldest, Stream!Max, Stream!Min, Max, Min,
           NewestOf, OldestOf
  <2>2. out \in {{}, {OldestOf(ring)}}
    BY <2>1 DEF Stream!Overwritten
  <2>3. /\ ring' = (ring \ out) \cup {seq} /\ recorded' = recorded \cup {seq}
        /\ seq \in {Stream!Newest + 1, Stream!Newest + 2}
        /\ faults' = faults
    BY DEF Stream!Write, Stream!Record
  <2>4. QED BY <2>1, <2>2, <2>3
<1>2. \/ /\ UNCHANGED <<sub, wire, mark, ack, taken>>
         /\ sub # 0 => \A lost \in out : ~(lost >= sub)
      \/ sub' = 0 /\ wire' = <<>> /\ mark' = 0 /\ ack' = Stream!NoAck /\ taken' = <<>>
  BY DEF Stream!Write, Stream!NoSub, Stream!NoMark
<1> HIDE DEF out
<1>3. /\ RingSound(ring, recorded) /\ sub \in Nat /\ faults \in Nat
      /\ sub # 0 => \A s \in recorded \ ring : s < sub
      /\ NewestOf(ring) \in Nat /\ seq \in Nat /\ NewestOf(ring) < seq
      /\ \A s \in recorded : s \in Nat
      /\ OldestOf(ring) \in Nat
  <2>1. \A s \in Seqs : s \in Nat
    BY DEF Seqs
  <2>2. RingSound(ring, recorded)
    BY DEF StreamInv, RingInv
  <2>3. NewestOf(ring) \in Nat /\ OldestOf(ring) \in Nat
    BY <2>2, RingFacts
  <2>4. QED BY <1>1, <2>1, <2>2, <2>3 DEF StreamInv, RingInv, RingSound
<1>4. /\ RingSound(ring', recorded') /\ NewestOf(ring') = seq
      /\ \A s \in recorded : s < seq
  <2> DEFINE held == (ring \ out) \cup {seq}
             all  == recorded \cup {seq}
  <2>1. ring' = held /\ recorded' = all /\ out \in {{}, {OldestOf(ring)}}
    BY <1>1
  <2>2. RingSound(held, all) /\ NewestOf(held) = seq /\ \A s \in recorded : s < seq
    BY <1>3, <2>1, RingWrite
  <2> HIDE DEF held, all
  <2>3. QED BY <2>1, <2>2
<1>5. CASE sub' = 0 /\ wire' = <<>> /\ mark' = 0 /\ ack' = Stream!NoAck /\ taken' = <<>>
  <2>1. RingInv'
    BY <1>1, <1>3, <1>4, <1>5 DEF RingInv
  <2>2. WireInv'
    BY <1>5 DEF WireInv
  <2>3. /\ ack'.accepted = 0 /\ ack'.gap = FALSE /\ ack'.wanted = 0
    BY <1>5 DEF Stream!NoAck
  <2>4. AckSound(ack)'
    <3>1. ack'.gap \in BOOLEAN /\ ~ack'.gap
      BY <2>3
    <3>2. /\ ack'.accepted \in Nat /\ ack'.wanted \in Nat
          /\ ack'.wanted <= ack'.accepted /\ ack'.wanted = ack'.accepted
      BY <2>3
    <3>3. QED BY <3>1, <3>2 DEF AckSound
  <2>5. ClientInv'
    BY <1>5, <2>3, <2>4 DEF ClientInv
  <2>6. \A i \in DOMAIN wire' : Follows(i)'
    <3>1. DOMAIN wire' = {}
      BY <1>5
    <3>2. QED BY <3>1
  <2>7. \A i : i = Len(wire') + 1 => Expected(i)' = sub'
    BY <1>5 DEF Expected
  <2>8. Known'
    <3>1. \A s \in recorded' : ~(s < mark')
      BY <1>1, <1>3, <1>5
    <3>2. QED BY <3>1 DEF Known
  <2>9. CarriedInv'
    BY <2>6, <2>7, <2>8 DEF CarriedInv
  <2>10. QED BY <2>1, <2>2, <2>5, <2>9 DEF StreamInv
<1>6. CASE /\ UNCHANGED <<sub, wire, mark, ack, taken>>
           /\ sub # 0 => \A lost \in out : ~(lost >= sub)
  <2>1. RingInv'
    <3>1. ASSUME NEW s \in recorded', s \notin ring', sub # 0 PROVE s < sub
      <4>1. s \in recorded /\ (s \notin ring \/ s \in out)
        BY <1>1, <3>1
      <4>2. s \in Nat
        BY <1>3, <4>1
      <4>3. CASE s \notin ring
        BY <1>3, <3>1, <4>1, <4>3
      <4>4. CASE s \in out
        <5>1. ~(s >= sub)
          BY <1>6, <3>1, <4>4
        <5>2. QED BY <1>3, <4>2, <5>1
      <4>5. QED BY <4>1, <4>3, <4>4
    <3>2. QED BY <1>1, <1>3, <1>4, <1>6, <3>1 DEF RingInv
  <2>2. ASSUME NEW a, AckSound(a) PROVE AckSound(a)'
    <3>1. CASE a.gap
      BY <1>3, <1>4, <2>2, <3>1 DEF AckSound
    <3>2. CASE ~a.gap
      BY <2>2, <3>2 DEF AckSound
    <3>3. QED BY <3>1, <3>2
  <2>3. ASSUME NEW m, MessageSound(m) PROVE MessageSound(m)'
    <3>1. CASE m \in Stream!Events
      BY <1>1, <2>3, <3>1 DEF MessageSound
    <3>2. CASE m \notin Stream!Events
      BY <2>2, <2>3, <3>2 DEF MessageSound
    <3>3. QED BY <3>1, <3>2
  <2>4. WireInv'
    <3>1. /\ wire \in Seq(Stream!Acks \cup Stream!Events)
          /\ \A i \in DOMAIN wire : MessageSound(wire[i])
      BY DEF StreamInv, WireInv
    <3>2. (\A i \in DOMAIN wire : MessageSound(wire[i]))'
      BY <1>6, <2>3, <3>1
    <3>3. QED BY <1>6, <3>1, <3>2 DEF WireInv
  <2>5. /\ mark \in Nat /\ AckSound(ack) /\ ack.accepted <= mark
        /\ mark = ack.wanted \/ mark <= NewestOf(ring) + 1
        /\ taken \in Seq(Nat)
        /\ \A i \in DOMAIN taken :
             taken[i] \in recorded /\ ack.accepted <= taken[i] /\ taken[i] < mark
        /\ \A i, j \in DOMAIN taken : i < j => taken[i] < taken[j]
    BY DEF StreamInv, ClientInv
  <2>6. ClientInv'
    <3>1. AckSound(ack)'
      <4>1. CASE ack.gap
        BY <1>3, <1>4, <1>6, <2>5, <4>1 DEF AckSound
      <4>2. CASE ~ack.gap
        BY <1>6, <2>5, <4>2 DEF AckSound
      <4>3. QED BY <4>1, <4>2
    <3>2. mark = ack.wanted \/ mark <= seq + 1
      BY <1>3, <2>5
    <3>3. QED BY <1>1, <1>4, <1>6, <2>5, <3>1, <3>2 DEF ClientInv
  <2>7. CarriedInv'
    <3>1. SUFFICES ASSUME faults' = 0
                   PROVE  /\ \A i \in DOMAIN wire' : Follows(i)'
                          /\ \/ \A i : i = Len(wire') + 1 => Expected(i)' = sub'
                             \/ sub' = LastSeq + 1
                          /\ Known'
      BY DEF CarriedInv
    <3>2. /\ \A i \in DOMAIN wire : Follows(i)
          /\ Expected(Len(wire) + 1) = sub \/ sub = LastSeq + 1
          /\ Known
      BY <1>1, <3>1 DEF StreamInv, CarriedInv
    <3>3. \A i : Expected(i)' = Expected(i)
      BY <1>6 DEF Expected
    <3>4. ASSUME NEW i \in DOMAIN wire', wire'[i] \in Stream!Events PROVE Follows(i)'
      <4>1. wire[i] \in Stream!Events /\ wire'[i] = wire[i] /\ i \in DOMAIN wire
        BY <1>6, <3>4
      <4>2. wire[i].seq \in recorded
        BY <4>1 DEF StreamInv, WireInv, MessageSound
      <4>3. ~(seq < wire[i].seq)
        BY <1>3, <1>4, <4>2
      <4>4. QED BY <1>1, <3>2, <3>3, <4>1, <4>3 DEF Follows
    <3>5. \A i \in DOMAIN wire' : Follows(i)'
      BY <3>4 DEF Follows
    <3>6. Known'
      <4>1. ~(ack.wanted <= seq /\ seq < mark)
        BY <1>3, <2>5 DEF AckSound
      <4>2. QED BY <1>1, <1>6, <3>2, <4>1 DEF Known
    <3>7. QED BY <1>6, <3>2, <3>3, <3>5, <3>6
  <2>8. QED BY <2>1, <2>4, <2>6, <2>7 DEF StreamInv
<1>7. QED BY <1>2, <1>5, <1>6

(* What is delivered in order moves the mark from each record to the next. *)
LEMMA DeliverKeeps ==
  ASSUME StreamInv, Stream!Deliver
  PROVE  StreamInv'
<1> DEFINE m == Head(wire)
<1>1. /\ wire # <<>> /\ Stream!Arrives(m) /\ wire' = Tail(wire)
      /\ UNCHANGED <<ring, recorded, sub, faults>>
  BY DEF Stream!Deliver
<1>2. /\ wire \in Seq(Stream!Acks \cup Stream!Events)
      /\ \A i \in DOMAIN wire : MessageSound(wire[i])
  BY DEF StreamInv, WireInv
<1>3. /\ Len(wire) \in Nat /\ Len(wire) >= 1 /\ DOMAIN wire = 1 .. Len(wire)
      /\ m = wire[1]
  BY <1>1, <1>2
<1> HIDE DEF m
<1>4. m \in Stream!Acks \cup Stream!Events /\ MessageSound(m)
  BY <1>2, <1>3
<1>5. /\ WireInv' /\ Len(wire') = Len(wire) - 1
      /\ DOMAIN wire' = 1 .. Len(wire) - 1
      /\ \A i \in DOMAIN wire' : wire'[i] = wire[i + 1]
      /\ \A i \in 2 .. Len(wire) : Expected(i)' = Expected(i + 1)
  <2>1. /\ WireInv' /\ Len(wire') = Len(wire) - 1
        /\ \A i \in DOMAIN wire' : wire'[i] = wire[i + 1]
        /\ \A i \in 2 .. Len(wire) : Expected(i)' = Expected(i + 1)
    BY <1>1, TailKeeps
  <2>2. DOMAIN wire' = 1 .. Len(wire')
    BY <2>1 DEF WireInv
  <2>3. QED BY <2>1, <2>2
<1>6. ClientInv'
  BY <1>1, <1>4, ArrivesKeeps
<1>7. RingInv'
  BY <1>1 DEF StreamInv, RingInv
<1>8. Expected(1)' = mark' /\ Expected(1) = mark
  BY DEF Expected
<1>9. Expected(2) = IF m \in Stream!Events THEN m.seq + 1 ELSE m.accepted
  BY <1>3 DEF Expected
<1>10. /\ \A s \in recorded : s \in Nat /\ s <= LastSeq
       /\ LastSeq \in Nat /\ mark \in Nat
  <2>1. \A s \in Seqs : s \in Nat /\ s <= LastSeq
    BY RingAssumption DEF Seqs
  <2>2. QED BY <2>1, RingAssumption DEF StreamInv, RingInv, RingSound, ClientInv
<1>11. ASSUME faults' = 0
       PROVE  /\ \A i \in DOMAIN wire' : Follows(i)'
              /\ \/ \A i : i = Len(wire') + 1 => Expected(i)' = sub'
                 \/ sub' = LastSeq + 1
              /\ Known'
  <2>1. /\ \A i \in DOMAIN wire : Follows(i)
        /\ Expected(Len(wire) + 1) = sub \/ sub = LastSeq + 1
        /\ Known
    BY <1>1, <1>11 DEF StreamInv, CarriedInv
  <2>2. ASSUME \A i : i = 1 => Expected(i)' = Expected(2)
        PROVE  /\ \A i \in DOMAIN wire' : Follows(i)'
               /\ \/ \A i : i = Len(wire') + 1 => Expected(i)' = sub'
                  \/ sub' = LastSeq + 1
    <3>1. \A i \in 1 .. Len(wire) : Expected(i)' = Expected(i + 1)
      <4>1. ASSUME NEW i \in 1 .. Len(wire), i # 1 PROVE i \in 2 .. Len(wire)
        BY <1>3, <4>1
      <4>2. \A i : i = 1 => i + 1 = 2
        OBVIOUS
      <4>3. QED BY <1>5, <2>2, <4>1, <4>2
    <3>2. ASSUME NEW i \in DOMAIN wire' PROVE Follows(i)'
      <4>1. i \in 1 .. Len(wire) /\ i + 1 \in DOMAIN wire /\ wire'[i] = wire[i + 1]
        BY <1>3, <1>5
      <4>2. Follows(i + 1) /\ Expected(i)' = Expected(i + 1)
        BY <2>1, <3>1, <4>1
      <4>3. QED BY <1>1, <4>1, <4>2 DEF Follows
    <3>3. ASSUME NEW i, i = Len(wire') + 1, sub # LastSeq + 1
          PROVE  Expected(i)' = sub'
      <4>1. i = Len(wire) /\ i \in 1 .. Len(wire)
        BY <1>3, <1>5, <3>3
      <4>2. QED BY <1>1, <2>1, <3>1, <3>3, <4>1
    <3>4. QED BY <1>1, <3>2, <3>3
  <2>3. CASE m \notin Stream!Events
    <3>1. mark' = m.accepted /\ ack' = m /\ taken' = <<>>
      BY <1>1, <2>3 DEF Stream!Arrives
    <3>2. \A i : i = 1 => Expected(i)' = Expected(2)
      BY <1>8, <1>9, <2>3, <3>1
    <3>3. Known'
      <4>1. AckSound(m)
        BY <1>4, <2>3 DEF MessageSound
      <4>2. CASE m.gap
        BY <3>1, <4>2 DEF Known
      <4>3. CASE ~m.gap
        <5>1. \A s \in recorded : ~(m.wanted <= s /\ s < m.accepted)
          BY <1>10, <4>1, <4>3 DEF AckSound
        <5>2. QED BY <1>1, <3>1, <5>1 DEF Known
      <4>4. QED BY <4>2, <4>3
    <3>4. QED BY <2>2, <3>2, <3>3
  <2>4. CASE m \in Stream!Events
    <3>1. /\ mark # 0 /\ mark <= m.seq /\ m.seq \in recorded
          /\ \A s \in recorded : ~(mark <= s /\ s < m.seq)
      <4>1. Follows(1)
        BY <1>3, <2>1
      <4>2. m.seq \in recorded
        BY <1>4, <2>4 DEF MessageSound
      <4>3. QED BY <1>3, <1>8, <2>4, <4>1, <4>2 DEF Follows
    <3>2. m.seq \in Nat /\ m.seq <= LastSeq
      BY <1>10, <3>1
    <3>3. CASE m.seq # LastSeq
      <4>1. mark' = m.seq + 1 /\ taken' = Append(taken, m.seq) /\ ack' = ack
        BY <1>1, <1>10, <2>4, <3>1, <3>2, <3>3
           DEF Stream!Arrives, Stream!Accept, Stream!NoMark
      <4>2. \A i : i = 1 => Expected(i)' = Expected(2)
        BY <1>8, <1>9, <2>4, <4>1
      <4>3. \A s : s \in ToSet(taken) \/ s = m.seq => s \in ToSet(taken')
        <5>1. taken \in Seq(Nat)
          BY DEF StreamInv, ClientInv
        <5>2. /\ DOMAIN taken' = 1 .. Len(taken) + 1 /\ DOMAIN taken = 1 .. Len(taken)
              /\ Len(taken) \in Nat /\ taken'[Len(taken) + 1] = m.seq
              /\ \A i \in DOMAIN taken : taken'[i] = taken[i]
          BY <3>2, <4>1, <5>1
        <5>3. QED BY <5>2 DEF ToSet
      <4>4. Known'
        <5>1. ASSUME NEW s \in recorded, ack.wanted <= s, s < mark'
              PROVE  s \in ToSet(taken') \/ (ack.gap /\ s < ack.accepted)
          <6>1. s < mark \/ s = m.seq
            BY <1>10, <3>1, <3>2, <4>1, <5>1
          <6>2. QED BY <2>1, <4>3, <5>1, <6>1 DEF Known
        <5>2. QED BY <1>1, <4>1, <5>1 DEF Known
      <4>5. QED BY <2>2, <4>2, <4>4
    <3>4. CASE m.seq = LastSeq
      <4>1. UNCHANGED <<mark, taken, ack>>
        BY <1>1, <2>4, <3>1, <3>4 DEF Stream!Arrives, Stream!Accept, Stream!NoMark
      <4>2. Known'
        BY <1>1, <2>1, <4>1 DEF Known
      <4>3. Expected(2) = LastSeq + 1
        BY <1>9, <2>4, <3>4
      <4>4. CASE Len(wire) = 1
        <5>1. sub' = LastSeq + 1
          BY <1>1, <2>1, <4>3, <4>4
        <5>2. DOMAIN wire' = {}
          BY <1>5, <4>4
        <5>3. QED BY <4>2, <5>1, <5>2
      <4>5. CASE Len(wire) # 1
        <5>1. 2 \in DOMAIN wire /\ Follows(2)
          BY <1>3, <2>1, <4>5
        <5>2. wire[2] \notin Stream!Events
          <6>1. SUFFICES ASSUME wire[2] \in Stream!Events PROVE FALSE
            OBVIOUS
          <6>2. wire[2].seq \in recorded
            BY <1>2, <5>1, <6>1 DEF MessageSound
          <6>3. LastSeq + 1 <= wire[2].seq
            BY <4>3, <5>1, <6>1 DEF Follows
          <6>4. QED BY <1>10, <6>2, <6>3
        <5>3. ASSUME NEW i \in DOMAIN wire' PROVE Follows(i)'
          <6>1. i \in 1 .. Len(wire) /\ i + 1 \in DOMAIN wire /\ wire'[i] = wire[i + 1]
            BY <1>3, <1>5
          <6>2. CASE i = 1
            BY <5>2, <6>1, <6>2 DEF Follows
          <6>3. CASE i # 1
            <7>1. Follows(i + 1) /\ Expected(i)' = Expected(i + 1)
              BY <1>3, <1>5, <2>1, <6>1, <6>3
            <7>2. QED BY <1>1, <6>1, <7>1 DEF Follows
          <6>4. QED BY <6>2, <6>3
        <5>4. ASSUME NEW i, i = Len(wire') + 1, sub # LastSeq + 1
              PROVE  Expected(i)' = sub'
          <6>1. i = Len(wire) /\ i \in 2 .. Len(wire)
            BY <1>3, <1>5, <4>5, <5>4
          <6>2. QED BY <1>1, <1>5, <2>1, <5>4, <6>1
        <5>5. QED BY <1>1, <4>2, <5>3, <5>4
      <4>6. QED BY <4>4, <4>5
    <3>5. QED BY <3>3, <3>4
  <2>5. QED BY <2>3, <2>4
<1>12. CarriedInv'
  BY <1>11 DEF CarriedInv
<1>13. QED BY <1>5, <1>6, <1>7, <1>12 DEF StreamInv

(* A sequence without one of its elements holds the others in their order. *)
Without(r, s, i, S) ==
  /\ r \in Seq(S) /\ DOMAIN r = 1 .. Len(s) - 1
  /\ \A j \in DOMAIN r : r[j] = IF j < i THEN s[j] ELSE s[j + 1]

LEMMA RemoveFacts ==
  ASSUME NEW S, NEW s \in Seq(S), NEW i \in 1 .. Len(s), NEW r,
         r = SubSeq(s, 1, i - 1) \o SubSeq(s, i + 1, Len(s))
  PROVE  Without(r, s, i, S)
<1> DEFINE before == SubSeq(s, 1, i - 1)
           after  == SubSeq(s, i + 1, Len(s))
           k      == Len(s)
<1>1. k \in Nat /\ i \in Nat /\ i >= 1 /\ i <= k
  OBVIOUS
<1>2. /\ before \in Seq(S) /\ Len(before) = i - 1
      /\ \A j \in 1 .. i - 1 : before[j] = s[j]
  <2>1. i - 1 \in Int /\ 1 \in Int /\ \A j \in 1 .. i - 1 : s[j] \in S
    BY <1>1
  <2>2. /\ before \in Seq(S)
        /\ Len(before) = IF 1 <= i - 1 THEN i - 1 - 1 + 1 ELSE 0
        /\ \A j \in 1 .. i - 1 - 1 + 1 : before[j] = s[1 + j - 1]
    BY <2>1, SubSeqProperties
  <2> HIDE DEF before
  <2>3. \A j \in 1 .. i - 1 : j \in 1 .. i - 1 - 1 + 1 /\ 1 + j - 1 = j
    BY <1>1
  <2>4. (IF 1 <= i - 1 THEN i - 1 - 1 + 1 ELSE 0) = i - 1
    BY <1>1
  <2>5. QED BY <2>2, <2>3, <2>4
<1>3. /\ after \in Seq(S) /\ Len(after) = k - i
      /\ \A j \in 1 .. k - i : after[j] = s[i + j]
  <2>1. i + 1 \in Int /\ Len(s) \in Int /\ \A j \in i + 1 .. Len(s) : s[j] \in S
    BY <1>1
  <2>2. /\ after \in Seq(S)
        /\ Len(after) = IF i + 1 <= Len(s) THEN Len(s) - (i + 1) + 1 ELSE 0
        /\ \A j \in 1 .. Len(s) - (i + 1) + 1 : after[j] = s[i + 1 + j - 1]
    BY <2>1, SubSeqProperties
  <2> HIDE DEF after
  <2>3. \A j \in 1 .. k - i : j \in 1 .. Len(s) - (i + 1) + 1 /\ i + 1 + j - 1 = i + j
    BY <1>1
  <2>4. (IF i + 1 <= Len(s) THEN Len(s) - (i + 1) + 1 ELSE 0) = k - i
    BY <1>1
  <2>5. QED BY <2>2, <2>3, <2>4
<1> HIDE DEF before, after
<1>4. /\ before \o after \in Seq(S)
      /\ Len(before \o after) = Len(before) + Len(after)
      /\ \A j \in 1 .. Len(before) + Len(after) : (before \o after)[j] =
              IF j <= Len(before) THEN before[j] ELSE after[j - Len(before)]
  BY <1>2, <1>3, ConcatProperties, Zenon
<1>5. /\ r = before \o after /\ r \in Seq(S) /\ Len(r) = k - 1
      /\ Len(before) + Len(after) = k - 1
  <2>1. r = before \o after
    BY DEF before, after
  <2> HIDE DEF k
  <2>2. Len(before) + Len(after) = k - 1
    BY <1>1, <1>2, <1>3
  <2>3. QED BY <1>4, <2>1, <2>2, Zenon
<1>6. /\ DOMAIN r = 1 .. k - 1
      /\ \A j \in 1 .. k - 1 :
           r[j] = IF j <= i - 1 THEN before[j] ELSE after[j - (i - 1)]
  <2> HIDE DEF k
  <2>1. DOMAIN r = 1 .. k - 1
    <3>1. r \in Seq(S) /\ Len(r) = k - 1
      BY <1>5, Zenon
    <3>2. DOMAIN r = 1 .. Len(r)
      BY <3>1, LenProperties
    <3>3. QED BY <3>1, <3>2, Zenon
  <2>2. QED BY <1>2, <1>4, <1>5, <2>1, Zenon
<1> HIDE DEF k
<1>7. ASSUME NEW j \in 1 .. k - 1
      PROVE  r[j] = IF j < i THEN s[j] ELSE s[j + 1]
  <2>1. r[j] = IF j <= i - 1 THEN before[j] ELSE after[j - (i - 1)]
    BY <1>6
  <2>2. CASE j < i
    <3>1. j \in 1 .. i - 1 /\ j <= i - 1
      BY <1>1, <2>2
    <3>2. QED BY <1>2, <2>1, <2>2, <3>1
  <2>3. CASE ~(j < i)
    <3>1. /\ j - (i - 1) \in 1 .. k - i /\ i + (j - (i - 1)) = j + 1
          /\ ~(j <= i - 1)
      BY <1>1, <2>3
    <3>2. after[j - (i - 1)] = s[i + (j - (i - 1))]
      BY <1>3, <3>1
    <3>3. QED BY <2>1, <2>3, <3>1, <3>2
  <2>4. QED BY <2>2, <2>3
<1>8. QED BY <1>5, <1>6, <1>7 DEF k, Without

(* A message dropped, overtaken or repeated is counted: from then on only  *)
(* order is promised.                                                      *)
LEMMA FaultKeeps ==
  ASSUME StreamInv,
         \/ Stream!Drop
         \/ \E i \in DOMAIN wire : Stream!Overtake(i)
         \/ \E i \in DOMAIN wire : Stream!Repeat(i)
  PROVE  StreamInv'
<1>1. /\ wire \in Seq(Stream!Acks \cup Stream!Events)
      /\ \A i \in DOMAIN wire : MessageSound(wire[i])
  BY DEF StreamInv, WireInv
<1>2. Stream!Fault /\ UNCHANGED <<ring, recorded, sub>>
  BY DEF Stream!Drop, Stream!Overtake, Stream!Repeat
<1>3. RingInv' /\ CarriedInv'
  <2>1. faults' \in Nat /\ faults' # 0
    BY <1>2 DEF StreamInv, RingInv, Stream!Fault
  <2>2. QED BY <1>2, <2>1 DEF StreamInv, RingInv, CarriedInv
<1>4. \A m : MessageSound(m) => MessageSound(m)'
  BY <1>2 DEF MessageSound, AckSound
<1>5. CASE Stream!Drop
  <2>1. wire # <<>> /\ wire' = Tail(wire) /\ UNCHANGED <<mark, ack, taken>>
    BY <1>5 DEF Stream!Drop
  <2>2. WireInv'
    BY <1>2, <2>1, TailKeeps
  <2>3. ClientInv'
    BY <1>2, <2>1 DEF StreamInv, ClientInv, AckSound
  <2>4. QED BY <1>3, <2>2, <2>3 DEF StreamInv
<1>6. ASSUME NEW i \in DOMAIN wire, Stream!Overtake(i) PROVE StreamInv'
  <2>1. Stream!Arrives(wire[i]) /\ wire' = SubSeq(wire, 1, i - 1) \o SubSeq(wire, i + 1, Len(wire))
    BY <1>6 DEF Stream!Overtake, Stream!RemoveAt
  <2>2. /\ Len(wire) \in Nat /\ DOMAIN wire = 1 .. Len(wire) /\ i \in 1 .. Len(wire)
        /\ wire[i] \in Stream!Acks \cup Stream!Events
    BY <1>1
  <2>3. ClientInv'
    BY <1>1, <1>2, <2>1, <2>2, ArrivesKeeps
  <2>4. /\ wire' \in Seq(Stream!Acks \cup Stream!Events)
        /\ DOMAIN wire' = 1 .. Len(wire) - 1
        /\ \A j \in DOMAIN wire' : wire'[j] = IF j < i THEN wire[j] ELSE wire[j + 1]
    <3> DEFINE s == wire
               r == wire'
               S == Stream!Acks \cup Stream!Events
    <3>1. s \in Seq(S) /\ i \in 1 .. Len(s)
      BY <1>1, <2>2
    <3>2. r = SubSeq(s, 1, i - 1) \o SubSeq(s, i + 1, Len(s))
      BY <2>1
    <3> HIDE DEF s, r, S
    <3>3. Without(r, s, i, S)
      BY <3>1, <3>2, RemoveFacts, Zenon
    <3>4. QED BY <3>3 DEF s, r, S, Without
  <2>5. \A j \in DOMAIN wire' : MessageSound(wire'[j])
    <3>1. \A j \in DOMAIN wire' : j \in DOMAIN wire /\ j + 1 \in DOMAIN wire
      BY <2>2, <2>4
    <3>2. QED BY <1>1, <2>4, <3>1
  <2>6. WireInv'
    <3>1. (\A j \in DOMAIN wire : MessageSound(wire[j]))'
      BY <1>4, <2>5
    <3>2. QED BY <2>4, <3>1 DEF WireInv
  <2>7. QED BY <1>3, <2>3, <2>6 DEF StreamInv
<1>7. ASSUME NEW i \in DOMAIN wire, Stream!Repeat(i) PROVE StreamInv'
  <2>1. Stream!Arrives(wire[i]) /\ wire' = wire
    BY <1>7 DEF Stream!Repeat
  <2>2. wire[i] \in Stream!Acks \cup Stream!Events
    BY <1>1
  <2>3. ClientInv'
    BY <1>1, <1>2, <2>1, <2>2, ArrivesKeeps
  <2>4. WireInv'
    BY <1>2, <2>1 DEF StreamInv, WireInv, MessageSound, AckSound
  <2>5. QED BY <1>3, <2>3, <2>4 DEF StreamInv
<1>8. QED BY <1>5, <1>6, <1>7
-----------------------------------------------------------------------------
(* The pages of readings and concerns.  A recursive function exists: one   *)
(* value per step, each made of the one before.                            *)
StepsIn(n, V, G) == \A i \in 1 .. n : \A v \in V : G[<<i, v>>] \in V
Recursion(n, V, base, G, f) ==
  f \in [0 .. n -> V] /\ f[0] = base /\ \A i \in 1 .. n : f[i] = G[<<i, f[i - 1]>>]

LEMMA RecursionExists ==
  ASSUME NEW n \in Nat, NEW V, NEW base \in V, NEW G, StepsIn(n, V, G)
  PROVE  \E f : Recursion(n, V, base, G, f)
<1> DEFINE Upto(m, f) == Recursion(m, V, base, G, f)
           D == {m \in 0 .. n : \E f : Upto(m, f)}
<1>1. 0 \in D
  <2>1. Upto(0, [m \in 0 .. 0 |-> base])
    BY DEF Recursion
  <2> HIDE DEF Upto
  <2>2. QED BY <2>1
<1>2. ASSUME NEW m \in 0 .. n - 1, m \in D PROVE m + 1 \in D
  <2>1. PICK f : /\ f \in [0 .. m -> V] /\ f[0] = base
                 /\ \A i \in 1 .. m : f[i] = G[<<i, f[i - 1]>>]
    BY <1>2 DEF Recursion
  <2> DEFINE g == [i \in 0 .. m + 1 |-> IF i = m + 1 THEN G[<<i, f[m]>>] ELSE f[i]]
  <2>2. G[<<m + 1, f[m]>>] \in V
    <3>1. m + 1 \in 1 .. n /\ f[m] \in V
      BY <2>1
    <3>2. QED BY <3>1 DEF StepsIn
  <2>3. g \in [0 .. m + 1 -> V]
    BY <2>1, <2>2
  <2>4. g[0] = base
    BY <2>1
  <2>5. ASSUME NEW i \in 1 .. m + 1 PROVE g[i] = G[<<i, g[i - 1]>>]
    <3>1. CASE i = m + 1
      <4>1. i - 1 = m /\ g[m] = f[m]
        BY <3>1
      <4>2. g[i] = G[<<i, f[m]>>]
        BY <3>1
      <4> HIDE DEF g
      <4>3. QED BY <4>1, <4>2
    <3>2. CASE i \in 1 .. m
      <4>1. g[i] = f[i] /\ g[i - 1] = f[i - 1]
        BY <3>2
      <4> HIDE DEF g
      <4>2. QED BY <2>1, <3>2, <4>1
    <3>3. QED BY <3>1, <3>2
  <2>6. Upto(m + 1, g)
    BY <2>3, <2>4, <2>5 DEF Recursion
  <2> HIDE DEF Upto, g
  <2>7. m + 1 \in 0 .. n
    OBVIOUS
  <2>8. QED BY <2>6, <2>7
<1> HIDE DEF D
<1>3. n \in D
  BY <1>1, <1>2, EachUpTo
<1>4. QED BY <1>3 DEF D

(* The rows from a cursor up to an end, in ascending order.                *)
Between(from, end) == [i \in 1 .. end - from |-> from + i - 1]

BuildStep(what, from, page, s) ==
  IF s < from \/ page.next # 0 THEN page
  ELSE IF what = "concerns" THEN Hot!push_concern(page, s)
  ELSE IF s \in series THEN Hot!push_series(page, s)
  ELSE Hot!push_sample(page, s)

Pages == [rows : Seq(Hot!Sigs), next : 0 .. LastSig]

LEMMA BuildStepFacts ==
  ASSUME NEW what, NEW from, NEW page, NEW s
  PROVE  /\ s < from \/ page.next # 0 => BuildStep(what, from, page, s) = page
         /\ ~(s < from \/ page.next # 0) =>
              \/ BuildStep(what, from, page, s) = [page EXCEPT !.rows = Append(@, s)]
              \/ BuildStep(what, from, page, s) = [page EXCEPT !.next = s]
<1>1. \/ Hot!push_concern(page, s) = [page EXCEPT !.rows = Append(@, s)]
      \/ Hot!push_concern(page, s) = [page EXCEPT !.next = s]
  BY DEF Hot!push_concern, Hot!Take, Hot!Full
<1>2. \/ Hot!push_series(page, s) = [page EXCEPT !.rows = Append(@, s)]
      \/ Hot!push_series(page, s) = [page EXCEPT !.next = s]
  BY DEF Hot!push_series, Hot!Take, Hot!Full
<1>3. \/ Hot!push_sample(page, s) = [page EXCEPT !.rows = Append(@, s)]
      \/ Hot!push_sample(page, s) = [page EXCEPT !.next = s]
  BY DEF Hot!push_sample, Hot!Take, Hot!Full
<1>4. QED BY <1>1, <1>2, <1>3 DEF BuildStep

LEMMA BuiltSteps ==
  ASSUME NEW what, NEW from
  PROVE  \E f : /\ f[0] = Hot!NewPage /\ f[LastSig] = Hot!Built(what, from)
                /\ \A s \in Hot!Sigs : f[s] = BuildStep(what, from, f[s - 1], s)
<1> DEFINE Values(f) == f = [s \in 0 .. LastSig |->
                               IF s = 0 THEN Hot!NewPage ELSE BuildStep(what, from, f[s - 1], s)]
           G == [x \in (1 .. LastSig) \X Pages |-> BuildStep(what, from, x[2], x[1])]
<1>1. LastSig \in Nat
  BY SignalAssumption
<1>2. Hot!NewPage \in Pages
  BY <1>1 DEF Hot!NewPage, Pages
<1>3. ASSUME NEW i \in 1 .. LastSig, NEW v \in Pages
      PROVE  G[<<i, v>>] = BuildStep(what, from, v, i) /\ G[<<i, v>>] \in Pages
  <2>1. G[<<i, v>>] = BuildStep(what, from, v, i)
    OBVIOUS
  <2>2. [v EXCEPT !.rows = Append(@, i)] \in Pages /\ [v EXCEPT !.next = i] \in Pages
    <3>1. v.rows \in Seq(Hot!Sigs) /\ v.next \in 0 .. LastSig /\ i \in Hot!Sigs
      BY DEF Pages, Hot!Sigs
    <3>2. Append(v.rows, i) \in Seq(Hot!Sigs) /\ i \in 0 .. LastSig
      BY <1>1, <3>1
    <3>3. QED BY <3>1, <3>2 DEF Pages
  <2>3. BuildStep(what, from, v, i) \in Pages
    BY <2>2, BuildStepFacts
  <2>4. QED BY <2>1, <2>3
<1> HIDE DEF G
<1>4. PICK f : Recursion(LastSig, Pages, Hot!NewPage, G, f)
  <2>1. StepsIn(LastSig, Pages, G)
    BY <1>3, Zenon DEF StepsIn
  <2>2. QED BY <1>1, <1>2, <2>1, RecursionExists
<1>5. Values(f)
  <2>1. /\ f \in [0 .. LastSig -> Pages] /\ f[0] = Hot!NewPage
        /\ \A i \in 1 .. LastSig : f[i] = G[<<i, f[i - 1]>>]
    BY <1>4 DEF Recursion
  <2>2. ASSUME NEW s \in 0 .. LastSig
        PROVE  f[s] = IF s = 0 THEN Hot!NewPage ELSE BuildStep(what, from, f[s - 1], s)
    <3>1. CASE s = 0
      BY <2>1, <3>1
    <3>2. CASE s # 0
      <4>1. s \in 1 .. LastSig /\ f[s - 1] \in Pages
        BY <1>1, <2>1, <3>2
      <4>2. QED BY <1>3, <2>1, <3>2, <4>1
    <3>3. QED BY <3>1, <3>2
  <2>3. QED BY <2>1, <2>2
<1> DEFINE h == CHOOSE g : Values(g)
<1>6. Values(h)
  <2> HIDE DEF Values
  <2>1. QED BY <1>5
<1>7. Hot!Built(what, from) = h[LastSig]
  BY DEF Hot!Built, BuildStep
<1> HIDE DEF h
<1>8. h[0] = Hot!NewPage /\ \A s \in Hot!Sigs : h[s] = BuildStep(what, from, h[s - 1], s)
  BY <1>1, <1>6 DEF Hot!Sigs
<1>9. QED BY <1>7, <1>8

(* A page holds the rows from the cursor on, in order, up to the one that  *)
(* did not fit, which is the cursor it hands back, or else to the last.    *)
LEMMA BuiltFacts ==
  ASSUME NEW what, NEW from \in 1 .. LastSig + 1
  PROVE  \E end \in from .. LastSig + 1 :
           /\ Hot!Built(what, from).rows = Between(from, end)
           /\ \/ Hot!Built(what, from).next = 0 /\ end = LastSig + 1
              \/ Hot!Built(what, from).next = end /\ end \in Hot!Sigs
<1>1. LastSig \in Nat
  BY SignalAssumption
<1>2. PICK f : /\ f[0] = Hot!NewPage /\ f[LastSig] = Hot!Built(what, from)
               /\ \A s \in Hot!Sigs : f[s] = BuildStep(what, from, f[s - 1], s)
  BY BuiltSteps
<1> DEFINE Reached(page, s) ==
             \E end \in from .. LastSig + 1 :
               /\ page = [rows |-> Between(from, end), next |-> page.next]
               /\ \/ page.next = 0 /\ end = IF s < from THEN from ELSE s + 1
                  \/ page.next = end /\ end \in 1 .. s
           D == {s \in 0 .. LastSig : Reached(f[s], s)}
<1>3. 0 \in D
  <2>1. Between(from, from) = <<>>
    BY <1>1 DEF Between
  <2>2. f[0] = [rows |-> Between(from, from), next |-> 0]
    BY <1>2, <2>1 DEF Hot!NewPage
  <2>3. QED BY <1>1, <2>2
<1>4. ASSUME NEW s \in 0 .. LastSig - 1, s \in D PROVE s + 1 \in D
  <2>1. PICK end \in from .. LastSig + 1 :
          /\ f[s] = [rows |-> Between(from, end), next |-> f[s].next]
          /\ \/ f[s].next = 0 /\ end = IF s < from THEN from ELSE s + 1
             \/ f[s].next = end /\ end \in 1 .. s
    BY <1>4
  <2>2. s + 1 \in Hot!Sigs /\ (s + 1) - 1 = s
    BY <1>1 DEF Hot!Sigs
  <2>3. f[s + 1] = BuildStep(what, from, f[s], s + 1)
    BY <1>2, <2>2
  <2>4. CASE s + 1 < from \/ f[s].next # 0
    <3>1. f[s + 1] = f[s]
      BY <2>3, <2>4, BuildStepFacts
    <3>2. QED BY <1>1, <2>1, <2>4, <3>1
  <2>5. CASE ~(s + 1 < from \/ f[s].next # 0)
    <3>1. end = s + 1 /\ f[s] = [rows |-> Between(from, s + 1), next |-> 0]
      BY <1>1, <2>1, <2>5
    <3>2. Append(Between(from, s + 1), s + 1) = Between(from, s + 2)
      <4>1. from \in Nat /\ s \in Nat /\ from <= s + 1
        BY <1>1, <2>5
      <4>2. QED BY <4>1 DEF Between
    <3>3. \/ f[s + 1] = [rows |-> Between(from, s + 2), next |-> 0]
          \/ f[s + 1] = [rows |-> Between(from, s + 1), next |-> s + 1]
      BY <2>3, <2>5, <3>1, <3>2, BuildStepFacts
    <3>4. s + 2 \in from .. LastSig + 1 /\ s + 1 \in from .. LastSig + 1
      BY <1>1, <2>5
    <3>5. QED BY <1>1, <2>5, <3>3, <3>4
  <2>6. QED BY <2>4, <2>5
<1> HIDE DEF D
<1>5. LastSig \in D
  BY <1>1, <1>3, <1>4, EachUpTo
<1>6. Reached(f[LastSig], LastSig)
  BY <1>5 DEF D
<1>7. QED BY <1>1, <1>2, <1>6 DEF Hot!Sigs

(* One array of a page carries every row of its kind, each once.           *)
PutStep(rows, isSeries, put, i) ==
  IF (rows[i] \in series) = isSeries THEN Append(put, rows[i]) ELSE put

Carried(put, rows, isSeries, k) ==
  /\ put \in Seq(Hot!Sigs)
  /\ \A s \in Hot!Sigs :
       (\E j \in DOMAIN put : put[j] = s) <=>
       ((s \in series) = isSeries /\ \E i \in 1 .. k : rows[i] = s)
  /\ \A i, j \in DOMAIN put : put[i] = put[j] => i = j

LEMMA ArraySteps ==
  ASSUME NEW page, page.rows \in Seq(Hot!Sigs), NEW isSeries
  PROVE  \E f : /\ f[0] = <<>> /\ f[Len(page.rows)] = Hot!encode_array(page, isSeries)
                /\ \A i \in 1 .. Len(page.rows) :
                     f[i] = PutStep(page.rows, isSeries, f[i - 1], i)
<1> DEFINE n == Len(page.rows)
           Values(f) == f = [i \in 0 .. n |-> IF i = 0 THEN <<>>
                                              ELSE PutStep(page.rows, isSeries, f[i - 1], i)]
           Lists == Seq(Hot!Sigs)
           G == [x \in (1 .. n) \X Lists |-> PutStep(page.rows, isSeries, x[2], x[1])]
<1>1. n \in Nat
  OBVIOUS
<1>2. <<>> \in Lists
  OBVIOUS
<1>3. ASSUME NEW i \in 1 .. n, NEW v \in Lists
      PROVE  G[<<i, v>>] = PutStep(page.rows, isSeries, v, i) /\ G[<<i, v>>] \in Lists
  <2>1. G[<<i, v>>] = PutStep(page.rows, isSeries, v, i)
    OBVIOUS
  <2>2. page.rows[i] \in Hot!Sigs
    OBVIOUS
  <2>3. PutStep(page.rows, isSeries, v, i) \in Lists
    BY <2>2 DEF PutStep
  <2>4. QED BY <2>1, <2>3
<1> HIDE DEF G, n, Lists
<1>4. PICK f : Recursion(n, Lists, <<>>, G, f)
  <2>1. StepsIn(n, Lists, G)
    BY <1>3, Zenon DEF StepsIn
  <2>2. QED BY <1>1, <1>2, <2>1, RecursionExists
<1>5. Values(f)
  <2>1. /\ f \in [0 .. n -> Lists] /\ f[0] = <<>>
        /\ \A i \in 1 .. n : f[i] = G[<<i, f[i - 1]>>]
    BY <1>4 DEF Recursion
  <2>2. ASSUME NEW i \in 0 .. n
        PROVE  f[i] = IF i = 0 THEN <<>> ELSE PutStep(page.rows, isSeries, f[i - 1], i)
    <3>1. CASE i = 0
      BY <2>1, <3>1
    <3>2. CASE i # 0
      <4>1. i \in 1 .. n /\ f[i - 1] \in Lists
        BY <1>1, <2>1, <3>2
      <4>2. QED BY <1>3, <2>1, <3>2, <4>1
    <3>3. QED BY <3>1, <3>2
  <2>3. QED BY <2>1, <2>2
<1> DEFINE h == CHOOSE g : Values(g)
<1>6. Values(h)
  <2> HIDE DEF Values
  <2>1. QED BY <1>5
<1>7. Hot!encode_array(page, isSeries) = h[n]
  BY DEF Hot!encode_array, PutStep, n
<1> HIDE DEF h
<1>8. h[0] = <<>> /\ \A i \in 1 .. n : h[i] = PutStep(page.rows, isSeries, h[i - 1], i)
  BY <1>1, <1>6
<1>9. QED BY <1>7, <1>8 DEF n

LEMMA ArrayFacts ==
  ASSUME NEW page, page.rows \in Seq(Hot!Sigs), NEW isSeries,
         \A i, j \in DOMAIN page.rows : page.rows[i] = page.rows[j] => i = j
  PROVE  Carried(Hot!encode_array(page, isSeries), page.rows, isSeries, Len(page.rows))
<1> DEFINE rows == page.rows
           n == Len(rows)
<1>1. PICK f : /\ f[0] = <<>> /\ f[n] = Hot!encode_array(page, isSeries)
               /\ \A i \in 1 .. n : f[i] = PutStep(rows, isSeries, f[i - 1], i)
  BY ArraySteps
<1>2. n \in Nat /\ \A i \in 1 .. n : rows[i] \in Hot!Sigs
  OBVIOUS
<1>3. \A i, j \in 1 .. n : rows[i] = rows[j] => i = j
  OBVIOUS
<1> HIDE DEF rows, n
<1> DEFINE D == {k \in 0 .. n : Carried(f[k], rows, isSeries, k)}
<1>4. 0 \in D
  <2>1. f[0] \in Seq(Hot!Sigs) /\ DOMAIN f[0] = {} /\ 1 .. 0 = {}
    BY <1>1
  <2>2. QED BY <1>2, <2>1 DEF Carried
<1>5. ASSUME NEW k \in 0 .. n - 1, k \in D PROVE k + 1 \in D
  <2>1. k + 1 \in 1 .. n /\ (k + 1) - 1 = k /\ k + 1 \in 0 .. n
    BY <1>2
  <2>2. f[k + 1] = PutStep(rows, isSeries, f[k], k + 1)
    BY <1>1, <2>1
  <2>3. Carried(f[k], rows, isSeries, k)
    BY <1>5
  <2>4. rows[k + 1] \in Hot!Sigs /\ \A i \in 1 .. k : rows[i] # rows[k + 1]
    BY <1>2, <1>3, <2>1
  <2>5. \A s : (\E i \in 1 .. k + 1 : rows[i] = s) <=> (\E i \in 1 .. k : rows[i] = s) \/ rows[k + 1] = s
    <3>1. \A i : i \in 1 .. k + 1 <=> (i \in 1 .. k \/ i = k + 1)
      BY <1>2
    <3>2. QED BY <3>1
  <2>6. CASE (rows[k + 1] \in series) = isSeries
    <3> DEFINE put == f[k]
               more == Append(put, rows[k + 1])
    <3>1. f[k + 1] = more
      BY <2>2, <2>6 DEF PutStep
    <3>2. put \in Seq(Hot!Sigs)
      BY <2>3 DEF Carried
    <3>3. /\ more \in Seq(Hot!Sigs) /\ DOMAIN more = DOMAIN put \cup {Len(put) + 1}
          /\ Len(put) + 1 \notin DOMAIN put
          /\ \A j \in DOMAIN put : more[j] = put[j]
          /\ more[Len(put) + 1] = rows[k + 1]
      BY <2>4, <3>2
    <3>4. \A j \in DOMAIN put : put[j] \in Hot!Sigs
      BY <3>2
    <3> HIDE DEF put, more
    <3>5. \A j \in DOMAIN put : put[j] # rows[k + 1]
      BY <2>3, <2>4, <3>4 DEF Carried, put
    <3>6. \A i, j \in DOMAIN more : more[i] = more[j] => i = j
      BY <2>3, <3>3, <3>5 DEF Carried, put
    <3>7. ASSUME NEW s \in Hot!Sigs
          PROVE  (\E j \in DOMAIN more : more[j] = s) <=>
                 ((s \in series) = isSeries /\ \E i \in 1 .. k + 1 : rows[i] = s)
      <4>1. (\E j \in DOMAIN more : more[j] = s) <=> (\E j \in DOMAIN put : put[j] = s) \/ rows[k + 1] = s
        BY <3>3
      <4>2. (\E j \in DOMAIN put : put[j] = s) <=>
            ((s \in series) = isSeries /\ \E i \in 1 .. k : rows[i] = s)
        BY <2>3 DEF Carried, put
      <4>3. rows[k + 1] = s => (s \in series) = isSeries
        BY <2>6
      <4>4. QED BY <2>5, <4>1, <4>2, <4>3
    <3>8. Carried(more, rows, isSeries, k + 1)
      BY <3>3, <3>6, <3>7 DEF Carried
    <3>9. QED BY <2>1, <3>1, <3>8
  <2>7. CASE (rows[k + 1] \in series) # isSeries
    <3>1. f[k + 1] = f[k]
      BY <2>2, <2>7 DEF PutStep
    <3>2. ASSUME NEW s \in Hot!Sigs
          PROVE  ((s \in series) = isSeries /\ \E i \in 1 .. k + 1 : rows[i] = s) <=>
                 ((s \in series) = isSeries /\ \E i \in 1 .. k : rows[i] = s)
      BY <2>5, <2>7
    <3>3. Carried(f[k], rows, isSeries, k + 1)
      BY <2>3, <3>2 DEF Carried
    <3>4. QED BY <2>1, <3>1, <3>3
  <2>8. QED BY <2>6, <2>7
<1> HIDE DEF D
<1>6. n \in D
  <2>1. n \in Nat /\ n \in 0 .. n
    BY <1>2
  <2>2. \A k \in 0 .. n : k \in D
    BY <1>4, <1>5, <2>1, EachUpTo
  <2>3. QED BY <2>1, <2>2
<1>7. Carried(f[n], rows, isSeries, n)
  BY <1>6 DEF D
<1>8. QED BY <1>1, <1>7 DEF n, rows

(* Where a value stands in two lists put end to end.                       *)
Places(list, s) == {i \in DOMAIN list : list[i] = s}

LEMMA PlacesJoined ==
  ASSUME NEW S, NEW a \in Seq(S), NEW b \in Seq(S), NEW s,
         \A i, j \in DOMAIN a : a[i] = a[j] => i = j,
         \A i, j \in DOMAIN b : b[i] = b[j] => i = j,
         Places(a, s) = {} \/ Places(b, s) = {}
  PROVE  Cardinality(Places(a \o b, s)) =
           IF Places(a, s) = {} /\ Places(b, s) = {} THEN 0 ELSE 1
<1> DEFINE m == Len(a)
           n == Len(b)
           rows == a \o b
<1>1. /\ m \in Nat /\ n \in Nat /\ DOMAIN a = 1 .. m /\ DOMAIN b = 1 .. n
      /\ DOMAIN rows = 1 .. m + n
  OBVIOUS
<1>2. ASSUME NEW i \in 1 .. m PROVE rows[i] = a[i]
  OBVIOUS
<1>3. ASSUME NEW i \in 1 .. n PROVE rows[m + i] = b[i]
  OBVIOUS
<1> HIDE DEF m, n, rows
<1>4. ASSUME NEW i \in m + 1 .. m + n PROVE i - m \in 1 .. n /\ rows[i] = b[i - m]
  <2>1. i - m \in 1 .. n /\ m + (i - m) = i
    BY <1>1
  <2>2. rows[m + (i - m)] = b[i - m]
    BY <1>3, <2>1
  <2>3. QED BY <2>1, <2>2
<1>5. \A i \in DOMAIN rows : i \in 1 .. m \/ i \in m + 1 .. m + n
  BY <1>1
<1>6. CASE Places(b, s) = {}
  <2>1. Places(rows, s) = Places(a, s)
    <3>1. ASSUME NEW i \in DOMAIN rows, rows[i] = s PROVE i \in Places(a, s)
      <4>1. i \notin m + 1 .. m + n
        <5>1. SUFFICES ASSUME i \in m + 1 .. m + n PROVE FALSE
          OBVIOUS
        <5>2. i - m \in Places(b, s)
          BY <1>1, <1>4, <3>1, <5>1 DEF Places
        <5>3. QED BY <1>6, <5>2
      <4>2. i \in 1 .. m
        BY <1>5, <4>1
      <4>3. QED BY <1>1, <1>2, <3>1, <4>2 DEF Places
    <3>2. ASSUME NEW i \in Places(a, s) PROVE i \in DOMAIN rows /\ rows[i] = s
      BY <1>1, <1>2 DEF Places
    <3>3. QED BY <3>1, <3>2 DEF Places
  <2>2. CASE Places(a, s) = {}
    BY <1>6, <2>1, <2>2, FS_EmptySet DEF rows
  <2>3. CASE Places(a, s) # {}
    <3>1. \A i, j \in Places(a, s) : i = j
      BY DEF Places
    <3>2. PICK i : Places(a, s) = {i}
      BY <2>3, <3>1
    <3>3. Cardinality({i}) = 1
      BY FS_Singleton
    <3>4. QED BY <2>1, <2>3, <3>2, <3>3 DEF rows
  <2>4. QED BY <2>2, <2>3
<1>7. CASE Places(a, s) = {} /\ Places(b, s) # {}
  <2>1. PICK k : Places(b, s) = {k}
    <3>1. \A i, j \in Places(b, s) : i = j
      BY DEF Places
    <3>2. PICK i \in Places(b, s) : TRUE
      BY <1>7
    <3> HIDE DEF n
    <3>3. Places(b, s) = {i}
      BY <3>1, <3>2
    <3>4. QED BY <3>3
  <2>2. k \in 1 .. n /\ b[k] = s
    BY <1>1, <2>1 DEF Places
  <2>3. Places(rows, s) = {m + k}
    <3>1. ASSUME NEW i \in DOMAIN rows, rows[i] = s PROVE i = m + k
      <4>1. i \notin 1 .. m
        <5>1. SUFFICES ASSUME i \in 1 .. m PROVE FALSE
          OBVIOUS
        <5>2. i \in Places(a, s)
          BY <1>1, <1>2, <3>1, <5>1 DEF Places
        <5>3. QED BY <1>7, <5>2
      <4>2. i \in m + 1 .. m + n
        BY <1>5, <4>1
      <4>3. i - m \in Places(b, s)
        BY <1>1, <1>4, <3>1, <4>2 DEF Places
      <4>4. i - m = k
        BY <2>1, <4>3
      <4>5. QED BY <1>1, <4>2, <4>4
    <3>2. m + k \in DOMAIN rows /\ rows[m + k] = s
      BY <1>1, <1>3, <2>2
    <3>3. QED BY <3>1, <3>2 DEF Places
  <2>4. Cardinality({m + k}) = 1
    BY FS_Singleton
  <2>5. QED BY <1>7, <2>3, <2>4 DEF rows
<1>8. QED BY <1>6, <1>7

(* HotPlane counts as this module does.                                    *)
LEMMA SameCount ==
  ASSUME NEW S
  PROVE  Hot!Cardinality(S) = Cardinality(S)
BY DEF Hot!Cardinality, Cardinality

(* The two arrays of a page together carry each of its rows once, and no   *)
(* other.                                                                  *)
RowsOf(page) == Hot!encode_array(page, FALSE) \o Hot!encode_array(page, TRUE)
Times(page, s) == Hot!Cardinality({i \in DOMAIN RowsOf(page) : RowsOf(page)[i] = s})
CarriesFrom(from, page, s) ==
  /\ page.next = 0 \/ (page.next \in Hot!Sigs /\ from <= page.next)
  /\ Times(page, s) = IF from <= s /\ (page.next = 0 \/ s < page.next) THEN 1 ELSE 0

LEMMA PageCarries ==
  ASSUME NEW what, NEW from \in 1 .. LastSig + 1, NEW s \in Hot!Sigs
  PROVE  CarriesFrom(from, Hot!Built(what, from), s)
<1> DEFINE page == Hot!Built(what, from)
           rows == RowsOf(page)
<1>1. LastSig \in Nat
  BY SignalAssumption
<1>2. PICK end \in from .. LastSig + 1 :
        /\ page.rows = Between(from, end)
        /\ \/ page.next = 0 /\ end = LastSig + 1
           \/ page.next = end /\ end \in Hot!Sigs
  BY BuiltFacts
<1> HIDE DEF page, rows
<1>3. end - from \in Nat /\ from \in Nat /\ end \in Nat /\ s \in Nat
  BY <1>1 DEF Hot!Sigs
<1>4. ASSUME NEW i \in 1 .. end - from PROVE page.rows[i] = from + i - 1 /\ page.rows[i] \in Hot!Sigs
  BY <1>1, <1>2, <1>3 DEF Between, Hot!Sigs
<1>5. /\ page.rows \in Seq(Hot!Sigs) /\ Len(page.rows) = end - from
      /\ DOMAIN page.rows = 1 .. end - from
  <2>1. page.rows = [i \in 1 .. end - from |-> page.rows[i]]
    BY <1>2 DEF Between
  <2> DEFINE n == end - from
             r == page.rows
  <2>2. n \in Nat /\ r \in [1 .. n -> Hot!Sigs]
    BY <1>3, <1>4, <2>1
  <2> HIDE DEF n, r
  <2>3. r \in Seq(Hot!Sigs) /\ Len(r) = n /\ DOMAIN r = 1 .. n
    BY <2>2
  <2>4. QED BY <2>3 DEF n, r
<1>6. \A i, j \in DOMAIN page.rows : page.rows[i] = page.rows[j] => i = j
  BY <1>3, <1>4, <1>5
<1>7. (\E i \in 1 .. Len(page.rows) : page.rows[i] = s) <=> from <= s /\ s < end
  <2>1. ASSUME from <= s, s < end PROVE page.rows[s - from + 1] = s /\ s - from + 1 \in 1 .. end - from
    BY <1>3, <1>4, <2>1
  <2>2. ASSUME NEW i \in 1 .. end - from, page.rows[i] = s PROVE from <= s /\ s < end
    BY <1>3, <1>4, <2>2
  <2>3. QED BY <1>5, <2>1, <2>2
<1>8. (from <= s /\ s < end) <=> from <= s /\ (page.next = 0 \/ s < page.next)
  BY <1>1, <1>2 DEF Hot!Sigs
<1> DEFINE a == Hot!encode_array(page, FALSE)
           b == Hot!encode_array(page, TRUE)
<1>9. Carried(a, page.rows, FALSE, Len(page.rows)) /\ Carried(b, page.rows, TRUE, Len(page.rows))
  BY <1>5, <1>6, ArrayFacts
<1>10. rows = a \o b /\ Times(page, s) = Cardinality(Places(rows, s))
  BY SameCount DEF rows, RowsOf, Times, Places
<1> HIDE DEF a, b
<1>11. (s \in series) = FALSE <=> s \notin series
  OBVIOUS
<1>12. (s \in series) = TRUE <=> s \in series
  OBVIOUS
<1>13. Places(a, s) # {} <=> (s \notin series /\ from <= s /\ s < end)
  <2>1. Places(a, s) # {} <=> \E j \in DOMAIN a : a[j] = s
    BY DEF Places
  <2>2. QED BY <1>7, <1>9, <1>11, <2>1 DEF Carried
<1>14. Places(b, s) # {} <=> (s \in series /\ from <= s /\ s < end)
  <2>1. Places(b, s) # {} <=> \E j \in DOMAIN b : b[j] = s
    BY DEF Places
  <2>2. QED BY <1>7, <1>9, <1>12, <2>1 DEF Carried
<1>15. Cardinality(Places(rows, s)) = IF from <= s /\ s < end THEN 1 ELSE 0
  <2>1. /\ a \in Seq(Hot!Sigs) /\ b \in Seq(Hot!Sigs)
        /\ \A i, j \in DOMAIN a : a[i] = a[j] => i = j
        /\ \A i, j \in DOMAIN b : b[i] = b[j] => i = j
    BY <1>9 DEF Carried
  <2>2. Cardinality(Places(a \o b, s)) =
          IF Places(a, s) = {} /\ Places(b, s) = {} THEN 0 ELSE 1
    BY <1>13, <1>14, <2>1, PlacesJoined
  <2>3. QED BY <1>10, <1>13, <1>14, <2>2
<1>16. page.next = 0 \/ (page.next \in Hot!Sigs /\ from <= page.next)
  <2>1. from <= end
    BY <1>1
  <2>2. QED BY <1>2, <2>1
<1>17. Cardinality(Places(rows, s)) =
         IF from <= s /\ (page.next = 0 \/ s < page.next) THEN 1 ELSE 0
  BY <1>8, <1>15
<1>18. QED BY <1>10, <1>16, <1>17 DEF CarriesFrom, page

(* A counter's run is the last total published, called a reset when it     *)
(* fell; a walk was given each row before its cursor once and none after.  *)
CounterInv ==
  /\ total \in [Hot!Sigs -> Int] /\ run \in [Hot!Sigs -> Int]
  /\ sent \in [Hot!Sigs -> [was : Int, now : Int, called : {"Ok", "Reset"}]]
  /\ \A s \in Hot!Sigs :
       /\ run[s] = sent[s].now /\ -1 <= run[s]
       /\ (sent[s].called = "Reset") <=> (sent[s].now < sent[s].was)

Walks == [what : {"none", "readings", "concerns"}, from : 0 .. LastSig + 1, got : [Hot!Sigs -> Int]]

RowsInv ==
  /\ walk \in Walks
  /\ walk.what # "none" =>
       \A s \in Hot!Sigs :
         walk.got[s] = IF walk.from = 0 \/ s < walk.from THEN 1 ELSE 0

HotInv == CounterInv /\ RowsInv

LEMMA PageCounts ==
  ASSUME CounterInv, NEW arrives, Hot!Page(arrives)
  PROVE  CounterInv'
<1> DEFINE page == Hot!Built(walk.what, walk.from)
           counters == IF walk.what = "readings" THEN Hot!OnTheWire(page) \ series ELSE {}
<1>1. /\ run' = [s \in Hot!Sigs |-> IF s \in counters THEN Hot!published(run[s], total[s])
                                    ELSE run[s]]
      /\ sent' = [s \in Hot!Sigs |->
           IF s \in counters /\ Hot!judge(run[s], total[s]) # "OutOfRange"
           THEN [was |-> sent[s].now, now |-> total[s], called |-> Hot!judge(run[s], total[s])]
           ELSE sent[s]]
      /\ total' = total
  <2>1. ASSUME NEW s
        PROVE  s \in counters <=> /\ walk.what = "readings"
                                  /\ s \in {page.rows[i] : i \in DOMAIN page.rows} \ series
    BY DEF Hot!OnTheWire
  <2>2. QED BY <2>1 DEF Hot!Page, Hot!OnTheWire
<1> HIDE DEF counters
<1>2. ASSUME NEW s \in Hot!Sigs
      PROVE  /\ run'[s] \in Int /\ sent'[s] \in [was : Int, now : Int, called : {"Ok", "Reset"}]
             /\ run'[s] = sent'[s].now /\ -1 <= run'[s]
             /\ (sent'[s].called = "Reset") <=> (sent'[s].now < sent'[s].was)
  <2> DEFINE last == run[s]
             now == total[s]
  <2>1. /\ last \in Int /\ now \in Int /\ -1 <= last
        /\ sent[s] \in [was : Int, now : Int, called : {"Ok", "Reset"}] /\ last = sent[s].now
        /\ (sent[s].called = "Reset") <=> (sent[s].now < sent[s].was)
    BY DEF CounterInv
  <2>2. /\ run'[s] = IF s \in counters THEN Hot!published(last, now) ELSE last
        /\ sent'[s] = IF s \in counters /\ Hot!judge(last, now) # "OutOfRange"
                      THEN [was |-> last, now |-> now, called |-> Hot!judge(last, now)]
                      ELSE sent[s]
    BY <1>1, <2>1
  <2> HIDE DEF last, now
  <2>3. CASE s \in counters /\ now >= 0
    <3>1. /\ Hot!published(last, now) = now
          /\ Hot!judge(last, now) = IF now < last THEN "Reset" ELSE "Ok"
      BY <2>1, <2>3 DEF Hot!published, Hot!judge, Hot!None
    <3>2. /\ run'[s] = now
          /\ sent'[s] = [was |-> last, now |-> now, called |-> Hot!judge(last, now)]
      BY <2>2, <2>3, <3>1
    <3>3. Hot!judge(last, now) \in {"Ok", "Reset"} /\ (Hot!judge(last, now) = "Reset" <=> now < last)
      BY <3>1
    <3>4. sent'[s].now = now /\ sent'[s].was = last /\ sent'[s].called = Hot!judge(last, now)
      BY <3>2
    <3>5. sent'[s] \in [was : Int, now : Int, called : {"Ok", "Reset"}]
      BY <2>1, <3>2, <3>3
    <3>6. -1 <= run'[s] /\ run'[s] \in Int
      BY <2>1, <2>3, <3>2
    <3>7. QED BY <3>2, <3>3, <3>4, <3>5, <3>6
  <2>4. CASE ~(s \in counters /\ now >= 0)
    <3>1. s \in counters =>
            Hot!published(last, now) = last /\ Hot!judge(last, now) = "OutOfRange"
      BY <2>1, <2>4 DEF Hot!published, Hot!judge
    <3>2. run'[s] = last /\ sent'[s] = sent[s]
      BY <2>2, <2>4, <3>1
    <3>3. QED BY <2>1, <3>2
  <2>5. QED BY <2>3, <2>4
<1>3. run' \in [Hot!Sigs -> Int] /\ sent' \in [Hot!Sigs -> [was : Int, now : Int, called : {"Ok", "Reset"}]]
  BY <1>1, <1>2
<1>4. Hot!Sigs' = Hot!Sigs
  BY DEF Hot!Sigs
<1>5. QED BY <1>1, <1>2, <1>3 DEF CounterInv

LEMMA PageRows ==
  ASSUME RowsInv, NEW arrives, Hot!Page(arrives)
  PROVE  RowsInv'
<1> DEFINE page == Hot!Built(walk.what, walk.from)
<1>1. CASE ~arrives
  <2>1. walk' = walk
    BY <1>1 DEF Hot!Page
  <2>2. QED BY <2>1 DEF RowsInv
<1>2. CASE arrives
  <2>1. walk' = Hot!Followed(page)
    BY <1>2 DEF Hot!Page
  <2> HIDE DEF page
  <2>2. walk' = [walk EXCEPT !.from = page.next,
                   !.got = [s \in Hot!Sigs |-> walk.got[s] + Times(page, s)]]
    BY <2>1 DEF Hot!Followed, Times, RowsOf
  <2>3. /\ walk'.from = page.next /\ walk'.what = walk.what
        /\ walk'.got = [s \in Hot!Sigs |-> walk.got[s] + Times(page, s)]
        /\ walk' = [what |-> walk'.what, from |-> walk'.from, got |-> walk'.got]
    <3>1. walk = [what |-> walk.what, from |-> walk.from, got |-> walk.got]
      BY DEF RowsInv, Walks
    <3>2. QED BY <2>2, <3>1
  <2>4. walk.what # "none" /\ walk.from # 0
    BY DEF Hot!Page
  <2>5. LastSig \in Nat /\ walk.from \in 1 .. LastSig + 1
    BY <2>4, SignalAssumption DEF RowsInv, Walks
  <2>6. \A s \in Hot!Sigs : CarriesFrom(walk.from, page, s)
    BY <2>5, PageCarries DEF page
  <2>7. page.next \in 0 .. LastSig + 1
    <3>1. PICK end \in walk.from .. LastSig + 1 :
            page.next = 0 \/ (page.next = end /\ end \in Hot!Sigs)
      BY <2>5, BuiltFacts DEF page
    <3>2. QED BY <2>5, <3>1 DEF Hot!Sigs
  <2>8. ASSUME NEW s \in Hot!Sigs
        PROVE  /\ walk.got[s] + Times(page, s) \in Int
               /\ walk.got[s] + Times(page, s) = IF page.next = 0 \/ s < page.next THEN 1 ELSE 0
    <3>1. walk.got[s] = IF s < walk.from THEN 1 ELSE 0
      BY <2>4 DEF RowsInv
    <3>2. s \in Int /\ walk.from \in Int /\ page.next \in Int
      BY <2>5, <2>7 DEF Hot!Sigs
    <3>3. QED BY <2>6, <3>1, <3>2 DEF CarriesFrom
  <2>9. walk' \in Walks
    <3>1. walk'.got \in [Hot!Sigs -> Int]
      BY <2>3, <2>8
    <3>2. walk'.what \in {"none", "readings", "concerns"}
      BY <2>3 DEF RowsInv, Walks
    <3>3. QED BY <2>3, <2>7, <3>1, <3>2 DEF Walks
  <2>10. \A s \in Hot!Sigs :
           walk'.got[s] = IF walk'.from = 0 \/ s < walk'.from THEN 1 ELSE 0
    BY <2>3, <2>8
  <2>11. QED BY <2>9, <2>10 DEF RowsInv, Walks, Hot!Sigs
<1>3. QED BY <1>1, <1>2

LEMMA HotStep ==
  ASSUME HotInv, Hot!PageNext \/ Hot!EventNext
  PROVE  HotInv'
<1>1. ASSUME NEW s \in Hot!Sigs, NEW now \in -1 .. MaxTotal, Hot!Count(s, now)
      PROVE  HotInv'
  <2>1. total' = [total EXCEPT ![s] = now] /\ now \in Int /\ UNCHANGED <<run, sent, walk>>
    BY <1>1 DEF Hot!Count
  <2>2. QED BY <2>1 DEF HotInv, CounterInv, RowsInv, Walks, Hot!Sigs
<1>2. ASSUME NEW what \in {"readings", "concerns"}, Hot!Ask(what) PROVE HotInv'
  <2>1. /\ walk' = [what |-> what, from |-> 1, got |-> [s \in Hot!Sigs |-> 0]]
        /\ UNCHANGED <<total, run, sent>>
    BY <1>2 DEF Hot!Ask
  <2>2. LastSig \in Nat
    BY SignalAssumption
  <2>3. walk' \in Walks
    BY <2>1, <2>2 DEF Walks
  <2>4. \A s \in Hot!Sigs : walk'.got[s] = IF walk'.from = 0 \/ s < walk'.from THEN 1 ELSE 0
    BY <2>1, <2>2 DEF Hot!Sigs
  <2>5. CounterInv'
    BY <2>1 DEF HotInv, CounterInv, Hot!Sigs
  <2>6. QED BY <2>3, <2>4, <2>5 DEF HotInv, RowsInv, Walks, Hot!Sigs
<1>3. ASSUME NEW arrives \in BOOLEAN, Hot!Page(arrives) PROVE HotInv'
  BY <1>3, PageCounts, PageRows DEF HotInv
<1>4. ASSUME Hot!Done PROVE HotInv'
  <2>1. /\ walk' = [what |-> "none", from |-> 0, got |-> [s \in Hot!Sigs |-> 0]]
        /\ UNCHANGED <<total, run, sent>>
    BY <1>4 DEF Hot!Done, Hot!Idle
  <2>2. walk' \in Walks /\ walk'.what = "none"
    BY <2>1, SignalAssumption DEF Walks
  <2>3. CounterInv'
    BY <2>1 DEF HotInv, CounterInv, Hot!Sigs
  <2>4. QED BY <2>2, <2>3 DEF HotInv, RowsInv, Walks, Hot!Sigs
<1>5. ASSUME Hot!EventNext PROVE HotInv'
  <2>1. UNCHANGED <<total, run, sent, walk>>
    BY <1>5 DEF Hot!EventNext, Hot!Move, Hot!Tick
  <2>2. QED BY <2>1 DEF HotInv, CounterInv, RowsInv, Walks, Hot!Sigs
<1>6. QED BY <1>1, <1>2, <1>3, <1>4, <1>5 DEF Hot!PageNext

LEMMA HotKept ==
  ASSUME HotInv, UNCHANGED hot
  PROVE  HotInv'
<1>1. UNCHANGED <<total, run, sent, walk>>
  BY DEF hot
<1>2. QED BY <1>1 DEF HotInv, CounterInv, RowsInv, Walks, Hot!Sigs
-----------------------------------------------------------------------------
(* The four parts side by side.                                            *)
IInv == WalkInv /\ StreamInv /\ HotInv

LEMMA InitInv == StreamsInit => IInv
<1> SUFFICES ASSUME StreamsInit PROVE IInv
  OBVIOUS
<1>1. /\ log = {} /\ written = {} /\ first \in 0 .. LastSeq /\ ask \in Asks
      /\ cursor = first /\ got = {} /\ again = {} /\ told = {}
  BY DEF StreamsInit, Init, RingInit
<1>2. WalkInv
  BY <1>1, RingAssumption DEF WalkInv, RingSound
<1>3. /\ ring = {} /\ recorded = {} /\ sub = 0 /\ wire = <<>> /\ mark = 0
      /\ ack = Stream!NoAck /\ taken = <<>> /\ faults = 0
  BY DEF StreamsInit, Stream!Init, Stream!RingInit, Stream!NoSub, Stream!NoMark
<1>4. RingInv
  BY <1>3 DEF RingInv, RingSound
<1>5. WireInv
  BY <1>3 DEF WireInv
<1>6. ack.accepted = 0 /\ ack.gap \in BOOLEAN /\ ~ack.gap /\ ack.wanted = 0
  BY <1>3 DEF Stream!NoAck
<1>7. AckSound(ack)
  BY <1>6 DEF AckSound
<1>8. ClientInv
  BY <1>3, <1>6, <1>7 DEF ClientInv
<1>9. CarriedInv
  <2>1. (\A i \in DOMAIN wire : Follows(i)) /\ Known
    BY <1>3 DEF Known
  <2>2. Expected(Len(wire) + 1) = sub
    BY <1>3 DEF Expected
  <2>3. QED BY <2>1, <2>2 DEF CarriedInv
<1>10. HotInv
  <2>1. /\ total = [s \in Hot!Sigs |-> 1] /\ run = [s \in Hot!Sigs |-> -1]
        /\ sent = [s \in Hot!Sigs |-> [was |-> -1, now |-> -1, called |-> "Ok"]]
        /\ walk = [what |-> "none", from |-> 0, got |-> [s \in Hot!Sigs |-> 0]]
    BY DEF StreamsInit, Hot!Init, Hot!Idle, Hot!None
  <2>2. CounterInv
    <3>1. ASSUME NEW s \in Hot!Sigs
          PROVE  run[s] = -1 /\ sent[s] = [was |-> -1, now |-> -1, called |-> "Ok"]
      BY <2>1
    <3>2. -1 \in Int /\ ~(-1 < -1) /\ -1 <= -1
      OBVIOUS
    <3>3. ASSUME NEW s \in Hot!Sigs
          PROVE  /\ sent[s] \in [was : Int, now : Int, called : {"Ok", "Reset"}]
                 /\ run[s] = sent[s].now /\ -1 <= run[s]
                 /\ (sent[s].called = "Reset") <=> (sent[s].now < sent[s].was)
      BY <3>1, <3>2
    <3>4. total \in [Hot!Sigs -> Int] /\ run \in [Hot!Sigs -> Int]
      BY <2>1, <3>2
    <3>5. sent \in [Hot!Sigs -> [was : Int, now : Int, called : {"Ok", "Reset"}]]
      BY <2>1, <3>3
    <3>6. QED BY <3>3, <3>4, <3>5 DEF CounterInv
  <2>3. walk \in Walks /\ walk.what = "none"
    BY <2>1, SignalAssumption DEF Walks
  <2>4. QED BY <2>2, <2>3 DEF HotInv, RowsInv
<1>11. QED BY <1>2, <1>4, <1>5, <1>8, <1>9, <1>10 DEF IInv, StreamInv

LEMMA WalkKept ==
  ASSUME WalkInv, UNCHANGED vars
  PROVE  WalkInv'
BY DEF WalkInv, vars

LEMMA StreamKept ==
  ASSUME StreamInv, UNCHANGED stream
  PROVE  StreamInv'
<1>1. UNCHANGED <<ring, recorded, sub, wire, mark, ack, taken, faults>>
  BY DEF stream
<1>2. RingInv' /\ WireInv' /\ ClientInv'
  BY <1>1 DEF StreamInv, RingInv, WireInv, ClientInv, MessageSound, AckSound
<1>3. CarriedInv'
  BY <1>1 DEF StreamInv, CarriedInv, Follows, Known, Expected
<1>4. QED BY <1>2, <1>3 DEF StreamInv

LEMMA WalkStep ==
  ASSUME WalkInv, Next
  PROVE  WalkInv'
<1>1. ASSUME NEW n \in 1 .. PageSize, ReadPage(n) PROVE WalkInv'
  <2>1. PageSize \in Nat
    BY WalkAssumption DEF PageSize, WalkInv
  <2>2. n \in Nat
    BY <2>1
  <2>3. QED BY <1>1, <2>2, WalkRead
<1>2. ASSUME NEW seq \in Seqs, Write(seq) PROVE WalkInv'
  BY <1>2, WalkWrite
<1>3. QED BY <1>1, <1>2 DEF Next

LEMMA StreamStep ==
  ASSUME StreamInv, Stream!Next
  PROVE  StreamInv'
<1>1. ASSUME NEW from \in 0 .. LastSeq, Stream!Subscribe(from) PROVE StreamInv'
  BY <1>1, SubscribeKeeps
<1>2. ASSUME Stream!Send PROVE StreamInv'
  BY <1>2, SendKeeps
<1>3. ASSUME NEW seq \in Seqs, Stream!Write(seq) PROVE StreamInv'
  BY <1>3, StreamWriteKeeps
<1>4. ASSUME Stream!Deliver PROVE StreamInv'
  BY <1>4, DeliverKeeps
<1>5. Stream!Seqs = Seqs
  BY DEF Stream!Seqs, Seqs
<1>6. QED BY <1>1, <1>2, <1>3, <1>4, <1>5, FaultKeeps DEF Stream!Next

LEMMA NextInv ==
  ASSUME IInv, [StreamsNext]_<<part, vars, stream, hot>>
  PROVE  IInv'
<1>1. CASE CatchUp(Next)
  BY <1>1, WalkStep, StreamKept, HotKept DEF IInv, CatchUp
<1>2. CASE Stream!Next /\ UNCHANGED <<vars, hot>>
  BY <1>2, WalkKept, StreamStep, HotKept DEF IInv
<1>3. CASE (Hot!PageNext \/ Hot!EventNext) /\ UNCHANGED <<vars, stream>>
  BY <1>3, WalkKept, StreamKept, HotStep DEF IInv
<1>4. CASE UNCHANGED <<part, vars, stream, hot>>
  BY <1>4, WalkKept, StreamKept, HotKept DEF IInv
<1>5. QED BY <1>1, <1>2, <1>3, <1>4 DEF StreamsNext, Changed

LEMMA InvHolds == StreamsSpec => []IInv
<1>1. StreamsInit => IInv
  BY InitInv
<1>2. IInv /\ [StreamsNext]_<<part, vars, stream, hot>> => IInv'
  BY NextInv
<1>3. QED BY <1>1, <1>2, PTL DEF StreamsSpec

(* However the ring moves between two pages, every record between the      *)
(* first position asked for and the cursor is received exactly once, or a  *)
(* page said it was gone (LogPage::push, ReadLog::start_at).               *)
THEOREM PagedOnceOrTold == StreamsSpec => []EveryRecordOnceOrTold
<1>1. IInv => EveryRecordOnceOrTold
  BY DEF IInv, WalkInv, EveryRecordOnceOrTold
<1>2. QED BY <1>1, InvHolds, PTL

(* Whatever the comms processor repeats, drops or lets overtake, the       *)
(* events taken under one answer are written records, at or past the       *)
(* position asked for, each once and in order (EventMark::accept).         *)
THEOREM EventsOnceInOrder == StreamsSpec => []TakenOnceInOrder
<1>1. IInv => TakenOnceInOrder
  <2> SUFFICES ASSUME IInv PROVE TakenOnceInOrder
    OBVIOUS
  <2>1. /\ AckSound(ack) /\ taken \in Seq(Nat)
        /\ \A i \in DOMAIN taken :
             taken[i] \in recorded /\ ack.accepted <= taken[i] /\ taken[i] < mark
        /\ \A i, j \in DOMAIN taken : i < j => taken[i] < taken[j]
    BY DEF IInv, StreamInv, ClientInv
  <2>2. ASSUME NEW i \in DOMAIN taken PROVE taken[i] >= ack.wanted
    <3>1. taken[i] \in Nat /\ ack.accepted <= taken[i]
      BY <2>1
    <3>2. QED BY <2>1, <3>1 DEF AckSound
  <2>3. QED BY <2>1, <2>2 DEF TakenOnceInOrder, Stream!TakenOnceInOrder
<1>2. QED BY <1>1, InvHolds, PTL

(* Over a comms processor that only carries, each record asked for and     *)
(* below the mark was taken, or lies before accepted_from_seq under an     *)
(* answer that says gap (SubscribeAck::answer).                            *)
THEOREM MissedIsTold == StreamsSpec => []NoSilentLoss
<1>1. IInv => NoSilentLoss
  BY DEF IInv, StreamInv, CarriedInv, Known, NoSilentLoss, Stream!NoSilentLoss,
         ToSet, Stream!ToSet
<1>2. QED BY <1>1, InvHolds, PTL

(* Whatever the weights of the rows and the caps, and however often a page *)
(* is lost: what was published of a counter falls exactly where it was     *)
(* called a reset, and a walk that met the end was given every row once    *)
(* (CounterRun::judge and published, ReadingsPage, ConcernsPage).          *)
THEOREM RowsKeepTheirMeaning == StreamsSpec => []PagesWhole
<1>1. IInv => PagesWhole
  BY DEF IInv, HotInv, CounterInv, RowsInv, PagesWhole, Hot!PagesWhole
<1>2. QED BY <1>1, InvHolds, PTL
=============================================================================
