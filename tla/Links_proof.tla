---------------------------- MODULE Links_proof ----------------------------
(***************************************************************************)
(* The two links, for any envelopes and any buffers.  COBS: any string of  *)
(* bytes comes back from its encoding, which fits the buffer its length    *)
(* allows for.  UART: a reader that joined anywhere hands up every frame   *)
(* that follows a boundary and meets no fault, and refuses nothing but     *)
(* faults.  BLE: a receiver hands up what was enqueued, as long as the     *)
(* stack's faults are too few for a whole turn of the message ids.         *)
(*                                                                         *)
(* The codec's loops are recursive functions over the turns taken, and     *)
(* what holds of them is shown at the first turn where it would fail.      *)
(***************************************************************************)
EXTENDS MCLinks, SequenceTheorems, WellFoundedInduction, TLAPS

(* A set of numbers that is not empty has a least one, and below a bound a *)
(* greatest one.                                                           *)
LEMMA LeastMember ==
  ASSUME NEW T \in SUBSET Nat, T # {}
  PROVE  \E m \in T : \A n \in T : m <= n
<1>1. PICK m \in T : \A n \in T : <<n, m>> \notin OpToRel(<, Nat)
  BY NatLessThanWellFounded, WFMin
<1>2. \A n \in T : ~(n < m)
  BY <1>1 DEF OpToRel
<1>3. QED BY <1>2

(* A set of numbers that holds 0 and the successor of each of its members, *)
(* up to a bound, holds every number up to it.                             *)
LEMMA EachUpTo ==
  ASSUME NEW bound \in Nat, NEW T, 0 \in T,
         \A n \in 0 .. bound - 1 : n \in T => n + 1 \in T
  PROVE  \A n \in 0 .. bound : n \in T
<1> DEFINE missing == {n \in 0 .. bound : n \notin T}
<1>1. SUFFICES ASSUME missing # {} PROVE FALSE
  OBVIOUS
<1>2. missing \in SUBSET Nat
  OBVIOUS
<1>3. PICK m \in missing : \A n \in missing : m <= n
  BY <1>1, <1>2, LeastMember
<1>4. m # 0 /\ m - 1 \in 0 .. bound - 1 /\ m - 1 \in T
  BY <1>3
<1>5. QED BY <1>4

(* A recursive function exists: one value per step, each made of the one   *)
(* before.                                                                 *)
StepsIn(n, V, G) == \A i \in 1 .. n : \A v \in V : G[<<i, v>>] \in V
Recursion(n, V, base, G, f) ==
  f \in [0 .. n -> V] /\ f[0] = base /\ \A i \in 1 .. n : f[i] = G[<<i, f[i - 1]>>]

LEMMA RecursionExists ==
  ASSUME NEW n \in Nat, NEW V, NEW base \in V, NEW G, StepsIn(n, V, G)
  PROVE  \E f : Recursion(n, V, base, G, f)
<1> DEFINE Upto(m, f) == Recursion(m, V, base, G, f)
           D == {m \in 0 .. n : \E f : Upto(m, f)}
<1>1. 0 \in D
  <2>1. Upto(0, [m \in 0 .. 0 |-> base])
    BY DEF Recursion
  <2> HIDE DEF Upto
  <2>2. QED BY <2>1
<1>2. ASSUME NEW m \in 0 .. n - 1, m \in D PROVE m + 1 \in D
  <2>1. PICK f : /\ f \in [0 .. m -> V] /\ f[0] = base
                 /\ \A i \in 1 .. m : f[i] = G[<<i, f[i - 1]>>]
    BY <1>2 DEF Recursion
  <2> DEFINE g == [i \in 0 .. m + 1 |-> IF i = m + 1 THEN G[<<i, f[m]>>] ELSE f[i]]
  <2>2. G[<<m + 1, f[m]>>] \in V
    <3>1. m + 1 \in 1 .. n /\ f[m] \in V
      BY <2>1
    <3>2. QED BY <3>1 DEF StepsIn
  <2>3. g \in [0 .. m + 1 -> V]
    BY <2>1, <2>2
  <2>4. g[0] = base
    BY <2>1
  <2>5. ASSUME NEW i \in 1 .. m + 1 PROVE g[i] = G[<<i, g[i - 1]>>]
    <3>1. CASE i = m + 1
      <4>1. i - 1 = m /\ g[m] = f[m]
        BY <3>1
      <4>2. g[i] = G[<<i, f[m]>>]
        BY <3>1
      <4> HIDE DEF g
      <4>3. QED BY <4>1, <4>2
    <3>2. CASE i \in 1 .. m
      <4>1. g[i] = f[i] /\ g[i - 1] = f[i - 1]
        BY <3>2
      <4> HIDE DEF g
      <4>2. QED BY <2>1, <3>2, <4>1
    <3>3. QED BY <3>1, <3>2
  <2>6. Upto(m + 1, g)
    BY <2>3, <2>4, <2>5 DEF Recursion
  <2> HIDE DEF Upto, g
  <2>7. m + 1 \in 0 .. n
    OBVIOUS
  <2>8. QED BY <2>6, <2>7
<1> HIDE DEF D
<1>3. n \in D
  BY <1>1, <1>2, EachUpTo
<1>4. QED BY <1>3 DEF D


-----------------------------------------------------------------------------
Text == Seq(Byte)

\* A string with no zero in it.
Marks == Seq(1 .. MaxCode)

Encoders == [out : Text, block : {b \in Text : Len(b) < MaxCode}]
Decoders == [read : Nat \ {0}, out : Text, refused : BOOLEAN]

LEMMA CloseTyped ==
  ASSUME NEW enc \in Encoders
  PROVE  Close(enc) \in Encoders /\ Close(enc).block = <<>>
<1>1. enc.out \in Text /\ enc.block \in Text /\ Len(enc.block) + 1 \in Byte
  BY CodeAssumption DEF Encoders, Text, Byte
<1> DEFINE code == <<Len(enc.block) + 1>>
<1>2. code \in Text
  BY <1>1 DEF Text
<1> HIDE DEF code
<1>3. enc.out \o code \o enc.block \in Text
  BY <1>1, <1>2, ConcatProperties DEF Text
<1>4. <<>> \in {b \in Text : Len(b) < MaxCode}
  BY CodeAssumption DEF Text
<1>5. QED BY <1>3, <1>4 DEF Close, Encoders, code

LEMMA PushTyped ==
  ASSUME NEW enc \in Encoders, NEW byte \in Byte
  PROVE  PushByte(enc, byte) \in Encoders
<1> DEFINE open == IF Len(enc.block) + 1 = MaxCode THEN Close(enc) ELSE enc
<1>1. open \in Encoders /\ Len(open.block) + 1 < MaxCode
  BY CloseTyped, CodeAssumption DEF Encoders, Text
<1>2. PushByte(enc, byte) = IF byte = 0 THEN Close(open)
                            ELSE [open EXCEPT !.block = Append(@, byte)]
  BY DEF PushByte
<1> HIDE DEF open
<1>3. CASE byte = 0
  BY <1>1, <1>2, <1>3, CloseTyped
<1>4. CASE byte # 0
  <2>1. open.out \in Text /\ open.block \in Text
    BY <1>1 DEF Encoders
  <2>2. Append(open.block, byte) \in Text /\ Len(Append(open.block, byte)) < MaxCode
    BY <1>1, <2>1, AppendProperties DEF Text
  <2>3. QED BY <1>1, <1>2, <1>4, <2>2 DEF Encoders
<1>5. QED BY <1>3, <1>4

LEMMA PushedSteps ==
  ASSUME NEW src \in Text
  PROVE  /\ Pushed(src) \in [0 .. Len(src) -> Encoders]
         /\ Pushed(src)[0] = [out |-> <<>>, block |-> <<>>]
         /\ \A n \in 1 .. Len(src) :
              Pushed(src)[n] = PushByte(Pushed(src)[n - 1], src[n])
<1> DEFINE start == [out |-> <<>>, block |-> <<>>]
           Values(f) == f = [n \in 0 .. Len(src) |->
                               IF n = 0 THEN start ELSE PushByte(f[n - 1], src[n])]
           G == [x \in (1 .. Len(src)) \X Encoders |-> PushByte(x[2], src[x[1]])]
<1>1. Len(src) \in Nat /\ \A n \in 1 .. Len(src) : src[n] \in Byte
  BY ElementOfSeq DEF Text
<1>2. start \in Encoders
  BY CodeAssumption DEF Encoders, Text
<1>3. ASSUME NEW i \in 1 .. Len(src), NEW v \in Encoders
      PROVE  G[<<i, v>>] = PushByte(v, src[i]) /\ G[<<i, v>>] \in Encoders
  BY <1>1, PushTyped
<1> HIDE DEF G, start
<1>4. PICK f : Recursion(Len(src), Encoders, start, G, f)
  <2>1. StepsIn(Len(src), Encoders, G)
    BY <1>3, Zenon DEF StepsIn
  <2>2. QED BY <1>1, <1>2, <2>1, RecursionExists
<1>5. Values(f)
  <2>1. /\ f \in [0 .. Len(src) -> Encoders] /\ f[0] = start
        /\ \A i \in 1 .. Len(src) : f[i] = G[<<i, f[i - 1]>>]
    BY <1>4 DEF Recursion
  <2>2. ASSUME NEW n \in 0 .. Len(src)
        PROVE  f[n] = IF n = 0 THEN start ELSE PushByte(f[n - 1], src[n])
    <3>1. CASE n = 0
      BY <2>1, <3>1
    <3>2. CASE n # 0
      <4>1. n \in 1 .. Len(src) /\ f[n - 1] \in Encoders
        BY <1>1, <2>1, <3>2
      <4>2. QED BY <1>3, <2>1, <3>2, <4>1
    <3>3. QED BY <3>1, <3>2
  <2>3. QED BY <2>1, <2>2
<1> DEFINE h == CHOOSE g : Values(g)
<1>6. Values(h)
  <2> HIDE DEF Values
  <2>1. QED BY <1>5
<1>7. Pushed(src) = h
  BY DEF Pushed, start
<1> HIDE DEF h
<1> DEFINE P(n) == h[n] \in Encoders
           D == {n \in 0 .. Len(src) : P(n)}
<1>8. h[0] = start /\ \A n \in 1 .. Len(src) : h[n] = PushByte(h[n - 1], src[n])
  BY <1>1, <1>6
<1>9. DOMAIN h = 0 .. Len(src) /\ h = [n \in 0 .. Len(src) |-> h[n]]
  BY <1>6
<1> HIDE DEF Values
<1>10. \A n \in 0 .. Len(src) : n \in D
  <2>1. 0 \in D
    BY <1>1, <1>2, <1>8
  <2>2. ASSUME NEW n \in 0 .. Len(src) - 1, n \in D PROVE n + 1 \in D
    <3>1. n + 1 \in 1 .. Len(src) /\ (n + 1) - 1 = n /\ n + 1 \in 0 .. Len(src)
      BY <1>1
    <3>2. h[n + 1] = PushByte(h[n], src[n + 1]) /\ src[n + 1] \in Byte
      BY <1>1, <1>8, <3>1
    <3>3. h[n + 1] \in Encoders
      BY <2>2, <3>2, PushTyped
    <3>4. QED BY <3>1, <3>3
  <2> HIDE DEF D
  <2>3. QED BY <1>1, <2>1, <2>2, EachUpTo
<1>11. h \in [0 .. Len(src) -> Encoders]
  BY <1>9, <1>10
<1>12. QED BY <1>7, <1>8, <1>11 DEF start

LEMMA SubText ==
  ASSUME NEW s \in Text, NEW a \in Nat \ {0}, NEW b \in Nat, a <= b + 1, b <= Len(s)
  PROVE  /\ SubSeq(s, a, b) \in Text
         /\ Len(SubSeq(s, a, b)) = b - a + 1
         /\ \A i \in 1 .. b - a + 1 : SubSeq(s, a, b)[i] = s[a + i - 1]
<1>1. \A i \in a .. b : s[i] \in Byte
  BY ElementOfSeq DEF Text
<1>2. a \in Int /\ b \in Int
  OBVIOUS
<1>3. /\ SubSeq(s, a, b) \in Seq(Byte)
      /\ Len(SubSeq(s, a, b)) = IF a <= b THEN b - a + 1 ELSE 0
      /\ \A i \in 1 .. b - a + 1 : SubSeq(s, a, b)[i] = s[a + i - 1]
  BY <1>1, <1>2, SubSeqProperties
<1>4. QED BY <1>3 DEF Text

LEMMA TurnTyped ==
  ASSUME NEW src \in Text, NEW dec \in Decoders
  PROVE  RunBlock(src, dec) \in Decoders
<1> DEFINE code == src[dec.read]
           next == dec.read + code
           data == SubSeq(src, dec.read + 1, next - 1)
<1>1. Len(src) \in Nat /\ dec.read \in Nat \ {0} /\ dec.out \in Text
  BY DEF Text, Decoders
<1>2. CASE dec.refused \/ dec.read > Len(src)
  BY <1>2 DEF RunBlock
<1>3. CASE ~(dec.refused \/ dec.read > Len(src)) /\ (code = 0 \/ ~BlockFits(src, dec.read, code))
  <2>1. RunBlock(src, dec) = [dec EXCEPT !.refused = TRUE]
    BY <1>3 DEF RunBlock
  <2>2. QED BY <2>1 DEF Decoders
<1>4. CASE ~(dec.refused \/ dec.read > Len(src)) /\ ~(code = 0 \/ ~BlockFits(src, dec.read, code))
  <2>1. dec.read \in 1 .. Len(src)
    BY <1>1, <1>4
  <2>2. code \in Byte /\ code # 0
    BY <1>4, <2>1, ElementOfSeq DEF Text
  <2>3. code \in Nat \ {0} /\ next \in Nat \ {0} /\ next - 1 <= Len(src)
    BY <1>1, <1>4, <2>2, CodeAssumption DEF Byte, BlockFits
  <2> HIDE DEF code
  <2>4. data \in Text
    BY <1>1, <2>3, SubText
  <2>5. \A atEnd \in BOOLEAN : ImpliedZero(code, atEnd) \in Text
    <3>1. 0 \in Byte
      BY CodeAssumption DEF Byte
    <3>2. <<0>> \in Text /\ <<>> \in Text
      BY <3>1 DEF Text
    <3>3. QED BY <3>2 DEF ImpliedZero
  <2> HIDE DEF data, next
  <2>6. dec.out \o data \o ImpliedZero(code, next > Len(src)) \in Text
    <3>1. dec.out \o data \in Text
      BY <1>1, <2>4, ConcatProperties DEF Text
    <3>2. ImpliedZero(code, next > Len(src)) \in Text
      <4>1. (next > Len(src)) \in BOOLEAN
        OBVIOUS
      <4>2. QED BY <2>5, <4>1
    <3>3. QED BY <3>1, <3>2, ConcatProperties DEF Text
  <2>7. RunBlock(src, dec) =
          [read |-> next, refused |-> FALSE,
           out |-> dec.out \o data \o ImpliedZero(code, next > Len(src))]
    BY <1>4 DEF RunBlock, data, next, code
  <2>8. QED BY <2>3, <2>6, <2>7 DEF Decoders
<1>5. QED BY <1>2, <1>3, <1>4

LEMMA RunSteps ==
  ASSUME NEW src \in Text
  PROVE  /\ Run(src)[0] = [read |-> 1, out |-> <<>>, refused |-> FALSE]
         /\ \A n \in 1 .. Len(src) : Run(src)[n] = RunBlock(src, Run(src)[n - 1])
<1> DEFINE start == [read |-> 1, out |-> <<>>, refused |-> FALSE]
           Values(f) == f = [n \in 0 .. Len(src) |->
                               IF n = 0 THEN start ELSE RunBlock(src, f[n - 1])]
           G == [x \in (1 .. Len(src)) \X Decoders |-> RunBlock(src, x[2])]
<1>1. Len(src) \in Nat
  BY DEF Text
<1>2. start \in Decoders
  BY DEF Decoders, Text
<1>3. ASSUME NEW i \in 1 .. Len(src), NEW v \in Decoders
      PROVE  G[<<i, v>>] = RunBlock(src, v) /\ G[<<i, v>>] \in Decoders
  BY <1>1, TurnTyped
<1> HIDE DEF G, start
<1>4. PICK f : Recursion(Len(src), Decoders, start, G, f)
  <2>1. StepsIn(Len(src), Decoders, G)
    BY <1>3, Zenon DEF StepsIn
  <2>2. QED BY <1>1, <1>2, <2>1, RecursionExists
<1>5. Values(f)
  <2>1. /\ f \in [0 .. Len(src) -> Decoders] /\ f[0] = start
        /\ \A i \in 1 .. Len(src) : f[i] = G[<<i, f[i - 1]>>]
    BY <1>4 DEF Recursion
  <2>2. ASSUME NEW n \in 0 .. Len(src)
        PROVE  f[n] = IF n = 0 THEN start ELSE RunBlock(src, f[n - 1])
    <3>1. CASE n = 0
      BY <2>1, <3>1
    <3>2. CASE n # 0
      <4>1. n \in 1 .. Len(src) /\ f[n - 1] \in Decoders
        BY <1>1, <2>1, <3>2
      <4>2. QED BY <1>3, <2>1, <3>2, <4>1
    <3>3. QED BY <3>1, <3>2
  <2>3. QED BY <2>1, <2>2
<1> DEFINE h == CHOOSE g : Values(g)
<1>6. Values(h)
  <2> HIDE DEF Values
  <2>1. QED BY <1>5
<1>7. Run(src) = h
  BY DEF Run, start
<1> HIDE DEF h
<1>8. h[0] = start /\ \A n \in 1 .. Len(src) : h[n] = RunBlock(src, h[n - 1])
  BY <1>1, <1>6
<1> HIDE DEF Values
<1>9. QED BY <1>7, <1>8 DEF start
-----------------------------------------------------------------------------
\* A body that begins with `out`, and one that goes on after it.
Starts(body, out) ==
  /\ body \in Text
  /\ Len(body) >= Len(out)
  /\ \A j \in 1 .. Len(out) : body[j] = out[j]

Extends(body, out) == Starts(body, out) /\ Len(body) > Len(out)

\* So many turns of the decoder read just `out`, and make `data` of it.
Reaches(body, turns, out, data) ==
  Run(body)[turns] = [read |-> Len(out) + 1, out |-> data, refused |-> FALSE]

(* What the blocks closed so far decode to, after as many turns as there   *)
(* are blocks, whatever follows them.                                      *)
Parsed(out, turns, data) ==
  /\ out \in Marks /\ turns \in 0 .. Len(out) /\ data \in Text
  /\ \A body : Extends(body, out) => Reaches(body, turns, out, data)

\* A block, as Close writes it.
Coded(block) == <<Len(block) + 1>> \o block

LEMMA MarksText == Marks \subseteq Text
<1>1. 1 .. MaxCode \subseteq Byte
  BY CodeAssumption DEF Byte
<1>2. ASSUME NEW s \in Marks PROVE s \in Text
  <2>1. Len(s) \in Nat /\ s \in [1 .. Len(s) -> 1 .. MaxCode]
    BY LenProperties DEF Marks
  <2>2. s \in [1 .. Len(s) -> Byte]
    BY <1>1, <2>1
  <2>3. QED BY <2>1, <2>2 DEF Text
<1>3. QED BY <1>2

LEMMA CodedFacts ==
  ASSUME NEW out \in Marks, NEW block \in Marks, Len(block) < MaxCode
  PROVE  /\ out \o Coded(block) \in Marks
         /\ Len(out \o Coded(block)) = Len(out) + 1 + Len(block)
         /\ \A j \in 1 .. Len(out) : (out \o Coded(block))[j] = out[j]
         /\ (out \o Coded(block))[Len(out) + 1] = Len(block) + 1
         /\ \A j \in 1 .. Len(block) : (out \o Coded(block))[Len(out) + 1 + j] = block[j]
         /\ Marks \subseteq Text
<1>1. Len(block) + 1 \in 1 .. MaxCode
  BY CodeAssumption DEF Marks
<1> DEFINE code == <<Len(block) + 1>>
<1>2. code \in Marks /\ Len(code) = 1 /\ code[1] = Len(block) + 1
  BY <1>1 DEF Marks
<1> HIDE DEF code
<1>3. /\ code \o block \in Marks /\ Len(code \o block) = 1 + Len(block)
      /\ (code \o block)[1] = Len(block) + 1
      /\ \A j \in 1 .. Len(block) : (code \o block)[1 + j] = block[j]
  <2>1. /\ code \o block \in Marks /\ Len(code \o block) = 1 + Len(block)
        /\ \A i \in 1 .. 1 + Len(block) :
             (code \o block)[i] = IF i <= 1 THEN code[i] ELSE block[i - 1]
    <3>1. /\ code \o block \in Marks /\ Len(code \o block) = Len(code) + Len(block)
          /\ \A i \in 1 .. Len(code) + Len(block) :
               (code \o block)[i] = IF i <= Len(code) THEN code[i] ELSE block[i - Len(code)]
      BY <1>2, ConcatProperties DEF Marks
    <3>2. QED BY <1>2, <3>1
  <2>2. Len(block) \in Nat
    BY DEF Marks
  <2>3. \A j \in 1 .. Len(block) :
          1 + j \in 1 .. 1 + Len(block) /\ ~(1 + j <= 1) /\ (1 + j) - 1 = j
    BY <2>2
  <2>4. (code \o block)[1] = code[1]
    BY <2>1, <2>2
  <2>5. QED BY <1>2, <2>1, <2>3, <2>4
<1>4. Coded(block) = code \o block
  BY DEF Coded, code
<1>5. Len(out) \in Nat /\ Len(block) \in Nat
  BY DEF Marks
<1>6. /\ out \o Coded(block) \in Marks
      /\ Len(out \o Coded(block)) = Len(out) + 1 + Len(block)
      /\ \A i \in 1 .. Len(out) + 1 + Len(block) :
           (out \o Coded(block))[i] = IF i <= Len(out) THEN out[i] ELSE Coded(block)[i - Len(out)]
  <2> DEFINE coded == Coded(block)
  <2>1. coded \in Marks /\ Len(coded) = 1 + Len(block)
    BY <1>3, <1>4
  <2> HIDE DEF coded
  <2>2. /\ out \o coded \in Marks
        /\ Len(out \o coded) = Len(out) + Len(coded)
        /\ \A i \in 1 .. Len(out) + Len(coded) :
             (out \o coded)[i] = IF i <= Len(out) THEN out[i] ELSE coded[i - Len(out)]
    <3>1. \A s, t \in Seq(1 .. MaxCode) :
            /\ s \o t \in Seq(1 .. MaxCode) /\ Len(s \o t) = Len(s) + Len(t)
            /\ \A i \in 1 .. Len(s) + Len(t) :
                 (s \o t)[i] = IF i <= Len(s) THEN s[i] ELSE t[i - Len(s)]
      BY ConcatProperties
    <3>2. QED BY <2>1, <3>1 DEF Marks
  <2>3. Len(out) + Len(coded) = Len(out) + 1 + Len(block)
    BY <1>5, <2>1
  <2>4. QED BY <2>2, <2>3 DEF coded
<1>8. Marks \subseteq Text
  BY MarksText
<1>9. \A j \in 1 .. Len(block) : (out \o Coded(block))[Len(out) + 1 + j] = block[j]
  <2>1. ASSUME NEW j \in 1 .. Len(block)
        PROVE  (out \o Coded(block))[Len(out) + 1 + j] = block[j]
    <3>1. /\ Len(out) + 1 + j \in 1 .. Len(out) + 1 + Len(block)
          /\ ~(Len(out) + 1 + j <= Len(out))
          /\ (Len(out) + 1 + j) - Len(out) = 1 + j
      BY <1>5
    <3>2. QED BY <1>3, <1>4, <1>6, <3>1
  <2>2. QED BY <2>1
<1>10. (out \o Coded(block))[Len(out) + 1] = Len(block) + 1
  BY <1>3, <1>4, <1>5, <1>6
<1>11. QED BY <1>5, <1>6, <1>8, <1>9, <1>10

LEMMA Associates ==
  ASSUME NEW a \in Text, NEW b \in Text, NEW c \in Text
  PROVE  (a \o b) \o c = a \o (b \o c)
BY ConcatAssociative DEF Text

LEMMA ClosedOut ==
  ASSUME NEW enc, enc.out \in Marks, enc.block \in Marks, Len(enc.block) < MaxCode
  PROVE  Close(enc).out = enc.out \o Coded(enc.block)
<1> DEFINE code == <<Len(enc.block) + 1>>
<1>1. code \in Marks
  BY CodeAssumption DEF Marks
<1> HIDE DEF code
<1>2. (enc.out \o code) \o enc.block = enc.out \o (code \o enc.block)
  <2>1. enc.out \in Text /\ code \in Text /\ enc.block \in Text
    BY <1>1, CodedFacts
  <2>2. QED BY <2>1, Associates
<1>3. QED BY <1>2 DEF Close, Coded, code

LEMMA Product ==
  ASSUME NEW n \in Nat
  PROVE  n * (MaxCode - 1) \in Nat /\ (n + 1) * (MaxCode - 1) = n * (MaxCode - 1) + (MaxCode - 1)
BY CodeAssumption

(* The turn that reads one more block.                                     *)
LEMMA NextTurn ==
  ASSUME NEW out, NEW turns, NEW data, Parsed(out, turns, data),
         NEW block \in Marks, Len(block) < MaxCode,
         NEW coded, coded = out \o Coded(block), NEW body, Starts(body, coded)
  PROVE  /\ Len(body) = Len(coded) =>
              Reaches(body, turns + 1, coded, data \o block)
         /\ Len(body) > Len(coded) =>
              Reaches(body, turns + 1, coded,
                      data \o block \o ImpliedZero(Len(block) + 1, FALSE))
<1>1. /\ out \in Marks /\ turns \in 0 .. Len(out) /\ data \in Text
      /\ Len(out) \in Nat /\ Len(block) \in Nat
      /\ body \in Text /\ Len(body) \in Nat /\ Len(body) >= Len(coded)
      /\ \A j \in 1 .. Len(coded) : body[j] = coded[j]
  BY DEF Parsed, Marks, Text, Starts
<1>2. /\ Len(coded) = Len(out) + 1 + Len(block)
      /\ \A j \in 1 .. Len(out) : body[j] = out[j]
      /\ body[Len(out) + 1] = Len(block) + 1
      /\ \A j \in 1 .. Len(block) : body[Len(out) + 1 + j] = block[j]
  <2>1. /\ Len(coded) = Len(out) + 1 + Len(block)
        /\ \A j \in 1 .. Len(out) : coded[j] = out[j]
        /\ coded[Len(out) + 1] = Len(block) + 1
        /\ \A j \in 1 .. Len(block) : coded[Len(out) + 1 + j] = block[j]
    BY <1>1, CodedFacts
  <2>3. /\ \A j \in 1 .. Len(out) : j \in 1 .. Len(coded)
        /\ Len(out) + 1 \in 1 .. Len(coded)
        /\ \A j \in 1 .. Len(block) : Len(out) + 1 + j \in 1 .. Len(coded)
    BY <1>1, <2>1
  <2>4. /\ \A j \in 1 .. Len(out) : body[j] = out[j]
        /\ body[Len(out) + 1] = Len(block) + 1
        /\ \A j \in 1 .. Len(block) : body[Len(out) + 1 + j] = block[j]
    BY <1>1, <2>1, <2>3
  <2>5. QED BY <2>1, <2>4
<1>3. Extends(body, out)
  BY <1>1, <1>2 DEF Extends, Starts
<1> DEFINE dec == [read |-> Len(out) + 1, out |-> data, refused |-> FALSE]
<1>4. Run(body)[turns] = dec
  BY <1>3 DEF Parsed, Reaches
<1>5. turns + 1 \in 1 .. Len(body)
  BY <1>1, <1>2
<1>6. Run(body)[turns + 1] = RunBlock(body, dec)
  BY <1>1, <1>4, <1>5, RunSteps
<1>7. BlockFits(body, Len(out) + 1, Len(block) + 1)
  <2>1. \A j \in 1 .. Len(block) : block[j] # 0
    <3>1. \A j \in 1 .. Len(block) : block[j] \in 1 .. MaxCode
      BY ElementOfSeq DEF Marks
    <3>2. QED BY <3>1
  <2>2. ASSUME NEW i \in Len(out) + 2 .. Len(out) + 1 + Len(block) PROVE body[i] # 0
    <3>1. i - (Len(out) + 1) \in 1 .. Len(block)
      BY <1>1
    <3>2. body[Len(out) + 1 + (i - (Len(out) + 1))] # 0
      BY <1>2, <2>1, <3>1
    <3>3. QED BY <1>1, <3>2
  <2>3. QED BY <1>1, <1>2, <2>2 DEF BlockFits
<1>8. SubSeq(body, Len(out) + 2, Len(out) + 1 + Len(block)) = block
  <2> DEFINE a == Len(out) + 2
             b == Len(out) + 1 + Len(block)
  <2>0. /\ body \in Text
        /\ a \in Nat \ {0} /\ b \in Nat /\ a <= b + 1 /\ b <= Len(body)
        /\ b - a + 1 = Len(block)
    BY <1>1, <1>2
  <2>1. \A j \in 1 .. Len(block) : a + j - 1 = Len(out) + 1 + j
    BY <1>1
  <2> HIDE DEF a, b, dec
  <2>2. /\ SubSeq(body, a, b) \in Text
        /\ Len(SubSeq(body, a, b)) = Len(block)
        /\ \A j \in 1 .. Len(block) : SubSeq(body, a, b)[j] = body[a + j - 1]
    <3>1. /\ SubSeq(body, a, b) \in Text
          /\ Len(SubSeq(body, a, b)) = b - a + 1
          /\ \A j \in 1 .. b - a + 1 : SubSeq(body, a, b)[j] = body[a + j - 1]
      BY <2>0, SubText
    <3>2. QED BY <2>0, <3>1
  <2>3. \A j \in 1 .. Len(block) : SubSeq(body, a, b)[j] = block[j]
    BY <1>2, <2>1, <2>2
  <2>4. block \in Text
    BY <1>1, CodedFacts
  <2>5. SubSeq(body, a, b) = block
    BY <2>2, <2>3, <2>4, SeqEqual DEF Text
  <2>6. QED BY <2>5 DEF a, b
<1>9. dec.read = Len(out) + 1 /\ dec.out = data /\ dec.refused = FALSE
  OBVIOUS
<1> DEFINE next == Len(out) + Len(block) + 2
           zero == ImpliedZero(Len(block) + 1, next > Len(body))
<1>10. /\ Len(body) = Len(coded) => zero = <<>>
       /\ Len(body) > Len(coded) => zero = ImpliedZero(Len(block) + 1, FALSE)
  <2>1. /\ Len(body) = Len(coded) => next > Len(body)
        /\ Len(body) > Len(coded) => ~(next > Len(body))
    BY <1>1, <1>2
  <2>2. QED BY <2>1 DEF ImpliedZero
<1>11. /\ dec.read + (Len(block) + 1) = next
       /\ dec.read + 1 = Len(out) + 2
       /\ next - 1 = Len(out) + 1 + Len(block)
       /\ ~(dec.read > Len(body)) /\ Len(block) + 1 # 0
  BY <1>1, <1>2
<1>12. next = Len(coded) + 1
  BY <1>1, <1>2
<1> HIDE DEF dec, next, zero
<1>13. RunBlock(body, dec) =
         [read |-> next, out |-> data \o block \o zero, refused |-> FALSE]
  <2>1. ~dec.refused /\ Len(block) + 1 = body[dec.read]
    BY <1>2, <1>9
  <2>2. block = SubSeq(body, dec.read + 1, next - 1)
    BY <1>8, <1>11
  <2>3. BlockFits(body, dec.read, Len(block) + 1)
    BY <1>7, <1>9
  <2>4. /\ ~dec.refused /\ ~(dec.read > Len(body)) /\ Len(block) + 1 # 0
        /\ next = dec.read + (Len(block) + 1)
    BY <1>11, <2>1
  <2>5. RunBlock(body, dec) =
          [read |-> next, out |-> dec.out \o block \o zero, refused |-> FALSE]
    BY <2>1, <2>2, <2>3, <2>4 DEF RunBlock, zero
  <2>6. QED BY <1>9, <2>5
<1>14. data \o block \in Text
  BY <1>1, CodedFacts, ConcatProperties DEF Text
<1>15. Len(body) = Len(coded) => data \o block \o zero = data \o block
  BY <1>10, <1>14, ConcatEmptySeq DEF Text
<1>16. Reaches(body, turns + 1, coded, data \o block \o zero)
  BY <1>6, <1>12, <1>13 DEF Reaches
<1>17. QED BY <1>10, <1>15, <1>16

LEMMA ClosedParsed ==
  ASSUME NEW out, NEW turns, NEW data, Parsed(out, turns, data),
         NEW block \in Marks, Len(block) < MaxCode
  PROVE  Parsed(out \o Coded(block), turns + 1,
                data \o block \o ImpliedZero(Len(block) + 1, FALSE))
<1>1. /\ out \in Marks /\ turns \in 0 .. Len(out) /\ data \in Text
      /\ Len(out) \in Nat /\ Len(block) \in Nat
  BY DEF Parsed, Marks
<1> DEFINE coded == out \o Coded(block)
           more == data \o block \o ImpliedZero(Len(block) + 1, FALSE)
<1>2. coded \in Marks /\ coded \in Text /\ Len(coded) = Len(out) + 1 + Len(block)
  BY <1>1, CodedFacts
<1>3. turns + 1 \in 0 .. Len(coded)
  BY <1>1, <1>2
<1>4. more \in Text
  <2>1. block \in Text
    BY <1>1, CodedFacts
  <2>2. ImpliedZero(Len(block) + 1, FALSE) \in Text
    <3>1. 0 \in Byte
      BY CodeAssumption DEF Byte
    <3>2. <<0>> \in Text /\ <<>> \in Text
      BY <3>1 DEF Text
    <3>3. QED BY <3>2 DEF ImpliedZero
  <2>3. data \o block \in Text
    BY <1>1, <2>1, ConcatProperties DEF Text
  <2>4. QED BY <2>2, <2>3, ConcatProperties DEF Text
<1>5. ASSUME NEW body, Extends(body, coded)
      PROVE  Reaches(body, turns + 1, coded, more)
  <2>1. Starts(body, coded) /\ Len(body) > Len(coded) /\ coded = out \o Coded(block)
    BY <1>5 DEF Extends
  <2> HIDE DEF coded
  <2>2. QED BY <2>1, NextTurn
<1> HIDE DEF coded, more
<1>6. Parsed(coded, turns + 1, more)
  BY <1>2, <1>3, <1>4, <1>5 DEF Parsed
<1>7. QED BY <1>6 DEF coded, more

(* The last block ends the walk, which then stands still.                  *)
LEMMA LastTurn ==
  ASSUME NEW out, NEW turns, NEW data, Parsed(out, turns, data),
         NEW block \in Marks, Len(block) < MaxCode,
         NEW body, body = out \o Coded(block)
  PROVE  Reaches(body, Len(body), body, data \o block)
<1>1. /\ out \in Marks /\ turns \in 0 .. Len(out) /\ data \in Text
      /\ Len(out) \in Nat /\ Len(block) \in Nat
  BY DEF Parsed, Marks
<1>2. body \in Text /\ Len(body) = Len(out) + 1 + Len(block)
  BY <1>1, CodedFacts
<1> DEFINE end == [read |-> Len(body) + 1, out |-> data \o block, refused |-> FALSE]
<1>3. Run(body)[turns + 1] = end
  <2>1. Starts(body, body) /\ Len(body) = Len(body)
    BY <1>1, <1>2 DEF Starts
  <2>2. Reaches(body, turns + 1, body, data \o block)
    BY <2>1, NextTurn
  <2>3. QED BY <2>2 DEF Reaches
<1>4. RunBlock(body, end) = end
  BY <1>1, <1>2 DEF RunBlock
<1> DEFINE D == {n \in 0 .. Len(body) : n <= turns \/ Run(body)[n] = end}
<1> HIDE DEF end
<1>5. \A n \in 0 .. Len(body) : n \in D
  <2>1. 0 \in D
    BY <1>1, <1>2
  <2>2. ASSUME NEW n \in 0 .. Len(body) - 1, n \in D PROVE n + 1 \in D
    <3>1. n + 1 \in 1 .. Len(body) /\ (n + 1) - 1 = n /\ n + 1 \in 0 .. Len(body)
      BY <1>1, <1>2
    <3>2. CASE n + 1 <= turns
      BY <3>1, <3>2
    <3>3. CASE n = turns
      BY <1>3, <3>1, <3>3
    <3>4. CASE n > turns
      <4>1. Run(body)[n] = end
        BY <1>1, <2>2, <3>4
      <4>2. Run(body)[n + 1] = RunBlock(body, Run(body)[n])
        BY <1>2, <3>1, RunSteps
      <4>3. QED BY <1>4, <3>1, <4>1, <4>2
    <3>5. QED BY <1>1, <3>2, <3>3, <3>4
  <2> HIDE DEF D
  <2>3. Len(body) \in Nat
    BY <1>1, <1>2
  <2>4. QED BY <2>1, <2>2, <2>3, EachUpTo
<1>6. Len(body) \in D /\ ~(Len(body) <= turns)
  BY <1>1, <1>2, <1>5
<1>7. QED BY <1>6 DEF end, Reaches
-----------------------------------------------------------------------------
(* What the encoder holds after the bytes of `prefix`: blocks that decode  *)
(* to all of them but the ones in the block held back, and one byte more   *)
(* than the prefix has for every full block among them.                    *)
Holds(out, block, prefix) ==
  /\ out \in Marks /\ block \in Marks /\ Len(block) < MaxCode
  /\ \E turns, data : Parsed(out, turns, data) /\ prefix = data \o block
  /\ \E full \in Nat :
       /\ Len(out) + Len(block) = Len(prefix) + full
       /\ full * (MaxCode - 1) + Len(block) <= Len(prefix)

LEMMA FullCloses ==
  ASSUME NEW out, NEW block, NEW prefix \in Text, Holds(out, block, prefix), Len(block) + 1 = MaxCode
  PROVE  Holds(out \o Coded(block), <<>>, prefix)
<1>1. /\ out \in Marks /\ block \in Marks /\ Len(block) < MaxCode
      /\ Len(out) \in Nat /\ Len(block) \in Nat /\ Len(prefix) \in Nat
  BY DEF Holds, Marks, Text
<1>2. PICK turns, data : Parsed(out, turns, data) /\ prefix = data \o block
  BY DEF Holds
<1> DEFINE coded == out \o Coded(block)
<1>3. /\ coded \in Marks
      /\ Len(coded) = Len(out) + 1 + Len(block)
  BY <1>1, CodedFacts
<1>4. <<>> \in Marks /\ Len(<<>>) = 0
  BY DEF Marks
<1>5. Parsed(coded, turns + 1, prefix)
  <2>1. ImpliedZero(Len(block) + 1, FALSE) = <<>>
    BY DEF ImpliedZero
  <2>2. prefix \o <<>> = prefix
    BY ConcatEmptySeq DEF Text
  <2>3. Parsed(coded, turns + 1,
               data \o block \o ImpliedZero(Len(block) + 1, FALSE))
    BY <1>1, <1>2, ClosedParsed
  <2>4. QED BY <1>2, <2>1, <2>2, <2>3
<1>6. prefix = prefix \o <<>>
  BY ConcatEmptySeq DEF Text
<1>7. \E full \in Nat :
        /\ Len(coded) + 0 = Len(prefix) + full
        /\ full * (MaxCode - 1) + 0 <= Len(prefix)
  <2>1. PICK full \in Nat :
          /\ Len(out) + Len(block) = Len(prefix) + full
          /\ full * (MaxCode - 1) + Len(block) <= Len(prefix)
    BY DEF Holds
  <2>2. full + 1 \in Nat
    OBVIOUS
  <2> DEFINE padding == full * (MaxCode - 1)
  <2>3. padding \in Nat /\ (full + 1) * (MaxCode - 1) = padding + (MaxCode - 1)
    BY Product
  <2>4. /\ padding + Len(block) <= Len(prefix)
        /\ Len(out) + Len(block) = Len(prefix) + full /\ full \in Nat
    BY <2>1
  <2> HIDE DEF coded, padding
  <2>5. /\ Len(coded) + 0 = Len(prefix) + (full + 1)
        /\ (full + 1) * (MaxCode - 1) + 0 <= Len(prefix)
    BY <1>1, <1>3, <2>3, <2>4, CodeAssumption
  <2>6. QED BY <2>2, <2>5 DEF coded
<1> HIDE DEF coded
<1>8. 0 < MaxCode
  BY CodeAssumption
<1>9. \E some, text : Parsed(coded, some, text) /\ prefix = text \o <<>>
  BY <1>5, <1>6
<1>10. \E full \in Nat :
         /\ Len(coded) + Len(<<>>) = Len(prefix) + full
         /\ full * (MaxCode - 1) + Len(<<>>) <= Len(prefix)
  BY <1>4, <1>7
<1>11. Holds(coded, <<>>, prefix)
  BY <1>3, <1>4, <1>8, <1>9, <1>10 DEF Holds
<1>12. QED BY <1>11 DEF coded

LEMMA ZeroCloses ==
  ASSUME NEW out, NEW block, NEW prefix \in Text, Holds(out, block, prefix), Len(block) + 1 < MaxCode
  PROVE  Holds(out \o Coded(block), <<>>, Append(prefix, 0))
<1>1. /\ out \in Marks /\ block \in Marks /\ Len(block) < MaxCode
      /\ Len(out) \in Nat /\ Len(block) \in Nat /\ Len(prefix) \in Nat
  BY DEF Holds, Marks, Text
<1>2. PICK turns, data : Parsed(out, turns, data) /\ prefix = data \o block
  BY DEF Holds
<1> DEFINE coded == out \o Coded(block)
           longer == Append(prefix, 0)
<1>3. /\ coded \in Marks
      /\ Len(coded) = Len(out) + 1 + Len(block)
  BY <1>1, CodedFacts
<1>4. <<>> \in Marks /\ Len(<<>>) = 0
  BY DEF Marks
<1>5. longer \in Text /\ Len(longer) = Len(prefix) + 1 /\ longer = prefix \o <<0>>
  <2>1. 0 \in Byte
    BY CodeAssumption DEF Byte
  <2>2. QED BY <2>1, AppendProperties, AppendIsConcat DEF Text
<1>6. Parsed(coded, turns + 1, longer)
  <2>1. ImpliedZero(Len(block) + 1, FALSE) = <<0>>
    BY <1>1, CodeAssumption DEF ImpliedZero
  <2>2. Parsed(coded, turns + 1,
               data \o block \o ImpliedZero(Len(block) + 1, FALSE))
    BY <1>1, <1>2, ClosedParsed
  <2>3. QED BY <1>2, <1>5, <2>1, <2>2
<1>7. longer = longer \o <<>>
  BY <1>5, ConcatEmptySeq DEF Text
<1>8. \E full \in Nat :
        /\ Len(coded) + 0 = Len(longer) + full
        /\ full * (MaxCode - 1) + 0 <= Len(longer)
  <2>1. PICK full \in Nat :
          /\ Len(out) + Len(block) = Len(prefix) + full
          /\ full * (MaxCode - 1) + Len(block) <= Len(prefix)
    BY DEF Holds
  <2> DEFINE padding == full * (MaxCode - 1)
  <2>2. /\ padding \in Nat /\ padding + Len(block) <= Len(prefix)
        /\ Len(out) + Len(block) = Len(prefix) + full /\ full \in Nat
    BY <2>1, Product
  <2> HIDE DEF coded, longer, padding
  <2>3. /\ Len(coded) + 0 = Len(longer) + full
        /\ padding + 0 <= Len(longer)
    BY <1>1, <1>3, <1>5, <2>2
  <2>4. QED BY <2>3 DEF coded, longer, padding
<1> HIDE DEF coded, longer
<1>9. 0 < MaxCode
  BY CodeAssumption
<1>10. \E some, text : Parsed(coded, some, text) /\ longer = text \o <<>>
  BY <1>6, <1>7
<1>11. \E full \in Nat :
         /\ Len(coded) + Len(<<>>) = Len(longer) + full
         /\ full * (MaxCode - 1) + Len(<<>>) <= Len(longer)
  BY <1>4, <1>8
<1>12. Holds(coded, <<>>, longer)
  BY <1>3, <1>4, <1>9, <1>10, <1>11 DEF Holds
<1>13. QED BY <1>12 DEF longer, coded

LEMMA MarkHeld ==
  ASSUME NEW out, NEW block, NEW prefix \in Text, Holds(out, block, prefix),
         Len(block) + 1 < MaxCode, NEW byte \in Byte \ {0}
  PROVE  Holds(out, Append(block, byte), Append(prefix, byte))
<1>1. /\ out \in Marks /\ block \in Marks
      /\ Len(out) \in Nat /\ Len(block) \in Nat /\ Len(prefix) \in Nat
  BY DEF Holds, Marks, Text
<1>2. PICK turns, data : Parsed(out, turns, data) /\ prefix = data \o block
  BY DEF Holds
<1> DEFINE longer == Append(prefix, byte)
           wider == Append(block, byte)
<1>3. byte \in 1 .. MaxCode /\ byte \in Byte
  BY CodeAssumption DEF Byte
<1>4. wider \in Marks /\ Len(wider) = Len(block) + 1
  BY <1>1, <1>3, AppendProperties DEF Marks
<1>5. longer \in Text /\ Len(longer) = Len(prefix) + 1 /\ longer = prefix \o <<byte>>
  BY <1>3, AppendProperties, AppendIsConcat DEF Text
<1>6. longer = data \o wider
  <2>1. wider = block \o <<byte>>
    BY <1>1, <1>3, AppendIsConcat DEF Marks
  <2>2. data \in Text /\ block \in Text /\ <<byte>> \in Text
    BY <1>1, <1>2, <1>3, CodedFacts DEF Parsed, Text
  <2>3. (data \o block) \o <<byte>> = data \o (block \o <<byte>>)
    BY <2>2, Associates
  <2>4. QED BY <1>2, <1>5, <2>1, <2>3
<1>7. \E full \in Nat :
        /\ Len(out) + Len(wider) = Len(longer) + full
        /\ full * (MaxCode - 1) + Len(wider) <= Len(longer)
  <2>1. PICK full \in Nat :
          /\ Len(out) + Len(block) = Len(prefix) + full
          /\ full * (MaxCode - 1) + Len(block) <= Len(prefix)
    BY DEF Holds
  <2> DEFINE padding == full * (MaxCode - 1)
  <2>2. /\ padding \in Nat /\ padding + Len(block) <= Len(prefix)
        /\ Len(out) + Len(block) = Len(prefix) + full /\ full \in Nat
    BY <2>1, Product
  <2> HIDE DEF wider, longer, padding
  <2>3. /\ Len(out) + Len(wider) = Len(longer) + full
        /\ padding + Len(wider) <= Len(longer)
    BY <1>1, <1>4, <1>5, <2>2
  <2>4. QED BY <2>3 DEF wider, longer, padding
<1>8. Len(wider) < MaxCode
  BY <1>1, <1>4
<1> HIDE DEF longer, wider
<1>9. Holds(out, wider, longer)
  BY <1>1, <1>2, <1>4, <1>6, <1>7, <1>8 DEF Holds
<1>10. QED BY <1>9 DEF longer, wider

LEMMA PushHolds ==
  ASSUME NEW enc \in Encoders, NEW prefix \in Text, Holds(enc.out, enc.block, prefix),
         NEW byte \in Byte
  PROVE  Holds(PushByte(enc, byte).out, PushByte(enc, byte).block, Append(prefix, byte))
<1> DEFINE open == IF Len(enc.block) + 1 = MaxCode THEN Close(enc) ELSE enc
<1>1. /\ open \in Encoders /\ Len(open.block) + 1 < MaxCode
      /\ Holds(open.out, open.block, prefix)
  <2>1. enc.block \in Text /\ Len(enc.block) < MaxCode /\ Len(enc.block) \in Nat
    BY DEF Encoders, Text
  <2>2. CASE Len(enc.block) + 1 = MaxCode
    <3>1. Holds(enc.out \o Coded(enc.block), <<>>, prefix)
      BY <2>2, FullCloses
    <3>2. Close(enc).out = enc.out \o Coded(enc.block)
      BY ClosedOut DEF Holds
    <3>3. Close(enc).block = <<>> /\ Close(enc) \in Encoders
      BY CloseTyped
    <3>4. open = Close(enc) /\ Len(<<>>) + 1 < MaxCode
      BY <2>2, CodeAssumption
    <3> HIDE DEF open
    <3>5. QED BY <3>1, <3>2, <3>3, <3>4
  <2>3. CASE Len(enc.block) + 1 # MaxCode
    <3>1. open = enc
      BY <2>3
    <3> HIDE DEF open
    <3>2. Len(enc.block) + 1 < MaxCode
      BY <2>1, <2>3, CodeAssumption
    <3>3. QED BY <3>1, <3>2
  <2>4. QED BY <2>2, <2>3
<1>2. PushByte(enc, byte) = IF byte = 0 THEN Close(open)
                            ELSE [open EXCEPT !.block = Append(@, byte)]
  BY DEF PushByte
<1> HIDE DEF open
<1>3. CASE byte = 0
  <2>1. Holds(open.out \o Coded(open.block), <<>>, Append(prefix, 0))
    BY <1>1, ZeroCloses
  <2>2. Close(open).out = open.out \o Coded(open.block)
    BY <1>1, ClosedOut DEF Holds
  <2>3. Close(open).block = <<>>
    BY <1>1, CloseTyped
  <2>4. QED BY <1>2, <1>3, <2>1, <2>2, <2>3
<1>4. CASE byte # 0
  <2>1. Holds(open.out, Append(open.block, byte), Append(prefix, byte))
    BY <1>1, <1>4, MarkHeld
  <2>2. /\ PushByte(enc, byte).out = open.out
        /\ PushByte(enc, byte).block = Append(open.block, byte)
    BY <1>1, <1>2, <1>4 DEF Encoders
  <2>3. QED BY <2>1, <2>2
<1>5. QED BY <1>3, <1>4

(* The encoder holds everything pushed into it.                            *)
LEMMA PushedHolds ==
  ASSUME NEW src \in Text
  PROVE  Holds(Pushed(src)[Len(src)].out, Pushed(src)[Len(src)].block, src)
<1> DEFINE Sound(n) == Holds(Pushed(src)[n].out, Pushed(src)[n].block, SubSeq(src, 1, n))
           D == {n \in 0 .. Len(src) : Sound(n)}
<1>1. Len(src) \in Nat /\ \A n \in 1 .. Len(src) : src[n] \in Byte
  BY ElementOfSeq DEF Text
<1>2. 0 \in D
  <2>1. SubSeq(src, 1, 0) = <<>>
    BY SubSeqEmpty
  <2>2. Parsed(<<>>, 0, <<>>)
    <3>1. <<>> \in Marks /\ <<>> \in Text /\ Len(<<>>) = 0
      BY DEF Marks, Text
    <3>2. ASSUME NEW body, Extends(body, <<>>)
          PROVE  Reaches(body, 0, <<>>, <<>>)
      BY <3>1, <3>2, RunSteps DEF Extends, Starts, Reaches
    <3>3. QED BY <3>1, <3>2 DEF Parsed
  <2>3. /\ <<>> \o <<>> = <<>> /\ <<>> \in Marks /\ Len(<<>>) = 0
        /\ 0 < MaxCode /\ 0 * (MaxCode - 1) = 0
    BY CodeAssumption DEF Marks
  <2>4. \E full \in Nat : 0 + 0 = 0 + full /\ full * (MaxCode - 1) + 0 <= 0
    BY <2>3
  <2>5. Holds(<<>>, <<>>, <<>>)
    <3>1. \E turns, data : Parsed(<<>>, turns, data) /\ <<>> = data \o <<>>
      BY <2>2, <2>3
    <3>2. \E full \in Nat :
            /\ Len(<<>>) + Len(<<>>) = Len(<<>>) + full
            /\ full * (MaxCode - 1) + Len(<<>>) <= Len(<<>>)
      BY <2>3, <2>4
    <3>3. QED BY <2>3, <3>1, <3>2 DEF Holds
  <2>6. Pushed(src)[0].out = <<>> /\ Pushed(src)[0].block = <<>>
    BY PushedSteps
  <2>7. Sound(0)
    BY <2>1, <2>5, <2>6, Zenon
  <2>8. 0 \in 0 .. Len(src)
    BY <1>1
  <2>9. QED BY <2>7, <2>8
<1>3. ASSUME NEW n \in 0 .. Len(src) - 1, n \in D PROVE n + 1 \in D
  <2>1. n + 1 \in 1 .. Len(src) /\ n + 1 \in 0 .. Len(src) /\ (n + 1) - 1 = n
    BY <1>1
  <2>2. Pushed(src)[n + 1] = PushByte(Pushed(src)[n], src[n + 1])
    BY <2>1, PushedSteps
  <2>3. Pushed(src)[n] \in Encoders
    BY <1>1, PushedSteps
  <2>4. SubSeq(src, 1, n) \in Text
    <3>1. 1 \in Nat \ {0} /\ n \in Nat /\ 1 <= n + 1 /\ n <= Len(src)
      BY <1>1
    <3>2. QED BY <3>1, SubText
  <2>5. SubSeq(src, 1, n + 1) = Append(SubSeq(src, 1, n), src[n + 1])
    <3>1. SubSeq(src, 1, n + 1) = SubSeq(src, 1, n) \o <<src[n + 1]>>
      BY <1>1, <2>1, SubSeqRecursiveSecond DEF Text
    <3>2. QED BY <1>1, <2>1, <2>4, <3>1, AppendIsConcat DEF Text
  <2>6. Sound(n + 1)
    BY <1>1, <1>3, <2>1, <2>2, <2>3, <2>4, <2>5, PushHolds
  <2>7. QED BY <2>1, <2>6
<1> HIDE DEF D
<1>4. Len(src) \in D
  <2>1. \A n \in 0 .. Len(src) : n \in D
    BY <1>1, <1>2, <1>3, EachUpTo
  <2>2. QED BY <1>1, <2>1
<1>5. SubSeq(src, 1, Len(src)) = src
  BY SubSeqFull DEF Text
<1>6. QED BY <1>4, <1>5 DEF D

LEMMA Quotient ==
  ASSUME NEW n \in Nat, NEW full \in Nat, full * (MaxCode - 1) <= n
  PROVE  /\ n \div (MaxCode - 1) \in Nat /\ full <= n \div (MaxCode - 1)
         /\ n < MaxCode - 1 => full = 0
<1> DEFINE m == MaxCode - 1
           q == n \div m
<1>1. m \in Nat \ {0}
  BY CodeAssumption
<1>2. full * m <= n
  OBVIOUS
<1> HIDE DEF m
<1>3. q \in Nat /\ n < (q + 1) * m
  BY <1>1
<1> HIDE DEF q
<1>4. ASSUME NEW a \in Nat, NEW b \in Nat, a > b PROVE a * m >= (b + 1) * m
  BY <1>1, <1>4
<1>5. full * m \in Nat /\ (q + 1) * m \in Nat
  BY <1>1, <1>3
<1>6. full <= q
  BY <1>2, <1>3, <1>4, <1>5
<1>7. n < m => full = 0
  <2>1. full > 0 => full * m >= (0 + 1) * m
    BY <1>4
  <2>2. QED BY <1>1, <1>2, <1>5, <2>1
<1>8. QED BY <1>3, <1>6, <1>7 DEF q, m

(* The encoding of any bytes: no zero, the length max_encoded_len allows,  *)
(* and a walk that ends just past it with those bytes.                     *)
LEMMA Encoded ==
  ASSUME NEW src \in Text, NEW room \in Nat, MaxEncodedLen(Len(src)) <= room
  PROVE  /\ Encode(src, room) \in Marks /\ Encode(src, room) # <<>>
         /\ Len(Encode(src, room)) <= MaxEncodedLen(Len(src))
         /\ Len(Encode(src, room)) > Len(src)
         /\ Len(src) < MaxCode - 1 => Len(Encode(src, room)) = Len(src) + 1
         /\ Reaches(Encode(src, room), Len(Encode(src, room)), Encode(src, room), src)
<1> DEFINE enc == Pushed(src)[Len(src)]
           body == enc.out \o Coded(enc.block)
<1>1. PICK out, block : out = enc.out /\ block = enc.block
  OBVIOUS
<1>2. Holds(out, block, src)
  BY <1>1, PushedHolds
<1>3. /\ out \in Marks /\ block \in Marks /\ Len(block) < MaxCode
      /\ Len(out) \in Nat /\ Len(block) \in Nat /\ Len(src) \in Nat
  BY <1>2 DEF Holds, Marks, Text
<1>4. /\ body = out \o Coded(block) /\ body \in Marks
      /\ Len(body) = Len(out) + 1 + Len(block)
  BY <1>1, <1>3, CodedFacts
<1>5. Encode(src, room) = body
  <2>1. Len(src) \div (MaxCode - 1) \in Nat
    BY <1>3, CodeAssumption
  <2>2. MaxEncodedLen(Len(src)) \in Nat
    BY <1>3, <2>1 DEF MaxEncodedLen
  <2>3. ~(room < MaxEncodedLen(Len(src)))
    BY <2>2
  <2>4. Close(enc).out = body
    BY <1>1, <1>3, ClosedOut
  <2>5. QED BY <2>3, <2>4 DEF Encode
<1> HIDE DEF enc, body
<1>6. PICK full \in Nat :
        /\ Len(out) + Len(block) = Len(src) + full
        /\ full * (MaxCode - 1) + Len(block) <= Len(src)
  BY <1>2 DEF Holds
<1>7. full * (MaxCode - 1) <= Len(src)
  <2> DEFINE padding == full * (MaxCode - 1)
  <2>1. padding \in Nat /\ padding + Len(block) <= Len(src)
    BY <1>6, Product
  <2> HIDE DEF padding
  <2>2. padding <= Len(src)
    BY <1>3, <2>1
  <2>3. QED BY <2>2 DEF padding
<1>8. /\ Len(src) \div (MaxCode - 1) \in Nat /\ full <= Len(src) \div (MaxCode - 1)
      /\ Len(src) < MaxCode - 1 => full = 0
  BY <1>3, <1>7, Quotient
<1>9. Len(body) = Len(src) + full + 1
  <2>1. Len(out) + Len(block) = Len(src) + full /\ full \in Nat
    BY <1>6
  <2>2. QED BY <1>3, <1>4, <2>1
<1>10. /\ Len(body) <= MaxEncodedLen(Len(src)) /\ Len(body) > Len(src)
       /\ Len(src) < MaxCode - 1 => Len(body) = Len(src) + 1
  <2> DEFINE q == Len(src) \div (MaxCode - 1)
  <2>1. q \in Nat /\ full <= q /\ full \in Nat
    BY <1>8
  <2>2. MaxEncodedLen(Len(src)) = Len(src) + q + 1
    BY DEF MaxEncodedLen
  <2> HIDE DEF q
  <2>3. QED BY <1>3, <1>8, <1>9, <2>1, <2>2
<1>11. body # <<>>
  BY <1>3, <1>10
<1>12. Reaches(body, Len(body), body, src)
  <2>1. PICK turns, data : Parsed(out, turns, data) /\ src = data \o block
    BY <1>2 DEF Holds
  <2>2. Reaches(body, Len(body), body, data \o block)
    BY <1>3, <1>4, <2>1, LastTurn
  <2>3. QED BY <2>1, <2>2
<1>13. QED BY <1>4, <1>5, <1>10, <1>11, <1>12

LEMMA Decoded ==
  ASSUME NEW src \in Text, NEW room \in Nat, MaxEncodedLen(Len(src)) <= room,
         NEW limit \in Nat, Len(src) <= limit
  PROVE  Decode(Encode(src, room), limit) = src
<1> DEFINE body == Encode(src, room)
<1>1. body # <<>> /\ Reaches(body, Len(body), body, src) /\ Len(src) \in Nat
  BY Encoded DEF Text
<1> HIDE DEF body
<1>2. Run(body)[Len(body)].out = src /\ ~Run(body)[Len(body)].refused
  BY <1>1 DEF Reaches
<1>3. Decode(body, limit) = src
  BY <1>1, <1>2 DEF Decode
<1>4. QED BY <1>3 DEF body

(* For any byte and any string of bytes: a frame body holds no delimiter   *)
(* and decodes to the bytes it was made of (cobs.rs, encode and decode).   *)
THEOREM RoundTrips == \A src \in Seq(Byte) : RoundTrip(src)
<1> SUFFICES ASSUME NEW src \in Text PROVE RoundTrip(src)
  BY DEF Text
<1> DEFINE room == MaxEncodedLen(Len(src))
           body == Encode(src, room)
<1>1. Len(src) \in Nat /\ room \in Nat /\ room <= room
  <2>1. Len(src) \in Nat /\ Len(src) \div (MaxCode - 1) \in Nat
    BY CodeAssumption DEF Text
  <2>2. QED BY <2>1 DEF MaxEncodedLen
<1>2. body \in Marks /\ Len(body) > Len(src)
  BY <1>1, Encoded
<1>3. 0 \notin ToSet(body)
  <2> HIDE DEF body
  <2>1. \A i \in DOMAIN body : body[i] \in 1 .. MaxCode
    <3>1. DOMAIN body = 1 .. Len(body) /\ \A i \in 1 .. Len(body) : body[i] \in 1 .. MaxCode
      BY <1>2, LenProperties, ElementOfSeq DEF Marks
    <3>2. QED BY <3>1
  <2>2. QED BY <2>1 DEF ToSet
<1>4. Decode(body, Len(body)) = src
  <2>1. Len(body) \in Nat /\ Len(src) <= Len(body)
    <3> HIDE DEF body
    <3>1. QED BY <1>1, <1>2 DEF Marks
  <2>2. QED BY <1>1, <2>1, Decoded
<1>5. QED BY <1>3, <1>4 DEF RoundTrip

(* For any string of bytes: a buffer sized with max_encoded_len holds its  *)
(* encoding, and one byte of overhead is enough below a full block.        *)
THEOREM EncodingFits == \A src \in Seq(Byte) : WithinBound(src)
<1> SUFFICES ASSUME NEW src \in Text PROVE WithinBound(src)
  BY DEF Text
<1>1. MaxEncodedLen(Len(src)) \in Nat /\ MaxEncodedLen(Len(src)) <= MaxEncodedLen(Len(src))
  <2>1. Len(src) \in Nat /\ Len(src) \div (MaxCode - 1) \in Nat
    BY CodeAssumption DEF Text
  <2>2. QED BY <2>1 DEF MaxEncodedLen
<1>2. QED BY <1>1, Encoded DEF WithinBound
-----------------------------------------------------------------------------
(* The UART.  A frame, the part of it still to be sent, and a reader.      *)
Framing(payload) == payload \o Crc(payload)

Readers == [encoded : Text, overlong : BOOLEAN, waiting : 0 .. MaxWaiting]

LEMMA Bounds ==
  /\ MaxPayload \in Nat /\ MaxFrame \in Nat /\ CrcBytes \in Nat
  /\ IncompleteAfter \in Nat \ {0} /\ MaxWaiting \in Nat
  /\ IncompleteAfter <= MaxWaiting /\ MaxFrame > 2
<1>1. /\ MaxPayload \in Nat \ {0} /\ MaxFrame \in Nat \ {0} /\ CrcBytes \in Nat
      /\ IncompleteAfter \in Nat \ {0} /\ MaxWaiting \in Nat \ {0}
      /\ IncompleteAfter <= MaxWaiting
      /\ MaxFrameLen(MaxPayload) <= MaxFrame
  BY FrameAssumption
<1> DEFINE n == MaxPayload + CrcBytes
           q == n \div (MaxCode - 1)
<1>2. n \in Nat \ {0} /\ q \in Nat
  BY <1>1, CodeAssumption
<1>3. MaxFrameLen(MaxPayload) = n + q + 1 + 1
  BY DEF MaxFrameLen, MaxEncodedLen
<1> HIDE DEF n, q
<1>4. QED BY <1>1, <1>2, <1>3

(* A longer envelope makes no shorter frame.                               *)
LEMMA LenGrows ==
  ASSUME NEW a \in Nat, NEW b \in Nat, a <= b
  PROVE  MaxEncodedLen(a) \in Nat /\ MaxEncodedLen(b) \in Nat
         /\ MaxEncodedLen(a) <= MaxEncodedLen(b)
<1> DEFINE m == MaxCode - 1
           p == a \div m
           q == b \div m
<1>1. m \in Nat \ {0}
  BY CodeAssumption
<1>2. p \in Nat /\ p * m <= a
  <2> HIDE DEF m
  <2>1. QED BY <1>1
<1>3. q \in Nat
  <2> HIDE DEF m
  <2>1. QED BY <1>1
<1>4. p * m <= b
  <2> HIDE DEF p, m
  <2>1. p * m \in Nat
    BY <1>1, <1>2
  <2>2. QED BY <1>2, <2>1
<1>5. p <= q
  <2> HIDE DEF p
  <2>1. QED BY <1>2, <1>4, Quotient
<1>6. MaxEncodedLen(a) = a + p + 1 /\ MaxEncodedLen(b) = b + q + 1
  BY DEF MaxEncodedLen
<1> HIDE DEF p, q
<1>7. QED BY <1>2, <1>3, <1>5, <1>6

LEMMA FramingFacts ==
  ASSUME NEW p \in Payloads
  PROVE  /\ Framing(p) \in Text /\ Len(Framing(p)) = Len(p) + CrcBytes
         /\ Len(p) \in Nat /\ Len(p) <= MaxPayload
         /\ SubSeq(Framing(p), 1, Len(p)) = p
         /\ SubSeq(Framing(p), Len(p) + 1, Len(p) + CrcBytes) = Crc(p)
         /\ MaxEncodedLen(Len(p) + CrcBytes) \in Nat
         /\ MaxEncodedLen(Len(p) + CrcBytes) + 1 <= MaxFrame
<1>1. p \in Text /\ Len(p) \in Nat /\ Len(p) <= MaxPayload
  BY FrameAssumption DEF Text
<1>2. Crc(p) \in Text /\ Len(Crc(p)) = CrcBytes
  <2>1. Crc(p) \in [1 .. CrcBytes -> Byte]
    BY FrameAssumption
  <2>2. QED BY <2>1, Bounds DEF Text
<1> DEFINE c == Crc(p)
           f == Framing(p)
<1> HIDE DEF c
<1>3. /\ f \in Text /\ Len(f) = Len(p) + Len(c)
      /\ \A i \in 1 .. Len(p) + Len(c) :
           f[i] = IF i <= Len(p) THEN p[i] ELSE c[i - Len(p)]
  BY <1>1, <1>2, ConcatProperties DEF Text, Framing, c
<1> HIDE DEF f
<1>4. c \in Text /\ Len(c) = CrcBytes
  BY <1>2 DEF c
<1>5. SubSeq(f, 1, Len(p)) = p
  <2>1. 1 \in Nat \ {0} /\ 1 <= Len(p) + 1 /\ Len(p) <= Len(f) /\ Len(p) - 1 + 1 = Len(p)
    BY <1>1, <1>3, <1>4, Bounds
  <2>2. /\ SubSeq(f, 1, Len(p)) \in Text /\ Len(SubSeq(f, 1, Len(p))) = Len(p)
        /\ \A i \in 1 .. Len(p) : SubSeq(f, 1, Len(p))[i] = f[1 + i - 1]
    BY <1>1, <1>3, <2>1, SubText
  <2>3. \A i \in 1 .. Len(p) : f[1 + i - 1] = p[i]
    <3>1. \A i \in 1 .. Len(p) :
            1 + i - 1 = i /\ i \in 1 .. Len(p) + Len(c) /\ i <= Len(p)
      BY <1>1, <1>4, Bounds
    <3>2. QED BY <1>3, <3>1
  <2>4. QED BY <1>1, <2>2, <2>3, SeqEqual DEF Text
<1>6. SubSeq(f, Len(p) + 1, Len(p) + CrcBytes) = c
  <2> DEFINE a == Len(p) + 1
             b == Len(p) + CrcBytes
             s == SubSeq(f, a, b)
  <2>1. /\ a \in Nat \ {0} /\ b \in Nat /\ a <= b + 1 /\ b <= Len(f)
        /\ b - a + 1 = CrcBytes
        /\ \A i \in 1 .. CrcBytes :
             /\ a + i - 1 = Len(p) + i /\ Len(p) + i \in 1 .. Len(p) + Len(c)
             /\ ~(Len(p) + i <= Len(p)) /\ Len(p) + i - Len(p) = i
    BY <1>1, <1>3, <1>4, Bounds
  <2> HIDE DEF a, b
  <2>2. /\ s \in Text /\ Len(s) = CrcBytes
        /\ \A i \in 1 .. CrcBytes : s[i] = f[a + i - 1]
    BY <1>3, <2>1, SubText
  <2>3. ASSUME NEW i \in 1 .. CrcBytes PROVE s[i] = c[i]
    <3>1. s[i] = f[Len(p) + i]
      BY <2>1, <2>2
    <3>2. f[Len(p) + i] = c[Len(p) + i - Len(p)]
      BY <1>3, <2>1
    <3>3. QED BY <2>1, <3>1, <3>2
  <2> HIDE DEF s
  <2>4. s = c
    BY <1>4, <2>2, <2>3, SeqEqual DEF Text
  <2>5. QED BY <2>4 DEF s, a, b
<1>7. /\ MaxEncodedLen(Len(p) + CrcBytes) \in Nat
      /\ MaxEncodedLen(Len(p) + CrcBytes) + 1 <= MaxFrame
  <2>1. /\ Len(p) + CrcBytes \in Nat /\ MaxPayload + CrcBytes \in Nat
        /\ Len(p) + CrcBytes <= MaxPayload + CrcBytes
    BY <1>1, Bounds
  <2>2. /\ MaxEncodedLen(Len(p) + CrcBytes) \in Nat
        /\ MaxEncodedLen(MaxPayload + CrcBytes) \in Nat
        /\ MaxEncodedLen(Len(p) + CrcBytes) <= MaxEncodedLen(MaxPayload + CrcBytes)
    BY <2>1, LenGrows
  <2>3. MaxEncodedLen(MaxPayload + CrcBytes) + 1 <= MaxFrame
    BY FrameAssumption DEF MaxFrameLen
  <2>4. QED BY <2>2, <2>3, Bounds
<1>8. QED BY <1>1, <1>3, <1>4, <1>5, <1>6, <1>7 DEF c, f

(* A frame is bytes that are no delimiter and then one, fits the reader's  *)
(* buffer, and is taken for the envelope it was made of.                   *)
LEMMA FrameFacts ==
  ASSUME NEW p \in Payloads
  PROVE  LET frame == Framed[p] IN
         /\ frame \in Text /\ Len(frame) > 1 /\ Len(frame) <= MaxFrame
         /\ frame[Len(frame)] = Delimiter
         /\ \A i \in 1 .. Len(frame) - 1 : frame[i] # Delimiter
         /\ Take(SubSeq(frame, 1, Len(frame) - 1)) = Frame(p)
<1> DEFINE body == Encode(Framing(p), MaxFrame)
           frame == Framed[p]
<1>1. /\ Framing(p) \in Text /\ Len(Framing(p)) = Len(p) + CrcBytes
      /\ Len(p) \in Nat /\ Len(p) <= MaxPayload
      /\ MaxEncodedLen(Len(p) + CrcBytes) \in Nat
      /\ MaxEncodedLen(Len(p) + CrcBytes) + 1 <= MaxFrame
  BY FramingFacts
<1>2. frame = body \o <<Delimiter>>
  <2>1. ~(Len(p) > MaxPayload \/ MaxFrame < MaxFrameLen(Len(p)))
    BY <1>1, Bounds DEF MaxFrameLen
  <2>2. QED BY <2>1 DEF Framed, Write, Framing
<1>3. /\ body \in Marks /\ Len(body) <= MaxEncodedLen(Len(p) + CrcBytes)
      /\ Len(body) > Len(p) + CrcBytes
  <2>1. MaxFrame \in Nat /\ MaxEncodedLen(Len(Framing(p))) <= MaxFrame
    BY <1>1, Bounds
  <2>2. QED BY <1>1, <2>1, Encoded
<1>4. Decode(body, MaxPayload + CrcBytes) = Framing(p)
  <2>1. /\ MaxFrame \in Nat /\ MaxEncodedLen(Len(Framing(p))) <= MaxFrame
        /\ MaxPayload + CrcBytes \in Nat /\ Len(Framing(p)) <= MaxPayload + CrcBytes
    BY <1>1, Bounds
  <2>2. QED BY <1>1, <2>1, Decoded
<1> HIDE DEF body, frame
<1>5. body \in Text /\ <<Delimiter>> \in Text /\ Len(body) \in Nat
  <2>1. 0 \in Byte
    BY CodeAssumption DEF Byte
  <2>2. body \in Text
    BY <1>3, MarksText
  <2>3. QED BY <1>3, <2>1, <2>2 DEF Text, Delimiter
<1>6. /\ frame \in Text /\ Len(frame) = Len(body) + 1
      /\ frame[Len(body) + 1] = Delimiter
      /\ \A i \in 1 .. Len(body) : frame[i] = body[i]
  <2>1. 0 \in Byte
    BY CodeAssumption DEF Byte
  <2>2. frame = Append(body, 0)
    BY <1>2, <1>5, <2>1, AppendIsConcat DEF Text, Delimiter
  <2>3. QED BY <1>5, <2>1, <2>2, AppendProperties DEF Text, Delimiter
<1>7. Len(frame) > 1 /\ Len(frame) <= MaxFrame /\ Len(frame) - 1 = Len(body)
  BY <1>1, <1>3, <1>5, <1>6, Bounds
<1>8. \A i \in 1 .. Len(body) : body[i] # Delimiter
  <2>1. \A i \in 1 .. Len(body) : body[i] \in 1 .. MaxCode
    BY <1>3, ElementOfSeq DEF Marks
  <2>2. QED BY <2>1 DEF Delimiter
<1>9. SubSeq(frame, 1, Len(body)) = body
  <2>1. 1 \in Nat \ {0} /\ 1 <= Len(body) + 1 /\ Len(body) <= Len(frame)
        /\ Len(body) - 1 + 1 = Len(body) /\ \A i \in 1 .. Len(body) : 1 + i - 1 = i
    BY <1>5, <1>6
  <2>2. /\ SubSeq(frame, 1, Len(body)) \in Text
        /\ Len(SubSeq(frame, 1, Len(body))) = Len(body)
        /\ \A i \in 1 .. Len(body) : SubSeq(frame, 1, Len(body))[i] = frame[1 + i - 1]
    BY <1>5, <1>6, <2>1, SubText
  <2>3. \A i \in 1 .. Len(body) : SubSeq(frame, 1, Len(body))[i] = body[i]
    BY <1>6, <2>1, <2>2
  <2>4. QED BY <1>5, <2>2, <2>3, SeqEqual DEF Text
<1>10. Take(body) = Frame(p)
  <2> DEFINE decoded == Decode(body, MaxPayload + CrcBytes)
  <2>1. decoded = Framing(p) /\ Len(decoded) = Len(p) + CrcBytes
    BY <1>1, <1>4
  <2> HIDE DEF decoded
  <2>2. Framing(p) # Refused
    <3>1. \A i \in 1 .. Len(Framing(p)) : Framing(p)[i] \in 0 .. MaxCode
      BY <1>1, ElementOfSeq DEF Text, Byte
    <3>2. Len(Refused) = 1 /\ Refused[1] = MaxCode + 1
      BY DEF Refused
    <3>3. ASSUME Framing(p) = Refused PROVE FALSE
      <4>1. 1 \in 1 .. Len(Framing(p))
        BY <3>2, <3>3
      <4>2. MaxCode + 1 \in 0 .. MaxCode
        BY <3>1, <3>2, <3>3, <4>1
      <4>3. QED BY <4>2, CodeAssumption
    <3>4. QED BY <3>3
  <2>3. Len(decoded) - CrcBytes = Len(p) /\ ~(Len(decoded) < CrcBytes)
    BY <1>1, <2>1, Bounds
  <2>4. /\ SubSeq(decoded, 1, Len(p)) = p
        /\ SubSeq(decoded, Len(p) + 1, Len(decoded)) = Crc(p)
    BY <2>1, FramingFacts
  <2>5. ~(decoded = Refused \/ Len(decoded) < CrcBytes)
    BY <2>1, <2>2, <2>3
  <2>6. QED BY <2>3, <2>4, <2>5 DEF Take, decoded
<1>11. QED BY <1>6, <1>7, <1>8, <1>9, <1>10 DEF frame

(* A byte into the reader, and a silence.                                  *)
LEMMA ByteTaken ==
  ASSUME NEW r \in Readers, NEW byte \in Byte
  PROVE  LET next == TickSome(r, byte).reader IN
         /\ byte = Delimiter => TickSome(r, byte) = Delimited(r)
         /\ byte # Delimiter =>
              /\ TickSome(r, byte).received = Nothing
              /\ next \in Readers /\ next.encoded # <<>> /\ next.waiting = 0
              /\ ~r.overlong /\ Len(r.encoded) < MaxFrame - 1 =>
                   ~next.overlong /\ next.encoded = Append(r.encoded, byte)
<1>1. byte = Delimiter => TickSome(r, byte) = Delimited(r)
  BY DEF TickSome
<1>2. ASSUME byte # Delimiter
      PROVE  LET next == TickSome(r, byte).reader IN
             /\ TickSome(r, byte).received = Nothing
             /\ next \in Readers /\ next.encoded # <<>> /\ next.waiting = 0
             /\ ~r.overlong /\ Len(r.encoded) < MaxFrame - 1 =>
                  ~next.overlong /\ next.encoded = Append(r.encoded, byte)
  <2> DEFINE held == Hold(r, byte)
             next == [held EXCEPT !.waiting = 0]
  <2>1. r.encoded \in Text /\ Len(r.encoded) \in Nat
    BY DEF Readers, Text
  <2>2. held \in Readers /\ held.encoded # <<>>
    <3>1. CASE Len(r.encoded) < MaxFrame - 1
      <4>1. held = [r EXCEPT !.encoded = Append(@, byte)]
        BY <3>1 DEF Hold
      <4>2. Append(r.encoded, byte) \in Text /\ Append(r.encoded, byte) # <<>>
        BY <2>1, AppendProperties DEF Text
      <4> HIDE DEF held
      <4>3. QED BY <4>1, <4>2 DEF Readers
    <3>2. CASE ~(Len(r.encoded) < MaxFrame - 1)
      <4>1. held = [r EXCEPT !.overlong = TRUE]
        BY <3>2 DEF Hold
      <4>2. r.encoded # <<>>
        BY <2>1, <3>2, Bounds
      <4> HIDE DEF held
      <4>3. QED BY <4>1, <4>2 DEF Readers
    <3>3. QED BY <3>1, <3>2
  <2>3. ASSUME ~r.overlong, Len(r.encoded) < MaxFrame - 1
        PROVE  ~held.overlong /\ held.encoded = Append(r.encoded, byte)
    <3>1. held = [r EXCEPT !.encoded = Append(@, byte)]
      BY <2>3 DEF Hold
    <3> HIDE DEF held
    <3>2. QED BY <2>3, <3>1 DEF Readers
  <2>4. TickSome(r, byte) = [reader |-> next, received |-> Nothing]
    BY <1>2 DEF TickSome
  <2> HIDE DEF held
  <2>5. /\ next \in Readers /\ next.encoded = held.encoded /\ next.waiting = 0
        /\ next.overlong = held.overlong
    BY <2>2, Bounds DEF Readers
  <2> HIDE DEF next
  <2>6. QED BY <2>2, <2>3, <2>4, <2>5
<1>3. QED BY <1>1, <1>2

LEMMA CappedFacts ==
  ASSUME NEW n \in Nat
  PROVE  Capped(n) \in 0 .. MaxWaiting
BY Bounds DEF Capped

LEMMA SilenceTaken ==
  ASSUME NEW r \in Readers, NEW ms \in Nat
  PROVE  \/ /\ r.encoded # <<>> /\ Capped(r.waiting + ms) >= IncompleteAfter
            /\ TickNone(r, ms) = [reader |-> Empty, received |-> Abandoned]
         \/ /\ r.encoded = <<>> \/ ~(Capped(r.waiting + ms) >= IncompleteAfter)
            /\ TickNone(r, ms).received = Nothing
            /\ TickNone(r, ms).reader \in Readers
            /\ TickNone(r, ms).reader.encoded = r.encoded
            /\ TickNone(r, ms).reader.overlong = r.overlong
            /\ TickNone(r, ms).reader.waiting = Capped(r.waiting + ms)
<1> DEFINE w == Capped(r.waiting + ms)
<1>1. CASE r.encoded # <<>> /\ w >= IncompleteAfter
  BY <1>1 DEF TickNone
<1>2. CASE ~(r.encoded # <<>> /\ w >= IncompleteAfter)
  <2>1. w \in 0 .. MaxWaiting
    <3>1. r.waiting + ms \in Nat
      BY Bounds DEF Readers
    <3>2. QED BY <3>1, CappedFacts
  <2>2. TickNone(r, ms) = [reader |-> [r EXCEPT !.waiting = w], received |-> Nothing]
    BY <1>2 DEF TickNone
  <2> HIDE DEF w
  <2>3. QED BY <1>2, <2>1, <2>2 DEF Readers, w
<1>3. QED BY <1>1, <1>2

(* What is left of a frame after m bytes of it.                            *)
Rest(frame, m) == SubSeq(frame, m + 1, Len(frame))

LEMMA RestFacts ==
  ASSUME NEW frame \in Text, NEW m \in 0 .. Len(frame) - 1
  PROVE  /\ Rest(frame, m) \in Text
         /\ Len(Rest(frame, m)) = Len(frame) - m /\ Rest(frame, m) # <<>>
         /\ Head(Rest(frame, m)) = frame[m + 1] /\ frame[m + 1] \in Byte
         /\ Tail(Rest(frame, m)) = Rest(frame, m + 1)
         /\ m = Len(frame) - 1 => Tail(Rest(frame, m)) = <<>>
         /\ Rest(frame, m) = frame <=> m = 0
         /\ Append(SubSeq(frame, 1, m), frame[m + 1]) = SubSeq(frame, 1, m + 1)
         /\ Len(SubSeq(frame, 1, m)) = m
<1> DEFINE n == Len(frame)
           rest == Rest(frame, m)
<1>1. n \in Nat /\ m \in Nat /\ m + 1 \in 1 .. n /\ (m + 1) - 1 = m
  BY DEF Text
<1>2. /\ rest \in Text /\ Len(rest) = n - m
      /\ Tail(rest) = Rest(frame, m + 1) /\ Head(rest) = frame[m + 1]
  <2> DEFINE a == m + 1
  <2>1. a \in Nat \ {0} /\ a <= n + 1 /\ n <= n /\ n - a + 1 = n - m
        /\ a \in 1 .. n /\ n \in a .. n
    BY <1>1
  <2> HIDE DEF a, n
  <2>2. /\ SubSeq(frame, a, n) \in Text /\ Len(SubSeq(frame, a, n)) = n - m
        /\ Head(SubSeq(frame, a, n)) = frame[a]
        /\ Tail(SubSeq(frame, a, n)) = SubSeq(frame, a + 1, n)
    BY <1>1, <2>1, SubText, HeadTailOfSubSeq DEF Text, n
  <2>3. QED BY <2>2 DEF Rest, a, n
<1>3. frame[m + 1] \in Byte
  BY <1>1, ElementOfSeq DEF Text
<1>4. m = n - 1 => Rest(frame, m + 1) = <<>>
  <2>1. m = n - 1 => n < (m + 1) + 1 /\ n \in Int /\ (m + 1) + 1 \in Int
    BY <1>1
  <2>2. QED BY <2>1, SubSeqEmpty DEF Rest
<1>5. rest = frame <=> m = 0
  <2>1. m = 0 => rest = frame
    <3>1. SubSeq(frame, 1, n) = frame
      BY SubSeqFull DEF Text
    <3>2. m = 0 => m + 1 = 1
      OBVIOUS
    <3>3. QED BY <3>1, <3>2 DEF Rest
  <2> HIDE DEF rest
  <2>2. rest = frame => m = 0
    BY <1>1, <1>2
  <2>3. QED BY <2>1, <2>2
<1>6. SubSeq(frame, 1, m) \in Text /\ Len(SubSeq(frame, 1, m)) = m
  <2>1. 1 \in Nat \ {0} /\ 1 <= m + 1 /\ m <= n /\ m - 1 + 1 = m
    BY <1>1
  <2>2. QED BY <1>1, <2>1, SubText
<1>7. Append(SubSeq(frame, 1, m), frame[m + 1]) = SubSeq(frame, 1, m + 1)
  <2>1. SubSeq(frame, 1, m + 1) = SubSeq(frame, 1, m) \o <<frame[m + 1]>>
    BY <1>1, SubSeqRecursiveSecond DEF Text
  <2>2. QED BY <1>3, <1>6, <2>1, AppendIsConcat DEF Text
<1> HIDE DEF rest
<1>8. rest # <<>>
  BY <1>1, <1>2
<1>9. QED BY <1>2, <1>3, <1>4, <1>5, <1>6, <1>7, <1>8 DEF rest
-----------------------------------------------------------------------------
(* Behind a boundary the reader holds nothing, and its clock says how long *)
(* the line has been silent since the last byte it holds.                  *)
ReaderInv ==
  /\ reader \in Readers /\ quiet \in 0 .. MaxWaiting
  /\ boundary \in BOOLEAN /\ intact \in BOOLEAN /\ faulty \in BOOLEAN
  /\ reader.overlong => reader.encoded # <<>>
  /\ reader.encoded # <<>> => reader.waiting = quiet
  /\ boundary => reader.encoded = <<>>

(* What is still to be sent is the rest of one frame, and the reader holds *)
(* what came before it if the frame is intact.                             *)
LineInv ==
  line # <<>> =>
    /\ sending \in Payloads
    /\ \E m \in 0 .. Len(Framed[sending]) - 1 :
         /\ line = Rest(Framed[sending], m)
         /\ intact => /\ ~reader.overlong
                      /\ reader.encoded = SubSeq(Framed[sending], 1, m)
                      /\ m = 0 => boundary

\* A line without faults is between two frames or in an intact one.
CleanInv == ~faulty => IF line = <<>> THEN boundary ELSE intact

UartInv == ReaderInv /\ LineInv /\ CleanInv /\ RefusalMeansFault

LEMMA EmptyFacts ==
  Empty \in Readers /\ Empty.encoded = <<>> /\ ~Empty.overlong /\ Empty.waiting = 0
BY Bounds DEF Empty, Readers, Text

LEMMA NothingFacts ==
  Nothing.what \notin {"Dropped", "Abandoned"}
  /\ \A envelope : Frame(envelope).what \notin {"Dropped", "Abandoned"}
BY DEF Nothing, Frame

LEMMA InitUart == Init => UartInv
<1> SUFFICES ASSUME Init PROVE UartInv
  OBVIOUS
<1>1. reader = Empty /\ received = Nothing /\ quiet = 0
  BY DEF Init
<1>2. 0 \in 0 .. MaxWaiting
  BY Bounds
<1>3. RefusalMeansFault
  BY <1>1, NothingFacts DEF RefusalMeansFault
<1>4. CASE line = <<>> /\ boundary = TRUE /\ intact = FALSE /\ faulty = FALSE
  BY <1>1, <1>2, <1>3, <1>4, EmptyFacts DEF UartInv, ReaderInv, LineInv, CleanInv
<1>5. ASSUME NEW p \in Payloads, NEW from \in 2 .. Len(Framed[p]),
             line = SubSeq(Framed[p], from, Len(Framed[p])), sending = p,
             boundary = FALSE, intact = FALSE, faulty = TRUE
      PROVE  UartInv
  <2>1. Framed[p] \in Text /\ Len(Framed[p]) \in Nat
    BY FrameFacts DEF Text
  <2>2. from - 1 \in 0 .. Len(Framed[p]) - 1 /\ (from - 1) + 1 = from
    BY <2>1
  <2>3. line = Rest(Framed[sending], from - 1)
    BY <1>5, <2>2 DEF Rest
  <2>4. LineInv
    BY <1>5, <2>2, <2>3 DEF LineInv
  <2>5. QED BY <1>1, <1>2, <1>3, <1>5, <2>4, EmptyFacts DEF UartInv, ReaderInv, CleanInv
<1>6. QED BY <1>4, <1>5 DEF Init

\* What an arriving byte does to the reader, whatever the line does.
LEMMA ArrivesKeeps ==
  ASSUME ReaderInv, NEW byte \in Byte, Arrives(byte)
  PROVE  /\ reader' \in Readers /\ quiet' \in 0 .. MaxWaiting /\ boundary' \in BOOLEAN
         /\ reader'.overlong => reader'.encoded # <<>>
         /\ reader'.encoded # <<>> => reader'.waiting = quiet'
         /\ boundary' => reader'.encoded = <<>>
         /\ boundary' <=> byte = Delimiter
         /\ byte # Delimiter => received' = Nothing
         /\ byte # Delimiter /\ ~reader.overlong /\ Len(reader.encoded) < MaxFrame - 1 =>
              ~reader'.overlong /\ reader'.encoded = Append(reader.encoded, byte)
         /\ byte = Delimiter /\ ~reader.overlong /\ reader.encoded # <<>> =>
              received' = Take(reader.encoded)
<1>1. /\ reader' = TickSome(reader, byte).reader
      /\ received' = TickSome(reader, byte).received
      /\ boundary' = (byte = Delimiter) /\ quiet' = 0
  BY DEF Arrives
<1>2. 0 \in 0 .. MaxWaiting
  BY Bounds
<1>3. CASE byte = Delimiter
  <2>1. TickSome(reader, byte) = Delimited(reader)
    BY <1>3, ByteTaken DEF ReaderInv
  <2>2. reader' = Empty
    BY <1>1, <2>1 DEF Delimited
  <2>3. ~reader.overlong /\ reader.encoded # <<>> => received' = Take(reader.encoded)
    BY <1>1, <2>1 DEF Delimited
  <2>4. QED BY <1>1, <1>2, <1>3, <2>2, <2>3, EmptyFacts
<1>4. CASE byte # Delimiter
  <2>1. /\ received' = Nothing
        /\ reader' \in Readers /\ reader'.encoded # <<>> /\ reader'.waiting = 0
        /\ ~reader.overlong /\ Len(reader.encoded) < MaxFrame - 1 =>
             ~reader'.overlong /\ reader'.encoded = Append(reader.encoded, byte)
    BY <1>1, <1>4, ByteTaken DEF ReaderInv
  <2>2. QED BY <1>1, <1>2, <1>4, <2>1
<1>5. QED BY <1>3, <1>4

\* The end of an intact frame hands its envelope up.
LEMMA SendByteKeeps ==
  ASSUME UartInv, SendByte
  PROVE  /\ UartInv'
         /\ intact /\ line' = <<>> => received' = Frame(sending)
<1>1. /\ line # <<>> /\ Arrives(Head(line)) /\ line' = Tail(line)
      /\ UNCHANGED <<sending, intact, faulty>>
  BY DEF SendByte
<1>2. ReaderInv /\ LineInv /\ CleanInv
  BY DEF UartInv
<1> DEFINE f == Framed[sending]
<1>3. PICK m \in 0 .. Len(f) - 1 :
        /\ line = Rest(f, m)
        /\ intact => /\ ~reader.overlong /\ reader.encoded = SubSeq(f, 1, m)
                     /\ m = 0 => boundary
  BY <1>1, <1>2 DEF LineInv
<1>4. /\ sending \in Payloads /\ f \in Text /\ Len(f) > 1 /\ Len(f) <= MaxFrame
      /\ f[Len(f)] = Delimiter /\ \A i \in 1 .. Len(f) - 1 : f[i] # Delimiter
      /\ Take(SubSeq(f, 1, Len(f) - 1)) = Frame(sending)
      /\ Len(f) \in Nat
  BY <1>1, <1>2, FrameFacts DEF LineInv, Text
<1> HIDE DEF f
<1>5. /\ Head(line) = f[m + 1] /\ f[m + 1] \in Byte
      /\ line' = Rest(f, m + 1)
      /\ m = Len(f) - 1 => line' = <<>>
      /\ Len(SubSeq(f, 1, m)) = m
      /\ Append(SubSeq(f, 1, m), f[m + 1]) = SubSeq(f, 1, m + 1)
  BY <1>1, <1>3, <1>4, RestFacts
<1> DEFINE byte == f[m + 1]
<1>6. /\ reader' \in Readers /\ quiet' \in 0 .. MaxWaiting /\ boundary' \in BOOLEAN
      /\ reader'.overlong => reader'.encoded # <<>>
      /\ reader'.encoded # <<>> => reader'.waiting = quiet'
      /\ boundary' => reader'.encoded = <<>>
      /\ boundary' <=> byte = Delimiter
      /\ byte # Delimiter => received' = Nothing
      /\ byte # Delimiter /\ ~reader.overlong /\ Len(reader.encoded) < MaxFrame - 1 =>
           ~reader'.overlong /\ reader'.encoded = Append(reader.encoded, byte)
      /\ byte = Delimiter /\ ~reader.overlong /\ reader.encoded # <<>> =>
           received' = Take(reader.encoded)
  BY <1>1, <1>2, <1>5, ArrivesKeeps
<1>7. ReaderInv'
  BY <1>1, <1>2, <1>6 DEF ReaderInv
<1>8. CASE m = Len(f) - 1
  <2>1. m + 1 = Len(f) /\ m > 0
    BY <1>4, <1>8
  <2>2. byte = Delimiter /\ line' = <<>>
    BY <1>4, <1>5, <1>8, <2>1
  <2>3. intact => received' = Frame(sending)
    <3>1. ASSUME intact PROVE reader.encoded # <<>>
      <4>1. Len(reader.encoded) = m
        BY <1>3, <1>5, <3>1
      <4>2. QED BY <2>1, <4>1
    <3>2. intact => reader.encoded = SubSeq(f, 1, Len(f) - 1) /\ ~reader.overlong
      BY <1>3, <1>8
    <3>3. QED BY <1>4, <1>6, <2>2, <3>1, <3>2
  <2>4. LineInv' /\ CleanInv'
    BY <1>6, <2>2 DEF LineInv, CleanInv
  <2>5. RefusalMeansFault'
    BY <1>1, <1>2, <2>3, NothingFacts DEF CleanInv, RefusalMeansFault
  <2>6. QED BY <1>1, <1>7, <2>3, <2>4, <2>5 DEF UartInv
<1>9. CASE m # Len(f) - 1
  <2>1. m + 1 \in 0 .. Len(f) - 1 /\ m + 1 \in 1 .. Len(f) - 1 /\ m + 1 # 0
    BY <1>4, <1>9
  <2>2. byte # Delimiter /\ ~boundary'
    BY <1>4, <1>6, <2>1
  <2>3. line' # <<>>
    BY <1>4, <1>5, <2>1, RestFacts
  <2>4. intact => ~reader'.overlong /\ reader'.encoded = SubSeq(f, 1, m + 1)
    <3>1. m < MaxFrame - 1
      BY <1>4, <1>9, Bounds
    <3>2. ASSUME intact
          PROVE  ~reader'.overlong /\ reader'.encoded = Append(SubSeq(f, 1, m), byte)
      <4>1. ~reader.overlong /\ reader.encoded = SubSeq(f, 1, m)
        BY <1>3, <3>2
      <4>2. Len(reader.encoded) < MaxFrame - 1
        BY <1>5, <3>1, <4>1
      <4>3. QED BY <1>6, <2>2, <4>1, <4>2
    <3>3. QED BY <1>5, <3>2
  <2>5. f = Framed[sending] /\ f' = f
    BY <1>1 DEF f, Framed
  <2>6. LineInv'
    BY <1>1, <1>4, <1>5, <2>1, <2>4, <2>5 DEF LineInv, f
  <2>7. CleanInv'
    BY <1>1, <1>2, <2>3 DEF CleanInv
  <2>8. RefusalMeansFault'
    BY <1>6, <2>2, NothingFacts DEF RefusalMeansFault
  <2>9. QED BY <1>7, <2>3, <2>6, <2>7, <2>8 DEF UartInv
<1>10. QED BY <1>8, <1>9

LEMMA StartFrameKeeps ==
  ASSUME UartInv, NEW p \in Payloads, StartFrame(p)
  PROVE  UartInv' /\ line' # <<>>
<1>1. /\ line = <<>> /\ line' = Framed[p] /\ sending' = p /\ intact' = boundary
      /\ received' = Nothing /\ UNCHANGED <<reader, boundary, faulty, quiet>>
  BY DEF StartFrame
<1>2. ReaderInv /\ CleanInv
  BY DEF UartInv
<1> DEFINE f == Framed[p]
<1>3. f \in Text /\ Len(f) \in Nat /\ 0 \in 0 .. Len(f) - 1
  BY FrameFacts DEF Text
<1>4. f' = f
  BY DEF f, Framed
<1> HIDE DEF f
<1>5. f = Rest(f, 0) /\ f # <<>> /\ SubSeq(f, 1, 0) = <<>>
  <2>1. (Rest(f, 0) = f <=> 0 = 0) /\ Rest(f, 0) # <<>> /\ Len(SubSeq(f, 1, 0)) = 0
    BY <1>3, RestFacts
  <2>2. SubSeq(f, 1, 0) = <<>>
    BY <1>3, SubSeqEmpty DEF Text
  <2>3. QED BY <2>1, <2>2
<1>6. line' = f /\ sending' = p /\ Framed'[p] = f
  BY <1>1, <1>4 DEF f
<1>7. ReaderInv'
  BY <1>1, <1>2 DEF ReaderInv
<1>8. intact' => ~reader'.overlong /\ reader'.encoded = SubSeq(f, 1, 0) /\ boundary'
  BY <1>1, <1>2, <1>5 DEF ReaderInv
<1>9. LineInv'
  BY <1>3, <1>5, <1>6, <1>8 DEF LineInv
<1>10. CleanInv'
  BY <1>1, <1>2, <1>5, <1>6 DEF CleanInv
<1>11. RefusalMeansFault'
  BY <1>1, NothingFacts DEF RefusalMeansFault
<1>12. QED BY <1>5, <1>6, <1>7, <1>9, <1>10, <1>11 DEF UartInv

\* After a fault the frame is none of the intact ones.
LEMMA NoiseKeeps ==
  ASSUME UartInv, NEW byte \in Byte, Noise(byte)
  PROVE  UartInv' /\ ~intact'
<1>1. /\ Arrives(byte) /\ intact' = FALSE /\ faulty' = TRUE
      /\ UNCHANGED <<line, sending>>
  BY DEF Noise, Fault
<1>2. ReaderInv /\ LineInv
  BY DEF UartInv
<1>3. ReaderInv'
  <2>1. /\ reader' \in Readers /\ quiet' \in 0 .. MaxWaiting /\ boundary' \in BOOLEAN
        /\ reader'.overlong => reader'.encoded # <<>>
        /\ reader'.encoded # <<>> => reader'.waiting = quiet'
        /\ boundary' => reader'.encoded = <<>>
    BY <1>1, <1>2, ArrivesKeeps
  <2>2. QED BY <1>1, <2>1 DEF ReaderInv
<1>4. LineInv'
  BY <1>1, <1>2 DEF LineInv, Framed
<1>5. QED BY <1>1, <1>3, <1>4 DEF UartInv, CleanInv, RefusalMeansFault

LEMMA LosesKeeps ==
  ASSUME UartInv, LoseByte \/ Stall
  PROVE  UartInv' /\ ~intact'
<1>1. /\ line # <<>> /\ (line' = Tail(line) \/ line' = <<>>)
      /\ intact' = FALSE /\ faulty' = TRUE /\ received' = Nothing
      /\ UNCHANGED <<reader, sending, boundary, quiet>>
  BY DEF LoseByte, Stall, Fault
<1>2. ReaderInv /\ LineInv
  BY DEF UartInv
<1>3. ReaderInv'
  BY <1>1, <1>2 DEF ReaderInv
<1> DEFINE f == Framed[sending]
<1>4. PICK m \in 0 .. Len(f) - 1 : line = Rest(f, m)
  BY <1>1, <1>2 DEF LineInv
<1>5. sending \in Payloads /\ f \in Text /\ Len(f) \in Nat
  BY <1>1, <1>2, FrameFacts DEF LineInv, Text
<1>6. f = Framed[sending] /\ f' = f
  BY <1>1 DEF f, Framed
<1> HIDE DEF f
<1>7. /\ Tail(line) = Rest(f, m + 1)
      /\ m = Len(f) - 1 => Tail(line) = <<>>
      /\ m # Len(f) - 1 => m + 1 \in 0 .. Len(f) - 1
  BY <1>4, <1>5, RestFacts
<1>8. LineInv'
  BY <1>1, <1>5, <1>6, <1>7 DEF LineInv, f
<1>9. QED BY <1>1, <1>3, <1>8 DEF UartInv, CleanInv, RefusalMeansFault

(* The reader's clock is the line's, so it gives a frame up exactly when   *)
(* the silence within it is a fault.                                       *)
LEMMA SilenceKeeps ==
  ASSUME UartInv, NEW ms \in 1 .. IncompleteAfter, Silence(ms)
  PROVE  UartInv' /\ line' = line
<1> DEFINE fresh == line # <<>> /\ line = Framed[sending]
           long  == Capped(quiet + ms) >= IncompleteAfter
           cut   == long /\ line # <<>> /\ ~fresh
<1>1. /\ reader' = TickNone(reader, ms).reader
      /\ received' = TickNone(reader, ms).received
      /\ quiet' = Capped(quiet + ms)
      /\ boundary' = (boundary \/ long)
      /\ intact' = IF fresh THEN boundary' ELSE intact /\ ~cut
      /\ faulty' = (faulty \/ cut)
      /\ line' = line /\ sending' = sending
  BY DEF Silence
<1>2. ReaderInv /\ LineInv /\ CleanInv /\ RefusalMeansFault
  BY DEF UartInv
<1>3. quiet' \in 0 .. MaxWaiting
  <2>1. quiet + ms \in Nat
    BY <1>2, Bounds DEF ReaderInv
  <2>2. QED BY <1>1, <2>1, CappedFacts
<1>4. fresh \in BOOLEAN /\ long \in BOOLEAN /\ cut \in BOOLEAN
  OBVIOUS
<1>5. /\ boundary' \in BOOLEAN /\ intact' \in BOOLEAN /\ faulty' \in BOOLEAN
  <2> HIDE DEF fresh, long, cut
  <2>1. QED BY <1>1, <1>2, <1>4 DEF ReaderInv
\* The silence as the reader's clock and the line's count it.
<1>6. \/ /\ reader.encoded # <<>> /\ long
         /\ reader' = Empty /\ received' = Abandoned
      \/ /\ reader.encoded = <<>> \/ ~long
         /\ received' = Nothing /\ reader' \in Readers
         /\ reader'.encoded = reader.encoded /\ reader'.overlong = reader.overlong
         /\ reader.encoded # <<>> => reader'.waiting = quiet'
  <2>1. reader \in Readers /\ ms \in Nat
    BY <1>2, Bounds DEF ReaderInv
  <2>2. reader.encoded # <<>> => Capped(reader.waiting + ms) = Capped(quiet + ms)
    BY <1>2 DEF ReaderInv
  <2>3. \/ /\ reader.encoded # <<>> /\ Capped(reader.waiting + ms) >= IncompleteAfter
           /\ TickNone(reader, ms) = [reader |-> Empty, received |-> Abandoned]
        \/ /\ reader.encoded = <<>> \/ ~(Capped(reader.waiting + ms) >= IncompleteAfter)
           /\ TickNone(reader, ms).received = Nothing
           /\ TickNone(reader, ms).reader \in Readers
           /\ TickNone(reader, ms).reader.encoded = reader.encoded
           /\ TickNone(reader, ms).reader.overlong = reader.overlong
           /\ TickNone(reader, ms).reader.waiting = Capped(reader.waiting + ms)
    BY <2>1, SilenceTaken
  <2>4. CASE /\ reader.encoded # <<>> /\ Capped(reader.waiting + ms) >= IncompleteAfter
             /\ TickNone(reader, ms) = [reader |-> Empty, received |-> Abandoned]
    BY <1>1, <2>2, <2>4
  <2>5. CASE /\ reader.encoded = <<>> \/ ~(Capped(reader.waiting + ms) >= IncompleteAfter)
             /\ TickNone(reader, ms).received = Nothing
             /\ TickNone(reader, ms).reader \in Readers
             /\ TickNone(reader, ms).reader.encoded = reader.encoded
             /\ TickNone(reader, ms).reader.overlong = reader.overlong
             /\ TickNone(reader, ms).reader.waiting = Capped(reader.waiting + ms)
    BY <1>1, <2>2, <2>5
  <2>6. QED BY <2>3, <2>4, <2>5
<1> HIDE DEF long
<1>7. ReaderInv'
  <2>1. CASE reader' = Empty
    BY <1>3, <1>5, <2>1, EmptyFacts DEF ReaderInv
  <2>2. CASE /\ reader.encoded = <<>> \/ ~long
             /\ reader' \in Readers
             /\ reader'.encoded = reader.encoded /\ reader'.overlong = reader.overlong
             /\ reader.encoded # <<>> => reader'.waiting = quiet'
    <3>1. boundary' => reader'.encoded = <<>>
      BY <1>1, <1>2, <2>2 DEF ReaderInv
    <3>2. QED BY <1>2, <1>3, <1>5, <2>2, <3>1 DEF ReaderInv
  <2>3. QED BY <1>6, <2>1, <2>2
<1>8. CASE line = <<>>
  <2>1. ~fresh /\ ~cut
    BY <1>8
  <2> HIDE DEF fresh, cut
  <2>2. LineInv' /\ CleanInv'
    BY <1>1, <1>2, <1>8, <2>1 DEF LineInv, CleanInv
  <2>3. reader.encoded # <<>> => faulty'
    BY <1>1, <1>2, <1>8 DEF CleanInv, ReaderInv
  <2>4. RefusalMeansFault'
    BY <1>6, <2>3, NothingFacts DEF RefusalMeansFault
  <2>5. QED BY <1>1, <1>7, <2>2, <2>4 DEF UartInv
<1>9. CASE line # <<>>
  <2> DEFINE f == Framed[sending]
  <2>1. PICK m \in 0 .. Len(f) - 1 :
          /\ line = Rest(f, m)
          /\ intact => /\ ~reader.overlong /\ reader.encoded = SubSeq(f, 1, m)
                       /\ m = 0 => boundary
    BY <1>2, <1>9 DEF LineInv
  <2>2. sending \in Payloads /\ f \in Text
    BY <1>2, <1>9, FrameFacts DEF LineInv
  <2>3. fresh <=> line = f
    BY <1>9
  <2>4. f = Framed[sending] /\ f' = f
    BY <1>1 DEF f, Framed
  <2> HIDE DEF f
  <2>5. (fresh <=> m = 0) /\ (m = 0 => SubSeq(f, 1, m) = <<>>)
    <3>1. (Rest(f, m) = f <=> m = 0) /\ Len(SubSeq(f, 1, m)) = m
      BY <2>1, <2>2, RestFacts
    <3>2. m = 0 => SubSeq(f, 1, m) = <<>>
      BY <2>2, SubSeqEmpty DEF Text
    <3>3. QED BY <2>1, <2>3, <3>1, <3>2
  <2>6. cut <=> long /\ m # 0
    BY <1>9, <2>5
  <2>7. intact' = IF m = 0 THEN boundary' ELSE intact /\ ~cut
    BY <1>1, <2>5
  <2> HIDE DEF fresh, cut
  <2>8. intact' => /\ ~reader'.overlong /\ reader'.encoded = SubSeq(f, 1, m)
                   /\ m = 0 => boundary'
    <3>1. CASE m = 0
      <4>1. intact' => boundary' /\ reader'.encoded = <<>>
        BY <1>7, <2>7, <3>1 DEF ReaderInv
      <4>2. QED BY <1>7, <2>5, <3>1, <4>1 DEF ReaderInv
    <3>2. CASE m # 0
      <4>1. intact' => intact /\ ~long
        BY <2>6, <2>7, <3>2
      <4>2. QED BY <1>6, <2>1, <3>2, <4>1
    <3>3. QED BY <3>1, <3>2
  <2>9. LineInv'
    <3>1. line' = Rest(f, m) /\ sending' \in Payloads
      BY <1>1, <2>1, <2>2
    <3>2. \E k \in 0 .. Len(f) - 1 :
            /\ line' = Rest(f, k)
            /\ intact' => /\ ~reader'.overlong /\ reader'.encoded = SubSeq(f, 1, k)
                          /\ k = 0 => boundary'
      BY <2>1, <2>8, <3>1
    <3>3. f = Framed'[sending']
      BY <2>4 DEF f
    <3>4. QED BY <3>1, <3>2, <3>3 DEF LineInv
  <2>10. CleanInv'
    BY <1>1, <1>2, <1>9, <2>1, <2>6, <2>7 DEF CleanInv
  <2>11. reader.encoded # <<>> /\ long => faulty'
    <3>1. m = 0 /\ intact => reader.encoded = <<>>
      BY <2>1, <2>5
    <3>2. m # 0 /\ long => faulty'
      BY <1>1, <2>6
    <3>3. ~intact => faulty'
      BY <1>1, <1>2, <1>9 DEF CleanInv
    <3>4. QED BY <3>1, <3>2, <3>3
  <2>12. RefusalMeansFault'
    BY <1>6, <2>11, NothingFacts DEF RefusalMeansFault
  <2>13. QED BY <1>1, <1>7, <2>9, <2>10, <2>12 DEF UartInv
<1>10. QED BY <1>8, <1>9

LEMMA NextUart ==
  ASSUME UartInv, Next \/ UNCHANGED uartVars
  PROVE  /\ UartInv'
         /\ Len(line) = 1 /\ line' = <<>> /\ intact /\ intact' =>
              received' = Frame(sending)
<1>1. ASSUME NEW p \in Payloads, StartFrame(p)
      PROVE  UartInv' /\ line' # <<>>
  BY <1>1, StartFrameKeeps
<1>2. CASE SendByte
  BY <1>2, SendByteKeeps
<1>3. ASSUME NEW byte \in Byte, Noise(byte)
      PROVE  UartInv' /\ ~intact'
  BY <1>3, NoiseKeeps
<1>4. CASE LoseByte \/ Stall
  BY <1>4, LosesKeeps
<1>5. ASSUME NEW ms \in 1 .. IncompleteAfter, Silence(ms)
      PROVE  UartInv' /\ line' = line
  BY <1>5, SilenceKeeps
<1>6. Len(line) = 1 /\ line' = line => line' # <<>>
  OBVIOUS
<1>7. CASE UNCHANGED uartVars
  <2>1. UNCHANGED <<reader, received, line, sending, boundary, intact, faulty, quiet>>
    BY <1>7 DEF uartVars
  <2>2. UartInv'
    BY <2>1 DEF UartInv, ReaderInv, LineInv, CleanInv, RefusalMeansFault, Framed
  <2>3. QED BY <1>6, <2>1, <2>2
<1>8. QED BY <1>1, <1>2, <1>3, <1>4, <1>5, <1>6, <1>7 DEF Next

(* A refusal on the reader's counter is a fault of the line, however the   *)
(* envelopes, the faults and the silences follow each other (P-031,        *)
(* FrameReader::push and tick).                                            *)
THEOREM RefusalsAreFaults == LinksSpec => []RefusalMeansFault
<1>1. LinksInit => UartInv
  BY InitUart DEF LinksInit
<1>2. UartInv /\ [LinksNext]_<<part, bleVars, uartVars, faults>> => UartInv'
  BY NextUart DEF LinksNext
<1>3. UartInv => RefusalMeansFault
  BY DEF UartInv
<1>4. QED BY <1>1, <1>2, <1>3, PTL DEF LinksSpec

(* An envelope framed behind a boundary is handed up as it was sent, by a  *)
(* reader that joined anywhere and has seen anything (P-030,               *)
(* FrameReader::push and tick).                                            *)
THEOREM CleanFramesArrive == LinksSpec => CleanFrameArrives
<1>1. LinksInit => UartInv
  BY InitUart DEF LinksInit
<1>2. UartInv /\ [LinksNext]_<<part, bleVars, uartVars, faults>> => UartInv'
  BY NextUart DEF LinksNext
<1>3. UartInv /\ [LinksNext]_<<part, bleVars, uartVars, faults>> =>
        [Len(line) = 1 /\ line' = <<>> /\ intact /\ intact'
           => received' = Frame(sending)]_vars
  BY NextUart DEF LinksNext
<1>4. QED BY <1>1, <1>2, <1>3, PTL DEF LinksSpec, CleanFrameArrives
-----------------------------------------------------------------------------
(* BLE.  A byte is the serial number of its message and its place in it;   *)
(* a message's first byte says which message it is.                        *)
Message(bytes) == bytes[1][1]

\* Where the n-th fragment of message k starts.
Start(k, n) == n * limits[k]

(* The values on their way, and what the sender offers next: the message   *)
(* and the fragment of it in place i.                                      *)
MessageAt(i) == IF i <= Len(fifo) THEN Message(fifo[i].data)
                ELSE IF pending # Ble!None THEN pending.serial
                ELSE Len(sent) + 1
FragmentAt(i) == IF i <= Len(fifo) THEN fifo[i].index
                 ELSE IF pending # Ble!None THEN pending.index ELSE 0

(* Message k is numbered id, in some turn of the ids since the last        *)
(* connection's first message.                                             *)
Numbered(base, k, id) ==
  id \in 0 .. Ids - 1 /\ \E turn \in Int : k = base + turn * Ids + id

(* A value is one fragment of a message, cut where the limit cuts it.      *)
Sound(base, v) ==
  LET k == Message(v.data) IN
  /\ k \in 1 .. Len(sent)
  /\ v.index \in Nat
  /\ Start(k, v.index) < sent[k]
  /\ Numbered(base, k, v.id)
  /\ \/ /\ v.last = TRUE
        /\ v.data = Ble!Bytes(k, Start(k, v.index), sent[k])
     \/ /\ v.last = FALSE
        /\ Start(k, v.index + 1) < sent[k]
        /\ v.data = Ble!Bytes(k, Start(k, v.index), Start(k, v.index + 1))

\* A byte is the serial number of its message and its place in it.
Places == Nat \X Nat
Strings == Seq(Places)
Values == [id : Nat, index : Nat, last : BOOLEAN, data : Strings]

Assemblies == [active : BOOLEAN, id : Nat, expected : Nat, bytes : Strings, age : Int]

SentInv ==
  /\ sent \in Seq(1 .. MaxPayload)
  /\ limits \in Seq(Limits)
  /\ Len(limits) = Len(sent)
  /\ faults \in 0 .. MaxFaults

SenderInv(base) ==
  /\ Numbered(base, IF pending # Ble!None THEN Len(sent) ELSE Len(sent) + 1, nextId)
  /\ pending # Ble!None =>
       /\ pending \in [serial : Nat, offset : Nat, index : Nat, limit : Nat, offered : Int]
       /\ Len(sent) > 0
       /\ pending.serial = Len(sent)
       /\ pending.limit = limits[Len(sent)]
       /\ pending.offset = Start(Len(sent), pending.index)
       /\ pending.offset < sent[Len(sent)]
       /\ pending.offered \in {-1, Ble!End(pending)}

(* The values on their way follow one another without a gap.               *)
WireInv(base) ==
  /\ fifo \in Seq(Values)
  /\ \A i \in 1 .. Len(fifo) :
       /\ Sound(base, fifo[i])
       /\ IF fifo[i].last
          THEN MessageAt(i + 1) = MessageAt(i) + 1 /\ FragmentAt(i + 1) = 0
          ELSE /\ MessageAt(i + 1) = MessageAt(i)
               /\ FragmentAt(i + 1) = FragmentAt(i) + 1

(* An assembly is the head of one message.  The stack has failed once for  *)
(* every message since, and once more if it is past a message's start.     *)
AssemblyInv(base) ==
  rx.active =>
    LET k == Message(rx.bytes) IN
    /\ k \in 1 .. Len(sent)
    /\ rx.expected \in Nat \ {0}
    /\ Start(k, rx.expected) < sent[k]
    /\ rx.bytes = Ble!Bytes(k, 0, Start(k, rx.expected))
    /\ Numbered(base, k, rx.id)
    /\ k <= MessageAt(1)
    /\ k < MessageAt(1) =>
         faults >= MessageAt(1) - k + (IF FragmentAt(1) > 0 THEN 1 ELSE 0)

(* What was handed up is whole, in order, and of messages before the one   *)
(* on its way, or of that one if the stack repeated its end.               *)
DeliveredInv ==
  /\ delivered \in Seq(Strings)
  /\ \A i \in DOMAIN delivered :
       /\ Message(delivered[i]) \in 1 .. Len(sent)
       /\ delivered[i] = Ble!Whole(Message(delivered[i]))
       /\ \/ Message(delivered[i]) < MessageAt(1)
          \/ Message(delivered[i]) = MessageAt(1) /\ faults > 0
  /\ \A i, j \in DOMAIN delivered : i < j =>
       \/ Message(delivered[i]) < Message(delivered[j])
       \/ delivered[i] = delivered[j] /\ faults > 0

BleInv ==
  /\ SentInv
  /\ DeliveredInv
  /\ rx \in Assemblies
  /\ ~rx.active => rx = Ble!IdleRx
  /\ \E base \in Int : SenderInv(base) /\ WireInv(base) /\ AssemblyInv(base)
-----------------------------------------------------------------------------
LEMMA Constants ==
  /\ Ids \in Nat \ {0} /\ MaxPayload \in Nat \ {0} /\ MaxFaults \in Nat
  /\ MaxFaults <= Ids
  /\ \A limit \in Limits : limit \in Nat \ {0}
BY LinksAssumption, TurnAssumption DEF Ble!BleAssumption

LEMMA BytesFacts ==
  ASSUME NEW k \in Nat, NEW a \in Nat, NEW b \in Nat, a <= b
  PROVE  /\ Ble!Bytes(k, a, b) \in Strings
         /\ Len(Ble!Bytes(k, a, b)) = b - a
         /\ a < b => Message(Ble!Bytes(k, a, b)) = k
<1> DEFINE bytes == Ble!Bytes(k, a, b)
<1>1. bytes = [i \in 1 .. b - a |-> <<k, a + i>>] /\ b - a \in Nat
  BY DEF Ble!Bytes
<1>2. \A i \in 1 .. b - a : <<k, a + i>> \in Places
  BY DEF Places
<1>3. bytes \in [1 .. b - a -> Places]
  BY <1>1, <1>2
<1>4. bytes \in Strings /\ Len(bytes) = b - a
  <2> DEFINE n == b - a
  <2>1. n \in Nat /\ bytes \in [1 .. n -> Places]
    BY <1>1, <1>3
  <2> HIDE DEF n, bytes
  <2>2. bytes \in Seq(Places) /\ Len(bytes) = n
    BY <2>1
  <2>3. QED BY <2>2 DEF n, Strings
<1>5. a < b => Message(bytes) = k
  <2>1. a < b => 1 \in 1 .. b - a
    OBVIOUS
  <2>2. a < b => bytes[1] = <<k, a + 1>>
    BY <1>1, <2>1
  <2>3. QED BY <2>2 DEF Message
<1>6. QED BY <1>4, <1>5

LEMMA BytesJoin ==
  ASSUME NEW k \in Nat, NEW a \in Nat, NEW b \in Nat, NEW c \in Nat, a <= b, b <= c
  PROVE  Ble!Bytes(k, a, b) \o Ble!Bytes(k, b, c) = Ble!Bytes(k, a, c)
<1> DEFINE x == Ble!Bytes(k, a, b)
           y == Ble!Bytes(k, b, c)
           z == Ble!Bytes(k, a, c)
<1>1. /\ x \in Strings /\ y \in Strings /\ z \in Strings
      /\ Len(x) = b - a /\ Len(y) = c - b /\ Len(z) = c - a
  <2>1. x \in Strings /\ Len(x) = b - a
    BY BytesFacts
  <2>2. y \in Strings /\ Len(y) = c - b
    BY BytesFacts
  <2>3. z \in Strings /\ Len(z) = c - a
    BY BytesFacts
  <2>4. QED BY <2>1, <2>2, <2>3
<1>2. x = [i \in 1 .. b - a |-> <<k, a + i>>]
  BY DEF Ble!Bytes
<1>3. y = [i \in 1 .. c - b |-> <<k, b + i>>]
  BY DEF Ble!Bytes
<1>4. z = [i \in 1 .. c - a |-> <<k, a + i>>]
  BY DEF Ble!Bytes
<1> HIDE DEF x, y, z
<1>5. /\ x \o y \in Strings
      /\ Len(x \o y) = c - a
      /\ \A i \in 1 .. c - a : (x \o y)[i] = IF i <= b - a THEN x[i] ELSE y[i - (b - a)]
  <2>1. x \in Seq(Places) /\ y \in Seq(Places)
    BY <1>1 DEF Strings
  <2>2. Len(x) + Len(y) = c - a
    BY <1>1
  <2>3. /\ x \o y \in Seq(Places)
        /\ Len(x \o y) = Len(x) + Len(y)
        /\ \A i \in 1 .. Len(x) + Len(y) :
             (x \o y)[i] = IF i <= Len(x) THEN x[i] ELSE y[i - Len(x)]
    BY <2>1, ConcatProperties
  <2>4. QED BY <1>1, <2>2, <2>3 DEF Strings
<1>6. ASSUME NEW i \in 1 .. c - a PROVE (x \o y)[i] = z[i]
  <2>1. CASE i <= b - a
    BY <1>1, <1>2, <1>4, <1>5, <2>1
  <2>2. CASE ~(i <= b - a)
    <3>1. i - (b - a) \in 1 .. Len(y)
      BY <1>1, <2>2
    <3>2. (x \o y)[i] = y[i - (b - a)]
      BY <1>5, <2>2
    <3>3. b + (i - (b - a)) = a + i
      OBVIOUS
    <3>4. QED BY <1>1, <1>3, <1>4, <3>1, <3>2, <3>3
  <2>3. QED BY <2>1, <2>2
<1>7. x \o y = z
  BY <1>1, <1>5, <1>6, SeqEqual DEF Strings
<1>8. QED BY <1>7 DEF x, y, z

LEMMA StartFacts ==
  ASSUME NEW k, limits[k] \in Nat \ {0}, NEW n \in Nat
  PROVE  /\ Start(k, n) \in Nat
         /\ Start(k, 0) = 0
         /\ Start(k, n + 1) = Start(k, n) + limits[k]
<1>1. \A l \in Nat : n * l \in Nat /\ 0 * l = 0 /\ (n + 1) * l = n * l + l
  OBVIOUS
<1>2. QED BY <1>1 DEF Start

(* Two messages of one number are a turn of the ids apart.                 *)
LEMMA Turns ==
  ASSUME NEW base \in Int, NEW k \in Int, NEW j \in Int, NEW id,
         Numbered(base, k, id), Numbered(base, j, id), k < j
  PROVE  j - k >= Ids
<1>0. Ids \in Nat \ {0} /\ id \in Int
  BY Constants DEF Numbered
<1>1. PICK p \in Int : k = base + p * Ids + id
  BY DEF Numbered
<1>2. PICK q \in Int : j = base + q * Ids + id
  BY DEF Numbered
<1>3. j - k = (q - p) * Ids
  BY <1>0, <1>1, <1>2
<1>4. q - p >= 1
  <2>1. SUFFICES ASSUME q - p <= 0 PROVE FALSE
    OBVIOUS
  <2>2. (q - p) * Ids <= 0
    BY <2>1, <1>0
  <2>3. QED BY <2>2, <1>3
<1>5. (q - p) * Ids >= Ids
  BY <1>0, <1>4
<1>6. QED BY <1>3, <1>5

LEMMA NextNumbered ==
  ASSUME NEW base \in Int, NEW k \in Int, NEW id, Numbered(base, k, id)
  PROVE  Numbered(base, k + 1, (id + 1) % Ids)
<1>0. Ids \in Nat \ {0} /\ id \in 0 .. Ids - 1
  BY Constants DEF Numbered
<1>1. PICK turn \in Int : k = base + turn * Ids + id
  BY DEF Numbered
<1>2. CASE id + 1 < Ids
  <2>1. (id + 1) % Ids = id + 1
    BY <1>0, <1>2
  <2>2. k + 1 = base + turn * Ids + (id + 1) /\ id + 1 \in 0 .. Ids - 1
    BY <1>0, <1>1, <1>2
  <2>3. QED BY <2>1, <2>2 DEF Numbered
<1>3. CASE id + 1 = Ids
  <2>1. (id + 1) % Ids = 0
    BY <1>0, <1>3
  <2>2. (turn + 1) * Ids = turn * Ids + Ids
    BY <1>0
  <2>3. k + 1 = base + (turn + 1) * Ids + 0 /\ 0 \in 0 .. Ids - 1 /\ turn + 1 \in Int
    BY <1>0, <1>1, <1>3, <2>2
  <2>4. QED BY <2>1, <2>3 DEF Numbered
<1>4. QED BY <1>0, <1>2, <1>3
-----------------------------------------------------------------------------
LEMMA MessageFacts ==
  ASSUME SentInv, NEW k \in 1 .. Len(sent)
  PROVE  /\ k \in Nat /\ sent[k] \in Nat \ {0} /\ limits[k] \in Nat \ {0}
         /\ \A n \in Nat : /\ Start(k, n) \in Nat
                            /\ Start(k, 0) = 0
                            /\ Start(k, n + 1) = Start(k, n) + limits[k]
<1>1. k \in Nat /\ sent[k] \in 1 .. MaxPayload /\ limits[k] \in Limits
  <2>1. sent \in Seq(1 .. MaxPayload) /\ limits \in Seq(Limits) /\ Len(limits) = Len(sent)
    BY DEF SentInv
  <2>2. Len(sent) \in Nat /\ k \in Nat /\ k \in 1 .. Len(limits)
    BY <2>1
  <2>3. sent[k] \in 1 .. MaxPayload
    BY <2>1, ElementOfSeq
  <2>4. limits[k] \in Limits
    BY <2>1, <2>2, ElementOfSeq
  <2>5. QED BY <2>2, <2>3, <2>4
<1>2. sent[k] \in Nat \ {0} /\ limits[k] \in Nat \ {0}
  BY <1>1, Constants
<1>3. QED BY <1>1, <1>2, StartFacts

LEMMA IdleFacts == Ble!IdleRx \in Assemblies
<1>1. <<>> \in Strings
  BY DEF Strings
<1>2. QED BY <1>1 DEF Ble!IdleRx, Assemblies

(* What an assembly is continued from.                                     *)
LEMMA Continued ==
  ASSUME NEW v, rx.active \in BOOLEAN, ~rx.active => rx = Ble!IdleRx
  PROVE  LET r == Ble!SameMessage(Ble!Expire(rx), v)
         IN  r = Ble!IdleRx \/ (r = rx /\ rx.active /\ rx.id = v.id)
<1>1. Ble!IdleRx.active = FALSE
  BY DEF Ble!IdleRx
<1>2. Ble!SameMessage(Ble!IdleRx, v) = Ble!IdleRx
  BY <1>1 DEF Ble!SameMessage
<1>3. CASE Ble!Expire(rx) = Ble!IdleRx
  BY <1>2, <1>3
<1>4. CASE Ble!Expire(rx) # Ble!IdleRx
  <2>1. Ble!Expire(rx) = rx /\ rx.active
    BY <1>4 DEF Ble!Expire
  <2>2. CASE rx.id = v.id
    BY <2>1, <2>2 DEF Ble!SameMessage
  <2>3. CASE rx.id # v.id
    BY <2>1, <2>3 DEF Ble!SameMessage
  <2>4. QED BY <2>2, <2>3
<1>5. QED BY <1>3, <1>4

(* Whatever is received at the head of the queue, the assembly left is     *)
(* that value's message up to its fragment, and what is handed up is that  *)
(* message, whole.                                                         *)
LEMMA Received ==
  ASSUME NEW base \in Int, SentInv, WireInv(base), AssemblyInv(base),
         rx.active \in BOOLEAN, ~rx.active => rx = Ble!IdleRx,
         fifo # <<>>, Ble!Receive(Head(fifo))
  PROVE  LET v == Head(fifo)
             j == Message(v.data)
         IN  /\ ~rx'.active => rx' = Ble!IdleRx
             /\ rx' \in Assemblies
             /\ rx'.active =>
                  /\ ~v.last
                  /\ rx'.expected = v.index + 1
                  /\ rx'.id = v.id
                  /\ rx'.bytes = Ble!Bytes(j, 0, Start(j, v.index + 1))
             /\ \/ delivered' = delivered
                \/ v.last /\ delivered' = Append(delivered, Ble!Whole(j))
<1> DEFINE v == Head(fifo)
           j == Message(v.data)
           r == Ble!SameMessage(Ble!Expire(rx), v)
           bytes == r.bytes \o v.data
<1>1. /\ v = fifo[1] /\ v \in Values /\ Sound(base, v)
      /\ MessageAt(1) = j /\ FragmentAt(1) = v.index
  <2>1. v = fifo[1] /\ Len(fifo) >= 1 /\ v \in Values
    BY DEF WireInv
  <2>2. Sound(base, v)
    BY <2>1 DEF WireInv
  <2>3. QED BY <2>1, <2>2 DEF MessageAt, FragmentAt
<1>2. /\ j \in 1 .. Len(sent) /\ v.index \in Nat /\ v.last \in BOOLEAN
      /\ Start(j, v.index) < sent[j]
      /\ Numbered(base, j, v.id)
      /\ v.last => v.data = Ble!Bytes(j, Start(j, v.index), sent[j])
      /\ ~v.last => v.data = Ble!Bytes(j, Start(j, v.index), Start(j, v.index + 1))
  BY <1>1 DEF Sound, Values
<1>3. /\ j \in Nat /\ sent[j] \in Nat \ {0} /\ limits[j] \in Nat \ {0}
      /\ Start(j, v.index) \in Nat
      /\ Start(j, 0) = 0
      /\ Start(j, v.index + 1) = Start(j, v.index) + limits[j]
  BY <1>2, MessageFacts
<1>4. r = Ble!IdleRx \/ (r = rx /\ rx.active /\ rx.id = v.id)
  BY Continued
<1>r. /\ rx' = IF Ble!Refuses(r, v) \/ v.last THEN Ble!IdleRx
              ELSE [active |-> TRUE, id |-> v.id, expected |-> v.index + 1,
                    bytes |-> bytes, age |-> 0]
      /\ delivered' = IF ~Ble!Refuses(r, v) /\ v.last THEN Append(delivered, bytes)
                     ELSE delivered
  BY DEF Ble!Receive
<1>g. SUFFICES
        /\ ~rx'.active => rx' = Ble!IdleRx
        /\ rx' \in Assemblies
        /\ rx'.active =>
             /\ ~v.last
             /\ rx'.expected = v.index + 1
             /\ rx'.id = v.id
             /\ rx'.bytes = Ble!Bytes(j, 0, Start(j, v.index + 1))
        /\ \/ delivered' = delivered
           \/ v.last /\ delivered' = Append(delivered, Ble!Whole(j))
  OBVIOUS
<1> HIDE DEF v, j, r
<1>b. \A a, b, c \in Nat : a <= b /\ b <= c =>
        Ble!Bytes(j, a, b) \o Ble!Bytes(j, b, c) = Ble!Bytes(j, a, c)
  <2>1. j \in Nat
    BY <1>3
  <2>2. ASSUME NEW a \in Nat, NEW b \in Nat, NEW c \in Nat, a <= b, b <= c
        PROVE  Ble!Bytes(j, a, b) \o Ble!Bytes(j, b, c) = Ble!Bytes(j, a, c)
    BY <2>1, <2>2, BytesJoin
  <2>3. QED BY <2>2
<1>5. CASE Ble!Refuses(r, v)
  BY <1>5, <1>r, IdleFacts DEF Ble!IdleRx
<1>6. CASE ~Ble!Refuses(r, v)
  <2>1. v.index = IF r.active THEN r.expected ELSE 0
    BY <1>6 DEF Ble!Refuses, Ble!OutOfPlace
  <2>2. r.bytes = Ble!Bytes(j, 0, Start(j, v.index))
    <3>1. CASE r = Ble!IdleRx
      <4>1. v.index = 0 /\ r.bytes = <<>>
        BY <2>1, <3>1 DEF Ble!IdleRx
      <4>2. Ble!Bytes(j, 0, 0) = <<>>
        BY DEF Ble!Bytes
      <4>3. QED BY <1>3, <4>1, <4>2
    <3>2. CASE r = rx /\ rx.active /\ rx.id = v.id
      <4> DEFINE k == Message(rx.bytes)
      <4>1. /\ k \in 1 .. Len(sent) /\ rx.expected \in Nat \ {0}
            /\ rx.bytes = Ble!Bytes(k, 0, Start(k, rx.expected))
            /\ Numbered(base, k, v.id)
            /\ k <= j
            /\ k < j => faults >= j - k + (IF v.index > 0 THEN 1 ELSE 0)
        BY <1>1, <3>2 DEF AssemblyInv
      <4>2. v.index = rx.expected
        BY <2>1, <3>2
      <4>3. ASSUME k < j PROVE FALSE
        <5>1. j - k >= Ids
          BY <1>2, <4>1, <4>3, Turns
        <5>2. faults >= j - k + 1 /\ faults \in Nat /\ faults <= MaxFaults
          BY <4>1, <4>2, <4>3 DEF SentInv
        <5>3. k \in Int /\ j \in Int
          BY <1>3, <4>1
        <5>4. QED BY <5>1, <5>2, <5>3, Constants
      <4>4. k = j
        BY <1>2, <4>1, <4>3
      <4>5. QED BY <3>2, <4>1, <4>2, <4>4
    <3>3. QED BY <1>4, <3>1, <3>2
  <2>3. CASE v.last
    <3>1. v.data = Ble!Bytes(j, Start(j, v.index), sent[j])
      BY <1>2, <2>3
    <3>2. bytes = Ble!Whole(j)
      <4>1. 0 \in Nat /\ 0 <= Start(j, v.index) /\ Start(j, v.index) <= sent[j]
        BY <1>2, <1>3
      <4>2. Ble!Bytes(j, 0, Start(j, v.index)) \o Ble!Bytes(j, Start(j, v.index), sent[j])
              = Ble!Bytes(j, 0, sent[j])
        BY <1>3, <4>1, <1>b
      <4>3. QED BY <2>2, <3>1, <4>2 DEF Ble!Whole
    <3>3. rx' = Ble!IdleRx /\ delivered' = Append(delivered, bytes)
      BY <1>6, <1>r, <2>3
    <3>4. QED BY <2>3, <3>2, <3>3, IdleFacts DEF Ble!IdleRx
  <2>4. CASE ~v.last
    <3>1. v.data = Ble!Bytes(j, Start(j, v.index), Start(j, v.index + 1))
      BY <1>2, <2>4
    <3>2. bytes = Ble!Bytes(j, 0, Start(j, v.index + 1))
      <4> DEFINE from == Start(j, v.index)
                 to == Start(j, v.index + 1)
      <4>1. 0 \in Nat /\ from \in Nat /\ to \in Nat /\ 0 <= from /\ from <= to
        BY <1>3
      <4>2. Ble!Bytes(j, 0, from) \o Ble!Bytes(j, from, to) = Ble!Bytes(j, 0, to)
        BY <1>3, <4>1, <1>b
      <4>3. QED BY <2>2, <3>1, <4>2
    <3>3. /\ rx' = [active |-> TRUE, id |-> v.id, expected |-> v.index + 1,
                    bytes |-> bytes, age |-> 0]
          /\ delivered' = delivered
      BY <1>6, <1>r, <2>4
    <3>4. rx' \in Assemblies
      <4>1. v.id \in Nat /\ v.index + 1 \in Nat
        BY <1>2, Constants DEF Numbered
      <4>2. Start(j, v.index + 1) \in Nat /\ 0 <= Start(j, v.index + 1) /\ 0 \in Nat
        BY <1>3
      <4>3. bytes \in Strings
        BY <1>3, <3>2, <4>2, BytesFacts
      <4> HIDE DEF bytes
      <4>4. QED BY <3>3, <4>1, <4>3 DEF Assemblies
    <3>5. QED BY <2>4, <3>2, <3>3, <3>4
  <2>5. QED BY <2>3, <2>4
<1>7. QED BY <1>5, <1>6
-----------------------------------------------------------------------------
\* A step keeps every message enqueued, and at most adds one.
Kept ==
  /\ Len(sent') >= Len(sent)
  /\ \A k \in 1 .. Len(sent) : sent'[k] = sent[k] /\ limits'[k] = limits[k]

\* The next value to be received is the same, or the one after it.
Stays    == MessageAt(1)' = MessageAt(1) /\ FragmentAt(1)' = FragmentAt(1)
Advances == IF Head(fifo).last
            THEN MessageAt(1)' = MessageAt(1) + 1 /\ FragmentAt(1)' = 0
            ELSE /\ MessageAt(1)' = MessageAt(1)
                 /\ FragmentAt(1)' = FragmentAt(1) + 1

LEMMA KeptFacts ==
  ASSUME SentInv, Kept, NEW k \in 1 .. Len(sent)
  PROVE  /\ k \in 1 .. Len(sent')
         /\ sent'[k] = sent[k] /\ limits'[k] = limits[k]
         /\ Ble!Whole(k)' = Ble!Whole(k)
         /\ \A n \in Nat : Start(k, n)' = Start(k, n)
<1>1. Len(sent) \in Nat /\ sent'[k] = sent[k] /\ limits'[k] = limits[k]
  BY DEF Kept, SentInv
<1>2. k \in 1 .. Len(sent')
  BY <1>1 DEF Kept
<1>3. Ble!Whole(k)' = Ble!Whole(k)
  BY <1>1 DEF Ble!Whole
<1>4. \A n \in Nat : Start(k, n)' = Start(k, n)
  BY <1>1 DEF Start
<1>5. QED BY <1>1, <1>2, <1>3, <1>4

LEMMA SoundKept ==
  ASSUME NEW base \in Int, SentInv, Kept, NEW v, Sound(base, v),
         NEW i, fifo'[i] = v
  PROVE  Sound(base, fifo[i])'
<1> DEFINE k == Message(v.data)
<1>1. k \in 1 .. Len(sent) /\ v.index \in Nat /\ v.index + 1 \in Nat
  BY DEF Sound
<1>2. /\ k \in 1 .. Len(sent') /\ sent'[k] = sent[k] /\ limits'[k] = limits[k]
  BY <1>1, KeptFacts
<1>3. /\ Start(k, v.index) < sent[k]
      /\ Numbered(base, k, v.id)
      /\ \/ /\ v.last = TRUE
            /\ v.data = Ble!Bytes(k, Start(k, v.index), sent[k])
         \/ /\ v.last = FALSE
            /\ Start(k, v.index + 1) < sent[k]
            /\ v.data = Ble!Bytes(k, Start(k, v.index), Start(k, v.index + 1))
  BY DEF Sound
<1>4. /\ k = Message(fifo'[i].data)
      /\ Start(k, v.index) = v.index * limits'[k]
      /\ Start(k, v.index + 1) = (v.index + 1) * limits'[k]
  BY <1>2 DEF Start
<1> HIDE DEF k
<1>5. /\ k \in 1 .. Len(sent') /\ v.index \in Nat
      /\ v.index * limits'[k] < sent'[k]
      /\ Numbered(base, k, v.id)
      /\ \/ /\ v.last = TRUE
            /\ v.data = Ble!Bytes(k, v.index * limits'[k], sent'[k])
         \/ /\ v.last = FALSE
            /\ (v.index + 1) * limits'[k] < sent'[k]
            /\ v.data = Ble!Bytes(k, v.index * limits'[k], (v.index + 1) * limits'[k])
  BY <1>1, <1>2, <1>3, <1>4
<1>6. /\ Numbered(base, k, v.id)' <=> Numbered(base, k, v.id)
      /\ \A a, b : Ble!Bytes(k, a, b)' = Ble!Bytes(k, a, b)
  BY DEF Numbered, Ble!Bytes, k
<1>7. QED BY <1>4, <1>5 DEF Sound, Start, Message, Numbered, Ble!Bytes

\* What the stack gets ahead by, it has failed by.
LEMMA FaultsPay ==
  ASSUME NEW k \in Int, NEW m \in Int, NEW n \in Nat, NEW failed \in Nat,
         NEW m2 \in Int, NEW n2 \in Nat, NEW failed2 \in Nat, failed2 >= failed,
         \/ m2 = m /\ n2 = n
         \/ failed2 = failed + 1 /\ m2 = m + 1 /\ n2 = 0
         \/ failed2 = failed + 1 /\ m2 = m /\ n2 = n + 1,
         k <= m, k < m => failed >= m - k + (IF n > 0 THEN 1 ELSE 0)
  PROVE  /\ k <= m2
         /\ k < m2 => failed2 >= m2 - k + (IF n2 > 0 THEN 1 ELSE 0)
OBVIOUS

(* Nothing is received: the assembly is kept, or dropped, and a value that *)
(* is lost is a fault.                                                     *)
LEMMA Unreceived ==
  ASSUME NEW base \in Int, SentInv, Kept, AssemblyInv(base), DeliveredInv,
         WireInv(base),
         MessageAt(1) \in Int, FragmentAt(1) \in Nat,
         faults' \in Nat, faults' >= faults,
         Stays \/ (Advances /\ faults' = faults + 1),
         rx'.active => /\ rx.active /\ rx'.bytes = rx.bytes
                       /\ rx'.expected = rx.expected /\ rx'.id = rx.id,
         delivered' = delivered
  PROVE  AssemblyInv(base)' /\ DeliveredInv'
<1> DEFINE M == MessageAt(1)
           F == FragmentAt(1)
<1>0. faults \in Nat
  BY DEF SentInv
<1>1. /\ MessageAt(1)' \in Int /\ FragmentAt(1)' \in Nat
      /\ \/ MessageAt(1)' = M /\ FragmentAt(1)' = F
         \/ faults' = faults + 1 /\ MessageAt(1)' = M + 1 /\ FragmentAt(1)' = 0
         \/ faults' = faults + 1 /\ MessageAt(1)' = M /\ FragmentAt(1)' = F + 1
  BY DEF Stays, Advances
<1> HIDE DEF M, F
<1>2. AssemblyInv(base)'
  <2> SUFFICES ASSUME rx'.active PROVE AssemblyInv(base)'
    BY DEF AssemblyInv
  <2> DEFINE k == Message(rx.bytes)
  <2>1. /\ rx.active /\ rx'.bytes = rx.bytes /\ rx'.expected = rx.expected
        /\ rx'.id = rx.id
    OBVIOUS
  <2>2. /\ k \in 1 .. Len(sent) /\ rx.expected \in Nat \ {0}
        /\ Start(k, rx.expected) < sent[k]
        /\ rx.bytes = Ble!Bytes(k, 0, Start(k, rx.expected))
        /\ Numbered(base, k, rx.id)
        /\ k <= M
        /\ k < M => faults >= M - k + (IF F > 0 THEN 1 ELSE 0)
    BY <2>1 DEF AssemblyInv, M, F
  <2>3. k \in 1 .. Len(sent') /\ sent'[k] = sent[k] /\ limits'[k] = limits[k]
    BY <2>2, KeptFacts
  <2>4. Message(rx.bytes)' = k
    BY <2>1 DEF Message
  <2>5. /\ k <= MessageAt(1)'
        /\ k < MessageAt(1)' =>
             faults' >= MessageAt(1)' - k + (IF FragmentAt(1)' > 0 THEN 1 ELSE 0)
    <3>1. k \in Int /\ M \in Int /\ F \in Nat
      BY <2>2 DEF M, F
    <3>2. k <= M /\ (k < M => faults >= M - k + (IF F > 0 THEN 1 ELSE 0))
      BY <2>2
    <3> HIDE DEF k
    <3>3. QED BY <1>0, <1>1, <3>1, <3>2, FaultsPay
  <2>6. Numbered(base, k, rx.id)'
    BY <2>1, <2>2 DEF Numbered
  <2> DEFINE len == Start(k, rx.expected)
  <2>7. Start(Message(rx.bytes), rx.expected)' = len
    BY <2>1, <2>3, <2>4 DEF Start
  <2>8. Ble!Bytes(Message(rx.bytes), 0, Start(Message(rx.bytes), rx.expected))' =
          Ble!Bytes(k, 0, len)
    BY <2>4, <2>7 DEF Ble!Bytes
  <2> HIDE DEF k, len
  <2>9. len < sent[k] /\ rx.bytes = Ble!Bytes(k, 0, len)
        /\ Numbered(base, Message(rx.bytes), rx.id)'
    BY <2>2, <2>4, <2>6 DEF len, k
  <2>10. QED BY <2>1, <2>2, <2>3, <2>4, <2>5, <2>7, <2>8, <2>9 DEF AssemblyInv
<1>3. DeliveredInv'
  <2>1. ASSUME NEW i \in DOMAIN delivered
        PROVE  LET k == Message(delivered[i]) IN
               /\ k \in 1 .. Len(sent')
               /\ delivered[i] = Ble!Whole(k)'
               /\ \/ k < MessageAt(1)'
                  \/ k = MessageAt(1)' /\ faults' > 0
    <3> DEFINE k == Message(delivered[i])
    <3>1. /\ k \in 1 .. Len(sent) /\ delivered[i] = Ble!Whole(k)
          /\ (k < M \/ (k = M /\ faults > 0))
      BY DEF DeliveredInv, M
    <3>2. k \in 1 .. Len(sent') /\ Ble!Whole(k)' = Ble!Whole(k)
      BY <3>1, KeptFacts
    <3>3. k \in Int /\ M \in Int
      BY <3>1 DEF M
    <3>4. k < MessageAt(1)' \/ (k = MessageAt(1)' /\ faults' > 0)
      BY <1>0, <1>1, <3>1, <3>3
    <3>5. QED BY <3>1, <3>2, <3>4
  <2>2. \A i \in DOMAIN delivered : Message(delivered[i])' = Message(delivered'[i])
    BY DEF Message
  <2>3. QED BY <1>0, <2>1, <2>2 DEF DeliveredInv, Message
<1>4. QED BY <1>2, <1>3

(* The value at the head is received, and stays for a second time or not.  *)
LEMMA AfterReceipt ==
  ASSUME NEW base \in Int, SentInv, WireInv(base), AssemblyInv(base), DeliveredInv,
         rx.active \in BOOLEAN, ~rx.active => rx = Ble!IdleRx,
         fifo # <<>>, Ble!Receive(Head(fifo)),
         UNCHANGED <<sent, limits>>,
         \/ Advances /\ faults' = faults
         \/ Stays /\ faults' = faults + 1
  PROVE  AssemblyInv(base)' /\ DeliveredInv'
<1> DEFINE v == Head(fifo)
           j == Message(v.data)
<1>0. faults \in Nat /\ faults' \in Nat /\ Kept
  BY DEF SentInv, Kept
<1>1. /\ Sound(base, v) /\ v \in Values
      /\ MessageAt(1) = j /\ FragmentAt(1) = v.index
  <2>1. v = fifo[1] /\ Len(fifo) >= 1 /\ v \in Values
    BY DEF WireInv
  <2>2. Sound(base, v)
    BY <2>1 DEF WireInv
  <2>3. QED BY <2>1, <2>2 DEF MessageAt, FragmentAt
<1>2. /\ ~rx'.active => rx' = Ble!IdleRx
      /\ rx'.active =>
           /\ ~v.last
           /\ rx'.expected = v.index + 1
           /\ rx'.id = v.id
           /\ rx'.bytes = Ble!Bytes(j, 0, Start(j, v.index + 1))
      /\ \/ delivered' = delivered
         \/ v.last /\ delivered' = Append(delivered, Ble!Whole(j))
  BY Received
<1>3. /\ j \in 1 .. Len(sent) /\ j \in Nat /\ v.index \in Nat
      /\ Numbered(base, j, v.id)
      /\ ~v.last => Start(j, v.index + 1) < sent[j]
      /\ sent[j] \in Nat \ {0}
      /\ Start(j, v.index + 1) \in Nat \ {0}
  <2>1. /\ j \in 1 .. Len(sent) /\ v.index \in Nat
        /\ Numbered(base, j, v.id)
        /\ ~v.last => Start(j, v.index + 1) < sent[j]
    BY <1>1 DEF Sound, Values
  <2>2. /\ j \in Nat /\ sent[j] \in Nat \ {0} /\ limits[j] \in Nat \ {0}
        /\ Start(j, v.index) \in Nat
        /\ Start(j, v.index + 1) = Start(j, v.index) + limits[j]
    BY <2>1, MessageFacts
  <2>3. QED BY <2>1, <2>2
<1>4. /\ ~v.last => MessageAt(1)' = j
      /\ MessageAt(1)' = j \/ (MessageAt(1)' = j + 1 /\ faults' = faults)
      /\ MessageAt(1)' = j => ~v.last \/ faults' > 0
      /\ faults' >= faults
  BY <1>0, <1>1, <1>3 DEF Advances, Stays
<1> HIDE DEF v, j
<1>5. AssemblyInv(base)'
  <2> SUFFICES ASSUME rx'.active PROVE AssemblyInv(base)'
    BY DEF AssemblyInv
  <2>1. ~v.last /\ MessageAt(1)' = j
    BY <1>2, <1>4
  <2>2. Message(rx'.bytes) = j
    <3>1. 0 \in Nat /\ 0 <= Start(j, v.index + 1) /\ 0 < Start(j, v.index + 1)
      BY <1>3
    <3>2. Message(Ble!Bytes(j, 0, Start(j, v.index + 1))) = j
      BY <1>3, <3>1, BytesFacts
    <3>3. QED BY <1>2, <3>2
  <2>3. rx'.expected \in Nat \ {0} /\ Start(j, rx'.expected) < sent[j]
    BY <1>2, <1>3, <2>1
  <2>4. Start(j, rx'.expected) < sent[j] /\ rx'.bytes = Ble!Bytes(j, 0, Start(j, rx'.expected))
    BY <1>2, <2>3
  <2>5. Numbered(base, j, rx'.id)
    BY <1>2, <1>3
  <2>6. j <= MessageAt(1)' /\ ~(j < MessageAt(1)')
    BY <1>3, <2>1
  <2>7. QED BY <1>3, <2>2, <2>3, <2>4, <2>5, <2>6
            DEF AssemblyInv, Message, Start, Numbered, Ble!Bytes
<1>6. DeliveredInv'
  <2> DEFINE Good(d) == /\ Message(d) \in 1 .. Len(sent)
                        /\ d = Ble!Whole(Message(d))
                        /\ \/ Message(d) < MessageAt(1)'
                           \/ Message(d) = MessageAt(1)' /\ faults' > 0
  <2>1. ASSUME NEW i \in DOMAIN delivered
        PROVE  /\ Good(delivered[i])
               /\ \/ Message(delivered[i]) < j
                  \/ delivered[i] = Ble!Whole(j) /\ faults' > 0
    <3> DEFINE k == Message(delivered[i])
    <3>1. /\ k \in 1 .. Len(sent) /\ delivered[i] = Ble!Whole(k)
          /\ (k < j \/ (k = j /\ faults > 0))
      BY <1>1 DEF DeliveredInv
    <3> HIDE DEF k
    <3>2. k \in Int
      BY <3>1
    <3>3. k < MessageAt(1)' \/ (k = MessageAt(1)' /\ faults' > 0)
      BY <1>0, <1>3, <1>4, <3>1, <3>2
    <3>4. k < j \/ (delivered[i] = Ble!Whole(j) /\ faults' > 0)
      BY <1>0, <1>4, <3>1
    <3>5. QED BY <3>1, <3>3, <3>4 DEF k
  <2>2. v.last => Good(Ble!Whole(j)) /\ Message(Ble!Whole(j)) = j /\ Ble!Whole(j) \in Strings
    <3>1. 0 \in Nat /\ 0 <= sent[j] /\ 0 < sent[j] /\ sent[j] \in Nat
      BY <1>3
    <3>2. Message(Ble!Whole(j)) = j /\ Ble!Whole(j) \in Strings
      BY <1>3, <3>1, BytesFacts DEF Ble!Whole
    <3>3. v.last => (j < MessageAt(1)' \/ (j = MessageAt(1)' /\ faults' > 0))
      BY <1>3, <1>4
    <3>4. QED BY <1>3, <3>2, <3>3
  <2> HIDE DEF Good
  <2>3. /\ delivered' \in Seq(Strings)
        /\ \A i \in DOMAIN delivered' : Good(delivered'[i])
        /\ \A i, m \in DOMAIN delivered' : i < m =>
             \/ Message(delivered'[i]) < Message(delivered'[m])
             \/ delivered'[i] = delivered'[m] /\ faults' > 0
    <3>1. /\ delivered \in Seq(Strings)
          /\ \A i, m \in DOMAIN delivered : i < m =>
               \/ Message(delivered[i]) < Message(delivered[m])
               \/ delivered[i] = delivered[m] /\ faults > 0
      BY DEF DeliveredInv
    <3>2. CASE delivered' = delivered
      BY <1>0, <1>4, <2>1, <3>1, <3>2
    <3>3. CASE v.last /\ delivered' = Append(delivered, Ble!Whole(j))
      <4> DEFINE n == Len(delivered) + 1
      <4>1. /\ delivered' \in Seq(Strings) /\ DOMAIN delivered' = 1 .. n
            /\ DOMAIN delivered = 1 .. Len(delivered) /\ Len(delivered) \in Nat
            /\ \A i \in DOMAIN delivered : delivered'[i] = delivered[i]
            /\ delivered'[n] = Ble!Whole(j)
        BY <2>2, <3>1, <3>3
      <4>2. \A i \in 1 .. n : i = n \/ i \in DOMAIN delivered
        BY <4>1
      <4>3. \A i \in DOMAIN delivered' : Good(delivered'[i])
        BY <2>1, <2>2, <3>3, <4>1, <4>2
      <4>4. ASSUME NEW i \in 1 .. n, NEW m \in 1 .. n, i < m
            PROVE  \/ Message(delivered'[i]) < Message(delivered'[m])
                   \/ delivered'[i] = delivered'[m] /\ faults' > 0
        <5>1. i \in DOMAIN delivered
          BY <4>1, <4>4
        <5>2. CASE m = n
          BY <2>1, <2>2, <3>3, <4>1, <5>1, <5>2
        <5>3. CASE m # n
          <6>1. m \in DOMAIN delivered
            BY <4>2, <5>3
          <6>2. QED BY <1>0, <1>4, <3>1, <4>1, <4>4, <5>1, <6>1
        <5>4. QED BY <5>2, <5>3
      <4>5. QED BY <4>1, <4>3, <4>4
    <3>4. QED BY <1>2, <3>2, <3>3
  <2>4. QED BY <2>3 DEF DeliveredInv, Good, Message, Ble!Whole, Ble!Bytes
<1>7. QED BY <1>5, <1>6

-----------------------------------------------------------------------------
LEMMA Places1 ==
  ASSUME NEW base \in Int, SentInv, SenderInv(base), WireInv(base)
  PROVE  \A i \in 1 .. Len(fifo) + 1 : MessageAt(i) \in Int /\ FragmentAt(i) \in Nat
<1>1. Len(sent) \in Nat /\ Len(fifo) \in Nat
  BY DEF SentInv, WireInv
<1>2. ASSUME NEW i \in 1 .. Len(fifo) PROVE MessageAt(i) \in Int /\ FragmentAt(i) \in Nat
  BY <1>1 DEF WireInv, Sound, MessageAt, FragmentAt
<1>3. ASSUME NEW i \in 1 .. Len(fifo) + 1, ~(i <= Len(fifo))
      PROVE MessageAt(i) \in Int /\ FragmentAt(i) \in Nat
  BY <1>1, <1>3 DEF SenderInv, MessageAt, FragmentAt
<1>4. QED BY <1>1, <1>2, <1>3

(* The head leaves the queue.                                              *)
LEMMA HeadLeaves ==
  ASSUME NEW base \in Int, SentInv, SenderInv(base), WireInv(base), fifo # <<>>,
         fifo' = Tail(fifo), UNCHANGED <<pending, nextId, sent, limits>>
  PROVE  WireInv(base)' /\ SenderInv(base)' /\ Advances
<1>1. /\ fifo \in Seq(Values) /\ Len(fifo) \in Nat \ {0}
      /\ fifo' \in Seq(Values) /\ Len(fifo') = Len(fifo) - 1
      /\ \A i \in 1 .. Len(fifo') : fifo'[i] = fifo[i + 1]
      /\ Head(fifo) = fifo[1]
  BY DEF WireInv
<1>2. ASSUME NEW i \in 1 .. Len(fifo)
      PROVE  MessageAt(i)' = MessageAt(i + 1) /\ FragmentAt(i)' = FragmentAt(i + 1)
  <2>1. CASE i = Len(fifo)
    <3>1. ~(i <= Len(fifo')) /\ ~(i + 1 <= Len(fifo))
      BY <1>1, <2>1
    <3>2. QED BY <3>1 DEF MessageAt, FragmentAt
  <2>2. CASE i # Len(fifo)
    <3>1. i \in 1 .. Len(fifo') /\ i <= Len(fifo') /\ i + 1 <= Len(fifo)
      <4>1. PICK n \in Nat : n = Len(fifo) /\ Len(fifo') = n - 1
        BY <1>1
      <4>2. i \in 1 .. n /\ i # n
        BY <2>2, <4>1
      <4>3. i \in 1 .. n - 1 /\ i <= n - 1 /\ i + 1 <= n
        BY <4>2
      <4>4. QED BY <4>1, <4>3
    <3>3. fifo'[i] = fifo[i + 1]
      BY <1>1, <3>1
    <3>4. QED BY <3>1, <3>3 DEF MessageAt, FragmentAt, Message
  <2>3. QED BY <2>1, <2>2
<1>3. SenderInv(base)'
  BY DEF SenderInv, Numbered, Start, Ble!End
<1>4. WireInv(base)'
  <2>1. ASSUME NEW i \in 1 .. Len(fifo')
        PROVE  /\ Sound(base, fifo[i])'
               /\ IF fifo'[i].last
                  THEN MessageAt(i + 1)' = MessageAt(i)' + 1 /\ FragmentAt(i + 1)' = 0
                  ELSE /\ MessageAt(i + 1)' = MessageAt(i)'
                       /\ FragmentAt(i + 1)' = FragmentAt(i)' + 1
    <3>1. /\ i + 1 \in 1 .. Len(fifo) /\ i \in 1 .. Len(fifo)
          /\ fifo'[i] = fifo[i + 1]
      BY <1>1
    <3>2. Sound(base, fifo[i + 1]) /\ Kept
      BY <3>1 DEF WireInv, Kept, SentInv
    <3>3. Sound(base, fifo[i])'
      BY <3>1, <3>2, SoundKept
    <3>4. IF fifo[i + 1].last
          THEN MessageAt(i + 1 + 1) = MessageAt(i + 1) + 1 /\ FragmentAt(i + 1 + 1) = 0
          ELSE /\ MessageAt(i + 1 + 1) = MessageAt(i + 1)
               /\ FragmentAt(i + 1 + 1) = FragmentAt(i + 1) + 1
      BY <3>1 DEF WireInv
    <3>5. QED BY <1>2, <3>1, <3>3, <3>4
  <2>2. QED BY <1>1, <2>1 DEF WireInv
<1>5. Advances
  <2>1. IF fifo[1].last
        THEN MessageAt(1 + 1) = MessageAt(1) + 1 /\ FragmentAt(1 + 1) = 0
        ELSE /\ MessageAt(1 + 1) = MessageAt(1)
             /\ FragmentAt(1 + 1) = FragmentAt(1) + 1
    BY <1>1 DEF WireInv
  <2>2. QED BY <1>1, <1>2, <2>1 DEF Advances
<1>6. QED BY <1>3, <1>4, <1>5

LEMMA EnqueueKeeps ==
  ASSUME NEW base \in Int, SentInv, SenderInv(base), WireInv(base),
         NEW len \in 1 .. MaxPayload, NEW limit \in Limits, Ble!Enqueue(len, limit),
         faults' = faults
  PROVE  SentInv' /\ SenderInv(base)' /\ WireInv(base)' /\ Kept /\ Stays
<1> DEFINE n == Len(sent) + 1
<1>1. /\ sent \in Seq(1 .. MaxPayload) /\ limits \in Seq(Limits)
      /\ Len(limits) = Len(sent) /\ Len(sent) \in Nat
      /\ pending = Ble!None
      /\ sent' = Append(sent, len) /\ limits' = Append(limits, limit)
      /\ pending' = [serial |-> n, offset |-> 0, index |-> 0,
                     limit |-> limit, offered |-> -1]
      /\ UNCHANGED <<nextId, fifo>>
  BY DEF SentInv, Ble!Enqueue
<1>2. /\ sent' \in Seq(1 .. MaxPayload) /\ limits' \in Seq(Limits)
      /\ Len(sent') = n /\ Len(limits') = n
      /\ sent'[n] = len /\ limits'[n] = limit
      /\ \A k \in 1 .. Len(sent) : sent'[k] = sent[k] /\ limits'[k] = limits[k]
  BY <1>1
<1>3. SentInv' /\ Kept
  BY <1>1, <1>2 DEF SentInv, Kept
<1>4. pending' # Ble!None
  BY <1>1 DEF Ble!None
<1>5. SenderInv(base)'
  <2>1. Numbered(base, n, nextId)
    BY <1>1 DEF SenderInv
  <2>2. limit \in Nat \ {0} /\ len \in Nat \ {0}
    BY Constants
  <2>3. \A l \in Nat : 0 * l = 0
    OBVIOUS
  <2>4. 0 * limits'[n] = 0
    BY <1>2, <2>2, <2>3
  <2>5. n \in Nat
    BY <1>1
  <2> HIDE DEF n
  <2>6. /\ pending'.serial = n /\ pending'.offset = 0 /\ pending'.index = 0
        /\ pending'.limit = limit /\ pending'.offered = -1
        /\ pending' \in [serial : Nat, offset : Nat, index : Nat, limit : Nat, offered : Int]
    BY <1>1, <2>2, <2>5
  <2>7. n > 0
    BY <1>1 DEF n
  <2>8. QED BY <1>1, <1>2, <1>4, <2>1, <2>2, <2>4, <2>6, <2>7 DEF SenderInv, Start, Numbered
<1>6. ASSUME NEW i \in 1 .. Len(fifo) + 1
      PROVE  MessageAt(i)' = MessageAt(i) /\ FragmentAt(i)' = FragmentAt(i)
  BY <1>1, <1>4 DEF MessageAt, FragmentAt, Message
<1>7. WireInv(base)'
  <2>1. ASSUME NEW i \in 1 .. Len(fifo) PROVE Sound(base, fifo[i])'
    <3>1. Sound(base, fifo[i]) /\ fifo'[i] = fifo[i]
      BY <1>1 DEF WireInv
    <3>2. QED BY <1>3, <3>1, SoundKept
  <2>2. Len(fifo) \in Nat
    BY DEF WireInv
  <2>3. \A i \in 1 .. Len(fifo) : i \in 1 .. Len(fifo) + 1 /\ i + 1 \in 1 .. Len(fifo) + 1
    BY <2>2
  <2>4. QED BY <1>1, <1>6, <2>1, <2>3 DEF WireInv
<1>8. Stays
  BY <1>6 DEF Stays, WireInv
<1>9. QED BY <1>3, <1>5, <1>7, <1>8

LEMMA AcceptedKeeps ==
  ASSUME NEW base \in Int, SentInv, SenderInv(base), WireInv(base), Ble!Accepted
  PROVE  SenderInv(base)' /\ WireInv(base)' /\ Stays
<1> DEFINE p == pending
           v == Ble!Value(pending)
           k == Len(sent)
<1>15. PICK n \in Nat : n = Len(fifo) + 1
  BY DEF WireInv
<1>1. /\ p # Ble!None /\ p.offered # -1
      /\ fifo' = Append(fifo, v)
      /\ Ble!Advanced(p)
      /\ UNCHANGED <<sent, limits>>
  BY DEF Ble!Accepted
<1>2. /\ p \in [serial : Nat, offset : Nat, index : Nat, limit : Nat, offered : Int]
      /\ p.serial = k /\ k > 0 /\ p.limit = limits[k] /\ p.index \in Nat
      /\ p.offset = Start(k, p.index) /\ p.offset < sent[k]
      /\ p.offered = Ble!End(p)
      /\ Numbered(base, k, nextId)
  BY <1>1 DEF SenderInv
<1>3. /\ k \in 1 .. Len(sent) /\ k \in Nat
      /\ sent[k] \in Nat \ {0} /\ limits[k] \in Nat \ {0}
      /\ Start(k, p.index) \in Nat /\ Start(k, p.index + 1) \in Nat
      /\ Start(k, p.index + 1) = Start(k, p.index) + limits[k]
  <2>1. Len(sent) \in Nat
    BY DEF SentInv
  <2>2. k \in 1 .. Len(sent)
    BY <1>2, <2>1
  <2>3. /\ sent[k] \in Nat \ {0} /\ limits[k] \in Nat \ {0}
        /\ Start(k, p.index) \in Nat
        /\ Start(k, p.index + 1) = Start(k, p.index) + limits[k]
    BY <1>2, <2>2, MessageFacts
  <2>4. QED BY <2>1, <2>2, <2>3
<1>4. /\ p.serial = k
      /\ Ble!End(p) = IF Start(k, p.index + 1) < sent[k]
                     THEN Start(k, p.index + 1) ELSE sent[k]
      /\ p.offset \in Nat /\ Ble!End(p) \in Nat /\ p.offset < Ble!End(p)
  <2>1. p.serial = k
    BY <1>2
  <2>2. QED BY <1>2, <1>3, <2>1 DEF Ble!End
<1>5. /\ v = [id |-> nextId, index |-> p.index, last |-> Ble!End(p) = sent[k],
              data |-> Ble!Bytes(k, p.offset, Ble!End(p))]
      /\ Message(v.data) = k
      /\ v.data \in Strings
  <2>1. v = [id |-> nextId, index |-> p.index, last |-> Ble!End(p) = sent[k],
             data |-> Ble!Bytes(k, p.offset, Ble!End(p))]
    BY <1>4 DEF Ble!Value
  <2>2. v.data = Ble!Bytes(k, p.offset, Ble!End(p))
    BY <2>1
  <2>3. p.offset <= Ble!End(p)
    BY <1>4
  <2>4. Message(Ble!Bytes(k, p.offset, Ble!End(p))) = k
        /\ Ble!Bytes(k, p.offset, Ble!End(p)) \in Strings
    <3>1. \A a, b \in Nat : a <= b => Ble!Bytes(k, a, b) \in Strings
      BY <1>3, BytesFacts
    <3>2. \A a, b \in Nat : a <= b => (a < b => Message(Ble!Bytes(k, a, b)) = k)
      BY <1>3, BytesFacts
    <3>3. QED BY <1>4, <2>3, <3>1, <3>2
  <2>5. QED BY <2>1, <2>2, <2>4
<1> HIDE DEF v, k, p
<1>6. v \in Values /\ Sound(base, v)
  <2>1. v \in Values
    <3>1. nextId \in Nat
      BY <1>2, Constants DEF Numbered
    <3>2. QED BY <1>2, <1>5, <3>1 DEF Values
  <2>2. v.last = (Ble!End(p) = sent[k]) /\ v.index = p.index /\ v.id = nextId
    BY <1>5
  <2>3. \/ /\ v.last = TRUE
           /\ v.data = Ble!Bytes(k, Start(k, v.index), sent[k])
        \/ /\ v.last = FALSE
           /\ Start(k, v.index + 1) < sent[k]
           /\ v.data = Ble!Bytes(k, Start(k, v.index), Start(k, v.index + 1))
    BY <1>2, <1>3, <1>4, <1>5, <2>2
  <2>4. Start(k, v.index) < sent[k] /\ Numbered(base, k, v.id) /\ v.index \in Nat
    BY <1>2, <2>2
  <2>5. Sound(base, v)
    BY <1>3, <1>5, <2>3, <2>4 DEF Sound
  <2>6. QED BY <2>1, <2>5
<1>7. /\ fifo \in Seq(Values) /\ Len(fifo) \in Nat
      /\ fifo' \in Seq(Values) /\ Len(fifo') = n
      /\ \A i \in 1 .. Len(fifo) : fifo'[i] = fifo[i]
      /\ fifo'[n] = v
  BY <1>1, <1>6, <1>15 DEF WireInv
<1>8. /\ v.last => pending' = Ble!None /\ nextId' = (nextId + 1) % Ids
      /\ ~v.last => /\ pending' = [p EXCEPT !.offset = p.offered, !.index = p.index + 1,
                                           !.offered = -1]
                    /\ nextId' = nextId
  BY <1>1, <1>2, <1>4, <1>5 DEF Ble!Advanced
<1>d. ~v.last =>
        /\ pending' \in [serial : Nat, offset : Nat, index : Nat, limit : Nat, offered : Int]
        /\ pending' # Ble!None
        /\ pending'.serial = k /\ pending'.offset = p.offered
        /\ pending'.index = p.index + 1 /\ pending'.limit = p.limit
        /\ pending'.offered = -1
  <2>1. p.offered \in Nat
    BY <1>2, <1>4
  <2>2. ~v.last =>
          /\ pending' \in [serial : Nat, offset : Nat, index : Nat, limit : Nat, offered : Int]
          /\ pending'.serial = k /\ pending'.offset = p.offered
          /\ pending'.index = p.index + 1 /\ pending'.limit = p.limit
          /\ pending'.offered = -1
    <3>1. p.index + 1 \in Nat /\ -1 \in Int
      BY <1>2
    <3>2. QED BY <1>2, <1>3, <1>8, <2>1, <3>1
  <2>3. Ble!None \notin [serial : Nat, offset : Nat, index : Nat, limit : Nat, offered : Int]
    BY DEF Ble!None
  <2>4. QED BY <2>2, <2>3
<1>9. SenderInv(base)'
  <2>1. CASE v.last
    <3>1. Numbered(base, k + 1, nextId')
      BY <1>2, <1>3, <1>8, <2>1, NextNumbered
    <3>2. QED BY <1>1, <1>8, <2>1, <3>1 DEF SenderInv, Numbered, k
  <2>2. CASE ~v.last
    <3>1. p.offered = Start(k, p.index + 1) /\ p.offered < sent[k]
      BY <1>2, <1>3, <1>4, <1>5, <2>2
    <3>2. Len(sent') = k /\ sent' = sent /\ limits' = limits /\ nextId' = nextId
      BY <1>1, <1>8, <2>2 DEF k
    <3>3. p.offered = (p.index + 1) * limits'[k]
      BY <3>1, <3>2 DEF Start
    <3>4. QED BY <1>2, <1>3, <1>d, <2>2, <3>1, <3>2, <3>3 DEF SenderInv, Start, Numbered
  <2>3. QED BY <2>1, <2>2
<1>10. /\ \A i \in 1 .. n : MessageAt(i)' = MessageAt(i) /\ FragmentAt(i)' = FragmentAt(i)
       /\ MessageAt(n) = k /\ FragmentAt(n) = v.index
       /\ IF v.last THEN MessageAt(n + 1)' = k + 1 /\ FragmentAt(n + 1)' = 0
                    ELSE MessageAt(n + 1)' = k /\ FragmentAt(n + 1)' = v.index + 1
  <2>1. MessageAt(n) = k /\ FragmentAt(n) = v.index
    BY <1>1, <1>4, <1>5, <1>7, <1>15 DEF MessageAt, FragmentAt, p
  <2>2. MessageAt(n)' = k /\ FragmentAt(n)' = v.index
    BY <1>5, <1>7, <1>15 DEF MessageAt, FragmentAt, Message
  <2>3. ASSUME NEW i \in 1 .. Len(fifo)
        PROVE  MessageAt(i)' = MessageAt(i) /\ FragmentAt(i)' = FragmentAt(i)
    BY <1>7, <1>15 DEF MessageAt, FragmentAt, Message
  <2>4. ~(n + 1 <= Len(fifo'))
    BY <1>7, <1>15
  <2>5. CASE v.last
    BY <1>1, <1>8, <2>1, <2>2, <2>3, <2>4, <2>5, <1>7, <1>15 DEF MessageAt, FragmentAt, k
  <2>6. CASE ~v.last
    <3>1. MessageAt(n + 1)' = k /\ FragmentAt(n + 1)' = p.index + 1
      BY <1>d, <2>4, <2>6 DEF MessageAt, FragmentAt
    <3>2. QED BY <1>5, <1>7, <1>15, <2>1, <2>2, <2>3, <2>6, <3>1
  <2>7. QED BY <2>5, <2>6
<1>11. WireInv(base)'
  <2>1. ASSUME NEW i \in 1 .. Len(fifo')
        PROVE  /\ Sound(base, fifo[i])'
               /\ IF fifo'[i].last
                  THEN MessageAt(i + 1)' = MessageAt(i)' + 1 /\ FragmentAt(i + 1)' = 0
                  ELSE /\ MessageAt(i + 1)' = MessageAt(i)'
                       /\ FragmentAt(i + 1)' = FragmentAt(i)' + 1
    <3>1. Sound(base, fifo'[i]) /\ Kept
      BY <1>1, <1>6, <1>7, <1>15 DEF WireInv, Kept, SentInv
    <3>2. Sound(base, fifo[i])'
      BY <3>1, SoundKept
    <3>3. CASE i = n
      BY <1>7, <1>15, <1>10, <3>2, <3>3
    <3>4. CASE i # n
      <4>1. i \in 1 .. Len(fifo) /\ i \in 1 .. n /\ i + 1 \in 1 .. n
        BY <1>7, <1>15, <3>4
      <4>2. IF fifo[i].last
            THEN MessageAt(i + 1) = MessageAt(i) + 1 /\ FragmentAt(i + 1) = 0
            ELSE /\ MessageAt(i + 1) = MessageAt(i)
                 /\ FragmentAt(i + 1) = FragmentAt(i) + 1
        BY <4>1 DEF WireInv
      <4>3. QED BY <1>7, <1>15, <1>10, <3>2, <4>1, <4>2
    <3>5. QED BY <3>3, <3>4
  <2>2. QED BY <1>7, <2>1 DEF WireInv
<1>12. Stays
  BY <1>7, <1>15, <1>10 DEF Stays
<1>13. QED BY <1>9, <1>11, <1>12

(* A step of the receiver or of time, or of the other link.                *)
LEMMA Undisturbed ==
  ASSUME NEW base \in Int, SentInv, SenderInv(base), WireInv(base),
         UNCHANGED <<pending, nextId, fifo, sent, limits>>
  PROVE  SenderInv(base)' /\ WireInv(base)' /\ Kept /\ Stays
<1>1. \A i : MessageAt(i)' = MessageAt(i) /\ FragmentAt(i)' = FragmentAt(i)
  BY DEF MessageAt, FragmentAt, Message
<1>2. SenderInv(base)'
  BY DEF SenderInv, Numbered, Start, Ble!End
<1>3. \A v : Sound(base, v)' <=> Sound(base, v)
  BY DEF Sound, Start, Message, Numbered, Ble!Bytes
<1>4. \A i : Sound(base, fifo[i])' <=> Sound(base, fifo[i])
  BY DEF Sound, Start, Message, Numbered, Ble!Bytes
<1>5. WireInv(base)'
  BY <1>1, <1>4 DEF WireInv
<1>6. QED BY <1>1, <1>2, <1>5 DEF Kept, Stays, SentInv

LEMMA FragmentKeeps ==
  ASSUME NEW base \in Int, SentInv, SenderInv(base), WireInv(base), Ble!Fragment
  PROVE  SenderInv(base)' /\ WireInv(base)' /\ Kept /\ Stays
<1>1. /\ pending # Ble!None
      /\ pending' = [pending EXCEPT !.offered = Ble!End(pending)]
      /\ UNCHANGED <<nextId, fifo, sent, limits>>
  BY DEF Ble!Fragment
<1>2. /\ pending \in [serial : Nat, offset : Nat, index : Nat, limit : Nat, offered : Int]
      /\ Len(sent) > 0 /\ pending.serial = Len(sent)
      /\ pending.offset < sent[Len(sent)]
      /\ Len(sent) \in Nat
  BY <1>1 DEF SenderInv, SentInv
<1>3. sent[Len(sent)] \in Nat \ {0}
  <2>1. Len(sent) \in 1 .. Len(sent)
    BY <1>2
  <2>2. QED BY <2>1, MessageFacts
<1>4. Ble!End(pending) \in Int
  BY <1>2, <1>3 DEF Ble!End
<1>5. /\ pending' \in [serial : Nat, offset : Nat, index : Nat, limit : Nat, offered : Int]
      /\ pending'.serial = pending.serial /\ pending'.offset = pending.offset
      /\ pending'.index = pending.index /\ pending'.limit = pending.limit
      /\ pending'.offered = Ble!End(pending)
  BY <1>1, <1>2, <1>4
<1>6. pending' # Ble!None
  BY <1>5 DEF Ble!None
<1>7. Ble!End(pending)' = Ble!End(pending)
  BY <1>1, <1>5 DEF Ble!End
<1>8. SenderInv(base)'
  BY <1>1, <1>2, <1>5, <1>6, <1>7 DEF SenderInv, Numbered, Start
<1>9. \A i : MessageAt(i)' = MessageAt(i) /\ FragmentAt(i)' = FragmentAt(i)
  BY <1>1, <1>5, <1>6 DEF MessageAt, FragmentAt, Message
<1>10. \A i : Sound(base, fifo[i])' <=> Sound(base, fifo[i])
  BY <1>1 DEF Sound, Start, Message, Numbered, Ble!Bytes
<1>11. WireInv(base)'
  BY <1>1, <1>9, <1>10 DEF WireInv
<1>12. QED BY <1>1, <1>2, <1>8, <1>9, <1>11 DEF Kept, Stays

(* A disconnection starts the ids anew at the next message.                *)
LEMMA DisconnectKeeps ==
  ASSUME NEW base \in Int, SentInv, SenderInv(base), WireInv(base), DeliveredInv,
         Ble!Disconnect
  PROVE  BleInv'
<1> DEFINE n == Len(sent)
<1>1. /\ pending' = Ble!None /\ nextId' = 0 /\ fifo' = <<>> /\ rx' = Ble!IdleRx
      /\ UNCHANGED <<sent, limits, delivered, faults>>
  BY DEF Ble!Disconnect
<1>2. SentInv' /\ n \in Nat
  BY <1>1 DEF SentInv
<1>3. MessageAt(1)' = n + 1 /\ FragmentAt(1)' = 0 /\ Len(fifo') = 0
  BY <1>1 DEF MessageAt, FragmentAt
<1>4. WireInv(n + 1)' /\ AssemblyInv(n + 1)'
  BY <1>1, <1>3 DEF WireInv, AssemblyInv, Ble!IdleRx
<1>5. PICK first \in Int : first = n + 1
  BY <1>2
<1>6. Numbered(first, first, 0)
  <2>1. 0 * Ids = 0 /\ 0 \in 0 .. Ids - 1
    BY Constants
  <2>2. first = first + 0 * Ids + 0
    BY <2>1
  <2>3. QED BY <2>1, <2>2 DEF Numbered
<1>7. SenderInv(first)'
  BY <1>1, <1>5, <1>6 DEF SenderInv, Numbered
<1>8. WireInv(first)' /\ AssemblyInv(first)'
  BY <1>1, <1>3 DEF WireInv, AssemblyInv, Ble!IdleRx
<1>9. DeliveredInv'
  <2>1. \A i \in DOMAIN delivered : Message(delivered[i]) < n + 1
    BY <1>2 DEF DeliveredInv
  <2>2. QED BY <1>1, <1>3, <2>1 DEF DeliveredInv, Message, Ble!Whole, Ble!Bytes
<1>10. rx' \in Assemblies /\ ~rx'.active
  BY <1>1, IdleFacts DEF Ble!IdleRx
<1>11. QED BY <1>1, <1>2, <1>7, <1>8, <1>9, <1>10 DEF BleInv, Assemblies, Strings, Places
-----------------------------------------------------------------------------
LEMMA InitBle == LinksInit => BleInv
<1> SUFFICES ASSUME LinksInit PROVE BleInv
  OBVIOUS
<1>1. /\ pending = Ble!None /\ nextId = 0 /\ fifo = <<>> /\ rx = Ble!IdleRx
      /\ sent = <<>> /\ limits = <<>> /\ delivered = <<>> /\ faults = 0
  BY DEF LinksInit, Ble!Init
<1>2. SentInv
  BY <1>1, Constants DEF SentInv
<1>3. MessageAt(1) = 1 /\ FragmentAt(1) = 0
  BY <1>1 DEF MessageAt, FragmentAt
<1>4. WireInv(1) /\ AssemblyInv(1) /\ DeliveredInv
  BY <1>1 DEF WireInv, AssemblyInv, DeliveredInv, Ble!IdleRx
<1>5. Numbered(1, 1, 0)
  <2>1. 0 * Ids = 0 /\ 0 \in 0 .. Ids - 1
    BY Constants
  <2>2. 1 = 1 + 0 * Ids + 0
    BY <2>1
  <2>3. QED BY <2>1, <2>2 DEF Numbered
<1>6. SenderInv(1)
  BY <1>1, <1>5 DEF SenderInv
<1>7. rx \in Assemblies /\ ~rx.active
  BY <1>1, IdleFacts DEF Ble!IdleRx
<1>8. QED BY <1>1, <1>2, <1>4, <1>6, <1>7 DEF BleInv

LEMMA NextBle == BleInv /\ [LinksNext]_<<part, bleVars, uartVars, faults>> => BleInv'
<1> SUFFICES ASSUME BleInv, [LinksNext]_<<part, bleVars, uartVars, faults>>
             PROVE  BleInv'
  OBVIOUS
<1>1. PICK base \in Int : SenderInv(base) /\ WireInv(base) /\ AssemblyInv(base)
  BY DEF BleInv
<1>2. /\ SentInv /\ DeliveredInv /\ rx \in Assemblies /\ rx.active \in BOOLEAN
      /\ ~rx.active => rx = Ble!IdleRx
      /\ faults \in Nat
  BY DEF BleInv, SentInv, Assemblies
<1>3. MessageAt(1) \in Int /\ FragmentAt(1) \in Nat
  <2>1. 1 \in 1 .. Len(fifo) + 1
    BY <1>1 DEF WireInv
  <2>2. QED BY <1>1, <1>2, <2>1, Places1
<1>4. ASSUME SentInv', SenderInv(base)', WireInv(base)', AssemblyInv(base)', DeliveredInv',
             rx' \in Assemblies, ~rx'.active => rx' = Ble!IdleRx
      PROVE  BleInv'
  BY <1>4 DEF BleInv, Assemblies, Strings, Places, Ble!IdleRx
<1>5. ASSUME NEW len \in 1 .. MaxPayload, NEW limit \in Limits, Ble!Enqueue(len, limit)
      PROVE  BleInv'
  <2>1. UNCHANGED <<faults, rx, delivered>>
    BY <1>5 DEF Ble!Enqueue
  <2>2. SentInv' /\ SenderInv(base)' /\ WireInv(base)' /\ Kept /\ Stays
    BY <1>1, <1>2, <1>5, <2>1, EnqueueKeeps
  <2>3. AssemblyInv(base)' /\ DeliveredInv'
    BY <1>1, <1>2, <1>3, <2>1, <2>2, Unreceived
  <2>4. QED BY <1>2, <1>4, <2>1, <2>2, <2>3
<1>6. CASE Ble!Fragment
  <2>1. UNCHANGED <<sent, limits, faults, rx, delivered>>
    BY <1>6 DEF Ble!Fragment
  <2>2. SenderInv(base)' /\ WireInv(base)' /\ Kept /\ Stays
    BY <1>1, <1>2, <1>6, FragmentKeeps
  <2>3. AssemblyInv(base)' /\ DeliveredInv'
    BY <1>1, <1>2, <1>3, <2>1, <2>2, Unreceived
  <2>4. SentInv'
    BY <1>2, <2>1 DEF SentInv
  <2>5. QED BY <1>2, <1>4, <2>1, <2>2, <2>3, <2>4
<1>7. CASE Ble!Accepted
  <2>1. UNCHANGED <<sent, limits, faults, rx, delivered>>
    BY <1>7 DEF Ble!Accepted
  <2>2. SenderInv(base)' /\ WireInv(base)' /\ Stays
    BY <1>1, <1>2, <1>7, AcceptedKeeps
  <2>3. SentInv' /\ Kept
    BY <1>2, <2>1 DEF SentInv, Kept
  <2>4. AssemblyInv(base)' /\ DeliveredInv'
    BY <1>1, <1>2, <1>3, <2>1, <2>2, <2>3, Unreceived
  <2>5. QED BY <1>2, <1>4, <2>1, <2>2, <2>3, <2>4
<1>8. CASE Ble!Deliver
  <2>1. /\ UNCHANGED <<pending, nextId, sent, limits, faults>>
        /\ fifo # <<>> /\ Ble!Receive(Head(fifo)) /\ fifo' = Tail(fifo)
    BY <1>8 DEF Ble!Deliver
  <2>2. SenderInv(base)' /\ WireInv(base)' /\ Advances
    BY <1>1, <1>2, <2>1, HeadLeaves
  <2>3. AssemblyInv(base)' /\ DeliveredInv'
    BY <1>1, <1>2, <2>1, <2>2, AfterReceipt
  <2>4. rx' \in Assemblies /\ (~rx'.active => rx' = Ble!IdleRx)
    BY <1>1, <1>2, <2>1, Received
  <2>5. SentInv'
    BY <1>2, <2>1 DEF SentInv
  <2>6. QED BY <1>4, <2>2, <2>3, <2>4, <2>5
<1>9. CASE Ble!Duplicate
  <2>1. /\ UNCHANGED <<pending, nextId, fifo, sent, limits>>
        /\ fifo # <<>> /\ Ble!Receive(Head(fifo))
        /\ faults' = faults + 1 /\ faults < MaxFaults
    BY <1>9 DEF Ble!Duplicate
  <2>2. SenderInv(base)' /\ WireInv(base)' /\ Stays
    BY <1>1, <1>2, <2>1, Undisturbed
  <2>3. AssemblyInv(base)' /\ DeliveredInv'
    BY <1>1, <1>2, <2>1, <2>2, AfterReceipt
  <2>4. rx' \in Assemblies /\ (~rx'.active => rx' = Ble!IdleRx)
    BY <1>1, <1>2, <2>1, Received
  <2>5. SentInv'
    BY <1>2, <2>1, Constants DEF SentInv
  <2>6. QED BY <1>4, <2>2, <2>3, <2>4, <2>5
<1>10. CASE Ble!Lose
  <2>1. /\ UNCHANGED <<pending, nextId, sent, limits, rx, delivered>>
        /\ fifo # <<>> /\ fifo' = Tail(fifo)
        /\ faults' = faults + 1 /\ faults < MaxFaults
    BY <1>10 DEF Ble!Lose
  <2>2. SenderInv(base)' /\ WireInv(base)' /\ Advances
    BY <1>1, <1>2, <2>1, HeadLeaves
  <2>3. SentInv' /\ Kept
    BY <1>2, <2>1, Constants DEF SentInv, Kept
  <2>4. faults' \in Nat /\ faults' >= faults
    BY <1>2, <2>1
  <2>5. AssemblyInv(base)' /\ DeliveredInv'
    BY <1>1, <1>2, <1>3, <2>1, <2>2, <2>3, <2>4, Unreceived
  <2>6. QED BY <1>2, <1>4, <2>1, <2>2, <2>3, <2>5
<1>11. ASSUME UNCHANGED <<pending, nextId, fifo, sent, limits, delivered>>,
              faults' \in 0 .. MaxFaults, faults' >= faults,
              rx' \in Assemblies, ~rx'.active => rx' = Ble!IdleRx,
              rx'.active => /\ rx.active /\ rx'.bytes = rx.bytes
                            /\ rx'.expected = rx.expected /\ rx'.id = rx.id
       PROVE  BleInv'
  <2>1. SenderInv(base)' /\ WireInv(base)' /\ Kept /\ Stays
    BY <1>1, <1>2, <1>11, Undisturbed
  <2>2. SentInv' /\ faults' \in Nat
    BY <1>2, <1>11 DEF SentInv
  <2>3. AssemblyInv(base)' /\ DeliveredInv'
    BY <1>1, <1>2, <1>3, <1>11, <2>1, <2>2, Unreceived
  <2>4. QED BY <1>4, <1>11, <2>1, <2>2, <2>3
<1>12. CASE Ble!RunTimer
  <2>1. /\ rx' = Ble!Expire(rx) /\ Ble!Expire(rx) # rx
        /\ UNCHANGED <<pending, nextId, fifo, sent, limits, delivered, faults>>
    BY <1>12 DEF Ble!RunTimer
  <2>2. rx' = Ble!IdleRx
    BY <2>1 DEF Ble!Expire
  <2>3. ~rx'.active /\ rx' \in Assemblies
    BY <2>2, IdleFacts DEF Ble!IdleRx
  <2>4. faults' \in 0 .. MaxFaults /\ faults' >= faults
    BY <1>2, <2>1 DEF SentInv
  <2>5. QED BY <1>11, <2>1, <2>2, <2>3, <2>4
<1>13. CASE Ble!Tick \/ Ble!TickBack
  <2>1. /\ rx.active
        /\ rx' = [rx EXCEPT !.age = @ + 1] \/ rx' = [rx EXCEPT !.age = @ - 1]
        /\ UNCHANGED <<pending, nextId, fifo, sent, limits, delivered, faults>>
    BY <1>13 DEF Ble!Tick, Ble!TickBack
  <2>2. /\ rx' \in Assemblies /\ rx'.active
        /\ rx'.bytes = rx.bytes /\ rx'.expected = rx.expected /\ rx'.id = rx.id
    BY <1>2, <2>1 DEF Assemblies
  <2>3. faults' \in 0 .. MaxFaults /\ faults' >= faults
    BY <1>2, <2>1 DEF SentInv
  <2>4. QED BY <1>11, <2>1, <2>2, <2>3
<1>14. CASE Ble!Disconnect
  BY <1>1, <1>2, <1>14, DisconnectKeeps
<1>15. CASE part = "uart" /\ Next /\ UNCHANGED bleVars
  <2>1. faults' = faults \/ (faults < MaxFaults /\ faults' = faults + 1)
    BY <1>15 DEF Next, StartFrame, SendByte, Noise, LoseByte, Stall, Silence, Fault
  <2>2. faults' \in 0 .. MaxFaults /\ faults' >= faults
    BY <1>2, <2>1, Constants DEF SentInv
  <2>3. UNCHANGED <<pending, nextId, fifo, sent, limits, delivered, rx>>
    BY <1>15 DEF bleVars
  <2>4. QED BY <1>2, <1>11, <2>2, <2>3
<1>16. CASE UNCHANGED <<part, bleVars, uartVars, faults>>
  <2>1. UNCHANGED <<pending, nextId, fifo, sent, limits, delivered, rx, faults>>
    BY <1>16 DEF bleVars
  <2>2. faults' \in 0 .. MaxFaults /\ faults' >= faults
    BY <1>2, <2>1 DEF SentInv
  <2>3. QED BY <1>2, <1>11, <2>1, <2>2
<1>17. QED BY <1>5, <1>6, <1>7, <1>8, <1>9, <1>10, <1>12, <1>13, <1>14, <1>15, <1>16
           DEF LinksNext, Ble!Next

LEMMA BleImplies == BleInv => DeliveredAsSent
<1> SUFFICES ASSUME BleInv PROVE DeliveredAsSent
  OBVIOUS
<1>1. /\ SentInv /\ delivered \in Seq(Strings)
      /\ \A i \in DOMAIN delivered :
           /\ Message(delivered[i]) \in 1 .. Len(sent)
           /\ delivered[i] = Ble!Whole(Message(delivered[i]))
      /\ \A i, j \in DOMAIN delivered : i < j =>
           \/ Message(delivered[i]) < Message(delivered[j])
           \/ delivered[i] = delivered[j] /\ faults > 0
  BY DEF BleInv, DeliveredInv
<1>2. DOMAIN sent = 1 .. Len(sent)
  BY <1>1 DEF SentInv
<1>3. \A d \in Ble!ToSet(delivered) : \E k \in DOMAIN sent : d = Ble!Whole(k)
  BY <1>1, <1>2 DEF Ble!ToSet
<1>4. QED BY <1>1, <1>3 DEF DeliveredAsSent, Ble!DeliveredAsSent, Message

(* For any payload, any MTU, any mix of limits and any queue: a message    *)
(* handed up is one that was enqueued, whole and in order, whatever the    *)
(* stack loses or repeats, however often the link is torn down and however *)
(* the clock runs (BleSender, BleReceiver, P-036, P-039), unless the stack *)
(* fails so often that the message ids can come round between two values.  *)
THEOREM DeliversAsSent == LinksSpec => []DeliveredAsSent
BY InitBle, NextBle, BleImplies, PTL DEF LinksSpec
=============================================================================
