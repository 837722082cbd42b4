---------------------------- MODULE InflateProofs ----------------------------
(***************************************************************************)
(* Proofs about Inflate, for any set of streams, any size of the window    *)
(* and any sizes of the buffers of input and output.                       *)
(*                                                                         *)
(* The inductive invariant IInv says where in the stream each mode is      *)
(* (ModeInv, LastInv), which bit the bit buffer starts at and how long it  *)
(* can be (BitsInv), what inflate_fast still has in reserve (FastInv), and *)
(* that the window holds the last WindowSize bytes of what was decoded,    *)
(* of which all but Pending was delivered (DataInv).  What a stream stands *)
(* for is a recursive function of its items: one lemma says that it is     *)
(* what its definition says, item by item, and nothing else of it is used. *)
(***************************************************************************)
EXTENDS Inflate, TLAPS, NaturalsInduction, WellFoundedInduction, SequenceTheorems

-----------------------------------------------------------------------------
(* Arithmetic, and functions defined step by step                          *)

LEMMA Division ==
    ASSUME NEW a \in Int, NEW d \in Int, d > 0
    PROVE  a = d * (a \div d) + (a % d)
BY Z3

LEMMA Times ==
    ASSUME NEW d \in Int, d > 0, NEW x \in Int, x >= 1
    PROVE  d * x >= d
OBVIOUS

\* A match comes round to its own bytes.
LEMMA ModPeriod ==
    ASSUME NEW a \in Nat, NEW d \in Nat \ {0}
    PROVE  (a + d) % d = a % d
<1> DEFINE p == a \div d
           q == (a + d) \div d
           r == a % d
           s == (a + d) % d
<1>1. a = d * p + r /\ p \in Int /\ r \in 0 .. d - 1
  BY Division
<1>2. a + d = d * q + s /\ q \in Int /\ s \in 0 .. d - 1
  BY Division
<1> HIDE DEF p, q, r, s
<1>3. d * (q - p - 1) = d * q - d * p - d
  BY <1>1, <1>2
<1>4. d * (p + 1 - q) = d * p + d - d * q
  BY <1>1, <1>2
<1>5. d * (q - p - 1) = r - s
  BY <1>1, <1>2, <1>3
<1>6. d * (p + 1 - q) = s - r
  BY <1>1, <1>2, <1>4
<1>7. ~ (q - p - 1 >= 1)
  <2> SUFFICES ASSUME q - p - 1 >= 1 PROVE FALSE
    OBVIOUS
  <2>1. d * (q - p - 1) >= d
    BY <1>1, <1>2, Times
  <2> QED
    BY <2>1, <1>1, <1>2, <1>5
<1>8. ~ (p + 1 - q >= 1)
  <2> SUFFICES ASSUME p + 1 - q >= 1 PROVE FALSE
    OBVIOUS
  <2>1. d * (p + 1 - q) >= d
    BY <1>1, <1>2, Times
  <2> QED
    BY <2>1, <1>1, <1>2, <1>6
<1>9. q = p + 1
  BY <1>1, <1>2, <1>7, <1>8
<1>10. r = s
  BY <1>1, <1>2, <1>3, <1>5, <1>9
<1> QED
  BY <1>10 DEF r, s

LEMMA ModRange ==
    ASSUME NEW a \in Nat, NEW d \in Nat \ {0}
    PROVE  a % d \in 0 .. d - 1 /\ (a < d => a % d = a)
OBVIOUS

LEMMA ToByteType ==
    ASSUME NEW bit \in Nat
    PROVE  /\ ToByte(bit) \in bit .. bit + 7 /\ ToByte(bit) \in Nat
           /\ ToByte(bit) % 8 = 0
BY DEF ToByte

\* The only whole byte in the next 8 bits.
LEMMA ToByteIs ==
    ASSUME NEW bit \in Nat, NEW n \in Nat, 8 * n \in bit .. bit + 7
    PROVE  ToByte(bit) = 8 * n
BY DEF ToByte

LEMMA Least ==
    ASSUME NEW T, T \subseteq Nat, T # {}
    PROVE  \E x \in T : \A y \in T : x <= y
<1>1. PICK x \in T : \A y \in T : ~ (<<y, x>> \in OpToRel(<, Nat))
  BY NatLessThanWellFounded, WFMin
<1>2. ASSUME NEW y \in T PROVE x <= y
  <2>1. ~(y < x)
    BY <1>1 DEF OpToRel
  <2> QED
    BY <2>1
<1> QED
  BY <1>2

LEMMA MinOfTwo ==
    ASSUME NEW a \in Int, NEW b \in Int
    PROVE  Min({a, b}) = IF a <= b THEN a ELSE b
BY DEF Min

\* A recursive function on 1 .. n + 1 exists, whose steps stay in Nat.
LEMMA Iteration ==
    ASSUME NEW n \in Nat, NEW g \in [Nat \X (1 .. n) -> Nat]
    PROVE  \E f \in [1 .. n + 1 -> Nat] :
               f = [i \in 1 .. n + 1 |-> IF i = 1 THEN 0 ELSE g[<<f[i - 1], i - 1>>]]
<1> DEFINE step(f, i) == IF i = 1 THEN 0 ELSE g[<<f[i - 1], i - 1>>]
           Begun(k) == \E f \in [1 .. k + 1 -> Nat] : \A i \in 1 .. k + 1 : f[i] = step(f, i)
           T == {k \in Nat : k <= n /\ ~ Begun(k)}
<1>1. T = {}
  <2> SUFFICES ASSUME T # {} PROVE FALSE
    OBVIOUS
  <2>1. PICK k \in T : \A j \in T : k <= j
    <3> HIDE DEF Begun
    <3> QED
      BY Least
  <2>2. CASE k = 0
    <3> DEFINE f == [i \in 1 .. 1 |-> 0]
    <3>1. f \in [1 .. k + 1 -> Nat] /\ \A i \in 1 .. k + 1 : f[i] = step(f, i)
      BY <2>2
    <3>2. Begun(k)
      <4> HIDE DEF f, step
      <4> QED
        BY <3>1
    <3> QED
      BY <2>1, <3>2
  <2>3. CASE k # 0
    <3>1. k \in Nat /\ k - 1 \in Nat /\ k - 1 \notin T /\ k <= n
      <4> HIDE DEF Begun
      <4> QED
        BY <2>1, <2>3
    <3>2. PICK f \in [1 .. k -> Nat] : \A i \in 1 .. k : f[i] = step(f, i)
      <4>1. Begun(k - 1)
        BY <3>1
      <4>2. k - 1 + 1 = k
        BY <3>1
      <4> QED
        BY <4>1, <4>2
    <3> DEFINE h == [i \in 1 .. k + 1 |-> IF i = k + 1 THEN g[<<f[k], k>>] ELSE f[i]]
    <3>3. g[<<f[k], k>>] \in Nat
      <4>1. f[k] \in Nat /\ k \in 1 .. n
        BY <3>1, <3>2, <2>3
      <4>2. <<f[k], k>> \in Nat \X (1 .. n)
        BY <4>1
      <4> QED
        BY <4>2
    <3>4. h \in [1 .. k + 1 -> Nat]
      BY <3>1, <3>3
    <3>5. ASSUME NEW i \in 1 .. k + 1 PROVE h[i] = step(h, i)
      <4>1. CASE i = k + 1
        <5>1. k \in 1 .. k + 1 /\ k # k + 1 /\ i - 1 = k /\ i # 1
          BY <3>1, <4>1, <2>3
        <5>2. h[k] = f[k] /\ h[i] = g[<<f[k], k>>]
          BY <5>1, <4>1
        <5> HIDE DEF h
        <5> QED
          BY <5>1, <5>2
      <4>2. CASE i # k + 1 /\ i # 1
        <5>1. i \in 1 .. k /\ i - 1 \in 1 .. k + 1 /\ i - 1 # k + 1
          BY <3>1, <4>2
        <5>2. h[i] = f[i] /\ h[i - 1] = f[i - 1]
          BY <5>1
        <5> HIDE DEF h
        <5> QED
          BY <3>2, <4>2, <5>1, <5>2
      <4>3. CASE i # k + 1 /\ i = 1
        <5>1. 1 \in 1 .. k /\ 1 \in 1 .. k + 1 /\ 1 # k + 1
          BY <3>1, <2>3
        <5>2. h[1] = f[1]
          BY <5>1
        <5>3. f[1] = 0
          BY <3>2, <5>1
        <5> HIDE DEF h
        <5> QED
          BY <4>3, <5>2, <5>3
      <4> QED
        BY <4>1, <4>2, <4>3
    <3>6. Begun(k)
      <4> HIDE DEF h, step
      <4> QED
        BY <3>4, <3>5
    <3> QED
      BY <2>1, <3>6
  <2> QED
    BY <2>2, <2>3
<1>2. Begun(n)
  <2> HIDE DEF Begun
  <2> QED
    BY <1>1
<1>3. PICK f \in [1 .. n + 1 -> Nat] : \A i \in 1 .. n + 1 : f[i] = step(f, i)
  BY <1>2
<1>4. f = [i \in 1 .. n + 1 |-> step(f, i)]
  <2> HIDE DEF step
  <2> QED
    BY <1>3
<1> QED
  BY <1>4

-----------------------------------------------------------------------------
(* Streams                                                                 *)

LEMMA BitsBeforeStep ==
    ASSUME NEW steps \in Seq(Lookup)
    PROVE  /\ BitsBefore(steps, 1) = 0
           /\ \A i \in 1 .. Len(steps) + 1 : BitsBefore(steps, i) \in Nat
           /\ \A i \in 1 .. Len(steps) :
                BitsBefore(steps, i + 1) = BitsBefore(steps, i) + steps[i].bits
<1> DEFINE n == Len(steps)
           G(f) == f = [j \in 1 .. n + 1 |-> IF j = 1 THEN 0 ELSE f[j - 1] + steps[j - 1].bits]
           g == [p \in Nat \X (1 .. n) |-> p[1] + steps[p[2]].bits]
           b == CHOOSE f : G(f)
<1>1. n \in Nat /\ \A i \in 1 .. n : steps[i].bits \in Nat
  BY DEF Lookup
<1>2. g \in [Nat \X (1 .. n) -> Nat]
  <2>1. ASSUME NEW p \in Nat \X (1 .. n) PROVE p[1] + steps[p[2]].bits \in Nat
    BY <1>1
  <2> QED
    BY <2>1
<1>3. PICK f \in [1 .. n + 1 -> Nat] :
          f = [i \in 1 .. n + 1 |-> IF i = 1 THEN 0 ELSE g[<<f[i - 1], i - 1>>]]
  <2> HIDE DEF g, n
  <2> QED
    BY <1>1, <1>2, Iteration
<1>4. \A i \in 1 .. n + 1 : f[i] = IF i = 1 THEN 0 ELSE f[i - 1] + steps[i - 1].bits
  <2> TAKE i \in 1 .. n + 1
  <2>1. CASE i = 1
    <3> HIDE DEF g, n
    <3> QED
      BY <1>3, <2>1
  <2>2. CASE i # 1
    <3>1. i - 1 \in 1 .. n /\ i - 1 \in 1 .. n + 1
      BY <1>1, <2>2
    <3>2. f[i - 1] \in Nat
      BY <3>1, <1>3
    <3>3. g[<<f[i - 1], i - 1>>] = f[i - 1] + steps[i - 1].bits
      BY <3>1, <3>2
    <3> HIDE DEF g, n
    <3> QED
      BY <1>3, <2>2, <3>3
  <2> QED
    BY <2>1, <2>2
<1>5. G(f)
  <2> HIDE DEF g, n
  <2> QED
    BY <1>3, <1>4
<1>6. G(b)
  <2> HIDE DEF G
  <2> QED
    BY <1>5
<1>7. \A i : BitsBefore(steps, i) = b[i]
  BY DEF BitsBefore
<1> HIDE DEF b
<1>8. b = [j \in 1 .. n + 1 |-> IF j = 1 THEN 0 ELSE b[j - 1] + steps[j - 1].bits]
  BY <1>6
<1>9. b[1] = 0 /\ \A i \in 1 .. n : b[i + 1] = b[i] + steps[i].bits
  <2>1. 1 \in 1 .. n + 1
    BY <1>1
  <2>2. b[1] = 0
    BY <1>8, <2>1
  <2>3. ASSUME NEW i \in 1 .. n PROVE b[i + 1] = b[i] + steps[i].bits
    <3> DEFINE h == i + 1
    <3>1. h \in 1 .. n + 1 /\ h # 1 /\ h - 1 = i
      BY <1>1
    <3>2. b[h] = IF h = 1 THEN 0 ELSE b[h - 1] + steps[h - 1].bits
      <4> HIDE DEF n, h
      <4> QED
        BY <1>8, <3>1
    <3> QED
      BY <3>1, <3>2
  <2> QED
    BY <2>2, <2>3
<1>10. \A i \in 1 .. n + 1 : b[i] \in Nat
  <2> DEFINE T == {i \in Nat : i \in 1 .. n + 1 /\ b[i] \notin Nat}
  <2> SUFFICES ASSUME T # {} PROVE FALSE
    BY <1>1
  <2>1. PICK i \in T : \A j \in T : i <= j
    BY Least
  <2>2. i # 1
    BY <2>1, <1>9
  <2>3. i - 1 \in 1 .. n /\ i - 1 \in Nat /\ i - 1 \notin T
    BY <1>1, <2>1, <2>2
  <2>4. b[i - 1] \in Nat
    BY <1>1, <2>3
  <2>5. b[i - 1 + 1] = b[i - 1] + steps[i - 1].bits
    BY <1>9, <2>3
  <2>6. b[i] \in Nat
    BY <1>1, <2>3, <2>4, <2>5
  <2> QED
    BY <2>1, <2>6
<1> QED
  BY <1>7, <1>9, <1>10

LEMMA StreamType ==
    ASSUME NEW stream \in Streams
    PROVE  /\ Len(stream) \in Nat \ {0}
           /\ \A i \in 1 .. Len(stream) :
                /\ stream[i].kind \in BlockKind \cup CodeKind \cup ByteKind
                /\ GoodItem(stream[i])
                /\ GoodOrder(stream, i)
                /\ stream[i].kind = "match" => stream[i].dist <= Len(Output[stream][i])
BY StreamAssumption

LEMMA ItemEndType ==
    ASSUME NEW stream \in Streams, NEW i \in 1 .. Len(stream), NEW bit \in Nat
    PROVE  ItemEnd(stream[i], bit) \in Nat
<1> DEFINE item == stream[i]
<1>1. item.kind \in BlockKind \cup CodeKind \cup ByteKind /\ GoodItem(item)
  BY StreamType
<1> HIDE DEF item
<1>2. CASE item.kind \in ByteKind
  <2>1. ItemEnd(item, bit) = ToByte(bit) + 8
    BY <1>2 DEF ItemEnd, ByteKind, BlockKind, CodeKind
  <2>2. ToByte(bit) \in Nat
    BY ToByteType
  <2> QED
    BY <2>1, <2>2 DEF item
<1>3. CASE item.kind \in {"stored", "badlens"}
  <2>1. ItemEnd(item, bit) = ToByte(bit + 3) + 32 + 8 * Len(item.bytes)
    BY <1>3 DEF ItemEnd, ByteKind, BlockKind, CodeKind
  <2>2. item.bytes \in Seq(Octet)
    BY <1>1, <1>3 DEF GoodItem, ByteKind
  <2>3. Len(item.bytes) \in Nat /\ ToByte(bit + 3) \in Nat
    <3>1. bit + 3 \in Nat
      OBVIOUS
    <3>2. ToByte(bit + 3) \in Nat
      BY <3>1, ToByteType
    <3>3. Len(item.bytes) \in Nat
      BY <2>2
    <3> QED
      BY <3>2, <3>3
  <2> QED
    BY <2>1, <2>3 DEF item
<1>4. CASE item.kind \in (BlockKind \ {"stored", "badlens"}) \cup CodeKind
  <2>1. \/ ItemEnd(item, bit) = bit + 3 + BitsIn(item.steps)
        \/ ItemEnd(item, bit) = bit + BitsIn(item.steps)
    BY <1>4 DEF ItemEnd, ByteKind, BlockKind, CodeKind
  <2>2. item.steps \in Seq(Lookup)
    <3>1. <<>> \in Seq(Lookup)
      BY EmptySeq
    <3> QED
      BY <1>1, <1>4, <3>1 DEF GoodItem, ByteKind, BlockKind, CodeKind
  <2>3. BitsIn(item.steps) \in Nat
    <3>1. Len(item.steps) + 1 \in 1 .. Len(item.steps) + 1
      BY <2>2
    <3> QED
      BY <2>2, <3>1, BitsBeforeStep DEF BitsIn
  <2> QED
    BY <2>1, <2>3 DEF item
<1> QED
  BY <1>1, <1>2, <1>3, <1>4 DEF BlockKind

LEMMA FirstBitStep ==
    ASSUME NEW stream \in Streams
    PROVE  /\ FirstBit[stream][1] = 0
           /\ \A i \in 1 .. Len(stream) + 1 : FirstBit[stream][i] \in Nat
           /\ \A i \in 1 .. Len(stream) :
                FirstBit[stream][i + 1] = ItemEnd(stream[i], FirstBit[stream][i])
<1> DEFINE n == Len(stream)
           G(f) == f = [i \in 1 .. n + 1 |-> IF i = 1 THEN 0 ELSE ItemEnd(stream[i - 1], f[i - 1])]
           g == [p \in Nat \X (1 .. n) |-> ItemEnd(stream[p[2]], p[1])]
           b == CHOOSE f : G(f)
<1>1. n \in Nat
  BY StreamType
<1>2. g \in [Nat \X (1 .. n) -> Nat]
  <2>1. ASSUME NEW p \in Nat \X (1 .. n) PROVE ItemEnd(stream[p[2]], p[1]) \in Nat
    <3>1. p[1] \in Nat /\ p[2] \in 1 .. n
      OBVIOUS
    <3> QED
      BY <3>1, ItemEndType
  <2> QED
    BY <2>1
<1>3. PICK f \in [1 .. n + 1 -> Nat] :
          f = [i \in 1 .. n + 1 |-> IF i = 1 THEN 0 ELSE g[<<f[i - 1], i - 1>>]]
  <2> HIDE DEF g, n
  <2> QED
    BY <1>1, <1>2, Iteration
<1>4. \A i \in 1 .. n + 1 : f[i] = IF i = 1 THEN 0 ELSE ItemEnd(stream[i - 1], f[i - 1])
  <2> TAKE i \in 1 .. n + 1
  <2>1. CASE i = 1
    <3> HIDE DEF g, n
    <3> QED
      BY <1>3, <2>1
  <2>2. CASE i # 1
    <3>1. i - 1 \in 1 .. n /\ i - 1 \in 1 .. n + 1
      BY <1>1, <2>2
    <3>2. f[i - 1] \in Nat
      BY <3>1, <1>3
    <3>3. g[<<f[i - 1], i - 1>>] = ItemEnd(stream[i - 1], f[i - 1])
      BY <3>1, <3>2
    <3> HIDE DEF g, n
    <3> QED
      BY <1>3, <2>2, <3>3
  <2> QED
    BY <2>1, <2>2
<1>5. G(f)
  <2> HIDE DEF g, n
  <2> QED
    BY <1>3, <1>4
<1>6. G(b)
  <2> HIDE DEF G
  <2> QED
    BY <1>5
<1>7. FirstBit[stream] = b
  BY DEF FirstBit, FirstBits
<1> HIDE DEF b
<1>8. b = [i \in 1 .. n + 1 |-> IF i = 1 THEN 0 ELSE ItemEnd(stream[i - 1], b[i - 1])]
  BY <1>6
<1>9. b[1] = 0 /\ \A i \in 1 .. n : b[i + 1] = ItemEnd(stream[i], b[i])
  <2>1. 1 \in 1 .. n + 1
    BY <1>1
  <2>2. b[1] = 0
    BY <1>8, <2>1
  <2>3. ASSUME NEW i \in 1 .. n PROVE b[i + 1] = ItemEnd(stream[i], b[i])
    <3> DEFINE h == i + 1
    <3>1. h \in 1 .. n + 1 /\ h # 1 /\ h - 1 = i
      BY <1>1
    <3>2. b[h] = IF h = 1 THEN 0 ELSE ItemEnd(stream[h - 1], b[h - 1])
      <4> HIDE DEF n, h
      <4> QED
        BY <1>8, <3>1
    <3> QED
      BY <3>1, <3>2
  <2> QED
    BY <2>2, <2>3
<1>10. \A i \in 1 .. n + 1 : b[i] \in Nat
  <2> DEFINE T == {i \in Nat : i \in 1 .. n + 1 /\ b[i] \notin Nat}
  <2> SUFFICES ASSUME T # {} PROVE FALSE
    BY <1>1
  <2>1. PICK i \in T : \A j \in T : i <= j
    BY Least
  <2>2. i # 1
    BY <2>1, <1>9
  <2>3. i - 1 \in 1 .. n /\ i - 1 \in Nat /\ i - 1 \notin T
    BY <1>1, <2>1, <2>2
  <2>4. b[i - 1] \in Nat
    BY <1>1, <2>3
  <2>5. b[i - 1 + 1] = ItemEnd(stream[i - 1], b[i - 1])
    BY <1>9, <2>3
  <2>6. ItemEnd(stream[i - 1], b[i - 1]) \in Nat
    BY <2>3, <2>4, ItemEndType
  <2>7. b[i] \in Nat
    BY <1>1, <2>3, <2>5, <2>6
  <2> QED
    BY <2>1, <2>7
<1> QED
  BY <1>7, <1>9, <1>10

-----------------------------------------------------------------------------
(* What streams stand for                                                  *)

\* An item appended to the output before it.
Extended(o, item) ==
    CASE item.kind = "stored" -> o \o item.bytes
      [] item.kind = "literal" -> Append(o, item.sym)
      [] item.kind = "match" -> Repeated(o, item.len, item.dist)
      [] OTHER -> o

\* The output before each of the first n + 1 items.
OutputsTo(stream, n, f) ==
    f = [i \in 1 .. n + 1 |-> IF i = 1 THEN <<>> ELSE Extended(f[i - 1], stream[i - 1])]

LEMMA OutputsExist ==
    ASSUME NEW stream, NEW n \in Nat
    PROVE  \E f : OutputsTo(stream, n, f)
<1> DEFINE T == {k \in Nat : ~ \E f : OutputsTo(stream, k, f)}
           next(o, i) == IF i = 1 THEN <<>> ELSE Extended(o, stream[i - 1])
<1> SUFFICES ASSUME T # {} PROVE FALSE
  OBVIOUS
<1>1. PICK k \in T : \A j \in T : k <= j
  BY Least
<1>2. CASE k = 0
  <2> DEFINE f == [i \in 1 .. 0 + 1 |-> <<>>]
  <2>1. \A i \in 1 .. 0 + 1 : i = 1
    OBVIOUS
  <2>2. f = [i \in 1 .. 0 + 1 |-> IF i = 1 THEN <<>> ELSE Extended(f[i - 1], stream[i - 1])]
    BY <2>1
  <2>3. OutputsTo(stream, 0, f)
    BY <2>2 DEF OutputsTo
  <2> QED
    BY <1>1, <1>2, <2>3
<1>3. CASE k # 0
  <2>1. k \in Nat /\ k - 1 \in Nat /\ k - 1 \notin T /\ k - 1 + 1 = k
    BY <1>1, <1>3
  <2>2. PICK f : OutputsTo(stream, k - 1, f)
    BY <2>1
  <2> DEFINE g == [i \in 1 .. k + 1 |-> IF i = k + 1 THEN next(f[k], k + 1) ELSE f[i]]
  <2>3. f = [i \in 1 .. k |-> next(f[i - 1], i)]
    BY <2>1, <2>2 DEF OutputsTo
  <2>4. ASSUME NEW i \in 1 .. k + 1 PROVE g[i] = next(g[i - 1], i)
    <3>1. CASE i = k + 1
      <4>1. k \in 1 .. k + 1 /\ k # k + 1 /\ i - 1 = k
        BY <2>1, <1>3, <3>1
      <4>2. g[k] = f[k] /\ g[i] = next(f[k], k + 1)
        <5> HIDE DEF next
        <5> QED
          BY <4>1, <3>1
      <4> HIDE DEF g, next
      <4> QED
        BY <4>1, <4>2, <3>1
    <3>2. CASE i # k + 1
      <4>1. i \in 1 .. k /\ g[i] = f[i]
        <5> HIDE DEF next
        <5> QED
          BY <2>1, <3>2
      <4>2. f[i] = next(f[i - 1], i)
        <5> HIDE DEF next
        <5> QED
          BY <2>3, <4>1
      <4>3. CASE i = 1
        <5>1. next(f[i - 1], i) = next(g[i - 1], i)
          BY <4>3
        <5> HIDE DEF g, next
        <5> QED
          BY <4>1, <4>2, <5>1
      <4>4. CASE i # 1
        <5>1. i - 1 \in 1 .. k + 1 /\ i - 1 # k + 1
          BY <2>1, <4>1, <4>4
        <5>2. g[i - 1] = f[i - 1]
          <6> HIDE DEF next
          <6> QED
            BY <5>1
        <5> HIDE DEF g, next
        <5> QED
          BY <4>1, <4>2, <5>2
      <4> QED
        BY <4>3, <4>4
    <3> QED
      BY <3>1, <3>2
  <2>5. g = [i \in 1 .. k + 1 |-> g[i]]
    <3> HIDE DEF next
    <3> QED
      OBVIOUS
  <2>6. g = [i \in 1 .. k + 1 |-> next(g[i - 1], i)]
    <3> HIDE DEF g, next
    <3> QED
      BY <2>4, <2>5
  <2>7. OutputsTo(stream, k, g)
    <3> HIDE DEF g
    <3> QED
      BY <2>6 DEF OutputsTo
  <2> QED
    BY <1>1, <2>7
<1> QED
  BY <1>2, <1>3

LEMMA OutputStep ==
    ASSUME NEW stream \in Streams
    PROVE  /\ Output[stream][1] = <<>>
           /\ \A i \in 1 .. Len(stream) :
                Output[stream][i + 1] = Extended(Output[stream][i], stream[i])
<1> DEFINE n == Len(stream)
           o == Output[stream]
<1>1. n \in Nat
  BY StreamType
<1>2. o = CHOOSE f : OutputsTo(stream, n, f)
  BY DEF Output, Outputs, OutputsTo, Extended
<1> HIDE DEF o
<1>3. OutputsTo(stream, n, o)
  BY <1>1, <1>2, OutputsExist
<1>4. \A i \in 1 .. n + 1 : o[i] = IF i = 1 THEN <<>> ELSE Extended(o[i - 1], stream[i - 1])
  BY <1>3 DEF OutputsTo
<1>5. 1 \in 1 .. n + 1
  BY <1>1
<1>6. ASSUME NEW i \in 1 .. n PROVE o[i + 1] = Extended(o[i], stream[i])
  <2> DEFINE h == i + 1
  <2>1. h \in 1 .. n + 1 /\ h # 1 /\ h - 1 = i
    BY <1>1
  <2> HIDE DEF n
  <2>2. o[h] = Extended(o[h - 1], stream[h - 1])
    <3> HIDE DEF h
    <3> QED
      BY <1>4, <2>1
  <2> QED
    BY <2>1, <2>2
<1> QED
  BY <1>4, <1>5, <1>6 DEF o

\* A match appends bytes, each the one dist before it.
LEMMA RepeatedStep ==
    ASSUME NEW out \in Seq(Octet), NEW len \in Nat, NEW dist \in Nat \ {0}, dist <= Len(out)
    PROVE  /\ Repeated(out, len, dist) \in Seq(Octet)
           /\ Len(Repeated(out, len, dist)) = Len(out) + len
           /\ \A i \in 1 .. Len(out) : Repeated(out, len, dist)[i] = out[i]
           /\ \A i \in Len(out) + 1 .. Len(out) + len :
                Repeated(out, len, dist)[i] = Repeated(out, len, dist)[i - dist]
<1> DEFINE n == Len(out)
           s == [i \in 1 .. len |-> out[n - dist + 1 + ((i - 1) % dist)]]
           rep == out \o s
<1>1. n \in Nat /\ \A i \in 1 .. n : out[i] \in Octet
  OBVIOUS
<1>2. ASSUME NEW i \in 1 .. len
      PROVE  n - dist + 1 + ((i - 1) % dist) \in 1 .. n
  <2>1. i - 1 \in Nat
    OBVIOUS
  <2>2. (i - 1) % dist \in 0 .. dist - 1
    BY <2>1, ModRange
  <2> QED
    BY <1>1, <2>2
<1>3. s \in Seq(Octet) /\ Len(s) = len /\ \A i \in 1 .. len : s[i] = out[n - dist + 1 + ((i - 1) % dist)]
  <2>1. s \in [1 .. len -> Octet]
    <3> HIDE DEF n
    <3> QED
      BY <1>1, <1>2
  <2>2. Len(s) = len
    BY <2>1
  <2>3. s \in Seq(Octet)
    <3> HIDE DEF s
    <3> QED
      BY <2>1
  <2> QED
    BY <2>2, <2>3
<1> HIDE DEF s
<1>4. /\ rep \in Seq(Octet) /\ Len(rep) = n + len
      /\ \A i \in 1 .. n + len : rep[i] = IF i <= n THEN out[i] ELSE s[i - n]
  BY <1>3, ConcatProperties
<1>5. Repeated(out, len, dist) = rep
  BY DEF Repeated, s
<1> HIDE DEF rep
<1>6. \A i \in 1 .. n : rep[i] = out[i]
  BY <1>1, <1>4
<1>7. ASSUME NEW i \in n + 1 .. n + len PROVE rep[i] = rep[i - dist]
  <2> DEFINE j == i - n
  <2>1. j \in 1 .. len /\ i \in 1 .. n + len /\ ~ (i <= n) /\ i - dist \in 1 .. n + len
    BY <1>1
  <2>2. rep[i] = out[n - dist + 1 + ((j - 1) % dist)]
    BY <1>3, <1>4, <2>1
  <2>3. CASE j <= dist
    <3>1. j - 1 \in Nat /\ j - 1 < dist
      BY <2>1, <2>3
    <3>2. (j - 1) % dist = j - 1
      BY <3>1, ModRange
    <3>3. n - dist + 1 + (j - 1) = i - dist /\ i - dist <= n
      BY <1>1, <2>1, <2>3
    <3>4. rep[i] = out[i - dist]
      BY <2>2, <3>2, <3>3
    <3> QED
      BY <1>4, <2>1, <3>3, <3>4
  <2>4. CASE j > dist
    <3>1. j - dist \in 1 .. len /\ j - dist - 1 \in Nat /\ ~ (i - dist <= n)
      BY <1>1, <2>1, <2>4
    <3>2. (j - dist - 1 + dist) % dist = (j - dist - 1) % dist
      BY <3>1, ModPeriod
    <3>3. j - dist - 1 + dist = j - 1 /\ i - dist - n = j - dist
      BY <2>1, <1>1
    <3>4. rep[i - dist] = s[j - dist]
      BY <1>4, <2>1, <3>1, <3>3
    <3>5. rep[i - dist] = out[n - dist + 1 + ((j - dist - 1) % dist)]
      BY <1>3, <3>1, <3>4
    <3> HIDE DEF j
    <3> QED
      BY <2>2, <3>2, <3>3, <3>5
  <2> QED
    BY <2>1, <2>3, <2>4
<1> QED
  BY <1>4, <1>5, <1>6, <1>7

LEMMA OutputType ==
    ASSUME NEW stream \in Streams
    PROVE  \A i \in 1 .. Len(stream) + 1 : Output[stream][i] \in Seq(Octet)
<1> DEFINE n == Len(stream)
           o == Output[stream]
           T == {i \in Nat : i \in 1 .. n + 1 /\ o[i] \notin Seq(Octet)}
<1>1. n \in Nat
  BY StreamType
<1> SUFFICES ASSUME T # {} PROVE FALSE
  BY <1>1
<1>2. PICK i \in T : \A j \in T : i <= j
  <2> HIDE DEF o
  <2> QED
    BY Least
<1>3. CASE i = 1
  <2>1. <<>> \in Seq(Octet)
    BY EmptySeq
  <2> QED
    BY <1>2, <1>3, <2>1, OutputStep
<1>4. CASE i # 1
  <2> DEFINE m == i - 1
  <2>1. m \in 1 .. n /\ m + 1 = i /\ m \in Nat /\ m \notin T /\ o[i] \notin Seq(Octet)
    <3> HIDE DEF o
    <3> QED
      BY <1>1, <1>2, <1>4
  <2>2. o[m] \in Seq(Octet)
    <3> HIDE DEF o
    <3> QED
      BY <1>1, <2>1
  <2>3. o[i] = Extended(o[m], stream[m])
    BY <2>1, OutputStep
  <2> DEFINE item == stream[m]
  <2>4. GoodItem(item) /\ (item.kind = "match" => item.dist <= Len(o[m]))
    BY <2>1, StreamType
  <2> HIDE DEF o, m, item
  <2>5. CASE item.kind = "stored"
    <3>1. item.bytes \in Seq(Octet)
      BY <2>4, <2>5 DEF GoodItem
    <3>2. Extended(o[m], item) = o[m] \o item.bytes
      BY <2>5 DEF Extended
    <3> QED
      BY <2>1, <2>2, <2>3, <3>1, <3>2, ConcatProperties DEF item
  <2>6. CASE item.kind = "literal"
    <3>1. item.sym \in Octet
      BY <2>4, <2>6 DEF GoodItem
    <3>2. Extended(o[m], item) = Append(o[m], item.sym)
      BY <2>6 DEF Extended
    <3> QED
      BY <2>1, <2>2, <2>3, <3>1, <3>2, AppendProperties DEF item
  <2>7. CASE item.kind = "match"
    <3>1. item.len \in Nat /\ item.dist \in Nat \ {0} /\ item.dist <= Len(o[m])
      BY <2>4, <2>7, WindowAssumption DEF GoodItem
    <3>2. Extended(o[m], item) = Repeated(o[m], item.len, item.dist)
      BY <2>7 DEF Extended
    <3>3. Repeated(o[m], item.len, item.dist) \in Seq(Octet)
      BY <2>2, <3>1, RepeatedStep
    <3> QED
      BY <2>1, <2>3, <3>2, <3>3 DEF item
  <2>8. CASE item.kind \notin {"stored", "literal", "match"}
    <3>1. Extended(o[m], item) = o[m]
      BY <2>8 DEF Extended
    <3> QED
      BY <2>1, <2>2, <2>3, <3>1 DEF item
  <2> QED
    BY <2>5, <2>6, <2>7, <2>8
<1> QED
  BY <1>3, <1>4

-----------------------------------------------------------------------------
(* The inductive invariant, in parts.  They are about any state s, so that *)
(* a step can be followed through the states it goes through.              *)

TypeInv(s) ==
    /\ s \in State
    /\ s.item \in 1 .. Len(s.stream) + 1
    /\ s.read # WindowSize
    /\ s.in + s.avail <= Bytes(s.stream)

Kind(s) == Item(s).kind

\* What each mode works on.
ModeInv(s) ==
    /\ s.mode = "FINISHED" <=> s.item = Len(s.stream) + 1
    /\ s.mode = "BYTE" => Kind(s) \in ByteKind
    /\ s.mode = "TYPE" => Kind(s) \in BlockKind /\ s.step = 1
    /\ s.mode = "LENS" => Kind(s) \in {"stored", "badlens"}
    /\ s.mode = "STORED" => Kind(s) = "stored" /\ s.left \in 1 .. Len(Item(s).bytes)
    /\ s.mode = "TABLE" => Kind(s) \in {"dynamic", "badtable"} /\ s.step \in 1 .. Len(Item(s).steps)
    /\ s.mode = "START" => Kind(s) \in CodeKind /\ s.step = 1
    /\ s.mode \in {"FAST", "LEN"} => Kind(s) \in CodeKind /\ s.step \in 1 .. Len(Item(s).steps)
    /\ s.mode = "LIT" => Kind(s) = "literal"
    /\ s.mode = "COPY" => Kind(s) = "match" /\ s.left \in 1 .. Item(s).len
    /\ s.mode = "WASH" => Kind(s) = "eob"
    /\ s.mode = "BADCODE" => Kind(s) = "badcode"
    /\ s.mode = "DRY" => Kind(s) \in {"stored", "eob"} /\ s.last

\* The bit position, and how many bits wait.
BitsInv(s) ==
    /\ s.mode \notin {"BAD", "BADCODE"} => 8 * s.in - s.k = Position(s)
    /\ s.mode \in {"BYTE", "STORED", "FINISHED"} => s.k = 0
    /\ s.mode = "LENS" => s.k % 8 = 0
    /\ s.mode = "DRY" => s.k <= 7
    /\ s.mode \in {"TYPE", "TABLE", "START", "LEN", "LIT", "COPY", "WASH"} => s.k <= 15

\* inflate_fast has enough of everything for a code: the bits of the length
\* or the distance it is in, the bytes of what comes, room for the longest match.
Reserve(steps, i) ==
    IF i = 1 THEN 7
    ELSE IF steps[i].mode \in {"LEN", "LENEXT"} \/ steps[i - 1].mode = "LENEXT" THEN 4 ELSE 2
FastInv(s) ==
    s.mode = "FAST" =>
        LET steps == Item(s).steps
            i == s.step
        IN  /\ Space(s) >= MaxMatch
            /\ s.avail >= Reserve(steps, i)
            /\ i > 1 /\ steps[i].mode \in {"LEN", "LENEXT"} => s.k + BitsBefore(steps, i) >= 20
            /\ i > 1 /\ steps[i].mode = "DIST" /\ steps[i - 1].mode # "LENEXT" =>
                 \E j \in 1 .. i - 1 :
                     /\ steps[j].mode = "LENEXT"
                     /\ s.k + BitsBefore(steps, i) >= BitsBefore(steps, j + 1) + 15

\* The block that is decoded says whether it is the last.
LastInv(s) ==
    s.mode \notin {"BYTE", "TYPE", "FINISHED", "BAD", "BADCODE"} =>
        \E j \in 1 .. s.item : InBlock(s.stream, j, s.item) /\ s.last = s.stream[j].last

\* The bytes between read and write, and the place of the byte written j
\* bytes ago.
PendingLen(s) ==
    IF s.read <= s.write THEN s.write - s.read ELSE WindowSize - s.read + s.write
Back(s, j) == IF s.write < j THEN WindowSize - (j - s.write) ELSE s.write - j

\* Of the first n bytes of the output D all but what waits was delivered, and
\* the window holds the end of them.
Sent(s, D, n) ==
    /\ Len(s.out) + PendingLen(s) = n
    /\ \A i \in 1 .. Len(s.out) : s.out[i] = D[i]
Kept(s, D, n) ==
    \A j \in 1 .. WindowSize : j <= n => s.window[Back(s, j)] = D[n - j + 1]

\* Decoded is the first Done bytes of Goal.
Goal(s) == Output[s.stream][IF s.mode \in {"STORED", "COPY", "DRY"} THEN s.item + 1 ELSE s.item]
Done(s) == Len(Goal(s)) - IF s.mode \in {"STORED", "COPY"} THEN s.left ELSE 0

InData(s) == s.item <= Len(s.stream) /\ Kind(s) \notin ByteKind
DataInv(s) ==
    /\ Sent(s, Goal(s), Done(s))
    /\ InData(s) => Kept(s, Goal(s), Done(s))
    /\ ~InData(s) => s.read = s.write

\* What r and the last result say.
ReturnInv(s) ==
    /\ s.inCall => s.r # "data"
    /\ s.r = "end" => s.mode = "WASH" /\ s.inCall
    /\ ~s.inCall /\ s.ret = "end" => s.mode = "FINISHED"
    /\ ~s.inCall /\ s.ret \in {"ok", "buf"} => s.avail = 0 \/ s.room = 0

\* All but what was returned.
Core(s) ==
    /\ TypeInv(s)
    /\ ModeInv(s)
    /\ BitsInv(s)
    /\ FastInv(s)
    /\ LastInv(s)
    /\ DataInv(s)

Inv(s) == Core(s) /\ ReturnInv(s)
IInv == Inv(z)

-----------------------------------------------------------------------------
(* Window operations                                                       *)

\* The m-th byte that waits, counted back from the write index: the bytes that wait
\* lie in one row, or go on from the end of the window at its start.
IsInRow(W, r, w, n, m, N, L) ==
    LET j == w - (r + m - 1)
    IN  /\ {W, r, w, n, m, N, L} \subseteq Nat
        /\ w <= W /\ n <= w - r /\ L + (w - r) = N /\ 1 <= m /\ m <= n
        => /\ j \in 1 .. W /\ j <= N /\ N - j + 1 = m + L
           /\ ~ (w < j) /\ w - j = r + m - 1
\* (IsInRow holds of all numbers.)
LEMMA BackInRow == \A W, r, w, n, m, N, L : IsInRow(W, r, w, n, m, N, L)
BY DEF IsInRow

IsBeforeEnd(W, r, w, n, m, N, L) ==
    LET j == w + W - (r + m - 1)
    IN  /\ {W, r, w, n, m, N, L} \subseteq Nat
        /\ w < r /\ r + n <= W /\ L + (W - r + w) = N /\ 1 <= m /\ m <= n
        => /\ j \in 1 .. W /\ j <= N /\ N - j + 1 = m + L
           /\ w < j /\ W - (j - w) = r + m - 1
\* (IsBeforeEnd holds of all numbers.)
LEMMA BackBeforeEnd == \A W, r, w, n, m, N, L : IsBeforeEnd(W, r, w, n, m, N, L)
BY DEF IsBeforeEnd

\* What inflate_flush leaves alone.
Frame(s, t) ==
    /\ t.stream = s.stream /\ t.item = s.item /\ t.step = s.step /\ t.mode = s.mode
    /\ t.last = s.last /\ t.left = s.left /\ t.k = s.k /\ t.window = s.window
    /\ t.in = s.in /\ t.base = s.base /\ t.avail = s.avail
    /\ t.inCall = s.inCall /\ t.f = s.f /\ t.ret = s.ret

LEMMA DeliverFields ==
    ASSUME NEW s \in State, NEW n \in Nat, n <= s.room, s.read + n <= WindowSize
    PROVE  /\ Deliver(s, n) \in State
           /\ Frame(s, Deliver(s, n))
           /\ Deliver(s, n).read = s.read + n /\ Deliver(s, n).write = s.write
           /\ Deliver(s, n).room = s.room - n
           /\ Deliver(s, n).r = IF n > 0 /\ s.r = "buf" THEN "ok" ELSE s.r
           /\ Deliver(s, n).out = s.out \o Piece(s, n)
           /\ Piece(s, n) \in Seq(Octet) /\ Len(Piece(s, n)) = n
           /\ \A i \in 1 .. n : Piece(s, n)[i] = s.window[s.read + i - 1]
<1> DEFINE t == Deliver(s, n)
           piece == Piece(s, n)
<1>1. s.read \in Nat /\ WindowSize \in Nat /\ s.out \in Seq(Octet) /\ s.room \in Nat
  BY WindowAssumption DEF State
<1>2. \A i \in 1 .. n : s.window[s.read + i - 1] \in Octet
  <2> TAKE i \in 1 .. n
  <2>1. s.read + i - 1 \in 0 .. WindowSize - 1
    BY <1>1
  <2> QED
    BY <2>1 DEF State
<1>3. piece \in [1 .. n -> Octet] /\ \A i \in 1 .. n : piece[i] = s.window[s.read + i - 1]
  BY <1>2 DEF Piece
<1>4. piece \in Seq(Octet) /\ Len(piece) = n
  <2> HIDE DEF piece
  <2> QED
    BY <1>3
<1>5. s.out \o piece \in Seq(Octet)
  BY <1>1, <1>4, ConcatProperties
<1>6. /\ s.read + n \in 0 .. WindowSize /\ s.room - n \in Nat
  BY <1>1
<1>7. Frame(s, t)
  BY DEF Frame, Deliver, State
<1>8. /\ t.read = s.read + n /\ t.write = s.write /\ t.room = s.room - n
      /\ t.r = IF n > 0 /\ s.r = "buf" THEN "ok" ELSE s.r
      /\ t.out = s.out \o piece
  BY DEF Deliver, State
<1>9. t \in State
  <2> HIDE DEF piece
  <2>1. t = [s EXCEPT !.out = s.out \o piece, !.read = s.read + n, !.room = s.room - n,
              !.r = IF n > 0 /\ s.r = "buf" THEN "ok" ELSE s.r]
    BY DEF Deliver, piece
  <2> HIDE DEF t
  <2> QED
    BY <1>5, <1>6, <2>1 DEF State, Result
<1> QED
  BY <1>3, <1>4, <1>7, <1>8, <1>9

LEMMA DeliverKeeps ==
    ASSUME NEW s \in State, NEW n \in Nat, n <= s.room,
           n <= IF s.read <= s.write THEN s.write - s.read ELSE WindowSize - s.read,
           NEW D, NEW N \in Nat, Sent(s, D, N), Kept(s, D, N)
    PROVE  Sent(Deliver(s, n), D, N) /\ Kept(Deliver(s, n), D, N)
<1> DEFINE t == Deliver(s, n)
           piece == Piece(s, n)
           L == Len(s.out)
<1>1. /\ s.read \in Nat /\ s.write \in Nat /\ WindowSize \in Nat /\ s.out \in Seq(Octet)
      /\ s.read <= WindowSize /\ s.write <= WindowSize /\ L \in Nat /\ N \in Nat
  BY WindowAssumption DEF State
<1>2. s.read + n <= WindowSize
  BY <1>1
<1>3. /\ t.read = s.read + n /\ t.write = s.write /\ t.window = s.window
      /\ t.out = s.out \o piece /\ piece \in Seq(Octet) /\ Len(piece) = n
      /\ \A i \in 1 .. n : piece[i] = s.window[s.read + i - 1]
  BY <1>2, DeliverFields DEF Frame
<1> HIDE DEF t, piece
<1>4. Kept(t, D, N)
  BY <1>3 DEF Kept, Back
<1>5. /\ Len(t.out) = L + n
      /\ \A i \in 1 .. L + n : t.out[i] = IF i <= L THEN s.out[i] ELSE piece[i - L]
  <2>1. /\ Len(s.out \o piece) = L + n
        /\ \A i \in 1 .. L + n : (s.out \o piece)[i] = IF i <= L THEN s.out[i] ELSE piece[i - L]
    BY <1>1, <1>3, ConcatProperties
  <2> QED
    BY <1>3, <2>1
<1>w. L + PendingLen(s) = N
  BY DEF Sent
<1>x. t.read = s.read + n /\ t.write = s.write /\ Len(t.out) = L + n
  BY <1>3, <1>5
<1>y. PendingLen(t) = PendingLen(s) - n
  <2>1. CASE s.read <= s.write
    <3>1. n <= s.write - s.read
      BY <2>1
    <3>2. PendingLen(t) = s.write - (s.read + n)
      BY <1>1, <1>x, <2>1, <3>1 DEF PendingLen
    <3>3. PendingLen(s) = s.write - s.read
      BY <2>1 DEF PendingLen
    <3> QED
      BY <1>1, <3>2, <3>3
  <2>2. CASE ~ (s.read <= s.write)
    <3>1. PendingLen(t) = WindowSize - (s.read + n) + s.write
      BY <1>1, <1>2, <1>x, <2>2 DEF PendingLen
    <3>2. PendingLen(s) = WindowSize - s.read + s.write
      BY <2>2 DEF PendingLen
    <3> QED
      BY <1>1, <3>1, <3>2
  <2> QED
    BY <2>1, <2>2
<1>z. PendingLen(s) \in Nat
  BY <1>1 DEF PendingLen
<1>6. Len(t.out) + PendingLen(t) = N
  BY <1>1, <1>w, <1>x, <1>y, <1>z
<1>7. ASSUME NEW i \in 1 .. L + n PROVE t.out[i] = D[i]
  <2>1. CASE i <= L
    BY <1>1, <1>5, <2>1 DEF Sent
  <2>2. CASE i > L
    <3> DEFINE m == i - L
               j == IF s.read <= s.write THEN s.write - (s.read + m - 1)
                    ELSE s.write + WindowSize - (s.read + m - 1)
    <3>1. m \in 1 .. n /\ t.out[i] = s.window[s.read + m - 1]
      <4>1. m \in 1 .. n
        BY <1>1, <2>2
      <4>2. t.out[i] = piece[m]
        BY <1>5, <1>1, <2>2
      <4> HIDE DEF m
      <4> QED
        BY <1>3, <4>1, <4>2
    <3>2. j \in 1 .. WindowSize /\ j <= N /\ Back(s, j) = s.read + m - 1
          /\ N - j + 1 = i
      <4>1. m \in Int /\ 1 <= m /\ m <= n /\ i = m + L
        BY <1>1, <2>2
      <4> HIDE DEF m
      <4>2. CASE s.read <= s.write
        <5>1. n <= s.write - s.read /\ j = s.write - (s.read + m - 1)
          BY <4>2
        <5> HIDE DEF j
        <5>2. L + (s.write - s.read) = N /\ n <= s.write - s.read
          BY <1>w, <4>2 DEF PendingLen
        <5>3. /\ s.read \in Nat /\ s.write \in Nat /\ WindowSize \in Nat /\ N \in Nat /\ L \in Nat
              /\ m \in Nat /\ n \in Nat /\ 1 <= m /\ m <= n /\ i = m + L
              /\ s.write <= WindowSize
          BY <1>1, <4>1
        <5>4. IsInRow(WindowSize, s.read, s.write, n, m, N, L)
          BY BackInRow, Zenon
        <5>5. /\ j \in 1 .. WindowSize /\ j <= N /\ N - j + 1 = i
              /\ ~ (s.write < j) /\ s.write - j = s.read + m - 1
          BY <5>1, <5>2, <5>3, <5>4 DEF IsInRow
        <5> QED
          BY <5>5, Zenon DEF Back
      <4>3. CASE ~ (s.read <= s.write)
        <5>1. j = s.write + WindowSize - (s.read + m - 1)
          BY <4>3
        <5> HIDE DEF j
        <5>2. L + (WindowSize - s.read + s.write) = N
          BY <1>w, <4>3 DEF PendingLen
        <5>3. /\ s.read \in Nat /\ s.write \in Nat /\ WindowSize \in Nat /\ N \in Nat /\ L \in Nat
              /\ m \in Nat /\ n \in Nat /\ 1 <= m /\ m <= n /\ i = m + L
              /\ s.write < s.read /\ s.read + n <= WindowSize
          BY <1>1, <1>2, <4>1, <4>3
        <5>4. IsBeforeEnd(WindowSize, s.read, s.write, n, m, N, L)
          BY BackBeforeEnd, Zenon
        <5>5. /\ j \in 1 .. WindowSize /\ j <= N /\ N - j + 1 = i
              /\ s.write < j /\ WindowSize - (j - s.write) = s.read + m - 1
          BY <5>1, <5>2, <5>3, <5>4 DEF IsBeforeEnd
        <5> QED
          BY <5>5, Zenon DEF Back
      <4> QED
        BY <4>2, <4>3
    <3> HIDE DEF m, j
    <3> QED
      BY <3>1, <3>2 DEF Kept
  <2> QED
    BY <1>1, <2>1, <2>2
<1> QED
  BY <1>4, <1>5, <1>6, <1>7 DEF Sent, t

\* From the end of the window to its start.
LEMMA WrapKeeps ==
    ASSUME NEW s \in State, s.read # WindowSize,
           NEW D, NEW N \in Nat, Sent(s, D, N), Kept(s, D, N)
    PROVE  /\ Wrap(s) \in State /\ Frame(s, Wrap(s))
           /\ Wrap(s).read = s.read /\ Wrap(s).room = s.room /\ Wrap(s).r = s.r
           /\ Wrap(s).out = s.out
           /\ Wrap(s).write = IF s.write = WindowSize /\ s.read # 0 THEN 0 ELSE s.write
           /\ Sent(Wrap(s), D, N) /\ Kept(Wrap(s), D, N)
<1>1. /\ s.read \in Nat /\ s.write \in Nat /\ WindowSize \in Nat \ {0} /\ s.out \in Seq(Octet)
      /\ s.read < WindowSize /\ s.write <= WindowSize /\ N \in Nat
  BY WindowAssumption DEF State
<1>2. CASE s.write = WindowSize /\ s.read # 0
  <2> DEFINE t == [s EXCEPT !.write = 0]
  <2>1. Wrap(s) = t
    BY <1>2 DEF Wrap
  <2>t. t = [s EXCEPT !.write = 0]
    OBVIOUS
  <2>2. t \in State
    <3> HIDE DEF t
    <3>1. 0 \in 0 .. WindowSize
      BY <1>1
    <3> QED
      BY <2>t, <3>1 DEF State
  <2>3. /\ Frame(s, t) /\ t.read = s.read /\ t.room = s.room /\ t.r = s.r /\ t.out = s.out
        /\ t.write = 0 /\ t.window = s.window
    BY DEF State, Frame
  <2> HIDE DEF t
  <2>4. Sent(t, D, N)
    BY <1>1, <1>2, <2>3 DEF Sent, PendingLen
  <2>5. \A j \in 1 .. WindowSize : Back(t, j) = Back(s, j)
    BY <1>1, <1>2, <2>3 DEF Back
  <2>6. Kept(t, D, N)
    BY <2>3, <2>5 DEF Kept
  <2> QED
    BY <1>2, <2>1, <2>2, <2>3, <2>4, <2>6
<1>3. CASE ~ (s.write = WindowSize /\ s.read # 0)
  BY <1>3 DEF Wrap, Frame
<1> QED
  BY <1>2, <1>3

LEMMA FlushKeeps ==
    ASSUME NEW s \in State, s.read # WindowSize,
           NEW D, NEW N \in Nat, Sent(s, D, N), Kept(s, D, N)
    PROVE  /\ Flush(s) \in State /\ Frame(s, Flush(s))
           /\ Flush(s).read # WindowSize
           /\ Flush(s).r \in {s.r} \cup (IF s.r = "buf" THEN {"ok"} ELSE {})
           /\ Sent(Flush(s), D, N) /\ Kept(Flush(s), D, N)
           /\ Flush(s).room = 0 \/ Flush(s).read = Flush(s).write
           /\ s.room = 0 => Flush(s).room = 0
<1> DEFINE n == Min({s.room, IF s.read <= s.write THEN s.write - s.read
                             ELSE WindowSize - s.read})
           t == Deliver(s, n)
           u == [t EXCEPT !.read = 0, !.write = IF t.write = WindowSize THEN 0 ELSE t.write]
           m == Min({u.room, u.write})
<1>1. /\ s.read \in Nat /\ s.write \in Nat /\ WindowSize \in Nat \ {0} /\ s.out \in Seq(Octet)
      /\ s.read < WindowSize /\ s.write <= WindowSize /\ N \in Nat /\ s.room \in Nat
  BY WindowAssumption DEF State
<1>2. n = LET waits == IF s.read <= s.write THEN s.write - s.read ELSE WindowSize - s.read
          IN  IF s.room <= waits THEN s.room ELSE waits
  <2> DEFINE waits == IF s.read <= s.write THEN s.write - s.read ELSE WindowSize - s.read
  <2>1. waits \in Int
    BY <1>1
  <2> HIDE DEF waits
  <2>2. Min({s.room, waits}) = IF s.room <= waits THEN s.room ELSE waits
    BY <1>1, <2>1, MinOfTwo
  <2> QED
    BY <2>2 DEF waits
<1>3. Flush(s) = IF t.read = WindowSize THEN Deliver(u, m) ELSE t
  BY DEF Flush
<1> HIDE DEF n
<1>4. /\ n \in Nat /\ n <= s.room /\ s.read + n <= WindowSize
      /\ n <= IF s.read <= s.write THEN s.write - s.read ELSE WindowSize - s.read
  BY <1>1, <1>2
<1>5. /\ t \in State /\ Frame(s, t) /\ t.read = s.read + n /\ t.write = s.write
      /\ t.room = s.room - n /\ t.r = IF n > 0 /\ s.r = "buf" THEN "ok" ELSE s.r
  BY <1>4, DeliverFields
<1>6. Sent(t, D, N) /\ Kept(t, D, N)
  BY <1>4, DeliverKeeps
<1> HIDE DEF t
<1>7. CASE t.read # WindowSize
  <2>1. Flush(s) = t
    BY <1>3, <1>7
  <2>2. t.room = 0 \/ t.read = t.write
    BY <1>1, <1>2, <1>5, <1>7
  <2> QED
    BY <1>1, <1>4, <1>5, <1>6, <1>7, <2>1, <2>2
<1>8. CASE t.read = WindowSize
  <2>t. u = [t EXCEPT !.read = 0, !.write = IF t.write = WindowSize THEN 0 ELSE t.write]
    OBVIOUS
  <2>1. u \in State
    <3> HIDE DEF u
    <3>1. 0 \in 0 .. WindowSize /\ (IF t.write = WindowSize THEN 0 ELSE t.write) \in 0 .. WindowSize
      BY <1>1, <1>5
    <3> QED
      BY <1>5, <2>t, <3>1 DEF State
  <2>2. /\ Frame(t, u) /\ u.read = 0 /\ u.room = t.room /\ u.r = t.r /\ u.out = t.out
        /\ u.write = IF t.write = WindowSize THEN 0 ELSE t.write
        /\ u.window = t.window
    BY <1>5 DEF State, Frame
  <2>3. Flush(s) = Deliver(u, m)
    BY <1>3, <1>8
  <2> HIDE DEF u
  <2>4. Sent(u, D, N)
    BY <1>1, <1>5, <1>6, <1>8, <2>2 DEF Sent, PendingLen
  <2>5. \A j \in 1 .. WindowSize : Back(u, j) = Back(t, j)
    BY <1>1, <1>5, <2>2 DEF Back
  <2>6. Kept(u, D, N)
    BY <1>6, <2>2, <2>5 DEF Kept
  <2>7. u.room \in Nat /\ u.write \in Nat /\ u.write < WindowSize
    BY <1>1, <1>4, <1>5, <2>2
  <2>8. m = IF u.room <= u.write THEN u.room ELSE u.write
    BY <2>7, MinOfTwo
  <2> HIDE DEF m
  <2>9. /\ m \in Nat /\ m <= u.room /\ u.read + m <= WindowSize
        /\ m <= IF u.read <= u.write THEN u.write - u.read ELSE WindowSize - u.read
    <3>1. u.read = 0 /\ WindowSize \in Nat
      BY <1>1, <2>2
    <3>2. m \in Nat /\ m <= u.room /\ m <= u.write
      BY <2>7, <2>8
    <3> QED
      BY <2>7, <3>1, <3>2
  <2> DEFINE v == Deliver(u, m)
  <2>10. /\ v \in State /\ Frame(u, v) /\ v.read = u.read + m /\ v.write = u.write
         /\ v.room = u.room - m /\ v.r = IF m > 0 /\ u.r = "buf" THEN "ok" ELSE u.r
    BY <2>1, <2>9, DeliverFields
  <2>11. Sent(v, D, N) /\ Kept(v, D, N)
    BY <2>1, <2>4, <2>6, <2>9, DeliverKeeps
  <2> HIDE DEF v
  <2>12. Frame(s, v)
    BY <1>5, <2>2, <2>10 DEF Frame
  <2>13. v.r \in {s.r} \cup (IF s.r = "buf" THEN {"ok"} ELSE {})
    BY <1>5, <2>2, <2>10
  <2>14. /\ v.read # WindowSize /\ (v.room = 0 \/ v.read = v.write)
         /\ v.write # WindowSize /\ (s.room = 0 => v.room = 0)
    <3>1. /\ v.read = m /\ v.write = u.write /\ v.room = u.room - m /\ m \in Nat
          /\ WindowSize \in Nat
      BY <1>1, <2>2, <2>9, <2>10
    <3>2. v.read # WindowSize /\ v.write # WindowSize
      BY <2>7, <2>8, <3>1
    <3>3. v.room = 0 \/ v.read = v.write
      BY <2>7, <2>8, <3>1
    <3>4. s.room = 0 => v.room = 0
      <4> SUFFICES ASSUME s.room = 0 PROVE v.room = 0
        OBVIOUS
      <4>1. n = 0
        BY <1>4
      <4>2. u.room = 0
        BY <1>5, <2>2, <4>1
      <4> QED
        BY <2>7, <2>8, <3>1, <4>2
    <3> QED
      BY <3>2, <3>3, <3>4
  <2> QED
    BY <2>3, <2>10, <2>11, <2>12, <2>13, <2>14 DEF v
<1> QED
  BY <1>7, <1>8

\* NEEDOUT finds room, or fills all room for output.
LEMMA NeedOutKeeps ==
    ASSUME NEW s \in State, s.read # WindowSize,
           NEW D, NEW N \in Nat, Sent(s, D, N), Kept(s, D, N)
    PROVE  /\ NeedOut(s) \in State /\ Frame(s, NeedOut(s))
           /\ NeedOut(s).read # WindowSize
           /\ NeedOut(s).r \in {s.r} \cup (IF s.r = "buf" THEN {"ok"} ELSE {})
           /\ Sent(NeedOut(s), D, N) /\ Kept(NeedOut(s), D, N)
           /\ Space(NeedOut(s)) > 0 \/ NeedOut(s).room = 0
<1> DEFINE w == Wrap(s)
           f == Flush(w)
           g == Wrap(f)
<1>1. /\ w \in State /\ Frame(s, w) /\ w.read = s.read /\ w.room = s.room /\ w.r = s.r
      /\ Sent(w, D, N) /\ Kept(w, D, N)
  BY WrapKeeps
<1>2. NeedOut(s) = IF Space(w) > 0 THEN w ELSE g
  BY DEF NeedOut
<1> HIDE DEF w
<1>3. CASE Space(w) > 0
  BY <1>1, <1>2, <1>3
<1>4. CASE ~ (Space(w) > 0)
  <2>1. /\ f \in State /\ Frame(w, f) /\ f.read # WindowSize
        /\ f.r \in {w.r} \cup (IF w.r = "buf" THEN {"ok"} ELSE {})
        /\ Sent(f, D, N) /\ Kept(f, D, N)
        /\ f.room = 0 \/ f.read = f.write
    BY <1>1, FlushKeeps
  <2> HIDE DEF f
  <2>2. /\ g \in State /\ Frame(f, g) /\ g.read = f.read /\ g.room = f.room /\ g.r = f.r
        /\ g.write = IF f.write = WindowSize /\ f.read # 0 THEN 0 ELSE f.write
        /\ Sent(g, D, N) /\ Kept(g, D, N)
    BY <2>1, WrapKeeps
  <2>3. NeedOut(s) = g
    BY <1>2, <1>4
  <2> HIDE DEF g
  <2>4. Frame(s, g)
    BY <1>1, <2>1, <2>2 DEF Frame
  <2>5. Space(g) > 0 \/ g.room = 0
    <3> SUFFICES ASSUME g.room # 0 PROVE Space(g) > 0
      OBVIOUS
    <3>1. f.read = f.write /\ f.write # WindowSize
      BY <2>1, <2>2
    <3>2. g.write = g.read /\ g.read \in Nat /\ g.read < WindowSize /\ WindowSize \in Nat
      <4>1. f.read \in 0 .. WindowSize /\ g.read = f.read
        BY <2>1, <2>2 DEF State
      <4>2. g.write = f.write
        BY <2>2, <3>1
      <4> QED
        BY <2>1, <3>1, <4>1, <4>2, WindowAssumption
    <3> QED
      BY <3>2 DEF Space
  <2> QED
    BY <1>1, <2>1, <2>2, <2>3, <2>4, <2>5
<1> QED
  BY <1>3, <1>4

\* The place of a byte that has just been put, counted back from the new write index.
NewIsPlaced(W, w, m, N, j) ==
    {W, w, m, N} \subseteq Nat /\ j \in 1 .. W /\ j <= m /\ w + m <= W =>
        /\ (w + m) - j \in 0 .. W - 1 /\ (w + m) - j \in w .. w + m - 1
        /\ ((w + m) - j) - w + 1 = m - j + 1
        /\ m - j + 1 \in 1 .. m /\ (N + m) - j + 1 = N + (m - j + 1)
IndexOfNew(w, m, i) ==
    w \in Nat /\ m \in Nat /\ i \in w .. w + m - 1 => i - w + 1 \in 1 .. m
\* (Both hold of all numbers.)
LEMMA PlaceOfNew == /\ \A W, w, m, N, j : NewIsPlaced(W, w, m, N, j)
                    /\ \A w, m, i : IndexOfNew(w, m, i)
BY DEF NewIsPlaced, IndexOfNew

\* A byte that was there before the last m stays where it was, outside their places.
OldIsPlaced(W, w, m, N, j) ==
    {W, w, m, N} \subseteq Nat /\ j \in 1 .. W /\ j > m /\ w + m <= W /\ j <= N + m =>
        /\ j - m \in 1 .. W /\ j - m <= N /\ (N + m) - j + 1 = N - (j - m) + 1
        /\ w < j - m => /\ w + m < j
                       /\ W - (j - (w + m)) = W - ((j - m) - w)
                       /\ W - ((j - m) - w) \in 0 .. W - 1
                       /\ w + m <= W - ((j - m) - w)
        /\ ~ (w < j - m) => /\ ~ (w + m < j)
                           /\ (w + m) - j = w - (j - m)
                           /\ w - (j - m) \in 0 .. W - 1
                           /\ w - (j - m) < w
\* (OldIsPlaced holds of all numbers.)
LEMMA PlaceOfOld == \A W, w, m, N, j : OldIsPlaced(W, w, m, N, j)
BY DEF OldIsPlaced

\* Bytes are put behind those that wait, and D goes on with them.
LEMMA PutAllKeeps ==
    ASSUME NEW s \in State, s.read # WindowSize,
           NEW bytes \in Seq(Octet), Len(bytes) <= Space(s),
           NEW D, NEW N \in Nat, Sent(s, D, N), Kept(s, D, N),
           \A i \in 1 .. Len(bytes) : D[N + i] = bytes[i]
    PROVE  /\ PutAll(s, bytes) \in State
           /\ PutAll(s, bytes) = [s EXCEPT !.window = PutAll(s, bytes).window,
                                           !.write = s.write + Len(bytes)]
           /\ Space(PutAll(s, bytes)) = Space(s) - Len(bytes)
           /\ Sent(PutAll(s, bytes), D, N + Len(bytes))
           /\ Kept(PutAll(s, bytes), D, N + Len(bytes))
<1> DEFINE t == PutAll(s, bytes)
           m == Len(bytes)
           w == [i \in 0 .. WindowSize - 1 |->
                    IF i \in s.write .. s.write + m - 1 THEN bytes[i - s.write + 1]
                    ELSE s.window[i]]
<1>1. /\ s.read \in Nat /\ s.write \in Nat /\ WindowSize \in Nat \ {0}
      /\ s.read < WindowSize /\ s.write <= WindowSize /\ m \in Nat
      /\ s.window \in [0 .. WindowSize - 1 -> Octet]
      /\ s.out \in Seq(Octet) /\ Len(s.out) \in Nat
  BY WindowAssumption DEF State
<1>p. /\ s.read \in Nat /\ s.write \in Nat /\ WindowSize \in Nat \ {0}
      /\ s.read < WindowSize /\ s.write <= WindowSize /\ m \in Nat
      /\ Len(s.out) \in Nat /\ m <= Space(s)
  BY <1>1
<1>2. t = [s EXCEPT !.window = w, !.write = s.write + m]
  BY <1>1 DEF PutAll
<1>3. \A i \in 1 .. m : bytes[i] \in Octet
  BY ElementOfSeq
<1> HIDE DEF m
<1>4. w \in [0 .. WindowSize - 1 -> Octet]
  <2> SUFFICES ASSUME NEW i \in 0 .. WindowSize - 1
               PROVE  (IF i \in s.write .. s.write + m - 1 THEN bytes[i - s.write + 1]
                       ELSE s.window[i]) \in Octet
    OBVIOUS
  <2>1. CASE i \in s.write .. s.write + m - 1
    <3>1. i - s.write + 1 \in 1 .. m
      <4>1. IndexOfNew(s.write, m, i)
        BY PlaceOfNew, Zenon
      <4> QED
        BY <1>p, <2>1, <4>1, Zenon DEF IndexOfNew
    <3> QED
      BY <1>3, <2>1, <3>1
  <2> QED
    BY <1>1, <2>1
<1>5. s.write + m <= WindowSize /\ (s.write < s.read => s.write + m < s.read)
  <2>1. Space(s) = IF s.write < s.read THEN s.read - s.write - 1 ELSE WindowSize - s.write
    BY DEF Space
  <2> DEFINE room == Space(s)
  <2>2. room = IF s.write < s.read THEN s.read - s.write - 1 ELSE WindowSize - s.write
    BY <2>1
  <2>3. m <= room
    BY <1>p
  <2> HIDE DEF room
  <2> QED
    BY <1>p, <2>2, <2>3
<1>6. t \in State
  <2> HIDE DEF t, w
  <2>1. s.write + m \in 0 .. WindowSize
    BY <1>p, <1>5
  <2> QED
    BY <1>2, <1>4, <2>1 DEF State
<1>7. /\ t.window = w /\ t.write = s.write + m /\ t.read = s.read /\ t.out = s.out
  BY <1>2 DEF State
<1>q. t.write = s.write + m
  BY <1>7
<1>8. t = [s EXCEPT !.window = t.window, !.write = s.write + m]
  BY <1>2, <1>7
<1> HIDE DEF t
<1>9. Space(t) = Space(s) - m
  <2>1. CASE s.write < s.read
    BY <1>p, <1>5, <1>7, <2>1 DEF Space
  <2>2. CASE ~ (s.write < s.read)
    BY <1>p, <1>5, <1>7, <2>2 DEF Space
  <2> QED
    BY <2>1, <2>2
<1>10. Sent(t, D, N + m)
  <2>1. PendingLen(t) = PendingLen(s) + m /\ PendingLen(s) \in Nat
    <3>1. CASE s.write < s.read
      BY <1>p, <1>5, <1>7, <3>1 DEF PendingLen
    <3>2. CASE ~ (s.write < s.read)
      BY <1>p, <1>5, <1>7, <3>2 DEF PendingLen
    <3> QED
      BY <3>1, <3>2
  <2>2. Len(s.out) + PendingLen(s) = N /\ \A i \in 1 .. Len(s.out) : s.out[i] = D[i]
    BY DEF Sent
  <2>3. Len(t.out) + PendingLen(t) = N + m
    BY <1>p, <1>7, <2>1, <2>2
  <2> QED
    BY <1>7, <2>2, <2>3 DEF Sent
<1>11. Kept(t, D, N + m)
  <2> HIDE DEF w
  <2> SUFFICES ASSUME NEW j \in 1 .. WindowSize, j <= N + m
               PROVE  t.window[Back(t, j)] = D[(N + m) - j + 1]
    BY Zenon DEF Kept
  <2> DEFINE p == Back(t, j)
  <2>1. p = IF s.write + m < j THEN WindowSize - (j - (s.write + m)) ELSE (s.write + m) - j
    BY <1>q DEF Back
  <2>2. CASE j <= m
    <3>1. p = (s.write + m) - j
      BY <1>p, <2>1, <2>2
    <3> HIDE DEF p
    <3> DEFINE h == m - j + 1
    <3>2. /\ p \in 0 .. WindowSize - 1 /\ p \in s.write .. s.write + m - 1
          /\ p - s.write + 1 = h /\ h \in 1 .. m /\ (N + m) - j + 1 = N + h
      <4>1. WindowSize \in Nat
        BY <1>p
      <4>2. /\ (s.write + m) - j \in 0 .. WindowSize - 1
            /\ (s.write + m) - j \in s.write .. s.write + m - 1
            /\ ((s.write + m) - j) - s.write + 1 = m - j + 1
            /\ m - j + 1 \in 1 .. m /\ (N + m) - j + 1 = N + (m - j + 1)
        <5>1. NewIsPlaced(WindowSize, s.write, m, N, j)
          BY PlaceOfNew, Zenon
        <5>2. {WindowSize, s.write, m, N} \subseteq Nat
          BY <1>p, <4>1
        <5> QED
          BY <1>5, <2>2, <5>1, <5>2, Zenon DEF NewIsPlaced
      <4> QED
        BY <3>1, <4>2, Zenon
    <3> HIDE DEF h
    <3>3. w[p] = bytes[h]
      BY <3>2 DEF w
    <3>4. bytes[h] = D[N + h]
      BY <3>2 DEF m
    <3> QED
      BY <1>7, <3>2, <3>3, <3>4 DEF p
  <2>3. CASE j > m
    <3> DEFINE h == j - m
               back == IF s.write < h THEN WindowSize - (h - s.write) ELSE s.write - h
    <3>0. WindowSize \in Nat
      BY <1>p
    <3>1. /\ h \in 1 .. WindowSize /\ h <= N /\ (N + m) - j + 1 = N - h + 1
          /\ s.write < h => /\ s.write + m < j
                           /\ WindowSize - (j - (s.write + m)) = WindowSize - (h - s.write)
                           /\ WindowSize - (h - s.write) \in 0 .. WindowSize - 1
                           /\ s.write + m <= WindowSize - (h - s.write)
          /\ ~ (s.write < h) => /\ ~ (s.write + m < j)
                               /\ (s.write + m) - j = s.write - h
                               /\ s.write - h \in 0 .. WindowSize - 1
                               /\ s.write - h < s.write
      <4>1. OldIsPlaced(WindowSize, s.write, m, N, j)
        BY PlaceOfOld, Zenon
      <4>2. {WindowSize, s.write, m, N} \subseteq Nat
        BY <1>p, <3>0
      <4> QED
        BY <1>5, <2>3, <4>1, <4>2, Zenon DEF OldIsPlaced
    <3> HIDE DEF h
    <3>2. s.window[Back(s, h)] = D[N - h + 1]
      BY <3>1 DEF Kept
    <3>b. Back(s, h) = back
      BY DEF Back
    <3>3. p = Back(s, h) /\ p \in 0 .. WindowSize - 1 /\ p \notin s.write .. s.write + m - 1
      <4>1. p = back
        BY <2>1, <3>1, Zenon
      <4> HIDE DEF p
      <4>2. back \in 0 .. WindowSize - 1 /\ (s.write + m <= back \/ back < s.write)
        BY <3>1, Zenon
      <4> HIDE DEF back
      <4>3. back \notin s.write .. s.write + m - 1
        BY <1>p, <4>2
      <4> QED
        BY <3>b, <4>1, <4>2, <4>3, Zenon
    <3> HIDE DEF p, back
    <3>4. t.window[p] = s.window[p]
      BY <1>1, <1>7, <3>3 DEF w
    <3> QED
      BY <3>1, <3>2, <3>3, <3>4 DEF p
  <2> QED
    BY <1>p, <2>2, <2>3
<1> QED
  BY <1>6, <1>8, <1>9, <1>10, <1>11 DEF t, m

LEMMA PutKeeps ==
    ASSUME NEW s \in State, s.read # WindowSize, Space(s) > 0,
           NEW D, NEW N \in Nat, Sent(s, D, N), Kept(s, D, N), NEW x \in Octet, D[N + 1] = x
    PROVE  /\ Put(s, x) \in State
           /\ Sent(Put(s, x), D, N + 1)
           /\ Kept(Put(s, x), D, N + 1)
<1> DEFINE bytes == <<x>>
<1>1. /\ s.read \in Nat /\ s.write \in Nat /\ WindowSize \in Nat \ {0}
      /\ s.read < WindowSize /\ s.write <= WindowSize
      /\ s.window \in [0 .. WindowSize - 1 -> Octet]
  BY WindowAssumption DEF State
<1>2. s.write \in 0 .. WindowSize - 1 /\ Space(s) \in Int
  BY <1>1 DEF Space
<1>4. bytes \in Seq(Octet) /\ Len(bytes) = 1 /\ bytes[1] = x
  OBVIOUS
<1> HIDE DEF bytes
<1>5. PutAll(s, bytes) = Put(s, x)
  <2> DEFINE v0 == [i \in 0 .. WindowSize - 1 |->
                      IF i \in s.write .. s.write + 1 - 1 THEN bytes[i - s.write + 1]
                      ELSE s.window[i]]
             v == [s.window EXCEPT ![s.write] = x]
  <2>1. \A i \in 0 .. WindowSize - 1 : v0[i] = v[i]
    <3> SUFFICES ASSUME NEW i \in 0 .. WindowSize - 1 PROVE v0[i] = v[i]
      OBVIOUS
    <3>1. CASE i = s.write
      <4>1. i \in s.write .. s.write + 1 - 1 /\ i - s.write + 1 = 1
        BY <1>1, <3>1
      <4> QED
        BY <1>1, <1>2, <1>4, <3>1, <4>1
    <3>2. CASE i # s.write
      <4>1. i \notin s.write .. s.write + 1 - 1
        BY <1>1, <3>2
      <4> QED
        BY <1>1, <3>2, <4>1
    <3> QED
      BY <3>1, <3>2
  <2>2. v = [i \in 0 .. WindowSize - 1 |-> v[i]] /\ v0 = [i \in 0 .. WindowSize - 1 |-> v0[i]]
    BY <1>1
  <2>3. v0 = v
    <3> HIDE DEF v0, v
    <3> QED
      BY <2>1, <2>2
  <2>4. PutAll(s, bytes) = [s EXCEPT !.window = v0, !.write = s.write + 1]
    BY <1>1, <1>4 DEF PutAll
  <2>5. Put(s, x) = [s EXCEPT !.window = v, !.write = s.write + 1]
    BY DEF Put, State
  <2> HIDE DEF v0, v
  <2> QED
    BY <2>3, <2>4, <2>5
<1>6. \A i \in 1 .. Len(bytes) : D[N + i] = bytes[i]
  BY <1>4
<1>7. Len(bytes) <= Space(s)
  BY <1>2, <1>4
<1> DEFINE t == PutAll(s, bytes)
           m == Len(bytes)
<1>8. /\ t \in State
      /\ t = [s EXCEPT !.window = t.window, !.write = s.write + m]
      /\ Space(t) = Space(s) - m /\ Sent(t, D, N + m) /\ Kept(t, D, N + m)
  BY <1>4, <1>6, <1>7, PutAllKeeps
<1>9. t = Put(s, x) /\ m = 1
  BY <1>4, <1>5
<1> HIDE DEF t, m
<1> QED
  BY <1>8, <1>9

\* Where a match reads.
LEMMA SourceIs ==
    ASSUME NEW s \in State, NEW D, NEW N \in Nat, Kept(s, D, N),
           NEW dist \in 1 .. WindowSize, dist <= N
    PROVE  Source(s, dist) = D[N - dist + 1]
BY DEF Kept, Source, Back

\* The bytes of a match, one after the other.
CopiedTo(s, dist, n, f) ==
    f = [i \in 1 .. n + 1 |-> IF i = 1 THEN s ELSE Put(f[i - 1], Source(f[i - 1], dist))]

LEMMA CopiedExist ==
    ASSUME NEW s, NEW dist, NEW n \in Nat
    PROVE  \E f : CopiedTo(s, dist, n, f)
<1> DEFINE T == {k \in Nat : ~ \E f : CopiedTo(s, dist, k, f)}
           next(o, i) == IF i = 1 THEN s ELSE Put(o, Source(o, dist))
<1> SUFFICES ASSUME T # {} PROVE FALSE
  OBVIOUS
<1>1. PICK k \in T : \A j \in T : k <= j
  BY Least
<1>2. CASE k = 0
  <2> DEFINE f == [i \in 1 .. 0 + 1 |-> s]
  <2>1. \A i \in 1 .. 0 + 1 : i = 1
    OBVIOUS
  <2>2. f = [i \in 1 .. 0 + 1 |-> IF i = 1 THEN s ELSE Put(f[i - 1], Source(f[i - 1], dist))]
    BY <2>1
  <2>3. CopiedTo(s, dist, 0, f)
    BY <2>2 DEF CopiedTo
  <2> QED
    BY <1>1, <1>2, <2>3
<1>3. CASE k # 0
  <2>1. k \in Nat /\ k - 1 \in Nat /\ k - 1 \notin T /\ k - 1 + 1 = k
    BY <1>1, <1>3
  <2>2. PICK f : CopiedTo(s, dist, k - 1, f)
    BY <2>1
  <2> DEFINE g == [i \in 1 .. k + 1 |-> IF i = k + 1 THEN next(f[k], k + 1) ELSE f[i]]
  <2>3. f = [i \in 1 .. k |-> next(f[i - 1], i)]
    BY <2>1, <2>2 DEF CopiedTo
  <2>4. ASSUME NEW i \in 1 .. k + 1 PROVE g[i] = next(g[i - 1], i)
    <3>1. CASE i = k + 1
      <4>1. k \in 1 .. k + 1 /\ k # k + 1 /\ i - 1 = k
        BY <2>1, <1>3, <3>1
      <4>2. g[k] = f[k] /\ g[i] = next(f[k], k + 1)
        <5> HIDE DEF next
        <5> QED
          BY <4>1, <3>1
      <4> HIDE DEF g, next
      <4> QED
        BY <4>1, <4>2, <3>1
    <3>2. CASE i # k + 1
      <4>1. i \in 1 .. k /\ g[i] = f[i]
        <5> HIDE DEF next
        <5> QED
          BY <2>1, <3>2
      <4>2. f[i] = next(f[i - 1], i)
        <5> HIDE DEF next
        <5> QED
          BY <2>3, <4>1
      <4>3. CASE i = 1
        <5>1. next(f[i - 1], i) = next(g[i - 1], i)
          BY <4>3
        <5> HIDE DEF g, next
        <5> QED
          BY <4>1, <4>2, <5>1
      <4>4. CASE i # 1
        <5>1. i - 1 \in 1 .. k + 1 /\ i - 1 # k + 1
          BY <2>1, <4>1, <4>4
        <5>2. g[i - 1] = f[i - 1]
          <6> HIDE DEF next
          <6> QED
            BY <5>1
        <5> HIDE DEF g, next
        <5> QED
          BY <4>1, <4>2, <5>2
      <4> QED
        BY <4>3, <4>4
    <3> QED
      BY <3>1, <3>2
  <2>5. g = [i \in 1 .. k + 1 |-> g[i]]
    <3> HIDE DEF next
    <3> QED
      OBVIOUS
  <2>6. g = [i \in 1 .. k + 1 |-> next(g[i - 1], i)]
    <3> HIDE DEF g, next
    <3> QED
      BY <2>4, <2>5
  <2>7. CopiedTo(s, dist, k, g)
    <3> HIDE DEF g
    <3> QED
      BY <2>6 DEF CopiedTo
  <2> QED
    BY <1>1, <2>7
<1> QED
  BY <1>2, <1>3

LEMMA CopyAllKeeps ==
    ASSUME NEW s \in State, s.read # WindowSize,
           NEW len \in Nat, len <= Space(s), NEW dist \in 1 .. WindowSize,
           NEW D, NEW N \in Nat, Sent(s, D, N), Kept(s, D, N), dist <= N,
           \A i \in N + 1 .. N + len : D[i] \in Octet /\ D[i] = D[i - dist]
    PROVE  /\ CopyAll(s, len, dist) \in State
           /\ CopyAll(s, len, dist) = [s EXCEPT !.window = CopyAll(s, len, dist).window,
                                                !.write = s.write + len]
           /\ Space(CopyAll(s, len, dist)) = Space(s) - len
           /\ Sent(CopyAll(s, len, dist), D, N + len)
           /\ Kept(CopyAll(s, len, dist), D, N + len)
<1> DEFINE f == CHOOSE f : CopiedTo(s, dist, len, f)
           Good(i) == /\ f[i] \in State
                      /\ f[i] = [s EXCEPT !.window = f[i].window, !.write = s.write + (i - 1)]
                      /\ Space(f[i]) = Space(s) - (i - 1)
                      /\ Sent(f[i], D, N + (i - 1))
                      /\ Kept(f[i], D, N + (i - 1))
           T == {i \in Nat : i \in 1 .. len + 1 /\ ~ Good(i)}
<1>1. CopyAll(s, len, dist) = f[len + 1]
  BY DEF CopyAll, CopiedTo
<1>2. CopiedTo(s, dist, len, f)
  BY CopiedExist
<1> HIDE DEF f
<1>3. \A i \in 1 .. len + 1 : f[i] = IF i = 1 THEN s ELSE Put(f[i - 1], Source(f[i - 1], dist))
  BY <1>2 DEF CopiedTo
<1>4. s.write \in Nat /\ Space(s) \in Int /\ WindowSize \in Nat
  BY WindowAssumption DEF State, Space
<1>5. T = {}
  <2> SUFFICES ASSUME T # {} PROVE FALSE
    OBVIOUS
  <2>1. PICK i \in T : \A j \in T : i <= j
    <3> HIDE DEF Good
    <3> QED
      BY Least
  <2>2. i \in 1 .. len + 1 /\ ~ Good(i)
    BY <2>1
  <2>3. CASE i = 1
    <3>1. f[1] = s
      BY <1>3, <2>2, <2>3
    <3>2. s = [s EXCEPT !.window = s.window, !.write = s.write + (1 - 1)]
      <4> DEFINE c == s.write + (1 - 1)
      <4>1. c = s.write
        <5> HIDE DEF T
        <5> QED
          BY <1>4
      <4> HIDE DEF c
      <4>2. s = [s EXCEPT !.window = s.window, !.write = c]
        BY <4>1 DEF State
      <4> QED
        BY <4>2 DEF c
    <3>3. Good(1)
      <4>1. Space(s) = Space(s) - (1 - 1) /\ N + (1 - 1) = N
        <5> HIDE DEF T
        <5> QED
          BY <1>4
      <4> DEFINE o == f[1]
      <4>2. o = s
        BY <3>1
      <4> HIDE DEF o
      <4>3. /\ o \in State /\ o = [s EXCEPT !.window = o.window, !.write = s.write + (1 - 1)]
            /\ Space(o) = Space(s) - (1 - 1) /\ Sent(o, D, N + (1 - 1)) /\ Kept(o, D, N + (1 - 1))
        BY <3>2, <4>1, <4>2
      <4> QED
        BY <4>3 DEF o
    <3> QED
      BY <2>2, <2>3, <3>3
  <2>4. CASE i # 1
    <3> DEFINE h == i - 1
               n == N + (h - 1)
               t == f[h]
    <3>1. /\ h \in 1 .. len /\ h \in Nat /\ h \in 1 .. len + 1 /\ n \in Nat /\ N <= n
          /\ n + 1 \in N + 1 .. N + len /\ n + 1 = N + (i - 1) /\ h = i - 1
      <4> HIDE DEF Good
      <4> QED
        BY <2>2, <2>4
    <3>a. h \notin T
      <4> HIDE DEF Good
      <4> QED
        BY <2>1, <2>2, <2>4
    <3>2. Good(h)
      <4> HIDE DEF Good, h
      <4> QED
        BY <3>1, <3>a
    <3>3. /\ t \in State
          /\ t = [s EXCEPT !.window = t.window, !.write = s.write + (h - 1)]
          /\ Space(t) = Space(s) - (h - 1)
          /\ Sent(t, D, n)
          /\ Kept(t, D, n)
      BY <3>2
    <3>4. f[i] = Put(t, Source(t, dist))
      BY <1>3, <2>2, <2>4
    <3> HIDE DEF t, n, h, T
    <3>5. D[n + 1] \in Octet /\ D[n + 1] = D[n - dist + 1] /\ dist <= n
      <4>1. (n + 1) - dist = n - dist + 1 /\ dist <= n
        BY <1>4, <3>1
      <4>2. D[n + 1] \in Octet /\ D[n + 1] = D[(n + 1) - dist]
        BY <3>1
      <4> QED
        BY <4>1, <4>2
    <3>6. Source(t, dist) = D[n + 1]
      BY <3>1, <3>3, <3>5, SourceIs
    <3>7. t.read = s.read /\ t.write = s.write + (h - 1) /\ Space(t) > 0
      <4>1. t.read = s.read /\ t.write = s.write + (h - 1)
        BY <3>3 DEF State
      <4>2. Space(t) > 0
        BY <1>4, <3>1, <3>3
      <4> QED
        BY <4>1, <4>2
    <3> DEFINE x == D[n + 1]
               u == Put(t, x)
    <3>8. /\ u \in State
          /\ u = [t EXCEPT !.window = u.window, !.write = t.write + 1]
          /\ Space(u) = Space(t) - 1 /\ Sent(u, D, n + 1) /\ Kept(u, D, n + 1)
      <4>1. t \in State /\ t.read # WindowSize /\ Space(t) > 0 /\ n \in Nat
            /\ Sent(t, D, n) /\ Kept(t, D, n) /\ D[n + 1] = x /\ x \in Octet
        BY <3>1, <3>3, <3>5, <3>7
      <4> HIDE DEF x
      <4>2. /\ u \in State
            /\ Sent(u, D, n + 1) /\ Kept(u, D, n + 1)
        BY <4>1, PutKeeps
      <4>3. u.write = t.write + 1 /\ u.read = t.read
        BY <4>1 DEF Put, State
      <4>4. u = [t EXCEPT !.window = u.window, !.write = t.write + 1]
        BY <4>1 DEF Put, State
      <4> HIDE DEF u
      <4>5. /\ t.write \in Nat /\ t.read \in Nat /\ t.write <= WindowSize /\ WindowSize \in Nat
            /\ t.read < WindowSize
        <5>1. t.write \in 0 .. WindowSize /\ t.read \in 0 .. WindowSize
          BY <4>1 DEF State
        <5> QED
          BY <1>4, <4>1, <5>1
      <4>6. Space(u) = Space(t) - 1
        <5>1. CASE t.write < t.read
          BY <4>1, <4>3, <4>5, <5>1 DEF Space
        <5>2. CASE ~ (t.write < t.read)
          BY <4>1, <4>3, <4>5, <5>2 DEF Space
        <5> QED
          BY <5>1, <5>2
      <4> QED
        BY <4>2, <4>4, <4>6
    <3>9. f[i] = u
      BY <3>4, <3>6
    <3> HIDE DEF u
    <3>10. Space(u) = Space(s) - (i - 1) /\ t.write + 1 = s.write + (i - 1)
      BY <1>4, <2>2, <3>1, <3>3, <3>7, <3>8
    <3>11. u = [s EXCEPT !.window = u.window, !.write = s.write + (i - 1)]
      <4> DEFINE a == t.window
                 b == u.window
                 c == s.write + (h - 1)
                 d == s.write + (i - 1)
      <4>1. t = [s EXCEPT !.window = a, !.write = c] /\ u = [t EXCEPT !.window = b, !.write = d]
        BY <3>3, <3>8, <3>10
      <4> HIDE DEF a, b, c, d
      <4>2. u = [s EXCEPT !.window = b, !.write = d]
        BY <4>1 DEF State
      <4> QED
        BY <4>2 DEF b, d
    <3>12. Good(i)
      BY <3>1, <3>8, <3>9, <3>10, <3>11
    <3> QED
      BY <2>2, <3>12
  <2> QED
    BY <2>3, <2>4
<1>6. len + 1 \in Nat /\ len + 1 \in 1 .. len + 1 /\ (len + 1) - 1 = len
  OBVIOUS
<1>7. Good(len + 1)
  <2> DEFINE h == len + 1
  <2>1. h \in Nat /\ h \in 1 .. len + 1
    BY <1>6
  <2> HIDE DEF Good, h
  <2>2. Good(h)
    BY <1>5, <2>1
  <2> QED
    BY <2>2 DEF h
<1> QED
  BY <1>1, <1>6, <1>7

-----------------------------------------------------------------------------
(* Leaving                                                                 *)

\* Two states at the same place of the stream.
Place(s, t) ==
    /\ t.stream = s.stream /\ t.item = s.item /\ t.step = s.step /\ t.mode = s.mode
    /\ t.last = s.last /\ t.left = s.left /\ t.k = s.k /\ t.in = s.in /\ t.avail = s.avail

LEMMA PlaceKeeps ==
    ASSUME NEW s, NEW t, Core(s), t \in State, Place(s, t), t.read # WindowSize,
           s.mode = "FAST" => Space(t) >= MaxMatch,
           Sent(t, Goal(s), Done(s)), InData(s) => Kept(t, Goal(s), Done(s)),
           ~ InData(s) => t.read = t.write
    PROVE  Core(t)
<1>1. /\ Item(t) = Item(s) /\ Kind(t) = Kind(s) /\ Goal(t) = Goal(s) /\ Done(t) = Done(s)
      /\ InData(t) = InData(s) /\ Position(t) = Position(s)
  BY DEF Item, Kind, Goal, Done, InData, Position, Place
<1>2. TypeInv(t)
  BY DEF Core, TypeInv, Place
<1>3. ModeInv(t)
  BY <1>1 DEF Core, ModeInv, Place
<1>4. BitsInv(t)
  BY <1>1 DEF Core, BitsInv, Place
<1>5. FastInv(t)
  BY <1>1 DEF Core, FastInv, Place
<1>6. LastInv(t)
  BY DEF Core, LastInv, Place
<1>7. DataInv(t)
  BY <1>1 DEF DataInv
<1> QED
  BY <1>2, <1>3, <1>4, <1>5, <1>6, <1>7 DEF Core

\* Done is a number.
LEMMA DoneType ==
    ASSUME NEW s, Core(s)
    PROVE  /\ s \in State /\ s.read # WindowSize /\ s.read \in Nat /\ s.write \in Nat
           /\ Goal(s) \in Seq(Octet) /\ Done(s) \in Nat
           /\ s.item \in 1 .. Len(s.stream) + 1 /\ s.stream \in Streams /\ Len(s.stream) \in Nat
<1>1. /\ s \in State /\ s.stream \in Streams /\ s.item \in 1 .. Len(s.stream) + 1
      /\ s.read \in Nat /\ s.write \in Nat /\ s.read # WindowSize /\ s.left \in Nat
  BY DEF Core, TypeInv, State
<1>2. Len(s.stream) \in Nat
  BY <1>1, StreamType
<1>3. /\ s.mode = "FINISHED" <=> s.item = Len(s.stream) + 1
      /\ s.mode \in {"STORED", "COPY", "DRY"} => s.mode # "FINISHED"
  BY DEF Core, ModeInv
<1>4. Goal(s) \in Seq(Octet)
  <2>1. CASE s.mode \in {"STORED", "COPY", "DRY"}
    <3> DEFINE h == s.item + 1
    <3>1. h \in 1 .. Len(s.stream) + 1 /\ Goal(s) = Output[s.stream][h]
      BY <1>1, <1>2, <1>3, <2>1 DEF Goal
    <3> HIDE DEF h
    <3> QED
      BY <1>1, <3>1, OutputType
  <2>2. CASE s.mode \notin {"STORED", "COPY", "DRY"}
    <3>1. Goal(s) = Output[s.stream][s.item]
      BY <2>2 DEF Goal
    <3> QED
      BY <1>1, <3>1, OutputType
  <2> QED
    BY <2>1, <2>2
<1>5. Len(s.out) + PendingLen(s) = Done(s)
  BY DEF Core, DataInv, Sent
<1>6. PendingLen(s) \in Nat
  <2>1. s.read \in 0 .. WindowSize /\ s.write \in 0 .. WindowSize /\ WindowSize \in Nat
    BY <1>1, WindowAssumption DEF State
  <2> QED
    BY <1>1, <2>1 DEF PendingLen
<1>7. Len(s.out) \in Nat
  BY <1>1 DEF State
<1>8. Done(s) \in Nat
  BY <1>5, <1>6, <1>7
<1> QED
  BY <1>1, <1>2, <1>4, <1>8

LEMMA FlushCore ==
    ASSUME NEW s, Core(s), InData(s), s.mode # "FAST"
    PROVE  /\ Core(Flush(s)) /\ Frame(s, Flush(s))
           /\ Flush(s).r \in {s.r} \cup (IF s.r = "buf" THEN {"ok"} ELSE {})
           /\ Flush(s).room = 0 \/ Flush(s).read = Flush(s).write
           /\ s.room = 0 => Flush(s).room = 0
<1> DEFINE t == Flush(s)
<1>1. Sent(s, Goal(s), Done(s)) /\ Kept(s, Goal(s), Done(s))
  BY DEF Core, DataInv
<1>2. /\ t \in State /\ Frame(s, t) /\ t.read # WindowSize
      /\ t.r \in {s.r} \cup (IF s.r = "buf" THEN {"ok"} ELSE {})
      /\ Sent(t, Goal(s), Done(s)) /\ Kept(t, Goal(s), Done(s))
      /\ t.room = 0 \/ t.read = t.write
      /\ s.room = 0 => t.room = 0
  BY <1>1, DoneType, FlushKeeps
<1> HIDE DEF t
<1>3. Place(s, t)
  BY <1>2 DEF Place, Frame
<1>4. Core(t)
  BY <1>2, <1>3, PlaceKeeps
<1> QED
  BY <1>2, <1>4 DEF t

LEMMA NeedOutCore ==
    ASSUME NEW s, Core(s), InData(s), s.mode # "FAST"
    PROVE  /\ Core(NeedOut(s)) /\ Frame(s, NeedOut(s))
           /\ NeedOut(s).r \in {s.r} \cup (IF s.r = "buf" THEN {"ok"} ELSE {})
           /\ Space(NeedOut(s)) > 0 \/ NeedOut(s).room = 0
<1> DEFINE t == NeedOut(s)
<1>1. Sent(s, Goal(s), Done(s)) /\ Kept(s, Goal(s), Done(s))
  BY DEF Core, DataInv
<1>2. /\ t \in State /\ Frame(s, t) /\ t.read # WindowSize
      /\ t.r \in {s.r} \cup (IF s.r = "buf" THEN {"ok"} ELSE {})
      /\ Sent(t, Goal(s), Done(s)) /\ Kept(t, Goal(s), Done(s))
      /\ Space(t) > 0 \/ t.room = 0
  BY <1>1, DoneType, NeedOutKeeps
<1> HIDE DEF t
<1>3. Place(s, t)
  BY <1>2 DEF Place, Frame
<1>4. Core(t)
  BY <1>2, <1>3, PlaceKeeps
<1> QED
  BY <1>2, <1>4 DEF t

\* What is returned to the application.
LEMMA ReturnCore ==
    ASSUME NEW s, Core(s), NEW code \in Result
    PROVE  /\ Core(Return(s, code)) /\ Place(s, Return(s, code))
           /\ Return(s, code).r = s.r /\ Return(s, code).room = s.room
           /\ Return(s, code).inCall = FALSE /\ Return(s, code).ret = code
<1> DEFINE t == Return(s, code)
<1>1. s \in State
  BY DoneType
<1>t. t = [s EXCEPT !.inCall = FALSE, !.ret = code]
  BY DEF Return
<1>2. /\ Place(s, t) /\ t.read = s.read /\ t.write = s.write /\ t.out = s.out
      /\ t.window = s.window /\ t.r = s.r /\ t.room = s.room
      /\ t.inCall = FALSE /\ t.ret = code
  BY <1>1, <1>t DEF Place, State
<1> HIDE DEF t
<1>3. t \in State
  BY <1>1, <1>t DEF State
<1>4. Space(t) = Space(s) /\ \A D, N : (Sent(s, D, N) => Sent(t, D, N)) /\ (Kept(s, D, N) => Kept(t, D, N))
  BY <1>2 DEF Space, Sent, Kept, PendingLen, Back
<1>5. Core(t)
  <2>1. s.mode = "FAST" => Space(t) >= MaxMatch
    BY <1>4 DEF Core, FastInv
  <2>2. Sent(t, Goal(s), Done(s)) /\ (InData(s) => Kept(t, Goal(s), Done(s)))
        /\ (~ InData(s) => t.read = t.write)
    BY <1>2, <1>4 DEF Core, DataInv
  <2> QED
    BY <1>2, <1>3, <2>1, <2>2, DoneType, PlaceKeeps
<1> QED
  BY <1>2, <1>5 DEF t

\* After an error nothing more is decoded.
LEMMA ErrorInv ==
    ASSUME NEW s, Core(s), s.item <= Len(s.stream), s.r \in {"ok", "buf", "data"},
           s.mode \notin {"STORED", "COPY", "DRY"}
    PROVE  Inv(Error(s))
<1> DEFINE t == Error(s)
<1>1. s \in State
  BY DoneType
<1>t. t = [s EXCEPT !.mode = "BAD", !.inCall = FALSE, !.ret = "data"]
  BY <1>1 DEF Error, Return, State
<1>2. /\ t.stream = s.stream /\ t.item = s.item /\ t.read = s.read /\ t.write = s.write
      /\ t.in = s.in /\ t.avail = s.avail /\ t.left = s.left
      /\ t.out = s.out /\ t.window = s.window /\ t.r = s.r /\ t.mode = "BAD"
      /\ t.inCall = FALSE /\ t.ret = "data"
  BY <1>1, <1>t DEF State
<1> HIDE DEF t
<1>3. t \in State
  BY <1>1, <1>t DEF State, Mode, Result
<1>4. /\ Goal(t) = Goal(s) /\ InData(t) = InData(s) /\ Done(t) = Done(s)
  BY <1>2 DEF Goal, Done, InData, Kind, Item
<1>5. \A D, N : (Sent(s, D, N) => Sent(t, D, N)) /\ (Kept(s, D, N) => Kept(t, D, N))
  BY <1>2 DEF Sent, Kept, PendingLen, Back
<1>6. TypeInv(t)
  BY <1>2, <1>3 DEF Core, TypeInv
<1>7. ModeInv(t)
  BY <1>2, DoneType DEF ModeInv
<1>8. BitsInv(t) /\ FastInv(t) /\ LastInv(t)
  BY <1>2 DEF BitsInv, FastInv, LastInv
<1>9. DataInv(t)
  BY <1>2, <1>4, <1>5 DEF Core, DataInv
<1>10. ReturnInv(t)
  BY <1>2 DEF ReturnInv
<1> QED
  BY <1>6, <1>7, <1>8, <1>9, <1>10 DEF Inv, Core, t

\* inflate returns without an error only when it can do no more.
LEMMA LeaveInv ==
    ASSUME NEW s, Core(s), InData(s), s.mode \notin {"FAST", "FINISHED"},
           s.r \in {"ok", "buf", "data"},
           s.r = "data" => s.mode \in {"BAD", "BADCODE"},
           s.r # "data" => s.avail = 0 \/ s.room = 0 \/ Flush(s).read # Flush(s).write
    PROVE  Inv(Leave(s))
<1> DEFINE t == Flush(s)
<1>1. /\ Core(t) /\ Frame(s, t)
      /\ t.r \in {s.r} \cup (IF s.r = "buf" THEN {"ok"} ELSE {})
      /\ t.room = 0 \/ t.read = t.write
      /\ s.room = 0 => t.room = 0
  BY FlushCore
<1>2. Leave(s) = CASE t.r = "data" -> Error(t)
                   [] t.r = "ok" -> Return(t, t.f)
                   [] OTHER -> Return(t, t.r)
  BY DEF Leave
<1>3. t.r \in {"ok", "buf", "data"} /\ (t.r = "data" => s.r = "data")
  BY <1>1
<1>4. t.f \in {"ok", "buf"}
  BY <1>1, DoneType DEF State
<1>5. t.avail = s.avail /\ t.mode = s.mode /\ t.item = s.item /\ t.stream = s.stream
  BY <1>1 DEF Frame
<1>6. s.r # "data" => t.avail = 0 \/ t.room = 0
  BY <1>1, <1>5
<1> HIDE DEF t
<1>7. CASE t.r = "data"
  <2>1. Leave(s) = Error(t)
    BY <1>2, <1>7
  <2>2. t.item <= Len(t.stream)
    BY <1>5 DEF InData
  <2> QED
    BY <1>1, <1>3, <1>5, <1>7, <2>1, <2>2, ErrorInv
<1>8. ASSUME t.r # "data", NEW code \in {"ok", "buf"} PROVE Inv(Return(t, code))
  <2> DEFINE u == Return(t, code)
  <2>1. code \in Result
    BY DEF Result
  <2>2. /\ Core(u) /\ Place(t, u) /\ u.r = t.r /\ u.room = t.room
        /\ u.inCall = FALSE /\ u.ret = code
    BY <1>1, <2>1, ReturnCore
  <2> HIDE DEF u
  <2>3. s.r # "data"
    BY <1>1, <1>8
  <2>4. ReturnInv(u)
    BY <1>3, <1>6, <1>8, <2>2, <2>3 DEF ReturnInv, Place
  <2> QED
    BY <2>2, <2>4 DEF Inv, u
<1>9. CASE t.r = "ok"
  BY <1>2, <1>4, <1>8, <1>9
<1>10. CASE t.r = "buf"
  BY <1>2, <1>8, <1>10
<1> QED
  BY <1>3, <1>7, <1>9, <1>10

-----------------------------------------------------------------------------
(* From one item to the next                                               *)

LEMMA Follows ==
    ASSUME NEW stream \in Streams, NEW i \in 1 .. Len(stream)
    PROVE  LET kind == stream[i].kind
               Then(kinds) == i < Len(stream) /\ stream[i + 1].kind \in kinds
           IN  /\ kind = "method" => Then({"flag"})
               /\ kind = "flag" => Then(BlockKind)
               /\ kind = "check" => AtEnd(stream, i + 1)
               /\ kind \in {"fixed", "dynamic", "literal", "match"} => Then(CodeKind)
               /\ kind \in {"stored", "eob"} =>
                    /\ AtEnd(stream, i + 1) \/ Then(BlockKind)
                    /\ \A j \in 1 .. i :
                         InBlock(stream, j, i) => (stream[j].last <=> AtEnd(stream, i + 1))
               /\ kind \notin {"method", "flag", "check", "fixed", "dynamic", "literal",
                               "match", "stored", "eob"} => i = Len(stream)
<1>1. GoodOrder(stream, i)
  BY StreamType
<1> QED
  BY <1>1 DEF GoodOrder

\* A zlib header is at the start, before any output.
LEMMA HeaderFirst ==
    ASSUME NEW stream \in Streams, NEW i \in 1 .. Len(stream),
           stream[i].kind \in {"method", "flag"}
    PROVE  Output[stream][i] = <<>> /\ Output[stream][i + 1] = <<>>
<1>1. Len(stream) \in Nat /\ stream[1].kind \in BlockKind \cup {"method"}
  BY StreamAssumption
<1>2. ASSUME NEW m \in 1 .. Len(stream), m < Len(stream), stream[m + 1].kind \in {"method", "flag"}
      PROVE  stream[m].kind = "method" /\ stream[m + 1].kind = "flag"
  <2>1. stream[m].kind \in BlockKind \cup CodeKind \cup ByteKind
    BY StreamType
  <2> DEFINE h == m + 1
  <2>2. h <= Len(stream) /\ stream[h].kind \in {"method", "flag"}
    BY <1>1, <1>2
  <2>3. LET kind == stream[m].kind
        IN  /\ kind = "method" => stream[h].kind \in {"flag"}
            /\ kind = "flag" => stream[h].kind \in BlockKind
            /\ kind = "check" => AtEnd(stream, h)
            /\ kind \in {"fixed", "dynamic", "literal", "match"} => stream[h].kind \in CodeKind
            /\ kind \in {"stored", "eob"} => AtEnd(stream, h) \/ stream[h].kind \in BlockKind
            /\ kind \notin {"method", "flag", "check", "fixed", "dynamic", "literal",
                            "match", "stored", "eob"} => m = Len(stream)
    BY Follows
  <2>4. h > Len(stream) <=> FALSE
    BY <1>1, <2>2
  <2> HIDE DEF h
  <2> QED
    BY <1>2, <2>1, <2>2, <2>3, <2>4 DEF AtEnd, BlockKind, CodeKind, ByteKind, h
<1>3. ASSUME NEW m \in 1 .. Len(stream), stream[m].kind = "method" PROVE m = 1
  <2> SUFFICES ASSUME m # 1 PROVE FALSE
    OBVIOUS
  <2> DEFINE h == m - 1
  <2>1. h \in 1 .. Len(stream) /\ h < Len(stream) /\ h + 1 = m
    BY <1>1
  <2> HIDE DEF h
  <2> QED
    BY <1>2, <1>3, <2>1
<1>4. ASSUME NEW m \in 1 .. Len(stream), stream[m].kind = "flag" PROVE m = 2 /\ stream[1].kind = "method"
  <2> DEFINE h == m - 1
  <2>1. m # 1
    BY <1>1, <1>4 DEF BlockKind
  <2>2. h \in 1 .. Len(stream) /\ h < Len(stream) /\ h + 1 = m
    BY <1>1, <2>1
  <2> HIDE DEF h
  <2>3. stream[h].kind = "method"
    BY <1>2, <1>4, <2>2
  <2>4. h = 1
    BY <1>3, <2>2, <2>3
  <2> QED
    BY <2>2, <2>3, <2>4
<1>5. /\ Output[stream][1] = <<>>
      /\ \A m \in 1 .. Len(stream) : Output[stream][m + 1] = Extended(Output[stream][m], stream[m])
  BY OutputStep
<1>6. stream[1].kind = "method" => Output[stream][2] = <<>>
  <2>1. 1 \in 1 .. Len(stream) /\ 1 + 1 = 2
    BY <1>1, StreamType
  <2>2. Output[stream][2] = Extended(<<>>, stream[1])
    BY <1>5, <2>1
  <2> QED
    BY <2>2 DEF Extended
<1>7. CASE stream[i].kind = "method"
  BY <1>3, <1>5, <1>6, <1>7
<1>8. CASE stream[i].kind = "flag"
  <2>1. i = 2 /\ stream[1].kind = "method"
    BY <1>4, <1>8
  <2>2. Output[stream][i] = <<>>
    BY <1>6, <2>1
  <2>3. Output[stream][i + 1] = Extended(<<>>, stream[i])
    BY <1>5, <2>2
  <2> QED
    BY <1>8, <2>2, <2>3 DEF Extended
<1> QED
  BY <1>7, <1>8

\* t is at the item behind that of s, and its output is there.
NextItem(s, t) ==
    /\ t \in State /\ t.read # WindowSize /\ t.in + t.avail <= Bytes(t.stream)
    /\ t.stream = s.stream /\ s.item \in 1 .. Len(s.stream) /\ t.item = s.item + 1
    /\ t.step = 1
    /\ LET D == Output[s.stream][s.item + 1] IN Sent(t, D, Len(D))

\* The block of the item of s says what last is in t.
OfBlock(s, t) ==
    \E j \in 1 .. s.item : InBlock(s.stream, j, s.item) /\ t.last = s.stream[j].last

AtCode(s, t) ==
    /\ NextItem(s, t) /\ OfBlock(s, t)
    /\ LET D == Output[s.stream][s.item + 1] IN Kept(t, D, Len(D))
    /\ Kind(s) \in {"fixed", "dynamic", "literal", "match"}
    /\ t.mode \in {"START", "FAST", "LEN"}
    /\ 8 * t.in - t.k = FirstBit[s.stream][s.item + 1]
    /\ t.mode # "FAST" => t.k <= 15
    /\ t.mode = "FAST" => Space(t) >= MaxMatch /\ t.avail >= 7

LEMMA NextGoal ==
    ASSUME NEW s, NEW t, NextItem(s, t), t.mode \notin {"STORED", "COPY", "DRY"}
    PROVE  /\ Goal(t) = Output[s.stream][s.item + 1]
           /\ Done(t) = Len(Output[s.stream][s.item + 1])
           /\ Sent(t, Goal(t), Done(t))
           /\ Len(s.stream) \in Nat /\ s.stream \in Streams /\ s.item \in Nat
           /\ t.in \in Nat /\ t.k \in 0 .. 32 /\ t.avail \in Nat
<1>1. Goal(t) = Output[s.stream][s.item + 1]
  BY DEF NextItem, Goal
<1>2. s.stream \in Streams /\ t.in \in Nat /\ t.k \in 0 .. 32 /\ t.avail \in Nat
  BY DEF NextItem, State
<1>3. Len(s.stream) \in Nat /\ s.item \in Nat
  BY <1>2, StreamType DEF NextItem
<1>4. Len(Goal(t)) \in Nat
  <2> DEFINE h == s.item + 1
  <2>1. h \in 1 .. Len(s.stream) + 1
    BY <1>3 DEF NextItem
  <2> HIDE DEF h
  <2>2. Output[s.stream][h] \in Seq(Octet)
    BY <1>2, <2>1, OutputType
  <2> QED
    BY <1>1, <2>2 DEF h
<1>5. Done(t) = Len(Goal(t)) - 0
  BY DEF Done
<1>6. Done(t) = Len(Goal(t))
  BY <1>4, <1>5
<1> QED
  BY <1>1, <1>2, <1>3, <1>6 DEF NextItem

\* The codes of a block belong to it.
LEMMA CodeOfBlock ==
    ASSUME NEW s, NEW t, NextItem(s, t), OfBlock(s, t),
           s.stream \in Streams, Kind(t) \in CodeKind
    PROVE  OfBlock(t, t)
<1>1. Len(s.stream) \in Nat /\ s.item \in Nat /\ t.item = s.item + 1 /\ t.stream = s.stream
  BY StreamType DEF NextItem
<1>2. PICK j \in 1 .. s.item : InBlock(s.stream, j, s.item) /\ t.last = s.stream[j].last
  BY DEF OfBlock
<1>3. InBlock(s.stream, j, t.item)
  <2> DEFINE h == t.item
  <2>1. \A m \in j + 1 .. h : m \in j + 1 .. s.item \/ m = h
    BY <1>1
  <2>2. s.stream[h].kind \in CodeKind
    BY <1>1 DEF Kind, Item
  <2> HIDE DEF h
  <2> QED
    BY <1>2, <2>1, <2>2 DEF InBlock, h
<1>4. j \in 1 .. t.item
  BY <1>1
<1> QED
  BY <1>1, <1>2, <1>3, <1>4 DEF OfBlock

LEMMA AtCodeCore ==
    ASSUME NEW s, NEW t, AtCode(s, t)
    PROVE  Core(t)
<1>1. NextItem(s, t) /\ t.mode \in {"START", "FAST", "LEN"}
  BY DEF AtCode
<1>2. /\ Goal(t) = Output[s.stream][s.item + 1]
      /\ Done(t) = Len(Output[s.stream][s.item + 1])
      /\ Sent(t, Goal(t), Done(t))
      /\ Len(s.stream) \in Nat /\ s.stream \in Streams /\ s.item \in Nat
      /\ t.in \in Nat /\ t.k \in 0 .. 32 /\ t.avail \in Nat
  BY <1>1, NextGoal
<1>3. /\ s.item \in 1 .. Len(s.stream) /\ t.item = s.item + 1 /\ t.stream = s.stream
      /\ t.step = 1 /\ Kind(s) \in {"fixed", "dynamic", "literal", "match"}
  BY <1>1 DEF AtCode, NextItem
<1> DEFINE h == s.item + 1
<1>4. s.item < Len(s.stream) /\ s.stream[h].kind \in CodeKind
  BY <1>2, <1>3, Follows DEF Kind, Item
<1>5. h \in 1 .. Len(s.stream) /\ h # Len(s.stream) + 1 /\ t.item = h
  BY <1>2, <1>3, <1>4
<1> HIDE DEF h
<1>6. Kind(t) \in CodeKind /\ t.mode # "FINISHED" /\ t.item <= Len(t.stream)
      /\ Item(t) = s.stream[h]
  BY <1>1, <1>2, <1>3, <1>4, <1>5 DEF Kind, Item
<1> DEFINE steps == Item(t).steps
<1>7. GoodItem(s.stream[h])
  BY <1>2, <1>5, StreamType
<1>8. steps \in Seq(Lookup) /\ CodeShape(steps)
  BY <1>4, <1>6, <1>7 DEF GoodItem
<1>9. steps # <<>> /\ Len(steps) \in Nat \ {0} /\ BitsBefore(steps, 1) = 0
  BY <1>8, BitsBeforeStep DEF CodeShape
<1>10. TypeInv(t)
  <2>1. t.item \in 1 .. Len(t.stream) + 1
    BY <1>2, <1>3, <1>5
  <2> QED
    BY <1>1, <2>1 DEF TypeInv, NextItem
<1>11. ModeInv(t)
  <2>1. t.step \in 1 .. Len(Item(t).steps)
    BY <1>3, <1>9
  <2>2. t.item # Len(t.stream) + 1
    BY <1>3, <1>5
  <2> QED
    BY <1>1, <1>3, <1>6, <2>1, <2>2 DEF ModeInv
<1>12. BitsInv(t)
  <2>1. 8 * t.in - t.k = FirstBit[s.stream][h]
    BY DEF AtCode, h
  <2>2. FirstBit[s.stream][h] \in Nat
    <3>1. h \in 1 .. Len(s.stream) + 1
      BY <1>2, <1>5
    <3> QED
      BY <1>2, <3>1, FirstBitStep
  <2>3. Position(t) = FirstBit[s.stream][h] + BitsBefore(steps, 1)
    BY <1>1, <1>3, <1>5 DEF Position
  <2>4. 8 * t.in - t.k = Position(t)
    BY <1>9, <2>1, <2>2, <2>3
  <2>5. t.mode # "FAST" => t.k <= 15
    BY DEF AtCode
  <2> QED
    BY <1>1, <2>4, <2>5 DEF BitsInv
<1>13. FastInv(t)
  <2> SUFFICES ASSUME t.mode = "FAST" PROVE FastInv(t)
    BY DEF FastInv
  <2>1. Space(t) >= MaxMatch /\ t.avail >= 7
    BY DEF AtCode
  <2>2. Reserve(steps, 1) = 7
    BY DEF Reserve
  <2> QED
    BY <1>3, <2>1, <2>2 DEF FastInv
<1>14. LastInv(t)
  <2>1. OfBlock(s, t)
    BY DEF AtCode
  <2>2. OfBlock(t, t)
    BY <1>1, <1>2, <1>6, <2>1, CodeOfBlock
  <2> QED
    BY <2>2 DEF LastInv, OfBlock
<1>15. DataInv(t)
  <2>1. Kept(t, Goal(t), Done(t))
    BY <1>2 DEF AtCode
  <2>2. InData(t)
    BY <1>6 DEF InData, CodeKind, ByteKind
  <2> QED
    BY <1>2, <2>1, <2>2 DEF DataInv
<1> QED
  BY <1>10, <1>11, <1>12, <1>13, <1>14, <1>15 DEF Core

AtBlock(s, t) ==
    /\ NextItem(s, t)
    /\ LET D == Output[s.stream][s.item + 1] IN Kept(t, D, Len(D))
    /\ s.item < Len(s.stream) /\ s.stream[s.item + 1].kind \in BlockKind
    /\ t.mode = "TYPE"
    /\ 8 * t.in - t.k = FirstBit[s.stream][s.item + 1]
    /\ t.k <= 15

LEMMA AtBlockCore ==
    ASSUME NEW s, NEW t, AtBlock(s, t)
    PROVE  Core(t)
<1>1. NextItem(s, t) /\ t.mode = "TYPE"
  BY DEF AtBlock
<1>2. /\ Goal(t) = Output[s.stream][s.item + 1]
      /\ Done(t) = Len(Output[s.stream][s.item + 1])
      /\ Sent(t, Goal(t), Done(t))
      /\ Len(s.stream) \in Nat /\ s.stream \in Streams /\ s.item \in Nat
  BY <1>1, NextGoal
<1> DEFINE h == s.item + 1
<1>3. /\ s.item \in 1 .. Len(s.stream) /\ t.item = h /\ t.stream = s.stream
      /\ t.step = 1 /\ s.item < Len(s.stream) /\ s.stream[h].kind \in BlockKind
      /\ 8 * t.in - t.k = FirstBit[s.stream][h] /\ t.k <= 15
  BY <1>1 DEF AtBlock, NextItem
<1>4. h \in 1 .. Len(s.stream) /\ h # Len(s.stream) + 1 /\ h <= Len(s.stream)
      /\ h \in 1 .. Len(s.stream) + 1
  BY <1>2, <1>3
<1> HIDE DEF h
<1>5. Kind(t) \in BlockKind
  BY <1>3 DEF Kind, Item
<1>6. TypeInv(t)
  BY <1>1, <1>3, <1>4 DEF TypeInv, NextItem
<1>7. ModeInv(t)
  BY <1>1, <1>3, <1>4, <1>5 DEF ModeInv
<1>8. BitsInv(t)
  BY <1>1, <1>3 DEF BitsInv, Position
<1>9. FastInv(t) /\ LastInv(t)
  BY <1>1 DEF FastInv, LastInv
<1>10. DataInv(t)
  <2>1. Kept(t, Goal(t), Done(t))
    BY <1>2 DEF AtBlock
  <2>2. InData(t)
    BY <1>3, <1>4, <1>5 DEF InData, BlockKind, ByteKind
  <2> QED
    BY <1>2, <2>1, <2>2 DEF DataInv
<1> QED
  BY <1>6, <1>7, <1>8, <1>9, <1>10 DEF Core

AtByte(s, t) ==
    /\ NextItem(s, t)
    /\ t.mode \in {"BYTE", "FINISHED"}
    /\ t.mode = "FINISHED" <=> t.item = Len(s.stream) + 1
    /\ t.mode = "BYTE" => Kind(t) \in ByteKind
    /\ t.read = t.write
    /\ 8 * t.in = ToByte(FirstBit[s.stream][s.item + 1])
    /\ t.k = 0

LEMMA AtByteCore ==
    ASSUME NEW s, NEW t, AtByte(s, t)
    PROVE  Core(t)
<1>1. NextItem(s, t) /\ t.mode \in {"BYTE", "FINISHED"}
  BY DEF AtByte
<1>2. /\ Goal(t) = Output[s.stream][s.item + 1]
      /\ Done(t) = Len(Output[s.stream][s.item + 1])
      /\ Sent(t, Goal(t), Done(t)) /\ t.in \in Nat
      /\ Len(s.stream) \in Nat /\ s.stream \in Streams /\ s.item \in Nat
  BY <1>1, NextGoal
<1> DEFINE h == s.item + 1
<1>3. /\ s.item \in 1 .. Len(s.stream) /\ t.item = h /\ t.stream = s.stream
      /\ t.mode = "FINISHED" <=> t.item = Len(s.stream) + 1
      /\ t.mode = "BYTE" => Kind(t) \in ByteKind
      /\ t.read = t.write /\ t.k = 0
      /\ 8 * t.in = ToByte(FirstBit[s.stream][h])
  BY <1>1 DEF AtByte, NextItem
<1>4. h \in 1 .. Len(s.stream) + 1
  BY <1>2, <1>3
<1> HIDE DEF h
<1>6. TypeInv(t)
  BY <1>1, <1>3, <1>4 DEF TypeInv, NextItem
<1>7. ModeInv(t)
  BY <1>1, <1>3, <1>4 DEF ModeInv
<1>8. BitsInv(t)
  <2>1. Position(t) = ToByte(FirstBit[s.stream][h])
    BY <1>1, <1>3 DEF Position
  <2>2. 8 * t.in - t.k = 8 * t.in
    BY <1>2, <1>3
  <2> QED
    BY <1>1, <1>3, <2>1, <2>2 DEF BitsInv
<1>9. FastInv(t) /\ LastInv(t)
  BY <1>1 DEF FastInv, LastInv
<1>10. DataInv(t)
  <2>2. ~ InData(t)
    BY <1>1, <1>2, <1>3, <1>4 DEF InData
  <2> QED
    BY <1>2, <1>3, <2>2 DEF DataInv
<1> QED
  BY <1>6, <1>7, <1>8, <1>9, <1>10 DEF Core

LEMMA EntryModeIs ==
    ASSUME NEW stream \in Streams, NEW i \in Nat \ {0}
    PROVE  /\ EntryMode(stream, i) \in Mode
           /\ i > Len(stream) <=> EntryMode(stream, i) = "FINISHED"
           /\ i <= Len(stream) =>
                /\ stream[i].kind \in ByteKind <=> EntryMode(stream, i) = "BYTE"
                /\ stream[i].kind \in BlockKind <=> EntryMode(stream, i) = "TYPE"
                /\ stream[i].kind \in CodeKind <=> EntryMode(stream, i) = "START"
<1>1. Len(stream) \in Nat
  BY StreamType
<1>2. CASE i > Len(stream)
  BY <1>1, <1>2 DEF EntryMode, Mode
<1>3. CASE i <= Len(stream)
  <2>1. stream[i].kind \in BlockKind \cup CodeKind \cup ByteKind
    BY <1>1, <1>3, StreamType
  <2>2. ~ (i > Len(stream))
    BY <1>1, <1>3
  <2>3. /\ stream[i].kind \in ByteKind => EntryMode(stream, i) = "BYTE"
        /\ stream[i].kind \in BlockKind => EntryMode(stream, i) = "TYPE"
        /\ stream[i].kind \in CodeKind => EntryMode(stream, i) = "START"
    BY <2>2 DEF EntryMode, ByteKind, BlockKind, CodeKind
  <2> QED
    BY <2>1, <2>2, <2>3 DEF Mode
<1> QED
  BY <1>1, <1>2, <1>3

\* The operator Advance, and a later change of its mode.
LEMMA AdvanceFields ==
    ASSUME NEW s \in State, s.item # 0
    PROVE  /\ Advance(s) \in State
           /\ Advance(s) = [s EXCEPT !.item = Advance(s).item, !.step = 1,
                                     !.mode = EntryMode(s.stream, s.item + 1)]
           /\ Advance(s).item = s.item + 1 /\ Advance(s).step = 1
           /\ Advance(s).mode = EntryMode(s.stream, s.item + 1)
           /\ Advance(s).stream = s.stream /\ Advance(s).last = s.last
           /\ Advance(s).left = s.left /\ Advance(s).k = s.k
           /\ Advance(s).window = s.window /\ Advance(s).read = s.read
           /\ Advance(s).write = s.write /\ Advance(s).in = s.in
           /\ Advance(s).base = s.base /\ Advance(s).avail = s.avail
           /\ Advance(s).room = s.room /\ Advance(s).out = s.out
           /\ Advance(s).inCall = s.inCall /\ Advance(s).r = s.r
           /\ Advance(s).f = s.f /\ Advance(s).ret = s.ret
<1> DEFINE t == Advance(s)
           m == EntryMode(s.stream, s.item + 1)
<1>1. t = [s EXCEPT !.item = s.item + 1, !.step = 1, !.mode = m]
  BY DEF Advance, State
<1>2. m \in Mode
  <2> DEFINE h == s.item + 1
  <2>1. h \in Nat \ {0} /\ s.stream \in Streams
    BY DEF State
  <2> HIDE DEF h
  <2>2. EntryMode(s.stream, h) \in Mode
    BY <2>1, EntryModeIs
  <2> QED
    BY <2>2 DEF h
<1>3. s.item + 1 \in Nat
  BY DEF State
<1> HIDE DEF t, m
<1>4. t \in State
  BY <1>1, <1>2, <1>3 DEF State
<1>5. /\ t.item = s.item + 1 /\ t.step = 1 /\ t.mode = m
      /\ t.stream = s.stream /\ t.last = s.last /\ t.left = s.left /\ t.k = s.k
      /\ t.window = s.window /\ t.read = s.read /\ t.write = s.write /\ t.in = s.in
      /\ t.base = s.base /\ t.avail = s.avail /\ t.room = s.room /\ t.out = s.out
      /\ t.inCall = s.inCall /\ t.r = s.r /\ t.f = s.f /\ t.ret = s.ret
  BY <1>1 DEF State
<1>6. t = [s EXCEPT !.item = t.item, !.step = 1, !.mode = m]
  BY <1>1, <1>5
<1> QED
  BY <1>4, <1>5, <1>6 DEF t, m

\* Sent and Kept are about the window and what was delivered.
LEMMA SameWindow ==
    ASSUME NEW s, NEW t, t.read = s.read, t.write = s.write, t.out = s.out, t.window = s.window
    PROVE  /\ Space(t) = Space(s)
           /\ \A D, n : (Sent(s, D, n) <=> Sent(t, D, n)) /\ (Kept(s, D, n) <=> Kept(t, D, n))
BY DEF Space, Sent, Kept, PendingLen, Back

\* A block that is decoded to its end.
Ended(s) ==
    /\ TypeInv(s) /\ s.item <= Len(s.stream) /\ Kind(s) \in {"stored", "eob"}
    /\ OfBlock(s, s)
    /\ LET D == Output[s.stream][s.item + 1] IN Sent(s, D, Len(D)) /\ Kept(s, D, Len(D))
    /\ 8 * s.in - s.k = FirstBit[s.stream][s.item + 1]
    /\ s.k <= 7

LEMMA BlockEndCore ==
    ASSUME NEW s, Ended(s)
    PROVE  /\ Core(BlockEnd(s))
           /\ BlockEnd(s).inCall = s.inCall /\ BlockEnd(s).r = s.r
<1>1. /\ s \in State /\ s.stream \in Streams /\ s.item \in 1 .. Len(s.stream)
      /\ s.item <= Len(s.stream) /\ s.read # WindowSize /\ s.in + s.avail <= Bytes(s.stream)
      /\ Len(s.stream) \in Nat /\ s.k \in 0 .. 32 /\ s.k <= 7
      /\ Kind(s) \in {"stored", "eob"}
  <2>1. s \in State /\ s.item \in 1 .. Len(s.stream) + 1 /\ s.item <= Len(s.stream)
        /\ s.read # WindowSize /\ s.in + s.avail <= Bytes(s.stream)
    BY DEF Ended, TypeInv
  <2>2. s.stream \in Streams /\ s.k \in 0 .. 32
    BY <2>1 DEF State
  <2>3. Len(s.stream) \in Nat
    BY <2>2, StreamType
  <2> QED
    BY <2>1, <2>2, <2>3 DEF Ended
<1> DEFINE D == Output[s.stream][s.item + 1]
<1>2. Sent(s, D, Len(D)) /\ Kept(s, D, Len(D)) /\ OfBlock(s, s)
      /\ 8 * s.in - s.k = FirstBit[s.stream][s.item + 1]
  BY DEF Ended
<1>3. CASE s.last
  <2> DEFINE t == [s EXCEPT !.mode = "DRY"]
  <2>1. BlockEnd(s) = t
    BY <1>3 DEF BlockEnd
  <2>2. /\ t.stream = s.stream /\ t.item = s.item /\ t.mode = "DRY" /\ t.last = s.last
        /\ t.k = s.k /\ t.read = s.read /\ t.write = s.write /\ t.window = s.window
        /\ t.out = s.out /\ t.in = s.in /\ t.avail = s.avail /\ t.inCall = s.inCall
        /\ t.r = s.r
    BY <1>1 DEF State
  <2>3. t \in State
    <3>1. t = [s EXCEPT !.mode = "DRY"]
      OBVIOUS
    <3> HIDE DEF t
    <3> QED
      BY <1>1, <3>1 DEF State, Mode
  <2> HIDE DEF t, D
  <2>4. TypeInv(t)
    BY <2>2, <2>3 DEF TypeInv, Ended
  <2>5. Item(t) = Item(s) /\ Kind(t) = Kind(s)
    BY <2>2 DEF Item, Kind
  <2>6. ModeInv(t)
    BY <1>1, <1>3, <2>2, <2>5 DEF ModeInv
  <2>7. BitsInv(t)
    <3>1. Position(t) = FirstBit[s.stream][s.item + 1]
      BY <2>2 DEF Position
    <3> QED
      BY <1>1, <1>2, <2>2, <3>1 DEF BitsInv
  <2>8. FastInv(t)
    BY <2>2 DEF FastInv
  <2>9. LastInv(t)
    BY <1>2, <2>2 DEF LastInv, OfBlock
  <2>10. DataInv(t)
    <3>1. Goal(t) = D
      BY <2>2 DEF Goal, D
    <3>2. D \in Seq(Octet)
      <4> DEFINE h == s.item + 1
      <4>1. h \in 1 .. Len(s.stream) + 1
        BY <1>1
      <4> HIDE DEF h
      <4> QED
        BY <1>1, <4>1, OutputType DEF D, h
    <3>3. Done(t) = Len(D) - 0
      BY <2>2, <3>1 DEF Done
    <3>4. Done(t) = Len(D)
      BY <3>2, <3>3
    <3>5. Sent(t, D, Len(D)) /\ Kept(t, D, Len(D))
      BY <1>2, <2>2, SameWindow
    <3>6. InData(t)
      BY <1>1, <2>2, <2>5 DEF InData, ByteKind
    <3> QED
      BY <3>1, <3>4, <3>5, <3>6 DEF DataInv
  <2> QED
    BY <2>1, <2>2, <2>4, <2>6, <2>7, <2>8, <2>9, <2>10 DEF Core
<1>4. CASE ~ s.last
  <2> DEFINE t == Advance(s)
             h == s.item + 1
  <2>1. BlockEnd(s) = t
    BY <1>4 DEF BlockEnd
  <2>2. /\ t \in State /\ t.item = h /\ t.step = 1 /\ t.mode = EntryMode(s.stream, h)
        /\ t.stream = s.stream /\ t.last = s.last /\ t.k = s.k
        /\ t.window = s.window /\ t.read = s.read /\ t.write = s.write /\ t.in = s.in
        /\ t.avail = s.avail /\ t.out = s.out /\ t.inCall = s.inCall /\ t.r = s.r
    <3>1. s.item # 0 /\ s \in State
      BY <1>1
    <3> QED
      BY <3>1, AdvanceFields
  <2> HIDE DEF t
  <2>3. ~ AtEnd(s.stream, h) /\ s.item < Len(s.stream) /\ s.stream[h].kind \in BlockKind
    <3>1. PICK j \in 1 .. s.item : InBlock(s.stream, j, s.item) /\ s.last = s.stream[j].last
      BY <1>2 DEF OfBlock
    <3>2. ~ s.stream[j].last
      BY <1>4, <3>1
    <3>3. ~ AtEnd(s.stream, h)
      BY <1>1, <3>1, <3>2, Follows DEF Kind, Item
    <3>4. AtEnd(s.stream, h) \/ (s.item < Len(s.stream) /\ s.stream[h].kind \in BlockKind)
      BY <1>1, Follows DEF Kind, Item
    <3> QED
      BY <3>3, <3>4
  <2>4. t.mode = "TYPE"
    <3>1. h \in Nat \ {0} /\ h <= Len(s.stream)
      BY <1>1, <2>3
    <3> HIDE DEF h
    <3> QED
      BY <1>1, <2>2, <2>3, <3>1, EntryModeIs
  <2>5. NextItem(s, t)
    BY <1>1, <1>2, <2>2, SameWindow DEF NextItem
  <2>6. AtBlock(s, t)
    <3>1. t.k <= 15
      <4>1. t.k = s.k /\ s.k \in 0 .. 32 /\ s.k <= 7
        BY <1>1, <2>2
      <4> QED
        BY <4>1
    <3>2. Kept(t, D, Len(D))
      BY <1>2, <2>2, SameWindow
    <3> QED
      BY <1>2, <2>2, <2>3, <2>4, <2>5, <3>1, <3>2 DEF AtBlock
  <2> QED
    BY <2>1, <2>2, <2>6, AtBlockCore
<1> QED
  BY <1>3, <1>4

\* Between a call and its return.
LEMMA GoingInv ==
    ASSUME NEW s, Core(s), s.inCall, s.r \in {"ok", "buf"}
    PROVE  Inv(s)
BY DEF Inv, ReturnInv

LEMMA InvGoing ==
    ASSUME NEW s, Inv(s), s.inCall
    PROVE  /\ s.r \in {"ok", "buf", "end"}
           /\ s.mode # "WASH" => s.r \in {"ok", "buf"}
<1>1. s.r \in Result
  BY DoneType DEF Inv, State
<1> QED
  BY <1>1 DEF Inv, ReturnInv, Result

-----------------------------------------------------------------------------
(* The application and inflate                                             *)

LEMMA BytesType ==
    ASSUME NEW stream \in Streams
    PROVE  Bytes(stream) \in Nat
<1>1. Len(stream) \in Nat /\ Trailer \in Nat
  BY StreamType, WindowAssumption
<1> DEFINE h == Len(stream) + 1
<1>2. h \in 1 .. Len(stream) + 1
  BY <1>1
<1> HIDE DEF h
<1>3. FirstBit[stream][h] \in Nat
  BY <1>2, FirstBitStep
<1>4. ToByte(FirstBit[stream][h]) \in Nat
  BY <1>3, ToByteType
<1>5. EndByte(stream) \in Nat
  BY <1>4 DEF EndByte, h
<1> QED
  BY <1>1, <1>5 DEF Bytes

\* Where a stream starts.
LEMMA FreshInv ==
    ASSUME NEW stream \in Streams, NEW s, s = Fresh(stream)
    PROVE  Inv(s)
<1>1. s = Fresh(stream)
  OBVIOUS
<1>2. Len(stream) \in Nat \ {0} /\ stream[1].kind \in BlockKind \cup {"method"}
      /\ Bytes(stream) \in Nat /\ WindowSize \in Nat \ {0}
  BY StreamAssumption, BytesType, WindowAssumption
<1> DEFINE m == EntryMode(stream, 1)
<1>3. /\ m \in Mode /\ m # "FINISHED" /\ (m = "BYTE" \/ m = "TYPE")
      /\ stream[1].kind \in ByteKind <=> m = "BYTE"
      /\ stream[1].kind \in BlockKind <=> m = "TYPE"
  <2>1. stream[1].kind \in BlockKind \/ stream[1].kind \in ByteKind
    BY <1>2 DEF ByteKind
  <2>2. 1 \in Nat \ {0} /\ 1 <= Len(stream) /\ ~ (1 > Len(stream))
    BY <1>2
  <2> QED
    BY <2>1, <2>2, EntryModeIs
<1>4. /\ s.stream = stream /\ s.item = 1 /\ s.step = 1 /\ s.mode = m /\ s.k = 0
      /\ s.read = 0 /\ s.write = 0 /\ s.in = 0 /\ s.avail = 0 /\ s.out = <<>>
      /\ s.inCall = FALSE /\ s.r = "ok" /\ s.ret = "ok" /\ s.room = 0
      /\ s.left = 0
  BY <1>1 DEF Fresh
<1>5. s \in State
  <2> DEFINE w == [i \in 0 .. WindowSize - 1 |-> 0]
  <2>1. w \in [0 .. WindowSize - 1 -> Octet]
    BY DEF Octet
  <2>2. <<>> \in Seq(Octet) /\ 0 \in 0 .. WindowSize
    BY <1>2
  <2>3. s = [stream |-> stream, item |-> 1, step |-> 1, mode |-> m,
             last |-> FALSE, left |-> 0, k |-> 0,
             window |-> w, read |-> 0, write |-> 0,
             in |-> 0, base |-> 0, avail |-> 0, room |-> 0, out |-> <<>>,
             inCall |-> FALSE, r |-> "ok", f |-> "ok", ret |-> "ok"]
    BY <1>1 DEF Fresh
  <2> HIDE DEF w, m
  <2> QED
    BY <1>3, <2>1, <2>2, <2>3 DEF State, Result
<1>6. TypeInv(s)
  <2>1. s.item \in 1 .. Len(s.stream) + 1
    BY <1>2, <1>4
  <2>2. s.in + s.avail <= Bytes(s.stream)
    BY <1>2, <1>4
  <2>3. s.read # WindowSize
    BY <1>2, <1>4
  <2> QED
    BY <1>5, <2>1, <2>2, <2>3 DEF TypeInv
<1> HIDE DEF m
<1>7. Kind(s) = stream[1].kind /\ Item(s) = stream[1]
  BY <1>4 DEF Kind, Item
<1>8. ModeInv(s)
  <2>1. s.item # Len(s.stream) + 1
    BY <1>2, <1>4
  <2> QED
    BY <1>3, <1>4, <1>7, <2>1 DEF ModeInv
<1>9. BitsInv(s)
  <2>1. FirstBit[stream][1] = 0
    BY FirstBitStep
  <2>2. ToByte(0) = 0
    BY DEF ToByte
  <2>3. Position(s) = 0
    BY <1>3, <1>4, <2>1, <2>2 DEF Position
  <2> QED
    BY <1>3, <1>4, <2>3 DEF BitsInv
<1>10. FastInv(s) /\ LastInv(s)
  BY <1>3, <1>4 DEF FastInv, LastInv
<1>11. DataInv(s)
  <2>1. Goal(s) = <<>>
    BY <1>3, <1>4, OutputStep DEF Goal
  <2>2. Done(s) = 0
    BY <1>3, <1>4, <2>1 DEF Done
  <2>3. Sent(s, <<>>, 0)
    BY <1>4 DEF Sent, PendingLen
  <2>4. Kept(s, <<>>, 0)
    BY DEF Kept
  <2> QED
    BY <1>4, <2>1, <2>2, <2>3, <2>4 DEF DataInv
<1>12. ReturnInv(s)
  BY <1>4 DEF ReturnInv
<1> QED
  BY <1>6, <1>8, <1>9, <1>10, <1>11, <1>12 DEF Inv, Core

LEMMA PulledType ==
    ASSUME NEW s \in State, NEW n \in Nat, n <= s.avail, s.k + 8 * n <= 32
    PROVE  Pulled(s, n) \in State
<1> DEFINE t == Pulled(s, n)
           r == IF n > 0 THEN "ok" ELSE s.r
<1>1. t = [s EXCEPT !.k = s.k + 8 * n, !.in = s.in + n, !.avail = s.avail - n, !.r = r]
  BY DEF Pulled, State
<1>2. /\ s.k + 8 * n \in 0 .. 32 /\ s.in + n \in Nat /\ s.avail - n \in Nat
  <2>1. s.k \in 0 .. 32 /\ s.in \in Nat /\ s.avail \in Nat
    BY DEF State
  <2> DEFINE k == s.k   b == 8 * n   a == s.avail
  <2>2. k \in Nat /\ b \in Nat /\ a \in Nat /\ n <= a /\ k + b <= 32
    BY <2>1
  <2> HIDE DEF k, b, a
  <2>3. k + b \in 0 .. 32 /\ a - n \in Nat
    BY <2>2
  <2>4. s.in + n \in Nat
    BY <2>1
  <2> QED
    BY <2>3, <2>4 DEF k, b, a
<1>3. r \in Result
  BY DEF State, Result
<1> HIDE DEF t, r
<1>4. t \in State
  BY <1>1, <1>2, <1>3 DEF State
<1> QED
  BY <1>4 DEF t

\* The input is in the piece or in the bit buffer: pulling it moves no bit.
LEMMA PulledCore ==
    ASSUME NEW s, Core(s), NEW n \in Nat, n <= s.avail,
           s.mode \in {"TYPE", "LENS", "TABLE", "LEN"},
           s.k + 8 * n <= 32, s.mode # "LENS" => s.k + 8 * n <= 15
    PROVE  /\ Core(Pulled(s, n))
           /\ InData(s) => InData(Pulled(s, n))
<1> DEFINE t == Pulled(s, n)
<1>1. s \in State /\ s.k \in Nat /\ s.in \in Nat /\ s.avail \in Nat
  <2>1. s \in State
    BY DoneType
  <2>2. s.k \in 0 .. 32 /\ s.in \in Nat /\ s.avail \in Nat
    BY <2>1 DEF State
  <2> QED
    BY <2>1, <2>2
<1>2. t \in State
  BY <1>1, PulledType
<1>3. /\ t.stream = s.stream /\ t.item = s.item /\ t.step = s.step /\ t.mode = s.mode
      /\ t.last = s.last /\ t.left = s.left /\ t.window = s.window /\ t.read = s.read
      /\ t.write = s.write /\ t.out = s.out
      /\ t.k = s.k + 8 * n /\ t.in = s.in + n /\ t.avail = s.avail - n
  BY <1>1 DEF Pulled, State
<1> HIDE DEF t
<1>4. /\ Item(t) = Item(s) /\ Kind(t) = Kind(s) /\ Goal(t) = Goal(s) /\ Done(t) = Done(s)
      /\ InData(t) = InData(s) /\ Position(t) = Position(s)
  BY <1>3 DEF Item, Kind, Goal, Done, InData, Position
<1>5. TypeInv(t)
  <2>1. t.in + t.avail = s.in + s.avail
    BY <1>1, <1>3
  <2> QED
    BY <1>2, <1>3, <2>1 DEF Core, TypeInv
<1>6. ModeInv(t)
  BY <1>3, <1>4 DEF Core, ModeInv
<1>7. BitsInv(t)
  <2>1. 8 * s.in - s.k = Position(s)
    BY DEF Core, BitsInv
  <2>2. 8 * t.in - t.k = 8 * s.in - s.k
    BY <1>1, <1>3
  <2>3. t.mode = "LENS" => t.k % 8 = 0
    <3> SUFFICES ASSUME t.mode = "LENS" PROVE t.k % 8 = 0
      OBVIOUS
    <3>1. s.k % 8 = 0
      BY <1>3 DEF Core, BitsInv
    <3> QED
      BY <1>1, <1>3, <3>1
  <2>4. t.mode # "LENS" => t.k <= 15
    BY <1>3
  <2> QED
    BY <1>3, <1>4, <2>1, <2>2, <2>3, <2>4 DEF BitsInv
<1>8. FastInv(t)
  BY <1>3 DEF FastInv
<1>9. LastInv(t)
  BY <1>3 DEF Core, LastInv
<1>10. DataInv(t)
  BY <1>3, <1>4, SameWindow DEF Core, DataInv
<1> QED
  BY <1>4, <1>5, <1>6, <1>7, <1>8, <1>9, <1>10 DEF Core, t

\* How many bits each mode asks for.
LEMMA WantedType ==
    ASSUME NEW s, Core(s), s.mode \in {"TYPE", "LENS", "TABLE", "LEN"}
    PROVE  /\ Wanted(s) \in 0 .. 32 /\ (s.mode # "LENS" => Wanted(s) <= 14)
           /\ s.mode = "LENS" => Wanted(s) = 32
           /\ s.mode \in {"TABLE", "LEN"} =>
                /\ Item(s).steps \in Seq(Lookup) /\ Item(s).steps # << >>
                /\ s.step \in 1 .. Len(Item(s).steps)
                /\ Item(s).steps[s.step] \in Lookup
                /\ Wanted(s) = Item(s).steps[s.step].need
           /\ InData(s) /\ GoodItem(Item(s)) /\ s.item \in 1 .. Len(s.stream)
<1>1. /\ s.stream \in Streams /\ s.item \in 1 .. Len(s.stream) + 1 /\ Len(s.stream) \in Nat
  BY DoneType
<1>2. ModeInv(s)
  BY DEF Core
<1>3. s.item \in 1 .. Len(s.stream) /\ s.item <= Len(s.stream)
  BY <1>1, <1>2 DEF ModeInv
<1>4. GoodItem(Item(s))
  BY <1>1, <1>3, StreamType DEF Item
<1>5. InData(s)
  BY <1>2, <1>3 DEF InData, ModeInv, BlockKind, CodeKind, ByteKind
<1>6. CASE s.mode \in {"TABLE", "LEN"}
  <2> DEFINE steps == Item(s).steps
  <2>1. steps \in Seq(Lookup) /\ steps # << >> /\ s.step \in 1 .. Len(steps)
    BY <1>2, <1>4, <1>6 DEF GoodItem, ModeInv, Kind, CodeShape
  <2>2. Wanted(s) = steps[s.step].need
    BY <1>6 DEF Wanted
  <2>3. steps[s.step] \in Lookup
    BY <2>1, ElementOfSeq
  <2>4. steps[s.step].need \in 0 .. 14
    BY <2>3 DEF Lookup
  <2> QED
    <3>1. Wanted(s) \in 0 .. 32 /\ Wanted(s) <= 14
      BY <2>2, <2>4
    <3>2. s.mode # "LENS"
      BY <1>6
    <3> HIDE DEF steps
    <3> QED
      BY <1>3, <1>4, <1>5, <1>6, <2>1, <2>2, <2>3, <3>1, <3>2 DEF steps
<1>7. CASE s.mode \in {"TYPE", "LENS"}
  BY <1>3, <1>4, <1>5, <1>7 DEF Wanted
<1> QED
  BY <1>6, <1>7

LEMMA MissingIs ==
    ASSUME NEW s, NEW bits \in 0 .. 32, s.k \in 0 .. 32
    PROVE  /\ Missing(s, bits) \in Nat
           /\ s.k >= bits => Missing(s, bits) = 0
           /\ s.k < bits => s.k + 8 * Missing(s, bits) \in bits .. bits + 7
<1> DEFINE a == bits - s.k + 7
           m == a \div 8
<1>1. CASE s.k >= bits
  BY <1>1 DEF Missing
<1>2. CASE s.k < bits
  <2>1. Missing(s, bits) = m
    BY <1>2 DEF Missing
  <2>2. a \in Nat /\ a = bits - s.k + 7
    BY <1>2
  <2> HIDE DEF a
  <2>3. m \in Nat /\ 8 * m <= a /\ a <= 8 * m + 7
    BY <2>2
  <2> HIDE DEF m
  <2> QED
    BY <1>2, <2>1, <2>2, <2>3
<1> QED
  BY <1>1, <1>2

LEMMA OutOfInputInv ==
    ASSUME Inv(z), OutOfInput
    PROVE  Inv(z')
<1> DEFINE n == z.avail
           t == Pulled(z, n)
<1>1. z.inCall /\ z.mode \in {"TYPE", "LENS", "TABLE", "LEN"} /\ ~ HasBits /\ z' = Leave(t)
  BY DEF OutOfInput, In
<1>2. Core(z) /\ z \in State /\ z.k \in 0 .. 32 /\ n \in Nat
  BY DoneType DEF Inv, State
<1>3. Wanted(z) \in 0 .. 32 /\ (z.mode # "LENS" => Wanted(z) <= 14) /\ InData(z)
      /\ (z.mode = "LENS" => Wanted(z) = 32)
  BY <1>1, <1>2, WantedType
<1>4. n < Missing(z, Wanted(z)) /\ Missing(z, Wanted(z)) \in Nat
  BY <1>1, <1>2, <1>3, MissingIs DEF HasBits
<1> DEFINE w == Wanted(z)
           m == Missing(z, w)
<1>5. w \in 0 .. 32 /\ m \in Nat /\ (z.k >= w => m = 0)
      /\ (z.k < w => z.k + 8 * m \in w .. w + 7) /\ n < m
  BY <1>2, <1>3, <1>4, MissingIs
<1> HIDE DEF w, m, n
<1>6. z.k + 8 * n < w
  BY <1>2, <1>5
<1>7. Core(t) /\ InData(t)
  <2>1. z.k + 8 * n <= 32 /\ (z.mode # "LENS" => z.k + 8 * n <= 15)
    BY <1>2, <1>3, <1>5, <1>6 DEF w
  <2>2. n <= z.avail
    BY <1>2 DEF n
  <2> QED
    BY <1>1, <1>2, <1>3, <2>1, <2>2, PulledCore
<1>8. t.avail = 0 /\ t.mode = z.mode /\ t.r \in {z.r, "ok"}
  BY <1>2 DEF Pulled, State, n
<1>9. z.r \in {"ok", "buf"}
  BY <1>1, InvGoing
<1> HIDE DEF t
<1> QED
  BY <1>1, <1>7, <1>8, <1>9, LeaveInv

LEMMA OutOfRoomInv ==
    ASSUME Inv(z), OutOfRoom
    PROVE  Inv(z')
<1> DEFINE t == NeedOut(z)
<1>1. z.inCall /\ z.mode \in {"STORED", "LIT", "COPY"} /\ ~ (Space(t) > 0) /\ z' = Leave(t)
  BY DEF OutOfRoom, In, HasRoom
<1>2. Core(z)
  BY DEF Inv
<1>3. InData(z)
  <2>1. z.item \in 1 .. Len(z.stream) + 1 /\ Len(z.stream) \in Nat
    BY <1>2, DoneType
  <2> QED
    BY <1>1, <1>2, <2>1 DEF Core, ModeInv, InData, ByteKind
<1>4. /\ Core(t) /\ Frame(z, t) /\ t.r \in {z.r} \cup (IF z.r = "buf" THEN {"ok"} ELSE {})
      /\ Space(t) > 0 \/ t.room = 0
  BY <1>1, <1>2, <1>3, NeedOutCore
<1>5. z.r \in {"ok", "buf"}
  BY <1>1, InvGoing
<1> HIDE DEF t
<1>6. InData(t)
  BY <1>3, <1>4 DEF InData, Frame, Kind, Item
<1>7. t.mode = z.mode /\ t.room = 0
  BY <1>1, <1>4 DEF Frame
<1> QED
  BY <1>1, <1>4, <1>5, <1>6, <1>7, LeaveInv

LEMMA StartInv ==
    ASSUME Inv(z), Start
    PROVE  Inv(z')
<1>1. z.inCall /\ z.mode = "START" /\ Core(z)
  BY DEF Start, In, Inv
<1>2. z.r \in {"ok", "buf"}
  BY <1>1, InvGoing
<1> DEFINE m == IF Space(z) >= MaxMatch /\ z.avail >= FastInput THEN "FAST" ELSE "LEN"
           t == [z EXCEPT !.mode = m]
<1>3. z' = t
  BY DEF Start
<1>4. z \in State /\ z.avail \in Nat
  BY <1>1, DoneType DEF State
<1>5. /\ t.stream = z.stream /\ t.item = z.item /\ t.step = z.step /\ t.mode = m
      /\ t.last = z.last /\ t.left = z.left /\ t.k = z.k /\ t.window = z.window
      /\ t.read = z.read /\ t.write = z.write /\ t.out = z.out /\ t.in = z.in
      /\ t.avail = z.avail /\ t.inCall = z.inCall /\ t.r = z.r
  BY <1>4 DEF State
<1>6. t \in State
  <2>1. m \in Mode
    BY DEF Mode
  <2>2. t = [z EXCEPT !.mode = m]
    OBVIOUS
  <2> HIDE DEF t, m
  <2> QED
    BY <1>4, <2>1, <2>2 DEF State
<1>7. m \in {"FAST", "LEN"} /\ (m = "FAST" => Space(z) >= MaxMatch /\ z.avail >= FastInput)
  OBVIOUS
<1> HIDE DEF t, m
<1>8. /\ Item(t) = Item(z) /\ Kind(t) = Kind(z) /\ InData(t) = InData(z)
      /\ Goal(t) = Goal(z) /\ Done(t) = Done(z) /\ Position(t) = Position(z)
  BY <1>1, <1>5, <1>7 DEF Item, Kind, InData, Goal, Done, Position
<1>9. /\ z.step = 1 /\ Kind(z) \in CodeKind
  BY <1>1 DEF Core, ModeInv
<1>10. TypeInv(t)
  BY <1>1, <1>5, <1>6 DEF Core, TypeInv
<1>11. ModeInv(t)
  <2>1. z.item \in 1 .. Len(z.stream)
    BY <1>1, DoneType DEF Core, ModeInv
  <2>2. GoodItem(Item(z))
    BY <1>1, <2>1, DoneType, StreamType DEF Item
  <2>3. Item(z).steps \in Seq(Lookup) /\ Item(z).steps # << >>
    BY <1>9, <2>2 DEF GoodItem, Kind, CodeShape
  <2>4. 1 \in 1 .. Len(Item(z).steps)
    BY <2>3
  <2>5. z.item # Len(z.stream) + 1
    BY <1>1 DEF Core, ModeInv
  <2> QED
    BY <1>5, <1>7, <1>8, <1>9, <2>4, <2>5 DEF ModeInv
<1>12. BitsInv(t)
  BY <1>1, <1>5, <1>7, <1>8 DEF Core, BitsInv
<1>13. FastInv(t)
  <2> SUFFICES ASSUME m = "FAST" PROVE FastInv(t)
    BY <1>5 DEF FastInv
  <2>1. Space(t) >= MaxMatch
    BY <1>5, <1>7, SameWindow
  <2>2. t.avail >= 7
    BY <1>4, <1>5, <1>7, SizeAssumption
  <2>3. Reserve(Item(t).steps, 1) = 7
    BY DEF Reserve
  <2> QED
    BY <1>5, <1>9, <2>1, <2>2, <2>3 DEF FastInv
<1>14. LastInv(t)
  BY <1>1, <1>5 DEF Core, LastInv
<1>15. DataInv(t)
  BY <1>1, <1>5, <1>8, SameWindow DEF Core, DataInv
<1> QED
  BY <1>1, <1>2, <1>3, <1>5, <1>10, <1>11, <1>12, <1>13, <1>14, <1>15, GoingInv DEF Core

LEMMA BadCodeInv ==
    ASSUME Inv(z), BadCode
    PROVE  Inv(z')
<1> DEFINE t == [z EXCEPT !.r = "data"]
<1>1. z.inCall /\ z.mode = "BADCODE" /\ Core(z) /\ z' = Leave(t)
  BY DEF BadCode, In, Inv
<1>2. z \in State
  BY <1>1, DoneType
<1>3. /\ Place(z, t) /\ t.read = z.read /\ t.write = z.write /\ t.out = z.out
      /\ t.window = z.window /\ t.r = "data"
  BY <1>2 DEF Place, State
<1>4. t \in State
  <2>1. t = [z EXCEPT !.r = "data"]
    OBVIOUS
  <2> HIDE DEF t
  <2> QED
    BY <1>2, <2>1 DEF State, Result
<1> HIDE DEF t
<1>5. Core(t)
  <2>1. Sent(t, Goal(z), Done(z)) /\ (InData(z) => Kept(t, Goal(z), Done(z)))
        /\ (~ InData(z) => t.read = t.write)
    BY <1>1, <1>3, SameWindow DEF Core, DataInv
  <2> QED
    BY <1>1, <1>3, <1>4, <2>1, DoneType, PlaceKeeps
<1>6. InData(t)
  <2>1. z.item \in 1 .. Len(z.stream) + 1 /\ Len(z.stream) \in Nat
    BY <1>1, DoneType
  <2> QED
    BY <1>1, <1>3, <2>1 DEF Core, ModeInv, InData, ByteKind, Place, Kind, Item
<1>7. t.mode = "BADCODE"
  BY <1>1, <1>3 DEF Place
<1> QED
  BY <1>1, <1>3, <1>5, <1>6, <1>7, LeaveInv

LEMMA CallInv ==
    ASSUME Inv(z), Call
    PROVE  Inv(z')
<1>1. PICK room \in OutSizes, size \in InSizes, f \in {"ok", "buf"} :
        LET more == Min({size, Bytes(z.stream) - z.in})
        IN  z' = [z EXCEPT !.inCall = TRUE, !.room = room, !.f = f, !.r = "buf",
                           !.avail = IF @ = 0 THEN more ELSE @,
                           !.base = IF z.avail = 0 THEN z.in ELSE @]
  BY DEF Call, CallWith
<1> DEFINE more == Min({size, Bytes(z.stream) - z.in})
           a == IF z.avail = 0 THEN more ELSE z.avail
           b == IF z.avail = 0 THEN z.in ELSE z.base
           t == z'
<1>2. Core(z) /\ z \in State
  BY DoneType DEF Inv
<1>3. t = [z EXCEPT !.inCall = TRUE, !.room = room, !.f = f, !.r = "buf", !.avail = a, !.base = b]
  BY <1>1, <1>2 DEF State
<1>4. z.in \in Nat /\ z.avail \in Nat /\ z.base \in Nat /\ z.stream \in Streams
  BY <1>2 DEF State
<1>5. z.in + z.avail <= Bytes(z.stream) /\ Bytes(z.stream) \in Nat
  BY <1>2, <1>4, BytesType DEF Core, TypeInv
<1>6. more \in Nat /\ z.in + more <= Bytes(z.stream)
  <2> DEFINE rest == Bytes(z.stream) - z.in
  <2>1. size \in Nat /\ rest \in Nat /\ z.in + rest = Bytes(z.stream)
    BY <1>4, <1>5, SizeAssumption
  <2> HIDE DEF rest
  <2>2. Min({size, rest}) = IF size <= rest THEN size ELSE rest
    BY <2>1, MinOfTwo
  <2>3. more = IF size <= rest THEN size ELSE rest
    BY <2>2 DEF rest
  <2> HIDE DEF more
  <2> QED
    BY <1>4, <2>1, <2>3
<1> HIDE DEF more
<1>7. a \in Nat /\ b \in Nat /\ z.in + a <= Bytes(z.stream) /\ (z.avail # 0 => a = z.avail)
  BY <1>4, <1>5, <1>6
<1>8. room \in Nat
  BY SizeAssumption
<1> HIDE DEF a, b, t
<1>9. t \in State
  BY <1>2, <1>3, <1>7, <1>8 DEF State, Result
<1>10. /\ t.stream = z.stream /\ t.item = z.item /\ t.step = z.step /\ t.mode = z.mode
       /\ t.last = z.last /\ t.left = z.left /\ t.k = z.k /\ t.window = z.window
       /\ t.read = z.read /\ t.write = z.write /\ t.out = z.out /\ t.in = z.in
       /\ t.avail = a /\ t.inCall = TRUE /\ t.r = "buf"
  BY <1>2, <1>3 DEF State
<1>11. /\ Item(t) = Item(z) /\ Kind(t) = Kind(z) /\ InData(t) = InData(z)
       /\ Goal(t) = Goal(z) /\ Done(t) = Done(z) /\ Position(t) = Position(z)
  BY <1>10 DEF Item, Kind, InData, Goal, Done, Position
<1>12. TypeInv(t)
  BY <1>2, <1>7, <1>9, <1>10 DEF Core, TypeInv
<1>13. ModeInv(t)
  BY <1>2, <1>10, <1>11 DEF Core, ModeInv
<1>14. BitsInv(t)
  BY <1>2, <1>10, <1>11 DEF Core, BitsInv
<1>15. FastInv(t)
  <2> SUFFICES ASSUME z.mode = "FAST" PROVE FastInv(t)
    BY <1>10 DEF FastInv
  <2>1. Reserve(Item(z).steps, z.step) > 0
    BY DEF Reserve
  <2>2. z.avail # 0
    BY <1>2, <1>4, <2>1 DEF Core, FastInv, Reserve
  <2>3. t.avail = z.avail /\ Space(t) = Space(z)
    BY <1>7, <1>10, <2>2, SameWindow
  <2> QED
    BY <1>2, <1>10, <1>11, <2>3 DEF Core, FastInv
<1>16. LastInv(t)
  BY <1>2, <1>10 DEF Core, LastInv
<1>17. DataInv(t)
  BY <1>2, <1>10, <1>11, SameWindow DEF Core, DataInv
<1> QED
  BY <1>10, <1>12, <1>13, <1>14, <1>15, <1>16, <1>17, GoingInv DEF Core, t

LEMMA FinishedInv ==
    ASSUME Inv(z), Finished
    PROVE  Inv(z')
<1> DEFINE t == Return(z, "end")
<1>1. z.inCall /\ z.mode = "FINISHED" /\ Core(z) /\ z' = t
  BY DEF Finished, In, Inv
<1>2. z.r \in {"ok", "buf"}
  BY <1>1, InvGoing
<1>3. "end" \in Result
  BY DEF Result
<1>4. Core(t) /\ Place(z, t) /\ t.r = z.r /\ t.inCall = FALSE /\ t.ret = "end"
  BY <1>1, <1>3, ReturnCore
<1> HIDE DEF t
<1>5. ReturnInv(t)
  BY <1>1, <1>2, <1>4 DEF ReturnInv, Place
<1> QED
  BY <1>1, <1>4, <1>5 DEF Inv

LEMMA ByteInv ==
    ASSUME Inv(z), Byte
    PROVE  Inv(z')
<1> DEFINE s == [z EXCEPT !.avail = z.avail - 1, !.in = z.in + 1, !.r = z.f]
           good == /\ Item(z).good
                   /\ Item(z).kind = "check" => z.out = Output[z.stream][z.item]
<1>1. z.inCall /\ z.mode = "BYTE" /\ Core(z) /\ z \in State
  BY DoneType DEF Byte, In, Inv
<1>2. z' = IF z.avail = 0 THEN Return(z, z.r) ELSE IF good THEN Advance(s) ELSE Error(s)
  BY <1>1 DEF Byte, State
<1>3. z.r \in {"ok", "buf"}
  BY <1>1, InvGoing
<1> HIDE DEF good
<1>4. CASE z.avail = 0
  <2> DEFINE code == z.r
             t == Return(z, code)
  <2>1. code \in Result /\ code \in {"ok", "buf"}
    BY <1>3 DEF Result
  <2> HIDE DEF code
  <2>2. Core(t) /\ Place(z, t) /\ t.r = z.r /\ t.inCall = FALSE /\ t.ret = code
    BY <1>1, <2>1, ReturnCore
  <2> HIDE DEF t
  <2>3. ReturnInv(t)
    BY <1>3, <1>4, <2>1, <2>2 DEF ReturnInv, Place
  <2>4. z' = t
    BY <1>2, <1>4 DEF t, code
  <2> QED
    BY <2>2, <2>3, <2>4 DEF Inv
<1>5. CASE z.avail # 0
  <2>1. /\ z.in \in Nat /\ z.avail \in Nat /\ z.f \in {"ok", "buf"} /\ z.stream \in Streams
        /\ z.k \in 0 .. 32
    BY <1>1 DEF State
  <2>2. /\ z.item \in 1 .. Len(z.stream) /\ Len(z.stream) \in Nat /\ z.item # 0
    BY <1>1, DoneType DEF Core, ModeInv
  <2>3. z.avail - 1 \in Nat /\ z.in + 1 \in Nat /\ (z.in + 1) + (z.avail - 1) = z.in + z.avail
    BY <1>5, <2>1
  <2>4. s \in State
    <3> DEFINE a == z.avail - 1
               i == z.in + 1
               r == z.f
    <3>1. s = [z EXCEPT !.avail = a, !.in = i, !.r = r]
      OBVIOUS
    <3>2. r \in Result /\ a \in Nat /\ i \in Nat
      BY <2>1, <2>3 DEF Result
    <3> HIDE DEF s, a, i, r
    <3> QED
      BY <1>1, <3>1, <3>2 DEF State
  <2>5. /\ s.stream = z.stream /\ s.item = z.item /\ s.step = z.step /\ s.mode = z.mode
        /\ s.last = z.last /\ s.left = z.left /\ s.k = z.k /\ s.window = z.window
        /\ s.read = z.read /\ s.write = z.write /\ s.out = z.out /\ s.in = z.in + 1
        /\ s.avail = z.avail - 1 /\ s.inCall = z.inCall /\ s.r = z.f
    BY <1>1 DEF State
  <2> HIDE DEF s
  <2>6. Kind(z) \in ByteKind /\ ~ InData(z) /\ z.k = 0
    BY <1>1 DEF Core, ModeInv, InData, BitsInv
  <2>7. z.read = z.write
    BY <1>1, <2>6 DEF Core, DataInv
  <2>8. s.in + s.avail <= Bytes(s.stream) /\ s.read # WindowSize
    BY <1>1, <2>3, <2>5 DEF Core, TypeInv
  <2>9. CASE good
    <3> DEFINE t == Advance(s)
               h == z.item + 1
    <3>1. /\ t \in State /\ t.item = s.item + 1 /\ t.step = 1 /\ t.mode = EntryMode(s.stream, s.item + 1)
          /\ t.stream = s.stream /\ t.last = s.last /\ t.k = s.k
          /\ t.window = s.window /\ t.read = s.read /\ t.write = s.write /\ t.in = s.in
          /\ t.avail = s.avail /\ t.out = s.out /\ t.inCall = s.inCall /\ t.r = s.r
      <4>1. s.item # 0
        BY <2>2, <2>5
      <4> QED
        BY <2>4, <4>1, AdvanceFields
    <3>2. t.item = h /\ t.mode = EntryMode(z.stream, h) /\ t.stream = z.stream
      BY <2>5, <3>1
    <3>3. z' = t
      BY <1>2, <1>5, <2>9
    <3> HIDE DEF t
    <3>4. h \in Nat \ {0} /\ h \in 1 .. Len(z.stream) + 1 /\ (h <= Len(z.stream) <=> z.item < Len(z.stream))
          /\ (h > Len(z.stream) <=> h = Len(z.stream) + 1)
      BY <2>2
    <3>5. /\ Output[z.stream][h] = Output[z.stream][z.item]
          /\ FirstBit[z.stream][h] = ToByte(FirstBit[z.stream][z.item]) + 8
          /\ FirstBit[z.stream][z.item] \in Nat
      <4>1. Output[z.stream][h] = Extended(Output[z.stream][z.item], z.stream[z.item])
        BY <2>1, <2>2, OutputStep
      <4>2. FirstBit[z.stream][h] = ItemEnd(z.stream[z.item], FirstBit[z.stream][z.item])
        BY <2>1, <2>2, FirstBitStep
      <4>3. z.stream[z.item].kind \in ByteKind
        BY <2>6 DEF Kind, Item
      <4>4. z.item \in 1 .. Len(z.stream) + 1
        BY <2>2
      <4> HIDE DEF h
      <4>5. Output[z.stream][h] = Output[z.stream][z.item]
        BY <4>1, <4>3 DEF Extended, ByteKind
      <4> DEFINE bit == FirstBit[z.stream][z.item]
      <4>6. bit \in Nat
        BY <2>1, <4>4, FirstBitStep
      <4> HIDE DEF bit
      <4>7. ItemEnd(z.stream[z.item], bit) = ToByte(bit) + 8
        BY <4>3 DEF ItemEnd, ByteKind, BlockKind, CodeKind
      <4> QED
        BY <4>2, <4>5, <4>6, <4>7 DEF bit
    <3>6. 8 * z.in = ToByte(FirstBit[z.stream][z.item])
      <4>1. 8 * z.in - z.k = Position(z)
        BY <1>1 DEF Core, BitsInv
      <4>2. Position(z) = ToByte(FirstBit[z.stream][z.item])
        BY <1>1 DEF Position
      <4> QED
        BY <2>1, <2>6, <4>1, <4>2
    <3>7. 8 * t.in = FirstBit[z.stream][h] /\ t.in \in Nat
      BY <2>1, <2>3, <2>5, <3>1, <3>5, <3>6
    <3>8. NextItem(z, t)
      <4>1. Goal(z) = Output[z.stream][z.item] /\ Done(z) = Len(Goal(z)) - 0
        BY <1>1 DEF Goal, Done
      <4>2. Goal(z) \in Seq(Octet)
        BY <1>1, DoneType
      <4>3. Sent(z, Output[z.stream][h], Len(Output[z.stream][h]))
        BY <1>1, <3>5, <4>1, <4>2 DEF Core, DataInv
      <4>4. Sent(t, Output[z.stream][h], Len(Output[z.stream][h]))
        BY <2>5, <3>1, <4>3, SameWindow
      <4> QED
        BY <2>2, <2>5, <2>8, <3>1, <3>2, <4>4 DEF NextItem
    <3>9. CASE z.item < Len(z.stream) /\ z.stream[h].kind \in BlockKind
      <4>1. t.mode = "TYPE"
        BY <2>1, <3>2, <3>4, <3>9, EntryModeIs
      <4>2. Output[z.stream][h] = <<>>
        <5>1. z.stream[z.item].kind \in ByteKind
          BY <2>6 DEF Kind, Item
        <5>2. z.stream[z.item].kind # "check"
          <6> SUFFICES ASSUME z.stream[z.item].kind = "check" PROVE FALSE
            OBVIOUS
          <6>1. AtEnd(z.stream, h)
            BY <2>1, <2>2, Follows
          <6> QED
            BY <2>2, <3>9, <6>1 DEF AtEnd, BlockKind
        <5>3. z.stream[z.item].kind \in {"method", "flag"}
          BY <5>1, <5>2 DEF ByteKind
        <5> QED
          BY <2>1, <2>2, <5>3, HeaderFirst
      <4>3. Kept(t, <<>>, 0)
        BY DEF Kept
      <4>4. t.k = 0
        BY <2>5, <2>6, <3>1
      <4>5. AtBlock(z, t)
        <5>1. 8 * t.in - t.k = FirstBit[z.stream][h]
          BY <3>7, <4>4
        <5>2. Kept(t, Output[z.stream][h], Len(Output[z.stream][h]))
          BY <4>2, <4>3
        <5> QED
          BY <3>8, <3>9, <4>1, <4>4, <5>1, <5>2 DEF AtBlock
      <4>6. Core(t)
        BY <4>5, AtBlockCore
      <4> QED
        BY <1>1, <2>1, <2>5, <3>1, <3>3, <4>6, GoingInv
    <3>10. CASE ~ (z.item < Len(z.stream) /\ z.stream[h].kind \in BlockKind)
      <4>1. h <= Len(z.stream) => z.stream[h].kind \in ByteKind
        <5> SUFFICES ASSUME h <= Len(z.stream) PROVE z.stream[h].kind \in ByteKind
          OBVIOUS
        <5>1. z.stream[z.item].kind \in ByteKind
          BY <2>6 DEF Kind, Item
        <5>2. /\ z.stream[z.item].kind = "method" => z.stream[h].kind = "flag"
              /\ z.stream[z.item].kind = "flag" => z.stream[h].kind \in BlockKind
              /\ z.stream[z.item].kind = "check" => AtEnd(z.stream, h)
          BY <2>1, <2>2, Follows
        <5>3. ~ (h > Len(z.stream)) /\ z.item < Len(z.stream)
          BY <2>2, <3>4
        <5> QED
          BY <3>10, <5>1, <5>2, <5>3 DEF ByteKind, AtEnd
      <4>2. /\ t.mode = "FINISHED" <=> h = Len(z.stream) + 1
            /\ t.mode \in {"BYTE", "FINISHED"}
        <5>1. CASE h <= Len(z.stream)
          <6>1. z.stream[h].kind \in ByteKind
            BY <4>1, <5>1
          <6>2. ~ (h > Len(z.stream))
            BY <2>2, <5>1
          <6> HIDE DEF h
          <6> QED
            BY <2>1, <3>2, <3>4, <5>1, <6>1, <6>2, EntryModeIs
        <5>2. CASE h > Len(z.stream)
          <6> HIDE DEF h
          <6> QED
            BY <2>1, <3>2, <3>4, <5>2, EntryModeIs
        <5> QED
          BY <2>2, <5>1, <5>2
      <4>3. t.mode = "BYTE" => Kind(t) \in ByteKind
        BY <2>2, <3>2, <3>4, <4>1, <4>2 DEF Kind, Item
      <4>4. ToByte(FirstBit[z.stream][h]) = 8 * t.in
        <5> DEFINE bit == FirstBit[z.stream][h]
                   i == t.in
        <5>1. bit = 8 * i /\ i \in Nat
          BY <3>7
        <5> HIDE DEF bit, i
        <5>2. bit \in Nat /\ 8 * i \in bit .. bit + 7
          BY <5>1
        <5>3. ToByte(bit) = 8 * i
          BY <5>1, <5>2, ToByteIs
        <5> QED
          BY <5>3 DEF bit, i
      <4>5. AtByte(z, t)
        BY <2>5, <2>6, <2>7, <3>1, <3>2, <3>8, <4>2, <4>3, <4>4 DEF AtByte
      <4>6. Core(t)
        BY <4>5, AtByteCore
      <4> QED
        BY <1>1, <2>1, <2>5, <3>1, <3>3, <4>6, GoingInv
    <3> QED
      BY <3>9, <3>10
  <2>10. CASE ~ good
    <3> DEFINE t == Error(s)
    <3>t. t = [s EXCEPT !.mode = "BAD", !.inCall = FALSE, !.ret = "data"]
      BY <2>4 DEF Error, Return, State
    <3>1. /\ t.stream = z.stream /\ t.item = z.item /\ t.mode = "BAD" /\ t.read = z.read
          /\ t.write = z.write /\ t.out = z.out /\ t.window = z.window
          /\ t.in = s.in /\ t.avail = s.avail /\ t.r = s.r /\ t.inCall = FALSE /\ t.ret = "data"
      BY <2>4, <2>5, <3>t DEF State
    <3>2. z' = t
      BY <1>2, <1>5, <2>10
    <3> HIDE DEF t
    <3>3. t \in State
      BY <2>4, <3>t DEF State, Mode, Result
    <3>4. TypeInv(t)
      BY <2>2, <2>5, <2>8, <3>1, <3>3 DEF TypeInv
    <3>5. ModeInv(t)
      BY <2>2, <3>1 DEF ModeInv
    <3>6. BitsInv(t) /\ FastInv(t) /\ LastInv(t)
      BY <3>1 DEF BitsInv, FastInv, LastInv
    <3>7. DataInv(t)
      <4>1. Goal(t) = Goal(z) /\ Done(t) = Done(z) /\ InData(t) = InData(z)
        BY <1>1, <3>1 DEF Goal, Done, InData, Kind, Item
      <4> QED
        BY <1>1, <3>1, <4>1, SameWindow DEF Core, DataInv
    <3>8. ReturnInv(t)
      BY <2>1, <2>5, <3>1 DEF ReturnInv
    <3> QED
      BY <3>2, <3>4, <3>5, <3>6, <3>7, <3>8 DEF Inv, Core
  <2> QED
    BY <2>9, <2>10
<1> QED
  BY <1>4, <1>5

-----------------------------------------------------------------------------
(* inflate_blocks                                                          *)

\* More output than was asked about.
LEMMA Longer ==
    ASSUME NEW s \in State, s.read # WindowSize, NEW D, NEW E, NEW N \in Nat,
           \A i \in 1 .. N : E[i] = D[i]
    PROVE  /\ Sent(s, D, N) => Sent(s, E, N)
           /\ Kept(s, D, N) => Kept(s, E, N)
<1>1. ASSUME Sent(s, D, N) PROVE Sent(s, E, N)
  <2>1. PendingLen(s) \in Nat /\ Len(s.out) \in Nat
    <3>1. /\ s.read \in 0 .. WindowSize /\ s.write \in 0 .. WindowSize /\ WindowSize \in Nat
          /\ s.out \in Seq(Octet)
      BY WindowAssumption DEF State
    <3> QED
      BY <3>1 DEF PendingLen
  <2>2. Len(s.out) + PendingLen(s) = N /\ \A i \in 1 .. Len(s.out) : s.out[i] = D[i]
    BY <1>1 DEF Sent
  <2>3. \A i \in 1 .. Len(s.out) : i \in 1 .. N
    BY <2>1, <2>2
  <2> QED
    BY <2>2, <2>3 DEF Sent
<1>2. ASSUME Kept(s, D, N) PROVE Kept(s, E, N)
  <2> SUFFICES ASSUME NEW j \in 1 .. WindowSize, j <= N
               PROVE  s.window[Back(s, j)] = E[N - j + 1]
    BY DEF Kept
  <2>1. s.window[Back(s, j)] = D[N - j + 1]
    BY <1>2 DEF Kept
  <2>2. N - j + 1 \in 1 .. N
    BY WindowAssumption
  <2> QED
    BY <2>1, <2>2
<1> QED
  BY <1>1, <1>2

\* What an item adds to the output.
LEMMA ItemOutput ==
    ASSUME NEW stream \in Streams, NEW i \in 1 .. Len(stream)
    PROVE  LET D == Output[stream][i]
               E == Output[stream][i + 1]
               item == stream[i]
           IN  /\ D \in Seq(Octet) /\ E \in Seq(Octet) /\ Len(D) \in Nat /\ Len(E) \in Nat
               /\ \A n \in 1 .. Len(D) : E[n] = D[n]
               /\ item.kind = "stored" =>
                    /\ item.bytes \in Seq(Octet)
                    /\ Len(E) = Len(D) + Len(item.bytes)
                    /\ \A n \in 1 .. Len(item.bytes) : E[Len(D) + n] = item.bytes[n]
               /\ item.kind = "literal" =>
                    item.sym \in Octet /\ Len(E) = Len(D) + 1 /\ E[Len(D) + 1] = item.sym
               /\ item.kind = "match" =>
                    /\ item.len \in 3 .. MaxMatch /\ item.dist \in 1 .. WindowSize
                    /\ item.dist <= Len(D) /\ Len(E) = Len(D) + item.len
                    /\ \A n \in Len(D) + 1 .. Len(D) + item.len : E[n] = E[n - item.dist]
               /\ item.kind \notin {"stored", "literal", "match"} => E = D
<1> DEFINE D == Output[stream][i]
           E == Output[stream][i + 1]
           item == stream[i]
           h == i + 1
<1>1. Len(stream) \in Nat /\ i \in 1 .. Len(stream) + 1 /\ h \in 1 .. Len(stream) + 1
  BY StreamType
<1> HIDE DEF h
<1>2. D \in Seq(Octet) /\ E \in Seq(Octet)
  BY <1>1, OutputType DEF h
<1>3. E = Extended(D, item)
  BY OutputStep
<1>4. GoodItem(item) /\ (item.kind = "match" => item.dist <= Len(D))
  BY StreamType
<1> DEFINE G ==
             /\ \A n \in 1 .. Len(D) : E[n] = D[n]
             /\ item.kind = "stored" =>
                  /\ item.bytes \in Seq(Octet)
                  /\ Len(E) = Len(D) + Len(item.bytes)
                  /\ \A n \in 1 .. Len(item.bytes) : E[Len(D) + n] = item.bytes[n]
             /\ item.kind = "literal" =>
                  item.sym \in Octet /\ Len(E) = Len(D) + 1 /\ E[Len(D) + 1] = item.sym
             /\ item.kind = "match" =>
                  /\ item.len \in 3 .. MaxMatch /\ item.dist \in 1 .. WindowSize
                  /\ item.dist <= Len(D) /\ Len(E) = Len(D) + item.len
                  /\ \A n \in Len(D) + 1 .. Len(D) + item.len : E[n] = E[n - item.dist]
             /\ item.kind \notin {"stored", "literal", "match"} => E = D
<1> HIDE DEF D, E, item
<1>w. Len(D) \in Nat /\ Len(E) \in Nat
  BY <1>2
<1>5. ASSUME item.kind = "stored" PROVE G
  <2>1. item.bytes \in Seq(Octet) /\ E = D \o item.bytes
    BY <1>3, <1>4, <1>5 DEF GoodItem, Extended
  <2>2. /\ Len(E) = Len(D) + Len(item.bytes)
        /\ \A n \in 1 .. Len(D) + Len(item.bytes) :
             E[n] = IF n <= Len(D) THEN D[n] ELSE item.bytes[n - Len(D)]
    BY <1>2, <2>1, ConcatProperties
  <2>3. Len(D) \in Nat /\ Len(item.bytes) \in Nat
    BY <1>2, <2>1
  <2>4. \A n \in 1 .. Len(D) : E[n] = D[n]
    BY <2>2, <2>3
  <2>5. ASSUME NEW n \in 1 .. Len(item.bytes) PROVE E[Len(D) + n] = item.bytes[n]
    <3> DEFINE p == Len(D) + n
    <3>1. p \in 1 .. Len(D) + Len(item.bytes) /\ ~ (p <= Len(D)) /\ p - Len(D) = n
      BY <2>3
    <3> HIDE DEF p
    <3>2. E[p] = item.bytes[p - Len(D)]
      BY <2>2, <3>1
    <3> QED
      BY <3>1, <3>2 DEF p
  <2> QED
    BY <1>5, <2>1, <2>2, <2>4, <2>5
<1>6. ASSUME item.kind = "literal" PROVE G
  <2>1. item.sym \in Octet /\ E = Append(D, item.sym)
    BY <1>3, <1>4, <1>6 DEF GoodItem, Extended
  <2>2. /\ Len(E) = Len(D) + 1 /\ \A n \in 1 .. Len(D) : E[n] = D[n]
        /\ E[Len(D) + 1] = item.sym
    BY <1>2, <2>1, AppendProperties
  <2> QED
    BY <1>6, <2>1, <2>2
<1>7. ASSUME item.kind = "match" PROVE G
  <2>1. /\ item.len \in 3 .. MaxMatch /\ item.dist \in 1 .. WindowSize /\ item.dist <= Len(D)
        /\ E = Repeated(D, item.len, item.dist)
    BY <1>3, <1>4, <1>7 DEF GoodItem, Extended
  <2>2. item.len \in Nat /\ item.dist \in Nat \ {0}
    BY <2>1, WindowAssumption
  <2>3. /\ Len(E) = Len(D) + item.len
        /\ \A n \in 1 .. Len(D) : E[n] = D[n]
        /\ \A n \in Len(D) + 1 .. Len(D) + item.len : E[n] = E[n - item.dist]
    <3> DEFINE rep == Repeated(D, item.len, item.dist)
               len == item.len
               dist == item.dist
    <3>1. len \in Nat /\ dist \in Nat \ {0} /\ dist <= Len(D) /\ rep = Repeated(D, len, dist)
      BY <2>1, <2>2
    <3> HIDE DEF len, dist
    <3>2. /\ Len(rep) = Len(D) + len
          /\ \A n \in 1 .. Len(D) : rep[n] = D[n]
          /\ \A n \in Len(D) + 1 .. Len(D) + len : rep[n] = rep[n - dist]
      <4>1. /\ Len(Repeated(D, len, dist)) = Len(D) + len
            /\ \A n \in 1 .. Len(D) : Repeated(D, len, dist)[n] = D[n]
            /\ \A n \in Len(D) + 1 .. Len(D) + len :
                 Repeated(D, len, dist)[n] = Repeated(D, len, dist)[n - dist]
        BY <1>2, <3>1, RepeatedStep, Zenon
      <4> HIDE DEF rep
      <4> QED
        BY <3>1, <4>1
    <3> HIDE DEF rep
    <3>3. E = rep
      BY <2>1 DEF rep
    <3> QED
      BY <3>2, <3>3 DEF len, dist
  <2> QED
    BY <1>7, <2>1, <2>3
<1>8. ASSUME item.kind \notin {"stored", "literal", "match"} PROVE G
  <2>1. E = D
    BY <1>3, <1>8 DEF Extended
  <2> QED
    BY <1>8, <1>w, <2>1
<1>9. G
  BY <1>5, <1>6, <1>7, <1>8
<1> QED
  BY <1>2, <1>w, <1>9 DEF D, E, item

\* Where the items are whose lookups are done.
LEMMA ItemBits ==
    ASSUME NEW stream \in Streams, NEW i \in 1 .. Len(stream)
    PROVE  LET first == FirstBit[stream][i]
               next == FirstBit[stream][i + 1]
               item == stream[i]
           IN  /\ first \in Nat /\ next \in Nat
               /\ item.kind \in {"stored", "badlens"} =>
                    next = ToByte(first + 3) + 32 + 8 * Len(item.bytes)
               /\ item.kind = "fixed" => next = first + 3
               /\ item.kind = "dynamic" => next = first + 3 + BitsIn(item.steps)
               /\ item.kind \in CodeKind => next = first + BitsIn(item.steps)
<1> DEFINE first == FirstBit[stream][i]
           item == stream[i]
           h == i + 1
<1>1. i \in 1 .. Len(stream) + 1 /\ h \in 1 .. Len(stream) + 1
  BY StreamType
<1> HIDE DEF h
<1>2. first \in Nat /\ FirstBit[stream][h] \in Nat
  BY <1>1, FirstBitStep
<1>3. FirstBit[stream][h] = ItemEnd(item, first)
  BY FirstBitStep DEF h
<1>4. GoodItem(item)
  BY StreamType
<1> HIDE DEF first, item
<1>5. item.kind = "fixed" => ItemEnd(item, first) = first + 3
  <2> SUFFICES ASSUME item.kind = "fixed" PROVE ItemEnd(item, first) = first + 3
    OBVIOUS
  <2>1. item.steps = << >>
    BY <1>4 DEF GoodItem
  <2>2. ItemEnd(item, first) = first + 3 + BitsIn(item.steps)
    BY DEF ItemEnd, ByteKind, BlockKind, CodeKind
  <2>3. << >> \in Seq(Lookup) /\ Len(<< >>) + 1 = 1
    OBVIOUS
  <2>4. BitsIn(<< >>) = 0
    BY <2>3, BitsBeforeStep DEF BitsIn
  <2> QED
    BY <1>2, <2>1, <2>2, <2>4
<1>6. item.kind \in {"stored", "badlens"} =>
        ItemEnd(item, first) = ToByte(first + 3) + 32 + 8 * Len(item.bytes)
  BY DEF ItemEnd, ByteKind, BlockKind, CodeKind
<1>7. item.kind = "dynamic" => ItemEnd(item, first) = first + 3 + BitsIn(item.steps)
  BY DEF ItemEnd, ByteKind, BlockKind, CodeKind
<1>8. item.kind \in CodeKind => ItemEnd(item, first) = first + BitsIn(item.steps)
  BY DEF ItemEnd, ByteKind, BlockKind, CodeKind
<1> QED
  BY <1>2, <1>3, <1>5, <1>6, <1>7, <1>8 DEF first, item, h

LEMMA DryInv ==
    ASSUME Inv(z), Dry
    PROVE  Inv(z')
<1> DEFINE s == Flush(z)
           u == [s EXCEPT !.r = s.f, !.k = 0, !.read = 0, !.write = 0]
           t == Advance(u)
           h == z.item + 1
<1>1. z.inCall /\ z.mode = "DRY" /\ Core(z)
      /\ z' = IF s.read # s.write THEN Leave(s) ELSE t
  <2>1. z.inCall /\ z.mode = "DRY" /\ Core(z)
    BY DEF Dry, In, Inv
  <2>2. z' = IF s.read # s.write THEN Leave(s)
             ELSE Advance([s EXCEPT !.r = s.f, !.k = 0, !.read = 0, !.write = 0])
    BY DEF Dry
  <2> QED
    BY <2>1, <2>2
<1>2. z.r \in {"ok", "buf"}
  BY <1>1, InvGoing
<1>3. /\ z.item \in 1 .. Len(z.stream) /\ Len(z.stream) \in Nat /\ z.stream \in Streams
      /\ Kind(z) \in {"stored", "eob"} /\ z.last /\ z.item # 0
  BY <1>1, DoneType DEF Core, ModeInv
<1>4. InData(z)
  BY <1>3 DEF InData, ByteKind
<1>5. /\ Core(s) /\ Frame(z, s) /\ s.r \in {z.r} \cup (IF z.r = "buf" THEN {"ok"} ELSE {})
      /\ s.room = 0 \/ s.read = s.write
  BY <1>1, <1>4, FlushCore
<1> HIDE DEF s
<1>6. CASE s.read # s.write
  <2>1. InData(s) /\ s.mode = "DRY" /\ s.room = 0 /\ s.r \in {"ok", "buf"}
    BY <1>1, <1>2, <1>4, <1>5, <1>6 DEF InData, Frame, Kind, Item
  <2> QED
    BY <1>1, <1>5, <1>6, <2>1, LeaveInv
<1>7. CASE s.read = s.write
  <2>1. /\ s \in State /\ s.stream = z.stream /\ s.item = z.item /\ s.in \in Nat /\ s.k \in 0 .. 32
        /\ s.f \in {"ok", "buf"} /\ s.inCall /\ s.mode = "DRY" /\ s.last = z.last
    <3>1. s \in State
      BY <1>5, DoneType
    <3> QED
      BY <1>1, <1>5, <3>1 DEF Frame, State
  <2>2. u \in State
    <3> DEFINE r == s.f
    <3>1. u = [s EXCEPT !.r = r, !.k = 0, !.read = 0, !.write = 0]
      OBVIOUS
    <3>2. r \in Result /\ 0 \in 0 .. WindowSize /\ 0 \in 0 .. 32
      BY <2>1, WindowAssumption DEF Result
    <3> HIDE DEF u, r
    <3> QED
      BY <2>1, <3>1, <3>2 DEF State
  <2>3. /\ u.stream = s.stream /\ u.item = s.item /\ u.last = s.last /\ u.k = 0
        /\ u.read = 0 /\ u.write = 0 /\ u.out = s.out /\ u.in = s.in /\ u.avail = s.avail
        /\ u.inCall = s.inCall /\ u.r = s.f
    BY <2>1 DEF State
  <2> HIDE DEF u
  <2>4. /\ t \in State /\ t.item = u.item + 1 /\ t.step = 1
        /\ t.mode = EntryMode(u.stream, u.item + 1)
        /\ t.stream = u.stream /\ t.k = u.k
        /\ t.read = u.read /\ t.write = u.write /\ t.in = u.in
        /\ t.avail = u.avail /\ t.out = u.out /\ t.inCall = u.inCall /\ t.r = u.r
    <3>1. u.item # 0
      BY <1>3, <2>1, <2>3
    <3> QED
      BY <2>2, <3>1, AdvanceFields
  <2>5. /\ t.item = h /\ t.mode = EntryMode(z.stream, h) /\ t.stream = z.stream
        /\ t.k = 0 /\ t.read = 0 /\ t.write = 0 /\ t.in = s.in /\ t.out = s.out
        /\ t.avail = s.avail
        /\ t.inCall /\ t.r \in {"ok", "buf"}
    BY <2>1, <2>3, <2>4
  <2>6. z' = t
    BY <1>1, <1>7
  <2> HIDE DEF t
  <2> DEFINE D == Output[z.stream][h]
             bit == FirstBit[z.stream][h]
             i == t.in
  <2>7. 8 * i = ToByte(bit)
    <3>1. 8 * s.in - s.k = Position(s) /\ s.k <= 7
      BY <1>5, <2>1 DEF Core, BitsInv
    <3>2. Position(s) = bit
      BY <2>1 DEF Position
    <3>3. bit \in Nat
      <4>1. h \in 1 .. Len(z.stream) + 1
        BY <1>3
      <4> HIDE DEF h
      <4> QED
        BY <1>3, <4>1, FirstBitStep
    <3>4. i = s.in
      BY <2>5
    <3> HIDE DEF bit, i
    <3>5. i \in Nat /\ 8 * i \in bit .. bit + 7
      BY <2>1, <3>1, <3>2, <3>3, <3>4
    <3> QED
      BY <3>3, <3>5, ToByteIs
  <2>8. Sent(t, D, Len(D))
    <3>1. Goal(s) = D
      BY <2>1 DEF Goal
    <3>2. D \in Seq(Octet)
      BY <1>5, <3>1, DoneType
    <3> HIDE DEF D
    <3>3. Done(s) = Len(D) - 0
      BY <2>1, <3>1 DEF Done
    <3>4. Sent(s, D, Len(D))
      BY <1>5, <3>1, <3>2, <3>3 DEF Core, DataInv
    <3>5. PendingLen(s) = 0 /\ PendingLen(t) = 0
      <4>1. s.read \in Nat /\ s.write \in Nat
        BY <1>5, DoneType
      <4> QED
        BY <1>7, <2>5, <4>1 DEF PendingLen
    <3> QED
      BY <2>5, <3>4, <3>5 DEF Sent
  <2>9. NextItem(z, t)
    <3>1. t.in + t.avail <= Bytes(t.stream)
      BY <1>5, <2>1, <2>5 DEF Core, TypeInv
    <3>2. t.read # WindowSize
      BY <2>5, WindowAssumption
    <3> QED
      BY <1>3, <2>4, <2>5, <2>8, <3>1, <3>2 DEF NextItem
  <2>10. AtEnd(z.stream, h)
    <3>1. PICK j \in 1 .. z.item : InBlock(z.stream, j, z.item) /\ z.last = z.stream[j].last
      BY <1>1 DEF Core, LastInv
    <3> QED
      BY <1>3, <3>1, Follows DEF Kind, Item
  <2>11. h \in Nat \ {0} /\ (h > Len(z.stream) <=> h = Len(z.stream) + 1)
         /\ (h > Len(z.stream) \/ h <= Len(z.stream))
    BY <1>3
  <2> HIDE DEF h
  <2>12. /\ t.mode = "FINISHED" <=> t.item = Len(z.stream) + 1
         /\ t.mode \in {"BYTE", "FINISHED"}
         /\ t.mode = "BYTE" => Kind(t) \in ByteKind
    <3>1. h <= Len(z.stream) => z.stream[h].kind = "check" \/ h > Len(z.stream)
      BY <2>10 DEF AtEnd
    <3>2. h > Len(z.stream) => t.mode = "FINISHED"
      BY <1>3, <2>5, <2>11, EntryModeIs
    <3>3. h <= Len(z.stream) /\ ~ (h > Len(z.stream)) => t.mode = "BYTE"
      BY <1>3, <2>5, <2>11, <3>1, EntryModeIs DEF ByteKind
    <3> QED
      BY <2>5, <2>11, <3>1, <3>2, <3>3 DEF Kind, Item, ByteKind
  <2>13. AtByte(z, t)
    BY <2>5, <2>7, <2>9, <2>12 DEF AtByte, h
  <2>14. Core(t)
    BY <2>13, AtByteCore
  <2> QED
    BY <2>5, <2>6, <2>14, GoingInv
<1> QED
  BY <1>6, <1>7

\* NEEDBITS, where the bits are there.
LEMMA FilledIs ==
    ASSUME Inv(z), z.inCall, z.mode \in {"TYPE", "LENS", "TABLE", "LEN"}, HasBits
    PROVE  /\ Filled \in State
           /\ Filled.stream = z.stream /\ Filled.item = z.item /\ Filled.step = z.step
           /\ Filled.mode = z.mode /\ Filled.last = z.last /\ Filled.left = z.left
           /\ Filled.window = z.window /\ Filled.read = z.read /\ Filled.write = z.write
           /\ Filled.out = z.out /\ Filled.inCall /\ Filled.r \in {"ok", "buf"}
           /\ Filled.in \in Nat /\ Filled.avail \in Nat /\ Filled.k \in 0 .. 32
           /\ Filled.in + Filled.avail <= Bytes(z.stream)
           /\ 8 * Filled.in - Filled.k = Position(z)
           /\ Filled.k >= Wanted(z)
           /\ z.mode = "LENS" => Filled.k = 32
           /\ z.mode # "LENS" => Filled.k <= 15 \/ Filled.k <= Wanted(z) + 7
<1> DEFINE w == Wanted(z)
           n == Missing(z, w)
           t == Pulled(z, n)
<1>1. Core(z) /\ z \in State /\ z.k \in 0 .. 32 /\ z.in \in Nat /\ z.avail \in Nat
  <2>1. Core(z) /\ z \in State
    BY DoneType DEF Inv
  <2> QED
    BY <2>1 DEF State
<1>2. /\ w \in 0 .. 32 /\ (z.mode # "LENS" => w <= 14) /\ (z.mode = "LENS" => w = 32)
  BY <1>1, WantedType
<1>3. /\ n \in Nat /\ (z.k >= w => n = 0) /\ (z.k < w => z.k + 8 * n \in w .. w + 7)
  BY <1>1, <1>2, MissingIs
<1>4. n <= z.avail /\ Filled = t
  BY DEF HasBits, Filled
<1>5. z.mode = "LENS" => z.k % 8 = 0
  BY <1>1 DEF Core, BitsInv
<1>6. z.mode # "LENS" => z.k <= 15
  BY <1>1 DEF Core, BitsInv
<1>7. z.r \in {"ok", "buf"}
  BY InvGoing
<1>8. z.in + z.avail <= Bytes(z.stream) /\ 8 * z.in - z.k = Position(z)
  BY <1>1 DEF Core, TypeInv, BitsInv
<1> HIDE DEF w, n
<1>9. /\ t.stream = z.stream /\ t.item = z.item /\ t.step = z.step
      /\ t.mode = z.mode /\ t.last = z.last /\ t.left = z.left
      /\ t.window = z.window /\ t.read = z.read /\ t.write = z.write
      /\ t.out = z.out /\ t.inCall = z.inCall /\ t.r \in {z.r, "ok"}
      /\ t.in = z.in + n /\ t.avail = z.avail - n /\ t.k = z.k + 8 * n
  BY <1>1 DEF Pulled, State
<1> DEFINE k == z.k + 8 * n
<1>10. k \in Nat /\ k >= w /\ (z.mode = "LENS" => k = 32) /\ k <= 32
       /\ (z.mode # "LENS" => k <= 15 \/ k <= w + 7)
  <2>1. CASE z.k >= w
    BY <1>1, <1>2, <1>3, <1>6, <2>1
  <2>2. CASE z.k < w
    <3>1. CASE z.mode = "LENS"
      <4>1. w = 32 /\ k \in 32 .. 39 /\ k % 8 = 0
        BY <1>1, <1>2, <1>3, <1>5, <2>2, <3>1
      <4> HIDE DEF k
      <4>2. k = 32
        BY <4>1
      <4> QED
        BY <3>1, <4>1, <4>2
    <3>2. CASE z.mode # "LENS"
      BY <1>1, <1>2, <1>3, <2>2, <3>2
    <3> QED
      BY <3>1, <3>2
  <2> QED
    BY <1>1, <1>2, <2>1, <2>2
<1>11. t \in State
  BY <1>1, <1>3, <1>4, <1>10, PulledType
<1> HIDE DEF t
<1>12. t.k = k
  BY <1>9
<1> HIDE DEF k
<1>13. /\ t.in \in Nat /\ t.avail \in Nat /\ t.in + t.avail <= Bytes(z.stream)
  BY <1>1, <1>3, <1>4, <1>8, <1>9
<1>14. 8 * t.in - t.k = Position(z)
  BY <1>1, <1>3, <1>8, <1>9
<1>15. t.inCall /\ t.r \in {"ok", "buf"} /\ t.k \in 0 .. 32
  <2>1. z.inCall
    OBVIOUS
  <2> QED
    BY <1>7, <1>9, <1>10, <1>12, <2>1
<1>16. /\ t.k >= w
       /\ z.mode = "LENS" => t.k = 32
       /\ z.mode # "LENS" => t.k <= 15 \/ t.k <= w + 7
  BY <1>10, <1>12
<1>17. Filled = t
  BY <1>4
<1> HIDE DEF Filled
<1>18. /\ Filled.k >= Wanted(z)
       /\ z.mode = "LENS" => Filled.k = 32
       /\ z.mode # "LENS" => Filled.k <= 15 \/ Filled.k <= Wanted(z) + 7
  BY <1>16, <1>17 DEF w
<1>19. /\ Filled.in \in Nat /\ Filled.avail \in Nat
       /\ Filled.in + Filled.avail <= Bytes(z.stream)
       /\ 8 * Filled.in - Filled.k = Position(z)
  BY <1>13, <1>14, <1>17
<1>20. /\ Filled \in State /\ Filled.inCall /\ Filled.r \in {"ok", "buf"} /\ Filled.k \in 0 .. 32
       /\ Filled.stream = z.stream /\ Filled.item = z.item /\ Filled.step = z.step
       /\ Filled.mode = z.mode /\ Filled.last = z.last /\ Filled.left = z.left
       /\ Filled.window = z.window /\ Filled.read = z.read /\ Filled.write = z.write
       /\ Filled.out = z.out
  BY <1>9, <1>11, <1>15, <1>17
<1> QED
  BY <1>18, <1>19, <1>20

\* t goes on with the item of s.
Inside(s, t) ==
    /\ t \in State /\ t.stream = s.stream /\ t.item = s.item
    /\ t.window = s.window /\ t.read = s.read /\ t.write = s.write /\ t.out = s.out
    /\ t.in + t.avail <= Bytes(t.stream)
    /\ s.mode \notin {"STORED", "COPY", "DRY"}
    /\ t.mode \notin {"FAST", "FINISHED"}

LEMMA InsideData ==
    ASSUME NEW s, NEW t, Core(s), InData(s), Inside(s, t)
    PROVE  /\ TypeInv(t) /\ FastInv(t) /\ Kind(t) = Kind(s) /\ Item(t) = Item(s) /\ InData(t)
           /\ s.item \in 1 .. Len(s.stream) /\ t.item # Len(t.stream) + 1
           /\ LET D == Output[s.stream][s.item] IN Sent(t, D, Len(D)) /\ Kept(t, D, Len(D))
           /\ t.mode \notin {"STORED", "COPY", "DRY"} => DataInv(t)
<1>1. /\ t \in State /\ t.stream = s.stream /\ t.item = s.item
      /\ t.window = s.window /\ t.read = s.read /\ t.write = s.write /\ t.out = s.out
      /\ t.in + t.avail <= Bytes(t.stream)
      /\ s.mode \notin {"STORED", "COPY", "DRY"} /\ t.mode \notin {"FAST", "FINISHED"}
  BY DEF Inside
<1>2. TypeInv(t) /\ FastInv(t)
  BY <1>1 DEF Core, TypeInv, FastInv
<1>3. Kind(t) = Kind(s) /\ Item(t) = Item(s) /\ InData(t)
  BY <1>1 DEF Kind, Item, InData
<1>4. s.item \in 1 .. Len(s.stream) /\ t.item # Len(t.stream) + 1
  BY <1>1, DoneType DEF InData
<1> DEFINE D == Output[s.stream][s.item]
<1>5. Goal(s) = D /\ D \in Seq(Octet) /\ Done(s) = Len(Goal(s)) - 0
  <2>1. Goal(s) = D
    BY <1>1 DEF Goal
  <2>2. D \in Seq(Octet)
    BY <2>1, DoneType
  <2> QED
    BY <1>1, <2>1, <2>2 DEF Done
<1>6. Done(s) = Len(D)
  BY <1>5
<1>7. Sent(s, D, Len(D)) /\ Kept(s, D, Len(D))
  BY <1>5, <1>6 DEF Core, DataInv
<1>8. Sent(t, D, Len(D)) /\ Kept(t, D, Len(D))
  BY <1>1, <1>7, SameWindow
<1>9. ASSUME t.mode \notin {"STORED", "COPY", "DRY"} PROVE DataInv(t)
  <2>1. Goal(t) = D /\ Done(t) = Len(D) - 0
    BY <1>1, <1>9 DEF Goal, Done
  <2>2. Done(t) = Len(D)
    BY <1>5, <2>1
  <2> QED
    BY <1>3, <1>8, <2>1, <2>2 DEF DataInv
<1> QED
  BY <1>2, <1>3, <1>4, <1>8, <1>9

\* An error in a block.
LEMMA WrongInv ==
    ASSUME NEW s, NEW t, Core(s), InData(s), Inside(s, t)
    PROVE  Inv(Wrong(t))
<1> DEFINE u == [t EXCEPT !.mode = "BAD", !.r = "data"]
<1>1. t \in State
  BY DEF Inside
<1>2. u \in State
  <2>1. u = [t EXCEPT !.mode = "BAD", !.r = "data"]
    OBVIOUS
  <2> HIDE DEF u
  <2> QED
    BY <1>1, <2>1 DEF State, Mode, Result
<1>3. /\ u.stream = t.stream /\ u.item = t.item /\ u.window = t.window /\ u.read = t.read
      /\ u.write = t.write /\ u.out = t.out /\ u.in = t.in /\ u.avail = t.avail
      /\ u.mode = "BAD" /\ u.r = "data"
  BY <1>1 DEF State
<1>4. Wrong(t) = Leave(u)
  BY DEF Wrong
<1> HIDE DEF u
<1>5. Inside(s, u)
  BY <1>2, <1>3 DEF Inside
<1>6. /\ TypeInv(u) /\ FastInv(u) /\ InData(u) /\ DataInv(u) /\ u.item # Len(u.stream) + 1
  BY <1>3, <1>5, InsideData
<1>7. ModeInv(u) /\ BitsInv(u) /\ LastInv(u)
  BY <1>3, <1>6 DEF ModeInv, BitsInv, LastInv
<1>8. Core(u)
  BY <1>6, <1>7 DEF Core
<1> QED
  BY <1>3, <1>4, <1>6, <1>8, LeaveInv

LEMMA TypeStepInv ==
    ASSUME Inv(z), Type
    PROVE  Inv(z')
<1> DEFINE f == Filled
           l == Item(z).last
           a == [f EXCEPT !.last = l]
           s == Dump(a, 3)
           kind == Kind(z)
<1>1. z.inCall /\ z.mode = "TYPE" /\ HasBits /\ Core(z)
  BY DEF Type, In, Inv
<1>2. z' = CASE kind \in {"stored", "badlens"} -> Stored(s)
             [] kind = "fixed" -> Advance(s)
             [] kind \in {"dynamic", "badtable"} -> [s EXCEPT !.mode = "TABLE"]
             [] OTHER -> Wrong(s)
  BY DEF Type, Kind
<1>3. /\ f \in State
      /\ f.stream = z.stream /\ f.item = z.item /\ f.step = z.step
      /\ f.mode = z.mode /\ f.left = z.left
      /\ f.window = z.window /\ f.read = z.read /\ f.write = z.write
      /\ f.out = z.out /\ f.inCall /\ f.r \in {"ok", "buf"}
      /\ f.in \in Nat /\ f.avail \in Nat /\ f.k \in 0 .. 32
      /\ f.in + f.avail <= Bytes(z.stream)
      /\ 8 * f.in - f.k = Position(z)
      /\ f.k >= Wanted(z)
      /\ f.k <= 15 \/ f.k <= Wanted(z) + 7
  BY <1>1, FilledIs
<1>4. Wanted(z) = 3
  BY <1>1 DEF Wanted
<1>5. Position(z) = FirstBit[z.stream][z.item]
  BY <1>1 DEF Position
<1>6. kind \in BlockKind /\ z.step = 1
  BY <1>1 DEF Core, ModeInv
<1>7. /\ InData(z) /\ GoodItem(Item(z)) /\ z.item \in 1 .. Len(z.stream)
  BY <1>1, WantedType
<1>8. l \in BOOLEAN
  BY <1>6, <1>7 DEF GoodItem, Kind
<1> DEFINE k == f.k - 3
<1>9. k \in 0 .. 15 /\ k \in 0 .. 32
  BY <1>3, <1>4
<1>10. s = [f EXCEPT !.last = l, !.k = k]
  BY <1>3 DEF Dump, State
<1> HIDE DEF f, l, s, k, kind
<1>11. s \in State
  BY <1>3, <1>8, <1>9, <1>10 DEF State
<1>12. /\ s.stream = z.stream /\ s.item = z.item /\ s.step = 1 /\ s.mode = "TYPE" /\ s.last = l
       /\ s.window = z.window /\ s.read = z.read /\ s.write = z.write /\ s.out = z.out
       /\ s.in = f.in /\ s.avail = f.avail /\ s.k = k /\ s.inCall /\ s.r \in {"ok", "buf"}
  BY <1>1, <1>3, <1>6, <1>10 DEF State
<1> DEFINE first == FirstBit[z.stream][z.item]
<1>13. z.stream \in Streams /\ Len(z.stream) \in Nat /\ first \in Nat
  <2>1. z.stream \in Streams /\ Len(z.stream) \in Nat
    BY <1>1, DoneType
  <2> QED
    BY <1>7, <2>1, ItemBits
<1>14. 8 * s.in - s.k = first + 3 /\ s.in \in Nat
  <2>1. s.in = f.in /\ s.k = f.k - 3 /\ 8 * f.in - f.k = first
    BY <1>3, <1>5, <1>12 DEF k
  <2> QED
    BY <1>3, <2>1
<1>15. Inside(z, s)
  BY <1>1, <1>3, <1>11, <1>12 DEF Inside
<1>16. OfBlock(s, s)
  <2>1. InBlock(z.stream, z.item, z.item)
    BY <1>6, <1>7 DEF InBlock, Kind, Item, kind
  <2> QED
    BY <1>7, <1>12, <2>1 DEF OfBlock, l, Item
<1>17. CASE kind \in {"stored", "badlens"}
  <2> DEFINE m == s.k % 8
             e == s.k - m
             t == Stored(s)
  <2>1. m \in 0 .. 7 /\ e \in 0 .. 15 /\ e \in 0 .. 32 /\ e % 8 = 0 /\ m <= s.k /\ s.k = e + m
    BY <1>9, <1>12
  <2>2. t = [s EXCEPT !.mode = "LENS", !.k = e]
    BY <1>11 DEF Stored, Dump, State
  <2>3. z' = t
    BY <1>2, <1>17
  <2> HIDE DEF t, e, m
  <2>4. t \in State
    BY <1>11, <2>1, <2>2 DEF State, Mode
  <2>5. /\ t.stream = z.stream /\ t.item = z.item /\ t.mode = "LENS" /\ t.last = s.last
        /\ t.window = z.window /\ t.read = z.read /\ t.write = z.write /\ t.out = z.out
        /\ t.in = s.in /\ t.avail = s.avail /\ t.k = e /\ t.inCall /\ t.r \in {"ok", "buf"}
    BY <1>11, <1>12, <2>2 DEF State
  <2>6. Inside(z, t)
    BY <1>15, <1>12, <2>4, <2>5 DEF Inside
  <2>7. /\ TypeInv(t) /\ FastInv(t) /\ Kind(t) = kind /\ DataInv(t)
        /\ t.item # Len(t.stream) + 1
    BY <1>1, <1>7, <2>5, <2>6, InsideData DEF kind
  <2>8. ModeInv(t)
    BY <1>17, <2>5, <2>7 DEF ModeInv
  <2>9. BitsInv(t)
    <3> DEFINE i == t.in
               bit == first + 3
    <3>1. i \in Nat /\ bit \in Nat
      BY <1>13, <1>14, <2>1, <2>5
    <3>2. Position(t) = ToByte(bit)
      BY <2>5 DEF Position
    <3>3. 8 * i - (e + m) = bit
      BY <1>13, <1>14, <2>1, <2>5
    <3>i. i = s.in
      BY <2>5
    <3> HIDE DEF i, bit
    <3> DEFINE j == i - (e \div 8)
    <3>4. e = 8 * (e \div 8)
      BY <2>1
    <3>5. 8 * j = bit + m /\ j \in Int
      BY <2>1, <3>1, <3>3, <3>4
    <3> HIDE DEF j
    <3>6. j \in Nat /\ 8 * j \in bit .. bit + 7
      BY <2>1, <3>1, <3>5
    <3>7. ToByte(bit) = 8 * j
      BY <3>1, <3>6, ToByteIs
    <3>8. 8 * t.in - t.k = ToByte(bit)
      <4>1. t.k = e /\ t.in = i
        BY <2>5 DEF i
      <4> QED
        BY <2>1, <3>1, <3>4, <3>7, <4>1 DEF j
    <3> QED
      BY <2>1, <2>5, <3>2, <3>8 DEF BitsInv
  <2>10. LastInv(t)
    BY <1>12, <1>16, <2>5 DEF LastInv, OfBlock
  <2>11. Core(t)
    BY <2>7, <2>8, <2>9, <2>10 DEF Core
  <2> QED
    BY <2>3, <2>5, <2>11, GoingInv
<1>18. CASE kind = "fixed"
  <2> DEFINE t == Advance(s)
             h == z.item + 1
             D == Output[z.stream][h]
  <2>1. /\ t \in State /\ t.item = s.item + 1 /\ t.step = 1
        /\ t.mode = EntryMode(s.stream, s.item + 1)
        /\ t.stream = s.stream /\ t.last = s.last /\ t.k = s.k
        /\ t.window = s.window /\ t.read = s.read /\ t.write = s.write /\ t.in = s.in
        /\ t.avail = s.avail /\ t.out = s.out /\ t.inCall = s.inCall /\ t.r = s.r
    <3>1. s.item # 0
      BY <1>7, <1>12
    <3> QED
      BY <1>11, <3>1, AdvanceFields
  <2>2. /\ t.item = h /\ t.mode = EntryMode(z.stream, h) /\ t.stream = z.stream
        /\ t.read = z.read /\ t.write = z.write /\ t.window = z.window /\ t.out = z.out
    BY <1>12, <2>1
  <2>3. z' = t
    BY <1>2, <1>18
  <2> HIDE DEF t
  <2>4. z.item < Len(z.stream) /\ z.stream[h].kind \in CodeKind
    BY <1>7, <1>13, <1>18, Follows DEF kind, Kind, Item
  <2>5. D = Output[z.stream][z.item] /\ FirstBit[z.stream][h] = first + 3
    BY <1>7, <1>13, <1>18, ItemOutput, ItemBits DEF kind, Kind, Item
  <2>6. t.mode = "START"
    <3>1. h \in Nat \ {0} /\ h <= Len(z.stream)
      BY <1>7, <1>13, <2>4
    <3> HIDE DEF h
    <3> QED
      BY <1>13, <2>2, <2>4, <3>1, EntryModeIs
  <2>7. Sent(s, D, Len(D)) /\ Kept(s, D, Len(D))
    BY <1>1, <1>7, <1>15, <2>5, InsideData
  <2>8. Sent(t, D, Len(D)) /\ Kept(t, D, Len(D))
    BY <2>1, <2>7, SameWindow
  <2>9. NextItem(z, t)
    BY <1>1, <1>7, <1>12, <1>15, <2>1, <2>2, <2>8 DEF NextItem, Inside, Core, TypeInv
  <2>10. OfBlock(z, t)
    BY <1>12, <1>16, <2>1 DEF OfBlock
  <2>11. AtCode(z, t)
    <3>1. 8 * t.in - t.k = FirstBit[z.stream][h] /\ t.k <= 15
      BY <1>9, <1>12, <1>14, <2>1, <2>5
    <3> QED
      BY <1>18, <2>6, <2>8, <2>9, <2>10, <3>1 DEF AtCode, kind
  <2> QED
    BY <1>12, <2>1, <2>3, <2>11, AtCodeCore, GoingInv
<1>19. CASE kind \in {"dynamic", "badtable"}
  <2> DEFINE t == [s EXCEPT !.mode = "TABLE"]
             steps == Item(z).steps
  <2>1. /\ t.stream = z.stream /\ t.item = z.item /\ t.mode = "TABLE" /\ t.last = s.last
        /\ t.window = z.window /\ t.read = z.read /\ t.write = z.write /\ t.out = z.out
        /\ t.in = s.in /\ t.avail = s.avail /\ t.k = s.k /\ t.inCall /\ t.r \in {"ok", "buf"}
        /\ t.step = 1
    BY <1>11, <1>12 DEF State
  <2>2. t \in State
    <3>1. t = [s EXCEPT !.mode = "TABLE"]
      OBVIOUS
    <3> HIDE DEF t
    <3> QED
      BY <1>11, <3>1 DEF State, Mode
  <2>3. z' = t
    BY <1>2, <1>19
  <2> HIDE DEF t
  <2>4. Inside(z, t)
    BY <1>12, <1>15, <2>1, <2>2 DEF Inside
  <2>5. /\ TypeInv(t) /\ FastInv(t) /\ Kind(t) = kind /\ Item(t) = Item(z) /\ DataInv(t)
        /\ t.item # Len(t.stream) + 1
    BY <1>1, <1>7, <2>1, <2>4, InsideData DEF kind
  <2>6. steps \in Seq(Lookup) /\ steps # << >> /\ BitsBefore(steps, 1) = 0
    <3>1. steps \in Seq(Lookup) /\ steps # << >>
      BY <1>7, <1>19 DEF GoodItem, kind, Kind
    <3> QED
      BY <3>1, BitsBeforeStep
  <2>7. 1 \in 1 .. Len(steps)
    BY <2>6
  <2>8. ModeInv(t)
    BY <1>19, <2>1, <2>5, <2>7 DEF ModeInv
  <2>9. BitsInv(t)
    <3>1. Position(t) = first + 3 + BitsBefore(steps, 1)
      BY <2>1, <2>5 DEF Position
    <3>2. Position(t) = first + 3
      BY <1>13, <2>6, <3>1
    <3>3. t.k <= 15
      BY <1>9, <1>12, <2>1
    <3> QED
      BY <1>14, <2>1, <3>2, <3>3 DEF BitsInv
  <2>10. LastInv(t)
    BY <1>12, <1>16, <2>1 DEF LastInv, OfBlock
  <2>11. Core(t)
    BY <2>5, <2>8, <2>9, <2>10 DEF Core
  <2> QED
    BY <2>1, <2>3, <2>11, GoingInv
<1>20. CASE kind \notin {"stored", "badlens", "fixed", "dynamic", "badtable"}
  <2>1. z' = Wrong(s)
    BY <1>2, <1>20
  <2> QED
    BY <1>1, <1>7, <1>15, <2>1, WrongInv
<1> QED
  BY <1>17, <1>18, <1>19, <1>20

-----------------------------------------------------------------------------
(* Lookups, tables and stored blocks                                       *)

\* The lookup that z is at is done.
Taken == Dump(Filled, Item(z).steps[z.step].bits)

LEMMA TakenIs ==
    ASSUME Inv(z), z.inCall, z.mode \in {"TABLE", "LEN"}, HasBits
    PROVE  /\ Core(z) /\ InData(z) /\ GoodItem(Item(z)) /\ z.item \in 1 .. Len(z.stream)
           /\ Item(z).steps \in Seq(Lookup) /\ z.step \in 1 .. Len(Item(z).steps)
           /\ Inside(z, Taken) /\ Taken.mode = z.mode /\ Taken.step = z.step /\ Taken.last = z.last
           /\ Taken.inCall /\ Taken.r \in {"ok", "buf"} /\ Taken.in \in Nat /\ Taken.avail \in Nat
           /\ Taken.k \in 0 .. 15
           /\ 8 * Taken.in - Taken.k
                = FirstBit[z.stream][z.item] + (IF z.mode = "TABLE" THEN 3 ELSE 0)
                  + BitsBefore(Item(z).steps, z.step + 1)
<1> DEFINE f == Filled
           steps == Item(z).steps
           need == steps[z.step].need
           bits == steps[z.step].bits
           k == f.k - bits
           s == Taken
           first == FirstBit[z.stream][z.item] + (IF z.mode = "TABLE" THEN 3 ELSE 0)
<1>1. Core(z)
  BY DEF Inv
<1>2. /\ Wanted(z) = need /\ steps \in Seq(Lookup) /\ z.step \in 1 .. Len(steps)
      /\ steps[z.step] \in Lookup
      /\ InData(z) /\ GoodItem(Item(z)) /\ z.item \in 1 .. Len(z.stream)
  BY <1>1, WantedType
<1>3. /\ f \in State
      /\ f.stream = z.stream /\ f.item = z.item /\ f.step = z.step
      /\ f.mode = z.mode /\ f.last = z.last /\ f.left = z.left
      /\ f.window = z.window /\ f.read = z.read /\ f.write = z.write
      /\ f.out = z.out /\ f.inCall /\ f.r \in {"ok", "buf"}
      /\ f.in \in Nat /\ f.avail \in Nat /\ f.k \in 0 .. 32
      /\ f.in + f.avail <= Bytes(z.stream)
      /\ 8 * f.in - f.k = Position(z)
      /\ f.k >= need
      /\ f.k <= 15 \/ f.k <= need + 7
  BY <1>2, FilledIs
<1>4. need \in 0 .. 14 /\ bits \in 0 .. 14 /\ need - bits \in 0 .. 8
  BY <1>2 DEF Lookup
<1>5. z.stream \in Streams /\ first \in Nat
  <2>1. z.stream \in Streams
    BY <1>1, DoneType
  <2>2. FirstBit[z.stream][z.item] \in Nat
    BY <1>2, <2>1, ItemBits
  <2> QED
    BY <2>1, <2>2
<1>6. /\ BitsBefore(steps, z.step) \in Nat
      /\ BitsBefore(steps, z.step + 1) = BitsBefore(steps, z.step) + bits
  <2> DEFINE i == z.step
  <2>1. steps \in Seq(Lookup) /\ i \in 1 .. Len(steps) /\ i \in 1 .. Len(steps) + 1
    BY <1>2
  <2> HIDE DEF i, steps
  <2>2. /\ BitsBefore(steps, i) \in Nat
        /\ BitsBefore(steps, i + 1) = BitsBefore(steps, i) + steps[i].bits
    BY <2>1, BitsBeforeStep
  <2> QED
    BY <2>2 DEF i
<1>7. Position(z) = first + BitsBefore(steps, z.step)
  <2>1. FirstBit[z.stream][z.item] \in Nat
    <3>1. z.stream \in Streams
      BY <1>5
    <3> QED
      BY <1>2, <3>1, ItemBits
  <2>2. CASE z.mode = "TABLE"
    BY <1>6, <2>1, <2>2 DEF Position
  <2>3. CASE z.mode = "LEN"
    <3>1. Position(z) = FirstBit[z.stream][z.item] + BitsBefore(steps, z.step)
      BY <2>3 DEF Position
    <3>2. first = FirstBit[z.stream][z.item] + 0
      BY <2>3
    <3>3. first = FirstBit[z.stream][z.item]
      BY <2>1, <3>2
    <3> QED
      BY <3>1, <3>3
  <2> QED
    BY <2>2, <2>3
<1> HIDE DEF f, need, bits, steps, first
<1>8. k \in 0 .. 15 /\ k \in 0 .. 32
  BY <1>3, <1>4
<1>9. s = [f EXCEPT !.k = k]
  BY <1>3 DEF Taken, Dump, f, bits, steps
<1> HIDE DEF k, s
<1>10. s \in State
  BY <1>3, <1>8, <1>9 DEF State
<1>11. /\ s.stream = z.stream /\ s.item = z.item /\ s.step = z.step /\ s.mode = z.mode
       /\ s.last = z.last /\ s.inCall /\ s.r \in {"ok", "buf"}
       /\ s.window = z.window /\ s.read = z.read /\ s.write = z.write /\ s.out = z.out
       /\ s.in = f.in /\ s.avail = f.avail /\ s.k = k
  BY <1>3, <1>9 DEF State
<1>12. Inside(z, s)
  BY <1>3, <1>10, <1>11 DEF Inside
<1>13. 8 * s.in - s.k = first + BitsBefore(steps, z.step + 1)
  <2> DEFINE a == BitsBefore(steps, z.step)
             b == BitsBefore(steps, z.step + 1)
             i == f.in
             g == f.k
             p == Position(z)
  <2>1. /\ a \in Nat /\ b = a + bits /\ i \in Nat /\ g \in Nat /\ 8 * i - g = p
        /\ p = first + a /\ first \in Nat /\ bits \in Nat
    BY <1>3, <1>4, <1>5, <1>6, <1>7
  <2>2. s.in = i /\ s.k = g - bits
    BY <1>11 DEF k
  <2> HIDE DEF a, b, i, g, p
  <2>3. 8 * i - (g - bits) = first + b
    BY <2>1
  <2> QED
    BY <2>2, <2>3 DEF b
<1>14. s.in \in Nat /\ s.avail \in Nat /\ s.k \in 0 .. 15
  BY <1>3, <1>8, <1>11
<1> QED
  BY <1>1, <1>2, <1>11, <1>12, <1>13, <1>14 DEF s, steps, first

\* The next lookup of a table or of a code.
LEMMA StepOnInv ==
    ASSUME Inv(z), z.inCall, z.mode \in {"TABLE", "LEN"}, HasBits,
           z.step < Len(Item(z).steps)
    PROVE  Inv([Taken EXCEPT !.step = @ + 1])
<1> DEFINE s == Taken
           steps == Item(z).steps
           t == [s EXCEPT !.step = z.step + 1]
           i == z.step + 1
           first == FirstBit[z.stream][z.item]
           d == IF z.mode = "TABLE" THEN 3 ELSE 0
<1>1. /\ Core(z) /\ InData(z) /\ z.item \in 1 .. Len(z.stream)
      /\ steps \in Seq(Lookup) /\ z.step \in 1 .. Len(steps)
      /\ Inside(z, s) /\ s.mode = z.mode /\ s.step = z.step /\ s.last = z.last
      /\ s.inCall /\ s.r \in {"ok", "buf"} /\ s.in \in Nat
      /\ s.k \in 0 .. 15
      /\ 8 * s.in - s.k = first + d + BitsBefore(steps, i)
  BY TakenIs
<1>2. s \in State
  BY <1>1 DEF Inside
<1>3. [s EXCEPT !.step = @ + 1] = t /\ t = [s EXCEPT !.step = i]
  BY <1>1, <1>2 DEF State
<1>4. i \in 1 .. Len(steps) /\ i \in Nat
  BY <1>1
<1> HIDE DEF s, t, i, steps, d
<1>5. t \in State
  BY <1>2, <1>3, <1>4 DEF State
<1>6. /\ t.stream = s.stream /\ t.item = s.item /\ t.mode = s.mode /\ t.last = s.last
      /\ t.window = s.window /\ t.read = s.read /\ t.write = s.write /\ t.out = s.out
      /\ t.in = s.in /\ t.avail = s.avail /\ t.k = s.k /\ t.inCall = s.inCall /\ t.r = s.r
      /\ t.step = i
  BY <1>2, <1>3 DEF State
<1>7. Inside(z, t)
  BY <1>1, <1>5, <1>6 DEF Inside
<1>8. /\ TypeInv(t) /\ FastInv(t) /\ Kind(t) = Kind(z) /\ Item(t) = Item(z) /\ DataInv(t)
      /\ t.item # Len(t.stream) + 1 /\ t.item = z.item /\ t.stream = z.stream /\ t.mode = z.mode
  <2>1. t.mode \notin {"STORED", "COPY", "DRY"} /\ t.mode = z.mode
    BY <1>1, <1>6
  <2>2. t.item = z.item /\ t.stream = z.stream
    BY <1>7 DEF Inside
  <2> QED
    BY <1>1, <1>7, <2>1, <2>2, InsideData
<1>9. ModeInv(t)
  <2>1. z.mode = "TABLE" => Kind(z) \in {"dynamic", "badtable"}
    BY <1>1 DEF Core, ModeInv
  <2>2. z.mode = "LEN" => Kind(z) \in CodeKind
    BY <1>1 DEF Core, ModeInv
  <2>3. t.step \in 1 .. Len(Item(t).steps)
    BY <1>4, <1>6, <1>8 DEF steps
  <2> QED
    BY <1>8, <2>1, <2>2, <2>3 DEF ModeInv
<1>10. BitsInv(t)
  <2>1. first \in Nat /\ BitsBefore(steps, i) \in Nat
    <3>1. z.stream \in Streams
      BY <1>1, DoneType
    <3>2. first \in Nat
      BY <1>1, <3>1, ItemBits
    <3>3. i \in 1 .. Len(steps) + 1
      BY <1>1, <1>4
    <3> QED
      BY <1>1, <3>2, <3>3, BitsBeforeStep
  <2>2. Position(t) = first + d + BitsBefore(steps, i)
    <3>1. Position(t) = IF z.mode = "TABLE" THEN first + 3 + BitsBefore(steps, i)
                        ELSE first + BitsBefore(steps, i)
      BY <1>6, <1>8 DEF Position, steps
    <3> QED
      BY <2>1, <3>1 DEF d
  <2>3. 8 * t.in - t.k = Position(t)
    BY <1>1, <1>6, <2>2
  <2>4. t.k <= 15
    <3>1. t.k = s.k /\ s.k \in 0 .. 15
      BY <1>1, <1>6
    <3> QED
      BY <3>1
  <2> QED
    BY <1>8, <2>3, <2>4 DEF BitsInv
<1>11. LastInv(t)
  <2>1. t.last = z.last
    BY <1>1, <1>6
  <2> QED
    BY <1>1, <1>8, <2>1 DEF Core, LastInv
<1>12. Core(t)
  BY <1>8, <1>9, <1>10, <1>11 DEF Core
<1>13. Inv(t)
  BY <1>1, <1>6, <1>12, GoingInv
<1> QED
  BY <1>3, <1>13 DEF s

LEMMA TableInv ==
    ASSUME Inv(z), Table
    PROVE  Inv(z')
<1> DEFINE s == Taken
           steps == Item(z).steps
           kind == Kind(z)
<1>1. /\ z.inCall /\ z.mode = "TABLE" /\ HasBits
      /\ z' = IF z.step < Len(steps) THEN [s EXCEPT !.step = @ + 1]
              ELSE IF kind = "badtable" THEN Wrong(s) ELSE Advance(s)
  BY DEF Table, In, Kind, Taken
<1>2. /\ Core(z) /\ InData(z) /\ GoodItem(Item(z)) /\ z.item \in 1 .. Len(z.stream)
      /\ steps \in Seq(Lookup) /\ z.step \in 1 .. Len(steps)
      /\ Inside(z, s) /\ s.mode = z.mode /\ s.step = z.step /\ s.last = z.last
      /\ s.inCall /\ s.r \in {"ok", "buf"} /\ s.in \in Nat
      /\ s.k \in 0 .. 15
      /\ 8 * s.in - s.k
           = FirstBit[z.stream][z.item] + (IF z.mode = "TABLE" THEN 3 ELSE 0)
             + BitsBefore(steps, z.step + 1)
  BY <1>1, TakenIs
<1>3. kind \in {"dynamic", "badtable"}
  BY <1>1, <1>2 DEF Core, ModeInv
<1> HIDE DEF s
<1>4. CASE z.step < Len(steps)
  BY <1>1, <1>4, StepOnInv DEF s
<1>5. CASE ~ (z.step < Len(steps)) /\ kind = "badtable"
  BY <1>1, <1>2, <1>5, WrongInv
<1>6. CASE ~ (z.step < Len(steps)) /\ kind = "dynamic"
  <2> DEFINE t == Advance(s)
             h == z.item + 1
             D == Output[z.stream][h]
             first == FirstBit[z.stream][z.item]
  <2>1. z' = t
    BY <1>1, <1>6
  <2>2. s \in State /\ s.item = z.item /\ s.item # 0 /\ s.stream = z.stream
    BY <1>2 DEF Inside
  <2>3. /\ t \in State /\ t.item = h /\ t.step = 1
        /\ t.mode = EntryMode(s.stream, s.item + 1)
        /\ t.stream = s.stream /\ t.last = s.last /\ t.k = s.k
        /\ t.window = s.window /\ t.read = s.read /\ t.write = s.write /\ t.in = s.in
        /\ t.avail = s.avail /\ t.out = s.out /\ t.inCall = s.inCall /\ t.r = s.r
    BY <2>2, AdvanceFields
  <2>4. z.stream \in Streams /\ Len(z.stream) \in Nat
    BY <1>2, DoneType
  <2> HIDE DEF t
  <2>5. z.item < Len(z.stream) /\ z.stream[h].kind \in CodeKind
    BY <1>2, <1>6, <2>4, Follows DEF kind, Kind, Item
  <2>6. /\ D = Output[z.stream][z.item] /\ first \in Nat
        /\ FirstBit[z.stream][h] = first + 3 + BitsIn(steps)
    BY <1>2, <1>6, <2>4, ItemOutput, ItemBits DEF kind, Kind, Item
  <2>7. t.mode = "START" /\ t.mode = EntryMode(z.stream, h)
    <3>1. h \in Nat \ {0} /\ h <= Len(z.stream)
      BY <1>2, <2>4, <2>5
    <3>2. t.mode = EntryMode(z.stream, h)
      BY <2>2, <2>3
    <3> HIDE DEF h
    <3> QED
      BY <2>4, <2>5, <3>1, <3>2, EntryModeIs
  <2>8. Sent(s, D, Len(D)) /\ Kept(s, D, Len(D))
    BY <1>2, <2>6, InsideData
  <2>9. Sent(t, D, Len(D)) /\ Kept(t, D, Len(D))
    BY <2>3, <2>8, SameWindow
  <2>10. NextItem(z, t)
    BY <1>2, <2>2, <2>3, <2>9 DEF NextItem, Inside, Core, TypeInv
  <2>11. OfBlock(z, t)
    <3>1. InBlock(z.stream, z.item, z.item)
      BY <1>2, <1>6 DEF InBlock, BlockKind, Kind, Item, kind
    <3>2. PICK j \in 1 .. z.item : InBlock(z.stream, j, z.item) /\ z.last = z.stream[j].last
      BY <1>1, <1>2 DEF Core, LastInv
    <3> QED
      BY <1>2, <2>3, <3>2 DEF OfBlock
  <2>12. AtCode(z, t)
    <3>1. z.step + 1 = Len(steps) + 1
      BY <1>2, <1>6
    <3>2. 8 * t.in - t.k = FirstBit[z.stream][h]
      BY <1>1, <1>2, <2>3, <2>6, <3>1 DEF BitsIn
    <3>3. t.k <= 15
      <4>1. t.k = s.k /\ s.k \in 0 .. 15
        BY <1>2, <2>3
      <4> QED
        BY <4>1
    <3> QED
      BY <1>6, <2>7, <2>9, <2>10, <2>11, <3>2, <3>3 DEF AtCode, kind
  <2> QED
    BY <1>2, <2>1, <2>3, <2>12, AtCodeCore, GoingInv
<1> QED
  BY <1>3, <1>4, <1>5, <1>6

LEMMA LensInv ==
    ASSUME Inv(z), Lens
    PROVE  Inv(z')
<1> DEFINE f == Filled
           n == Len(Item(z).bytes)
           s == [f EXCEPT !.k = 0, !.left = n]
           kind == Kind(z)
<1>1. /\ z.inCall /\ z.mode = "LENS" /\ HasBits /\ Core(z)
      /\ z' = IF kind = "badlens" THEN Wrong(f)
              ELSE IF s.left > 0 THEN [s EXCEPT !.mode = "STORED"] ELSE BlockEnd(s)
  BY DEF Lens, In, Kind, Inv
<1>2. /\ f \in State
      /\ f.stream = z.stream /\ f.item = z.item /\ f.step = z.step
      /\ f.mode = z.mode /\ f.last = z.last
      /\ f.window = z.window /\ f.read = z.read /\ f.write = z.write
      /\ f.out = z.out /\ f.inCall /\ f.r \in {"ok", "buf"}
      /\ f.in \in Nat /\ f.avail \in Nat /\ f.k = 32
      /\ f.in + f.avail <= Bytes(z.stream)
      /\ 8 * f.in - f.k = Position(z)
  BY <1>1, FilledIs
<1>3. /\ InData(z) /\ GoodItem(Item(z)) /\ z.item \in 1 .. Len(z.stream)
  BY <1>1, WantedType
<1>4. kind \in {"stored", "badlens"}
  BY <1>1 DEF Core, ModeInv
<1>5. z.stream \in Streams /\ Len(z.stream) \in Nat /\ n \in Nat
  <2>1. z.stream \in Streams /\ Len(z.stream) \in Nat
    BY <1>1, DoneType
  <2>2. Item(z).bytes \in Seq(Octet)
    BY <1>3, <1>4 DEF GoodItem, kind, Kind
  <2> QED
    BY <2>1, <2>2
<1>6. Inside(z, f)
  BY <1>1, <1>2 DEF Inside
<1>7. CASE kind = "badlens"
  BY <1>1, <1>3, <1>6, <1>7, WrongInv
<1>8. CASE kind = "stored"
  <2> DEFINE first == FirstBit[z.stream][z.item]
             next == FirstBit[z.stream][z.item + 1]
             D == Output[z.stream][z.item]
             E == Output[z.stream][z.item + 1]
  <2>1. first \in Nat /\ next = ToByte(first + 3) + 32 + 8 * n
    BY <1>3, <1>5, <1>8, ItemBits DEF kind, Kind, Item
  <2>2. /\ D \in Seq(Octet) /\ E \in Seq(Octet) /\ Len(D) \in Nat /\ Len(E) \in Nat
        /\ \A i \in 1 .. Len(D) : E[i] = D[i]
        /\ Len(E) = Len(D) + n
    BY <1>3, <1>5, <1>8, ItemOutput DEF kind, Kind, Item
  <2>3. ToByte(first + 3) \in Nat
    <3> DEFINE b == first + 3
    <3>1. b \in Nat
      BY <2>1
    <3> HIDE DEF b
    <3>2. ToByte(b) \in Nat
      BY <3>1, ToByteType
    <3> QED
      BY <3>2 DEF b
  <2>4. Position(z) = ToByte(first + 3)
    BY <1>1 DEF Position
  <2> HIDE DEF first, next, D, E, n, kind, f
  <2>5. 8 * f.in = next - 8 * n
    BY <1>2, <1>5, <2>1, <2>3, <2>4
  <2>6. s \in State
    <3>1. s = [f EXCEPT !.k = 0, !.left = n] /\ 0 \in 0 .. 32
      OBVIOUS
    <3> HIDE DEF s
    <3> QED
      BY <1>2, <1>5, <3>1 DEF State
  <2>7. /\ s.stream = z.stream /\ s.item = z.item /\ s.step = z.step
        /\ s.mode = z.mode /\ s.last = z.last /\ s.left = n /\ s.k = 0
        /\ s.window = z.window /\ s.read = z.read /\ s.write = z.write
        /\ s.out = z.out /\ s.inCall = f.inCall /\ s.r = f.r
        /\ s.in = f.in /\ s.avail = f.avail
    BY <1>2 DEF State
  <2> DEFINE t == [s EXCEPT !.mode = "STORED"]
  <2>8. z' = IF n > 0 THEN t ELSE BlockEnd(s)
    BY <1>1, <1>8, <2>7
  <2> HIDE DEF s
  <2>9. Sent(z, D, Len(D)) /\ Kept(z, D, Len(D))
    BY <1>1, <1>3, <1>6, <1>2, InsideData, SameWindow DEF D
  <2>10. Sent(s, D, Len(D)) /\ Kept(s, D, Len(D))
    BY <2>7, <2>9, SameWindow
  <2>11. Sent(s, E, Len(D)) /\ Kept(s, E, Len(D))
    <3> DEFINE N == Len(D)
    <3>1. N \in Nat /\ \A i \in 1 .. N : E[i] = D[i]
      BY <2>2
    <3>2. Sent(s, D, N) /\ Kept(s, D, N) /\ s.read # WindowSize
      BY <1>1, <2>7, <2>10 DEF Core, TypeInv
    <3> HIDE DEF N
    <3>3. Sent(s, E, N) /\ Kept(s, E, N)
      BY <2>6, <3>1, <3>2, Longer
    <3> QED
      BY <3>3 DEF N
  <2>12. TypeInv(s)
    BY <1>1, <1>2, <2>6, <2>7 DEF Core, TypeInv
  <2>13. CASE n > 0
    <3>1. /\ t.stream = z.stream /\ t.item = z.item /\ t.step = z.step
          /\ t.mode = "STORED" /\ t.last = z.last /\ t.left = n /\ t.k = 0
          /\ t.window = s.window /\ t.read = s.read /\ t.write = s.write
          /\ t.out = s.out /\ t.inCall = f.inCall /\ t.r = f.r
          /\ t.in = f.in /\ t.avail = s.avail
      BY <2>6, <2>7 DEF State
    <3>2. t \in State
      <4>1. t = [s EXCEPT !.mode = "STORED"]
        OBVIOUS
      <4> HIDE DEF t
      <4> QED
        BY <2>6, <4>1 DEF State, Mode
    <3>3. z' = t
      BY <2>8, <2>13
    <3> HIDE DEF t
    <3>4. TypeInv(t)
      BY <2>7, <2>12, <3>1, <3>2 DEF TypeInv
    <3>5. Item(t) = Item(z) /\ Kind(t) = "stored" /\ t.item # Len(t.stream) + 1
      <4>1. Item(t) = Item(z) /\ Kind(t) = Kind(z)
        BY <3>1 DEF Item, Kind
      <4>2. z.item # Len(z.stream) + 1
        BY <1>3, <1>5
      <4> QED
        BY <1>8, <3>1, <4>1, <4>2 DEF kind
    <3>6. ModeInv(t)
      <4>1. t.left \in 1 .. Len(Item(t).bytes)
        BY <1>5, <2>13, <3>1, <3>5 DEF n
      <4> QED
        BY <3>1, <3>5, <4>1 DEF ModeInv
    <3>7. BitsInv(t)
      <4>1. Position(t) = next - 8 * n
        BY <3>1 DEF Position, next
      <4>2. 8 * t.in - t.k = 8 * f.in
        BY <1>2, <3>1
      <4> QED
        BY <2>5, <3>1, <4>1, <4>2 DEF BitsInv
    <3>8. FastInv(t)
      BY <3>1 DEF FastInv
    <3>9. LastInv(t)
      BY <1>1, <3>1 DEF Core, LastInv
    <3>10. DataInv(t)
      <4>1. Goal(t) = E /\ Done(t) = Len(E) - n
        BY <3>1 DEF Goal, Done, E
      <4>2. Done(t) = Len(D)
        BY <1>5, <2>2, <4>1
      <4>3. Sent(t, E, Len(D)) /\ Kept(t, E, Len(D))
        BY <2>11, <3>1, SameWindow
      <4>4. InData(t)
        BY <1>3, <3>1, <3>5, <1>5 DEF InData, ByteKind
      <4> QED
        BY <4>1, <4>2, <4>3, <4>4 DEF DataInv
    <3>11. Core(t)
      BY <3>4, <3>6, <3>7, <3>8, <3>9, <3>10 DEF Core
    <3> QED
      BY <1>2, <3>1, <3>3, <3>11, GoingInv
  <2>14. CASE ~ (n > 0)
    <3>1. z' = BlockEnd(s) /\ n = 0
      BY <1>5, <2>8, <2>14
    <3>2. Len(E) = Len(D) /\ 8 * s.in - s.k = next /\ s.k <= 7
      <4>1. next \in Nat
        BY <1>5, <2>1, <2>3
      <4> QED
        BY <1>2, <2>2, <2>5, <2>7, <3>1, <4>1
    <3>3. Item(s) = Item(z) /\ Kind(s) = "stored" /\ s.item <= Len(s.stream)
      <4>1. Item(s) = Item(z) /\ Kind(s) = Kind(z)
        BY <2>7 DEF Item, Kind
      <4>2. z.item <= Len(z.stream)
        BY <1>3, <1>5
      <4> QED
        BY <1>8, <2>7, <4>1, <4>2 DEF kind
    <3>4. OfBlock(s, s)
      BY <1>1, <2>7 DEF Core, LastInv, OfBlock
    <3>5. Ended(s)
      BY <2>7, <2>11, <2>12, <3>2, <3>3, <3>4 DEF Ended, E, next
    <3>6. Core(BlockEnd(s)) /\ BlockEnd(s).inCall = s.inCall /\ BlockEnd(s).r = s.r
      BY <3>5, BlockEndCore
    <3> QED
      BY <1>2, <2>7, <3>1, <3>6, GoingInv
  <2> QED
    BY <2>13, <2>14
<1> QED
  BY <1>4, <1>7, <1>8

-----------------------------------------------------------------------------
(* Codes, one step at a time                                               *)

\* A code is complete: what it leads to starts where the next one does.
LEMMA DecodedIs ==
    ASSUME Inv(z), z.inCall, z.mode = "LEN", HasBits, ~ (z.step < Len(Item(z).steps))
    PROVE  /\ Kind(z) \in CodeKind
           /\ 8 * Taken.in - Taken.k = FirstBit[z.stream][z.item + 1]
<1> DEFINE steps == Item(z).steps
<1>1. /\ Core(z) /\ InData(z) /\ z.item \in 1 .. Len(z.stream)
      /\ steps \in Seq(Lookup) /\ z.step \in 1 .. Len(steps)
      /\ 8 * Taken.in - Taken.k
           = FirstBit[z.stream][z.item] + (IF z.mode = "TABLE" THEN 3 ELSE 0)
             + BitsBefore(steps, z.step + 1)
  BY TakenIs
<1>2. Kind(z) \in CodeKind
  BY <1>1 DEF Core, ModeInv
<1>3. z.stream \in Streams
  BY <1>1, DoneType
<1>4. /\ FirstBit[z.stream][z.item] \in Nat
      /\ FirstBit[z.stream][z.item + 1] = FirstBit[z.stream][z.item] + BitsIn(steps)
  BY <1>1, <1>2, <1>3, ItemBits DEF Kind, Item
<1>5. z.step + 1 = Len(steps) + 1
  BY <1>1
<1>6. BitsBefore(steps, z.step + 1) = BitsIn(steps)
  BY <1>5 DEF BitsIn
<1>7. FirstBit[z.stream][z.item] + (IF z.mode = "TABLE" THEN 3 ELSE 0) = FirstBit[z.stream][z.item]
  BY <1>4
<1> QED
  BY <1>1, <1>2, <1>4, <1>6, <1>7

LEMMA DecodeInv ==
    ASSUME Inv(z), Decode
    PROVE  Inv(z')
<1> DEFINE s == Taken
           steps == Item(z).steps
           kind == Kind(z)
           len == Item(z).len
           next == FirstBit[z.stream][z.item + 1]
<1>1. /\ z.inCall /\ z.mode = "LEN" /\ HasBits
      /\ z' = IF z.step < Len(steps) THEN [s EXCEPT !.step = @ + 1]
              ELSE CASE kind = "literal" -> [s EXCEPT !.mode = "LIT"]
                     [] kind = "match" -> [s EXCEPT !.mode = "COPY", !.left = len]
                     [] kind = "eob" -> [s EXCEPT !.mode = "WASH"]
                     [] OTHER -> Leave([s EXCEPT !.mode = "BADCODE", !.r = "data"])
  BY DEF Decode, In, Kind, Taken
<1>2. /\ Core(z) /\ InData(z) /\ GoodItem(Item(z)) /\ z.item \in 1 .. Len(z.stream)
      /\ Inside(z, s) /\ s.mode = z.mode /\ s.last = z.last
      /\ s.inCall /\ s.r \in {"ok", "buf"} /\ s.in \in Nat /\ s.k \in 0 .. 15
  BY <1>1, TakenIs
<1>3. s \in State
  BY <1>2 DEF Inside
<1> HIDE DEF s
<1>4. CASE z.step < Len(steps)
  BY <1>1, <1>4, StepOnInv DEF s
<1>5. CASE ~ (z.step < Len(steps))
  <2>1. kind \in CodeKind /\ 8 * s.in - s.k = next
    BY <1>1, <1>5, DecodedIs DEF s
  <2> HIDE DEF next, kind
  <2>2. ASSUME kind \in {"literal", "eob"},
               NEW m, m = IF kind = "literal" THEN "LIT" ELSE "WASH"
        PROVE  Inv([s EXCEPT !.mode = m])
    <3> DEFINE t == [s EXCEPT !.mode = m]
    <3>1. t \in State
      <4>1. t = [s EXCEPT !.mode = m] /\ m \in Mode
        BY <2>2 DEF Mode
      <4> HIDE DEF t
      <4> QED
        BY <1>3, <4>1 DEF State
    <3>2. /\ t.stream = s.stream /\ t.item = s.item /\ t.mode = m /\ t.last = s.last
          /\ t.window = s.window /\ t.read = s.read /\ t.write = s.write /\ t.out = s.out
          /\ t.in = s.in /\ t.avail = s.avail /\ t.k = s.k /\ t.inCall = s.inCall /\ t.r = s.r
      BY <1>3 DEF State
    <3> HIDE DEF t
    <3>3. Inside(z, t)
      BY <1>2, <2>2, <3>1, <3>2 DEF Inside
    <3>4. /\ TypeInv(t) /\ FastInv(t) /\ Kind(t) = kind /\ DataInv(t)
          /\ t.item # Len(t.stream) + 1 /\ t.item = z.item /\ t.stream = z.stream
      <4>1. t.mode \notin {"STORED", "COPY", "DRY"}
        BY <2>2, <3>2
      <4> QED
        BY <1>2, <3>3, <4>1, InsideData DEF kind, Inside
    <3>5. ModeInv(t)
      BY <2>2, <3>2, <3>4 DEF ModeInv
    <3>6. BitsInv(t)
      <4>1. Position(t) = next
        BY <2>2, <3>2, <3>4 DEF Position, next
      <4>2. t.k <= 15
        BY <1>2, <3>2
      <4>3. 8 * t.in - t.k = Position(t)
        BY <2>1, <3>2, <4>1
      <4> QED
        BY <2>2, <3>2, <4>2, <4>3 DEF BitsInv
    <3>7. LastInv(t)
      BY <1>1, <1>2, <3>2, <3>4 DEF Core, LastInv
    <3>8. Core(t)
      BY <3>4, <3>5, <3>6, <3>7 DEF Core
    <3> QED
      BY <1>2, <3>2, <3>8, GoingInv DEF t
  <2>3. CASE kind = "literal"
    BY <1>1, <1>5, <2>2, <2>3
  <2>4. CASE kind = "eob"
    BY <1>1, <1>5, <2>2, <2>4
  <2>5. CASE kind = "match"
    <3> DEFINE t == [s EXCEPT !.mode = "COPY", !.left = len]
               D == Output[z.stream][z.item]
               E == Output[z.stream][z.item + 1]
    <3>1. z' = t
      BY <1>1, <1>5, <2>5
    <3>2. z.stream \in Streams
      BY <1>2, DoneType
    <3>3. /\ D \in Seq(Octet) /\ E \in Seq(Octet) /\ Len(D) \in Nat
          /\ \A n \in 1 .. Len(D) : E[n] = D[n]
          /\ len \in 3 .. MaxMatch /\ Len(E) = Len(D) + len
      BY <1>2, <2>5, <3>2, ItemOutput DEF kind, Kind, Item
    <3>4. len \in Nat /\ len \in 1 .. len /\ MaxMatch \in Nat
      BY <3>3, WindowAssumption
    <3> HIDE DEF D, E
    <3>5. t \in State
      <4>1. t = [s EXCEPT !.mode = "COPY", !.left = len]
        OBVIOUS
      <4> HIDE DEF t, len
      <4> QED
        BY <1>3, <3>4, <4>1 DEF State, Mode
    <3>6. /\ t.stream = s.stream /\ t.item = s.item /\ t.mode = "COPY" /\ t.last = s.last
          /\ t.window = s.window /\ t.read = s.read /\ t.write = s.write /\ t.out = s.out
          /\ t.in = s.in /\ t.avail = s.avail /\ t.k = s.k /\ t.inCall = s.inCall /\ t.r = s.r
          /\ t.left = len
      BY <1>3 DEF State
    <3> HIDE DEF t
    <3>7. Inside(z, t)
      BY <1>2, <3>5, <3>6 DEF Inside
    <3>8. /\ TypeInv(t) /\ FastInv(t) /\ Kind(t) = kind /\ Item(t) = Item(z) /\ InData(t)
          /\ t.item # Len(t.stream) + 1 /\ t.item = z.item /\ t.stream = z.stream
          /\ Sent(t, D, Len(D)) /\ Kept(t, D, Len(D))
      BY <1>2, <3>7, InsideData DEF kind, Inside, D
    <3>9. ModeInv(t)
      BY <2>5, <3>4, <3>6, <3>8 DEF ModeInv
    <3>10. BitsInv(t)
      <4>1. Position(t) = next
        BY <3>6, <3>8 DEF Position, next
      <4>2. t.k <= 15
        BY <1>2, <3>6
      <4>3. 8 * t.in - t.k = Position(t)
        BY <2>1, <3>6, <4>1
      <4> QED
        BY <3>6, <4>2, <4>3 DEF BitsInv
    <3>11. LastInv(t)
      BY <1>1, <1>2, <3>6, <3>8 DEF Core, LastInv
    <3>12. DataInv(t)
      <4> DEFINE N == Len(D)
      <4>1. Goal(t) = E /\ Done(t) = Len(E) - len
        BY <3>6, <3>8 DEF Goal, Done, E
      <4>2. Done(t) = N /\ N \in Nat /\ \A n \in 1 .. N : E[n] = D[n]
        BY <3>3, <3>4, <4>1
      <4>3. Sent(t, D, N) /\ Kept(t, D, N) /\ t.read # WindowSize
        BY <3>8 DEF TypeInv
      <4> HIDE DEF N
      <4>4. Sent(t, E, N) /\ Kept(t, E, N)
        BY <3>5, <4>2, <4>3, Longer
      <4> QED
        BY <3>8, <4>1, <4>2, <4>4 DEF DataInv
    <3>13. Core(t)
      BY <3>8, <3>9, <3>10, <3>11, <3>12 DEF Core
    <3> QED
      BY <1>2, <3>1, <3>6, <3>13, GoingInv
  <2>6. CASE kind \notin {"literal", "match", "eob"}
    <3> DEFINE t == [s EXCEPT !.mode = "BADCODE", !.r = "data"]
    <3>1. z' = Leave(t)
      BY <1>1, <1>5, <2>6
    <3>2. t \in State
      <4>1. t = [s EXCEPT !.mode = "BADCODE", !.r = "data"]
        OBVIOUS
      <4> HIDE DEF t
      <4> QED
        BY <1>3, <4>1 DEF State, Mode, Result
    <3>3. /\ t.stream = s.stream /\ t.item = s.item /\ t.mode = "BADCODE"
          /\ t.window = s.window /\ t.read = s.read /\ t.write = s.write /\ t.out = s.out
          /\ t.in = s.in /\ t.avail = s.avail /\ t.r = "data"
      BY <1>3 DEF State
    <3> HIDE DEF t
    <3>4. Inside(z, t)
      BY <1>2, <3>2, <3>3 DEF Inside
    <3>5. /\ TypeInv(t) /\ FastInv(t) /\ Kind(t) = kind /\ DataInv(t) /\ InData(t)
          /\ t.item # Len(t.stream) + 1
      BY <1>2, <3>3, <3>4, InsideData DEF kind
    <3>6. kind = "badcode"
      BY <2>1, <2>6 DEF CodeKind
    <3>7. ModeInv(t) /\ BitsInv(t) /\ LastInv(t)
      BY <3>3, <3>5, <3>6 DEF ModeInv, BitsInv, LastInv
    <3>8. Core(t)
      BY <3>5, <3>7 DEF Core
    <3> QED
      BY <3>1, <3>3, <3>5, <3>8, LeaveInv
  <2> QED
    BY <2>3, <2>4, <2>5, <2>6
<1> QED
  BY <1>4, <1>5

\* NEEDOUT, where there is room.
LEMMA RoomyIs ==
    ASSUME Inv(z), z.inCall, z.mode \in {"STORED", "LIT", "COPY"}, HasRoom
    PROVE  /\ Roomy \in State /\ Place(z, Roomy) /\ Roomy.inCall /\ Roomy.r = "ok"
           /\ Roomy.read # WindowSize /\ Space(Roomy) > 0 /\ Space(Roomy) = Space(NeedOut(z))
           /\ Sent(Roomy, Goal(z), Done(z)) /\ Kept(Roomy, Goal(z), Done(z))
           /\ Core(z) /\ InData(z) /\ z.item \in 1 .. Len(z.stream) /\ z.stream \in Streams
           /\ GoodItem(Item(z)) /\ Len(z.stream) \in Nat
<1>1. Core(z)
  BY DEF Inv
<1>2. /\ z.item \in 1 .. Len(z.stream) /\ z.stream \in Streams /\ Len(z.stream) \in Nat
      /\ InData(z)
  <2>1. z.item \in 1 .. Len(z.stream) + 1 /\ z.stream \in Streams /\ Len(z.stream) \in Nat
    BY <1>1, DoneType
  <2>2. z.item # Len(z.stream) + 1 /\ Kind(z) \notin ByteKind
    BY <1>1 DEF Core, ModeInv, ByteKind
  <2> QED
    BY <2>1, <2>2 DEF InData
<1>3. GoodItem(Item(z))
  BY <1>2, StreamType DEF Item
<1> DEFINE n == NeedOut(z)
           t == Roomy
<1>4. Core(n) /\ Frame(z, n)
  BY <1>1, <1>2, NeedOutCore
<1>5. n \in State /\ n.read # WindowSize
  BY <1>4, DoneType
<1>6. Sent(n, Goal(z), Done(z)) /\ Kept(n, Goal(z), Done(z))
  <2>1. Goal(n) = Goal(z) /\ Done(n) = Done(z) /\ InData(n)
    BY <1>2, <1>4 DEF Goal, Done, InData, Kind, Item, Frame
  <2> QED
    BY <1>4, <2>1 DEF Core, DataInv
<1>7. Space(n) > 0 /\ t = [n EXCEPT !.r = "ok"]
  BY DEF HasRoom, Roomy
<1> HIDE DEF n, t
<1>8. t \in State
  BY <1>5, <1>7 DEF State, Result
<1>9. /\ Place(n, t) /\ t.inCall = n.inCall /\ t.r = "ok" /\ t.read = n.read
      /\ t.write = n.write /\ t.window = n.window /\ t.out = n.out
  BY <1>5, <1>7 DEF State, Place
<1>10. Place(z, t) /\ t.inCall
  BY <1>4, <1>9 DEF Place, Frame
<1>11. Space(t) = Space(n) /\ Sent(t, Goal(z), Done(z)) /\ Kept(t, Goal(z), Done(z))
  BY <1>6, <1>9, SameWindow
<1> QED
  BY <1>1, <1>2, <1>3, <1>5, <1>7, <1>8, <1>9, <1>10, <1>11 DEF t, n

\* t has written what the code of s stands for.
Behind(s, t) ==
    /\ t \in State /\ t.stream = s.stream /\ t.item = s.item /\ t.last = s.last
    /\ t.read # WindowSize /\ t.in + t.avail <= Bytes(t.stream)
    /\ LET E == Output[s.stream][s.item + 1] IN Sent(t, E, Len(E)) /\ Kept(t, E, Len(E))
    /\ 8 * t.in - t.k = FirstBit[s.stream][s.item + 1]
    /\ t.inCall

LEMMA BehindNext ==
    ASSUME NEW s, NEW t, Core(s), InData(s), s.mode \in {"LIT", "COPY", "FAST"},
           Kind(s) \in {"literal", "match"}, Behind(s, t)
    PROVE  /\ NextItem(s, Advance(t)) /\ OfBlock(s, Advance(t)) /\ Advance(t).mode = "START"
           /\ LET E == Output[s.stream][s.item + 1] IN Kept(Advance(t), E, Len(E))
           /\ Advance(t).k = t.k /\ Advance(t).in = t.in /\ Advance(t).avail = t.avail
           /\ Advance(t).r = t.r /\ Advance(t).inCall
<1> DEFINE E == Output[s.stream][s.item + 1]
           h == s.item + 1
           u == Advance(t)
<1>1. s.item \in 1 .. Len(s.stream) /\ s.stream \in Streams /\ Len(s.stream) \in Nat
  BY DoneType DEF InData
<1>2. /\ t \in State /\ t.stream = s.stream /\ t.item = s.item /\ t.last = s.last
      /\ t.read # WindowSize /\ t.in + t.avail <= Bytes(t.stream)
      /\ Sent(t, E, Len(E)) /\ Kept(t, E, Len(E)) /\ t.inCall
  BY DEF Behind
<1>3. /\ u \in State /\ u.item = h /\ u.step = 1 /\ u.mode = EntryMode(s.stream, h)
      /\ u.stream = s.stream /\ u.last = s.last /\ u.k = t.k
      /\ u.window = t.window /\ u.read = t.read /\ u.write = t.write /\ u.in = t.in
      /\ u.avail = t.avail /\ u.out = t.out /\ u.inCall = t.inCall /\ u.r = t.r
  <2>1. t.item # 0
    BY <1>1, <1>2
  <2>2. /\ u \in State /\ u.item = t.item + 1 /\ u.step = 1
        /\ u.mode = EntryMode(t.stream, t.item + 1)
        /\ u.stream = t.stream /\ u.last = t.last /\ u.k = t.k
        /\ u.window = t.window /\ u.read = t.read /\ u.write = t.write /\ u.in = t.in
        /\ u.avail = t.avail /\ u.out = t.out /\ u.inCall = t.inCall /\ u.r = t.r
    BY <1>2, <2>1, AdvanceFields
  <2> QED
    BY <1>2, <2>2
<1> HIDE DEF u
<1>4. s.item < Len(s.stream) /\ s.stream[h].kind \in CodeKind
  BY <1>1, Follows DEF Kind, Item
<1>5. u.mode = "START"
  <2>1. h \in Nat \ {0} /\ h <= Len(s.stream)
    BY <1>1, <1>4
  <2> HIDE DEF h
  <2> QED
    BY <1>1, <1>3, <1>4, <2>1, EntryModeIs
<1>6. Sent(u, E, Len(E)) /\ Kept(u, E, Len(E))
  BY <1>2, <1>3, SameWindow
<1>7. NextItem(s, u)
  BY <1>1, <1>2, <1>3, <1>6 DEF NextItem
<1>8. OfBlock(s, u)
  BY <1>3 DEF Core, LastInv, OfBlock
<1> QED
  BY <1>2, <1>3, <1>5, <1>6, <1>7, <1>8 DEF u

LEMMA BehindInv ==
    ASSUME NEW s, NEW t, Core(s), InData(s), s.mode \in {"LIT", "COPY"},
           Kind(s) \in {"literal", "match"}, Behind(s, t), t.k <= 15, t.r = "ok"
    PROVE  Inv(Advance(t))
<1> DEFINE u == Advance(t)
<1>1. /\ NextItem(s, u) /\ OfBlock(s, u) /\ u.mode = "START"
      /\ LET E == Output[s.stream][s.item + 1] IN Kept(u, E, Len(E))
      /\ u.k = t.k /\ u.in = t.in /\ u.r = "ok" /\ u.inCall
  BY BehindNext
<1>2. 8 * u.in - u.k = FirstBit[s.stream][s.item + 1] /\ u.k <= 15
  BY <1>1 DEF Behind
<1> HIDE DEF u
<1>3. AtCode(s, u)
  BY <1>1, <1>2 DEF AtCode
<1>4. Core(u)
  BY <1>3, AtCodeCore
<1> QED
  BY <1>1, <1>4, GoingInv DEF u

\* The byte written, and what it leaves alone.
LEMMA PutFields ==
    ASSUME NEW s \in State, NEW x
    PROVE  /\ Put(s, x).stream = s.stream /\ Put(s, x).item = s.item /\ Put(s, x).last = s.last
           /\ Put(s, x).mode = s.mode /\ Put(s, x).left = s.left /\ Put(s, x).k = s.k
           /\ Put(s, x).read = s.read /\ Put(s, x).in = s.in /\ Put(s, x).avail = s.avail
           /\ Put(s, x).out = s.out /\ Put(s, x).r = s.r /\ Put(s, x).inCall = s.inCall
           /\ Put(s, x).step = s.step
BY DEF Put, State

LEMMA LitInv ==
    ASSUME Inv(z), Lit
    PROVE  Inv(z')
<1> DEFINE s == Roomy
           x == Item(z).sym
           t == Put(s, x)
           D == Output[z.stream][z.item]
           E == Output[z.stream][z.item + 1]
           N == Len(D)
<1>1. z.inCall /\ z.mode = "LIT" /\ HasRoom /\ z' = Advance(t)
  BY DEF Lit, In
<1>2. /\ s \in State /\ Place(z, s) /\ s.inCall /\ s.r = "ok"
      /\ s.read # WindowSize /\ Space(s) > 0
      /\ Sent(s, Goal(z), Done(z)) /\ Kept(s, Goal(z), Done(z))
      /\ Core(z) /\ InData(z) /\ z.item \in 1 .. Len(z.stream) /\ z.stream \in Streams
  BY <1>1, RoomyIs
<1>3. Kind(z) = "literal"
  BY <1>1, <1>2 DEF Core, ModeInv
<1>4. /\ x \in Octet /\ N \in Nat /\ Len(E) = N + 1 /\ E[N + 1] = x
      /\ \A i \in 1 .. N : E[i] = D[i]
  BY <1>2, <1>3, ItemOutput DEF Kind, Item
<1>5. Sent(s, D, N) /\ Kept(s, D, N)
  <2>1. Goal(z) = D /\ Done(z) = Len(D) - 0
    BY <1>1 DEF Goal, Done
  <2>2. Done(z) = N
    BY <1>4, <2>1
  <2> QED
    BY <1>2, <2>1, <2>2
<1> HIDE DEF s, x, D, E, N
<1>6. Sent(s, E, N) /\ Kept(s, E, N)
  BY <1>2, <1>4, <1>5, Longer
<1>7. t \in State /\ Sent(t, E, N + 1) /\ Kept(t, E, N + 1)
  BY <1>2, <1>4, <1>6, PutKeeps, Zenon
<1>8. /\ t.stream = s.stream /\ t.item = s.item /\ t.last = s.last /\ t.k = s.k
      /\ t.read = s.read /\ t.in = s.in /\ t.avail = s.avail /\ t.r = s.r /\ t.inCall = s.inCall
  BY <1>2, PutFields
<1> HIDE DEF t
<1>9. Sent(t, E, Len(E)) /\ Kept(t, E, Len(E))
  BY <1>4, <1>7
<1>10. 8 * t.in - t.k = FirstBit[z.stream][z.item + 1] /\ t.k <= 15
  <2>1. Position(z) = FirstBit[z.stream][z.item + 1]
    BY <1>1 DEF Position
  <2> QED
    BY <1>1, <1>2, <1>8, <2>1 DEF Core, BitsInv, Place
<1>11. t.in + t.avail <= Bytes(t.stream)
  BY <1>2, <1>8 DEF Core, TypeInv, Place
<1>12. Behind(z, t)
  BY <1>2, <1>7, <1>8, <1>9, <1>10, <1>11 DEF Behind, Place, E
<1> QED
  BY <1>1, <1>2, <1>3, <1>8, <1>10, <1>12, BehindInv

LEMMA CopyInv ==
    ASSUME Inv(z), Copy
    PROVE  Inv(z')
<1> DEFINE s == Roomy
           dist == Item(z).dist
           len == Item(z).len
           x == Source(s, dist)
           p == Put(s, x)
           t == [p EXCEPT !.left = z.left - 1]
           D == Output[z.stream][z.item]
           E == Output[z.stream][z.item + 1]
           N == Len(E) - z.left
<1>1. z.inCall /\ z.mode = "COPY" /\ HasRoom
  BY DEF Copy, In
<1>2. /\ s \in State /\ Place(z, s) /\ s.inCall /\ s.r = "ok"
      /\ s.read # WindowSize /\ Space(s) > 0
      /\ Sent(s, Goal(z), Done(z)) /\ Kept(s, Goal(z), Done(z))
      /\ Core(z) /\ InData(z) /\ z.item \in 1 .. Len(z.stream) /\ z.stream \in Streams
      /\ Len(z.stream) \in Nat
  BY <1>1, RoomyIs
<1>3. Kind(z) = "match" /\ z.left \in 1 .. len
  BY <1>1, <1>2 DEF Core, ModeInv
<1>4. /\ D \in Seq(Octet) /\ E \in Seq(Octet) /\ Len(D) \in Nat
      /\ len \in 3 .. MaxMatch /\ dist \in 1 .. WindowSize /\ dist <= Len(D)
      /\ Len(E) = Len(D) + len
      /\ \A n \in Len(D) + 1 .. Len(D) + len : E[n] = E[n - dist]
  BY <1>2, <1>3, ItemOutput DEF Kind, Item
<1>5. Goal(z) = E /\ Done(z) = N
  BY <1>1 DEF Goal, Done
<1> HIDE DEF s, dist, len, D, E
<1>6. len \in Nat /\ z.left \in Nat /\ dist \in Nat /\ dist >= 1
  BY <1>3, <1>4, WindowAssumption
<1>7. /\ N \in Nat /\ dist <= N /\ N + 1 \in Len(D) + 1 .. Len(D) + len
      /\ N + 1 \in 1 .. Len(E) /\ N + 1 - dist = N - dist + 1
  BY <1>3, <1>4, <1>6
<1>8. x = E[N + 1] /\ x \in Octet
  <2>1. E[N + 1] = E[N + 1 - dist]
    BY <1>4, <1>7
  <2>2. E[N + 1] \in Octet
    BY <1>4, <1>7
  <2>3. Kept(s, E, N)
    BY <1>2, <1>5
  <2> HIDE DEF N, x
  <2>4. Source(s, dist) = E[N - dist + 1]
    BY <1>2, <1>4, <1>7, <2>3, SourceIs
  <2> QED
    BY <1>7, <2>1, <2>2, <2>4 DEF x
<1>9. p \in State /\ Sent(p, E, N + 1) /\ Kept(p, E, N + 1)
  <2>1. Sent(s, E, N) /\ Kept(s, E, N)
    BY <1>2, <1>5
  <2> HIDE DEF N, x
  <2> QED
    BY <1>2, <1>7, <1>8, <2>1, PutKeeps, Zenon
<1>10. /\ p.stream = s.stream /\ p.item = s.item /\ p.last = s.last /\ p.k = s.k /\ p.left = s.left
       /\ p.read = s.read /\ p.in = s.in /\ p.avail = s.avail /\ p.r = s.r
       /\ p.inCall = s.inCall /\ p.mode = s.mode /\ p.step = s.step
  BY <1>2, PutFields
<1>11. z' = IF t.left = 0 THEN Advance(t) ELSE t
  <2>1. [p EXCEPT !.left = @ - 1] = t
    BY <1>2, <1>9, <1>10 DEF Place, State
  <2> QED
    BY <2>1 DEF Copy, s, dist
<1> DEFINE l == z.left - 1
<1>12. l \in Nat
  BY <1>3, <1>6
<1> HIDE DEF p
<1>13. t = [p EXCEPT !.left = l]
  OBVIOUS
<1> HIDE DEF t
<1>14. t \in State
  <2> HIDE DEF l
  <2> QED
    BY <1>9, <1>12, <1>13 DEF State
<1>15. /\ t.stream = p.stream /\ t.item = p.item /\ t.last = p.last /\ t.k = p.k /\ t.left = l
       /\ t.read = p.read /\ t.in = p.in /\ t.avail = p.avail /\ t.r = p.r
       /\ t.inCall = p.inCall /\ t.mode = p.mode
       /\ t.write = p.write /\ t.window = p.window /\ t.out = p.out
  BY <1>9, <1>13 DEF State
<1>16. Sent(t, E, N + 1) /\ Kept(t, E, N + 1)
  BY <1>9, <1>15, SameWindow
<1>17. /\ t.stream = z.stream /\ t.item = z.item /\ t.last = z.last /\ t.in = z.in
       /\ t.avail = z.avail /\ t.k = z.k /\ t.mode = "COPY" /\ t.r = "ok" /\ t.inCall
       /\ t.read # WindowSize
  BY <1>1, <1>2, <1>10, <1>15 DEF Place
<1>18. 8 * t.in - t.k = FirstBit[z.stream][z.item + 1] /\ t.k <= 15
  <2>1. Position(z) = FirstBit[z.stream][z.item + 1]
    BY <1>1 DEF Position
  <2> QED
    BY <1>1, <1>2, <1>17, <2>1 DEF Core, BitsInv
<1>19. t.in + t.avail <= Bytes(t.stream) /\ t.item \in 1 .. Len(t.stream) + 1
  BY <1>2, <1>17 DEF Core, TypeInv
<1>20. CASE t.left = 0
  <2>1. N + 1 = Len(E)
    BY <1>4, <1>6, <1>15, <1>20
  <2>2. Sent(t, E, Len(E)) /\ Kept(t, E, Len(E))
    BY <1>16, <2>1
  <2>3. Behind(z, t)
    BY <1>14, <1>17, <1>18, <1>19, <2>2 DEF Behind, E
  <2> QED
    BY <1>1, <1>2, <1>3, <1>11, <1>17, <1>18, <1>20, <2>3, BehindInv
<1>21. CASE t.left # 0
  <2>1. z' = t
    BY <1>11, <1>21
  <2>2. TypeInv(t) /\ Item(t) = Item(z) /\ Kind(t) = Kind(z)
    BY <1>14, <1>17, <1>19 DEF TypeInv, Item, Kind
  <2>3. ModeInv(t)
    <3>1. l \in 1 .. Item(t).len
      BY <1>3, <1>6, <1>15, <1>21, <2>2 DEF len
    <3>2. t.item # Len(t.stream) + 1
      BY <1>2, <1>17
    <3> HIDE DEF l
    <3> QED
      BY <1>3, <1>15, <1>17, <2>2, <3>1, <3>2 DEF ModeInv
  <2>4. BitsInv(t)
    <3>1. Position(t) = FirstBit[z.stream][z.item + 1]
      BY <1>17 DEF Position
    <3> QED
      BY <1>17, <1>18, <3>1 DEF BitsInv
  <2>5. FastInv(t)
    BY <1>17 DEF FastInv
  <2>6. LastInv(t)
    BY <1>1, <1>2, <1>17 DEF Core, LastInv
  <2>7. DataInv(t)
    <3>1. Goal(t) = E /\ Done(t) = Len(E) - l
      BY <1>15, <1>17 DEF Goal, Done, E
    <3>2. Done(t) = N + 1
      BY <1>4, <1>6, <3>1
    <3>3. InData(t)
      BY <1>2, <1>17, <2>2 DEF InData
    <3> QED
      BY <1>16, <3>1, <3>2, <3>3 DEF DataInv
  <2>8. Core(t)
    BY <2>2, <2>3, <2>4, <2>5, <2>6, <2>7 DEF Core
  <2> QED
    BY <1>17, <2>1, <2>8, GoingInv
<1> QED
  BY <1>20, <1>21

LEMMA WashInv ==
    ASSUME Inv(z), Wash
    PROVE  Inv(z')
<1> DEFINE b == ByteBack(z)
           s == Flush(b)
           u == [s EXCEPT !.r = "ok"]
           next == FirstBit[z.stream][z.item + 1]
           D == Output[z.stream][z.item]
           E == Output[z.stream][z.item + 1]
<1>1. /\ z.inCall /\ z.mode = "WASH" /\ Core(z)
      /\ z' = IF s.read # s.write /\ s.r # "end" THEN Leave(s) ELSE BlockEnd(u)
  BY DEF Wash, In, Inv
<1>2. /\ z \in State /\ z.item \in 1 .. Len(z.stream) + 1 /\ Len(z.stream) \in Nat
      /\ z.stream \in Streams /\ z.r \in {"ok", "buf", "end"}
  BY <1>1, DoneType, InvGoing
<1>3. /\ Kind(z) = "eob" /\ z.item \in 1 .. Len(z.stream) /\ InData(z)
  BY <1>1, <1>2 DEF Core, ModeInv, InData, ByteKind
<1>4. next \in Nat /\ E = D
  BY <1>2, <1>3, ItemBits, ItemOutput DEF Kind, Item
<1>5. 8 * z.in - z.k = next /\ z.k <= 15 /\ z.k \in Nat /\ z.in \in Nat /\ z.avail \in Nat
      /\ z.in + z.avail <= Bytes(z.stream)
  <2>1. Position(z) = next
    BY <1>1 DEF Position
  <2>2. z.k \in 0 .. 32 /\ z.in \in Nat /\ z.avail \in Nat
    BY <1>2 DEF State
  <2>3. 8 * z.in - z.k = next /\ z.k <= 15
    BY <1>1, <2>1 DEF Core, BitsInv
  <2>4. z.in + z.avail <= Bytes(z.stream)
    BY <1>1 DEF Core, TypeInv
  <2>5. z.k \in Nat
    BY <2>2
  <2> QED
    BY <2>2, <2>3, <2>4, <2>5
<1> HIDE DEF next, D, E
<1>6. Bytes(z.stream) \in Nat
  BY <1>2, BytesType
<1>7. /\ b \in State /\ b.stream = z.stream /\ b.item = z.item /\ b.mode = z.mode /\ b.last = z.last
      /\ b.window = z.window /\ b.read = z.read /\ b.write = z.write /\ b.out = z.out
      /\ b.r = z.r /\ b.inCall = z.inCall
      /\ b.k \in Nat /\ b.k <= 7 /\ b.in \in Nat /\ 8 * b.in - b.k = next
      /\ b.in + b.avail <= Bytes(b.stream)
  <2>1. CASE z.k > 7
    <3> DEFINE k == z.k - 8   i == z.in - 1   a == z.avail + 1
    <3>1. b = [z EXCEPT !.k = k, !.in = i, !.avail = a]
      BY <1>2, <2>1 DEF ByteBack, State
    <3>2. k \in 0 .. 32 /\ k <= 7 /\ i \in Nat /\ a \in Nat /\ 8 * i - k = next
          /\ i + a <= Bytes(z.stream)
      BY <1>4, <1>5, <1>6, <2>1
    <3> HIDE DEF k, i, a, b
    <3>3. b \in State
      BY <1>2, <3>1, <3>2 DEF State
    <3>4. /\ b.stream = z.stream /\ b.item = z.item /\ b.mode = z.mode /\ b.last = z.last
          /\ b.window = z.window /\ b.read = z.read /\ b.write = z.write /\ b.out = z.out
          /\ b.r = z.r /\ b.inCall = z.inCall /\ b.k = k /\ b.in = i /\ b.avail = a
      BY <1>2, <3>1 DEF State
    <3> QED
      BY <3>2, <3>3, <3>4
  <2>2. CASE ~ (z.k > 7)
    <3>1. b = z
      BY <2>2 DEF ByteBack
    <3>2. z.k <= 7
      BY <1>5, <2>2
    <3> HIDE DEF b
    <3> QED
      BY <1>2, <1>5, <3>1, <3>2
  <2> QED
    BY <2>1, <2>2
<1> HIDE DEF b
<1>8. Inside(z, b)
  BY <1>1, <1>7 DEF Inside
<1>9. /\ TypeInv(b) /\ FastInv(b) /\ Kind(b) = "eob" /\ InData(b) /\ DataInv(b)
      /\ b.item # Len(b.stream) + 1
  BY <1>1, <1>3, <1>7, <1>8, InsideData
<1>10. ModeInv(b) /\ LastInv(b)
  BY <1>1, <1>7, <1>9 DEF ModeInv, Core, LastInv
<1>11. BitsInv(b)
  <2>1. Position(b) = next
    BY <1>1, <1>7 DEF Position, next
  <2>2. b.k <= 15
    BY <1>7
  <2> QED
    BY <1>1, <1>7, <2>1, <2>2 DEF BitsInv
<1>12. Core(b)
  BY <1>9, <1>10, <1>11 DEF Core
<1>13. /\ Core(s) /\ Frame(b, s) /\ s.r \in {b.r} \cup (IF b.r = "buf" THEN {"ok"} ELSE {})
       /\ s.room = 0 \/ s.read = s.write
  BY <1>1, <1>7, <1>9, <1>12, FlushCore
<1> HIDE DEF s
<1>14. s \in State /\ s.r \in {"ok", "buf", "end"}
  BY <1>2, <1>7, <1>13, DoneType
<1>15. /\ s.stream = z.stream /\ s.item = z.item /\ s.mode = "WASH" /\ s.last = z.last
       /\ s.inCall /\ s.k = b.k /\ s.in = b.in
       /\ Item(s) = Item(z) /\ Kind(s) = "eob" /\ InData(s)
  BY <1>1, <1>3, <1>7, <1>13 DEF Frame, Item, Kind, InData
<1>16. CASE s.read # s.write /\ s.r # "end"
  <2>1. z' = Leave(s)
    BY <1>1, <1>16
  <2> QED
    BY <1>13, <1>14, <1>15, <1>16, <2>1, LeaveInv
<1>17. CASE ~ (s.read # s.write /\ s.r # "end")
  <2>1. z' = BlockEnd(u)
    BY <1>1, <1>17
  <2>2. /\ u.stream = s.stream /\ u.item = s.item /\ u.last = s.last
        /\ u.inCall = s.inCall /\ u.k = s.k /\ u.in = s.in /\ u.avail = s.avail /\ u.r = "ok"
        /\ u.window = s.window /\ u.read = s.read /\ u.write = s.write /\ u.out = s.out
    BY <1>14 DEF State
  <2>3. u \in State
    <3>1. u = [s EXCEPT !.r = "ok"]
      OBVIOUS
    <3> HIDE DEF u
    <3> QED
      BY <1>14, <3>1 DEF State, Result
  <2> HIDE DEF u
  <2>4. TypeInv(u)
    BY <1>13, <2>2, <2>3 DEF Core, TypeInv
  <2>5. Kind(u) = "eob" /\ u.item <= Len(u.stream)
    BY <1>2, <1>3, <1>15, <2>2 DEF Kind, Item
  <2>6. OfBlock(u, u)
    BY <1>13, <1>15, <2>2 DEF Core, LastInv, OfBlock
  <2>7. Sent(u, E, Len(E)) /\ Kept(u, E, Len(E))
    <3>1. Goal(s) = E
      BY <1>4, <1>15 DEF Goal, D
    <3>2. E \in Seq(Octet)
      BY <1>13, <3>1, DoneType
    <3>3. Done(s) = Len(E) - 0
      BY <1>15, <3>1 DEF Done
    <3>4. Done(s) = Len(E)
      BY <3>2, <3>3
    <3>5. Sent(s, E, Len(E)) /\ Kept(s, E, Len(E))
      BY <1>13, <1>15, <3>1, <3>4 DEF Core, DataInv
    <3> QED
      BY <2>2, <3>5, SameWindow
  <2>8. 8 * u.in - u.k = next /\ u.k <= 7
    BY <1>7, <1>15, <2>2
  <2>9. Ended(u)
    BY <1>15, <2>2, <2>4, <2>5, <2>6, <2>7, <2>8 DEF Ended, E, next
  <2>10. Core(BlockEnd(u)) /\ BlockEnd(u).inCall = u.inCall /\ BlockEnd(u).r = u.r
    BY <2>9, BlockEndCore
  <2> QED
    BY <1>15, <2>1, <2>2, <2>10, GoingInv
<1> QED
  BY <1>16, <1>17

\* Some bytes of a stored block are copied.
LEMMA StoredBytesInv ==
    ASSUME Inv(z), StoredBytes
    PROVE  Inv(z')
<1>1. z.inCall /\ z.mode = "STORED" /\ Core(z)
  BY DEF StoredBytes, In, Inv
<1>2. CASE z.avail = 0
  <2>1. z' = Leave(z)
    BY <1>2 DEF StoredBytes
  <2>2. z.r \in {"ok", "buf"}
    BY <1>1, InvGoing
  <2>3. InData(z)
    <3>1. z.item \in 1 .. Len(z.stream) + 1 /\ Len(z.stream) \in Nat
      BY <1>1, DoneType
    <3> QED
      BY <1>1, <3>1 DEF Core, ModeInv, InData, ByteKind
  <2> QED
    BY <1>1, <1>2, <2>1, <2>2, <2>3, LeaveInv
<1>3. CASE z.avail # 0
  <2> DEFINE y == Roomy
             space == Space(NeedOut(z))
             bytes == Item(z).bytes
             n == Len(bytes)
             l == z.left
             c == Min({l, z.avail, space})
             rest == SubSeq(bytes, n - l + 1, n)
             piece == SubSeq(rest, 1, c)
             p == PutAll(y, piece)
             t == [p EXCEPT !.in = z.in + c, !.avail = z.avail - c, !.left = l - c]
             D == Output[z.stream][z.item]
             E == Output[z.stream][z.item + 1]
             N == Len(E) - l
             next == FirstBit[z.stream][z.item + 1]
  <2>1. HasRoom /\ z' = IF c < l THEN [p EXCEPT !.in = @ + c, !.avail = @ - c, !.left = @ - c]
                        ELSE BlockEnd([p EXCEPT !.in = @ + c, !.avail = @ - c, !.left = @ - c])
    BY <1>3 DEF StoredBytes
  <2>2. /\ y \in State /\ Place(z, y) /\ y.inCall /\ y.r = "ok"
        /\ y.read # WindowSize /\ Space(y) > 0 /\ Space(y) = space
        /\ Sent(y, Goal(z), Done(z)) /\ Kept(y, Goal(z), Done(z))
        /\ InData(z) /\ z.item \in 1 .. Len(z.stream) /\ z.stream \in Streams
        /\ Len(z.stream) \in Nat
    BY <1>1, <2>1, RoomyIs
  <2>3. Kind(z) = "stored" /\ l \in 1 .. n
    BY <1>1 DEF Core, ModeInv
  <2>4. /\ D \in Seq(Octet) /\ E \in Seq(Octet) /\ Len(D) \in Nat
        /\ bytes \in Seq(Octet) /\ Len(E) = Len(D) + n
        /\ \A i \in 1 .. n : E[Len(D) + i] = bytes[i]
        /\ next \in Nat
    BY <2>2, <2>3, ItemOutput, ItemBits DEF Kind, Item
  <2>5. Goal(z) = E /\ Done(z) = N
    BY <1>1 DEF Goal, Done
  <2>6. /\ z \in State /\ z.in \in Nat /\ z.avail \in Nat /\ z.k = 0
        /\ z.in + z.avail <= Bytes(z.stream) /\ 8 * z.in - z.k = next - 8 * l
    <3>1. z \in State
      BY <1>1, DoneType
    <3>2. Position(z) = next - 8 * l
      BY <1>1 DEF Position
    <3> QED
      BY <1>1, <3>1, <3>2 DEF Core, TypeInv, BitsInv, State
  <2> HIDE DEF y, space, bytes, D, E, next
  <2>7. n \in Nat /\ l \in Nat /\ l >= 1 /\ l <= n
    BY <2>3, <2>4
  <2> HIDE DEF n
  <2>8. space \in Nat /\ space > 0
    <3>1. y.read \in 0 .. WindowSize /\ y.write \in 0 .. WindowSize /\ WindowSize \in Nat
      BY <2>2, WindowAssumption DEF State
    <3> DEFINE rd == y.read   wr == y.write
    <3>2. space = IF wr < rd THEN rd - wr - 1 ELSE WindowSize - wr
      BY <2>2 DEF Space
    <3>3. rd \in Nat /\ wr \in Nat /\ WindowSize \in Nat /\ wr <= WindowSize
      BY <3>1
    <3> HIDE DEF rd, wr
    <3> QED
      BY <2>2, <3>2, <3>3
  <2>9. c \in Nat /\ c <= l /\ c <= z.avail /\ c <= space /\ c >= 1
    <3> DEFINE a == z.avail
               T == {l, a, space}
    <3>1. a \in Nat /\ a >= 1
      BY <1>3, <2>6
    <3> HIDE DEF a, l
    <3>2. \E x \in T : \A w \in T : x <= w
      <4>1. T \subseteq Nat /\ T # {}
        BY <2>7, <2>8, <3>1
      <4> HIDE DEF T
      <4> QED
        BY <4>1, Least
    <3>3. c \in T /\ \A w \in T : c <= w
      <4>1. c = Min(T)
        BY DEF a
      <4> QED
        BY <3>2, <4>1 DEF Min
    <3> HIDE DEF c
    <3>4. c <= l /\ c <= a /\ c <= space /\ c \in {l, a, space}
      BY <3>3
    <3> QED
      BY <2>7, <2>8, <3>1, <3>4 DEF a
  <2> HIDE DEF c
  <2>10. /\ piece \in Seq(Octet) /\ Len(piece) = c
         /\ \A i \in 1 .. c : piece[i] = bytes[n - l + i]
    <3> DEFINE m == n - l + 1
    <3>1. m \in 1 .. n /\ m \in Nat /\ n - m + 1 = l /\ m <= n + 1
      BY <2>7
    <3> HIDE DEF l
    <3>2. rest \in Seq(Octet) /\ Len(rest) = n - m + 1
          /\ \A i \in 1 .. n - m + 1 : rest[i] = bytes[m + i - 1]
      <4> DEFINE q == m
      <4>1. q \in 1 .. n /\ n = Len(bytes)
        BY <3>1 DEF n
      <4> HIDE DEF m, q
      <4> DEFINE R == SubSeq(bytes, q, n)
      <4>2. R \in Seq(Octet) /\ Len(R) = n - q + 1
            /\ \A i \in 1 .. n - q + 1 : R[i] = bytes[q + i - 1]
        BY <2>4, <2>7, <4>1
      <4> HIDE DEF R
      <4> QED
        BY <4>2 DEF q, R, m
    <3> HIDE DEF rest
    <3>3. Len(rest) = l
      BY <3>1, <3>2
    <3>4. piece \in Seq(Octet) /\ Len(piece) = c /\ \A i \in 1 .. c : piece[i] = rest[i]
      BY <2>7, <2>9, <3>2, <3>3
    <3>5. \A i \in 1 .. c : piece[i] = bytes[n - l + i]
      <4> SUFFICES ASSUME NEW i \in 1 .. c PROVE piece[i] = bytes[n - l + i]
        OBVIOUS
      <4>1. i \in 1 .. n - m + 1 /\ m + i - 1 = n - l + i
        BY <2>7, <2>9, <3>1
      <4> HIDE DEF piece, m
      <4> QED
        BY <3>2, <3>4, <4>1
    <3> QED
      BY <3>4, <3>5
  <2> HIDE DEF piece
  <2>11. N \in Nat /\ \A i \in 1 .. Len(piece) : E[N + i] = piece[i]
    <3>1. N = Len(D) + (n - l) /\ N \in Nat
      BY <2>4, <2>7 DEF n
    <3> SUFFICES ASSUME NEW i \in 1 .. Len(piece) PROVE E[N + i] = piece[i]
      BY <3>1
    <3> DEFINE j == n - l + i
    <3>2. j \in 1 .. n /\ N + i = Len(D) + j /\ i \in 1 .. c
      <4> DEFINE d == Len(D)
      <4>1. i \in 1 .. c
        BY <2>10
      <4>2. d \in Nat /\ N = d + (n - l)
        BY <2>4, <3>1
      <4> HIDE DEF d, N
      <4> QED
        BY <2>7, <2>9, <4>1, <4>2 DEF d
    <3> HIDE DEF N
    <3>3. piece[i] = bytes[j]
      BY <2>10, <3>2
    <3> HIDE DEF j
    <3>4. E[Len(D) + j] = bytes[j]
      BY <2>4, <3>2 DEF n
    <3> QED
      BY <3>2, <3>3, <3>4
  <2> DEFINE m == Len(piece)
  <2>12. /\ p \in State /\ p = [y EXCEPT !.window = p.window, !.write = y.write + m]
         /\ Sent(p, E, N + m) /\ Kept(p, E, N + m)
    <3>1. Sent(y, E, N) /\ Kept(y, E, N)
      BY <2>2, <2>5
    <3>2. m <= Space(y)
      BY <2>2, <2>9, <2>10
    <3> HIDE DEF N
    <3> QED
      BY <2>2, <2>10, <2>11, <3>1, <3>2, PutAllKeeps, Zenon
  <2> HIDE DEF p
  <2>13. /\ p.stream = y.stream /\ p.item = y.item /\ p.last = y.last /\ p.k = y.k /\ p.left = y.left
         /\ p.read = y.read /\ p.in = y.in /\ p.avail = y.avail /\ p.r = y.r
         /\ p.inCall = y.inCall /\ p.mode = y.mode
    BY <2>2, <2>12 DEF State
  <2> DEFINE i == z.in + c   a == z.avail - c   f == l - c
  <2>14. z' = IF c < l THEN t ELSE BlockEnd(t)
    <3>1. [p EXCEPT !.in = @ + c, !.avail = @ - c, !.left = @ - c] = t
      BY <2>2, <2>12, <2>13 DEF Place, State
    <3> QED
      BY <2>1, <3>1
  <2>15. i \in Nat /\ a \in Nat /\ f \in Nat /\ i + a = z.in + z.avail
    BY <2>6, <2>7, <2>9
  <2>16. t = [p EXCEPT !.in = i, !.avail = a, !.left = f]
    OBVIOUS
  <2> HIDE DEF t, i, a, f
  <2>17. t \in State
    BY <2>12, <2>15, <2>16 DEF State
  <2>18. /\ t.stream = z.stream /\ t.item = z.item /\ t.last = z.last /\ t.k = 0 /\ t.left = f
         /\ t.read = p.read /\ t.write = p.write /\ t.window = p.window /\ t.out = p.out
         /\ t.in = i /\ t.avail = a /\ t.r = "ok" /\ t.inCall /\ t.mode = "STORED"
         /\ t.read # WindowSize
    <3>1. /\ t.stream = p.stream /\ t.item = p.item /\ t.last = p.last /\ t.k = p.k /\ t.left = f
          /\ t.read = p.read /\ t.write = p.write /\ t.window = p.window /\ t.out = p.out
          /\ t.in = i /\ t.avail = a /\ t.r = p.r /\ t.inCall = p.inCall /\ t.mode = p.mode
      BY <2>12, <2>16 DEF State
    <3> QED
      BY <1>1, <2>2, <2>6, <2>13, <3>1 DEF Place
  <2>19. TypeInv(t) /\ Item(t) = Item(z) /\ Kind(t) = "stored"
    <3>1. t.item \in 1 .. Len(t.stream) + 1
      BY <2>2, <2>18
    <3>2. t.in + t.avail <= Bytes(t.stream)
      BY <2>6, <2>15, <2>18
    <3> QED
      BY <2>3, <2>17, <2>18, <3>1, <3>2 DEF TypeInv, Item, Kind
  <2>20. Sent(t, E, N + c) /\ Kept(t, E, N + c)
    BY <2>10, <2>12, <2>18, SameWindow
  <2>21. 8 * t.in - t.k = next - 8 * f
    <3> DEFINE b == z.in
    <3>1. b \in Nat /\ 8 * b = next - 8 * l
      BY <2>4, <2>6, <2>7
    <3>2. t.in = b + c /\ t.k = 0 /\ f = l - c
      BY <2>18 DEF i, f
    <3> HIDE DEF b, l
    <3>3. 8 * (b + c) - 0 = next - 8 * (l - c)
      BY <2>4, <2>7, <2>9, <3>1
    <3> QED
      BY <3>2, <3>3
  <2>22. N + c = Len(E) - f /\ Len(E) \in Nat
    BY <2>4, <2>7, <2>9 DEF f
  <2>23. CASE c < l
    <3>1. z' = t
      BY <2>14, <2>23
    <3>2. ModeInv(t)
      <4>1. f \in 1 .. Len(Item(t).bytes)
        BY <2>7, <2>9, <2>19, <2>23 DEF f, n, bytes
      <4>2. t.item # Len(t.stream) + 1
        BY <2>2, <2>18
      <4> QED
        BY <2>18, <2>19, <4>1, <4>2 DEF ModeInv
    <3>3. BitsInv(t)
      <4>1. Position(t) = next - 8 * f
        BY <2>18 DEF Position, next
      <4> QED
        BY <2>18, <2>21, <4>1 DEF BitsInv
    <3>4. FastInv(t) /\ LastInv(t)
      BY <1>1, <2>18 DEF Core, FastInv, LastInv
    <3>5. DataInv(t)
      <4>1. Goal(t) = E /\ Done(t) = Len(E) - f
        BY <2>18 DEF Goal, Done, E
      <4>2. InData(t)
        BY <2>2, <2>18, <2>19 DEF InData, ByteKind
      <4> QED
        BY <2>20, <2>22, <4>1, <4>2 DEF DataInv
    <3>6. Core(t)
      BY <2>19, <3>2, <3>3, <3>4, <3>5 DEF Core
    <3> QED
      BY <2>18, <3>1, <3>6, GoingInv
  <2>24. CASE ~ (c < l)
    <3>1. z' = BlockEnd(t) /\ f = 0
      BY <2>7, <2>9, <2>14, <2>24 DEF f
    <3>2. Sent(t, E, Len(E)) /\ Kept(t, E, Len(E))
      <4>1. N + c = Len(E)
        BY <2>22, <3>1
      <4> QED
        BY <2>20, <4>1
    <3>3. OfBlock(t, t)
      BY <1>1, <2>18 DEF Core, LastInv, OfBlock
    <3>4. 8 * t.in - t.k = next /\ t.k <= 7
      BY <2>4, <2>18, <2>21, <3>1
    <3>5. Ended(t)
      <4>1. t.item <= Len(t.stream)
        BY <2>2, <2>18
      <4> QED
        BY <2>18, <2>19, <3>2, <3>3, <3>4, <4>1 DEF Ended, E, next
    <3>6. Core(BlockEnd(t)) /\ BlockEnd(t).inCall = t.inCall /\ BlockEnd(t).r = t.r
      BY <3>5, BlockEndCore
    <3> QED
      BY <2>18, <3>1, <3>6, GoingInv
  <2> QED
    BY <2>23, <2>24
<1> QED
  BY <1>2, <1>3

-----------------------------------------------------------------------------
(* inflate_fast                                                            *)

\* With k bits and a bytes the lookups from the i-th on find what they take.
Ready(k, a, steps, i) ==
    /\ a >= Reserve(steps, i)
    /\ i > 1 /\ steps[i].mode \in {"LEN", "LENEXT"} => k + BitsBefore(steps, i) >= 20
    /\ i > 1 /\ steps[i].mode = "DIST" /\ steps[i - 1].mode # "LENEXT" =>
         \E j \in 1 .. i - 1 :
             /\ steps[j].mode = "LENEXT"
             /\ k + BitsBefore(steps, i) >= BitsBefore(steps, j + 1) + 15

LEMMA FastBits ==
    ASSUME NEW steps \in Seq(Lookup), CodeShape(steps), NEW i \in 1 .. Len(steps),
           NEW s, s.k \in 0 .. 32, s.avail \in Nat, Ready(s.k, s.avail, steps, i)
    PROVE  LET m == Missing(s, Grabbed(steps, i))
               b == steps[i].bits
           IN  /\ m \in Nat /\ m <= s.avail /\ b \in Nat
               /\ s.k + 8 * m <= 32 /\ b <= s.k + 8 * m
               /\ i < Len(steps) => Ready((s.k + 8 * m) - b, s.avail - m, steps, i + 1)
<1> DEFINE g == Grabbed(steps, i)
           m == Missing(s, g)
           b == steps[i].bits
           k == s.k
           a == s.avail
           B == BitsBefore(steps, i)
           C == BitsBefore(steps, i + 1)
           h == i + 1
           mode == steps[i].mode
           n == Len(steps)
           c == (k + 8 * m) - b
           d == a - m
<1>1. /\ b \in 0 .. 14 /\ mode \in {"TABLE", "LEN", "LENEXT", "DIST", "DISTEXT"}
      /\ i \in Nat /\ i >= 1 /\ n \in Nat /\ i <= n
  <2>1. steps[i] \in Lookup
    OBVIOUS
  <2> QED
    BY <2>1 DEF Lookup
<1>2. B \in Nat /\ C = B + b /\ BitsBefore(steps, 1) = 0
      /\ \A j \in 1 .. n + 1 : BitsBefore(steps, j) \in Nat
  BY BitsBeforeStep
<1>3. /\ steps[1].mode = "LEN"
      /\ i < n => /\ mode = "LEN" => steps[h].mode \in {"LEN", "LENEXT"}
                  /\ mode = "LENEXT" => steps[h].mode = "DIST"
                  /\ mode = "DIST" => steps[h].mode \in {"DIST", "DISTEXT"}
                  /\ mode \in {"LEN", "LENEXT", "DIST"}
      /\ mode \in {"LEN", "LENEXT"} => C <= 20
      /\ \A j \in 1 .. i : mode = "DIST" /\ steps[j].mode = "LENEXT" =>
             C <= BitsBefore(steps, j + 1) + 15
      /\ mode = "DISTEXT" => b <= 13
  <2>1. i < n => i \in 1 .. n - 1
    BY <1>1
  <2> QED
    BY <2>1 DEF CodeShape
<1>4. /\ a >= Reserve(steps, i)
      /\ i > 1 /\ mode \in {"LEN", "LENEXT"} => k + B >= 20
      /\ i > 1 /\ mode = "DIST" /\ steps[i - 1].mode # "LENEXT" =>
           \E j \in 1 .. i - 1 :
               steps[j].mode = "LENEXT" /\ k + B >= BitsBefore(steps, j + 1) + 15
  BY DEF Ready
<1>5. k \in 0 .. 32 /\ a \in Nat
  OBVIOUS
<1>6. /\ h \in Nat /\ h > 1 /\ h - 1 = i /\ h # 1 /\ (i > 1 <=> i # 1)
  BY <1>1
<1>7. ASSUME g \in 0 .. 32
      PROVE  m \in Nat /\ (k >= g => m = 0) /\ (k < g => k + 8 * m \in g .. g + 7)
  <2> HIDE DEF g
  <2> QED
    BY <1>7, MissingIs
<1>8. /\ h > 1 /\ steps[h].mode \in {"LEN", "LENEXT"} /\ steps[i].mode \in {"LEN", "LENEXT"} =>
           (c + C >= 20 /\ d >= 4 => Ready(c, d, steps, h))
      /\ steps[h].mode = "DIST" /\ mode = "LENEXT" => (d >= 4 => Ready(c, d, steps, h))
      /\ steps[h].mode = "DIST" /\ mode = "DIST" =>
           ((d >= 2 /\ \E j \in 1 .. i : steps[j].mode = "LENEXT"
                                      /\ c + C >= BitsBefore(steps, j + 1) + 15)
            => Ready(c, d, steps, h))
      /\ steps[h].mode = "DISTEXT" /\ mode = "DIST" => (d >= 2 => Ready(c, d, steps, h))
  <2>1. C = BitsBefore(steps, h) /\ mode = steps[h - 1].mode /\ h - 1 = i
    BY <1>6
  <2> HIDE DEF C, c, d, h, mode
  <2>2. Reserve(steps, h) = IF steps[h].mode \in {"LEN", "LENEXT"} \/ mode = "LENEXT" THEN 4 ELSE 2
    BY <1>6, <2>1 DEF Reserve
  <2> QED
    BY <1>6, <2>1, <2>2 DEF Ready, mode
<1> HIDE DEF m, B, C, h, mode, n, k, a, b
<1>9. CASE i = 1
  <2>1. g = 20 /\ mode = "LEN" /\ Reserve(steps, i) = 7 /\ B = 0
    BY <1>2, <1>3, <1>9 DEF Grabbed, Reserve, mode, B
  <2>2. m \in Nat /\ (k >= 20 => m = 0) /\ (k < 20 => k + 8 * m \in 20 .. 27)
    BY <1>7, <2>1
  <2>3. m <= 3 /\ k + 8 * m >= 20 /\ k + 8 * m <= 32 /\ a >= 7
    BY <1>4, <1>5, <2>1, <2>2
  <2>4. m <= a /\ b <= k + 8 * m /\ c + C >= 20 /\ d >= 4 /\ b \in Nat
    BY <1>1, <1>2, <1>5, <2>1, <2>2, <2>3
  <2>5. i < n => Ready(c, d, steps, h)
    <3> HIDE DEF c, d
    <3> QED
      BY <1>3, <1>6, <1>8, <2>1, <2>4 DEF mode
  <2> QED
    BY <2>2, <2>3, <2>4, <2>5 DEF m, k, a, b, h, n
<1>10. CASE i # 1 /\ mode \in {"LEN", "LENEXT"}
  <2>1. g = 0 /\ Reserve(steps, i) = 4
    BY <1>10, <1>6 DEF Grabbed, Reserve, mode
  <2>2. m = 0
    BY <1>5, <1>7, <2>1
  <2>3. k + B >= 20 /\ C <= 20 /\ a >= 4
    BY <1>3, <1>4, <1>6, <1>10, <2>1
  <2>4. m <= a /\ b <= k + 8 * m /\ k + 8 * m <= 32 /\ c + C >= 20 /\ d >= 4 /\ b \in Nat
    BY <1>1, <1>2, <1>5, <2>2, <2>3
  <2>5. i < n => Ready(c, d, steps, h)
    <3> HIDE DEF c, d
    <3> QED
      BY <1>3, <1>6, <1>8, <1>10, <2>4 DEF mode
  <2> QED
    BY <2>2, <2>4, <2>5 DEF m, k, a, b, h, n
<1>11. CASE i # 1 /\ mode = "DIST" /\ steps[i - 1].mode = "LENEXT"
  <2>1. g = 15 /\ Reserve(steps, i) = 4
    BY <1>11, <1>6 DEF Grabbed, Reserve, mode
  <2>2. m \in Nat /\ (k >= 15 => m = 0) /\ (k < 15 => k + 8 * m \in 15 .. 22)
    BY <1>7, <2>1
  <2>3. m <= 2 /\ k + 8 * m >= 15 /\ k + 8 * m <= 32 /\ a >= 4
    BY <1>4, <1>5, <2>1, <2>2
  <2>4. m <= a /\ b <= k + 8 * m /\ c + C >= B + 15 /\ d >= 2 /\ b \in Nat
    BY <1>1, <1>2, <1>5, <2>2, <2>3
  <2>5. \E j \in 1 .. i : steps[j].mode = "LENEXT" /\ c + C >= BitsBefore(steps, j + 1) + 15
    <3> DEFINE j == i - 1
    <3>1. j \in 1 .. i /\ j + 1 = i
      BY <1>1, <1>11
    <3>2. steps[j].mode = "LENEXT" /\ c + C >= BitsBefore(steps, j + 1) + 15
      BY <1>11, <2>4, <3>1 DEF B
    <3> QED
      BY <3>1, <3>2
  <2>6. i < n => Ready(c, d, steps, h)
    <3> HIDE DEF c, d
    <3> QED
      BY <1>3, <1>6, <1>8, <1>11, <2>4, <2>5 DEF mode
  <2> QED
    BY <2>2, <2>3, <2>4, <2>6 DEF m, k, a, b, h, n
<1>12. CASE i # 1 /\ mode = "DIST" /\ steps[i - 1].mode # "LENEXT"
  <2>1. g = 0 /\ Reserve(steps, i) = 2
    BY <1>12, <1>6 DEF Grabbed, Reserve, mode
  <2>2. m = 0
    BY <1>5, <1>7, <2>1
  <2>3. PICK j \in 1 .. i - 1 : steps[j].mode = "LENEXT" /\ k + B >= BitsBefore(steps, j + 1) + 15
    BY <1>4, <1>6, <1>12
  <2>4. j \in 1 .. i /\ a >= 2
    BY <1>1, <1>4, <2>1
  <2>5. C <= BitsBefore(steps, j + 1) + 15
    BY <1>3, <1>12, <2>3, <2>4
  <2>6. BitsBefore(steps, j + 1) \in Nat
    <3> DEFINE l == j + 1
    <3>1. l \in 1 .. n + 1
      BY <1>1, <2>4
    <3> HIDE DEF l
    <3>2. BitsBefore(steps, l) \in Nat
      BY <1>2, <3>1
    <3> QED
      BY <3>2 DEF l
  <2>7. m <= a /\ b <= k + 8 * m /\ k + 8 * m <= 32 /\ d >= 2 /\ b \in Nat
        /\ c + C >= BitsBefore(steps, j + 1) + 15
    BY <1>1, <1>2, <1>5, <2>2, <2>3, <2>4, <2>5, <2>6
  <2>8. i < n => Ready(c, d, steps, h)
    <3> HIDE DEF c, d
    <3> QED
      BY <1>3, <1>6, <1>8, <1>12, <2>3, <2>4, <2>7 DEF mode
  <2> QED
    BY <2>2, <2>7, <2>8 DEF m, k, a, b, h, n
<1>13. CASE i # 1 /\ mode = "DISTEXT"
  <2>1. g = b /\ Reserve(steps, i) >= 2 /\ b <= 13 /\ g \in 0 .. 32
    BY <1>1, <1>3, <1>13, <1>6 DEF Grabbed, Reserve, mode, b
  <2>2. m \in Nat /\ (k >= b => m = 0) /\ (k < b => k + 8 * m \in b .. b + 7)
    BY <1>7, <2>1
  <2>3. a >= 2
    <3>1. Reserve(steps, i) \in {7, 4, 2}
      BY DEF Reserve
    <3> QED
      BY <1>4, <1>5, <3>1
  <2>4. m <= 2 /\ k + 8 * m >= b /\ k + 8 * m <= 32 /\ m <= a /\ b \in Nat
    BY <1>1, <1>5, <2>1, <2>2, <2>3
  <2>5. ~ (i < n)
    BY <1>3, <1>13
  <2> QED
    BY <2>2, <2>4, <2>5 DEF m, k, a, b, h, n
<1>14. CASE mode = "TABLE"
  <2>1. FALSE
    <3>1. i # 1
      BY <1>3, <1>14 DEF mode
    <3> DEFINE j == i - 1
    <3>2. j \in 1 .. n - 1 /\ j + 1 = i
      BY <1>1, <3>1
    <3> HIDE DEF j
    <3>3. mode \in {"LEN", "LENEXT", "DIST", "DISTEXT"}
      BY <3>2 DEF CodeShape, n, mode
    <3> QED
      BY <1>14, <3>3
  <2> QED
    BY <2>1
<1> QED
  BY <1>1, <1>9, <1>10, <1>11, <1>12, <1>13, <1>14

\* The lookup that inflate_fast is at is done.
FastTaken ==
    Dump(Grab(z, Grabbed(Item(z).steps, z.step)), Item(z).steps[z.step].bits)

LEMMA FastTakenIs ==
    ASSUME Inv(z), Fast
    PROVE  LET s == FastTaken
               steps == Item(z).steps
               next == FirstBit[z.stream][z.item + 1]
           IN  /\ Core(z) /\ InData(z) /\ GoodItem(Item(z)) /\ z.item \in 1 .. Len(z.stream)
               /\ z.stream \in Streams /\ z.mode = "FAST" /\ z.inCall /\ Kind(z) \in CodeKind
               /\ steps \in Seq(Lookup) /\ z.step \in 1 .. Len(steps)
               /\ s \in State /\ Space(s) = Space(z) /\ Space(z) >= MaxMatch
               /\ s.stream = z.stream /\ s.item = z.item /\ s.step = z.step /\ s.mode = "FAST"
               /\ s.last = z.last /\ s.window = z.window /\ s.read = z.read /\ s.write = z.write
               /\ s.out = z.out /\ s.inCall /\ s.r \in {"ok", "buf"}
               /\ s.in \in Nat /\ s.avail \in Nat /\ s.k \in 0 .. 32
               /\ s.in + s.avail <= Bytes(s.stream)
               /\ 8 * s.in - s.k
                    = FirstBit[z.stream][z.item] + BitsBefore(steps, z.step + 1)
               /\ z.step < Len(steps) => Ready(s.k, s.avail, steps, z.step + 1)
               /\ ~ (z.step < Len(steps)) => 8 * s.in - s.k = next
               /\ next \in Nat
<1> DEFINE steps == Item(z).steps
           i == z.step
           g == Grabbed(steps, i)
           m == Missing(z, g)
           b == steps[i].bits
           p == Pulled(z, m)
           k == (z.k + 8 * m) - b
           s == FastTaken
           first == FirstBit[z.stream][z.item]
           next == FirstBit[z.stream][z.item + 1]
<1>1. Core(z) /\ z.mode = "FAST" /\ z.inCall
  BY DEF Fast, In, Inv
<1>2. /\ z \in State /\ z.stream \in Streams /\ z.item \in 1 .. Len(z.stream)
      /\ Kind(z) \in CodeKind /\ InData(z) /\ i \in 1 .. Len(steps)
  <2>1. z \in State /\ z.stream \in Streams /\ z.item \in 1 .. Len(z.stream) + 1 /\ Len(z.stream) \in Nat
    BY <1>1, DoneType
  <2>2. z.item # Len(z.stream) + 1 /\ Kind(z) \in CodeKind /\ i \in 1 .. Len(steps)
    BY <1>1 DEF Core, ModeInv
  <2> QED
    BY <2>1, <2>2 DEF InData, CodeKind, ByteKind
<1>3. GoodItem(Item(z)) /\ steps \in Seq(Lookup) /\ CodeShape(steps)
  <2>1. GoodItem(Item(z))
    BY <1>2, StreamType DEF Item
  <2> QED
    BY <1>2, <2>1 DEF GoodItem, Kind
<1>4. /\ z.k \in 0 .. 32 /\ z.in \in Nat /\ z.avail \in Nat /\ z.r \in {"ok", "buf"}
      /\ z.in + z.avail <= Bytes(z.stream)
  BY <1>1, <1>2, InvGoing DEF Core, TypeInv, State
<1>5. Space(z) >= MaxMatch /\ Ready(z.k, z.avail, steps, i)
  BY <1>1 DEF Core, FastInv, Ready
<1>6. /\ m \in Nat /\ m <= z.avail /\ b \in Nat
      /\ z.k + 8 * m <= 32 /\ b <= z.k + 8 * m
      /\ i < Len(steps) => Ready(k, z.avail - m, steps, i + 1)
  <2> HIDE DEF i, steps
  <2> QED
    BY <1>2, <1>3, <1>4, <1>5, FastBits
<1>7. first \in Nat /\ next \in Nat /\ next = first + BitsIn(steps)
  BY <1>2, ItemBits DEF Kind, Item
<1>8. Position(z) = first + BitsBefore(steps, i)
  BY <1>1 DEF Position
<1>9. /\ BitsBefore(steps, i) \in Nat
      /\ BitsBefore(steps, i + 1) = BitsBefore(steps, i) + b
  <2>1. i \in 1 .. Len(steps) + 1 /\ i \in 1 .. Len(steps)
    BY <1>2
  <2> HIDE DEF i, steps
  <2> QED
    BY <1>3, <2>1, BitsBeforeStep
<1>10. s = Dump(p, b)
  BY DEF FastTaken, Grab
<1> HIDE DEF m, b, first, next, steps, i
<1>11. /\ p \in State
       /\ p.stream = z.stream /\ p.item = z.item /\ p.step = z.step /\ p.mode = z.mode
       /\ p.last = z.last /\ p.window = z.window /\ p.read = z.read /\ p.write = z.write
       /\ p.out = z.out /\ p.inCall = z.inCall /\ p.r \in {z.r, "ok"}
       /\ p.in = z.in + m /\ p.avail = z.avail - m /\ p.k = z.k + 8 * m
  <2>1. p \in State
    BY <1>2, <1>6, PulledType
  <2> QED
    BY <1>2, <2>1 DEF Pulled, State
<1> HIDE DEF p
<1>12. k \in 0 .. 32
  <2> DEFINE x == z.k   y == 8 * m
  <2>a. z.k \in 0 .. 32 /\ m \in Nat
    BY <1>4, <1>6
  <2>b. x + y <= 32 /\ b <= x + y /\ b \in Nat
    BY <1>6
  <2>c. x \in Nat /\ y \in Nat
    BY <2>a
  <2>1. x \in Nat /\ y \in Nat /\ b \in Nat /\ x + y <= 32 /\ b <= x + y
    BY <2>b, <2>c
  <2> HIDE DEF x, y
  <2>2. (x + y) - b \in 0 .. 32
    BY <2>1
  <2> QED
    BY <2>2 DEF x, y
<1>13. s = [p EXCEPT !.k = k]
  BY <1>10, <1>11 DEF Dump, State
<1> HIDE DEF k, s
<1>14. s \in State
  BY <1>11, <1>12, <1>13 DEF State
<1>15. /\ s.stream = z.stream /\ s.item = z.item /\ s.step = z.step /\ s.mode = "FAST"
       /\ s.last = z.last /\ s.window = z.window /\ s.read = z.read /\ s.write = z.write
       /\ s.out = z.out /\ s.inCall /\ s.r \in {"ok", "buf"}
       /\ s.in = z.in + m /\ s.avail = z.avail - m /\ s.k = k
  <2>1. /\ s.stream = p.stream /\ s.item = p.item /\ s.step = p.step /\ s.mode = p.mode
        /\ s.last = p.last /\ s.window = p.window /\ s.read = p.read /\ s.write = p.write
        /\ s.out = p.out /\ s.inCall = p.inCall /\ s.r = p.r
        /\ s.in = p.in /\ s.avail = p.avail /\ s.k = k
    BY <1>11, <1>13 DEF State
  <2> QED
    BY <1>1, <1>4, <1>11, <2>1
<1>16. /\ s.in \in Nat /\ s.avail \in Nat /\ s.k \in 0 .. 32
       /\ s.in + s.avail <= Bytes(s.stream)
  <2> DEFINE x == z.in   y == z.avail   bytes == Bytes(z.stream)
  <2>1. bytes \in Nat
    BY <1>2, BytesType
  <2>2. x \in Nat /\ y \in Nat /\ x + y <= bytes /\ m \in Nat /\ m <= y
    BY <1>4, <1>6
  <2>3. s.in = x + m /\ s.avail = y - m /\ s.k = k /\ s.stream = z.stream
    BY <1>15
  <2> HIDE DEF x, y, bytes
  <2>4. x + m \in Nat /\ y - m \in Nat /\ (x + m) + (y - m) <= bytes
    BY <2>1, <2>2
  <2> QED
    BY <1>12, <2>3, <2>4 DEF bytes
<1>17. Space(s) = Space(z)
  BY <1>15, SameWindow
<1>18. 8 * s.in - s.k = first + BitsBefore(steps, i + 1)
  <2> DEFINE B == BitsBefore(steps, i)
             C == BitsBefore(steps, i + 1)
             y == z.in
             x == z.k
  <2>1. 8 * y - x = first + B /\ C = B + b /\ B \in Nat /\ y \in Nat /\ x \in Nat
    BY <1>1, <1>4, <1>8, <1>9 DEF Core, BitsInv
  <2>2. s.in = y + m /\ s.k = (x + 8 * m) - b
    BY <1>15 DEF k
  <2> HIDE DEF B, C, y, x
  <2>3. 8 * (y + m) - ((x + 8 * m) - b) = first + C
    BY <1>6, <1>7, <2>1
  <2> QED
    BY <2>2, <2>3 DEF C
<1>19. i < Len(steps) => Ready(s.k, s.avail, steps, i + 1)
  BY <1>6, <1>15
<1>20. ~ (i < Len(steps)) => 8 * s.in - s.k = next
  <2>1. ~ (i < Len(steps)) => i + 1 = Len(steps) + 1
    BY <1>2, <1>3
  <2>2. ~ (i < Len(steps)) => BitsBefore(steps, i + 1) = BitsIn(steps)
    BY <2>1 DEF BitsIn
  <2> QED
    BY <1>7, <1>18, <2>2
<1> QED
  BY <1>1, <1>2, <1>3, <1>5, <1>7, <1>14, <1>15, <1>16, <1>17, <1>18, <1>19, <1>20
  DEF s, steps, i, first, next

\* The bytes that were taken too early are given back.
LEMMA UngrabIs ==
    ASSUME NEW s \in State, NEW bit \in Nat, 8 * s.in - s.k = bit,
           s.in + s.avail <= Bytes(s.stream)
    PROVE  LET t == Ungrab(s)
           IN  /\ t \in State /\ t.stream = s.stream /\ t.item = s.item /\ t.step = s.step
               /\ t.mode = s.mode /\ t.last = s.last /\ t.window = s.window /\ t.read = s.read
               /\ t.write = s.write /\ t.out = s.out /\ t.inCall = s.inCall /\ t.r = s.r
               /\ t.k \in 0 .. 7 /\ 8 * t.in - t.k = bit
               /\ t.in + t.avail <= Bytes(t.stream)
<1> DEFINE q == s.k \div 8
           k == s.k - 8 * q
           i == s.in - q
           a == s.avail + q
           t == Ungrab(s)
<1>1. s.k \in 0 .. 32 /\ s.in \in Nat /\ s.avail \in Nat /\ s.stream \in Streams
  BY DEF State
<1>2. q \in Nat /\ k \in 0 .. 7 /\ k \in 0 .. 32
  BY <1>1
<1>3. t = [s EXCEPT !.k = k, !.in = i, !.avail = a]
  BY DEF Ungrab, State
<1> DEFINE x == s.in   y == s.k   w == s.avail   bytes == Bytes(s.stream)
<1>4. x \in Nat /\ y \in Nat /\ w \in Nat /\ bytes \in Nat /\ 8 * x - y = bit /\ x + w <= bytes
  BY <1>1, BytesType
<1>5. i = x - q /\ a = w + q /\ k = y - 8 * q
  OBVIOUS
<1> HIDE DEF q, k, i, a, t, x, y, w, bytes
<1>6. i \in Nat /\ a \in Nat /\ i + a <= bytes /\ 8 * i - k = bit
  BY <1>2, <1>4, <1>5
<1>7. t \in State
  BY <1>2, <1>3, <1>6 DEF State
<1>8. /\ t.stream = s.stream /\ t.item = s.item /\ t.step = s.step
      /\ t.mode = s.mode /\ t.last = s.last /\ t.window = s.window /\ t.read = s.read
      /\ t.write = s.write /\ t.out = s.out /\ t.inCall = s.inCall /\ t.r = s.r
      /\ t.k = k /\ t.in = i /\ t.avail = a
  BY <1>3 DEF State
<1> QED
  BY <1>2, <1>6, <1>7, <1>8 DEF t, bytes

LEMMA FastOnInv ==
    ASSUME Inv(z), Fast, z.step < Len(Item(z).steps)
    PROVE  Inv([FastTaken EXCEPT !.step = @ + 1])
<1> DEFINE s == FastTaken
           steps == Item(z).steps
           i == z.step + 1
           t == [s EXCEPT !.step = i]
           first == FirstBit[z.stream][z.item]
<1>1. /\ Core(z) /\ InData(z) /\ z.item \in 1 .. Len(z.stream) /\ Kind(z) \in CodeKind
      /\ z.mode = "FAST" /\ steps \in Seq(Lookup) /\ z.step \in 1 .. Len(steps)
      /\ s \in State /\ Space(s) = Space(z) /\ Space(z) >= MaxMatch
      /\ s.stream = z.stream /\ s.item = z.item /\ s.step = z.step /\ s.mode = "FAST"
      /\ s.last = z.last /\ s.window = z.window /\ s.read = z.read /\ s.write = z.write
      /\ s.out = z.out /\ s.inCall /\ s.r \in {"ok", "buf"}
      /\ s.in + s.avail <= Bytes(s.stream)
      /\ 8 * s.in - s.k = first + BitsBefore(steps, i)
      /\ Ready(s.k, s.avail, steps, i)
  BY FastTakenIs
<1>2. [s EXCEPT !.step = @ + 1] = t /\ i \in 1 .. Len(steps) /\ i \in Nat
  <2>1. z.step \in 1 .. Len(steps) /\ Len(steps) \in Nat /\ z.step < Len(steps)
    BY <1>1
  <2>2. i \in 1 .. Len(steps) /\ i \in Nat
    BY <2>1
  <2>3. [s EXCEPT !.step = @ + 1] = [s EXCEPT !.step = s.step + 1]
    BY <1>1 DEF State
  <2> QED
    BY <1>1, <2>2, <2>3
<1> HIDE DEF s, i, steps, first
<1>3. t = [s EXCEPT !.step = i]
  OBVIOUS
<1> HIDE DEF t
<1>s. s \in State /\ i \in Nat
  BY <1>1, <1>2
<1>4. t \in State
  BY <1>s, <1>3 DEF State
<1>5. /\ t.stream = z.stream /\ t.item = z.item /\ t.step = i /\ t.mode = "FAST"
      /\ t.last = z.last /\ t.window = s.window /\ t.read = s.read /\ t.write = s.write
      /\ t.out = s.out /\ t.inCall /\ t.r \in {"ok", "buf"}
      /\ t.in = s.in /\ t.avail = s.avail /\ t.k = s.k
  BY <1>1, <1>3 DEF State
<1>6. Item(t) = Item(z) /\ Kind(t) = Kind(z) /\ Goal(t) = Goal(z) /\ Done(t) = Done(z)
      /\ InData(t) = InData(z)
  BY <1>1, <1>5 DEF Item, Kind, Goal, Done, InData
<1>7. TypeInv(t)
  BY <1>1, <1>4, <1>5 DEF Core, TypeInv
<1>8. ModeInv(t)
  <2>1. t.item # Len(t.stream) + 1
    BY <1>1, <1>5 DEF Core, ModeInv
  <2> QED
    BY <1>1, <1>2, <1>5, <1>6, <2>1 DEF ModeInv, steps
<1>9. BitsInv(t)
  <2>1. Position(t) = first + BitsBefore(steps, i)
    BY <1>5, <1>6 DEF Position, first, steps
  <2> QED
    BY <1>1, <1>5, <2>1 DEF BitsInv
<1>10. FastInv(t)
  <2>1. Space(t) = Space(z)
    BY <1>1, <1>5, SameWindow
  <2>2. Ready(t.k, t.avail, steps, i)
    BY <1>1, <1>5
  <2> QED
    BY <1>1, <1>5, <1>6, <2>1, <2>2 DEF FastInv, Ready, steps
<1>11. LastInv(t)
  BY <1>1, <1>5 DEF Core, LastInv
<1>12. DataInv(t)
  <2>1. Sent(z, Goal(z), Done(z)) /\ Kept(z, Goal(z), Done(z))
    BY <1>1 DEF Core, DataInv
  <2>2. Sent(t, Goal(z), Done(z)) /\ Kept(t, Goal(z), Done(z))
    BY <1>1, <1>5, <2>1, SameWindow
  <2> QED
    BY <1>1, <1>6, <2>2 DEF DataInv
<1>13. Core(t)
  BY <1>7, <1>8, <1>9, <1>10, <1>11, <1>12 DEF Core
<1>14. Inv(t)
  BY <1>5, <1>13, GoingInv
<1> QED
  BY <1>2, <1>14 DEF s

\* The end of a block, or no code.
LEMMA FastStopInv ==
    ASSUME Inv(z), Fast, ~ (z.step < Len(Item(z).steps))
    PROVE  /\ Kind(z) = "eob" => Inv(Ungrab([FastTaken EXCEPT !.mode = "WASH", !.r = "end"]))
           /\ Kind(z) = "badcode" => Inv(Ungrab([FastTaken EXCEPT !.mode = "BADCODE"]))
<1> DEFINE s == FastTaken
           next == FirstBit[z.stream][z.item + 1]
<1>1. /\ Core(z) /\ InData(z) /\ z.item \in 1 .. Len(z.stream) /\ z.mode = "FAST"
      /\ s \in State
      /\ s.stream = z.stream /\ s.item = z.item
      /\ s.last = z.last /\ s.window = z.window /\ s.read = z.read /\ s.write = z.write
      /\ s.out = z.out /\ s.inCall /\ s.r \in {"ok", "buf"}
      /\ s.in + s.avail <= Bytes(s.stream)
      /\ 8 * s.in - s.k = next /\ next \in Nat
  BY FastTakenIs
<1> HIDE DEF s, next
<1>2. ASSUME NEW u \in State, u.mode \in {"WASH", "BADCODE"},
             u.stream = s.stream, u.item = s.item, u.last = s.last, u.window = s.window,
             u.read = s.read, u.write = s.write, u.out = s.out, u.inCall = s.inCall,
             u.in = s.in, u.avail = s.avail, u.k = s.k,
             u.mode = "WASH" => Kind(z) = "eob", u.mode = "BADCODE" => Kind(z) = "badcode",
             u.r \in {"ok", "buf"} \/ (u.r = "end" /\ u.mode = "WASH")
      PROVE  Inv(Ungrab(u))
  <2> DEFINE t == Ungrab(u)
  <2>1. /\ t \in State /\ t.stream = u.stream /\ t.item = u.item
        /\ t.mode = u.mode /\ t.last = u.last /\ t.window = u.window /\ t.read = u.read
        /\ t.write = u.write /\ t.out = u.out /\ t.inCall = u.inCall /\ t.r = u.r
        /\ t.k \in 0 .. 7 /\ 8 * t.in - t.k = next
        /\ t.in + t.avail <= Bytes(t.stream)
    <3>1. 8 * u.in - u.k = next /\ u.in + u.avail <= Bytes(u.stream)
      BY <1>1, <1>2
    <3> QED
      BY <1>1, <1>2, <3>1, UngrabIs
  <2> HIDE DEF t
  <2>2. Inside(z, t)
    BY <1>1, <1>2, <2>1 DEF Inside
  <2>3. /\ TypeInv(t) /\ FastInv(t) /\ Kind(t) = Kind(z) /\ DataInv(t)
        /\ t.item # Len(t.stream) + 1
    BY <1>1, <1>2, <2>1, <2>2, InsideData
  <2>4. ModeInv(t)
    BY <1>2, <2>1, <2>3 DEF ModeInv
  <2>5. BitsInv(t)
    <3>1. u.mode = "WASH" => Position(t) = next
      BY <1>1, <1>2, <2>1 DEF Position, next
    <3>2. t.k <= 15
      BY <2>1
    <3> QED
      BY <1>2, <2>1, <3>1, <3>2 DEF BitsInv
  <2>6. LastInv(t)
    BY <1>1, <1>2, <2>1 DEF Core, LastInv
  <2>7. Core(t)
    BY <2>3, <2>4, <2>5, <2>6 DEF Core
  <2>8. ReturnInv(t)
    BY <1>1, <1>2, <2>1 DEF ReturnInv
  <2> QED
    BY <2>7, <2>8 DEF Inv, t
<1>3. ASSUME Kind(z) = "eob" PROVE Inv(Ungrab([s EXCEPT !.mode = "WASH", !.r = "end"]))
  <2> DEFINE u == [s EXCEPT !.mode = "WASH", !.r = "end"]
  <2>1. u \in State
    <3>1. u = [s EXCEPT !.mode = "WASH", !.r = "end"]
      OBVIOUS
    <3> HIDE DEF u
    <3> QED
      BY <1>1, <3>1 DEF State, Mode, Result
  <2>2. /\ u.mode = "WASH" /\ u.r = "end"
        /\ u.stream = s.stream /\ u.item = s.item /\ u.last = s.last /\ u.window = s.window
        /\ u.read = s.read /\ u.write = s.write /\ u.out = s.out /\ u.inCall = s.inCall
        /\ u.in = s.in /\ u.avail = s.avail /\ u.k = s.k
    BY <1>1 DEF State
  <2> HIDE DEF u
  <2>3. Inv(Ungrab(u))
    BY <1>2, <1>3, <2>1, <2>2
  <2> QED
    BY <2>3 DEF u
<1>4. ASSUME Kind(z) = "badcode" PROVE Inv(Ungrab([s EXCEPT !.mode = "BADCODE"]))
  <2> DEFINE u == [s EXCEPT !.mode = "BADCODE"]
  <2>1. u \in State
    <3>1. u = [s EXCEPT !.mode = "BADCODE"]
      OBVIOUS
    <3> HIDE DEF u
    <3> QED
      BY <1>1, <3>1 DEF State, Mode, Result
  <2>2. /\ u.mode = "BADCODE" /\ u.r = s.r
        /\ u.stream = s.stream /\ u.item = s.item /\ u.last = s.last /\ u.window = s.window
        /\ u.read = s.read /\ u.write = s.write /\ u.out = s.out /\ u.inCall = s.inCall
        /\ u.in = s.in /\ u.avail = s.avail /\ u.k = s.k
    BY <1>1 DEF State
  <2> HIDE DEF u
  <2>3. Inv(Ungrab(u))
    BY <1>1, <1>2, <1>4, <2>1, <2>2
  <2> QED
    BY <2>3 DEF u
<1> QED
  BY <1>3, <1>4 DEF s

\* The bytes of a literal or a match.
FastDone ==
    IF Kind(z) = "literal" THEN Put(FastTaken, Item(z).sym)
    ELSE CopyAll(FastTaken, Item(z).len, Item(z).dist)

LEMMA FastDoneIs ==
    ASSUME Inv(z), Fast, ~ (z.step < Len(Item(z).steps)), Kind(z) \in {"literal", "match"}
    PROVE  /\ Core(z) /\ InData(z) /\ z.mode = "FAST"
           /\ Behind(z, FastDone) /\ FastDone.r \in {"ok", "buf"}
<1> DEFINE s == FastTaken
           t == FastDone
           next == FirstBit[z.stream][z.item + 1]
           D == Output[z.stream][z.item]
           E == Output[z.stream][z.item + 1]
           N == Len(D)
           item == Item(z)
<1>1. /\ Core(z) /\ InData(z) /\ z.item \in 1 .. Len(z.stream) /\ z.mode = "FAST"
      /\ z.stream \in Streams
      /\ s \in State /\ Space(s) = Space(z) /\ Space(z) >= MaxMatch
      /\ s.stream = z.stream /\ s.item = z.item
      /\ s.last = z.last /\ s.window = z.window /\ s.read = z.read /\ s.write = z.write
      /\ s.out = z.out /\ s.inCall /\ s.r \in {"ok", "buf"}
      /\ s.in + s.avail <= Bytes(s.stream)
      /\ 8 * s.in - s.k = next /\ next \in Nat
  BY FastTakenIs
<1>2. /\ D \in Seq(Octet) /\ E \in Seq(Octet) /\ N \in Nat
      /\ \A i \in 1 .. N : E[i] = D[i]
      /\ Kind(z) = "literal" => item.sym \in Octet /\ Len(E) = N + 1 /\ E[N + 1] = item.sym
      /\ Kind(z) = "match" =>
           /\ item.len \in 3 .. MaxMatch /\ item.dist \in 1 .. WindowSize
           /\ item.dist <= N /\ Len(E) = N + item.len
           /\ \A i \in N + 1 .. N + item.len : E[i] = E[i - item.dist]
  BY <1>1, ItemOutput DEF Kind, Item
<1>3. Sent(z, D, N) /\ Kept(z, D, N)
  <2>1. Goal(z) = D /\ Done(z) = Len(D) - 0
    BY <1>1 DEF Goal, Done
  <2>2. Done(z) = N
    BY <1>2, <2>1
  <2> QED
    BY <1>1, <2>1, <2>2 DEF Core, DataInv
<1>4. s.read # WindowSize /\ MaxMatch \in Nat \ {0}
  BY <1>1, WindowAssumption DEF Core, TypeInv
<1>5. Space(s) \in Int
  <2>1. s.read \in 0 .. WindowSize /\ s.write \in 0 .. WindowSize /\ WindowSize \in Nat
    BY <1>1, WindowAssumption DEF State
  <2> QED
    BY <2>1 DEF Space
<1> HIDE DEF s, next, D, E, N, item
<1>6. Sent(s, D, N) /\ Kept(s, D, N)
  BY <1>1, <1>3, SameWindow
<1>7. Sent(s, E, N) /\ Kept(s, E, N)
  BY <1>1, <1>2, <1>4, <1>6, Longer
<1>8. /\ t \in State /\ Sent(t, E, Len(E)) /\ Kept(t, E, Len(E))
      /\ t.stream = s.stream /\ t.item = s.item /\ t.last = s.last /\ t.k = s.k
      /\ t.read = s.read /\ t.in = s.in /\ t.avail = s.avail /\ t.r = s.r
      /\ t.inCall = s.inCall
  <2>1. CASE Kind(z) = "literal"
    <3> DEFINE x == item.sym
    <3>1. t = Put(s, x)
      BY <2>1 DEF FastDone, s, item
    <3>2. x \in Octet /\ E[N + 1] = x /\ Space(s) > 0 /\ Len(E) = N + 1
      BY <1>1, <1>2, <1>4, <1>5, <2>1
    <3> HIDE DEF x, t
    <3>3. Put(s, x) \in State /\ Sent(Put(s, x), E, N + 1) /\ Kept(Put(s, x), E, N + 1)
      <4>1. s \in State /\ N \in Nat /\ Sent(s, E, N) /\ Kept(s, E, N) /\ s.read # WindowSize
        BY <1>1, <1>2, <1>4, <1>7
      <4> QED
        BY <3>2, <4>1, PutKeeps, Zenon
    <3>4. /\ t.stream = s.stream /\ t.item = s.item /\ t.last = s.last /\ t.k = s.k
          /\ t.read = s.read /\ t.in = s.in /\ t.avail = s.avail /\ t.r = s.r
          /\ t.inCall = s.inCall
      BY <1>1, <3>1, PutFields, Zenon
    <3> QED
      BY <3>1, <3>2, <3>3, <3>4, Zenon
  <2>2. CASE Kind(z) = "match"
    <3> DEFINE len == item.len
               dist == item.dist
    <3>1. t = CopyAll(s, len, dist)
      BY <2>2 DEF FastDone, s, item
    <3>2. len \in Nat /\ len <= MaxMatch /\ dist \in 1 .. WindowSize /\ dist <= N
          /\ Len(E) = N + len
      BY <1>2, <1>4, <2>2
    <3>3. len <= Space(s)
      BY <1>1, <1>4, <1>5, <3>2
    <3>4. \A i \in N + 1 .. N + len : E[i] \in Octet /\ E[i] = E[i - dist]
      <4> SUFFICES ASSUME NEW i \in N + 1 .. N + len PROVE E[i] \in Octet /\ E[i] = E[i - dist]
        OBVIOUS
      <4>1. i \in 1 .. Len(E)
        BY <1>2, <3>2
      <4>2. E[i] \in Octet
        BY <1>2, <4>1
      <4> QED
        BY <1>2, <2>2, <4>2
    <3> HIDE DEF len, dist, t
    <3>5. /\ t \in State /\ t = [s EXCEPT !.window = t.window, !.write = s.write + len]
          /\ Sent(t, E, N + len) /\ Kept(t, E, N + len)
      <4>1. /\ CopyAll(s, len, dist) \in State
            /\ CopyAll(s, len, dist) = [s EXCEPT !.window = CopyAll(s, len, dist).window,
                                                 !.write = s.write + len]
            /\ Sent(CopyAll(s, len, dist), E, N + len)
            /\ Kept(CopyAll(s, len, dist), E, N + len)
        BY <1>1, <1>2, <1>4, <1>7, <3>2, <3>3, <3>4, CopyAllKeeps, Zenon
      <4> QED
        BY <3>1, <4>1
    <3>6. /\ t.stream = s.stream /\ t.item = s.item /\ t.last = s.last /\ t.k = s.k
          /\ t.read = s.read /\ t.in = s.in /\ t.avail = s.avail /\ t.r = s.r
          /\ t.inCall = s.inCall
      BY <1>1, <3>5 DEF State
    <3> QED
      BY <3>2, <3>5, <3>6
  <2> QED
    BY <2>1, <2>2
<1> HIDE DEF t
<1>9. Behind(z, t)
  BY <1>1, <1>4, <1>8 DEF Behind, E, next
<1> QED
  BY <1>1, <1>8, <1>9 DEF t

LEMMA FastStepInv ==
    ASSUME Inv(z), Fast
    PROVE  Inv(z')
<1> DEFINE s == FastTaken
           kind == Kind(z)
           steps == Item(z).steps
           w == FastDone
           done == Advance(w)
<1>1. z' = IF z.step < Len(steps) THEN [s EXCEPT !.step = @ + 1]
           ELSE CASE kind = "eob" -> Ungrab([s EXCEPT !.mode = "WASH", !.r = "end"])
                  [] kind = "badcode" -> Ungrab([s EXCEPT !.mode = "BADCODE"])
                  [] kind \in {"literal", "match"} ->
                     IF Space(done) >= MaxMatch /\ done.avail >= FastInput
                     THEN [done EXCEPT !.mode = "FAST"]
                     ELSE Ungrab([done EXCEPT !.mode = "LEN", !.r = "ok"])
  BY DEF Fast, FastTaken, FastDone, Kind
<1>2. kind \in CodeKind
  BY FastTakenIs
<1>3. CASE z.step < Len(steps)
  BY <1>1, <1>3, FastOnInv
<1>4. CASE ~ (z.step < Len(steps))
  <2>1. CASE kind = "eob"
    BY <1>1, <1>4, <2>1, FastStopInv
  <2>2. CASE kind = "badcode"
    BY <1>1, <1>4, <2>2, FastStopInv
  <2>3. CASE kind \in {"literal", "match"}
    <3> DEFINE E == Output[z.stream][z.item + 1]
               next == FirstBit[z.stream][z.item + 1]
    <3>1. Core(z) /\ InData(z) /\ z.mode = "FAST" /\ Behind(z, w) /\ w.r \in {"ok", "buf"}
      BY <1>4, <2>3, FastDoneIs
    <3> HIDE DEF w
    <3>2. /\ NextItem(z, done) /\ OfBlock(z, done)
          /\ Kept(done, E, Len(E))
          /\ done.k = w.k /\ done.in = w.in /\ done.avail = w.avail
          /\ done.r = w.r /\ done.inCall
      BY <2>3, <3>1, BehindNext
    <3>3. z' = IF Space(done) >= MaxMatch /\ done.avail >= FastInput
               THEN [done EXCEPT !.mode = "FAST"]
               ELSE Ungrab([done EXCEPT !.mode = "LEN", !.r = "ok"])
      BY <1>1, <1>4, <2>3
    <3> HIDE DEF done, E, next
    <3>4. /\ done \in State /\ done.read # WindowSize
          /\ done.in + done.avail <= Bytes(done.stream)
          /\ Sent(done, E, Len(E)) /\ 8 * done.in - done.k = next /\ next \in Nat
          /\ done.step = 1
      <4>1. next \in Nat
        BY FastTakenIs DEF next
      <4> QED
        BY <3>1, <3>2, <4>1 DEF NextItem, Behind, E, next
    <3>5. CASE Space(done) >= MaxMatch /\ done.avail >= FastInput
      <4> DEFINE t == [done EXCEPT !.mode = "FAST"]
      <4>1. z' = t
        BY <3>3, <3>5
      <4>2. t \in State
        <5>1. t = [done EXCEPT !.mode = "FAST"]
          OBVIOUS
        <5> HIDE DEF t
        <5> QED
          BY <3>4, <5>1 DEF State, Mode
      <4>3. /\ t.mode = "FAST" /\ t.stream = done.stream /\ t.item = done.item /\ t.step = done.step
            /\ t.last = done.last /\ t.window = done.window /\ t.read = done.read
            /\ t.write = done.write /\ t.out = done.out /\ t.inCall = done.inCall /\ t.r = done.r
            /\ t.k = done.k /\ t.in = done.in /\ t.avail = done.avail
        BY <3>4 DEF State
      <4> HIDE DEF t
      <4>4. Sent(t, E, Len(E)) /\ Kept(t, E, Len(E)) /\ Space(t) = Space(done)
        BY <3>2, <3>4, <4>3, SameWindow
      <4>5. NextItem(z, t) /\ OfBlock(z, t)
        BY <3>2, <4>2, <4>3, <4>4 DEF NextItem, OfBlock, E
      <4>6. t.avail >= 7
        <5>1. done.avail \in Nat /\ FastInput \in Nat /\ FastInput >= 7
          BY <3>4, SizeAssumption DEF State
        <5> QED
          BY <3>5, <4>3, <5>1
      <4>7. 8 * t.in - t.k = next
        BY <3>4, <4>3
      <4>8. AtCode(z, t)
        BY <2>3, <3>5, <4>3, <4>4, <4>5, <4>6, <4>7 DEF AtCode, E, next
      <4> QED
        BY <3>1, <3>2, <4>1, <4>3, <4>8, AtCodeCore, GoingInv
    <3>6. CASE ~ (Space(done) >= MaxMatch /\ done.avail >= FastInput)
      <4> DEFINE u == [done EXCEPT !.mode = "LEN", !.r = "ok"]
                 t == Ungrab(u)
      <4>1. z' = t
        BY <3>3, <3>6
      <4>2. u \in State
        <5>1. u = [done EXCEPT !.mode = "LEN", !.r = "ok"]
          OBVIOUS
        <5> HIDE DEF u
        <5> QED
          BY <3>4, <5>1 DEF State, Mode, Result
      <4>3. /\ u.mode = "LEN" /\ u.stream = done.stream /\ u.item = done.item /\ u.step = done.step
            /\ u.last = done.last /\ u.window = done.window /\ u.read = done.read
            /\ u.write = done.write /\ u.out = done.out /\ u.inCall = done.inCall /\ u.r = "ok"
            /\ u.k = done.k /\ u.in = done.in /\ u.avail = done.avail
        BY <3>4 DEF State
      <4> HIDE DEF u
      <4>4. /\ t \in State /\ t.stream = u.stream /\ t.item = u.item /\ t.step = u.step
            /\ t.mode = u.mode /\ t.last = u.last /\ t.window = u.window /\ t.read = u.read
            /\ t.write = u.write /\ t.out = u.out /\ t.inCall = u.inCall /\ t.r = u.r
            /\ t.k \in 0 .. 7 /\ 8 * t.in - t.k = next
            /\ t.in + t.avail <= Bytes(t.stream)
        <5>1. 8 * u.in - u.k = next /\ u.in + u.avail <= Bytes(u.stream)
          BY <3>4, <4>3
        <5> QED
          BY <3>4, <4>2, <5>1, UngrabIs
      <4> HIDE DEF t
      <4>5. Sent(t, E, Len(E)) /\ Kept(t, E, Len(E))
        BY <3>2, <3>4, <4>3, <4>4, SameWindow
      <4>6. NextItem(z, t) /\ OfBlock(z, t)
        BY <3>2, <3>4, <4>3, <4>4, <4>5 DEF NextItem, OfBlock, E
      <4>7. t.k <= 15
        BY <4>4
      <4>8. AtCode(z, t)
        BY <2>3, <4>3, <4>4, <4>5, <4>6, <4>7 DEF AtCode, E, next
      <4> QED
        BY <3>2, <4>1, <4>3, <4>4, <4>8, AtCodeCore, GoingInv
    <3> QED
      BY <3>5, <3>6
  <2> QED
    BY <1>2, <2>1, <2>2, <2>3 DEF CodeKind
<1> QED
  BY <1>3, <1>4

LEMMA ResetInv ==
    ASSUME Reset
    PROVE  Inv(z')
<1>1. PICK stream \in Streams : z' = Fresh(stream)
  BY DEF Reset
<1>2. Inv(Fresh(stream))
  BY FreshInv
<1> QED
  BY <1>1, <1>2

-----------------------------------------------------------------------------
(* What the invariant says to the application                              *)

LEMMA Joined ==
    ASSUME NEW p \in Seq(Octet), NEW q \in Seq(Octet)
    PROVE  LET t == p \o q
               m == Len(p)
               n == Len(q)
           IN  /\ t \in Seq(Octet) /\ Len(t) = m + n
               /\ \A i \in 1 .. m : t[i] = p[i]
               /\ \A i \in m + 1 .. m + n : t[i] = q[i - m]
<1> DEFINE t == p \o q
           m == Len(p)
           n == Len(q)
<1>1. /\ t \in Seq(Octet) /\ Len(t) = m + n /\ m \in Nat /\ n \in Nat
      /\ \A i \in 1 .. m + n : t[i] = IF i <= m THEN p[i] ELSE q[i - m]
  BY ConcatProperties
<1> HIDE DEF t, m, n
<1>2. \A i \in 1 .. m : i \in 1 .. m + n /\ i <= m
  BY <1>1
<1>3. \A i \in m + 1 .. m + n : i \in 1 .. m + n /\ ~ (i <= m)
  BY <1>1
<1> QED
  BY <1>1, <1>2, <1>3 DEF t, m, n

\* Pending, byte by byte.
LEMMA PendingIs ==
    ASSUME NEW s \in State, s.read # WindowSize
    PROVE  LET n == PendingLen(s)
           IN  /\ n \in 0 .. WindowSize
               /\ Pending(s) \in Seq(Octet) /\ Len(Pending(s)) = n
               /\ \A i \in 1 .. n : Pending(s)[i] = s.window[Back(s, n - i + 1)]
<1> DEFINE r == s.read
           w == s.write
           n == PendingLen(s)
           V == s.window
           W == WindowSize
<1>1. r \in Nat /\ w \in Nat /\ W \in Nat /\ r < W /\ w <= W /\ V \in [0 .. W - 1 -> Octet]
  BY WindowAssumption DEF State
<1>2. n = IF r <= w THEN w - r ELSE W - r + w
  BY DEF PendingLen
<1>3. \A j : Back(s, j) = IF w < j THEN W - (j - w) ELSE w - j
  BY DEF Back
<1>4. Pending(s) = IF r <= w THEN [i \in 1 .. w - r |-> V[r + i - 1]]
                   ELSE [i \in 1 .. W - r |-> V[r + i - 1]] \o [i \in 1 .. w |-> V[i - 1]]
  BY DEF Pending, Piece
<1> HIDE DEF r, w, n, V, W
<1>5. n \in 0 .. W
  BY <1>1, <1>2
<1>6. CASE r <= w
  <2> DEFINE m == w - r
             p == [i \in 1 .. m |-> V[r + i - 1]]
  <2>1. Pending(s) = p /\ n = m /\ m \in Nat
    BY <1>1, <1>2, <1>4, <1>6
  <2>2. \A i \in 1 .. m : V[r + i - 1] \in Octet
    BY <1>1, <1>6
  <2>3. \A i \in 1 .. m : Back(s, m - i + 1) = r + i - 1
    <3> SUFFICES ASSUME NEW i \in 1 .. m PROVE Back(s, m - i + 1) = r + i - 1
      OBVIOUS
    <3>1. ~ (w < m - i + 1) /\ w - (m - i + 1) = r + i - 1
      BY <1>1, <1>6
    <3> QED
      BY <1>3, <3>1
  <2> HIDE DEF m
  <2>4. p \in Seq(Octet) /\ Len(p) = m /\ \A i \in 1 .. m : p[i] = V[r + i - 1]
    BY <2>1, <2>2
  <2> HIDE DEF p
  <2>5. \A i \in 1 .. n : Pending(s)[i] = V[Back(s, n - i + 1)]
    BY <2>1, <2>3, <2>4
  <2> QED
    BY <1>5, <2>1, <2>4, <2>5 DEF n, V, W
<1>7. CASE ~ (r <= w)
  <2> DEFINE m == W - r
             p == [i \in 1 .. m |-> V[r + i - 1]]
             q == [i \in 1 .. w |-> V[i - 1]]
             t == p \o q
  <2>1. Pending(s) = t /\ n = m + w /\ m \in Nat
    BY <1>1, <1>2, <1>4, <1>7
  <2>2. \A i \in 1 .. m : V[r + i - 1] \in Octet
    BY <1>1, <1>7
  <2>3. \A i \in 1 .. w : V[i - 1] \in Octet
    BY <1>1, <1>7
  <2>4. \A i \in 1 .. m : Back(s, n - i + 1) = r + i - 1
    <3> SUFFICES ASSUME NEW i \in 1 .. m PROVE Back(s, n - i + 1) = r + i - 1
      OBVIOUS
    <3>1. w < n - i + 1 /\ W - ((n - i + 1) - w) = r + i - 1
      BY <1>1, <1>7, <2>1
    <3> QED
      BY <1>3, <3>1
  <2>5. \A i \in m + 1 .. m + w : Back(s, n - i + 1) = i - m - 1
    <3> SUFFICES ASSUME NEW i \in m + 1 .. m + w PROVE Back(s, n - i + 1) = i - m - 1
      OBVIOUS
    <3>1. ~ (w < n - i + 1) /\ w - (n - i + 1) = i - m - 1
      BY <1>1, <1>7, <2>1
    <3> QED
      BY <1>3, <3>1
  <2> HIDE DEF m
  <2>6. p \in Seq(Octet) /\ Len(p) = m /\ \A i \in 1 .. m : p[i] = V[r + i - 1]
    BY <2>1, <2>2
  <2>7. q \in Seq(Octet) /\ Len(q) = w /\ \A i \in 1 .. w : q[i] = V[i - 1]
    BY <1>1, <2>3
  <2> HIDE DEF p, q
  <2>8. /\ t \in Seq(Octet) /\ Len(t) = m + w
        /\ \A i \in 1 .. m : t[i] = p[i]
        /\ \A i \in m + 1 .. m + w : t[i] = q[i - m]
    BY <2>6, <2>7, Joined
  <2> HIDE DEF t
  <2>9. ASSUME NEW i \in 1 .. n PROVE Pending(s)[i] = V[Back(s, n - i + 1)]
    <3>1. CASE i <= m
      <4>1. i \in 1 .. m
        BY <1>1, <2>1, <3>1
      <4> QED
        BY <2>1, <2>4, <2>6, <2>8, <4>1
    <3>2. CASE ~ (i <= m)
      <4> DEFINE j == i - m
      <4>1. i \in m + 1 .. m + w /\ j \in 1 .. w /\ j - 1 = i - m - 1
        BY <1>1, <2>1, <3>2
      <4>2. t[i] = q[j] /\ Back(s, n - i + 1) = i - m - 1
        BY <2>5, <2>8, <4>1
      <4> HIDE DEF j
      <4>3. q[j] = V[j - 1]
        BY <2>7, <4>1
      <4> QED
        BY <2>1, <4>1, <4>2, <4>3
    <3> QED
      BY <3>1, <3>2
  <2> QED
    BY <1>5, <2>1, <2>8, <2>9 DEF n, V, W
<1> QED
  BY <1>6, <1>7

\* What was delivered and what waits is what was decoded.
LEMMA OutputOfInv ==
    ASSUME Inv(z)
    PROVE  OutputCorrect
<1> DEFINE G == Goal(z)
           n == Done(z)
           m == PendingLen(z)
           o == z.out
           p == Pending(z)
           all == o \o p
           a == Len(o)
<1>1. Core(z)
  BY DEF Inv
<1>2. z \in State /\ z.read # WindowSize /\ G \in Seq(Octet) /\ n \in Nat
  BY <1>1, DoneType
<1>3. o \in Seq(Octet) /\ a \in Nat /\ z.left \in Nat
  BY <1>2 DEF State
<1>4. /\ m \in 0 .. WindowSize /\ p \in Seq(Octet) /\ Len(p) = m
      /\ \A i \in 1 .. m : p[i] = z.window[Back(z, m - i + 1)]
  BY <1>2, PendingIs
<1>5. a + m = n /\ \A i \in 1 .. a : o[i] = G[i]
  BY <1>1 DEF Core, DataInv, Sent
<1>6. \A i \in 1 .. m : p[i] = G[a + i]
  <2>1. CASE InData(z)
    <3>1. \A j \in 1 .. WindowSize : j <= n => z.window[Back(z, j)] = G[n - j + 1]
      BY <1>1, <2>1 DEF Core, DataInv, Kept
    <3> SUFFICES ASSUME NEW i \in 1 .. m PROVE p[i] = G[a + i]
      OBVIOUS
    <3> DEFINE j == m - i + 1
    <3>2. p[i] = z.window[Back(z, j)]
      BY <1>4
    <3>3. j \in 1 .. WindowSize /\ j <= n /\ n - j + 1 = a + i
      <4>1. WindowSize \in Nat
        BY WindowAssumption
      <4> HIDE DEF n, m, a
      <4> QED
        BY <1>3, <1>4, <1>5, <4>1
    <3> HIDE DEF j, n, G, a
    <3>4. z.window[Back(z, j)] = G[n - j + 1]
      BY <3>1, <3>3
    <3> QED
      BY <3>2, <3>3, <3>4
  <2>2. CASE ~ InData(z)
    <3>1. z.read = z.write /\ z.read \in Nat /\ z.write \in Nat
      BY <1>1, <1>2, <2>2 DEF Core, DataInv, State
    <3>2. m = 0
      BY <3>1 DEF PendingLen
    <3> QED
      BY <3>2
  <2> QED
    BY <2>1, <2>2
<1> HIDE DEF G, n, m, o, p, a
<1>7. n = Len(G) - (IF z.mode \in {"STORED", "COPY"} THEN z.left ELSE 0)
  BY DEF Done, n, G
<1>8. n <= Len(G) /\ Len(G) \in Nat
  BY <1>2, <1>3, <1>7
<1>9. Decoded(z) = SubSeq(G, 1, n)
  <2>1. CASE z.mode \in {"STORED", "COPY"}
    BY <1>7, <2>1 DEF Decoded, G, Goal
  <2>2. CASE z.mode \notin {"STORED", "COPY"}
    <3>1. Decoded(z) = G
      BY <2>2 DEF Decoded, G, Goal
    <3>2. n = Len(G)
      BY <1>7, <1>8, <2>2
    <3>3. SubSeq(G, 1, Len(G)) = G
      BY <1>2
    <3> QED
      BY <3>1, <3>2, <3>3
  <2> QED
    BY <2>1, <2>2
<1>10. /\ all \in Seq(Octet) /\ Len(all) = n
       /\ \A i \in 1 .. n : all[i] = G[i]
  <2>1. Len(o) = a /\ Len(p) = m /\ m \in Nat
    BY <1>4 DEF a
  <2>2. /\ all \in Seq(Octet) /\ Len(all) = a + m
        /\ \A i \in 1 .. a : all[i] = o[i]
        /\ \A i \in a + 1 .. a + m : all[i] = p[i - a]
    <3>1. /\ all \in Seq(Octet) /\ Len(all) = Len(o) + Len(p)
          /\ \A i \in 1 .. Len(o) : all[i] = o[i]
          /\ \A i \in Len(o) + 1 .. Len(o) + Len(p) : all[i] = p[i - Len(o)]
      BY <1>3, <1>4, Joined
    <3> HIDE DEF all
    <3> QED
      BY <2>1, <3>1
  <2> HIDE DEF all
  <2>3. ASSUME NEW i \in 1 .. n PROVE all[i] = G[i]
    <3>1. CASE i <= a
      <4>1. i \in 1 .. a
        BY <1>3, <3>1
      <4> QED
        BY <1>5, <2>2, <4>1
    <3>2. CASE ~ (i <= a)
      <4> DEFINE j == i - a
      <4>1. i \in a + 1 .. a + m /\ j \in 1 .. m /\ a + j = i
        BY <1>3, <1>5, <2>1, <3>2
      <4>2. all[i] = p[j]
        BY <2>2, <4>1
      <4> HIDE DEF j
      <4>3. p[j] = G[a + j]
        BY <1>6, <4>1
      <4> QED
        BY <4>1, <4>2, <4>3
    <3> QED
      BY <3>1, <3>2
  <2> QED
    BY <1>5, <2>2, <2>3
<1> DEFINE d == SubSeq(G, 1, n)
<1>11. d \in Seq(Octet) /\ Len(d) = n /\ \A i \in 1 .. n : d[i] = G[i]
  BY <1>2, <1>8
<1> HIDE DEF all, d
<1>12. all = d
  BY <1>2, <1>10, <1>11
<1> QED
  BY <1>9, <1>12 DEF OutputCorrect, all, d, o, p

\* The end of the stream.
LEMMA EndOfInv ==
    ASSUME Inv(z)
    PROVE  EndIsExact
<1> SUFFICES ASSUME ~ z.inCall, z.ret = "end"
             PROVE  /\ z.out = Output[z.stream][Len(z.stream) + 1]
                    /\ z.in = EndByte(z.stream)
  BY DEF EndIsExact
<1>1. Core(z) /\ z.mode = "FINISHED"
  BY DEF Inv, ReturnInv
<1> DEFINE h == Len(z.stream) + 1
           G == Output[z.stream][h]
           bit == FirstBit[z.stream][h]
<1>2. /\ z \in State /\ z.stream \in Streams /\ Len(z.stream) \in Nat /\ Goal(z) \in Seq(Octet)
  BY <1>1, DoneType
<1>3. z.item = h /\ Goal(z) = G /\ ~ InData(z)
  <2>1. z.item = h
    BY <1>1 DEF Core, ModeInv
  <2> QED
    BY <1>1, <1>2, <2>1 DEF Goal, InData
<1>4. z.out = G
  <2>1. z.read = z.write /\ z.read \in Nat /\ z.write \in Nat /\ z.out \in Seq(Octet)
    BY <1>1, <1>2, <1>3 DEF Core, DataInv, State
  <2>2. PendingLen(z) = 0
    BY <2>1 DEF PendingLen
  <2>3. Done(z) = Len(G) - 0
    BY <1>1, <1>3 DEF Done
  <2> HIDE DEF G
  <2>4. Len(z.out) + 0 = Len(G) - 0 /\ \A i \in 1 .. Len(z.out) : z.out[i] = G[i]
    BY <1>1, <1>3, <2>2, <2>3 DEF Core, DataInv, Sent
  <2>5. G \in Seq(Octet)
    BY <1>2, <1>3
  <2>6. Len(z.out) = Len(G)
    BY <2>1, <2>4, <2>5
  <2> QED
    BY <2>1, <2>4, <2>5, <2>6
<1>5. z.in = EndByte(z.stream)
  <2>1. 8 * z.in - z.k = ToByte(bit) /\ z.k = 0
    BY <1>1, <1>3 DEF Core, BitsInv, Position
  <2>2. bit \in Nat
    <3>1. h \in 1 .. Len(z.stream) + 1
      BY <1>2
    <3> HIDE DEF h
    <3> QED
      BY <1>2, <3>1, FirstBitStep
  <2>3. z.in \in Nat
    BY <1>2 DEF State
  <2>4. ToByte(bit) = 8 * z.in
    BY <2>1, <2>3
  <2>5. z.in = ToByte(bit) \div 8
    BY <2>3, <2>4
  <2> QED
    BY <2>5 DEF EndByte
<1> QED
  BY <1>4, <1>5

-----------------------------------------------------------------------------
(* The theorems                                                            *)

LEMMA NextInv ==
    ASSUME Inv(z), [Next]_z
    PROVE  Inv(z')
<1>1. CASE Call
  BY <1>1, CallInv
<1>2. CASE Reset
  BY <1>2, ResetInv
<1>3. CASE OutOfInput
  BY <1>3, OutOfInputInv
<1>4. CASE OutOfRoom
  BY <1>4, OutOfRoomInv
<1>5. CASE Byte
  BY <1>5, ByteInv
<1>6. CASE Finished
  BY <1>6, FinishedInv
<1>7. CASE Type
  BY <1>7, TypeStepInv
<1>8. CASE Lens
  BY <1>8, LensInv
<1>9. CASE StoredBytes
  BY <1>9, StoredBytesInv
<1>10. CASE Table
  BY <1>10, TableInv
<1>11. CASE Dry
  BY <1>11, DryInv
<1>12. CASE Start
  BY <1>12, StartInv
<1>13. CASE Decode
  BY <1>13, DecodeInv
<1>14. CASE Lit
  BY <1>14, LitInv
<1>15. CASE Copy
  BY <1>15, CopyInv
<1>16. CASE Wash
  BY <1>16, WashInv
<1>17. CASE BadCode
  BY <1>17, BadCodeInv
<1>18. CASE Fast
  BY <1>18, FastStepInv
<1>19. CASE UNCHANGED z
  BY <1>19
<1> QED
  BY <1>1, <1>2, <1>3, <1>4, <1>5, <1>6, <1>7, <1>8, <1>9, <1>10, <1>11, <1>12, <1>13, <1>14,
     <1>15, <1>16, <1>17, <1>18, <1>19 DEF Next, Work

\* Whatever the stream, and however input and output are cut into buffers, the
\* inductive invariant holds: the bit position, the window and inflate_fast's
\* reserve are those of the place in the stream.
THEOREM InflateInvariant == Spec => []IInv
<1>1. Init => IInv
  <2> SUFFICES ASSUME Init PROVE Inv(z)
    BY DEF IInv
  <2>1. PICK stream \in Streams : z = Fresh(stream)
    BY DEF Init
  <2> QED
    BY <2>1, FreshInv
<1>2. IInv /\ [Next]_z => IInv'
  BY NextInv DEF IInv
<1> QED
  BY <1>1, <1>2, PTL DEF Spec

\* Types: the bit buffer never holds more than 32 bits, the read and write
\* pointers stay in the window, and no input is taken that is not there.
THEOREM InflateTypeOK == Spec => []TypeOK
<1>1. IInv => TypeOK
  BY DEF IInv, Inv, Core, TypeInv, TypeOK
<1> QED
  BY <1>1, InflateInvariant, PTL

\* next_in less the bit buffer is the place in the stream, for every way to
\* cut the input: NEEDBITS, the saved bits, inflate_fast's and WASH's bytes
\* given back agree.
THEOREM InflateBitPosition == Spec => []BitPosition
<1>1. IInv => BitPosition
  BY DEF IInv, Inv, Core, BitsInv, BitPosition
<1> QED
  BY <1>1, InflateInvariant, PTL

\* What the application has, with what waits in the window, is what the items
\* decoded so far stand for: inflate_flush, the circular window and the three
\* ways to write to it lose nothing and overwrite nothing unread.
THEOREM InflateOutputCorrect == Spec => []OutputCorrect
<1>1. IInv => OutputCorrect
  BY OutputOfInv DEF IInv
<1> QED
  BY <1>1, InflateInvariant, PTL

\* Z_STREAM_END comes with all the output, and next_in is behind the stream.
THEOREM InflateEndIsExact == Spec => []EndIsExact
<1>1. IInv => EndIsExact
  BY EndOfInv DEF IInv
<1> QED
  BY <1>1, InflateInvariant, PTL

\* A return in the middle of a stream has a reason that the caller sees.
THEOREM InflateStopsWhenStuck == Spec => []StopsWhenStuck
<1>1. IInv => StopsWhenStuck
  BY DEF IInv, Inv, ReturnInv, StopsWhenStuck
<1> QED
  BY <1>1, InflateInvariant, PTL
=============================================================================
