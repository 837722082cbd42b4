---------------------------- MODULE EeHeapProofs ----------------------------
(***************************************************************************)
(* The heap is sound for every size of heap, header and request, as long   *)
(* as memalign is not asked for more than the default alignment (what it   *)
(* does then is the run EeHeapMemalign).                                   *)
(*                                                                         *)
(* The argument is about a set of addresses, those of the headers of the   *)
(* blocks the program holds.  InList says that the pointers in the heap    *)
(* make that set a list in the order of addresses, without naming an order *)
(* of insertion: the successor of a block is the least header above it.    *)
(* That malloc and free see the same list is InListIsListed: the function  *)
(* Node, which follows the pointers, meets every header.                   *)
(***************************************************************************)
EXTENDS EeHeap, WellFoundedInduction, TLAPS

MaxNode == EndOfHeap \div Alignment

\* The pointers of h make a list of the headers of L.
InList(h, L) ==
    /\ h \in Heap
    /\ L \subseteq Address \ {NULL}
    /\ IF h.base = NULL THEN L = {} /\ h.top = End
       ELSE End <= h.base /\ h.base <= h.top /\ h.top <= EndOfHeap
    /\ h.head = NULL <=> L = {}
    /\ \A a \in L : /\ h.head \in L /\ h.tail \in L /\ h.head <= a /\ a <= h.tail
                    /\ h.top = EndOf(h.mem[h.tail])
    /\ \A a \in L : /\ h.mem[a].ptr = a + Alignment /\ h.mem[a].size >= 0
                    /\ h.base <= a
                    /\ EndOf(h.mem[a]) <= h.top
                    /\ h.mem[a].next # NULL => h.mem[a].next \in L /\ a < h.mem[a].next
                    /\ h.mem[a].prev # NULL => h.mem[a].prev \in L /\ h.mem[a].prev < a
    /\ \A a, b \in L : a < b =>
         /\ EndOf(h.mem[a]) <= b
         /\ h.mem[a].next # NULL /\ h.mem[a].next <= b
         /\ h.mem[b].prev # NULL /\ a <= h.mem[b].prev

-----------------------------------------------------------------------------
(* Numbers                                                                 *)

LEMMA Smallest ==
    ASSUME NEW T, T \subseteq Nat, T # {}
    PROVE  \E x \in T : \A y \in T : x <= y
<1>1. IsWellFoundedOn(OpToRel(<, Nat), Nat)
  BY NatLessThanWellFounded
<1>2. PICK x \in T : \A y \in T : ~ (<<y, x>> \in OpToRel(<, Nat))
  BY <1>1, WFMin
<1>3. ASSUME NEW y \in T PROVE x <= y
  <2>1. ~(y < x)
    BY <1>2 DEF OpToRel
  <2> QED
    BY <2>1
<1> QED
  BY <1>3

LEMMA Units ==
    /\ Alignment \in Nat /\ Alignment > 0 /\ End \in Nat /\ End > 0
    /\ EndOfHeap \in Nat /\ End + Alignment <= EndOfHeap
    /\ MaxNode \in Nat
    /\ \A m \in Nat : m >= MaxNode + 1 => m * Alignment > EndOfHeap
<1>1. /\ Alignment \in Nat /\ Alignment > 0 /\ End \in Nat /\ End > 0
      /\ EndOfHeap \in Nat /\ End + Alignment <= EndOfHeap
  BY AlignmentAssumption, HeapAssumption
<1>2. MaxNode \in Nat /\ EndOfHeap < (MaxNode + 1) * Alignment
  BY <1>1 DEF MaxNode
<1>3. ASSUME NEW m \in Nat, m >= MaxNode + 1 PROVE m * Alignment >= (MaxNode + 1) * Alignment
  BY <1>1, <1>2, <1>3
<1>4. ASSUME NEW m \in Nat, m >= MaxNode + 1 PROVE m * Alignment > EndOfHeap
  <2> DEFINE x == m * Alignment
             y == (MaxNode + 1) * Alignment
  <2>1. x >= y /\ EndOfHeap < y /\ x \in Int /\ y \in Int
    BY <1>1, <1>2, <1>3, <1>4
  <2> HIDE DEF x, y
  <2>2. x > EndOfHeap
    BY <1>1, <2>1
  <2> QED
    BY <2>2 DEF x
<1> QED
  BY <1>1, <1>2, <1>4

LEMMA BlockSizes ==
    ASSUME NEW n \in Nat
    PROVE  BlockSize(n) \in Nat /\ BlockSize(n) >= n + Alignment
<1> DEFINE x == n + Alignment
           q == (x + Alignment - 1) \div Alignment
<1>1. x \in Nat /\ Alignment \in Nat /\ Alignment > 0
  BY Units
<1>2. q \in Nat /\ x + Alignment - 1 < (q + 1) * Alignment
  BY <1>1
<1>3. (q + 1) * Alignment = q * Alignment + Alignment /\ q * Alignment \in Nat
  BY <1>1, <1>2
<1>4. BlockSize(n) = q * Alignment
  BY DEF BlockSize, AlignTo
<1> HIDE DEF q
<1> QED
  BY <1>1, <1>2, <1>3, <1>4

-----------------------------------------------------------------------------
(* Node                                                                    *)

\* The first k + 1 values of Node.
Chain(h, k, f) ==
    f = [n \in 0 .. k |-> IF n = 0 THEN h.head
                          ELSE IF f[n - 1] = NULL THEN NULL ELSE h.mem[f[n - 1]].next]

LEMMA ChainExists ==
    ASSUME NEW h, NEW k \in Nat
    PROVE  \E f : Chain(h, k, f)
<1> DEFINE T == {j \in Nat : ~ \E f : Chain(h, j, f)}
<1> SUFFICES ASSUME T # {} PROVE FALSE
  OBVIOUS
<1>1. PICK j \in T : \A i \in T : j <= i
  BY Smallest
<1>2. CASE j = 0
  <2> DEFINE f == [n \in 0 .. 0 |-> h.head]
  <2>1. Chain(h, 0, f)
    BY DEF Chain
  <2> QED
    BY <1>1, <1>2, <2>1
<1>3. CASE j # 0
  <2>1. j \in Nat /\ j - 1 \in Nat /\ j - 1 \notin T
    BY <1>1, <1>3
  <2>2. PICK f : Chain(h, j - 1, f)
    BY <2>1
  <2> DEFINE next(x) == IF x = NULL THEN NULL ELSE h.mem[x].next
             g == [n \in 0 .. j |-> IF n = j THEN next(f[j - 1]) ELSE f[n]]
  <2>3. f = [n \in 0 .. j - 1 |-> IF n = 0 THEN h.head ELSE next(f[n - 1])]
    BY <2>2 DEF Chain
  <2>4. ASSUME NEW n \in 0 .. j
        PROVE  g[n] = IF n = 0 THEN h.head ELSE next(g[n - 1])
    <3>1. CASE n = j
      BY <1>3, <2>1, <3>1
    <3>2. CASE n # j
      <4>1. n \in 0 .. j - 1 /\ g[n] = f[n]
        BY <2>1, <3>2
      <4>2. n # 0 => n - 1 \in 0 .. j - 1 /\ n - 1 # j /\ n - 1 \in 0 .. j
        BY <2>1, <4>1
      <4>3. n # 0 => g[n - 1] = f[n - 1]
        BY <4>2
      <4> HIDE DEF g, next
      <4> QED
        BY <2>3, <4>1, <4>3
    <3> QED
      BY <3>1, <3>2
  <2>5. g = [n \in 0 .. j |-> g[n]]
    OBVIOUS
  <2>6. g = [n \in 0 .. j |-> IF n = 0 THEN h.head ELSE next(g[n - 1])]
    <3> HIDE DEF g, next
    <3> QED
      BY <2>4, <2>5
  <2>7. Chain(h, j, g)
    <3> HIDE DEF g
    <3> QED
      BY <2>6 DEF Chain
  <2> QED
    BY <1>1, <2>7
<1> QED
  BY <1>2, <1>3

LEMMA NodeChain ==
    ASSUME NEW h
    PROVE  /\ DOMAIN Node(h) = 0 .. MaxNode
           /\ Node(h)[0] = h.head
           /\ \A n \in 0 .. MaxNode : n # 0 =>
                 Node(h)[n] = IF Node(h)[n - 1] = NULL THEN NULL
                              ELSE h.mem[Node(h)[n - 1]].next
<1>1. PICK f : Chain(h, MaxNode, f)
  BY ChainExists, Units
<1>2. Node(h) = CHOOSE f_1 : Chain(h, MaxNode, f_1)
  BY DEF Node, Chain, MaxNode
<1>3. Chain(h, MaxNode, Node(h))
  BY <1>1, <1>2
<1> DEFINE f0 == Node(h)
<1> HIDE DEF f0
<1>4. f0 = [n \in 0 .. MaxNode |-> IF n = 0 THEN h.head
                          ELSE IF f0[n - 1] = NULL THEN NULL ELSE h.mem[f0[n - 1]].next]
  BY <1>3 DEF Chain, f0
<1>5. 0 \in 0 .. MaxNode
  BY Units
<1>6. /\ DOMAIN f0 = 0 .. MaxNode
      /\ f0[0] = h.head
      /\ \A n \in 0 .. MaxNode : n # 0 =>
            f0[n] = IF f0[n - 1] = NULL THEN NULL ELSE h.mem[f0[n - 1]].next
  BY <1>4, <1>5
<1> QED
  BY <1>6 DEF f0

-----------------------------------------------------------------------------
(* The list                                                                *)

LEMMA InListFacts ==
    ASSUME NEW h, NEW L, InList(h, L)
    PROVE  /\ h.mem \in [Address -> Header] /\ h.top \in Nat /\ h.top <= EndOfHeap
           /\ h.base \in Nat /\ h.head \in Nat /\ h.tail \in Nat
           /\ \A a \in L : /\ a \in Nat /\ a # NULL /\ a \in Address /\ h.base # NULL /\ h.head # NULL
                           /\ h.mem[a] \in Header
                           /\ h.mem[a].ptr = a + Alignment
                           /\ h.mem[a].size \in Nat /\ h.mem[a].next \in Nat /\ h.mem[a].prev \in Nat
                           /\ EndOf(h.mem[a]) = a + Alignment + h.mem[a].size
                           /\ a + Alignment + h.mem[a].size <= h.top
<1>1. h \in Heap
  BY DEF InList
<1>2. /\ h.mem \in [Address -> Header] /\ h.top \in Address /\ h.base \in Address
      /\ h.head \in Address /\ h.tail \in Address
  BY <1>1 DEF Heap
<1>3. ASSUME NEW a \in L
      PROVE  /\ a \in Nat /\ a # NULL /\ a \in Address /\ h.base # NULL /\ h.head # NULL
             /\ h.mem[a] \in Header
             /\ h.mem[a].ptr = a + Alignment
             /\ h.mem[a].size \in Nat /\ h.mem[a].next \in Nat /\ h.mem[a].prev \in Nat
             /\ EndOf(h.mem[a]) = a + Alignment + h.mem[a].size
             /\ a + Alignment + h.mem[a].size <= h.top
  <2>1. a \in Address /\ a # NULL /\ h.base # NULL /\ h.head # NULL
    BY <1>3 DEF InList
  <2>2. h.mem[a] \in Header
    BY <1>2, <2>1
  <2>3. /\ h.mem[a].ptr = a + Alignment /\ EndOf(h.mem[a]) <= h.top
    BY <1>3 DEF InList
  <2>4. h.mem[a].size \in Nat /\ h.mem[a].next \in Nat /\ h.mem[a].prev \in Nat /\ a \in Nat
    <3>1. Address \subseteq Nat
      BY Units DEF Address
    <3>2. /\ h.mem[a].size \in Int /\ h.mem[a].next \in Address
          /\ h.mem[a].prev \in Address
      BY <2>2 DEF Header
    <3>3. h.mem[a].size >= 0
      BY DEF InList
    <3>4. h.mem[a].size \in Nat
      BY <3>2, <3>3
    <3>5. \A x \in Address : x \in Nat
      BY <3>1
    <3> QED
      BY <2>1, <3>2, <3>4, <3>5
  <2> QED
    BY <2>1, <2>2, <2>3, <2>4, Units DEF EndOf
<1>4. h.top \in Nat /\ h.top <= EndOfHeap /\ h.base \in Nat /\ h.head \in Nat /\ h.tail \in Nat
  BY <1>2, Units DEF Address
<1> QED
  BY <1>2, <1>3, <1>4

\* The neighbours of a block in the list.
LEMMA Neighbours ==
    ASSUME NEW h, NEW L, InList(h, L), NEW a \in L
    PROVE  /\ h.mem[a].next = NULL <=> a = h.tail
           /\ h.mem[a].prev = NULL <=> a = h.head
           /\ h.mem[a].next # NULL =>
                 /\ h.mem[a].next \in L /\ h.mem[h.mem[a].next].prev = a
                 /\ EndOf(h.mem[a]) <= h.mem[a].next
                 /\ \A b \in L : b <= a \/ h.mem[a].next <= b
           /\ h.mem[a].prev # NULL =>
                 /\ h.mem[a].prev \in L /\ h.mem[h.mem[a].prev].next = a
                 /\ \A b \in L : a <= b \/ b <= h.mem[a].prev
<1> DEFINE next(x) == h.mem[x].next
           prev(x) == h.mem[x].prev
           end(x) == EndOf(h.mem[x])
<1>1. /\ h.head \in L /\ h.tail \in L /\ \A x \in L : h.head <= x /\ x <= h.tail
      /\ \A x \in L : next(x) # NULL => next(x) \in L /\ x < next(x)
      /\ \A x \in L : prev(x) # NULL => prev(x) \in L /\ prev(x) < x
      /\ \A x, y \in L : x < y =>
            end(x) <= y /\ next(x) # NULL /\ next(x) <= y /\ prev(y) # NULL /\ x <= prev(y)
  BY DEF InList
<1>2. L \subseteq Nat /\ \A x \in L : next(x) \in Nat /\ prev(x) \in Nat /\ x # NULL /\ end(x) \in Nat
  BY InListFacts, Units
<1> HIDE DEF next, prev, end
<1>3. next(a) = NULL <=> a = h.tail
  <2> a \in Nat /\ h.tail \in Nat /\ a <= h.tail
    BY <1>1, <1>2
  <2>1. a # h.tail => a < h.tail
    OBVIOUS
  <2>2. a = h.tail => ~(a < next(a) /\ next(a) \in L)
    BY <1>1, <1>2
  <2> QED
    BY <1>1, <2>1, <2>2
<1>4. prev(a) = NULL <=> a = h.head
  <2> a \in Nat /\ h.head \in Nat /\ h.head <= a
    BY <1>1, <1>2
  <2>1. a # h.head => h.head < a
    OBVIOUS
  <2>2. a = h.head => ~(prev(a) < a /\ prev(a) \in L)
    BY <1>1, <1>2
  <2> QED
    BY <1>1, <2>1, <2>2
<1>5. ASSUME next(a) # NULL
      PROVE  /\ next(a) \in L /\ prev(next(a)) = a /\ end(a) <= next(a)
             /\ \A b \in L : b <= a \/ next(a) <= b
  <2>1. next(a) \in L /\ a < next(a)
    BY <1>1, <1>5
  <2> DEFINE p == prev(next(a))
  <2>2. p \in L /\ p < next(a) /\ a <= p
    BY <1>1, <2>1
  <2>3. ~(a < p)
    BY <1>1, <1>2, <2>1, <2>2
  <2>4. p = a
    BY <1>2, <2>1, <2>2, <2>3
  <2> QED
    BY <1>1, <1>2, <2>1, <2>4
<1>6. ASSUME prev(a) # NULL
      PROVE  /\ prev(a) \in L /\ next(prev(a)) = a
             /\ \A b \in L : a <= b \/ b <= prev(a)
  <2>1. prev(a) \in L /\ prev(a) < a
    BY <1>1, <1>6
  <2> DEFINE n == next(prev(a))
  <2>2. n \in L /\ prev(a) < n /\ n <= a
    BY <1>1, <2>1
  <2>3. ~(n < a)
    BY <1>1, <1>2, <2>1, <2>2
  <2>4. n = a
    BY <1>2, <2>1, <2>2, <2>3
  <2> QED
    BY <1>1, <1>2, <2>1, <2>4
<1> QED
  BY <1>3, <1>4, <1>5, <1>6 DEF next, prev, end

\* Node meets the headers of the list and no others.
LEMMA InListIsListed ==
    ASSUME NEW h, NEW L, InList(h, L)
    PROVE  Listed(h) = L
<1> DEFINE f == Node(h)
           next(x) == h.mem[x].next
<1>1. /\ DOMAIN f = 0 .. MaxNode /\ f[0] = h.head
      /\ \A n \in 0 .. MaxNode : n # 0 => f[n] = IF f[n - 1] = NULL THEN NULL ELSE next(f[n - 1])
  BY NodeChain
<1>2. MaxNode \in Nat /\ Alignment \in Nat /\ Alignment > 0 /\ EndOfHeap \in Nat
      /\ \A m \in Nat : m >= MaxNode + 1 => m * Alignment > EndOfHeap
  BY Units
<1>3. h.head \in L \cup {NULL} /\ (h.head = NULL => L = {})
  BY DEF InList
<1>4. /\ L \subseteq Nat /\ NULL \notin L
      /\ \A x \in L : x + Alignment <= EndOfHeap /\ next(x) \in Nat
      /\ \A x \in L : next(x) # NULL => next(x) \in L /\ x + Alignment <= next(x)
      /\ \A x, y \in L : x < y => next(x) # NULL /\ next(x) <= y
      /\ \A x \in L : h.head <= x
  <2>1. /\ L \subseteq Nat /\ NULL \notin L
        /\ \A x \in L : x + Alignment <= EndOfHeap /\ next(x) \in Nat
        /\ \A x \in L : EndOf(h.mem[x]) >= x + Alignment /\ EndOf(h.mem[x]) \in Nat
    BY InListFacts, Units
  <2>2. /\ \A x, y \in L : x < y => next(x) # NULL /\ next(x) <= y
        /\ \A x \in L : h.head <= x
    BY DEF InList
  <2>3. ASSUME NEW x \in L, next(x) # NULL PROVE next(x) \in L /\ x + Alignment <= next(x)
    BY <1>2, <2>1, <2>3, Neighbours
  <2> QED
    BY <2>1, <2>2, <2>3
<1> HIDE DEF f, next
<1> DEFINE Bound(n) == f[n] \in L \cup {NULL} /\ (f[n] # NULL => f[n] >= n * Alignment)
<1>5. \A n \in 0 .. MaxNode : Bound(n)
  <2> DEFINE T == {n \in 0 .. MaxNode : ~Bound(n)}
  <2> SUFFICES ASSUME T # {} PROVE FALSE
    OBVIOUS
  <2>1. T \subseteq Nat
    BY <1>2
  <2>2. PICK j \in T : \A i \in T : j <= i
    <3> HIDE DEF T
    <3> QED
      BY <2>1, Smallest
  <2>3. j \in 0 .. MaxNode /\ ~Bound(j)
    OBVIOUS
  <2>4. CASE j = 0
    <3>1. 0 * Alignment = 0
      BY <1>2
    <3>2. f[0] \in L \cup {NULL} /\ (f[0] # NULL => f[0] \in Nat)
      BY <1>1, <1>3, <1>4
    <3>3. Bound(0)
      BY <3>1, <3>2
    <3> QED
      BY <2>3, <2>4, <3>3
  <2>5. CASE j # 0
    <3>1. j - 1 \in 0 .. MaxNode /\ j - 1 \notin T
      BY <1>2, <2>2, <2>3, <2>5
    <3>2. Bound(j - 1)
      BY <3>1
    <3>3. f[j] = IF f[j - 1] = NULL THEN NULL ELSE next(f[j - 1])
      BY <1>1, <2>3, <2>5
    <3> DEFINE m == (j - 1) * Alignment
               x == f[j - 1]
    <3>4. m \in Int /\ m + Alignment = j * Alignment
      BY <1>2, <2>3
    <3>5. x \in L \cup {NULL} /\ (x # NULL => x >= m)
      BY <3>2
    <3>6. CASE x = NULL
      BY <2>3, <3>3, <3>6
    <3>7. CASE x # NULL
      <4>1. f[j] = next(x)
        BY <3>3, <3>7
      <4>2. next(x) \in L \cup {NULL} /\ (next(x) # NULL => x + Alignment <= next(x))
        BY <1>4, <3>5, <3>7
      <4>3. x \in Nat /\ next(x) \in Nat
        BY <1>4, <3>5, <3>7
      <4> HIDE DEF m, x
      <4>4. next(x) # NULL => next(x) >= m + Alignment
        BY <1>2, <3>4, <3>5, <3>7, <4>2, <4>3
      <4> QED
        BY <2>3, <3>4, <4>1, <4>2, <4>4
    <3> QED
      BY <3>6, <3>7
  <2> QED
    BY <2>4, <2>5
<1>6. ASSUME NEW a \in L PROVE \E n \in 0 .. MaxNode : f[n] = a
  <2> DEFINE T == {n \in 0 .. MaxNode : f[n] = NULL \/ f[n] >= a}
  <2>1. MaxNode \in T
    <3> SUFFICES ASSUME f[MaxNode] # NULL, ~(f[MaxNode] >= a) PROVE FALSE
      BY <1>2
    <3> DEFINE m == MaxNode * Alignment
               x == f[MaxNode]
    <3>1. MaxNode \in 0 .. MaxNode
      BY <1>2
    <3>2. x \in L /\ x >= m /\ m \in Nat
      BY <1>2, <1>5, <3>1
    <3>3. m + Alignment > EndOfHeap
      <4>1. (MaxNode + 1) * Alignment > EndOfHeap
        BY <1>2
      <4> QED
        BY <1>2, <4>1
    <3> HIDE DEF m, x
    <3>4. x < a
      <4>1. ~(x >= a)
        BY DEF x
      <4> QED
        BY <1>4, <3>2, <4>1
    <3>5. x + Alignment <= next(x) /\ next(x) <= a
      BY <1>4, <3>2, <3>4
    <3> QED
      BY <1>2, <1>4, <3>2, <3>3, <3>5
  <2>2. T \subseteq Nat
    BY <1>2
  <2>3. PICK j \in T : \A i \in T : j <= i
    <3> HIDE DEF T
    <3> QED
      BY <2>1, <2>2, Smallest
  <2>4. j \in 0 .. MaxNode /\ (f[j] = NULL \/ f[j] >= a)
    OBVIOUS
  <2>5. CASE j = 0
    <3>1. f[j] = h.head /\ h.head # NULL /\ h.head \in Nat /\ h.head <= a /\ a \in Nat
      BY <1>1, <1>3, <1>4, <2>5
    <3> QED
      BY <2>4, <3>1
  <2>6. CASE j # 0
    <3>1. j - 1 \in 0 .. MaxNode /\ j - 1 \notin T
      BY <1>2, <2>3, <2>4, <2>6
    <3> DEFINE x == f[j - 1]
    <3>2. x # NULL /\ ~(x >= a)
      BY <3>1
    <3>3. x \in L
      BY <1>5, <3>1, <3>2
    <3>4. f[j] = next(x)
      BY <1>1, <2>4, <2>6, <3>2
    <3> HIDE DEF x
    <3>5. next(x) # NULL /\ next(x) <= a /\ next(x) \in Nat /\ a \in Nat
      BY <1>4, <3>2, <3>3
    <3> QED
      BY <2>4, <3>4, <3>5
  <2> QED
    BY <2>5, <2>6
<1>7. {f[n] : n \in DOMAIN f} \ {NULL} = L
  <2>1. \A n \in 0 .. MaxNode : f[n] \in L \cup {NULL}
    BY <1>5
  <2>2. ASSUME NEW a \in L PROVE a \in {f[n] : n \in DOMAIN f} /\ a # NULL
    BY <1>1, <1>4, <1>6
  <2>3. ASSUME NEW n \in DOMAIN f, f[n] # NULL PROVE f[n] \in L
    BY <1>1, <2>1, <2>3
  <2> HIDE DEF f
  <2> QED
    BY <2>2, <2>3
<1> QED
  BY <1>7 DEF Listed, Range, f

-----------------------------------------------------------------------------
(* Blocks come and go                                                      *)

\* There is room for a block of that size, header included, at address a.
Room(h, L, a, size, prev, next) ==
    /\ h.base # NULL /\ h.base <= a
    /\ a \in Address /\ size \in Nat /\ size >= Alignment
    /\ prev \in L \cup {NULL} /\ next \in L \cup {NULL}
    /\ prev # NULL => EndOf(h.mem[prev]) <= a
    /\ next # NULL => a + size <= next
    /\ \A c \in L :
         \/ prev # NULL /\ c <= prev /\ EndOf(h.mem[c]) <= a
         \/ next # NULL /\ next <= c /\ a + size <= c

\* The ends of the list and the break when the block is there.
Ends(h, a, size, prev, next, head, tail, top) ==
    /\ head = IF prev = NULL THEN a ELSE h.head
    /\ tail = IF next = NULL THEN a ELSE h.tail
    /\ IF next = NULL THEN top = a + size ELSE top = h.top
    /\ h.top <= top /\ top <= EndOfHeap /\ a + size <= top

\* The headers when the block is there.
Spliced(h, L, g, a, size, prev, next) ==
    /\ g.mem[a] = [ptr |-> a + Alignment, size |-> size - Alignment,
                   prev |-> prev, next |-> next]
    /\ \A x \in L \ {a} :
         /\ g.mem[x].ptr = h.mem[x].ptr /\ g.mem[x].size = h.mem[x].size
         /\ g.mem[x].next = IF x = prev THEN a ELSE h.mem[x].next
         /\ g.mem[x].prev = IF x = next THEN a ELSE h.mem[x].prev

\* A block is put between two neighbours, or at an end.
LEMMA Insert ==
    ASSUME NEW h, NEW L, InList(h, L),
           NEW g, g \in Heap, g.base = h.base,
           NEW a, NEW size, NEW prev, NEW next,
           Room(h, L, a, size, prev, next),
           Ends(h, a, size, prev, next, g.head, g.tail, g.top),
           Spliced(h, L, g, a, size, prev, next)
    PROVE  a \notin L /\ a # NULL /\ InList(g, L \cup {a})
<1> /\ h.base # NULL /\ h.base <= a
    /\ a \in Address /\ size \in Nat /\ size >= Alignment
    /\ prev \in L \cup {NULL} /\ next \in L \cup {NULL}
    /\ prev # NULL => EndOf(h.mem[prev]) <= a
    /\ next # NULL => a + size <= next
    /\ \A c \in L :
         \/ prev # NULL /\ c <= prev /\ EndOf(h.mem[c]) <= a
         \/ next # NULL /\ next <= c /\ a + size <= c
  BY DEF Room
<1> /\ g.head = IF prev = NULL THEN a ELSE h.head
    /\ g.tail = IF next = NULL THEN a ELSE h.tail
    /\ IF next = NULL THEN g.top = a + size ELSE g.top = h.top
    /\ h.top <= g.top /\ g.top <= EndOfHeap /\ a + size <= g.top
  BY DEF Ends
<1> /\ g.mem[a] = [ptr |-> a + Alignment, size |-> size - Alignment,
                   prev |-> prev, next |-> next]
    /\ \A x \in L \ {a} :
         /\ g.mem[x].ptr = h.mem[x].ptr /\ g.mem[x].size = h.mem[x].size
         /\ g.mem[x].next = IF x = prev THEN a ELSE h.mem[x].next
         /\ g.mem[x].prev = IF x = next THEN a ELSE h.mem[x].prev
  BY DEF Spliced
<1> DEFINE nx(x) == h.mem[x].next
           pv(x) == h.mem[x].prev
           en(x) == EndOf(h.mem[x])
           nx1(x) == g.mem[x].next
           pv1(x) == g.mem[x].prev
           en1(x) == EndOf(g.mem[x])
           M == L \cup {a}
<1>1. /\ Alignment \in Nat /\ Alignment > 0 /\ EndOfHeap \in Nat /\ End \in Nat /\ End > 0
      /\ Address = 0 .. EndOfHeap /\ NULL = 0
  BY Units DEF Address, NULL
<1>2. /\ \A x \in L : x \in Nat /\ x # NULL /\ x \in Address /\ nx(x) \in Nat /\ pv(x) \in Nat
      /\ \A x \in L : en(x) \in Nat /\ en(x) > x /\ en(x) <= h.top
      /\ h.top \in Nat /\ h.base \in Nat
      /\ \A x \in L : h.mem[x].ptr = x + Alignment /\ h.mem[x].size \in Nat
  BY InListFacts, Units
<1>3. /\ End <= h.base /\ h.base <= h.top
      /\ \A x \in L : /\ h.head \in L /\ h.tail \in L /\ h.head <= x /\ x <= h.tail
                      /\ h.top = en(h.tail)
      /\ \A x \in L : /\ h.base <= x
                      /\ nx(x) # NULL => nx(x) \in L /\ x < nx(x)
                      /\ pv(x) # NULL => pv(x) \in L /\ pv(x) < x
      /\ \A x, y \in L : x < y =>
           en(x) <= y /\ nx(x) # NULL /\ nx(x) <= y /\ pv(y) # NULL /\ x <= pv(y)
  BY DEF InList
<1>4. a \in Nat /\ a # NULL /\ a \notin L
  BY <1>1, <1>2, <1>3
<1>5. /\ g.mem[a].ptr = a + Alignment /\ g.mem[a].size = size - Alignment
      /\ nx1(a) = next /\ pv1(a) = prev /\ en1(a) = a + size
  BY <1>1, <1>4 DEF EndOf
<1>6. \A x \in L : /\ g.mem[x].ptr = x + Alignment /\ g.mem[x].size = h.mem[x].size
                   /\ nx1(x) = IF x = prev THEN a ELSE nx(x)
                   /\ pv1(x) = IF x = next THEN a ELSE pv(x)
                   /\ en1(x) = en(x)
  BY <1>2, <1>4 DEF EndOf
<1>7. /\ \A c \in L : \/ prev # NULL /\ c <= prev /\ en(c) <= a
                      \/ next # NULL /\ next <= c /\ a + size <= c
      /\ prev # NULL => en(prev) <= a
      /\ next # NULL => a + size <= next
      /\ prev # NULL => prev \in L
      /\ next # NULL => next \in L
  OBVIOUS
<1>8. g.top \in Nat /\ (next # NULL => g.top = h.top) /\ (next = NULL => g.top = a + size)
  BY <1>1, <1>2, <1>4
<1> HIDE DEF nx, pv, en, nx1, pv1, en1, M
<1>9. \A x \in M : x \in Nat /\ x # NULL /\ x \in Address
  BY <1>2, <1>4 DEF M
<1>10. ASSUME NEW x \in M
       PROVE  /\ g.head \in M /\ g.head <= x
              /\ g.tail \in M /\ x <= g.tail /\ g.top = en1(g.tail)
  <2>1. g.head \in M /\ g.head <= x
    <3>1. CASE prev = NULL
      <4>1. \A c \in L : a <= c
        BY <1>1, <1>2, <1>4, <1>7, <3>1
      <4> QED
        BY <1>4, <3>1, <4>1 DEF M
    <3>2. CASE prev # NULL
      <4>1. h.head \in L /\ h.head <= prev /\ prev < a
        BY <1>2, <1>3, <1>4, <1>7, <3>2
      <4> QED
        BY <1>2, <1>3, <1>4, <1>7, <3>2, <4>1 DEF M
    <3> QED
      BY <3>1, <3>2
  <2>2. g.tail \in M /\ x <= g.tail /\ g.top = en1(g.tail)
    <3>1. CASE next = NULL
      <4>1. \A c \in L : c <= a
        BY <1>1, <1>2, <1>4, <1>7, <3>1
      <4> QED
        BY <1>4, <1>5, <1>8, <3>1, <4>1 DEF M
    <3>2. CASE next # NULL
      <4>1. h.tail \in L /\ next <= h.tail /\ a < next
        BY <1>1, <1>2, <1>3, <1>4, <1>7, <3>2
      <4>2. g.top = en1(h.tail)
        BY <1>3, <1>6, <1>8, <3>2, <4>1
      <4> QED
        BY <1>2, <1>3, <1>4, <1>7, <3>2, <4>1, <4>2 DEF M
    <3> QED
      BY <3>1, <3>2
  <2> QED
    BY <2>1, <2>2
<1>11. ASSUME NEW x \in M
       PROVE  /\ g.mem[x].ptr = x + Alignment /\ g.mem[x].size >= 0
              /\ g.base <= x /\ en1(x) <= g.top
              /\ nx1(x) # NULL => nx1(x) \in M /\ x < nx1(x)
              /\ pv1(x) # NULL => pv1(x) \in M /\ pv1(x) < x
  <2>1. CASE x = a
    BY <1>1, <1>2, <1>4, <1>5, <1>7, <2>1 DEF M
  <2>2. CASE x \in L
    <3>1. g.mem[x].ptr = x + Alignment /\ g.mem[x].size >= 0 /\ g.base <= x
      BY <1>2, <1>3, <1>6, <2>2
    <3>2. en1(x) <= g.top
      BY <1>2, <1>6, <1>8, <2>2
    <3>3. nx1(x) # NULL => nx1(x) \in M /\ x < nx1(x)
      BY <1>2, <1>3, <1>4, <1>6, <1>7, <2>2 DEF M
    <3>4. pv1(x) # NULL => pv1(x) \in M /\ pv1(x) < x
      <4>1. CASE x = next
        <5>1. pv1(x) = a /\ a + size <= x /\ x \in Nat
          BY <1>2, <1>6, <1>7, <2>2, <4>1
        <5> QED
          BY <1>1, <1>4, <5>1 DEF M
      <4>2. CASE x # next
        BY <1>3, <1>6, <2>2, <4>2 DEF M
      <4> QED
        BY <4>1, <4>2
    <3> QED
      BY <3>1, <3>2, <3>3, <3>4
  <2> QED
    BY <2>1, <2>2 DEF M
<1>12. ASSUME NEW x \in M, NEW y \in M, x < y
       PROVE  /\ en1(x) <= y /\ nx1(x) # NULL /\ nx1(x) <= y
              /\ pv1(y) # NULL /\ x <= pv1(y)
  <2>1. CASE x \in L /\ y \in L
    <3>1. en1(x) <= y
      BY <1>3, <1>6, <1>12, <2>1
    <3>2. nx1(x) # NULL /\ nx1(x) <= y
      <4>1. CASE x = prev
        <5>1. nx1(x) = a /\ x \in Nat /\ y \in Nat
          BY <1>2, <1>6, <2>1, <4>1
        <5>2. ~(y <= prev)
          BY <1>12, <4>1, <5>1
        <5>3. a + size <= y
          BY <1>7, <2>1, <5>2
        <5> QED
          BY <1>1, <1>4, <5>1, <5>3
      <4>2. CASE x # prev
        BY <1>3, <1>6, <1>12, <2>1, <4>2
      <4> QED
        BY <4>1, <4>2
    <3>3. pv1(y) # NULL /\ x <= pv1(y)
      <4>1. CASE y = next
        <5>1. pv1(y) = a /\ x \in Nat /\ y \in Nat
          BY <1>2, <1>6, <2>1, <4>1
        <5>2. ~(next <= x)
          BY <1>12, <4>1, <5>1
        <5>3. en(x) <= a /\ en(x) \in Nat /\ en(x) > x
          BY <1>2, <1>7, <2>1, <5>2
        <5> QED
          BY <1>4, <5>1, <5>3
      <4>2. CASE y # next
        BY <1>3, <1>6, <1>12, <2>1, <4>2
      <4> QED
        BY <4>1, <4>2
    <3> QED
      BY <3>1, <3>2, <3>3
  <2>2. CASE x = a /\ y \in L
    <3>1. next # NULL /\ next <= y /\ a + size <= y /\ next \in L
      BY <1>2, <1>4, <1>7, <1>12, <2>2
    <3>2. en1(x) <= y /\ nx1(x) # NULL /\ nx1(x) <= y
      BY <1>5, <2>2, <3>1
    <3>3. pv1(y) # NULL /\ x <= pv1(y)
      <4>1. CASE y = next
        BY <1>4, <1>6, <2>2, <4>1
      <4>2. CASE y # next
        <5>1. next < y
          BY <1>2, <2>2, <3>1, <4>2
        <5>2. pv(y) # NULL /\ next <= pv(y) /\ pv(y) \in Nat /\ next \in Nat
          BY <1>2, <1>3, <2>2, <3>1, <5>1
        <5> QED
          BY <1>1, <1>4, <1>6, <1>7, <2>2, <3>1, <4>2, <5>2
      <4> QED
        BY <4>1, <4>2
    <3> QED
      BY <3>2, <3>3
  <2>3. CASE x \in L /\ y = a
    <3>1. prev # NULL /\ x <= prev /\ en(x) <= a /\ prev \in L
      BY <1>1, <1>2, <1>4, <1>7, <1>12, <2>3
    <3>2. en1(x) <= y /\ pv1(y) # NULL /\ x <= pv1(y)
      BY <1>5, <1>6, <2>3, <3>1
    <3>3. nx1(x) # NULL /\ nx1(x) <= y
      <4>1. CASE x = prev
        BY <1>4, <1>6, <2>3, <4>1
      <4>2. CASE x # prev
        <5>1. x < prev
          BY <1>2, <2>3, <3>1, <4>2
        <5>2. nx(x) # NULL /\ nx(x) <= prev /\ nx(x) \in Nat /\ prev \in Nat /\ prev < en(prev)
              /\ en(prev) \in Nat
          BY <1>2, <1>3, <2>3, <3>1, <5>1
        <5> QED
          BY <1>1, <1>4, <1>6, <1>7, <2>3, <3>1, <4>2, <5>2
      <4> QED
        BY <4>1, <4>2
    <3> QED
      BY <3>2, <3>3
  <2> QED
    BY <1>4, <1>12, <2>1, <2>2, <2>3 DEF M
<1>13. M # {} /\ g.head # NULL /\ g.base # NULL /\ End <= g.base /\ g.base <= g.top
  <2>1. M # {} /\ a \in M
    BY DEF M
  <2>2. g.head # NULL
    BY <1>9, <1>10, <2>1
  <2> QED
    BY <1>2, <1>3, <1>8, <2>1, <2>2
<1>14. InList(g, M)
  BY <1>9, <1>10, <1>11, <1>12, <1>13 DEF InList, nx1, pv1, en1
<1> QED
  BY <1>4, <1>14 DEF M

\* The heap g is the heap h without the block between prev and next.
Without(h, L, g, a, prev, next) ==
    /\ g.base = h.base
    /\ \A x \in L \ {a} :
         /\ g.mem[x].ptr = h.mem[x].ptr /\ g.mem[x].size = h.mem[x].size
         /\ g.mem[x].next = IF x = prev THEN next ELSE h.mem[x].next
         /\ g.mem[x].prev = IF x = next THEN prev ELSE h.mem[x].prev
    /\ g.head = IF prev = NULL THEN next ELSE h.head
    /\ g.tail = IF next = NULL THEN prev ELSE h.tail
    /\ next # NULL => g.top = h.top
    /\ next = NULL /\ prev # NULL => g.top = EndOf(h.mem[prev])
    /\ next = NULL /\ prev = NULL => g.top = a

\* A block is taken out, and its neighbours become neighbours.
LEMMA Remove ==
    ASSUME NEW h, NEW L, InList(h, L), NEW a \in L,
           NEW g, g \in Heap, Without(h, L, g, a, h.mem[a].prev, h.mem[a].next)
    PROVE  InList(g, L \ {a})
<1> DEFINE prev == h.mem[a].prev
           next == h.mem[a].next
<1> /\ g.base = h.base /\ prev = h.mem[a].prev /\ next = h.mem[a].next
    /\ \A x \in L \ {a} :
         /\ g.mem[x].ptr = h.mem[x].ptr /\ g.mem[x].size = h.mem[x].size
         /\ g.mem[x].next = IF x = prev THEN next ELSE h.mem[x].next
         /\ g.mem[x].prev = IF x = next THEN prev ELSE h.mem[x].prev
    /\ g.head = IF prev = NULL THEN next ELSE h.head
    /\ g.tail = IF next = NULL THEN prev ELSE h.tail
    /\ next # NULL => g.top = h.top
    /\ next = NULL /\ prev # NULL => g.top = EndOf(h.mem[prev])
    /\ next = NULL /\ prev = NULL => g.top = a
  BY DEF Without
<1> HIDE DEF prev, next
<1> DEFINE nx(x) == h.mem[x].next
           pv(x) == h.mem[x].prev
           en(x) == EndOf(h.mem[x])
           nx1(x) == g.mem[x].next
           pv1(x) == g.mem[x].prev
           en1(x) == EndOf(g.mem[x])
           M == L \ {a}
<1>1. /\ Alignment \in Nat /\ Alignment > 0 /\ EndOfHeap \in Nat /\ End \in Nat /\ End > 0
      /\ NULL = 0
  BY Units DEF NULL
<1>2. /\ \A x \in L : x \in Nat /\ x # NULL /\ x \in Address /\ nx(x) \in Nat /\ pv(x) \in Nat
      /\ \A x \in L : en(x) \in Nat /\ en(x) > x /\ en(x) <= h.top
      /\ h.top \in Nat /\ h.base \in Nat /\ h.base # NULL /\ h.top <= EndOfHeap
      /\ \A x \in L : h.mem[x].ptr = x + Alignment /\ h.mem[x].size \in Nat
  BY InListFacts, Units
<1>3. /\ h.base # NULL => End <= h.base /\ h.base <= h.top
      /\ \A x \in L : /\ h.head \in L /\ h.tail \in L /\ h.head <= x /\ x <= h.tail
                      /\ h.top = en(h.tail)
      /\ \A x \in L : /\ h.base <= x
                      /\ nx(x) # NULL => nx(x) \in L /\ x < nx(x)
                      /\ pv(x) # NULL => pv(x) \in L /\ pv(x) < x
      /\ \A x, y \in L : x < y =>
           en(x) <= y /\ nx(x) # NULL /\ nx(x) <= y /\ pv(y) # NULL /\ x <= pv(y)
  BY DEF InList
<1>4. /\ next = NULL <=> a = h.tail
      /\ prev = NULL <=> a = h.head
      /\ next # NULL => next \in L /\ a < next /\ \A b \in L : b <= a \/ next <= b
      /\ prev # NULL => prev \in L /\ prev < a /\ \A b \in L : a <= b \/ b <= prev
  BY <1>3, Neighbours
<1>5. /\ \A x \in L : nx(x) = a => x = prev
      /\ \A x \in L : pv(x) = a => x = next
  BY <1>2, Neighbours
<1>6. \A x \in M : /\ g.mem[x].ptr = x + Alignment /\ g.mem[x].size = h.mem[x].size
                   /\ nx1(x) = IF x = prev THEN next ELSE nx(x)
                   /\ pv1(x) = IF x = next THEN prev ELSE pv(x)
                   /\ en1(x) = en(x)
                   /\ x \in L /\ x # a
  BY <1>2 DEF EndOf
<1>16. /\ next = NULL /\ prev # NULL => g.top = en(prev)
       /\ next # NULL => g.top = h.top /\ g.tail = h.tail
       /\ next = NULL => g.tail = prev
  OBVIOUS
<1> HIDE DEF nx, pv, en, nx1, pv1, en1, M
<1>7. \A x \in L : x # a => x \in M
  BY DEF M
<1>8. ASSUME NEW x \in M
      PROVE  /\ prev = NULL => next # NULL /\ next <= x
             /\ next = NULL => prev # NULL /\ x <= prev
  <2>1. x \in L /\ x \in Nat /\ x # a /\ a \in Nat /\ h.head <= x /\ x <= h.tail
    BY <1>2, <1>3, <1>6
  <2>2. prev = NULL => a < x
    BY <1>4, <2>1
  <2>3. next = NULL => x < a
    BY <1>4, <2>1
  <2>4. ~(next = NULL /\ prev = NULL)
    BY <2>1, <2>2, <2>3
  <2> QED
    BY <1>2, <1>4, <2>1, <2>2, <2>3, <2>4
<1>9. ASSUME NEW x \in M
      PROVE  /\ g.head \in M /\ g.head <= x
             /\ g.tail \in M /\ x <= g.tail /\ g.top = en1(g.tail)
  <2>1. g.head \in M /\ g.head <= x
    BY <1>2, <1>3, <1>4, <1>6, <1>7, <1>8
  <2>2. g.tail \in M /\ x <= g.tail
    BY <1>2, <1>3, <1>4, <1>6, <1>7, <1>8
  <2>3. g.top = en1(g.tail)
    <3>1. en1(g.tail) = en(g.tail)
      BY <1>6, <2>2
    <3>2. CASE next = NULL
      BY <1>8, <1>16, <3>1, <3>2
    <3>3. CASE next # NULL
      <4>1. x \in L
        BY <1>6
      <4> QED
        BY <1>3, <1>16, <3>1, <3>3, <4>1
    <3> QED
      BY <3>2, <3>3
  <2> QED
    BY <2>1, <2>2, <2>3
<1>10. ASSUME NEW x \in M
       PROVE  /\ g.mem[x].ptr = x + Alignment /\ g.mem[x].size >= 0
              /\ g.base <= x /\ en1(x) <= g.top
              /\ nx1(x) # NULL => nx1(x) \in M /\ x < nx1(x)
              /\ pv1(x) # NULL => pv1(x) \in M /\ pv1(x) < x
  <2>1. x \in L /\ x # a /\ x \in Nat /\ a \in Nat
    BY <1>2, <1>6
  <2>2. g.mem[x].ptr = x + Alignment /\ g.mem[x].size >= 0 /\ g.base <= x
    BY <1>2, <1>3, <1>6, <2>1
  <2>3. en1(x) <= g.top
    <3>1. CASE next # NULL
      BY <1>2, <1>6, <2>1, <3>1
    <3>2. CASE next = NULL
      <4>1. prev \in L /\ x <= prev /\ g.top = en(prev) /\ en1(x) = en(x)
        BY <1>4, <1>6, <1>8, <1>16, <3>2
      <4>2. CASE x = prev
        BY <1>2, <4>1, <4>2
      <4>3. CASE x # prev
        <5>1. prev \in Nat /\ en(prev) > prev /\ en(x) \in Nat /\ en(prev) \in Nat
          BY <1>2, <2>1, <4>1
        <5>2. x < prev
          BY <2>1, <4>1, <4>3, <5>1
        <5>3. en(x) <= prev
          BY <1>3, <2>1, <4>1, <5>2
        <5> QED
          BY <4>1, <5>1, <5>3
      <4> QED
        BY <4>2, <4>3
    <3> QED
      BY <3>1, <3>2
  <2>4. nx1(x) # NULL => nx1(x) \in M /\ x < nx1(x)
    <3>1. CASE x = prev
      <4>1. nx1(x) = next /\ (next # NULL => next \in L /\ next \in Nat /\ a < next /\ x < a)
        BY <1>2, <1>4, <1>6, <3>1
      <4> QED
        BY <1>7, <2>1, <4>1
    <3>2. CASE x # prev
      BY <1>3, <1>5, <1>6, <1>7, <2>1, <3>2
    <3> QED
      BY <3>1, <3>2
  <2>5. pv1(x) # NULL => pv1(x) \in M /\ pv1(x) < x
    <3>1. CASE x = next
      <4>1. pv1(x) = prev /\ (prev # NULL => prev \in L /\ prev \in Nat /\ prev < a /\ a < x)
        BY <1>2, <1>4, <1>6, <3>1
      <4> QED
        BY <1>7, <2>1, <4>1
    <3>2. CASE x # next
      <4>1. pv1(x) = pv(x) /\ pv(x) # a
        BY <1>5, <1>6, <2>1, <3>2
      <4>2. pv(x) # NULL => pv(x) \in L /\ pv(x) < x
        BY <1>3, <2>1
      <4> QED
        BY <1>7, <4>1, <4>2
    <3> QED
      BY <3>1, <3>2
  <2> QED
    BY <2>2, <2>3, <2>4, <2>5
<1>11. ASSUME NEW x \in M, NEW y \in M, x < y
       PROVE  /\ en1(x) <= y /\ nx1(x) # NULL /\ nx1(x) <= y
              /\ pv1(y) # NULL /\ x <= pv1(y)
  <2>1. x \in L /\ y \in L /\ x # a /\ y # a /\ x \in Nat /\ y \in Nat /\ a \in Nat
    BY <1>2, <1>6
  <2>2. /\ en(x) <= y /\ nx(x) # NULL /\ nx(x) <= y
        /\ pv(y) # NULL /\ x <= pv(y)
    BY <1>3, <1>11, <2>1
  <2>3. nx1(x) # NULL /\ nx1(x) <= y
    <3>1. CASE x = prev
      <4>1. a <= y
        BY <1>2, <1>4, <1>11, <2>1, <3>1
      <4>2. next # NULL
        BY <1>3, <1>4, <2>1, <4>1
      <4> QED
        BY <1>4, <1>6, <2>1, <3>1, <4>1, <4>2
    <3>2. CASE x # prev
      BY <1>6, <2>2, <3>2
    <3> QED
      BY <3>1, <3>2
  <2>4. pv1(y) # NULL /\ x <= pv1(y)
    <3>1. CASE y = next
      <4>1. x <= a
        BY <1>2, <1>4, <1>11, <2>1, <3>1
      <4>2. prev # NULL
        BY <1>3, <1>4, <2>1, <4>1
      <4> QED
        BY <1>4, <1>6, <2>1, <3>1, <4>1, <4>2
    <3>2. CASE y # next
      BY <1>6, <2>2, <3>2
    <3> QED
      BY <3>1, <3>2
  <2> QED
    BY <1>6, <2>2, <2>3, <2>4
<1>12. g.head = NULL <=> M = {}
  <2>1. M # {} => g.head # NULL
    BY <1>2, <1>6, <1>9
  <2>2. g.head # NULL => M # {}
    <3>1. prev = NULL => next = NULL \/ next \in M
      BY <1>2, <1>4, <1>7
    <3>2. prev # NULL => prev \in M
      BY <1>2, <1>4, <1>7
    <3> QED
      BY <3>1, <3>2
  <2> QED
    BY <2>1, <2>2
<1>13. End <= g.base /\ g.base <= g.top /\ g.top <= EndOfHeap /\ g.base # NULL
  <2>1. CASE next # NULL
    BY <1>2, <1>3, <2>1
  <2>2. CASE next = NULL /\ prev # NULL
    <3>1. prev \in Nat /\ h.base <= prev /\ prev < en(prev) /\ en(prev) \in Nat
          /\ en(prev) <= h.top /\ g.top = en(prev)
      BY <1>2, <1>3, <1>4, <2>2 DEF en
    <3> QED
      BY <1>1, <1>2, <1>3, <3>1
  <2>3. CASE next = NULL /\ prev = NULL
    <3>1. h.base <= a /\ a < en(a) /\ en(a) <= h.top /\ a \in Nat /\ en(a) \in Nat /\ g.top = a
      BY <1>2, <1>3, <2>3
    <3> QED
      BY <1>1, <1>2, <1>3, <3>1
  <2> QED
    BY <2>1, <2>2, <2>3
<1>14. M \subseteq Address \ {NULL}
  BY <1>2, <1>6
<1>15. InList(g, M)
  BY <1>9, <1>10, <1>11, <1>12, <1>13, <1>14 DEF InList, nx1, pv1, en1
<1> QED
  BY <1>15 DEF M

-----------------------------------------------------------------------------
(* malloc                                                                  *)

SameSizes(g, h, L) == \A x \in L : g.mem[x].size = h.mem[x].size

LEMMA HeapFields ==
    ASSUME NEW h \in Heap
    PROVE  /\ h = [base |-> h.base, head |-> h.head, tail |-> h.tail,
                   top |-> h.top, mem |-> h.mem]
           /\ h.base \in Address /\ h.head \in Address /\ h.tail \in Address
           /\ h.top \in Address /\ h.mem \in [Address -> Header]
BY DEF Heap

Parts(h, base, head, tail, top, mem) ==
    h = [base |-> base, head |-> head, tail |-> tail, top |-> top, mem |-> mem]

OnlyAdded(h, a, size) == [h EXCEPT !.head = a, !.tail = a, !.top = @ + size]
LastAdded(h, a, size) == [h EXCEPT !.tail = a, !.top = @ + size]

LEMMA LastUpdated ==
    ASSUME NEW b, NEW hd, NEW tl, NEW tp \in Nat, NEW m, NEW x, NEW s \in Nat, NEW r,
           Parts(r, b, hd, tl, tp, m)
    PROVE  Parts(LastAdded(r, x, s), b, hd, x, tp + s, m)
<1>0. r = [base |-> b, head |-> hd, tail |-> tl, top |-> tp, mem |-> m]
  BY DEF Parts
<1> DEFINE t == tp + s
           l == [r EXCEPT !.tail = x]
<1>1. r.top + s = t
  BY <1>0
<1> HIDE DEF t
<1>2. l = [base |-> b, head |-> hd, tail |-> x, top |-> tp, mem |-> m]
  BY <1>0
<1>3. LastAdded(r, x, s) = [l EXCEPT !.top = t]
  BY <1>1 DEF LastAdded
<1> HIDE DEF l
<1>4. [l EXCEPT !.top = t] = [base |-> b, head |-> hd, tail |-> x, top |-> t, mem |-> m]
  BY <1>2
<1> QED
  BY <1>3, <1>4 DEF Parts, t

LEMMA OnlyUpdated ==
    ASSUME NEW b, NEW hd, NEW tl, NEW tp \in Nat, NEW m, NEW x, NEW s \in Nat, NEW r,
           Parts(r, b, hd, tl, tp, m)
    PROVE  Parts(OnlyAdded(r, x, s), b, x, x, tp + s, m)
<1>0. r = [base |-> b, head |-> hd, tail |-> tl, top |-> tp, mem |-> m]
  BY DEF Parts
<1> DEFINE h == [r EXCEPT !.head = x]
<1>1. h = [base |-> b, head |-> x, tail |-> tl, top |-> tp, mem |-> m]
  BY <1>0
<1>2. OnlyAdded(r, x, s) = LastAdded(h, x, s)
  BY <1>0 DEF OnlyAdded, LastAdded
<1> HIDE DEF h
<1>3. Parts(h, b, x, tl, tp, m)
  BY <1>1 DEF Parts
<1> QED
  BY <1>2, <1>3, LastUpdated

\* _heap_mem_fit finds a gap if there is one.
LEMMA Fit ==
    ASSUME NEW h, NEW L, InList(h, L), NEW size \in Nat
    PROVE  \/ HeapMemFit(h, size) \in L /\ FitsAfter(h, HeapMemFit(h, size), size)
           \/ HeapMemFit(h, size) = NULL /\ \A a \in L : ~FitsAfter(h, a, size)
<1> DEFINE node == Node(h)
           fits == {n \in DOMAIN node : node[n] # NULL /\ FitsAfter(h, node[n], size)}
<1>1. DOMAIN node \subseteq Nat
  BY NodeChain, Units
<1>2. {node[n] : n \in DOMAIN node} \ {NULL} = L
  BY InListIsListed DEF Listed, Range
<1>3. HeapMemFit(h, size) = IF fits = {} THEN NULL ELSE node[Min(fits)]
  BY DEF HeapMemFit
<1> HIDE DEF node
<1>4. CASE fits = {}
  <2>1. ASSUME NEW a \in L PROVE ~FitsAfter(h, a, size)
    <3>1. PICK n \in DOMAIN node : node[n] = a /\ a # NULL
      BY <1>2
    <3> QED
      BY <1>4, <3>1
  <2> QED
    BY <1>3, <1>4, <2>1
<1>5. CASE fits # {}
  <2>1. fits \subseteq Nat
    BY <1>1
  <2>2. \E x \in fits : \A y \in fits : x <= y
    <3> HIDE DEF fits
    <3> QED
      BY <1>5, <2>1, Smallest
  <2>3. Min(fits) \in fits
    <3> HIDE DEF fits
    <3> QED
      BY <2>2 DEF Min
  <2>4. node[Min(fits)] # NULL /\ FitsAfter(h, node[Min(fits)], size) /\ Min(fits) \in DOMAIN node
    BY <2>3
  <2>5. node[Min(fits)] \in L
    BY <1>2, <2>4
  <2> QED
    BY <1>3, <1>5, <2>4, <2>5
<1> QED
  BY <1>4, <1>5

\* The heap after a block is written at a free address.
LEMMA Link ==
    ASSUME NEW h, NEW L, InList(h, L),
           NEW a, NEW size, NEW prev, NEW next, NEW head, NEW tail, NEW top \in Nat,
           Room(h, L, a, size, prev, next),
           Ends(h, a, size, prev, next, head, tail, top),
           NEW g, Parts(g, h.base, head, tail, top, Linked(h, a, size, prev, next).mem)
    PROVE  /\ a \notin L /\ a # NULL /\ InList(g, L \cup {a})
           /\ g.mem[a].size = size - Alignment /\ SameSizes(g, h, L)
<1> /\ a \in Address /\ size \in Nat /\ size >= Alignment
    /\ prev \in L \cup {NULL} /\ next \in L \cup {NULL}
    /\ prev # NULL => EndOf(h.mem[prev]) <= a
    /\ next # NULL => a + size <= next
  BY DEF Room
<1> g = [base |-> h.base, head |-> head, tail |-> tail, top |-> top,
         mem |-> Linked(h, a, size, prev, next).mem]
  BY DEF Parts
<1> /\ head = IF prev = NULL THEN a ELSE h.head
    /\ tail = IF next = NULL THEN a ELSE h.tail
    /\ top <= EndOfHeap /\ a + size <= top
  BY DEF Ends
<1>1. /\ Alignment \in Nat /\ Alignment > 0 /\ EndOfHeap \in Nat
      /\ Address = 0 .. EndOfHeap /\ NULL = 0 /\ L \subseteq Address /\ NULL \notin L
  BY Units DEF Address, NULL, InList
<1>2. h \in Heap /\ h.mem \in [Address -> Header] /\ h.head \in Address /\ h.tail \in Address
      /\ h.base \in Address
  BY HeapFields DEF InList
<1> DEFINE new == [ptr |-> a + Alignment, size |-> size - Alignment,
                   prev |-> prev, next |-> next]
           at(x) == CASE x = a -> new
                      [] x = prev /\ x # NULL -> [h.mem[x] EXCEPT !.next = a]
                      [] x = next /\ x # NULL -> [h.mem[x] EXCEPT !.prev = a]
                      [] OTHER -> h.mem[x]
<1>3. g.mem = [x \in Address |-> at(x)]
  BY <1>2 DEF Linked, Heap
<1>13. g.base = h.base /\ g.head = head /\ g.tail = tail /\ g.top = top
  OBVIOUS
<1>4. new \in Header
  <2>1. a + Alignment \in Address /\ size - Alignment \in Int
    BY <1>1
  <2> QED
    BY <1>1, <2>1 DEF Header
<1>5. ASSUME NEW x \in Address
      PROVE  /\ at(x) \in Header
             /\ x # a => at(x).ptr = h.mem[x].ptr /\ at(x).size = h.mem[x].size
             /\ x # a /\ x # prev /\ x # next => at(x) = h.mem[x]
             /\ x # a /\ x # NULL /\ prev # next =>
                  /\ at(x).next = IF x = prev THEN a ELSE h.mem[x].next
                  /\ at(x).prev = IF x = next THEN a ELSE h.mem[x].prev
  <2>1. h.mem[x] \in Header
    BY <1>2
  <2> HIDE DEF new
  <2> QED
    BY <1>1, <1>4, <2>1 DEF Header
<1> HIDE DEF at
<1>6. g \in Heap
  <2>1. head \in Address /\ tail \in Address /\ top \in Address
    BY <1>1, <1>2
  <2>2. g.mem \in [Address -> Header]
    BY <1>3, <1>5
  <2> QED
    BY <1>2, <2>1, <2>2 DEF Heap
<1>7. g.mem[a] = new
  <2>1. a # prev /\ a # next
    <3>1. \A c \in L : c \in Nat /\ EndOf(h.mem[c]) \in Nat /\ c < EndOf(h.mem[c])
      BY InListFacts, Units
    <3>2. a # NULL /\ a \in Nat
      BY <1>1, HeapFields, <1>2 DEF Room
    <3> QED
      BY <1>1, <3>1, <3>2
  <2>2. at(a) = new
    <3> HIDE DEF new
    <3> QED
      BY <2>1 DEF at
  <2> QED
    BY <1>3, <2>2
<1>8. prev = next => prev = NULL
  <2>1. \A c \in L : c \in Nat /\ EndOf(h.mem[c]) \in Nat /\ c < EndOf(h.mem[c])
    BY InListFacts, Units
  <2> QED
    BY <1>1, <2>1
<1>9. \A x \in L \ {a} :
        /\ g.mem[x].ptr = h.mem[x].ptr /\ g.mem[x].size = h.mem[x].size
        /\ g.mem[x].next = IF x = prev THEN a ELSE h.mem[x].next
        /\ g.mem[x].prev = IF x = next THEN a ELSE h.mem[x].prev
  <2> TAKE x \in L \ {a}
  <2>1. x \in Address /\ x # NULL /\ g.mem[x] = at(x) /\ x # a
    BY <1>1, <1>3
  <2>2. CASE prev = next
    BY <1>5, <1>8, <2>1, <2>2
  <2>3. CASE prev # next
    BY <1>5, <2>1, <2>3
  <2> QED
    BY <2>2, <2>3
<1>10. g.base = h.base /\ Ends(h, a, size, prev, next, g.head, g.tail, g.top)
  BY <1>13
<1>11. a \notin L /\ a # NULL /\ InList(g, L \cup {a})
  <2> HIDE DEF new
  <2>1. Spliced(h, L, g, a, size, prev, next)
    BY <1>7, <1>9 DEF new, Spliced
  <2> QED
    BY <1>6, <1>10, <2>1, Insert
<1>12. SameSizes(g, h, L)
  BY <1>9, <1>11 DEF SameSizes
<1> QED
  BY <1>7, <1>11, <1>12

\* The first malloc only sets the bottom of the heap.
LEMMA Based ==
    ASSUME NEW h, NEW L, InList(h, L)
    PROVE  /\ InList(WithBase(h), L) /\ WithBase(h).base # NULL
           /\ WithBase(h).mem = h.mem /\ WithBase(h).head = h.head
<1> DEFINE t == h.top + (h.top % Alignment)
<1>1. h \in Heap /\ (h.base = NULL => L = {} /\ h.top = End /\ h.head = NULL)
  BY DEF InList
<1>2. CASE h.head = NULL /\ h.base = NULL
  <2>1. WithBase(h) = [base |-> t, head |-> h.head, tail |-> h.tail, top |-> t, mem |-> h.mem]
    BY <1>1, <1>2 DEF WithBase, Heap
  <2>2. t \in Nat /\ End <= t /\ t <= EndOfHeap /\ t # 0
    BY <1>1, <1>2, Units
  <2>3. t \in Address /\ t # NULL
    BY <2>2, Units DEF Address, NULL
  <2> HIDE DEF t
  <2>4. WithBase(h) \in Heap
    BY <1>1, <2>1, <2>3, HeapFields DEF Heap
  <2>5. L = {} /\ h.head = NULL
    BY <1>1, <1>2
  <2>6. InList(WithBase(h), L)
    BY <2>1, <2>2, <2>3, <2>4, <2>5 DEF InList
  <2> QED
    BY <2>1, <2>3, <2>6
<1>3. CASE ~(h.head = NULL /\ h.base = NULL)
  BY <1>1, <1>3 DEF WithBase
<1> QED
  BY <1>2, <1>3

\* A call that allocates leaves a list, with one more block of at least the size
\* asked for, unless it returns NULL.
Served(got, h, L, n) ==
    \/ got.ptr = NULL /\ InList(got.heap, L) /\ SameSizes(got.heap, h, L)
    \/ \E a \in Address :
         /\ got.ptr = a + Alignment /\ a \notin L /\ a # NULL
         /\ InList(got.heap, L \cup {a})
         /\ got.heap.mem[a].size >= n /\ SameSizes(got.heap, h, L)

LEMMA MallocServes ==
    ASSUME NEW h0, NEW L, InList(h0, L), NEW n \in Nat
    PROVE  Served(Malloc(h0, n), h0, L, n)
<1> DEFINE size == BlockSize(n)
           h == WithBase(h0)
           fit == HeapMemFit(h, size)
           got == Malloc(h0, n)
           en(x) == EndOf(h.mem[x])
<1>1. size \in Nat /\ size >= n + Alignment
  BY BlockSizes
<1>2. InList(h, L) /\ h.base # NULL /\ SameSizes(h, h0, L) /\ h \in Heap
  <2>1. InList(h, L) /\ h.base # NULL /\ h.mem = h0.mem
    BY Based
  <2> HIDE DEF h
  <2> QED
    BY <2>1 DEF SameSizes, InList
<1>3. /\ Alignment \in Nat /\ Alignment > 0 /\ EndOfHeap \in Nat
      /\ Address = 0 .. EndOfHeap /\ NULL = 0
  BY Units DEF Address, NULL
<1>4. got = IF h.head = NULL THEN
              IF ~CanGrow(h, size) THEN Failed(h)
              ELSE Allocated([Linked(h, h.top, size, NULL, NULL) EXCEPT
                                !.head = h.top, !.tail = h.top, !.top = @ + size], h.top)
            ELSE IF h.base + size < h.head THEN
              Allocated([Linked(h, h.base, size, NULL, h.head) EXCEPT !.head = h.base],
                        h.base)
            ELSE IF fit # NULL THEN
              Allocated(Linked(h, en(fit), size, fit, h.mem[fit].next), en(fit))
            ELSE IF ~CanGrow(h, size) THEN Failed(h)
            ELSE Allocated([Linked(h, h.top, size, h.tail, NULL) EXCEPT
                              !.tail = h.top, !.top = @ + size], h.top)
  BY DEF Malloc
<1> SUFFICES Served(got, h0, L, n)
  OBVIOUS
<1> HIDE DEF got, h, size, fit
<1>5. ASSUME NEW a, NEW p, NEW x
      PROVE  Parts(Linked(h, a, size, p, x), h.base, h.head, h.tail, h.top,
                   Linked(h, a, size, p, x).mem)
  <2> DEFINE m == [y \in Address |->
        CASE y = a -> [ptr |-> a + Alignment, size |-> size - Alignment,
                       prev |-> p, next |-> x]
          [] y = p /\ y # NULL -> [h.mem[y] EXCEPT !.next = a]
          [] y = x /\ y # NULL -> [h.mem[y] EXCEPT !.prev = a]
          [] OTHER -> h.mem[y]]
  <2>1. Linked(h, a, size, p, x) = [h EXCEPT !.mem = m]
    BY DEF Linked
  <2> HIDE DEF m
  <2> QED
    BY <1>2, <2>1, HeapFields DEF Parts
<1>6. /\ h.top \in Nat /\ h.top <= EndOfHeap /\ h.base \in Nat /\ h.head \in Nat /\ h.tail \in Nat
      /\ h.base <= h.top
      /\ h.head = NULL <=> L = {}
      /\ \A c \in L : /\ c \in Nat /\ c # NULL /\ c \in Address /\ en(c) \in Nat /\ c < en(c) /\ en(c) <= h.top
                      /\ h.base <= c /\ h.head <= c /\ c <= h.tail /\ h.head \in L /\ h.tail \in L
                      /\ h.top = en(h.tail)
  <2>1. /\ h.head = NULL <=> L = {}
        /\ \A c \in L : /\ h.base <= c /\ h.head <= c /\ c <= h.tail /\ h.head \in L /\ h.tail \in L
                        /\ h.top = en(h.tail)
        /\ h.base <= h.top
    BY <1>2 DEF InList
  <2>2. \A c \in L : c \in Nat /\ c # NULL /\ c \in Address /\ en(c) \in Nat /\ c < en(c) /\ en(c) <= h.top
    BY <1>2, <1>3, InListFacts
  <2> QED
    BY <1>2, <2>1, <2>2, InListFacts
<1> HIDE DEF en
<1>7. ASSUME NEW a \in Address, NEW g, got = Allocated(g, a), a \notin L, a # NULL,
             InList(g, L \cup {a}), g.mem[a].size = size - Alignment, SameSizes(g, h, L)
      PROVE  Served(got, h0, L, n)
  <2>1. SameSizes(g, h0, L)
    BY <1>2, <1>7 DEF SameSizes
  <2>2. g.mem[a].size >= n
    BY <1>1, <1>3, <1>7
  <2>3. got.ptr = a + Alignment /\ got.heap = g
    BY <1>7 DEF Allocated
  <2> QED
    BY <1>7, <2>1, <2>2, <2>3 DEF Served
<1>8. ASSUME got = Failed(h) PROVE Served(got, h0, L, n)
  BY <1>2, <1>8 DEF Served, Failed
<1>9. CASE h.head = NULL
  <2>1. L = {}
    BY <1>6, <1>9
  <2>2. CASE ~CanGrow(h, size)
    <3>1. got = Failed(h)
      BY <1>4, <1>9, <2>2
    <3> QED
      BY <1>8, <3>1
  <2>3. CASE CanGrow(h, size)
    <3> DEFINE top == h.top + size
               g == [base |-> h.base, head |-> h.top, tail |-> h.top, top |-> top,
                     mem |-> Linked(h, h.top, size, NULL, NULL).mem]
    <3>1. top <= EndOfHeap /\ top \in Nat /\ h.top \in Address
      BY <1>1, <1>3, <1>6, <2>3 DEF CanGrow
    <3>2. got = Allocated(g, h.top)
      <4>1. Parts(Linked(h, h.top, size, NULL, NULL), h.base, h.head, h.tail, h.top,
                  Linked(h, h.top, size, NULL, NULL).mem)
        BY <1>5
      <4>3. h.top \in Nat /\ size \in Nat
        BY <1>1, <1>6
      <4>2. OnlyAdded(Linked(h, h.top, size, NULL, NULL), h.top, size) = g
        <5> DEFINE lk == Linked(h, h.top, size, NULL, NULL)
                   m == lk.mem
        <5>1. Parts(lk, h.base, h.head, h.tail, h.top, m)
          BY <4>1
        <5> HIDE DEF lk, m
        <5>2. Parts(OnlyAdded(lk, h.top, size), h.base, h.top, h.top, h.top + size, m)
          BY <4>3, <5>1, OnlyUpdated
        <5> QED
          BY <5>2 DEF lk, m, Parts
      <4> HIDE DEF g
      <4> QED
        BY <1>4, <1>9, <2>3, <4>2 DEF OnlyAdded
    <3>3. /\ h.top \notin L /\ h.top # NULL /\ InList(g, L \cup {h.top})
          /\ g.mem[h.top].size = size - Alignment /\ SameSizes(g, h, L)
      <4>1. size >= Alignment /\ h.top <= top /\ h.base <= h.top
        BY <1>1, <1>3, <1>6
      <4>2. Room(h, L, h.top, size, NULL, NULL)
        BY <1>1, <1>2, <2>1, <3>1, <4>1 DEF Room
      <4>3. Ends(h, h.top, size, NULL, NULL, h.top, h.top, top)
        BY <3>1, <4>1 DEF Ends
      <4>4. Parts(g, h.base, h.top, h.top, top, Linked(h, h.top, size, NULL, NULL).mem)
        BY DEF Parts
      <4> HIDE DEF g, top
      <4> QED
        BY <1>2, <3>1, <4>2, <4>3, <4>4, Link
    <3> HIDE DEF g
    <3> QED
      BY <1>7, <3>1, <3>2, <3>3
  <2> QED
    BY <2>2, <2>3
<1>10. CASE h.head # NULL /\ h.base + size < h.head
  <2> DEFINE g == [base |-> h.base, head |-> h.base, tail |-> h.tail, top |-> h.top,
                   mem |-> Linked(h, h.base, size, NULL, h.head).mem]
  <2>1. L # {} /\ h.head \in L /\ h.base \in Address
    BY <1>3, <1>6, <1>10
  <2>4. h.top \in Nat
    BY <1>6
  <2>2. got = Allocated(g, h.base)
    <3>1. Linked(h, h.base, size, NULL, h.head) =
            [base |-> h.base, head |-> h.head, tail |-> h.tail, top |-> h.top,
             mem |-> Linked(h, h.base, size, NULL, h.head).mem]
      BY <1>5 DEF Parts
    <3>2. [Linked(h, h.base, size, NULL, h.head) EXCEPT !.head = h.base] = g
      BY <3>1
    <3> QED
      BY <1>4, <1>10, <3>2
  <2>3. /\ h.base \notin L /\ h.base # NULL /\ InList(g, L \cup {h.base})
        /\ g.mem[h.base].size = size - Alignment /\ SameSizes(g, h, L)
    <3>1. size >= Alignment /\ h.base + size <= h.head /\ h.head <= h.top
      BY <1>1, <1>3, <1>6, <1>10, <2>1
    <3>2. h.base + size <= h.top
      BY <1>1, <1>6, <3>1
    <3>3. \A c \in L : h.head <= c /\ h.base + size <= c
      BY <1>1, <1>6, <3>1
    <3>4. Parts(g, h.base, h.base, h.tail, h.top, Linked(h, h.base, size, NULL, h.head).mem)
      BY DEF Parts
    <3>5. Room(h, L, h.base, size, NULL, h.head)
      BY <1>1, <1>2, <1>6, <1>10, <2>1, <3>1, <3>3 DEF Room
    <3>6. Ends(h, h.base, size, NULL, h.head, h.base, h.tail, h.top)
      BY <1>6, <1>10, <3>2 DEF Ends
    <3> HIDE DEF g
    <3> QED
      BY <1>2, <2>4, <3>4, <3>5, <3>6, Link
  <2> HIDE DEF g
  <2> QED
    BY <1>7, <2>1, <2>2, <2>3
<1>11. CASE h.head # NULL /\ ~(h.base + size < h.head) /\ fit # NULL
  <2> DEFINE a == en(fit)
             next == h.mem[fit].next
             g == [base |-> h.base, head |-> h.head, tail |-> h.tail, top |-> h.top,
                   mem |-> Linked(h, a, size, fit, next).mem]
  <2>1. fit \in L /\ FitsAfter(h, fit, size)
    BY <1>1, <1>2, <1>11, Fit DEF fit
  <2>2. next # NULL /\ next \in L /\ en(fit) <= next /\ \A b \in L : b <= fit \/ next <= b
    BY <1>2, <2>1, Neighbours DEF FitsAfter, en
  <2>3. a \in Address /\ a \in Nat /\ next \in Nat /\ a + size <= next /\ next <= h.top /\ h.base <= a
    <3>1. a \in Nat /\ next \in Nat /\ next < en(next) /\ en(next) <= h.top /\ en(next) \in Nat
          /\ fit \in Nat /\ h.base <= fit /\ fit < a
      BY <1>6, <2>1, <2>2
    <3>2. next - a >= size \/ next < a
      BY <2>1 DEF FitsAfter, en
    <3> QED
      <4>1. en(fit) <= next /\ next <= h.top /\ next - en(fit) >= size
        BY <1>6, <2>2, <3>1, <3>2
      <4>2. en(fit) + size <= next /\ h.base <= en(fit) /\ en(fit) <= EndOfHeap
        BY <1>1, <1>3, <1>6, <3>1, <4>1
      <4> QED
        BY <1>3, <3>1, <4>1, <4>2
  <2>6. h.top \in Nat
    BY <1>6
  <2>4. got = Allocated(g, a)
    <3>1. Linked(h, a, size, fit, next) = g
      BY <1>5 DEF Parts
    <3> HIDE DEF g
    <3> QED
      BY <1>4, <1>11, <3>1
  <2>5. /\ a \notin L /\ a # NULL /\ InList(g, L \cup {a})
        /\ g.mem[a].size = size - Alignment /\ SameSizes(g, h, L)
    <3>1. \A c \in L : \/ fit # NULL /\ c <= fit /\ en(c) <= a
                       \/ next # NULL /\ next <= c /\ a + size <= c
      <4> TAKE c \in L
      <4>1. CASE next <= c
        BY <1>1, <1>6, <2>2, <2>3, <4>1
      <4>2. CASE c = fit
        BY <1>6, <1>11, <4>2
      <4>3. CASE c <= fit /\ c # fit
        <5>1. c < fit
          BY <1>6, <2>1, <4>3
        <5>2. en(c) <= fit
          BY <1>2, <2>1, <5>1 DEF InList, en
        <5> QED
          BY <1>6, <1>11, <2>1, <4>3, <5>2
      <4> QED
        BY <2>2, <4>1, <4>2, <4>3
    <3>2. size >= Alignment /\ a + size <= h.top /\ h.top <= h.top /\ h.top <= EndOfHeap
      BY <1>1, <1>3, <1>6, <2>3
    <3>3. Parts(g, h.base, h.head, h.tail, h.top, Linked(h, a, size, fit, next).mem)
      BY DEF Parts
    <3>4. a = EndOf(h.mem[fit]) /\ \A c \in L : en(c) = EndOf(h.mem[c])
      BY DEF en
    <3>5. Room(h, L, a, size, fit, next)
      <4> HIDE DEF a, next
      <4>1. \A c \in L : \/ fit # NULL /\ c <= fit /\ EndOf(h.mem[c]) <= a
                         \/ next # NULL /\ next <= c /\ a + size <= c
        BY <3>1, <3>4
      <4>2. EndOf(h.mem[fit]) <= a
        BY <2>3, <3>4
      <4> QED
        BY <1>1, <1>2, <2>1, <2>2, <2>3, <3>2, <4>1, <4>2 DEF Room
    <3>6. Ends(h, a, size, fit, next, h.head, h.tail, h.top)
      BY <1>6, <1>11, <2>2, <3>2 DEF Ends
    <3> HIDE DEF g, a, next
    <3> QED
      BY <1>2, <2>6, <3>3, <3>5, <3>6, Link
  <2> HIDE DEF g, a
  <2> QED
    BY <1>7, <2>3, <2>4, <2>5
<1>12. CASE h.head # NULL /\ ~(h.base + size < h.head) /\ fit = NULL
  <2>1. CASE ~CanGrow(h, size)
    <3>1. got = Failed(h)
      BY <1>4, <1>12, <2>1
    <3> QED
      BY <1>8, <3>1
  <2>2. CASE CanGrow(h, size)
    <3> DEFINE top == h.top + size
               g == [base |-> h.base, head |-> h.head, tail |-> h.top, top |-> top,
                     mem |-> Linked(h, h.top, size, h.tail, NULL).mem]
    <3>1. top <= EndOfHeap /\ top \in Nat /\ h.top \in Address
      BY <1>1, <1>3, <1>6, <2>2 DEF CanGrow
    <3>2. got = Allocated(g, h.top)
      <4>1. Parts(Linked(h, h.top, size, h.tail, NULL), h.base, h.head, h.tail, h.top,
                  Linked(h, h.top, size, h.tail, NULL).mem)
        BY <1>5
      <4>3. h.top \in Nat /\ size \in Nat
        BY <1>1, <1>6
      <4>2. LastAdded(Linked(h, h.top, size, h.tail, NULL), h.top, size) = g
        <5> DEFINE lk == Linked(h, h.top, size, h.tail, NULL)
                   m == lk.mem
        <5>1. Parts(lk, h.base, h.head, h.tail, h.top, m)
          BY <4>1
        <5> HIDE DEF lk, m
        <5>2. Parts(LastAdded(lk, h.top, size), h.base, h.head, h.top, h.top + size, m)
          BY <4>3, <5>1, LastUpdated
        <5> QED
          BY <5>2 DEF lk, m, Parts
      <4> HIDE DEF g
      <4> QED
        BY <1>4, <1>12, <2>2, <4>2 DEF LastAdded
    <3>3. /\ h.top \notin L /\ h.top # NULL /\ InList(g, L \cup {h.top})
          /\ g.mem[h.top].size = size - Alignment /\ SameSizes(g, h, L)
      <4>1. size >= Alignment /\ h.top <= top /\ h.base <= h.top
        BY <1>1, <1>3, <1>6
      <4>2. L # {} /\ h.tail \in L /\ h.tail # NULL /\ EndOf(h.mem[h.tail]) <= h.top
        BY <1>6, <1>12 DEF en
      <4>3. \A c \in L : c <= h.tail /\ EndOf(h.mem[c]) <= h.top
        BY <1>6 DEF en
      <4>4. Parts(g, h.base, h.head, h.top, top, Linked(h, h.top, size, h.tail, NULL).mem)
        BY DEF Parts
      <4>5. Room(h, L, h.top, size, h.tail, NULL)
        <5>1. \A c \in L : h.tail # NULL /\ c <= h.tail /\ EndOf(h.mem[c]) <= h.top
          BY <4>2, <4>3
        <5> QED
          BY <1>1, <1>2, <3>1, <4>1, <4>2, <5>1 DEF Room
      <4>6. Ends(h, h.top, size, h.tail, NULL, h.head, h.top, top)
        BY <3>1, <4>1, <4>2 DEF Ends
      <4> HIDE DEF g, top
      <4> QED
        BY <1>2, <3>1, <4>4, <4>5, <4>6, Link
    <3> HIDE DEF g
    <3> QED
      BY <1>7, <3>1, <3>2, <3>3
  <2> QED
    BY <2>1, <2>2
<1> QED
  BY <1>9, <1>10, <1>11, <1>12

-----------------------------------------------------------------------------
(* free                                                                    *)

LEMMA Forgets ==
    ASSUME NEW h, NEW L, NEW a \in Address, NEW prev, NEW next,
           NEW f \in Heap, Without(h, L, f, a, prev, next)
    PROVE  /\ [f EXCEPT !.mem[a] = NoHeader] \in Heap
           /\ Without(h, L, [f EXCEPT !.mem[a] = NoHeader], a, prev, next)
<1> DEFINE g == [f EXCEPT !.mem[a] = NoHeader]
<1>1. /\ f.mem \in [Address -> Header] /\ NoHeader \in Header
      /\ f.top \in Address /\ f.base \in Address /\ f.head \in Address /\ f.tail \in Address
  <2>1. NoHeader \in Header
    BY Units DEF NoHeader, Header, Address, NULL
  <2> QED
    BY <2>1, HeapFields
<1>2. /\ g.mem = [f.mem EXCEPT ![a] = NoHeader]
      /\ g.base = f.base /\ g.head = f.head /\ g.tail = f.tail /\ g.top = f.top
      /\ g = [base |-> f.base, head |-> f.head, tail |-> f.tail, top |-> f.top,
              mem |-> [f.mem EXCEPT ![a] = NoHeader]]
  BY DEF Heap
<1> HIDE DEF g
<1>3. \A x : x # a => g.mem[x] = f.mem[x]
  BY <1>1, <1>2
<1>4. g \in Heap
  <2>1. [f.mem EXCEPT ![a] = NoHeader] \in [Address -> Header]
    BY <1>1
  <2> QED
    BY <1>1, <1>2, <2>1 DEF Heap
<1>5. Without(h, L, g, a, prev, next)
  BY <1>2, <1>3 DEF Without
<1> QED
  BY <1>4, <1>5 DEF g

LEMMA HeadUnlinked ==
    ASSUME NEW h, NEW L, InList(h, L), h.head \in L
    PROVE  /\ FreeHead(h) \in Heap
           /\ Without(h, L, FreeHead(h), h.head, h.mem[h.head].prev, h.mem[h.head].next)
<1> DEFINE a == h.head
           next == h.mem[a].next
           f == FreeHead(h)
<1>1. /\ h \in Heap /\ h.mem \in [Address -> Header]
      /\ h.top \in Address /\ h.base \in Address /\ h.head \in Address /\ h.tail \in Address
      /\ L \subseteq Address /\ NULL \notin L /\ NULL \in Address
  BY HeapFields, Units DEF InList, Address, NULL
<1>2. h.mem[a].prev = NULL /\ (next = NULL => a = h.tail) /\ (next # NULL => next \in L)
  BY Neighbours
<1>3. /\ \A x \in L : x \in Address /\ h.mem[x] \in Header
      /\ h.mem[a].ptr = a + Alignment /\ h.mem[a].size \in Nat /\ a \in Nat
      /\ h.top = EndOf(h.mem[h.tail])
  <2>1. h.top = EndOf(h.mem[h.tail])
    BY DEF InList
  <2> QED
    BY <2>1, InListFacts
<1>4. CASE next = NULL
  <2> DEFINE top == h.top - (h.mem[a].size + (h.mem[a].ptr - a))
  <2>1. top = a
    BY <1>2, <1>3, <1>4, Units DEF EndOf
  <2>2. f = [h EXCEPT !.head = NULL, !.tail = NULL, !.top = top]
    BY <1>4 DEF FreeHead
  <2> HIDE DEF top, f
  <2>3. f.base = h.base /\ f.head = NULL /\ f.tail = NULL /\ f.top = top /\ f.mem = h.mem
    BY <1>1, <2>2 DEF Heap
  <2>4. f \in Heap
    BY <1>1, <2>1, <2>2 DEF Heap
  <2>5. \A x \in L \ {a} : x # NULL
    BY <1>1
  <2>6. ASSUME NEW x \in L \ {a} PROVE FALSE
    <3>1. /\ h.tail = a /\ x # a /\ x \in L /\ h.head <= x /\ x <= h.tail
          /\ x \in Nat /\ a \in Nat
      BY <1>2, <1>4, InListFacts DEF InList
    <3> QED
      BY <3>1
  <2> QED
    BY <1>2, <1>4, <2>1, <2>3, <2>4, <2>6 DEF Without, f
<1>5. CASE next # NULL
  <2>1. f = [h EXCEPT !.head = next, !.mem[next].prev = NULL]
    BY <1>5 DEF FreeHead
  <2> DEFINE m == [h.mem EXCEPT ![next].prev = NULL]
  <2>2. f.base = h.base /\ f.head = next /\ f.tail = h.tail /\ f.top = h.top /\ f.mem = m
    BY <1>1, <2>1 DEF Heap
  <2>3. next \in Address /\ h.mem[next] \in Header
    BY <1>2, <1>3, <1>5
  <2>4. m \in [Address -> Header]
    <3>1. [h.mem[next] EXCEPT !.prev = NULL] \in Header
      BY <1>1, <2>3 DEF Header
    <3> QED
      BY <1>1, <2>3, <3>1
  <2>5. \A x \in Address :
          /\ m[x].ptr = h.mem[x].ptr /\ m[x].size = h.mem[x].size
          /\ m[x].next = h.mem[x].next
          /\ m[x].prev = IF x = next THEN NULL ELSE h.mem[x].prev
    <3> TAKE x \in Address
    <3>1. h.mem[x] \in Header
      BY <1>1
    <3>2. m[x] = IF x = next THEN [h.mem[x] EXCEPT !.prev = NULL] ELSE h.mem[x]
      BY <1>1, <2>3
    <3> HIDE DEF m
    <3> QED
      BY <3>1, <3>2 DEF Header
  <2> HIDE DEF m, f
  <2>6. f \in Heap
    <3>1. f = [base |-> h.base, head |-> next, tail |-> h.tail, top |-> h.top, mem |-> f.mem]
      <4> DEFINE k == [h EXCEPT !.head = next]
      <4>1. k = [base |-> h.base, head |-> next, tail |-> h.tail, top |-> h.top, mem |-> h.mem]
        BY <1>1, HeapFields
      <4>2. f = [k EXCEPT !.mem = f.mem]
        BY <2>1, <2>2 DEF m
      <4> HIDE DEF k
      <4> QED
        BY <4>1, <4>2
    <3> QED
      BY <1>1, <2>2, <2>3, <2>4, <3>1 DEF Heap
  <2>7. \A x \in L \ {a} : x # NULL /\ x \in Address
    BY <1>1
  <2>8. Without(h, L, f, a, NULL, next)
    BY <1>5, <2>2, <2>5, <2>7 DEF Without
  <2> QED
    BY <1>2, <2>6, <2>8 DEF f
<1> QED
  BY <1>4, <1>5

LEMMA NodeUnlinked ==
    ASSUME NEW h, NEW L, InList(h, L), NEW a \in L, a # h.head
    PROVE  /\ FreeNode(h, a) \in Heap
           /\ Without(h, L, FreeNode(h, a), a, h.mem[a].prev, h.mem[a].next)
<1> DEFINE prev == h.mem[a].prev
           next == h.mem[a].next
           f == FreeNode(h, a)
<1>1. /\ h \in Heap /\ h.mem \in [Address -> Header]
      /\ h.top \in Address /\ h.base \in Address /\ h.head \in Address /\ h.tail \in Address
      /\ L \subseteq Address /\ NULL \notin L /\ NULL \in Address
  BY HeapFields, Units DEF InList, Address, NULL
<1>2. /\ prev # NULL /\ prev \in L /\ prev # a /\ prev # next
      /\ next # NULL => next \in L
  <2>1. prev # NULL /\ prev \in L /\ (next # NULL => next \in L)
    BY Neighbours
  <2>2. prev < a /\ (next # NULL => a < next) /\ prev \in Nat /\ next \in Nat /\ a \in Nat
    BY <2>1, InListFacts DEF InList
  <2> QED
    BY <2>1, <2>2
<1>3. /\ prev \in Address /\ h.mem[prev] \in Header /\ next \in Address
      /\ EndOf(h.mem[prev]) \in Address
      /\ \A x \in L : x \in Address /\ x # NULL
  <2>1. prev \in Address /\ h.mem[prev] \in Header /\ h.mem[a] \in Header
    BY <1>1, <1>2
  <2>2. next \in Address
    BY <2>1 DEF Header
  <2>3. EndOf(h.mem[prev]) \in Address
    <3>1. EndOf(h.mem[prev]) \in Nat /\ EndOf(h.mem[prev]) <= h.top /\ h.top <= EndOfHeap
          /\ h.top \in Nat
      BY <1>2, InListFacts, Units
    <3> QED
      BY <3>1, Units DEF Address
  <2> QED
    BY <1>1, <2>1, <2>2, <2>3
<1> HIDE DEF prev, next
<1>4. CASE next # NULL
  <2> DEFINE m1 == [h.mem EXCEPT ![next].prev = prev]
             m == [m1 EXCEPT ![prev].next = next]
             k == [h EXCEPT !.mem = m1]
  <2>1. f = [k EXCEPT !.mem = m]
    <3>1. f = [h EXCEPT !.mem[next].prev = prev, !.mem[prev].next = next]
      BY <1>4 DEF FreeNode, prev, next
    <3>2. k.mem = m1
      BY <1>1 DEF Heap
    <3> QED
      BY <3>1, <3>2
  <2>2. next \in L /\ h.mem[next] \in Header
    BY <1>1, <1>2, <1>3, <1>4
  <2>3. m1 \in [Address -> Header] /\
        \A x \in Address :
          /\ m1[x].ptr = h.mem[x].ptr /\ m1[x].size = h.mem[x].size
          /\ m1[x].next = h.mem[x].next
          /\ m1[x].prev = IF x = next THEN prev ELSE h.mem[x].prev
    <3>1. [h.mem[next] EXCEPT !.prev = prev] \in Header
      BY <1>3, <2>2 DEF Header
    <3>2. m1 \in [Address -> Header]
      BY <1>1, <1>3, <3>1
    <3>3. ASSUME NEW x \in Address
          PROVE  /\ m1[x].ptr = h.mem[x].ptr /\ m1[x].size = h.mem[x].size
                 /\ m1[x].next = h.mem[x].next
                 /\ m1[x].prev = IF x = next THEN prev ELSE h.mem[x].prev
      <4>1. m1[x] = IF x = next THEN [h.mem[x] EXCEPT !.prev = prev] ELSE h.mem[x]
        BY <1>1, <1>3
      <4>2. h.mem[x] \in Header
        BY <1>1
      <4> HIDE DEF m1
      <4> QED
        BY <4>1, <4>2 DEF Header
    <3> QED
      BY <3>2, <3>3
  <2> HIDE DEF m1
  <2>4. m \in [Address -> Header] /\
        \A x \in Address :
          /\ m[x].ptr = m1[x].ptr /\ m[x].size = m1[x].size /\ m[x].prev = m1[x].prev
          /\ m[x].next = IF x = prev THEN next ELSE m1[x].next
    <3>1. [m1[prev] EXCEPT !.next = next] \in Header
      BY <1>3, <2>3 DEF Header
    <3>2. m \in [Address -> Header]
      BY <1>3, <2>3, <3>1
    <3>3. ASSUME NEW x \in Address
          PROVE  /\ m[x].ptr = m1[x].ptr /\ m[x].size = m1[x].size /\ m[x].prev = m1[x].prev
                 /\ m[x].next = IF x = prev THEN next ELSE m1[x].next
      <4>1. m[x] = IF x = prev THEN [m1[x] EXCEPT !.next = next] ELSE m1[x]
        BY <1>3, <2>3
      <4>2. m1[x] \in Header
        BY <2>3
      <4> HIDE DEF m
      <4> QED
        BY <4>1, <4>2 DEF Header
    <3> QED
      BY <3>2, <3>3
  <2> HIDE DEF m, f
  <2>5. f = [base |-> h.base, head |-> h.head, tail |-> h.tail, top |-> h.top, mem |-> m]
    <3>1. k = [base |-> h.base, head |-> h.head, tail |-> h.tail, top |-> h.top, mem |-> m1]
      BY <1>1, HeapFields
    <3> HIDE DEF k
    <3> QED
      BY <2>1, <3>1
  <2>6. f \in Heap
    BY <1>1, <2>4, <2>5 DEF Heap
  <2>7. \A x \in L \ {a} :
          /\ m[x].ptr = h.mem[x].ptr /\ m[x].size = h.mem[x].size
          /\ m[x].next = IF x = prev THEN next ELSE h.mem[x].next
          /\ m[x].prev = IF x = next THEN prev ELSE h.mem[x].prev
    BY <1>3, <2>3, <2>4
  <2>8. Without(h, L, f, a, prev, next)
    BY <1>2, <1>4, <2>5, <2>7 DEF Without
  <2> QED
    BY <2>6, <2>8 DEF f, prev, next
<1>5. CASE next = NULL
  <2> DEFINE m == [h.mem EXCEPT ![prev].next = NULL]
             top == EndOf(h.mem[prev])
             k == [h EXCEPT !.tail = prev]
             l == [k EXCEPT !.top = top]
  <2>1. f = [h EXCEPT !.tail = prev, !.top = top, !.mem = m]
    BY <1>5 DEF FreeNode, prev, next
  <2>2. m \in [Address -> Header] /\
        \A x \in Address :
          /\ m[x].ptr = h.mem[x].ptr /\ m[x].size = h.mem[x].size /\ m[x].prev = h.mem[x].prev
          /\ m[x].next = IF x = prev THEN NULL ELSE h.mem[x].next
    <3>1. [h.mem[prev] EXCEPT !.next = NULL] \in Header
      BY <1>1, <1>3 DEF Header
    <3>2. m \in [Address -> Header]
      BY <1>1, <1>3, <3>1
    <3>3. ASSUME NEW x \in Address
          PROVE  /\ m[x].ptr = h.mem[x].ptr /\ m[x].size = h.mem[x].size
                 /\ m[x].prev = h.mem[x].prev
                 /\ m[x].next = IF x = prev THEN NULL ELSE h.mem[x].next
      <4>1. m[x] = IF x = prev THEN [h.mem[x] EXCEPT !.next = NULL] ELSE h.mem[x]
        BY <1>1, <1>3
      <4>2. h.mem[x] \in Header
        BY <1>1
      <4> HIDE DEF m
      <4> QED
        BY <4>1, <4>2 DEF Header
    <3> QED
      BY <3>2, <3>3
  <2> HIDE DEF m, f, top
  <2>3. f = [base |-> h.base, head |-> h.head, tail |-> prev, top |-> top, mem |-> m]
    <3>1. k = [base |-> h.base, head |-> h.head, tail |-> prev, top |-> h.top, mem |-> h.mem]
      BY <1>1, HeapFields
    <3>2. f = [l EXCEPT !.mem = m]
      BY <2>1
    <3> HIDE DEF k
    <3>3. l = [base |-> h.base, head |-> h.head, tail |-> prev, top |-> top, mem |-> h.mem]
      BY <3>1
    <3> HIDE DEF l
    <3> QED
      BY <3>2, <3>3
  <2>4. f \in Heap
    BY <1>1, <1>3, <2>2, <2>3 DEF Heap, top
  <2>5. Without(h, L, f, a, prev, next)
    <3>1. \A x \in L \ {a} :
            /\ f.mem[x].ptr = h.mem[x].ptr /\ f.mem[x].size = h.mem[x].size
            /\ f.mem[x].next = IF x = prev THEN next ELSE h.mem[x].next
            /\ f.mem[x].prev = IF x = next THEN prev ELSE h.mem[x].prev
      BY <1>3, <1>5, <2>2, <2>3
    <3> QED
      BY <1>2, <1>5, <2>3, <3>1 DEF Without, top
  <2> QED
    BY <2>4, <2>5 DEF f, prev, next
<1> QED
  BY <1>4, <1>5

\* free of a block that is held takes it out of the list.
LEMMA Frees ==
    ASSUME NEW h, NEW L, InList(h, L), NEW a \in L
    PROVE  /\ InList(Free(h, a + Alignment), L \ {a})
           /\ SameSizes(Free(h, a + Alignment), h, L \ {a})
<1> DEFINE ptr == a + Alignment
           g == Free(h, ptr)
           f == IF a = h.head THEN FreeHead(h) ELSE FreeNode(h, a)
           found == {x \in Listed(h) \ {h.head} : h.mem[x].ptr = ptr}
<1>1. /\ Listed(h) = L /\ h.head \in L /\ h.head # NULL /\ ptr # NULL /\ NULL \notin L
      /\ a \in Address
      /\ \A x \in L : x \in Nat /\ h.mem[x].ptr = x + Alignment
  <2>1. h.head \in L
    BY DEF InList
  <2>2. /\ h.head # NULL /\ NULL \notin L /\ a \in Address
        /\ \A x \in L : x \in Nat /\ h.mem[x].ptr = x + Alignment
    BY InListFacts
  <2>3. ptr # NULL
    BY <2>2, Units DEF NULL
  <2> QED
    BY <2>1, <2>2, <2>3, InListIsListed
<1>2. \A x \in L : h.mem[x].ptr = ptr <=> x = a
  BY <1>1, Units
<1>3. g = [f EXCEPT !.mem[a] = NoHeader]
  <2>1. CASE a = h.head
    BY <1>1, <1>2, <2>1 DEF Free
  <2>2. CASE a # h.head
    <3>1. found = {a}
      BY <1>1, <1>2, <2>2
    <3> DEFINE b == CHOOSE x \in found : TRUE
    <3>2. b = a
      BY <3>1
    <3>3. ptr # h.mem[h.head].ptr
      BY <1>1, <1>2, <2>2
    <3>4. g = [FreeNode(h, b) EXCEPT !.mem[b] = NoHeader]
      <4>1. found # {}
        BY <3>1
      <4> QED
        BY <1>1, <3>3, <4>1 DEF Free
    <3> HIDE DEF found, g, b
    <3>5. g = [FreeNode(h, a) EXCEPT !.mem[a] = NoHeader]
      BY <3>2, <3>4
    <3>6. f = FreeNode(h, a)
      BY <2>2
    <3> QED
      BY <3>5, <3>6
  <2> QED
    BY <2>1, <2>2
<1> HIDE DEF g
<1>4. f \in Heap /\ Without(h, L, f, a, h.mem[a].prev, h.mem[a].next)
  BY <1>1, HeadUnlinked, NodeUnlinked
<1> HIDE DEF f
<1>5. g \in Heap /\ Without(h, L, g, a, h.mem[a].prev, h.mem[a].next)
  BY <1>1, <1>3, <1>4, Forgets
<1>6. InList(g, L \ {a})
  BY <1>5, Remove
<1>7. SameSizes(g, h, L \ {a})
  BY <1>5 DEF Without, SameSizes
<1> QED
  BY <1>6, <1>7 DEF g

-----------------------------------------------------------------------------
(* The program                                                             *)

Blocks(H) == {HeaderOf(b) : b \in H}

\* The heap h holds the blocks H: their headers are the list, each has the room
\* that was asked for, and no two have the same address.
Good(h, H) ==
    /\ H \subseteq Held
    /\ InList(h, Blocks(H))
    /\ \A b \in H : b.size <= h.mem[HeaderOf(b)].size
    /\ \A b, c \in H : b.ptr = c.ptr => b = c

IInv == Good(heap, held)

LEMMA HeldFacts ==
    ASSUME NEW h, NEW H, Good(h, H), NEW b \in H
    PROVE  /\ b.ptr \in Nat /\ b.size \in Nat /\ b = [ptr |-> b.ptr, size |-> b.size]
           /\ HeaderOf(b) \in Blocks(H) /\ HeaderOf(b) \in Nat
           /\ b.ptr = HeaderOf(b) + Alignment
<1>1. b \in Held /\ HeaderOf(b) \in Blocks(H) /\ InList(h, Blocks(H))
  BY DEF Good, Blocks
<1>2. b.ptr \in Nat /\ b.size \in Nat /\ b = [ptr |-> b.ptr, size |-> b.size]
  <2>1. b.ptr \in Address /\ b.size \in Sizes /\ b = [ptr |-> b.ptr, size |-> b.size]
    BY <1>1 DEF Held
  <2>2. Address \subseteq Nat /\ Sizes \subseteq Nat
    BY RequestAssumption, Units DEF Address
  <2> QED
    BY <2>1, <2>2
<1>3. HeaderOf(b) \in Nat
  BY <1>1, InListFacts
<1> QED
  BY <1>1, <1>2, <1>3, Units DEF HeaderOf

LEMMA GoodTake ==
    ASSUME NEW h, NEW H, Good(h, H), NEW n \in Sizes, NEW got, Served(got, h, Blocks(H), n)
    PROVE  /\ got.ptr = NULL => Good(got.heap, H)
           /\ got.ptr # NULL => /\ Good(got.heap, H \cup {[ptr |-> got.ptr, size |-> n]})
                                /\ [ptr |-> got.ptr, size |-> n] \notin H
<1> DEFINE L == Blocks(H)
           g == got.heap
<1>1. /\ H \subseteq Held /\ InList(h, L)
      /\ \A b \in H : b.size <= h.mem[HeaderOf(b)].size
      /\ \A b, c \in H : b.ptr = c.ptr => b = c
      /\ \A b \in H : HeaderOf(b) \in L
  BY DEF Good, Blocks
<1>2. n \in Nat
  BY RequestAssumption
<1>3. ASSUME NEW a \in Address, got.ptr = a + Alignment, a \notin L, a # NULL,
             InList(g, L \cup {a}), g.mem[a].size >= n, SameSizes(g, h, L)
      PROVE  /\ got.ptr # NULL
             /\ Good(g, H \cup {[ptr |-> got.ptr, size |-> n]})
             /\ [ptr |-> got.ptr, size |-> n] \notin H
  <2> DEFINE new == [ptr |-> got.ptr, size |-> n]
  <2>1. got.ptr # NULL /\ got.ptr \in Address /\ a \in Nat
    <3>1. a \in Nat /\ a + Alignment + g.mem[a].size <= g.top /\ g.top <= EndOfHeap
          /\ g.top \in Nat /\ g.mem[a].size \in Nat
      BY <1>3, InListFacts
    <3> QED
      BY <1>3, <3>1, Units DEF Address, NULL
  <2>2. new \in Held /\ HeaderOf(new) = a /\ new.ptr = got.ptr /\ new.size = n
    <3>1. new.ptr = got.ptr /\ new.size = n
      OBVIOUS
    <3>2. HeaderOf(new) = a
      BY <1>3, <2>1, <3>1, Units DEF HeaderOf
    <3> QED
      BY <2>1, <3>1, <3>2 DEF Held
  <2> HIDE DEF new
  <2>3. Blocks(H \cup {new}) = L \cup {a}
    BY <2>2 DEF Blocks
  <2>4. \A b \in H : b.ptr # new.ptr
    <3> TAKE b \in H
    <3>1. HeaderOf(b) \in L
      BY <1>1
    <3> QED
      BY <1>3, <2>2, <3>1 DEF HeaderOf
  <2>5. \A b \in H \cup {new} : b.size <= g.mem[HeaderOf(b)].size
    <3>1. ASSUME NEW b \in H PROVE b.size <= g.mem[HeaderOf(b)].size
      BY <1>1, <1>3 DEF SameSizes
    <3>2. new.size <= g.mem[HeaderOf(new)].size
      <4>1. g.mem[a].size \in Nat
        BY <1>3, InListFacts
      <4> QED
        BY <1>2, <1>3, <2>2, <4>1
    <3> QED
      BY <3>1, <3>2
  <2>6. \A b, c \in H \cup {new} : b.ptr = c.ptr => b = c
    BY <1>1, <2>4
  <2>7. Good(g, H \cup {new})
    <3>1. H \cup {new} \subseteq Held
      BY <1>1, <2>2
    <3> HIDE DEF g
    <3> QED
      BY <1>3, <2>3, <2>5, <2>6, <3>1 DEF Good
  <2> QED
    BY <2>1, <2>4, <2>7 DEF new
<1>4. ASSUME got.ptr = NULL, InList(g, L), SameSizes(g, h, L) PROVE Good(g, H)
  <2>1. \A b \in H : b.size <= g.mem[HeaderOf(b)].size
    BY <1>1, <1>4 DEF SameSizes
  <2> HIDE DEF g
  <2> QED
    BY <1>1, <1>4, <2>1 DEF Good
<1>5. \/ got.ptr = NULL /\ InList(g, L) /\ SameSizes(g, h, L)
      \/ \E a \in Address : /\ got.ptr = a + Alignment /\ a \notin L /\ a # NULL
                            /\ InList(g, L \cup {a})
                            /\ g.mem[a].size >= n /\ SameSizes(g, h, L)
  BY DEF Served
<1> QED
  BY <1>3, <1>4, <1>5

LEMMA GoodFree ==
    ASSUME NEW h, NEW H, Good(h, H), NEW b \in H
    PROVE  Good(Free(h, b.ptr), H \ {b})
<1> DEFINE L == Blocks(H)
           a == HeaderOf(b)
           g == Free(h, b.ptr)
<1>1. /\ H \subseteq Held /\ InList(h, L)
      /\ \A c \in H : c.size <= h.mem[HeaderOf(c)].size
      /\ \A c, d \in H : c.ptr = d.ptr => c = d
  BY DEF Good
<1>2. a \in L /\ b.ptr = a + Alignment
  BY HeldFacts
<1>3. InList(g, L \ {a}) /\ SameSizes(g, h, L \ {a})
  BY <1>1, <1>2, Frees
<1>4. \A c \in H : HeaderOf(c) = a <=> c = b
  BY <1>1, HeldFacts
<1>5. Blocks(H \ {b}) = L \ {a}
  BY <1>4 DEF Blocks
<1> HIDE DEF g
<1>6. \A c \in H \ {b} : c.size <= g.mem[HeaderOf(c)].size
  <2> TAKE c \in H \ {b}
  <2>1. HeaderOf(c) \in L \ {a}
    BY <1>4 DEF Blocks
  <2> QED
    BY <1>1, <1>3, <2>1 DEF SameSizes
<1>7. Good(g, H \ {b})
  BY <1>1, <1>3, <1>5, <1>6 DEF Good
<1> QED
  BY <1>7 DEF g

\* memalign is never asked for more than the default alignment.
Small == \A align \in Aligns : align <= Alignment

LEMMA InitInv == Init => IInv
<1> SUFFICES ASSUME Init PROVE IInv
  OBVIOUS
<1>1. held = {} /\ Blocks(held) = {}
  BY DEF Init, Blocks
<1>2. heap \in Heap
  <2>1. NULL \in Address /\ End \in Address /\ NoHeader \in Header
    BY Units DEF NULL, Address, NoHeader, Header
  <2> QED
    BY <2>1 DEF Init, Heap
<1>3. heap.base = NULL /\ heap.top = End /\ heap.head = NULL
  BY DEF Init
<1>4. InList(heap, {})
  BY <1>2, <1>3 DEF InList
<1> QED
  BY <1>1, <1>4 DEF IInv, Good

LEMMA MallocKeeps ==
    ASSUME IInv, NEW n \in Sizes, Take(Malloc(heap, n), n)
    PROVE  IInv'
<1> DEFINE got == Malloc(heap, n)
<1>1. Good(heap, held) /\ InList(heap, Blocks(held)) /\ n \in Nat
  BY RequestAssumption DEF IInv, Good
<1>2. Served(got, heap, Blocks(held), n)
  BY <1>1, MallocServes
<1> HIDE DEF got
<1>3. /\ heap' = got.heap
      /\ held' = IF got.ptr = NULL THEN held ELSE held \cup {[ptr |-> got.ptr, size |-> n]}
  BY DEF Take, got
<1>4. Good(heap', held')
  BY <1>1, <1>2, <1>3, GoodTake
<1> QED
  BY <1>4 DEF IInv

LEMMA ReallocKeeps ==
    ASSUME IInv, NEW b \in held, NEW n \in Sizes, CallRealloc(b, n)
    PROVE  IInv'
<1> DEFINE got == Malloc(heap, n)
           new == [ptr |-> got.ptr, size |-> n]
<1>1. Good(heap, held) /\ InList(heap, Blocks(held)) /\ n \in Nat
  BY RequestAssumption DEF IInv, Good
<1>2. Served(got, heap, Blocks(held), n)
  BY <1>1, MallocServes
<1>3. IF got.ptr = NULL THEN heap' = got.heap /\ UNCHANGED held
      ELSE heap' = Free(got.heap, b.ptr) /\ held' = (held \ {b}) \cup {new}
  BY DEF CallRealloc
<1> HIDE DEF got
<1>4. CASE got.ptr = NULL
  <2>1. Good(got.heap, held)
    BY <1>1, <1>2, <1>4, GoodTake
  <2>2. heap' = got.heap /\ held' = held
    BY <1>3, <1>4
  <2> QED
    BY <2>1, <2>2 DEF IInv
<1>5. CASE got.ptr # NULL
  <2>1. Good(got.heap, held \cup {new}) /\ new \notin held
    BY <1>1, <1>2, <1>5, GoodTake
  <2> HIDE DEF new
  <2>2. Good(Free(got.heap, b.ptr), (held \cup {new}) \ {b})
    BY <2>1, GoodFree
  <2>3. held' = (held \cup {new}) \ {b}
    BY <1>3, <1>5, <2>1
  <2> QED
    BY <1>3, <1>5, <2>2, <2>3 DEF IInv
<1> QED
  BY <1>4, <1>5

LEMMA StepInv ==
    ASSUME Small, IInv, [Next]_vars
    PROVE  IInv'
<1>1. ASSUME NEW n \in Sizes, CallMalloc(n) PROVE IInv'
  BY <1>1, MallocKeeps DEF CallMalloc
<1>2. ASSUME NEW n \in Sizes, NEW align \in Aligns, CallMemalign(align, n) PROVE IInv'
  <2>1. align <= Alignment
    BY DEF Small
  <2>2. Take(Malloc(heap, n), n)
    BY <1>2, <2>1 DEF CallMemalign, Memalign
  <2> QED
    BY <2>2, MallocKeeps
<1>3. ASSUME NEW b \in held, CallFree(b) PROVE IInv'
  <2>1. Good(Free(heap, b.ptr), held \ {b})
    BY GoodFree DEF IInv
  <2> QED
    BY <1>3, <2>1 DEF CallFree, IInv
<1>4. ASSUME NEW b \in held, NEW n \in Sizes, CallRealloc(b, n) PROVE IInv'
  BY <1>4, ReallocKeeps
<1>5. CASE UNCHANGED vars
  <2>1. heap' = heap /\ held' = held
    BY <1>5 DEF vars
  <2> QED
    BY <2>1 DEF IInv
<1> QED
  BY <1>1, <1>2, <1>3, <1>4, <1>5 DEF Next

LEMMA HeapInv == Small => (Spec => []IInv)
<1>1. ASSUME Small PROVE IInv /\ [Next]_vars => IInv'
  BY <1>1, StepInv
<1>2. Init => IInv
  BY InitInv
<1>3. ASSUME Small PROVE Spec => []IInv
  <2>1. IInv /\ [Next]_vars => IInv'
    BY <1>1, <1>3
  <2> QED
    BY <1>2, <2>1, PTL DEF Spec
<1> QED
  BY <1>3

-----------------------------------------------------------------------------
(* The theorems                                                            *)

\* Every address the allocator keeps is one of the heap, whatever it is asked.
THEOREM TypeCorrect == Small => (Spec => []TypeOK)
<1>1. IInv => TypeOK
  BY DEF IInv, Good, InList, TypeOK
<1>2. ASSUME Small PROVE Spec => []TypeOK
  <2>1. Spec => []IInv
    BY <1>2, HeapInv
  <2> QED
    BY <1>1, <2>1, PTL
<1> QED
  BY <1>2

\* Two blocks of the list, in the order of addresses.
LEMMA Apart ==
    ASSUME IInv, NEW b \in held, NEW c \in held, b.ptr < c.ptr
    PROVE  b.ptr + b.size <= HeaderOf(c)
<1> DEFINE a == HeaderOf(b)
           d == HeaderOf(c)
<1>1. /\ a \in Nat /\ d \in Nat /\ a \in Blocks(held) /\ d \in Blocks(held)
      /\ b.ptr = a + Alignment /\ c.ptr = d + Alignment /\ b.size \in Nat
  BY HeldFacts DEF IInv
<1>2. a < d
  BY <1>1, Units
<1>3. EndOf(heap.mem[a]) <= d
  BY <1>1, <1>2 DEF IInv, Good, InList
<1>4. /\ EndOf(heap.mem[a]) = a + Alignment + heap.mem[a].size
      /\ heap.mem[a].size \in Nat /\ b.size <= heap.mem[a].size
  BY <1>1, InListFacts DEF IInv, Good
<1> HIDE DEF a, d
<1>5. b.ptr + b.size <= d
  BY <1>1, <1>3, <1>4, Units
<1> QED
  BY <1>5 DEF d

\* malloc, realloc and free never give out overlapping blocks, nor one that
\* leaves the heap.
THEOREM HeapSafe == Small => (Spec => []BlocksDisjoint)
<1>1. ASSUME IInv, NEW b \in held
      PROVE  heap.base <= HeaderOf(b) /\ b.ptr + b.size <= heap.top
  <2> DEFINE a == HeaderOf(b)
  <2>1. /\ a \in Nat /\ a \in Blocks(held) /\ b.ptr = a + Alignment /\ b.size \in Nat
    BY <1>1, HeldFacts DEF IInv
  <2>2. /\ a + Alignment + heap.mem[a].size <= heap.top /\ heap.top \in Nat
        /\ heap.mem[a].size \in Nat
    BY <1>1, <2>1, InListFacts DEF IInv, Good
  <2>3. heap.base <= a /\ b.size <= heap.mem[a].size
    BY <1>1, <2>1 DEF IInv, Good, InList
  <2> QED
    BY <2>1, <2>2, <2>3, Units
<1>2. ASSUME IInv, NEW b \in held, NEW c \in held, b # c
      PROVE  b.ptr + b.size <= HeaderOf(c) \/ c.ptr + c.size <= HeaderOf(b)
  <2>1. b.ptr \in Nat /\ c.ptr \in Nat /\ b.ptr # c.ptr
    <3>1. b.ptr # c.ptr
      BY <1>2 DEF IInv, Good
    <3> QED
      BY <1>2, <3>1, HeldFacts DEF IInv
  <2>2. b.ptr < c.ptr \/ c.ptr < b.ptr
    BY <2>1
  <2> QED
    BY <1>2, <2>2, Apart
<1>3. IInv => BlocksDisjoint
  BY <1>1, <1>2 DEF BlocksDisjoint
<1>4. ASSUME Small PROVE Spec => []BlocksDisjoint
  <2>1. Spec => []IInv
    BY <1>4, HeapInv
  <2> QED
    BY <1>3, <2>1, PTL
<1> QED
  BY <1>4

\* The list holds what the program holds, in order, and its ends are right.
THEOREM ListSound == Small => (Spec => []BlocksInOrder)
<1>1. ASSUME IInv PROVE BlocksInOrder
  <2> DEFINE L == Blocks(held)
  <2>1. InList(heap, L)
    BY <1>1 DEF IInv, Good
  <2>2. Listed(heap) = L /\ L = {HeaderOf(b) : b \in held}
    BY <2>1, InListIsListed DEF Blocks
  <2>3. held # {} => L # {}
    BY DEF Blocks
  <2> HIDE DEF L
  <2>4. \A a \in L : heap.mem[a].next # NULL =>
          a < heap.mem[a].next /\ heap.mem[heap.mem[a].next].prev = a
    <3>1. \A a \in L : heap.mem[a].next # NULL => a < heap.mem[a].next
      BY <2>1 DEF InList
    <3> QED
      BY <2>1, <3>1, Neighbours
  <2>5. L # {} => /\ heap.mem[heap.head].prev = NULL
                  /\ heap.tail \in L /\ heap.mem[heap.tail].next = NULL
    <3>1. L # {} => heap.head \in L /\ heap.tail \in L
      BY <2>1 DEF InList
    <3> QED
      BY <2>1, <3>1, Neighbours
  <2> QED
    BY <2>2, <2>3, <2>4, <2>5 DEF BlocksInOrder
<1>2. ASSUME Small PROVE Spec => []BlocksInOrder
  <2>1. Spec => []IInv
    BY <1>2, HeapInv
  <2> QED
    BY <1>1, <2>1, PTL
<1> QED
  BY <1>2

\* free gives back everything above the last block.
THEOREM BreakIsTight == Small => (Spec => []TopIsTight)
<1>1. ASSUME IInv, held # {} PROVE heap.top = EndOf(heap.mem[heap.tail])
  <2>1. Blocks(held) # {}
    BY <1>1 DEF Blocks
  <2> QED
    BY <1>1, <2>1 DEF IInv, Good, InList
<1>2. IInv => TopIsTight
  BY <1>1 DEF TopIsTight
<1>3. ASSUME Small PROVE Spec => []TopIsTight
  <2>1. Spec => []IInv
    BY <1>3, HeapInv
  <2> QED
    BY <1>2, <2>1, PTL
<1> QED
  BY <1>3

\* A malloc that fails has found no gap, and no room above the last block.
LEMMA Refused ==
    ASSUME NEW h0, NEW L, InList(h0, L), NEW n \in Nat, Malloc(h0, n).ptr = NULL
    PROVE  /\ WithBase(h0).top + BlockSize(n) > EndOfHeap
           /\ \A a \in L : ~FitsAfter(h0, a, BlockSize(n))
<1> DEFINE size == BlockSize(n)
           h == WithBase(h0)
           fit == HeapMemFit(h, size)
           got == Malloc(h0, n)
<1>1. size \in Nat
  BY BlockSizes
<1>2. InList(h, L) /\ h.mem = h0.mem
  BY Based
<1>3. /\ h.top \in Nat /\ h.base \in Nat /\ EndOfHeap \in Nat /\ Alignment \in Nat
      /\ Alignment > 0 /\ (h.head = NULL <=> L = {})
      /\ \A a \in L : EndOf(h.mem[a]) \in Nat
  <2>1. h.head = NULL <=> L = {}
    BY <1>2 DEF InList
  <2> QED
    BY <1>2, <2>1, InListFacts, Units
<1>5. ASSUME NEW a \in Nat, NEW g PROVE got # Allocated(g, a)
  <2>1. a + Alignment # NULL
    BY <1>3 DEF NULL
  <2> QED
    BY <2>1 DEF Allocated
<1> HIDE DEF got, h, size, fit
<1>4. \/ fit \in L
      \/ fit = NULL /\ \A a \in L : ~FitsAfter(h, a, size)
  <2>1. \/ HeapMemFit(h, size) \in L /\ FitsAfter(h, HeapMemFit(h, size), size)
        \/ HeapMemFit(h, size) = NULL /\ \A a \in L : ~FitsAfter(h, a, size)
    BY <1>1, <1>2, Fit
  <2> QED
    BY <2>1 DEF fit
<1>6. got = IF h.head = NULL THEN
              IF ~CanGrow(h, size) THEN Failed(h)
              ELSE Allocated([Linked(h, h.top, size, NULL, NULL) EXCEPT
                                !.head = h.top, !.tail = h.top, !.top = @ + size], h.top)
            ELSE IF h.base + size < h.head THEN
              Allocated([Linked(h, h.base, size, NULL, h.head) EXCEPT !.head = h.base],
                        h.base)
            ELSE IF fit # NULL THEN
              Allocated(Linked(h, EndOf(h.mem[fit]), size, fit, h.mem[fit].next),
                        EndOf(h.mem[fit]))
            ELSE IF ~CanGrow(h, size) THEN Failed(h)
            ELSE Allocated([Linked(h, h.top, size, h.tail, NULL) EXCEPT
                              !.tail = h.top, !.top = @ + size], h.top)
  BY DEF got, Malloc, h, size, fit
<1>7. ~CanGrow(h, size) /\ (L = {} \/ fit = NULL)
  <2>1. CASE h.head = NULL
    BY <1>3, <1>5, <1>6, <2>1
  <2>2. CASE h.head # NULL
    <3>1. fit = NULL
      BY <1>3, <1>4, <1>5, <1>6, <2>2
    <3> QED
      BY <1>3, <1>5, <1>6, <2>2, <3>1
  <2> QED
    BY <2>1, <2>2
<1>8. h.top + size > EndOfHeap
  BY <1>1, <1>3, <1>7 DEF CanGrow
<1>9. \A a \in L : ~FitsAfter(h0, a, size)
  <2>1. \A a \in L : ~FitsAfter(h, a, size)
    BY <1>3, <1>4, <1>7, Based, InListFacts
  <2> QED
    BY <1>2, <2>1 DEF FitsAfter
<1> QED
  BY <1>8, <1>9 DEF h, size

\* The gap above a block that is held ends at the next header of the list.
LEMMA GapIsBetween ==
    ASSUME IInv, NEW b \in held, NEW g \in Gaps(b)
    PROVE  /\ heap.mem[HeaderOf(b)].next # NULL
           /\ g = heap.mem[HeaderOf(b)].next - EndOf(heap.mem[HeaderOf(b)])
<1> DEFINE a == HeaderOf(b)
           next == heap.mem[a].next
<1>1. PICK c \in held : /\ g = HeaderOf(c) - EndOf(heap.mem[a]) /\ c.ptr > b.ptr
                        /\ \A e \in held : ~(b.ptr < e.ptr /\ e.ptr < c.ptr)
  BY DEF Gaps
<1>2. /\ a \in Blocks(held) /\ HeaderOf(c) \in Blocks(held)
      /\ \A e \in held : HeaderOf(e) \in Nat /\ e.ptr = HeaderOf(e) + Alignment
  BY HeldFacts DEF IInv
<1>3. a < HeaderOf(c) /\ Alignment \in Nat
  BY <1>1, <1>2, Units
<1>4. next # NULL /\ next <= HeaderOf(c) /\ next \in Blocks(held) /\ a < next
  <2>1. InList(heap, Blocks(held))
    BY DEF IInv, Good
  <2> QED
    BY <1>2, <1>3, <2>1 DEF InList
<1>5. PICK e \in held : next = HeaderOf(e)
  BY <1>4 DEF Blocks
<1> HIDE DEF a, next
<1>6. next = HeaderOf(c)
  <2>1. ~(b.ptr < e.ptr /\ e.ptr < c.ptr)
    BY <1>1
  <2>2. b.ptr < e.ptr
    BY <1>2, <1>3, <1>4, <1>5 DEF a
  <2>3. ~(e.ptr < c.ptr)
    BY <2>1, <2>2
  <2> QED
    BY <1>2, <1>3, <1>4, <1>5, <2>3
<1> QED
  BY <1>1, <1>4, <1>6 DEF a, next

LEMMA FirstBreak ==
    ASSUME NEW h \in Heap, h.head = NULL, h.base = NULL
    PROVE  WithBase(h).top = h.top + (h.top % Alignment)
<1> DEFINE t == h.top + (h.top % Alignment)
<1>1. WithBase(h) = [base |-> t, head |-> h.head, tail |-> h.tail, top |-> t, mem |-> h.mem]
  BY DEF WithBase, Heap
<1> HIDE DEF t
<1>2. WithBase(h).top = t
  BY <1>1
<1> QED
  BY <1>2 DEF t

\* A request that fits between two blocks or above the last one is served.  The
\* end of the program has to be aligned: if it is not, the first malloc leaves
\* out more than the test of the break says.
THEOREM ServedWhenPossible ==
    Small /\ End % Alignment = 0 => (Spec => []RefusedOnlyWhenFull)
<1>1. ASSUME IInv, End % Alignment = 0, NEW n \in Sizes, Malloc(heap, n).ptr = NULL
      PROVE  /\ heap.top + BlockSize(n) > EndOfHeap
             /\ \A b \in held : \A g \in Gaps(b) : g < BlockSize(n)
  <2> DEFINE L == Blocks(held)
  <2>1. InList(heap, L) /\ n \in Nat
    BY <1>1, RequestAssumption DEF IInv, Good
  <2>2. /\ WithBase(heap).top + BlockSize(n) > EndOfHeap
        /\ \A a \in L : ~FitsAfter(heap, a, BlockSize(n))
    BY <1>1, <2>1, Refused
  <2>3. WithBase(heap).top = heap.top
    <3>1. CASE heap.head = NULL /\ heap.base = NULL
      <4>1. heap.top = End /\ heap \in Heap
        BY <2>1, <3>1 DEF InList
      <4>2. WithBase(heap).top = heap.top + (heap.top % Alignment)
        BY <3>1, <4>1, FirstBreak
      <4> QED
        BY <1>1, <4>1, <4>2, Units
    <3>2. CASE ~(heap.head = NULL /\ heap.base = NULL)
      BY <3>2 DEF WithBase
    <3> QED
      BY <3>1, <3>2
  <2>4. ASSUME NEW b \in held, NEW g \in Gaps(b) PROVE g < BlockSize(n)
    <3> DEFINE a == HeaderOf(b)
    <3>1. a \in L
      BY DEF Blocks
    <3>2. heap.mem[a].next # NULL /\ g = heap.mem[a].next - EndOf(heap.mem[a])
      BY <1>1, GapIsBetween
    <3>3. ~(heap.mem[a].next - EndOf(heap.mem[a]) >= BlockSize(n))
      BY <2>2, <3>1, <3>2 DEF FitsAfter
    <3>4. heap.mem[a].next \in Nat /\ EndOf(heap.mem[a]) \in Nat /\ BlockSize(n) \in Nat
      BY <2>1, <3>1, InListFacts, BlockSizes, Units
    <3> QED
      BY <3>2, <3>3, <3>4
  <2> QED
    BY <2>2, <2>3, <2>4
<1>2. ASSUME IInv, End % Alignment = 0 PROVE RefusedOnlyWhenFull
  BY <1>1, <1>2 DEF RefusedOnlyWhenFull
<1>3. ASSUME Small, End % Alignment = 0 PROVE Spec => []RefusedOnlyWhenFull
  <2>1. Spec => []IInv
    BY <1>3, HeapInv
  <2>2. IInv => RefusedOnlyWhenFull
    BY <1>2, <1>3
  <2> QED
    BY <2>1, <2>2, PTL
<1> QED
  BY <1>3
=============================================================================
