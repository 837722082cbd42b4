------------------------------- MODULE EeHeap -------------------------------
(***************************************************************************)
(* The heap of the EE program: malloc, calloc, realloc, memalign and free  *)
(* (src/src/ps2/alloc.c) over ps2_sbrk (src/src/ps2/sbrk.c).               *)
(*                                                                         *)
(* Blocks form a doubly linked list whose headers live in the heap itself. *)
(* The unit of addresses and sizes is a fraction of the 16 bytes that are  *)
(* both DEFAULT_ALIGNMENT and the size of a header: Alignment units.  The  *)
(* contents of blocks are not modelled, headers are, at their address: a   *)
(* stale pointer reads and writes what the real one does.  Only the main   *)
(* thread allocates, so every call is one step.  Requests are far from     *)
(* 2^32 bytes: sums do not wrap.                                           *)
(***************************************************************************)
EXTENDS Integers, FiniteSets, FiniteSetsExt, Functions

CONSTANTS
    Alignment,     \* DEFAULT_ALIGNMENT and sizeof(heap_mem_header_t)
    End,           \* &_end, where the heap starts
    EndOfHeap,     \* EndOfHeap(), where it must stop
    Sizes,         \* the sizes the program asks for
    Aligns         \* the alignments it passes to memalign

ASSUME AlignmentAssumption == Alignment \in Nat \ {0}
ASSUME HeapAssumption ==
    End \in Nat \ {0} /\ EndOfHeap \in Nat /\ End + Alignment <= EndOfHeap
ASSUME RequestAssumption == Sizes \subseteq Nat /\ Aligns \subseteq Nat \ {0}

NULL == 0
Address == 0 .. EndOfHeap
Header == [ptr : Address, size : Int, prev : Address, next : Address]

VARIABLES
    heap,    \* the allocator's state, see Heap
    held     \* the blocks the program holds: address and size it asked for

vars == <<heap, held>>

Heap == [base : Address,              \* __alloc_heap_base
         head : Address,              \* __alloc_heap_head
         tail : Address,              \* __alloc_heap_tail
         top  : Address,              \* _heap_ptr of ps2_sbrk
         mem  : [Address -> Header]]  \* the header found at an address

Held == [ptr : Address, size : Sizes]

TypeOK == heap \in Heap /\ held \subseteq Held

NoHeader == [ptr |-> NULL, size |-> 0, prev |-> NULL, next |-> NULL]

Init ==
    /\ heap = [base |-> NULL, head |-> NULL, tail |-> NULL, top |-> End,
               mem |-> [a \in Address |-> NoHeader]]
    /\ held = {}

-----------------------------------------------------------------------------
(* The list                                                                *)

AlignTo(x, a) == ((x + a - 1) \div a) * a

\* The n-th block of the list, NULL past its end.
Node(h) ==
    LET node[n \in 0 .. EndOfHeap \div Alignment] ==
          IF n = 0 THEN h.head
          ELSE IF node[n - 1] = NULL THEN NULL ELSE h.mem[node[n - 1]].next
    IN  node

Listed(h) == Range(Node(h)) \ {NULL}

EndOf(hdr) == hdr.ptr + hdr.size

\* Free units after a block.  The code subtracts as u32: a successor that lies
\* before the end of the block leaves a huge gap.
FitsAfter(h, a, size) ==
    /\ h.mem[a].next # NULL
    /\ \/ h.mem[a].next - EndOf(h.mem[a]) >= size
       \/ h.mem[a].next < EndOf(h.mem[a])

\* Mutant: the test of the gap forgets the header of the new block.
HeapMemFitNoHeader(h, size) ==
    LET node == Node(h)
        fits == {n \in DOMAIN node :
                   node[n] # NULL /\ FitsAfter(h, node[n], size - Alignment)}
    IN  IF fits = {} THEN NULL ELSE node[Min(fits)]

\* Mutant: a gap of exactly the size asked for is passed over.
HeapMemFitStrict(h, size) ==
    LET node == Node(h)
        fits == {n \in DOMAIN node :
                   node[n] # NULL /\ FitsAfter(h, node[n], size + 1)}
    IN  IF fits = {} THEN NULL ELSE node[Min(fits)]

\* _heap_mem_fit: the first block of the list with room after it.
HeapMemFit(h, size) ==
    LET node == Node(h)
        fits == {n \in DOMAIN node : node[n] # NULL /\ FitsAfter(h, node[n], size)}
    IN  IF fits = {} THEN NULL ELSE node[Min(fits)]

-----------------------------------------------------------------------------
(* ps2_sbrk and malloc                                                     *)

CanGrowUnchecked(h, size) == h.top <= EndOfHeap      \* mutant: the size is left out
CanGrow(h, size) == h.top + size <= EndOfHeap

\* The first call sets the bottom of the heap: ps2_sbrk moves the break by what
\* _end exceeds the alignment, and the base is where it ends up.
WithBase(h) ==
    IF h.head = NULL /\ h.base = NULL
    THEN [h EXCEPT !.top = @ + (@ % Alignment), !.base = h.top + (h.top % Alignment)]
    ELSE h

\* A block is written at address a, between the blocks prev and next.
Linked(h, a, size, prev, next) ==
    [h EXCEPT !.mem = [x \in Address |->
        CASE x = a -> [ptr |-> a + Alignment, size |-> size - Alignment,
                       prev |-> prev, next |-> next]
          [] x = prev /\ x # NULL -> [h.mem[x] EXCEPT !.next = a]
          [] x = next /\ x # NULL -> [h.mem[x] EXCEPT !.prev = a]
          [] OTHER -> h.mem[x]]]

Failed(h) == [heap |-> h, ptr |-> NULL]
Allocated(h, a) == [heap |-> h, ptr |-> a + Alignment]

BlockSize(n) == AlignTo(n + Alignment, Alignment)

\* malloc: the heap after it, and the pointer it returns.
Malloc(h0, n) ==
    LET size == BlockSize(n)
        h    == WithBase(h0)
        fit  == HeapMemFit(h, size)
    IN  IF h.head = NULL THEN          \* the first block comes from ps2_sbrk
          IF ~CanGrow(h, size) THEN Failed(h)
          ELSE Allocated([Linked(h, h.top, size, NULL, NULL) EXCEPT
                            !.head = h.top, !.tail = h.top, !.top = @ + size],
                         h.top)
        ELSE IF h.base + size < h.head THEN     \* room at the bottom
          Allocated([Linked(h, h.base, size, NULL, h.head) EXCEPT !.head = h.base],
                    h.base)
        ELSE IF fit # NULL THEN                 \* room between two blocks
          LET a == EndOf(h.mem[fit])
          IN  Allocated(Linked(h, a, size, fit, h.mem[fit].next), a)
        ELSE IF ~CanGrow(h, size) THEN Failed(h)
        ELSE Allocated([Linked(h, h.top, size, h.tail, NULL) EXCEPT
                          !.tail = h.top, !.top = @ + size],
                       h.top)

-----------------------------------------------------------------------------
(* memalign and free                                                       *)

\* The header of a block moves from a to b, and its neighbours follow.
Moved(h, a, b) ==
    LET old == h.mem[a]
    IN  [h EXCEPT !.mem = [x \in Address |->
          CASE x = b -> [old EXCEPT !.ptr = b + Alignment]
            [] x = old.prev /\ x # NULL -> [h.mem[x] EXCEPT !.next = b]
            [] x = old.next /\ x # NULL -> [h.mem[x] EXCEPT !.prev = b]
            [] OTHER -> h.mem[x]]]

Memalign(h, align, n) ==
    LET got == Malloc(h, n + align)
        cur == got.ptr - Alignment
        cut == [got.heap EXCEPT !.mem[cur].size = @ - align]
        ptr == AlignTo(got.ptr, align)
    IN  IF align <= Alignment THEN Malloc(h, n)
        ELSE IF got.ptr = NULL THEN got
        ELSE IF got.ptr % align = 0 THEN [heap |-> cut, ptr |-> got.ptr]
        ELSE Allocated(Moved(cut, cur, ptr - Alignment), ptr - Alignment)

\* The first block of the list is freed.  The break moves only when it was the
\* last block too.
FreeHead(h) ==
    LET hdr  == h.mem[h.head]
        next == hdr.next
    IN  IF next = NULL
        THEN [h EXCEPT !.head = NULL, !.tail = NULL,
                       !.top = @ - (hdr.size + (hdr.ptr - h.head))]
        ELSE [h EXCEPT !.head = next, !.mem[next].prev = NULL]

\* Mutant: the last block is unlinked, and the tail stays.
FreeNodeKeepsTail(h, a) ==
    LET prev == h.mem[a].prev
        next == h.mem[a].next
    IN  IF next # NULL
        THEN [h EXCEPT !.mem[next].prev = prev, !.mem[prev].next = next]
        ELSE [h EXCEPT !.top = EndOf(h.mem[prev]), !.mem[prev].next = NULL]

\* Mutant: the last block gives back only its own size.
FreeNodeOwnSize(h, a) ==
    LET prev == h.mem[a].prev
        next == h.mem[a].next
    IN  IF next # NULL
        THEN [h EXCEPT !.mem[next].prev = prev, !.mem[prev].next = next]
        ELSE [h EXCEPT !.tail = prev, !.top = @ - (Alignment + h.mem[a].size),
                       !.mem[prev].next = NULL]

\* Another block: the last one gives everything above its predecessor back.
FreeNode(h, a) ==
    LET prev == h.mem[a].prev
        next == h.mem[a].next
    IN  IF next # NULL
        THEN [h EXCEPT !.mem[next].prev = prev, !.mem[prev].next = next]
        ELSE [h EXCEPT !.tail = prev, !.top = EndOf(h.mem[prev]),
                       !.mem[prev].next = NULL]

\* free: nothing happens for NULL, an empty heap, or a pointer not in the list.
\* What a freed header held is forgotten: nothing refers to it any more.
Free(h, ptr) ==
    LET found == {a \in Listed(h) \ {h.head} : h.mem[a].ptr = ptr}
        forget(g, a) == [g EXCEPT !.mem[a] = NoHeader]
    IN  IF ptr = NULL \/ h.head = NULL THEN h
        ELSE IF ptr = h.mem[h.head].ptr THEN forget(FreeHead(h), h.head)
        ELSE IF found = {} THEN h
        ELSE LET a == CHOOSE a \in found : TRUE
             IN  forget(FreeNode(h, a), a)

-----------------------------------------------------------------------------
(* The program                                                             *)

\* A call that allocates: on success the program holds one more block.
Take(result, n) ==
    /\ heap' = result.heap
    /\ held' = IF result.ptr = NULL THEN held
               ELSE held \cup {[ptr |-> result.ptr, size |-> n]}

CallMalloc(n) == Take(Malloc(heap, n), n)        \* and calloc, new, new[]

CallMemalign(align, n) == Take(Memalign(heap, align, n), n)

CallFree(b) ==
    /\ heap' = Free(heap, b.ptr)
    /\ held' = held \ {b}

\* realloc to a larger size: a new block, a copy, and the old block freed.
\* When there is no room the program keeps the old block.
CallRealloc(b, n) ==
    LET got == Malloc(heap, n)
    IN  /\ n > heap.mem[b.ptr - Alignment].size
        /\ IF got.ptr = NULL THEN heap' = got.heap /\ UNCHANGED held
           ELSE /\ heap' = Free(got.heap, b.ptr)
                /\ held' = (held \ {b}) \cup {[ptr |-> got.ptr, size |-> n]}

Next ==
    \/ \E n \in Sizes : CallMalloc(n)
    \/ \E n \in Sizes, align \in Aligns : CallMemalign(align, n)
    \/ \E b \in held : CallFree(b)
    \/ \E b \in held, n \in Sizes : CallRealloc(b, n)

Spec == Init /\ [][Next]_vars

-----------------------------------------------------------------------------
(* Properties                                                              *)

HeaderOf(b) == b.ptr - Alignment

\* What the program holds lies in the heap, header and contents, and nothing it
\* holds overlaps the contents or the header of another block.
BlocksDisjoint ==
    /\ \A b \in held : heap.base <= HeaderOf(b) /\ b.ptr + b.size <= heap.top
    /\ \A b, c \in held : b # c =>
         \/ b.ptr + b.size <= HeaderOf(c)
         \/ c.ptr + c.size <= HeaderOf(b)

\* The list holds exactly what the program holds, in the order of addresses:
\* free finds every block, and _heap_mem_fit sees every gap.
BlocksInOrder ==
    /\ Listed(heap) = {HeaderOf(b) : b \in held}
    /\ \A a \in Listed(heap) : heap.mem[a].next # NULL =>
         /\ a < heap.mem[a].next
         /\ heap.mem[heap.mem[a].next].prev = a
    /\ held # {} =>
         /\ heap.mem[heap.head].prev = NULL
         /\ heap.tail \in Listed(heap) /\ heap.mem[heap.tail].next = NULL

\* The break is at the end of the last block: free leaves nothing above it.
TopIsTight == held # {} => heap.top = EndOf(heap.mem[heap.tail])

\* Room between two blocks, or above the last one, is never refused: malloc
\* fails only if the request fits nowhere (an exact fit below the first block
\* is not used).
Gaps(b) == {HeaderOf(c) - EndOf(heap.mem[HeaderOf(b)]) :
              c \in {d \in held : d.ptr > b.ptr
                       /\ \A e \in held : ~(b.ptr < e.ptr /\ e.ptr < d.ptr)}}
RefusedOnlyWhenFull ==
    \A n \in Sizes : Malloc(heap, n).ptr = NULL =>
        /\ heap.top + BlockSize(n) > EndOfHeap
        /\ \A b \in held : \A g \in Gaps(b) : g < BlockSize(n)

\* alloc.c: the break is moved back "or else we'll end up with an unallocatable
\* block of heap": once everything is freed, all of the heap is free again.
FreedHeapIsWhole == held = {} /\ heap.base # NULL => heap.top = heap.base
=============================================================================
