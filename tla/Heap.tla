-------------------------------- MODULE Heap --------------------------------
(***************************************************************************)
(* The kernel heap of RootOS (source/kernel/heap.c): one static arena cut  *)
(* into blocks, each a header followed by its payload, chained in both     *)
(* directions.  Allocation is first fit with splitting; release joins the  *)
(* block with its free neighbours.                                         *)
(*                                                                         *)
(* An address is an offset into heap_memory.  `hdr' holds the headers      *)
(* whose magic word is HEAP_MAGIC: an address outside its domain carries   *)
(* no valid header.  Payload bytes are not modelled, only who owns them.   *)
(* The walk along the chain is one step per loop iteration; everything     *)
(* else in an operation is one step (the kernel is single threaded and no  *)
(* interrupt handler touches the heap).                                    *)
(***************************************************************************)
EXTENDS Integers, FiniteSets

CONSTANTS
    HEAP_SIZE,      \* ROOT_HEAP_SIZE, the bytes of the arena
    HDR,            \* sizeof(HeapBlock)
    ALIGN,          \* HEAP_ALIGNMENT
    UMAX,           \* (usize)-1
    Requests,       \* the sizes callers ask for
    Counts          \* the element counts callers pass to root_calloc

ASSUME SizesAssumption ==
    /\ HEAP_SIZE \in Nat /\ HDR \in Nat \ {0} /\ ALIGN \in Nat \ {0}
    /\ UMAX \in Nat
    /\ HDR < HEAP_SIZE
    /\ HEAP_SIZE + HDR + ALIGN < UMAX
ASSUME CallersAssumption ==
    /\ Requests \subseteq 0 .. UMAX
    /\ Counts \subseteq 0 .. UMAX

NULL == -1

VARIABLES
    heap_initialized,
    hdr,        \* valid headers: address -> [size, free, previous, next]
    pc,         \* "idle", or "scan" inside the loop of root_malloc
    block,      \* the loop variable of root_malloc
    want,       \* the aligned size root_malloc looks for
    asked,      \* the size the caller asked for
    moving,     \* the pointer root_realloc is moving, NULL in a plain call
    held,       \* ghost: pointer a caller owns -> bytes it may use
    freed       \* ghost: pointers given back and not handed out again

vars == <<heap_initialized, hdr, pc, block, want, asked, moving, held, freed>>
scanVars == <<pc, block, want, asked, moving>>

Pointer == 0 .. HEAP_SIZE
Header == [size : Nat, free : BOOLEAN,
           previous : Nat \cup {NULL}, next : Nat \cup {NULL}]

-----------------------------------------------------------------------------
(* Address arithmetic.                                                     *)

Payload(b) == b + HDR
End(h, b) == b + HDR + h[b].size

\* Mutant: rounds down.
AlignDown(v) == IF v > UMAX - (ALIGN - 1) THEN 0 ELSE v - (v % ALIGN)

\* Round up to the alignment; 0 when the sum would not fit a usize.
heap_align(v) ==
    IF v > UMAX - (ALIGN - 1)
      THEN 0
      ELSE (v + (ALIGN - 1)) - ((v + (ALIGN - 1)) % ALIGN)

heap_block_valid(h, b) == b >= 0 /\ b < HEAP_SIZE /\ b \in DOMAIN h

heap_owns(p) == heap_initialized /\ p > 0 /\ p < HEAP_SIZE

-----------------------------------------------------------------------------
(* The two list operations.                                                *)

\* Cut `requested' bytes off a block when the rest can hold another one.
heap_split_block(h, b, requested) ==
    IF \/ ~heap_block_valid(h, b)
       \/ h[b].size <= requested + HDR + ALIGN
      THEN h
      ELSE LET n  == Payload(b) + requested
               nx == h[b].next
               new == [size |-> h[b].size - requested - HDR, free |-> TRUE,
                       previous |-> b, next |-> nx]
           IN  [a \in DOMAIN h \cup {n} |->
                  IF a = n THEN new
                  ELSE IF a = b THEN [h[b] EXCEPT !.next = n, !.size = requested]
                  ELSE IF a = nx THEN [h[a] EXCEPT !.previous = n]
                  ELSE h[a]]

\* Mutant: the block after the absorbed one keeps pointing back to it.
MergeKeepsBackLink(h, b) ==
    IF \/ ~heap_block_valid(h, b)
       \/ h[b].next = NULL
       \/ ~heap_block_valid(h, h[b].next)
       \/ ~h[h[b].next].free
      THEN h
      ELSE LET n == h[b].next
           IN  [a \in DOMAIN h \ {n} |->
                  IF a = b THEN [h[b] EXCEPT !.size = @ + HDR + h[n].size,
                                             !.next = h[n].next]
                  ELSE h[a]]

\* Mutant: the next block is absorbed whether it is free or not.
MergeWithoutLook(h, b) ==
    IF \/ ~heap_block_valid(h, b)
       \/ h[b].next = NULL
       \/ ~heap_block_valid(h, h[b].next)
      THEN h
      ELSE LET n  == h[b].next
               nx == h[n].next
           IN  [a \in DOMAIN h \ {n} |->
                  IF a = b THEN [h[b] EXCEPT !.size = @ + HDR + h[n].size,
                                             !.next = nx]
                  ELSE IF a = nx THEN [h[a] EXCEPT !.previous = b]
                  ELSE h[a]]

\* Absorb the next block when it is free; its magic word is erased.
heap_merge_next(h, b) ==
    IF \/ ~heap_block_valid(h, b)
       \/ h[b].next = NULL
       \/ ~heap_block_valid(h, h[b].next)
       \/ ~h[h[b].next].free
      THEN h
      ELSE LET n  == h[b].next
               nx == h[n].next
           IN  [a \in DOMAIN h \ {n} |->
                  IF a = b THEN [h[b] EXCEPT !.size = @ + HDR + h[n].size,
                                             !.next = nx]
                  ELSE IF a = nx THEN [h[a] EXCEPT !.previous = b]
                  ELSE h[a]]

\* What root_free does to the headers, early returns included.
FreeBlock(h, p) ==
    LET b == p - HDR
    IN  IF ~heap_owns(p) \/ ~heap_block_valid(h, b) \/ h[b].free
          THEN h
          ELSE LET h1 == heap_merge_next([h EXCEPT ![b].free = TRUE], b)
               IN  IF h1[b].previous # NULL /\ h1[h1[b].previous].free
                     THEN heap_merge_next(h1, h1[b].previous)
                     ELSE h1

Fits(h, b, size) == h[b].free /\ h[b].size >= size

-----------------------------------------------------------------------------
Init ==
    /\ heap_initialized = FALSE
    /\ hdr = [a \in {} |-> [size |-> 0, free |-> TRUE,
                            previous |-> NULL, next |-> NULL]]
    /\ pc = "idle" /\ block = NULL /\ want = 0 /\ asked = 0 /\ moving = NULL
    /\ held = [p \in {} |-> 0]
    /\ freed = {}

\* kernel_main calls heap_init once, before anything allocates.
heap_init ==
    /\ ~heap_initialized
    /\ hdr' = [a \in {0} |-> [size |-> HEAP_SIZE - HDR, free |-> TRUE,
                              previous |-> NULL, next |-> NULL]]
    /\ heap_initialized' = TRUE
    /\ UNCHANGED <<scanVars, held, freed>>

\* Entering the loop of root_malloc on behalf of a caller (from = NULL) or of
\* root_realloc moving `from'.  With no heap, size 0, or a size that cannot be
\* aligned the call returns NULL at once and nothing changes.
StartMalloc(size, from) ==
    /\ pc = "idle"
    /\ heap_initialized /\ size # 0 /\ heap_align(size) # 0
    /\ pc' = "scan"
    /\ block' = 0
    /\ want' = heap_align(size)
    /\ asked' = size
    /\ moving' = from
    /\ UNCHANGED <<heap_initialized, hdr, held, freed>>

root_malloc(size) == StartMalloc(size, NULL)

root_calloc(count, size) ==
    /\ count # 0 /\ size # 0
    /\ ~(size > UMAX \div count)
    /\ root_malloc(count * size)

\* Mutant: the walk stays where it is.
AdvanceNowhere ==
    /\ pc = "scan"
    /\ block # NULL
    /\ ~Fits(hdr, block, want)
    /\ block' = block
    /\ UNCHANGED <<heap_initialized, hdr, pc, want, asked, moving, held, freed>>

\* An iteration of the loop that moves on.
MallocAdvance ==
    /\ pc = "scan"
    /\ block # NULL
    /\ ~Fits(hdr, block, want)
    /\ block' = hdr[block].next
    /\ UNCHANGED <<heap_initialized, hdr, pc, want, asked, moving, held, freed>>

\* Take pointer p away from its caller.
Disown(own, p) == [q \in DOMAIN own \ {p} |-> own[q]]
Own(own, p, n) == [q \in DOMAIN own \cup {p} |-> IF q = p THEN n ELSE own[q]]

\* The iteration that finds a block.  For root_realloc the old contents are
\* then copied and the old block released before the call returns.
MallocTake ==
    /\ pc = "scan"
    /\ block # NULL
    /\ Fits(hdr, block, want)
    /\ LET h1 == [heap_split_block(hdr, block, want) EXCEPT ![block].free = FALSE]
           p  == Payload(block)
       IN  IF moving = NULL
             THEN /\ hdr' = h1
                  /\ held' = Own(held, p, asked)
                  /\ freed' = freed \ {p}
             ELSE /\ hdr' = FreeBlock(h1, moving)
                  /\ held' = Disown(Own(held, p, asked), moving)
                  /\ freed' = (freed \ {p}) \cup {moving}
    /\ pc' = "idle" /\ block' = NULL /\ moving' = NULL /\ want' = 0 /\ asked' = 0
    /\ UNCHANGED heap_initialized

\* The loop ran off the chain: NULL is returned, a pointer being moved stays
\* with its caller.
MallocNull ==
    /\ pc = "scan"
    /\ block = NULL
    /\ pc' = "idle" /\ moving' = NULL /\ want' = 0 /\ asked' = 0
    /\ UNCHANGED <<heap_initialized, hdr, block, held, freed>>

\* A stale pointer may be passed again as long as its header bytes have not
\* become somebody's payload (then their value is the owner's business).
StaleButIntact(p) ==
    /\ p \in freed
    /\ \A q \in DOMAIN held :
          p <= q \/ p - HDR >= q + hdr[q - HDR].size

root_free(p) ==
    /\ pc = "idle"
    /\ p \in DOMAIN held \/ StaleButIntact(p)
    /\ hdr' = FreeBlock(hdr, p)
    /\ held' = Disown(held, p)
    /\ freed' = freed \cup {p}
    /\ UNCHANGED <<heap_initialized, scanVars>>

\* root_realloc on an owned pointer: it fits already, ...
ReallocInPlace(p, n) ==
    /\ heap_align(n) <= hdr[p - HDR].size
    /\ hdr' = heap_split_block(hdr, p - HDR, heap_align(n))
    /\ held' = Own(held, p, n)
    /\ UNCHANGED <<heap_initialized, scanVars, freed>>

\* Growing over the next block is tried before moving.
CanGrow(h, b, size) ==
    /\ h[b].next # NULL
    /\ h[h[b].next].free
    /\ h[b].size + HDR + h[h[b].next].size >= size

\* ... or the next block is free and large enough, ...
ReallocGrow(p, n) ==
    /\ heap_align(n) > hdr[p - HDR].size
    /\ CanGrow(hdr, p - HDR, heap_align(n))
    /\ LET h1 == heap_merge_next(hdr, p - HDR)
           h2 == heap_split_block(h1, p - HDR, heap_align(n))
       IN  hdr' = [h2 EXCEPT ![p - HDR].free = FALSE]
    /\ held' = Own(held, p, n)
    /\ UNCHANGED <<heap_initialized, scanVars, freed>>

\* ... or it has to move: root_malloc, copy, root_free.
ReallocMove(p, n) ==
    /\ heap_align(n) > hdr[p - HDR].size
    /\ ~CanGrow(hdr, p - HDR, heap_align(n))
    /\ StartMalloc(n, p)

\* Size 0 frees; NULL allocates; a size that cannot be aligned returns NULL.
root_realloc(p, n) ==
    \/ p = NULL /\ root_malloc(n)
    \/ p \in DOMAIN held /\ n = 0 /\ root_free(p)
    \/ /\ pc = "idle"
       /\ p \in DOMAIN held
       /\ n # 0 /\ heap_align(n) # 0
       /\ ReallocInPlace(p, n) \/ ReallocGrow(p, n) \/ ReallocMove(p, n)

Next ==
    \/ heap_init
    \/ MallocAdvance \/ MallocTake \/ MallocNull
    \/ \E n \in Requests : root_malloc(n)
    \/ \E c \in Counts, n \in Requests : root_calloc(c, n)
    \/ \E p \in DOMAIN held \cup freed : root_free(p)
    \/ \E p \in DOMAIN held \cup {NULL}, n \in Requests : root_realloc(p, n)

Spec == Init /\ [][Next]_vars

\* The loop body runs again until the loop ends: nothing preempts it.
FairSpec == Spec /\ WF_vars(MallocAdvance \/ MallocTake \/ MallocNull)

-----------------------------------------------------------------------------
(* Correctness.                                                             *)

\* Every variable has its type; in particular no header's size went below 0.
TypeOK ==
    /\ heap_initialized \in BOOLEAN
    /\ DOMAIN hdr \subseteq Pointer
    /\ hdr \in [DOMAIN hdr -> Header]
    /\ pc \in {"idle", "scan"}
    /\ block \in Pointer \cup {NULL}
    /\ want \in 0 .. UMAX /\ asked \in 0 .. UMAX
    /\ moving \in Pointer \cup {NULL}
    /\ DOMAIN held \subseteq Pointer
    /\ held \in [DOMAIN held -> Nat]
    /\ freed \subseteq Pointer

\* The parts of Tiled: a chain from address 0 ...
Linked(h) ==
    /\ 0 \in DOMAIN h
    /\ \A b \in DOMAIN h :
          /\ h[b].next = NULL => End(h, b) = HEAP_SIZE
          /\ h[b].next # NULL => /\ h[b].next = End(h, b)
                               /\ h[b].next \in DOMAIN h
                               /\ h[h[b].next].previous = b
          /\ h[b].previous = NULL <=> b = 0
          /\ b # 0 => /\ h[b].previous \in DOMAIN h
                     /\ h[h[b].previous].next = b
\* ... and no two blocks overlap.
Apart(h) == \A a, b \in DOMAIN h : a < b => End(h, a) <= b

\* The valid headers tile the arena: from heap_head to its last byte each
\* block starts where the one before it ends, the two chains are each other's
\* inverse, and there is no valid header outside the chain.  heap_split_block,
\* heap_merge_next, root_free and root_realloc all rewrite those links.
Tiled == heap_initialized => Linked(hdr) /\ Apart(hdr)

\* The memory handed to callers is inside the arena and disjoint: no byte a
\* caller may use belongs to another caller or to any block header, after any
\* history of root_malloc, root_calloc, root_realloc and root_free, double
\* frees included.
NoSharedBytes ==
    \A p \in DOMAIN held :
      /\ p + held[p] <= HEAP_SIZE
      /\ \A q \in DOMAIN held : p < q => p + held[p] <= q - HDR
      /\ \A b \in DOMAIN hdr : b >= p => p + held[p] <= b

\* A block is marked used exactly when some caller owns it: nothing leaks, and
\* freeing a stale pointer releases nobody else's block.
UsedIffHeld ==
    {Payload(b) : b \in {a \in DOMAIN hdr : ~hdr[a].free}} = DOMAIN held

\* root_malloc is first fit: no block the walk has passed could have served
\* the request, so NULL means that no block of the heap can.
FirstFit ==
    pc = "scan" =>
      \A b \in DOMAIN hdr :
        (block = NULL \/ b < block) => ~(hdr[b].free /\ hdr[b].size >= asked
                                          /\ hdr[b].size >= want)

\* Every call of root_malloc returns: the walk along the chain ends.
MallocReturns == pc = "scan" ~> pc = "idle"
=============================================================================
