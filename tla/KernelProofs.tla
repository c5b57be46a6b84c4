---------------------------- MODULE KernelProofs ----------------------------
(***************************************************************************)
(* Proofs about three parts of the kernel.                                 *)
(*                                                                         *)
(* Heap: for every arena size, header size, alignment and set of requests. *)
(*                                                                         *)
(* Process: for every size of the table, every largest pid not below it    *)
(* and every set of exit codes.                                            *)
(*                                                                         *)
(* Timer: for every width of the halves, every frequency and every choice  *)
(* of the order in which the halves are read.                              *)
(***************************************************************************)
EXTENDS Heap, Process, Timer, FiniteSetTheorems, SequenceTheorems, TLAPS

-----------------------------------------------------------------------------
(* The heap.                                                               *)

HdrType(h) == DOMAIN h \subseteq Pointer /\ h \in [DOMAIN h -> Header]

\* Every block has a payload.
Sized(h) == \A a \in DOMAIN h : h[a].size > 0

\* A table of headers that tile the arena.
WellFormed(h) == HdrType(h) /\ Linked(h) /\ Apart(h) /\ Sized(h)

\* From h to g only block b changed hands or size: every other used block of
\* either table is the same used block in the other one.
OthersKept(h, g, b) ==
    /\ \A a \in DOMAIN h : a # b /\ ~h[a].free =>
          a \in DOMAIN g /\ ~g[a].free /\ g[a].size = h[a].size
    /\ \A a \in DOMAIN g : a # b /\ ~g[a].free =>
          a \in DOMAIN h /\ ~h[a].free

-----------------------------------------------------------------------------
(* Alignment.                                                              *)

\* heap_align returns 0 (refusal) or a size that holds the request.
LEMMA AlignFact ==
    ASSUME NEW v \in 0 .. UMAX
    PROVE  /\ heap_align(v) \in 0 .. UMAX
           /\ heap_align(v) # 0 => heap_align(v) >= v
<1>1. CASE v > UMAX - (ALIGN - 1)
  BY <1>1, SizesAssumption DEF heap_align
<1>2. CASE ~(v > UMAX - (ALIGN - 1))
  <2> DEFINE m == (v + (ALIGN - 1)) % ALIGN
  <2>1. m \in 0 .. (ALIGN - 1)
    BY SizesAssumption
  <2>2. heap_align(v) = (v + (ALIGN - 1)) - m
    BY <1>2 DEF heap_align
  <2> HIDE DEF m
  <2> QED BY <1>2, <2>1, <2>2, SizesAssumption
<1> QED BY <1>1, <1>2

-----------------------------------------------------------------------------
(* The list operations.                                                    *)

\* Splitting keeps the table well formed and disturbs no used block.
LEMMA SplitFact ==
    ASSUME NEW h, WellFormed(h), NEW b \in DOMAIN h, NEW r \in Nat \ {0}
    PROVE  LET g == heap_split_block(h, b, r)
           IN  /\ WellFormed(g)
               /\ OthersKept(h, g, b)
               /\ DOMAIN h \subseteq DOMAIN g
               /\ g[b].free = h[b].free
               /\ h[b].size >= r => g[b].size >= r
<1> DEFINE g == heap_split_block(h, b, r)
           n == b + HDR + r
           nx == h[b].next
<1> USE SizesAssumption
<1>0. /\ b \in Nat /\ b < HEAP_SIZE /\ h[b].size \in Nat
      /\ DOMAIN h \subseteq Nat
      /\ h[b] \in Header
      /\ \A a \in DOMAIN h : h[a] \in Header
  <2>1. \A a \in DOMAIN h : h[a] \in Header /\ a \in Pointer
    BY DEF WellFormed, HdrType
  <2>2. DOMAIN h \subseteq Nat /\ b \in Nat /\ h[b].size \in Nat
    BY <2>1 DEF Header, Pointer
  <2>3. End(h, b) <= HEAP_SIZE
    BY <2>1 DEF WellFormed, Linked, Pointer
  <2> QED BY <2>1, <2>2, <2>3 DEF End
<1>1. CASE h[b].size <= r + HDR + ALIGN
  <2>1. g = h BY <1>1 DEF heap_split_block
  <2> QED BY <2>1 DEF OthersKept
<1>2. CASE ~(h[b].size <= r + HDR + ALIGN)
  <2>1. heap_block_valid(h, b) BY <1>0 DEF heap_block_valid
  <2>2. g = [a \in DOMAIN h \cup {n} |->
               IF a = n THEN [size |-> h[b].size - r - HDR, free |-> TRUE,
                              previous |-> b, next |-> nx]
               ELSE IF a = b THEN [h[b] EXCEPT !.next = n, !.size = r]
               ELSE IF a = nx THEN [h[a] EXCEPT !.previous = n]
               ELSE h[a]]
    BY <1>2, <2>1 DEF heap_split_block, Payload
  <2>3. /\ n \in Nat /\ b < n /\ n < End(h, b) /\ End(h, b) <= HEAP_SIZE
        /\ n \in Pointer
    BY <1>0, <1>2 DEF WellFormed, Linked, HdrType, End, Pointer
  <2>4. n \notin DOMAIN h
    BY <1>0, <2>3 DEF WellFormed, Apart, End
  <2>5. /\ DOMAIN g = DOMAIN h \cup {n}
        /\ g[n] = [size |-> h[b].size - r - HDR, free |-> TRUE,
                   previous |-> b, next |-> nx]
        /\ g[b] = [h[b] EXCEPT !.next = n, !.size = r]
        /\ nx # NULL => g[nx] = [h[nx] EXCEPT !.previous = n]
        /\ \A a \in DOMAIN h \ {b, nx} : g[a] = h[a]
    BY <1>0, <2>2, <2>3, <2>4 DEF WellFormed, Linked, End, NULL
  <2> HIDE DEF g, n
  <2>6. \A a \in DOMAIN g : g[a] \in Header
    <3>1. nx \in Nat \cup {NULL} /\ n \in Nat /\ h[b].size - r - HDR \in Nat
      BY <1>0, <1>2, <2>3 DEF Header
    <3>2. g[n] \in Header BY <1>0, <2>5, <3>1 DEF Header
    <3>3. g[b] \in Header BY <1>0, <2>5, <3>1 DEF Header
    <3>4. nx # NULL => g[nx] \in Header
      <4>1. nx # NULL => h[nx] \in Header BY <1>0 DEF WellFormed, Linked
      <4> QED BY <4>1, <2>5, <3>1 DEF Header
    <3>5. \A a \in DOMAIN h \ {b, nx} : g[a] \in Header BY <1>0, <2>5
    <3>6. NULL \notin DOMAIN h BY <1>0 DEF NULL
    <3> QED BY <2>5, <3>2, <3>3, <3>4, <3>5, <3>6
  <2>7. HdrType(g)
    BY <2>2, <2>3, <2>5, <2>6 DEF HdrType, WellFormed, g
  <2>8. /\ g[n].size = h[b].size - r - HDR /\ g[n].previous = b /\ g[n].next = nx
        /\ g[n].free = TRUE
        /\ g[b].size = r /\ g[b].next = n /\ g[b].previous = h[b].previous
        /\ g[b].free = h[b].free
        /\ \A a \in DOMAIN h \ {b} : g[a].size = h[a].size /\ g[a].next = h[a].next
                                    /\ g[a].free = h[a].free
        /\ nx # NULL => nx \in DOMAIN h /\ nx # b /\ nx # n /\ g[nx].previous = n
                        /\ nx = End(h, b)
        /\ \A a \in DOMAIN h \ {nx} : g[a].previous = h[a].previous
    <3>1. nx # NULL => nx \in DOMAIN h /\ nx = End(h, b) /\ nx # b /\ nx # n
      BY <1>0, <2>3, <2>4 DEF WellFormed, Linked, End
    <3>2. nx # NULL => h[nx] \in Header BY <1>0, <3>1
    <3>3. nx # NULL => /\ g[nx].previous = n /\ g[nx].size = h[nx].size
                       /\ g[nx].next = h[nx].next /\ g[nx].free = h[nx].free
      BY <2>5, <3>1, <3>2 DEF Header
    <3>4. /\ g[b].size = r /\ g[b].next = n /\ g[b].previous = h[b].previous
          /\ g[b].free = h[b].free
      BY <1>0, <2>5 DEF Header
    <3>5. NULL \notin DOMAIN h BY <1>0 DEF NULL
    <3>6. /\ g[n].size = h[b].size - r - HDR /\ g[n].previous = b /\ g[n].next = nx
          /\ g[n].free = TRUE
      BY <2>5
    <3>7. \A a \in DOMAIN h \ {b, nx} : g[a] = h[a] BY <2>5
    <3>8. \A a \in DOMAIN h \ {b} : g[a].size = h[a].size /\ g[a].next = h[a].next
                                    /\ g[a].free = h[a].free
      BY <3>3, <3>5, <3>7
    <3>9. \A a \in DOMAIN h \ {nx} : g[a].previous = h[a].previous
      BY <3>4, <3>7
    <3> QED BY <3>1, <3>3, <3>4, <3>6, <3>8, <3>9
  <2>9. /\ End(g, n) = End(h, b) /\ End(g, b) = n
        /\ \A a \in DOMAIN h \ {b} : End(g, a) = End(h, a)
    BY <1>0, <2>8, <2>3 DEF End, n
  <2>10. Apart(g)
    <3> SUFFICES ASSUME NEW x \in DOMAIN g, NEW y \in DOMAIN g, x < y
                 PROVE  End(g, x) <= y
      BY DEF Apart
    <3>0. /\ x \in Nat /\ y \in Nat
          /\ \A a \in DOMAIN h : End(h, a) \in Nat /\ a < End(h, a)
      BY <1>0, <2>3, <2>5 DEF End, Header
    <3>1. CASE x = n
      <4>1. y \in DOMAIN h /\ b < y BY <3>1, <3>0, <2>5, <2>3, <1>0
      <4> QED BY <4>1, <3>1, <2>9 DEF WellFormed, Apart
    <3>2. CASE x = b
      <4>1. CASE y = n BY <4>1, <3>2, <2>9, <2>3
      <4>2. CASE y # n
        <5>1. End(h, b) <= y BY <4>2, <3>2, <2>5 DEF WellFormed, Apart
        <5> QED BY <5>1, <3>2, <2>9, <2>3, <3>0
      <4> QED BY <4>1, <4>2
    <3>3. CASE x # b /\ x # n
      <4>0. x \in DOMAIN h /\ End(g, x) = End(h, x) BY <3>3, <2>5, <2>9
      <4>1. CASE y = n
        <5>1. x < b
          BY <4>0, <4>1, <3>3, <3>0, <2>3, <1>0 DEF WellFormed, Apart
        <5> QED BY <5>1, <4>0, <4>1, <2>3, <3>0, <1>0 DEF WellFormed, Apart
      <4>2. CASE y # n BY <4>0, <4>2, <2>5 DEF WellFormed, Apart
      <4> QED BY <4>1, <4>2
    <3> QED BY <3>1, <3>2, <3>3
  <2>11. Linked(g)
    <3>1. 0 \in DOMAIN g BY <2>5 DEF WellFormed, Linked
    <3>2. ASSUME NEW a \in DOMAIN g PROVE
             /\ g[a].next = NULL => End(g, a) = HEAP_SIZE
             /\ g[a].next # NULL => /\ g[a].next = End(g, a)
                                    /\ g[a].next \in DOMAIN g
                                    /\ g[g[a].next].previous = a
      <4>1. CASE a = n
        BY <4>1, <2>5, <2>8, <2>9 DEF WellFormed, Linked
      <4>2. CASE a = b
        BY <4>2, <2>3, <2>5, <2>8, <2>9 DEF NULL
      <4>3. CASE a # b /\ a # n
        <5>1. a \in DOMAIN h /\ End(g, a) = End(h, a) /\ g[a].next = h[a].next
          BY <4>3, <2>5, <2>8, <2>9
        <5>2. h[a].next # NULL => h[a].next # nx
          BY <4>3, <5>1, <2>8 DEF WellFormed, Linked
        <5> QED BY <5>1, <5>2, <2>5, <2>8 DEF WellFormed, Linked
      <4> QED BY <4>1, <4>2, <4>3
    <3>3. ASSUME NEW a \in DOMAIN g PROVE
             /\ g[a].previous = NULL <=> a = 0
             /\ a # 0 => /\ g[a].previous \in DOMAIN g
                         /\ g[g[a].previous].next = a
      <4>1. CASE a = n
        <5>1. b # NULL /\ n # 0 BY <1>0, <2>3 DEF NULL
        <5>2. g[a].previous = b /\ b \in DOMAIN g /\ g[b].next = n
          BY <4>1, <2>5, <2>8
        <5> QED BY <4>1, <5>1, <5>2
      <4>2. CASE a # n /\ a = nx
        BY <4>2, <1>0, <2>3, <2>4, <2>5, <2>8 DEF NULL, End
      <4>3. CASE a # n /\ a # nx
        <5>1. a \in DOMAIN h /\ g[a].previous = h[a].previous
          BY <4>3, <2>5, <2>8
        <5>2. a # 0 => h[a].previous # b
          BY <4>3, <5>1 DEF WellFormed, Linked
        <5> QED BY <5>1, <5>2, <2>5, <2>8 DEF WellFormed, Linked
      <4> QED BY <4>1, <4>2, <4>3
    <3> QED BY <3>1, <3>2, <3>3 DEF Linked
  <2>12. OthersKept(h, g, b)
    BY <2>4, <2>5, <2>8 DEF OthersKept
  <2>13. Sized(g)
    <3>1. \A a \in DOMAIN h : h[a].size > 0 BY DEF WellFormed, Sized
    <3>2. g[n].size > 0 /\ g[b].size > 0 BY <1>0, <1>2, <2>8
    <3>3. DOMAIN g = DOMAIN h \cup {n} BY <2>5
    <3> QED BY <2>8, <3>1, <3>2, <3>3 DEF Sized
  <2> QED BY <1>0, <2>5, <2>7, <2>8, <2>10, <2>11, <2>12, <2>13 DEF WellFormed, g
<1> QED BY <1>1, <1>2

\* Every block ends inside the arena.
LEMMA BlockFact ==
    ASSUME NEW h, WellFormed(h), NEW b \in DOMAIN h
    PROVE  /\ b \in Nat /\ h[b].size \in Nat \ {0} /\ h[b].free \in BOOLEAN
           /\ h[b] \in Header
           /\ End(h, b) <= HEAP_SIZE /\ b + HDR < HEAP_SIZE
           /\ b + HDR \in Pointer
<1> USE SizesAssumption
<1>1. \A a \in DOMAIN h : h[a] \in Header /\ a \in Pointer
  BY DEF WellFormed, HdrType
<1>2. b \in Nat /\ h[b].size \in Nat \ {0} /\ h[b].free \in BOOLEAN
  BY <1>1 DEF Header, Pointer, WellFormed, Sized
<1>3. End(h, b) <= HEAP_SIZE
  BY <1>1 DEF WellFormed, Linked, Pointer
<1> QED BY <1>1, <1>2, <1>3 DEF End, Pointer

\* Marking a block used or free changes no link.
LEMMA MarkFact ==
    ASSUME NEW h, WellFormed(h), NEW b \in DOMAIN h, NEW v \in BOOLEAN
    PROVE  LET g == [h EXCEPT ![b].free = v]
           IN  /\ WellFormed(g)
               /\ OthersKept(h, g, b)
               /\ DOMAIN g = DOMAIN h
               /\ g[b].free = v /\ g[b].size = h[b].size
               /\ g[b].previous = h[b].previous /\ g[b].next = h[b].next
               /\ \A a \in DOMAIN h \ {b} : g[a] = h[a]
<1> DEFINE g == [h EXCEPT ![b].free = v]
<1>0. h[b] \in Header BY BlockFact
<1>1. /\ DOMAIN g = DOMAIN h
      /\ g[b] = [h[b] EXCEPT !.free = v]
      /\ \A a \in DOMAIN h \ {b} : g[a] = h[a]
      /\ g = [a \in DOMAIN h |-> g[a]]
  BY DEF WellFormed, HdrType
<1> HIDE DEF g
<1>2. /\ g[b] \in Header /\ g[b].free = v /\ g[b].size = h[b].size
      /\ g[b].previous = h[b].previous /\ g[b].next = h[b].next
  BY <1>0, <1>1 DEF Header
<1>3. \A a \in DOMAIN h : /\ g[a].size = h[a].size /\ g[a].next = h[a].next
                          /\ g[a].previous = h[a].previous
                          /\ End(g, a) = End(h, a)
  BY <1>1, <1>2 DEF End
<1>4. HdrType(g)
  BY <1>1, <1>2 DEF WellFormed, HdrType
<1>5. Linked(g)
  BY <1>1, <1>3 DEF WellFormed, Linked
<1>6. Apart(g) /\ Sized(g)
  BY <1>1, <1>3 DEF WellFormed, Apart, Sized
<1>7. OthersKept(h, g, b)
  BY <1>1 DEF OthersKept
<1> QED BY <1>1, <1>2, <1>4, <1>5, <1>6, <1>7 DEF WellFormed, g

\* Merging with the next block keeps the table well formed; the only block
\* that disappears is a free one.
LEMMA MergeFact ==
    ASSUME NEW h, WellFormed(h), NEW b \in DOMAIN h
    PROVE  LET g == heap_merge_next(h, b)
           IN  /\ WellFormed(g)
               /\ OthersKept(h, g, b)
               /\ b \in DOMAIN g /\ DOMAIN g \subseteq DOMAIN h
               /\ g[b].free = h[b].free /\ g[b].previous = h[b].previous
               /\ g[b].size >= h[b].size
               /\ \A a \in DOMAIN g \ {b} : g[a].free = h[a].free
               /\ h[b].next # NULL /\ h[h[b].next].free =>
                     g[b].size = h[b].size + HDR + h[h[b].next].size
<1> DEFINE g == heap_merge_next(h, b)
           n == h[b].next
           nx == h[n].next
<1> USE SizesAssumption
<1>0. /\ b \in Nat /\ h[b].size \in Nat \ {0} /\ h[b] \in Header
      /\ b < HEAP_SIZE
      /\ \A a \in DOMAIN h : h[a] \in Header /\ a \in Nat /\ a < HEAP_SIZE
                             /\ h[a].size \in Nat \ {0}
  <2>1. \A a \in DOMAIN h : /\ a \in Nat /\ h[a].size \in Nat \ {0}
                            /\ h[a] \in Header /\ a + HDR < HEAP_SIZE
    BY BlockFact
  <2> QED BY <2>1
<1>1. CASE n = NULL \/ ~heap_block_valid(h, n) \/ ~h[n].free
  <2>1. g = h BY <1>1 DEF heap_merge_next
  <2>2. n # NULL => heap_block_valid(h, n)
    BY <1>0 DEF heap_block_valid, WellFormed, Linked
  <2> QED BY <1>0, <1>1, <2>1, <2>2 DEF OthersKept
<1>2. CASE n # NULL /\ heap_block_valid(h, n) /\ h[n].free
  <2>1. /\ n \in DOMAIN h /\ n = End(h, b) /\ h[n].previous = b
        /\ n \in Nat /\ b < n /\ h[n] \in Header /\ h[n].size \in Nat
        /\ End(h, b) = b + HDR + h[b].size
        /\ End(h, n) = n + HDR + h[n].size
    BY <1>0, <1>2 DEF WellFormed, Linked, End
  <2>2. nx # NULL => /\ nx \in DOMAIN h /\ nx = End(h, n) /\ nx # n /\ nx # b
                     /\ h[nx].previous = n
    BY <1>0, <2>1 DEF WellFormed, Linked, End
  <2>3. heap_block_valid(h, b) BY <1>0 DEF heap_block_valid
  <2>4. g = [a \in DOMAIN h \ {n} |->
               IF a = b THEN [h[b] EXCEPT !.size = @ + HDR + h[n].size,
                                          !.next = nx]
               ELSE IF a = nx THEN [h[a] EXCEPT !.previous = b]
               ELSE h[a]]
    BY <1>2, <2>3 DEF heap_merge_next
  <2>5. /\ DOMAIN g = DOMAIN h \ {n}
        /\ b \in DOMAIN g
        /\ g[b] = [h[b] EXCEPT !.size = @ + HDR + h[n].size, !.next = nx]
        /\ nx # NULL => g[nx] = [h[nx] EXCEPT !.previous = b]
        /\ \A a \in DOMAIN h \ {b, n, nx} : g[a] = h[a]
        /\ g = [a \in DOMAIN g |-> g[a]]
    BY <1>0, <2>1, <2>2, <2>4
  <2> HIDE DEF g
  <2>6. /\ g[b].size = h[b].size + HDR + h[n].size
        /\ g[b].next = nx /\ g[b].free = h[b].free
        /\ g[b].previous = h[b].previous
        /\ g[b] \in Header
    <3>1. nx \in Nat \cup {NULL} BY <2>1 DEF Header
    <3> DEFINE sz == h[b].size + HDR + h[n].size
    <3>2. sz \in Nat BY <1>0, <2>1
    <3>3. g[b] = [h[b] EXCEPT !.size = sz, !.next = nx] BY <2>5
    <3> HIDE DEF sz
    <3>4. /\ g[b].size = sz /\ g[b].next = nx /\ g[b].free = h[b].free
          /\ g[b].previous = h[b].previous /\ g[b] \in Header
      BY <1>0, <3>1, <3>2, <3>3 DEF Header
    <3> QED BY <3>4 DEF sz
  <2>7. nx # NULL => /\ g[nx] \in Header /\ g[nx].previous = b
                     /\ g[nx].size = h[nx].size /\ g[nx].next = h[nx].next
                     /\ g[nx].free = h[nx].free
    <3>1. nx # NULL => h[nx] \in Header BY <1>0, <2>2
    <3> QED BY <1>0, <2>5, <3>1 DEF Header
  <2>8. NULL \notin DOMAIN h BY <1>0 DEF NULL
  <2>9. /\ \A a \in DOMAIN g \ {b} : /\ g[a].size = h[a].size
                                      /\ g[a].next = h[a].next
                                      /\ g[a].free = h[a].free
                                      /\ End(g, a) = End(h, a)
        /\ \A a \in DOMAIN g \ {nx} : g[a].previous = h[a].previous
        /\ End(g, b) = End(h, n)
    <3>1. \A a \in DOMAIN h \ {b, n, nx} : g[a] = h[a] BY <2>5
    <3>2. \A a \in DOMAIN g \ {b} : /\ g[a].size = h[a].size
                                    /\ g[a].next = h[a].next
                                    /\ g[a].free = h[a].free
      BY <2>5, <2>7, <2>8, <3>1
    <3>3. \A a \in DOMAIN g \ {nx} : g[a].previous = h[a].previous
      BY <2>5, <2>6, <3>1
    <3>4. End(g, b) = End(h, n) BY <1>0, <2>1, <2>6 DEF End
    <3>5. \A a \in DOMAIN g \ {b} : End(g, a) = End(h, a) BY <3>2 DEF End
    <3> QED BY <3>2, <3>3, <3>4, <3>5
  <2>10. HdrType(g)
    <3>1. \A a \in DOMAIN g : g[a] \in Header
      BY <1>0, <2>5, <2>6, <2>7, <2>8
    <3>2. DOMAIN g \subseteq Pointer BY <2>5 DEF WellFormed, HdrType
    <3>3. g = [a \in DOMAIN g |-> g[a]] BY <2>5
    <3> QED BY <3>1, <3>2, <3>3 DEF HdrType
  <2>11. Apart(g)
    <3> SUFFICES ASSUME NEW x \in DOMAIN g, NEW y \in DOMAIN g, x < y
                 PROVE  End(g, x) <= y
      BY DEF Apart
    <3>1. x \in DOMAIN h /\ y \in DOMAIN h /\ x # n /\ y # n
      BY <2>5
    <3>2. CASE x = b
      <4>1. End(h, b) <= y BY <3>1, <3>2 DEF WellFormed, Apart
      <4>2. n < y BY <4>1, <3>1, <2>1, <1>0
      <4> QED BY <4>2, <3>1, <3>2, <2>1, <2>9 DEF WellFormed, Apart
    <3>3. CASE x # b
      BY <3>1, <3>3, <2>9 DEF WellFormed, Apart
    <3> QED BY <3>2, <3>3
  <2>12. Linked(g)
    <3>0. DOMAIN g = DOMAIN h \ {n} /\ b \in DOMAIN g BY <2>5
    <3>1. 0 \in DOMAIN g
      BY <1>0, <2>1, <3>0 DEF WellFormed, Linked
    <3>2. ASSUME NEW a \in DOMAIN g PROVE
             /\ g[a].next = NULL => End(g, a) = HEAP_SIZE
             /\ g[a].next # NULL => /\ g[a].next = End(g, a)
                                    /\ g[a].next \in DOMAIN g
                                    /\ g[g[a].next].previous = a
      <4>1. CASE a = b
        BY <4>1, <2>1, <2>2, <3>0, <2>6, <2>7, <2>9 DEF WellFormed, Linked
      <4>2. CASE a # b
        <5>1. a \in DOMAIN h /\ a # n /\ g[a].next = h[a].next
              /\ End(g, a) = End(h, a)
          BY <4>2, <3>0, <2>9
        <5>2. h[a].next # NULL => h[a].next # n /\ h[a].next # nx
          BY <4>2, <5>1, <2>1, <2>2 DEF WellFormed, Linked
        <5> QED BY <5>1, <5>2, <3>0, <2>9 DEF WellFormed, Linked
      <4> QED BY <4>1, <4>2
    <3>3. ASSUME NEW a \in DOMAIN g PROVE
             /\ g[a].previous = NULL <=> a = 0
             /\ a # 0 => /\ g[a].previous \in DOMAIN g
                         /\ g[g[a].previous].next = a
      <4>1. CASE a = nx
        <5>1. g[a].previous = b /\ g[b].next = a /\ b # NULL /\ a # 0
          BY <4>1, <1>0, <2>1, <2>2, <2>6, <2>7, <2>8, <3>0 DEF NULL
        <5> QED BY <5>1, <3>0
      <4>2. CASE a # nx
        <5>1. a \in DOMAIN h /\ a # n /\ g[a].previous = h[a].previous
          BY <4>2, <3>0, <2>9
        <5>2. a # 0 => h[a].previous # n /\ h[a].previous # b
          BY <4>2, <5>1, <2>1 DEF WellFormed, Linked
        <5> QED BY <5>1, <5>2, <3>0, <2>9 DEF WellFormed, Linked
      <4> QED BY <4>1, <4>2
    <3> QED BY <3>1, <3>2, <3>3 DEF Linked
  <2>13. Sized(g)
    <3>1. \A a \in DOMAIN g : a \in DOMAIN h /\ h[a].size > 0
      BY <2>5 DEF WellFormed, Sized
    <3>2. g[b].size > 0 BY <1>0, <2>1, <2>6
    <3> QED BY <2>9, <3>1, <3>2 DEF Sized
  <2>14. OthersKept(h, g, b)
    BY <1>2, <2>5, <2>9 DEF OthersKept
  <2>15. g[b].size >= h[b].size BY <1>0, <2>1, <2>6
  <2> QED BY <2>5, <2>6, <2>9, <2>10, <2>11, <2>12, <2>13, <2>14, <2>15
          DEF WellFormed, g
<1> QED BY <1>1, <1>2

-----------------------------------------------------------------------------
(* Release.                                                                *)

\* Releasing an owned block, or passing a pointer whose header is gone or
\* already free, keeps the table well formed and every other block in place.
LEMMA FreeFact ==
    ASSUME heap_initialized, NEW h, WellFormed(h), NEW p \in Pointer
    PROVE  LET g == FreeBlock(h, p)
           IN  /\ WellFormed(g)
               /\ OthersKept(h, g, p - HDR)
               /\ p - HDR \in DOMAIN g => g[p - HDR].free
<1> DEFINE g == FreeBlock(h, p)
           b == p - HDR
<1> USE SizesAssumption
<1>1. CASE b \notin DOMAIN h
  <2>1. g = h BY <1>1 DEF FreeBlock, heap_block_valid
  <2> QED BY <1>1, <2>1 DEF OthersKept
<1>2. CASE b \in DOMAIN h /\ h[b].free
  <2>1. g = h BY <1>2 DEF FreeBlock
  <2> QED BY <1>2, <2>1 DEF OthersKept
<1>3. CASE b \in DOMAIN h /\ ~h[b].free
  <2> DEFINE h0 == [h EXCEPT ![b].free = TRUE]
             h1 == heap_merge_next(h0, b)
             q == h1[b].previous
  <2>1. /\ b \in Nat /\ b < HEAP_SIZE /\ p > 0 /\ p < HEAP_SIZE
    BY <1>3, BlockFact DEF Pointer
  <2>2. heap_owns(p) /\ heap_block_valid(h, b)
    BY <1>3, <2>1 DEF heap_owns, heap_block_valid
  <2>3. g = IF q # NULL /\ h1[q].free THEN heap_merge_next(h1, q) ELSE h1
    BY <1>3, <2>2 DEF FreeBlock
  <2>4. /\ WellFormed(h0) /\ OthersKept(h, h0, b) /\ b \in DOMAIN h0 /\ h0[b].free
    BY <1>3, MarkFact
  <2> HIDE DEF h0
  <2>5. /\ WellFormed(h1) /\ OthersKept(h0, h1, b) /\ b \in DOMAIN h1 /\ h1[b].free
    BY <2>4, MergeFact
  <2>6. OthersKept(h, h1, b) BY <2>4, <2>5 DEF OthersKept
  <2> HIDE DEF h1
  <2>7. CASE ~(q # NULL /\ h1[q].free)
    BY <2>3, <2>5, <2>6, <2>7
  <2>8. CASE q # NULL /\ h1[q].free
    <3>0. g = heap_merge_next(h1, q) BY <2>3, <2>8
    <3>1. q \in DOMAIN h1 BY <2>5, <2>8 DEF WellFormed, Linked
    <3>2. /\ WellFormed(g) /\ OthersKept(h1, g, q)
          /\ q \in DOMAIN g /\ g[q].free
          /\ \A a \in DOMAIN g \ {q} : g[a].free = h1[a].free
      BY <2>5, <2>8, <3>0, <3>1, MergeFact
    <3> HIDE DEF g
    <3>3. OthersKept(h, g, b)
      BY <2>6, <2>8, <3>2 DEF OthersKept
    <3>4. b \in DOMAIN g => g[b].free
      BY <2>5, <3>2
    <3> QED BY <3>2, <3>3, <3>4 DEF g
  <2> QED BY <2>7, <2>8
<1> QED BY <1>1, <1>2, <1>3

-----------------------------------------------------------------------------
(* Ownership.                                                              *)

\* Owned blocks are used and large enough, and used blocks are owned.
Owned(h, own) ==
    /\ DOMAIN own \subseteq Pointer
    /\ own \in [DOMAIN own -> Nat]
    /\ \A p \in DOMAIN own : /\ p - HDR \in DOMAIN h
                             /\ ~h[p - HDR].free
                             /\ own[p] <= h[p - HDR].size
    /\ \A b \in DOMAIN h : ~h[b].free => b + HDR \in DOMAIN own

\* Handing block b to a caller.
LEMMA OwnFact ==
    ASSUME NEW h, WellFormed(h), NEW g, WellFormed(g), NEW own, Owned(h, own),
           NEW b \in DOMAIN g, ~g[b].free, OthersKept(h, g, b),
           NEW n \in Nat, n <= g[b].size
    PROVE  Owned(g, Own(own, b + HDR, n))
<1> DEFINE o == Own(own, b + HDR, n)
<1> USE SizesAssumption
<1>1. /\ DOMAIN o = DOMAIN own \cup {b + HDR}
      /\ o[b + HDR] = n
      /\ \A q \in DOMAIN own \ {b + HDR} : o[q] = own[q]
      /\ o = [q \in DOMAIN o |-> o[q]]
  BY DEF Own
<1> HIDE DEF o
<1>2. b \in Nat /\ b + HDR \in Pointer /\ b + HDR - HDR = b
  BY BlockFact
<1>3. DOMAIN o \subseteq Pointer /\ o \in [DOMAIN o -> Nat]
  <2>1. \A q \in DOMAIN o : o[q] \in Nat BY <1>1 DEF Owned
  <2> QED BY <1>1, <1>2, <2>1 DEF Owned
<1>4. ASSUME NEW q \in DOMAIN o
      PROVE  q - HDR \in DOMAIN g /\ ~g[q - HDR].free /\ o[q] <= g[q - HDR].size
  <2>1. CASE q = b + HDR BY <2>1, <1>1, <1>2
  <2>2. CASE q # b + HDR
    <3>1. q \in DOMAIN own /\ o[q] = own[q] /\ q \in Nat
      BY <2>2, <1>1 DEF Owned, Pointer
    <3>2. q - HDR # b BY <2>2, <3>1, <1>2
    <3> QED BY <3>1, <3>2 DEF Owned, OthersKept
  <2> QED BY <2>1, <2>2
<1>5. ASSUME NEW a \in DOMAIN g, ~g[a].free PROVE a + HDR \in DOMAIN o
  BY <1>1, <1>5 DEF Owned, OthersKept
<1> QED BY <1>3, <1>4, <1>5 DEF Owned, o

\* Taking pointer p back.
LEMMA DisownFact ==
    ASSUME NEW h, WellFormed(h), NEW g, WellFormed(g), NEW own, Owned(h, own),
           NEW p \in Pointer, OthersKept(h, g, p - HDR),
           p - HDR \in DOMAIN g => g[p - HDR].free
    PROVE  Owned(g, Disown(own, p))
<1> DEFINE o == Disown(own, p)
<1> USE SizesAssumption
<1>1. /\ DOMAIN o = DOMAIN own \ {p}
      /\ \A q \in DOMAIN own \ {p} : o[q] = own[q]
      /\ o = [q \in DOMAIN o |-> o[q]]
  BY DEF Disown
<1> HIDE DEF o
<1>2. DOMAIN o \subseteq Pointer /\ o \in [DOMAIN o -> Nat]
  <2>1. \A q \in DOMAIN o : o[q] \in Nat BY <1>1 DEF Owned
  <2> QED BY <1>1, <2>1 DEF Owned
<1>3. ASSUME NEW q \in DOMAIN o
      PROVE  q - HDR \in DOMAIN g /\ ~g[q - HDR].free /\ o[q] <= g[q - HDR].size
  <2>1. q \in DOMAIN own /\ o[q] = own[q] /\ q \in Nat /\ q # p
    BY <1>1 DEF Owned, Pointer
  <2>2. q - HDR # p - HDR BY <2>1 DEF Pointer
  <2> QED BY <2>1, <2>2 DEF Owned, OthersKept
<1>4. ASSUME NEW a \in DOMAIN g, ~g[a].free PROVE a + HDR \in DOMAIN o
  <2>1. a # p - HDR /\ a \in Nat BY <1>4, BlockFact
  <2>2. a + HDR # p BY <2>1 DEF Pointer
  <2> QED BY <1>1, <1>4, <2>1, <2>2 DEF Owned, OthersKept
<1> QED BY <1>2, <1>3, <1>4 DEF Owned, o

-----------------------------------------------------------------------------
(* The inductive invariant.                                                *)

\* Inside the loop of root_malloc.
Scanning ==
    pc = "scan" =>
      /\ heap_initialized
      /\ want # 0 /\ asked <= want
      /\ block # NULL => block \in DOMAIN hdr
      /\ moving # NULL => moving \in DOMAIN held

\* Before heap_init nothing exists.
Unborn ==
    ~heap_initialized => DOMAIN hdr = {} /\ freed = {} /\ pc = "idle"

HeapInv ==
    /\ TypeOK
    /\ Unborn
    /\ heap_initialized => WellFormed(hdr)
    /\ Owned(hdr, held)
    /\ freed \cap DOMAIN held = {}
    /\ Scanning
    /\ FirstFit

\* Before heap_init there is no block at all.
LEMMA InitInv == Init => HeapInv
<1> SUFFICES ASSUME Init PROVE HeapInv
  OBVIOUS
<1> USE DEF Init
<1>1. DOMAIN hdr = {} /\ DOMAIN held = {} OBVIOUS
<1>2. hdr \in [DOMAIN hdr -> Header] /\ held \in [DOMAIN held -> Nat]
  <2>1. hdr = [a \in {} |-> hdr[a]] /\ held = [a \in {} |-> held[a]] OBVIOUS
  <2> QED BY <1>1, <2>1
<1>3. TypeOK
  <2>1. heap_initialized \in BOOLEAN /\ pc \in {"idle", "scan"} /\ freed \subseteq Pointer
    OBVIOUS
  <2>2. /\ block \in Pointer \cup {NULL} /\ moving \in Pointer \cup {NULL}
        /\ want \in 0 .. UMAX /\ asked \in 0 .. UMAX
    BY SizesAssumption
  <2> QED BY <1>1, <1>2, <2>1, <2>2 DEF TypeOK
<1>4. Owned(hdr, held) BY <1>1, <1>2 DEF Owned
<1> QED BY <1>1, <1>3, <1>4 DEF HeapInv, Unborn, Scanning, FirstFit

\* root_malloc entered from any of its callers.
LEMMA StartInv ==
    ASSUME HeapInv, NEW n \in 0 .. UMAX, NEW from \in DOMAIN held \cup {NULL},
           StartMalloc(n, from)
    PROVE  HeapInv'
<1> USE DEF HeapInv, StartMalloc
<1>1. heap_align(n) \in 0 .. UMAX /\ heap_align(n) >= n /\ heap_align(n) # 0
  BY AlignFact
<1>2. 0 \in Pointer /\ 0 # NULL BY SizesAssumption DEF Pointer, NULL
<1>3. TypeOK' BY <1>1, <1>2 DEF TypeOK
<1>4. Unborn' BY DEF Unborn
<1>5. Scanning' BY <1>1 DEF Scanning, WellFormed, Linked
<1>6. FirstFit'
  <2>1. \A b \in DOMAIN hdr : ~(b < 0) BY BlockFact
  <2> QED BY <1>2, <2>1 DEF FirstFit
<1> QED BY <1>3, <1>4, <1>5, <1>6 DEF Owned, WellFormed

\* The size root_calloc asks for is no larger than the largest usize.
LEMMA ProductFact ==
    ASSUME NEW c \in Nat, NEW n \in Nat, c # 0, ~(n > UMAX \div c)
    PROVE  c * n \in 0 .. UMAX
<1> DEFINE q == UMAX \div c
<1>1. q \in Nat /\ c * q <= UMAX BY SizesAssumption
<1>2. n <= q BY <1>1
<1> HIDE DEF q
<1>3. c * n <= c * q BY <1>1, <1>2
<1>4. c * n \in Nat /\ c * q \in Nat BY <1>1
<1> QED BY <1>1, <1>3, <1>4, SizesAssumption

\* One more turn of the loop in root_malloc: the block passed over did not fit.
LEMMA AdvanceInv == HeapInv /\ MallocAdvance => HeapInv'
<1> SUFFICES ASSUME HeapInv, MallocAdvance PROVE HeapInv'
  OBVIOUS
<1> USE DEF HeapInv, MallocAdvance
<1>0. heap_initialized /\ block \in DOMAIN hdr /\ WellFormed(hdr)
  BY DEF Scanning
<1>1. block' # NULL => block' \in DOMAIN hdr /\ block' = End(hdr, block)
  BY <1>0 DEF WellFormed, Linked
<1>2. block' = NULL => End(hdr, block) = HEAP_SIZE
  BY <1>0 DEF WellFormed, Linked
<1>3. block' \in Pointer \cup {NULL}
  BY <1>1 DEF TypeOK
<1>4. TypeOK' BY <1>3 DEF TypeOK
<1>5. Unborn' BY <1>0 DEF Unborn
<1>6. Scanning' BY <1>1 DEF Scanning
<1>7. FirstFit'
  <2> SUFFICES ASSUME NEW b \in DOMAIN hdr, block' = NULL \/ b < block'
               PROVE  ~(hdr[b].free /\ hdr[b].size >= asked /\ hdr[b].size >= want)
    BY DEF FirstFit
  <2>1. /\ b \in Nat /\ b < HEAP_SIZE /\ block \in Nat
        /\ block # NULL
    BY <1>0, BlockFact, SizesAssumption DEF Pointer
  <2>2. CASE b < block BY <2>2 DEF FirstFit
  <2>3. CASE b = block BY <2>3 DEF Fits
  <2>4. CASE b > block
    <3>1. End(hdr, block) <= b BY <1>0, <2>1, <2>4 DEF WellFormed, Apart
    <3>2. End(hdr, block) \in Nat BY <1>0, BlockFact, SizesAssumption DEF End
    <3> QED BY <1>1, <1>2, <2>1, <3>1, <3>2, SizesAssumption
  <2> QED BY <2>1, <2>2, <2>3, <2>4
<1> QED BY <1>4, <1>5, <1>6, <1>7 DEF Owned, WellFormed

\* Cutting `want' bytes off the found block and marking it used.
LEMMA TakeFact ==
    ASSUME NEW h, WellFormed(h), NEW b \in DOMAIN h, NEW r \in Nat \ {0},
           h[b].size >= r
    PROVE  LET g == [heap_split_block(h, b, r) EXCEPT ![b].free = FALSE]
           IN  WellFormed(g) /\ OthersKept(h, g, b) /\ b \in DOMAIN g
               /\ ~g[b].free /\ g[b].size >= r
<1> DEFINE s == heap_split_block(h, b, r)
           g == [s EXCEPT ![b].free = FALSE]
<1>1. /\ WellFormed(s) /\ OthersKept(h, s, b) /\ b \in DOMAIN s /\ s[b].size >= r
  BY SplitFact
<1> HIDE DEF s
<1>2. /\ WellFormed(g) /\ OthersKept(s, g, b) /\ b \in DOMAIN g
      /\ ~g[b].free /\ g[b].size = s[b].size
  BY <1>1, MarkFact
<1> HIDE DEF g
<1>3. OthersKept(h, g, b) BY <1>1, <1>2 DEF OthersKept
<1> QED BY <1>1, <1>2, <1>3 DEF g, s

\* root_malloc found its block, on behalf of a plain call or of root_realloc.
LEMMA TakeInv == HeapInv /\ MallocTake => HeapInv'
<1> SUFFICES ASSUME HeapInv, MallocTake PROVE HeapInv'
  OBVIOUS
<1> USE DEF HeapInv, MallocTake
<1> DEFINE h1 == [heap_split_block(hdr, block, want) EXCEPT ![block].free = FALSE]
           p == block + HDR
           o1 == Own(held, p, asked)
<1>0. /\ heap_initialized /\ block \in DOMAIN hdr /\ WellFormed(hdr)
      /\ want \in Nat \ {0} /\ asked \in Nat /\ asked <= want
      /\ hdr[block].size >= want
  BY DEF Scanning, Fits, TypeOK
<1>1. /\ WellFormed(h1) /\ OthersKept(hdr, h1, block) /\ block \in DOMAIN h1
      /\ ~h1[block].free /\ h1[block].size >= want
  BY <1>0, TakeFact
<1>2. hdr' = (IF moving = NULL THEN h1 ELSE FreeBlock(h1, moving))
  BY DEF Payload
<1>3. held' = (IF moving = NULL THEN o1 ELSE Disown(o1, moving))
  BY DEF Payload
<1>4. freed' = (IF moving = NULL THEN freed \ {p} ELSE (freed \ {p}) \cup {moving})
  BY DEF Payload
<1> HIDE DEF h1
<1>5. h1[block].size \in Nat BY <1>1, BlockFact
<1>6. Owned(h1, o1) BY <1>0, <1>1, <1>5, OwnFact
<1>7. DOMAIN o1 = DOMAIN held \cup {p} BY DEF Own
<1>8. p \in Pointer BY <1>1, BlockFact
<1> HIDE DEF o1, p
<1>9. pc' = "idle" /\ block' = NULL /\ moving' = NULL /\ want' = 0 /\ asked' = 0
      /\ heap_initialized' = heap_initialized
  OBVIOUS
<1>10. WellFormed(hdr') /\ Owned(hdr', held') /\ freed' \cap DOMAIN held' = {}
       /\ freed' \subseteq Pointer
  <2>1. CASE moving = NULL
    BY <1>1, <1>2, <1>3, <1>4, <1>6, <1>7, <1>8, <2>1 DEF TypeOK
  <2>2. CASE moving # NULL
    <3>1. moving \in DOMAIN held /\ moving \in Pointer
      BY <2>2 DEF Scanning, TypeOK
    <3>2. /\ WellFormed(hdr')
          /\ OthersKept(h1, hdr', moving - HDR)
          /\ moving - HDR \in DOMAIN hdr' => hdr'[moving - HDR].free
      BY <1>0, <1>1, <1>2, <2>2, <3>1, FreeFact
    <3>3. Owned(hdr', Disown(o1, moving))
      BY <1>1, <1>6, <3>1, <3>2, DisownFact
    <3>4. DOMAIN Disown(o1, moving) = DOMAIN o1 \ {moving} BY DEF Disown
    <3> QED BY <1>3, <1>4, <1>7, <1>8, <2>2, <3>1, <3>2, <3>3, <3>4 DEF TypeOK
  <2> QED BY <2>1, <2>2
<1>11. TypeOK'
  BY <1>0, <1>9, <1>10, SizesAssumption DEF TypeOK, WellFormed, HdrType, Owned
<1> QED BY <1>0, <1>9, <1>10, <1>11 DEF Unborn, Scanning, FirstFit

\* root_malloc reached the end of the list.
LEMMA NullInv == HeapInv /\ MallocNull => HeapInv'
  BY SizesAssumption
  DEF HeapInv, MallocNull, TypeOK, Unborn, Owned, Scanning, FirstFit, WellFormed

\* root_free, of an owned or of a stale pointer.
LEMMA FreeInv ==
    ASSUME HeapInv, NEW p \in DOMAIN held \cup freed, root_free(p)
    PROVE  HeapInv'
<1> USE DEF HeapInv, root_free
<1>0. p \in Pointer /\ pc = "idle" BY DEF TypeOK
<1>1. heap_initialized /\ WellFormed(hdr)
  BY DEF Unborn, Owned
<1>2. /\ WellFormed(hdr')
      /\ OthersKept(hdr, hdr', p - HDR)
      /\ p - HDR \in DOMAIN hdr' => hdr'[p - HDR].free
  BY <1>0, <1>1, FreeFact
<1>3. Owned(hdr', held') BY <1>0, <1>1, <1>2, DisownFact
<1>4. DOMAIN held' = DOMAIN held \ {p} BY DEF Disown
<1>5. UNCHANGED <<heap_initialized, pc, block, want, asked, moving>>
  BY DEF scanVars
<1>6. freed' \cap DOMAIN held' = {} /\ freed' \subseteq Pointer
  BY <1>0, <1>4 DEF TypeOK
<1>7. TypeOK'
  BY <1>2, <1>3, <1>5, <1>6 DEF TypeOK, WellFormed, HdrType, Owned
<1> QED BY <1>0, <1>1, <1>2, <1>3, <1>5, <1>6, <1>7 DEF Unborn, Scanning, FirstFit

\* root_realloc of an owned pointer that stays where it is.
LEMMA StayInv ==
    ASSUME HeapInv, pc = "idle", NEW p \in DOMAIN held, NEW n \in 0 .. UMAX,
           heap_align(n) # 0, ReallocInPlace(p, n) \/ ReallocGrow(p, n)
    PROVE  HeapInv'
<1> USE DEF HeapInv
<1> DEFINE b == p - HDR
           r == heap_align(n)
<1>0. /\ heap_initialized /\ WellFormed(hdr) /\ b \in DOMAIN hdr /\ ~hdr[b].free
      /\ p \in Pointer /\ b + HDR = p
  BY SizesAssumption DEF Unborn, Owned, Pointer
<1>1. r \in Nat \ {0} /\ n <= r /\ n \in Nat BY AlignFact
<1>2. held' = Own(held, p, n) /\ UNCHANGED <<heap_initialized, pc, block, want, asked, moving, freed>>
  BY DEF ReallocInPlace, ReallocGrow, scanVars
<1>3. /\ WellFormed(hdr') /\ OthersKept(hdr, hdr', b) /\ b \in DOMAIN hdr'
      /\ ~hdr'[b].free /\ hdr'[b].size >= r
  <2>1. CASE ReallocInPlace(p, n)
    <3>1. hdr' = heap_split_block(hdr, b, r) /\ hdr[b].size >= r
      <4>1. hdr[b].size \in Nat BY <1>0, BlockFact
      <4> QED BY <2>1, <1>1, <4>1 DEF ReallocInPlace
    <3> QED BY <1>0, <1>1, <3>1, SplitFact
  <2>2. CASE ReallocGrow(p, n)
    <3> DEFINE m == heap_merge_next(hdr, b)
    <3>1. /\ hdr' = [heap_split_block(m, b, r) EXCEPT ![b].free = FALSE]
          /\ hdr[b].next # NULL /\ hdr[hdr[b].next].free
          /\ hdr[b].size + HDR + hdr[hdr[b].next].size >= r
      BY <2>2 DEF ReallocGrow, CanGrow
    <3>2. /\ WellFormed(m) /\ OthersKept(hdr, m, b) /\ b \in DOMAIN m
          /\ m[b].size >= r
      BY <1>0, <3>1, MergeFact
    <3> HIDE DEF m
    <3>3. /\ WellFormed(hdr') /\ OthersKept(m, hdr', b) /\ b \in DOMAIN hdr'
          /\ ~hdr'[b].free /\ hdr'[b].size >= r
      BY <1>1, <3>1, <3>2, TakeFact
    <3> QED BY <3>2, <3>3 DEF OthersKept
  <2> QED BY <2>1, <2>2
<1>4. n <= hdr'[b].size
  <2>1. hdr'[b].size \in Nat BY <1>3, BlockFact
  <2> QED BY <1>1, <1>3, <2>1
<1> HIDE DEF b, r
<1>5. Owned(hdr', held')
  BY <1>0, <1>1, <1>2, <1>3, <1>4, OwnFact
<1>6. DOMAIN held' = DOMAIN held BY <1>2 DEF Own
<1>7. TypeOK'
  BY <1>2, <1>3, <1>5 DEF TypeOK, WellFormed, HdrType, Owned
<1> QED BY <1>0, <1>2, <1>3, <1>5, <1>6, <1>7 DEF Unborn, Scanning, FirstFit

\* heap_init lays one free block over the arena.
LEMMA heapInitInv == HeapInv /\ heap_init => HeapInv'
<1> SUFFICES ASSUME HeapInv, heap_init PROVE HeapInv'
  OBVIOUS
<1> USE DEF HeapInv, heap_init
<1> DEFINE e == [size |-> HEAP_SIZE - HDR, free |-> TRUE,
                 previous |-> NULL, next |-> NULL]
<1>0. DOMAIN hdr' = {0} /\ hdr'[0] = e /\ hdr' = [a \in {0} |-> e] BY DEF e
<1>1. e \in Header BY SizesAssumption DEF Header
<1>2. /\ e.size = HEAP_SIZE - HDR /\ e.next = NULL /\ e.previous = NULL
      /\ e.free = TRUE
  OBVIOUS
<1> HIDE DEF e
<1>3. HdrType(hdr')
  <2>1. hdr' \in [{0} -> Header] BY <1>0, <1>1
  <2>2. 0 \in Pointer BY SizesAssumption DEF Pointer
  <2> QED BY <1>0, <2>1, <2>2 DEF HdrType
<1>4. Linked(hdr') BY <1>0, <1>2, SizesAssumption DEF Linked, End, NULL
<1>5. Apart(hdr') /\ Sized(hdr') BY <1>0, <1>2, SizesAssumption DEF Apart, Sized
<1>6. Owned(hdr', held')
  BY <1>0, <1>2 DEF Owned, Unborn
<1>7. UNCHANGED <<pc, block, want, asked, moving, held, freed>> BY DEF scanVars
<1>8. TypeOK' BY <1>3, <1>7 DEF TypeOK, HdrType
<1> QED BY <1>3, <1>4, <1>5, <1>6, <1>7, <1>8
        DEF WellFormed, Unborn, Scanning, FirstFit

\* Every heap operation, and every turn of its loop, preserves the invariant.
LEMMA StepInv == HeapInv /\ [Next]_vars => HeapInv'
<1> SUFFICES ASSUME HeapInv, [Next]_vars PROVE HeapInv'
  OBVIOUS
<1>1. CASE heap_init BY <1>1, heapInitInv
<1>2. CASE MallocAdvance BY <1>2, AdvanceInv
<1>3. CASE MallocTake BY <1>3, TakeInv
<1>4. CASE MallocNull BY <1>4, NullInv
<1>5. CASE \E n \in Requests : root_malloc(n)
  BY <1>5, StartInv, CallersAssumption DEF root_malloc
<1>6. CASE \E c \in Counts, n \in Requests : root_calloc(c, n)
  <2> PICK c \in Counts, n \in Requests : root_calloc(c, n) BY <1>6
  <2>1. c \in Nat /\ n \in Nat BY CallersAssumption
  <2>2. c * n \in 0 .. UMAX BY <2>1, ProductFact DEF root_calloc
  <2> QED BY <2>2, StartInv DEF root_calloc, root_malloc
<1>7. CASE \E p \in DOMAIN held \cup freed : root_free(p)
  BY <1>7, FreeInv
<1>8. CASE \E p \in DOMAIN held \cup {NULL}, n \in Requests : root_realloc(p, n)
  <2> PICK p \in DOMAIN held \cup {NULL}, n \in Requests : root_realloc(p, n) BY <1>8
  <2>0. n \in 0 .. UMAX BY CallersAssumption
  <2>1. CASE p = NULL /\ root_malloc(n)
    BY <2>0, <2>1, StartInv DEF root_malloc
  <2>2. CASE p \in DOMAIN held /\ n = 0 /\ root_free(p)
    BY <2>2, FreeInv
  <2>3. CASE /\ pc = "idle" /\ p \in DOMAIN held /\ heap_align(n) # 0
             /\ ReallocInPlace(p, n) \/ ReallocGrow(p, n)
    BY <2>0, <2>3, StayInv
  <2>4. CASE p \in DOMAIN held /\ ReallocMove(p, n)
    BY <2>0, <2>4, StartInv DEF ReallocMove
  <2> QED BY <2>1, <2>2, <2>3, <2>4 DEF root_realloc
<1>9. CASE UNCHANGED vars
  BY <1>9 DEF vars, HeapInv, TypeOK, Unborn, Owned, Scanning, FirstFit, WellFormed
<1> QED BY <1>1, <1>2, <1>3, <1>4, <1>5, <1>6, <1>7, <1>8, <1>9 DEF Next

-----------------------------------------------------------------------------
(* The theorems.                                                           *)

\* HeapInv holds throughout every history of heap calls.
THEOREM HeapInvariant == Spec => []HeapInv
  BY InitInv, StepInv, PTL DEF Spec

\* Every variable keeps its type: no header size in heap.c ever wraps below 0.
THEOREM HeapTypes == Spec => []TypeOK
  BY HeapInvariant, PTL DEF HeapInv

\* heap_split_block and heap_merge_next keep the blocks tiling the arena.
THEOREM HeapTiled == Spec => []Tiled
<1>1. HeapInv => Tiled BY DEF HeapInv, Tiled, WellFormed
<1> QED BY <1>1, HeapInvariant, PTL

\* root_malloc, root_calloc and root_realloc never hand out a byte twice.
THEOREM HeapNoSharedBytes == Spec => []NoSharedBytes
<1>1. ASSUME HeapInv PROVE NoSharedBytes
  <2> USE DEF HeapInv
  <2> SUFFICES ASSUME NEW p \in DOMAIN held
               PROVE  /\ p + held[p] <= HEAP_SIZE
                      /\ \A q \in DOMAIN held : p < q => p + held[p] <= q - HDR
                      /\ \A b \in DOMAIN hdr : b >= p => p + held[p] <= b
    BY DEF NoSharedBytes
  <2>0. /\ p - HDR \in DOMAIN hdr /\ p \in Nat /\ held[p] \in Nat
        /\ held[p] <= hdr[p - HDR].size /\ WellFormed(hdr)
    BY <1>1 DEF Owned, Pointer, Unborn
  <2>1. /\ p + held[p] <= End(hdr, p - HDR) /\ End(hdr, p - HDR) <= HEAP_SIZE
        /\ End(hdr, p - HDR) \in Nat
    BY <2>0, BlockFact, SizesAssumption DEF End
  <2>2. ASSUME NEW b \in DOMAIN hdr, b > p - HDR
        PROVE  p + held[p] <= b
    <3>1. End(hdr, p - HDR) <= b BY <2>0, <2>2 DEF WellFormed, Apart
    <3> QED BY <2>0, <2>1, <3>1, BlockFact
  <2>3. ASSUME NEW q \in DOMAIN held, p < q PROVE p + held[p] <= q - HDR
    <3>1. q - HDR \in DOMAIN hdr /\ q \in Nat BY <1>1 DEF Owned, Pointer
    <3> QED BY <2>0, <2>2, <2>3, <3>1, SizesAssumption
  <2>4. ASSUME NEW b \in DOMAIN hdr, b >= p PROVE p + held[p] <= b
    <3>1. b \in Nat BY <2>0, BlockFact
    <3> QED BY <2>0, <2>2, <2>4, <3>1, SizesAssumption
  <2> QED BY <2>0, <2>1, <2>3, <2>4, SizesAssumption
<1> QED BY <1>1, HeapInvariant, PTL

\* A block is used exactly when a caller owns it, double frees included.
THEOREM HeapUsedIffHeld == Spec => []UsedIffHeld
<1>1. ASSUME HeapInv PROVE UsedIffHeld
  <2>1. \A p \in DOMAIN held : p = Payload(p - HDR) /\ p - HDR \in DOMAIN hdr
                                /\ ~hdr[p - HDR].free
    BY <1>1, SizesAssumption DEF HeapInv, Owned, Payload, Pointer
  <2>2. \A b \in DOMAIN hdr : ~hdr[b].free => Payload(b) \in DOMAIN held
    BY <1>1 DEF HeapInv, Owned, Payload
  <2> QED BY <2>1, <2>2 DEF UsedIffHeld
<1> QED BY <1>1, HeapInvariant, PTL

\* When root_malloc returns NULL no block of the heap could serve the request.
THEOREM HeapFirstFit == Spec => []FirstFit
  BY HeapInvariant, PTL DEF HeapInv

-----------------------------------------------------------------------------
(* The process table.                                                      *)

\* The age of slot i when the cursor, at c, points at the oldest entry.
RankFrom(c, i) == IF i >= c THEN i - c + 1 ELSE i - c + ROOT_PROCESS_MAX + 1
Rank(i) == RankFrom(replacement_cursor, i)

\* The pid given out d pids before pid n.
PidBefore(n, d) == IF n > d THEN n - d ELSE n - d + PID_MAX

\* The history is made of the pids before next_pid.
HistoryInv ==
    /\ latest \in Seq(1 .. PID_MAX)
    /\ Len(latest) <= ROOT_PROCESS_MAX
    /\ \A k \in 1 .. Len(latest) : latest[k] = PidBefore(next_pid, Len(latest) + 1 - k)

\* The entries are the history, from the cursor on; as long as slots are
\* unused they are taken from slot 0 up.
TableInv ==
    /\ Len(latest) < ROOT_PROCESS_MAX => replacement_cursor = 0
    /\ \A i \in Slots : process_table[i].used <=> Rank(i) <= Len(latest)
    /\ \A i \in Slots : process_table[i].used => process_table[i].pid = latest[Rank(i)]

\* Every entry has ended but the latest while its application is loaded.
StateInv ==
    /\ pid # 0 <=> stage \in {"begun", "run"}
    /\ pid # 0 => Len(latest) > 0 /\ pid = latest[Len(latest)]
    /\ \A i \in Slots :
         process_table[i].state =
           IF ~process_table[i].used THEN "unused"
           ELSE IF pid # 0 /\ Rank(i) = Len(latest)
                THEN (IF stage = "begun" THEN "ready" ELSE "running")
           ELSE "exited"

BlocksInv == blocks \in [{"file", "image"} -> Int] /\ NothingLeaks

-----------------------------------------------------------------------------
(* The helpers.                                                            *)

LEMMA LowestFact ==
    ASSUME NEW S \in SUBSET Int, NEW m \in S, \A j \in S : m <= j
    PROVE  Lowest(S) = m
<1>1. Lowest(S) \in S /\ \A j \in S : Lowest(S) <= j
  BY DEF Lowest
<1>2. Lowest(S) \in Int /\ m \in Int /\ m <= Lowest(S) /\ Lowest(S) <= m
  BY <1>1
<1> QED BY <1>2

\* Turning a ring of n slots.
LEMMA TurnFact ==
    ASSUME NEW n \in Nat \ {0}, NEW a \in 0 .. 2 * n - 1
    PROVE  a % n = IF a < n THEN a ELSE a - n
<1>1. CASE a < n
  BY <1>1
<1>2. CASE a >= n
  <2>1. a = n + (a - n) /\ a - n \in 0 .. n - 1 BY <1>2
  <2>2. (a - n) % n = a - n BY <2>1
  <2> QED BY <1>2, <2>1, <2>2, Z3
<1> QED BY <1>1, <1>2

LEMMA RankFact ==
    ASSUME NEW c \in Slots
    PROVE  /\ \A i \in Slots : RankFrom(c, i) \in 1 .. ROOT_PROCESS_MAX
           /\ \A i, j \in Slots : RankFrom(c, i) = RankFrom(c, j) => i = j
           /\ \A k \in 1 .. ROOT_PROCESS_MAX : \E i \in Slots : RankFrom(c, i) = k
<1> USE ProcessAssumption DEF RankFrom, Slots
<1>1. ASSUME NEW k \in 1 .. ROOT_PROCESS_MAX PROVE \E i \in Slots : RankFrom(c, i) = k
  <2>1. CASE c + k - 1 < ROOT_PROCESS_MAX
    <3>1. c + k - 1 \in Slots /\ RankFrom(c, c + k - 1) = k BY <2>1
    <3> QED BY <3>1
  <2>2. CASE c + k - 1 >= ROOT_PROCESS_MAX
    <3> DEFINE i == c + k - 1 - ROOT_PROCESS_MAX
    <3>1. i \in Slots /\ RankFrom(c, i) = k BY <2>2
    <3> QED BY <3>1
  <2> QED BY <2>1, <2>2
<1> QED BY <1>1

\* The cursor moves on: the oldest entry becomes the latest.
LEMMA RankTurns ==
    ASSUME NEW c \in Slots, NEW e \in Slots,
           e = IF c = ROOT_PROCESS_MAX - 1 THEN 0 ELSE c + 1
    PROVE  /\ RankFrom(e, c) = ROOT_PROCESS_MAX
           /\ \A i \in Slots : i # c => RankFrom(e, i) = RankFrom(c, i) - 1 /\ RankFrom(c, i) > 1
  BY ProcessAssumption DEF RankFrom, Slots

LEMMA PidBeforeFact ==
    ASSUME NEW n \in 1 .. PID_MAX, NEW d \in 1 .. PID_MAX, NEW e \in 1 .. PID_MAX
    PROVE  /\ PidBefore(n, d) \in 1 .. PID_MAX
           /\ PidBefore(n, d) = PidBefore(n, e) => d = e
  BY ProcessAssumption DEF PidBefore

LEMMA PidAfterFact ==
    ASSUME NEW n \in 1 .. PID_MAX
    PROVE  /\ PidAfter(n) \in 1 .. PID_MAX
           /\ PidBefore(PidAfter(n), 1) = n
           /\ \A d \in 1 .. PID_MAX - 1 : PidBefore(PidAfter(n), d + 1) = PidBefore(n, d)
  BY ProcessAssumption DEF PidAfter, PidBefore

\* The last ROOT_PROCESS_MAX pids differ.
LEMMA PidFact ==
    ASSUME ProcessTypeOK, HistoryInv
    PROVE  /\ \A k \in 1 .. Len(latest) : latest[k] \in 1 .. PID_MAX
           /\ \A k, l \in 1 .. Len(latest) : latest[k] = latest[l] => k = l
<1> USE ProcessAssumption DEF ProcessTypeOK, HistoryInv
<1>1. Len(latest) \in Nat /\ \A k \in 1 .. Len(latest) : latest[k] \in 1 .. PID_MAX
  OBVIOUS
<1>2. ASSUME NEW k \in 1 .. Len(latest), NEW l \in 1 .. Len(latest), latest[k] = latest[l]
      PROVE  k = l
  <2>1. PidBefore(next_pid, Len(latest) + 1 - k) = PidBefore(next_pid, Len(latest) + 1 - l)
    BY <1>2
  <2>2. /\ Len(latest) + 1 - k \in 1 .. PID_MAX /\ Len(latest) + 1 - l \in 1 .. PID_MAX
        /\ k \in Int /\ l \in Int /\ next_pid \in 1 .. PID_MAX
    BY <1>1
  <2>3. Len(latest) + 1 - k = Len(latest) + 1 - l
    BY <2>1, <2>2, PidBeforeFact
  <2> QED BY <1>1, <2>2, <2>3
<1> QED BY <1>1, <1>2

-----------------------------------------------------------------------------
(* Steps that leave the table alone.                                       *)

Table == ProcessTypeOK /\ HistoryInv /\ TableInv /\ StateInv

LEMMA QuietFact ==
    ASSUME Table, UNCHANGED <<tableVars, pid>>, pid = 0,
           stage' \in {"idle", "read", "layout", "symbols", "relocate", "entry"}
    PROVE  Table'
  BY DEF Table, ProcessTypeOK, HistoryInv, PidBefore, TableInv, Rank, RankFrom, StateInv, tableVars, Slots

LEMMA StayIdle ==
    ASSUME Table, stage \notin {"begun", "run"}
    PROVE  pid = 0
  BY DEF Table, StateInv

\* The blocks of the loader.
LEMMA BlocksFact ==
    ASSUME BlocksInv, Table, ProcessNext
    PROVE  BlocksInv'
<1> USE DEF BlocksInv, NothingLeaks
<1>1. CASE elf_loader_run BY <1>1 DEF elf_loader_run, malloc
<1>2. CASE Load
  BY <1>2 DEF Load, FileRejected, FileRead, LayoutRejected, ImageLoaded, ImageNoMemory, Reject,
     Advance, Leave, free, malloc
<1>3. CASE Link
  BY <1>3 DEF Link, SymbolsRejected, SymbolsFound, RelocationRejected, Relocated, EntryMissing,
     Reject, Advance, Leave, free
<1>4. CASE ProcessBegins
  BY <1>4 DEF ProcessBegins, Reject, Leave, free
<1>5. CASE Enter BY <1>5 DEF Enter
<1>6. ASSUME NEW code \in ExitCode, Exit(code) PROVE BlocksInv'
  BY <1>6 DEF Exit, Leave, free
<1> QED BY <1>1, <1>2, <1>3, <1>4, <1>5, <1>6 DEF ProcessNext, Run

-----------------------------------------------------------------------------
(* process_begin.                                                          *)

\* No application is loaded: the slot chosen is that of rank Len(latest) + 1,
\* the lowest unused one, or in a full table the oldest entry.
LEMMA ChooseFact ==
    ASSUME Table, pid = 0
    PROVE  /\ process_choose_slot.slot \in Slots
           /\ process_choose_slot.cursor =
                IF Len(latest) < ROOT_PROCESS_MAX THEN 0
                ELSE IF replacement_cursor = ROOT_PROCESS_MAX - 1 THEN 0
                ELSE replacement_cursor + 1
           /\ process_choose_slot.slot =
                IF Len(latest) < ROOT_PROCESS_MAX THEN Len(latest) ELSE replacement_cursor
<1> USE ProcessAssumption
<1>0. /\ ROOT_PROCESS_MAX \in Nat \ {0}
      /\ Len(latest) \in Nat /\ Len(latest) <= ROOT_PROCESS_MAX
      /\ replacement_cursor \in 0 .. ROOT_PROCESS_MAX - 1
  BY DEF Table, HistoryInv, ProcessTypeOK, Slots
<1>1. CASE Len(latest) < ROOT_PROCESS_MAX
  <2>1. Unused = Len(latest) .. ROOT_PROCESS_MAX - 1
    BY <1>0, <1>1 DEF Table, TableInv, Rank, RankFrom, Unused, Slots
  <2>2. Unused # {} /\ Lowest(Unused) = Len(latest)
    <3>1. Len(latest) \in Unused /\ Unused \in SUBSET Int /\ \A j \in Unused : Len(latest) <= j
      BY <1>0, <1>1, <2>1
    <3> QED BY <3>1, LowestFact
  <2> QED BY <1>0, <1>1, <2>2 DEF process_choose_slot, Table, TableInv, Slots
<1>2. CASE Len(latest) = ROOT_PROCESS_MAX
  <2>1. \A i \in Slots : process_table[i].used /\ process_table[i].state = "exited"
    <3>1. \A i \in Slots : Rank(i) \in 1 .. ROOT_PROCESS_MAX
      BY RankFact DEF Table, Rank, ProcessTypeOK
    <3> QED BY <1>0, <1>2, <3>1 DEF Table, TableInv, StateInv
  <2>2. Unused = {}
    BY <2>1 DEF Unused
  <2>3. Reusable = Slots
    <3>1. \A k \in Slots : (replacement_cursor + k) % ROOT_PROCESS_MAX \in Slots
      BY <1>0 DEF Slots
    <3> QED BY <2>1, <3>1 DEF Reusable
  <2>4. Reusable # {} /\ Lowest(Reusable) = 0
    <3>1. 0 \in Slots /\ Slots \in SUBSET Int /\ \A j \in Slots : 0 <= j BY DEF Slots
    <3> QED BY <2>3, <3>1, LowestFact
  <2>5. replacement_cursor % ROOT_PROCESS_MAX = replacement_cursor
    <3>1. replacement_cursor \in 0 .. 2 * ROOT_PROCESS_MAX - 1 BY <1>0
    <3>2. replacement_cursor % ROOT_PROCESS_MAX =
            IF replacement_cursor < ROOT_PROCESS_MAX THEN replacement_cursor
            ELSE replacement_cursor - ROOT_PROCESS_MAX
      BY <1>0, <3>1, TurnFact, Zenon
    <3> QED BY <1>0, <3>2
  <2>6. (replacement_cursor + 1) % ROOT_PROCESS_MAX =
          IF replacement_cursor = ROOT_PROCESS_MAX - 1 THEN 0 ELSE replacement_cursor + 1
    <3> DEFINE a == replacement_cursor + 1
    <3>1. a \in 0 .. 2 * ROOT_PROCESS_MAX - 1 BY <1>0
    <3> HIDE DEF a
    <3>2. a % ROOT_PROCESS_MAX = IF a < ROOT_PROCESS_MAX THEN a ELSE a - ROOT_PROCESS_MAX
      BY <1>0, <3>1, TurnFact, Zenon
    <3> QED BY <1>0, <3>2 DEF a
  <2> QED BY <1>0, <1>2, <2>2, <2>4, <2>5, <2>6 DEF process_choose_slot, Slots
<1> QED BY <1>0, <1>1, <1>2

\* The history with one more pid, and one less once it is full.
LEMMA HistoryFact ==
    ASSUME NEW S, NEW q \in Seq(S), NEW x \in S, NEW n \in 0 .. 1, n <= Len(q),
           NEW r, r = SubSeq(Append(q, x), n + 1, Len(q) + 1)
    PROVE  /\ r \in Seq(S)
           /\ Len(r) = Len(q) + 1 - n
           /\ \A k \in 1 .. Len(q) - n : r[k] = q[k + n]
           /\ r[Len(q) + 1 - n] = x
<1>1. PICK l : l = Append(q, x)
  OBVIOUS
<1>2. /\ Len(q) \in Nat /\ l \in Seq(S) /\ Len(l) = Len(q) + 1
      /\ \A k \in 1 .. Len(q) : l[k] = q[k]
      /\ l[Len(q) + 1] = x
  BY <1>1, AppendProperties, LenProperties
<1>3. /\ n + 1 \in Int /\ Len(q) + 1 \in Int /\ n + 1 <= Len(q) + 1
      /\ \A i \in n + 1 .. Len(q) + 1 : l[i] \in S
  BY <1>2, ElementOfSeq
<1>4. /\ r \in Seq(S)
      /\ Len(r) = IF n + 1 <= Len(q) + 1 THEN (Len(q) + 1) - (n + 1) + 1 ELSE 0
      /\ \A k \in 1 .. (Len(q) + 1) - (n + 1) + 1 : r[k] = l[(n + 1) + k - 1]
  BY <1>1, <1>3, SubSeqProperties
<1>5. ASSUME NEW k \in 1 .. Len(q) - n PROVE r[k] = q[k + n]
  <2>1. k \in 1 .. (Len(q) + 1) - (n + 1) + 1 /\ (n + 1) + k - 1 = k + n /\ k + n \in 1 .. Len(q)
    BY <1>2
  <2> QED BY <1>2, <1>4, <2>1
<1>6. r[Len(q) + 1 - n] = x
  <2>1. /\ Len(q) + 1 - n \in 1 .. (Len(q) + 1) - (n + 1) + 1
        /\ (n + 1) + (Len(q) + 1 - n) - 1 = Len(q) + 1
    BY <1>2
  <2> QED BY <1>2, <1>4, <2>1
<1>7. Len(r) = Len(q) + 1 - n
  BY <1>2, <1>3, <1>4
<1> QED BY <1>4, <1>5, <1>6, <1>7

\* An entry for the next pid makes a history of one more.
LEMMA BeginFact ==
    ASSUME Table, pid = 0, process_begin(process_choose_slot), pid' = next_pid, stage' = "begun"
    PROVE  Table'
<1> USE ProcessAssumption
<1> DEFINE n == IF Len(latest) = ROOT_PROCESS_MAX THEN 1 ELSE 0
           s == process_choose_slot.slot
           c == replacement_cursor
           e == replacement_cursor'
           len == Len(latest)
           l == latest'
           pids == next_pid'
<1>0. /\ len \in Nat /\ len <= ROOT_PROCESS_MAX /\ n \in 0 .. 1 /\ n <= len
      /\ n = 1 <=> len = ROOT_PROCESS_MAX
      /\ next_pid \in 1 .. PID_MAX /\ c \in 0 .. ROOT_PROCESS_MAX - 1
      /\ latest \in Seq(1 .. PID_MAX)
      /\ process_table \in [Slots -> Entry]
  BY DEF Table, HistoryInv, ProcessTypeOK, Slots
<1>1. /\ l \in Seq(1 .. PID_MAX)
      /\ Len(l) = len + 1 - n
      /\ \A k \in 1 .. len - n : l[k] = latest[k + n]
      /\ l[len + 1 - n] = next_pid
  <2>1. l = SubSeq(Append(latest, next_pid), n + 1, len + 1)
    BY <1>0 DEF process_begin
  <2>2. latest \in Seq(1 .. PID_MAX) /\ next_pid \in 1 .. PID_MAX /\ n \in 0 .. 1 /\ n <= len
    BY <1>0
  <2> HIDE DEF n, l
  <2> QED BY <2>1, <2>2, HistoryFact
<1>2. pids = PidAfter(next_pid) /\ pids \in 1 .. PID_MAX
  BY <1>0, PidAfterFact DEF process_begin
<1>3. /\ s \in Slots /\ e \in Slots /\ c \in Slots
      /\ process_table' = [process_table EXCEPT ![s] =
           [used |-> TRUE, pid |-> next_pid, state |-> "ready", exit_code |-> 0]]
      /\ s = IF n = 0 THEN len ELSE c
      /\ e = IF n = 0 THEN 0 ELSE IF c = ROOT_PROCESS_MAX - 1 THEN 0 ELSE c + 1
      /\ n = 0 => c = 0
  BY <1>0, ChooseFact DEF process_begin, Slots, Table, TableInv
<1> HIDE DEF n, s, c, e, len, l, pids
<1>4. /\ RankFrom(e, s) = len + 1 - n
      /\ \A i \in Slots : i # s => /\ RankFrom(e, i) = RankFrom(c, i) - n
                                   /\ RankFrom(c, i) > n
                                   /\ RankFrom(e, i) # len + 1 - n
  <2>1. CASE n = 1
    <3>1. /\ RankFrom(e, c) = ROOT_PROCESS_MAX
          /\ \A i \in Slots : i # c => RankFrom(e, i) = RankFrom(c, i) - 1 /\ RankFrom(c, i) > 1
      BY <1>3, <2>1, RankTurns
    <3>2. \A i \in Slots : i # c => RankFrom(e, i) # ROOT_PROCESS_MAX
      BY <1>3, <3>1, RankFact
    <3>3. s = c /\ len + 1 - n = ROOT_PROCESS_MAX BY <1>0, <1>3, <2>1
    <3> QED BY <2>1, <3>1, <3>2, <3>3
  <2>2. CASE n = 0
    BY <1>0, <1>3, <2>2 DEF RankFrom, Slots
  <2> QED BY <1>0, <2>1, <2>2
<1>5. /\ process_table'[s] = [used |-> TRUE, pid |-> next_pid, state |-> "ready", exit_code |-> 0]
      /\ \A i \in Slots : i # s => process_table'[i] = process_table[i]
  BY <1>0, <1>3
<1>6. \A k \in 1 .. Len(l) : l[k] = PidBefore(pids, Len(l) + 1 - k)
  <2> SUFFICES ASSUME NEW k \in 1 .. Len(l) PROVE l[k] = PidBefore(pids, Len(l) + 1 - k)
    OBVIOUS
  <2>1. CASE k = Len(l)
    <3>1. Len(l) + 1 - k = 1 BY <1>0, <1>1, <2>1
    <3> QED BY <1>0, <1>1, <1>2, <2>1, <3>1, PidAfterFact
  <2>2. CASE k # Len(l)
    <3> DEFINE d == len + 1 - (k + n)
    <3>1. /\ k + n \in 1 .. len /\ k \in 1 .. len - n
          /\ d \in 1 .. PID_MAX - 1 /\ Len(l) + 1 - k = d + 1
      BY <1>0, <1>1, <2>2
    <3>2. latest[k + n] = PidBefore(next_pid, d)
      BY <3>1 DEF Table, HistoryInv, len
    <3> HIDE DEF d
    <3>3. PidBefore(pids, d + 1) = PidBefore(next_pid, d)
      BY <1>0, <1>2, <3>1, PidAfterFact
    <3> QED BY <1>1, <3>1, <3>2, <3>3
  <2> QED BY <2>1, <2>2
<1>7. Len(l) <= ROOT_PROCESS_MAX /\ (Len(l) < ROOT_PROCESS_MAX => e = 0)
  BY <1>0, <1>1, <1>3
<1>8. ASSUME NEW i \in Slots
      PROVE  /\ process_table'[i].used <=> RankFrom(e, i) <= Len(l)
             /\ process_table'[i].used => process_table'[i].pid = l[RankFrom(e, i)]
             /\ process_table'[i].state =
                  IF ~process_table'[i].used THEN "unused"
                  ELSE IF RankFrom(e, i) = Len(l) THEN "ready" ELSE "exited"
  <2>1. CASE i = s
    BY <1>0, <1>1, <1>4, <1>5, <2>1
  <2>2. CASE i # s
    <3> DEFINE k == RankFrom(c, i)
    <3>1. /\ process_table'[i] = process_table[i] /\ RankFrom(e, i) = k - n
          /\ k > n /\ k - n # Len(l) /\ k \in 1 .. ROOT_PROCESS_MAX
      <4>1. k \in 1 .. ROOT_PROCESS_MAX BY <1>3, RankFact
      <4>2. RankFrom(e, i) = k - n /\ k > n /\ RankFrom(e, i) # len + 1 - n BY <1>4, <2>2
      <4> QED BY <1>1, <1>5, <2>2, <4>1, <4>2
    <3>2. /\ process_table[i].used <=> k <= len
          /\ process_table[i].used => process_table[i].pid = latest[k]
          /\ process_table[i].state = IF ~process_table[i].used THEN "unused" ELSE "exited"
      BY DEF Table, TableInv, StateInv, Rank, c, len
    <3> HIDE DEF k
    <3>3. k <= len => k - n \in 1 .. len - n /\ (k - n) + n = k
      BY <1>0, <3>1
    <3> QED BY <1>0, <1>1, <3>1, <3>2, <3>3
  <2> QED BY <2>1, <2>2
<1>9. HistoryInv'
  BY <1>1, <1>6, <1>7 DEF HistoryInv, l, pids
<1>10. TableInv'
  BY <1>7, <1>8 DEF TableInv, Rank, l, e
<1>11. StateInv'
  <2>1. pid' # 0 /\ stage' = "begun" /\ Len(l) > 0 /\ pid' = l[Len(l)]
    BY <1>0, <1>1
  <2> QED BY <1>8, <2>1 DEF StateInv, Rank, l, e
<1>12. ProcessTypeOK'
  <2>1. process_table' \in [Slots -> Entry]
    BY <1>0, <1>3 DEF Entry, States
  <2> QED BY <1>0, <1>2, <1>3, <2>1 DEF ProcessTypeOK, e, pids
<1> QED BY <1>9, <1>10, <1>11, <1>12 DEF Table

-----------------------------------------------------------------------------
(* process_mark_running and process_mark_exit.                             *)

\* The used slots are ranked from 1 to the length of the history.
LEMMA UsedFact ==
    ASSUME Table
    PROVE  /\ Len(latest) \in Nat /\ DOMAIN latest = 1 .. Len(latest)
           /\ \A i \in Slots : /\ i \notin Unused <=> Rank(i) \in 1 .. Len(latest)
                               /\ i \notin Unused => process_table[i].pid = latest[Rank(i)]
           /\ \A i, j \in Slots : Rank(i) = Rank(j) => i = j
           /\ \A k \in 1 .. Len(latest) : \E i \in Slots \ Unused : Rank(i) = k
<1>1. /\ Len(latest) \in Nat /\ DOMAIN latest = 1 .. Len(latest)
      /\ Len(latest) <= ROOT_PROCESS_MAX /\ ROOT_PROCESS_MAX \in Nat
      /\ replacement_cursor \in Slots
  BY ProcessAssumption DEF Table, HistoryInv, ProcessTypeOK
<1>2. \A i \in Slots : Rank(i) \in 1 .. ROOT_PROCESS_MAX
  BY <1>1, RankFact DEF Rank
<1>3. ASSUME NEW i \in Slots
      PROVE  /\ i \notin Unused <=> Rank(i) \in 1 .. Len(latest)
             /\ i \notin Unused => process_table[i].pid = latest[Rank(i)]
  <2>1. i \notin Unused <=> Rank(i) <= Len(latest)
    BY DEF Unused, Table, TableInv
  <2>2. Rank(i) <= Len(latest) <=> Rank(i) \in 1 .. Len(latest)
    BY <1>1, <1>2
  <2> QED BY <2>1, <2>2 DEF Unused, Table, TableInv
<1>4. \A i, j \in Slots : Rank(i) = Rank(j) => i = j
  BY <1>1, RankFact DEF Rank
<1>5. ASSUME NEW k \in 1 .. Len(latest) PROVE \E i \in Slots \ Unused : Rank(i) = k
  <2>1. k \in 1 .. ROOT_PROCESS_MAX BY <1>1
  <2>2. PICK i \in Slots : Rank(i) = k BY <1>1, <2>1, RankFact DEF Rank
  <2> QED BY <1>3, <2>2
<1> QED BY <1>1, <1>3, <1>4, <1>5

\* The pid of the application that is loaded leads to its own entry.
LEMMA FindFact ==
    ASSUME Table, pid # 0
    PROVE  \E i \in Slots : /\ process_find(pid) = {i} /\ Rank(i) = Len(latest)
                            /\ process_table[i].used
<1>1. Len(latest) \in 1 .. Len(latest) /\ pid = latest[Len(latest)]
  BY UsedFact DEF Table, StateInv
<1>2. PICK i \in Slots \ Unused : Rank(i) = Len(latest)
  BY <1>1, UsedFact
<1>3. process_table[i].used /\ process_table[i].pid = pid
  BY <1>1, <1>2, UsedFact DEF Unused
<1>4. ASSUME NEW j \in Slots, process_table[j].used, process_table[j].pid = pid
      PROVE  j = i
  <2>1. Rank(j) \in 1 .. Len(latest) /\ latest[Rank(j)] = latest[Len(latest)]
    BY <1>1, <1>4, UsedFact DEF Unused
  <2>2. Rank(j) = Rank(i)
    BY <1>1, <1>2, <2>1, PidFact DEF Table
  <2> QED BY <2>2, UsedFact
<1>5. process_find(pid) = {i}
  BY <1>3, <1>4 DEF process_find
<1> QED BY <1>2, <1>3, <1>5

LEMMA EnterMark ==
    ASSUME Table, pid # 0, NEW state \in States, NEW code \in ExitCode, Mark(pid, state, code),
           UNCHANGED <<next_pid, replacement_cursor, latest>>,
           \/ pid' = pid /\ stage' = "run" /\ state = "running"
           \/ pid' = 0 /\ stage' = "idle" /\ state = "exited"
    PROVE  Table'
<1>1. PICK i \in Slots : /\ process_find(pid) = {i} /\ Rank(i) = Len(latest)
                         /\ process_table[i].used
  BY FindFact
<1>2. Lowest(process_find(pid)) = i
  <2>1. {i} \in SUBSET Int /\ i \in {i} /\ \A j \in {i} : i <= j
    BY ProcessAssumption DEF Slots
  <2> QED BY <1>1, <2>1, LowestFact
<1>3. process_table' = [process_table EXCEPT ![i].state = state, ![i].exit_code = code]
  BY <1>1, <1>2 DEF Mark
<1>4. /\ process_table' \in [Slots -> Entry]
      /\ process_table'[i].state = state
      /\ \A j \in Slots : j # i => process_table'[j] = process_table[j]
      /\ \A j \in Slots : /\ process_table'[j].used = process_table[j].used
                          /\ process_table'[j].pid = process_table[j].pid
  BY <1>3 DEF Table, ProcessTypeOK, Entry
<1>5. ProcessTypeOK'
  BY <1>4, ProcessAssumption DEF Table, ProcessTypeOK
<1>6. HistoryInv' /\ TableInv'
  BY <1>4 DEF Table, HistoryInv, TableInv, Rank
<1>7. StateInv'
  <2>1. \A j \in Slots : j # i => Rank(j) # Len(latest)
    BY <1>1, RankFact DEF Table, ProcessTypeOK, Rank
  <2>2. \A j \in Slots : j # i => process_table[j].state =
          IF ~process_table[j].used THEN "unused" ELSE "exited"
    BY <2>1 DEF Table, StateInv
  <2> QED BY <1>1, <1>4, <2>1, <2>2 DEF Table, StateInv, Rank
<1> QED BY <1>5, <1>6, <1>7 DEF Table

-----------------------------------------------------------------------------
(* Every step.                                                             *)

LEMMA TableFact ==
    ASSUME Table, ProcessNext
    PROVE  Table'
<1> USE DEF Reject, Leave, Advance
<1>1. CASE elf_loader_run BY <1>1, StayIdle, QuietFact DEF elf_loader_run
<1>2. CASE Load
  BY <1>2, StayIdle, QuietFact
     DEF Load, FileRejected, FileRead, LayoutRejected, ImageLoaded, ImageNoMemory
<1>3. CASE Link
  BY <1>3, StayIdle, QuietFact
     DEF Link, SymbolsRejected, SymbolsFound, RelocationRejected, Relocated, EntryMissing
<1>4. CASE ProcessBegins
  BY <1>4, StayIdle, QuietFact, BeginFact DEF ProcessBegins
<1>5. CASE Enter
  <2>1. pid # 0 /\ "running" \in States /\ 0 \in ExitCode
    BY <1>5, ProcessAssumption DEF Enter, Table, StateInv, States
  <2> QED BY <1>5, <2>1, EnterMark DEF Enter
<1>6. ASSUME NEW code \in ExitCode, Exit(code) PROVE Table'
  <2>1. pid # 0 /\ "exited" \in States
    BY <1>6 DEF Exit, Table, StateInv, States
  <2> QED BY <1>6, <2>1, EnterMark DEF Exit
<1> QED BY <1>1, <1>2, <1>3, <1>4, <1>5, <1>6 DEF ProcessNext, Run

\* The inductive invariant holds of every state of the loader and the table.
THEOREM ProcessInvariant == ProcessSpec => [](Table /\ BlocksInv)
<1>1. ProcessInit => Table /\ BlocksInv
  <2> SUFFICES ASSUME ProcessInit PROVE Table /\ BlocksInv OBVIOUS
  <2> USE ProcessAssumption DEF ProcessInit, process_manager_init
  <2>1. BlocksInv BY DEF BlocksInv, NothingLeaks
  <2>2. ProcessTypeOK BY DEF ProcessTypeOK, Slots, Entry, States, NoEntry
  <2>3. HistoryInv /\ Len(latest) = 0 BY DEF HistoryInv
  <2>4. \A i \in Slots : Rank(i) >= 1 /\ process_table[i] = NoEntry BY DEF Rank, RankFrom, Slots
  <2>5. TableInv BY <2>3, <2>4 DEF TableInv, NoEntry, Rank, RankFrom, Slots
  <2>6. StateInv BY <2>4 DEF StateInv, NoEntry
  <2> QED BY <2>1, <2>2, <2>3, <2>5, <2>6 DEF Table
<1>2. Table /\ BlocksInv /\ [ProcessNext]_processVars => (Table /\ BlocksInv)'
  <2>1. CASE ProcessNext BY <2>1, TableFact, BlocksFact
  <2>2. CASE UNCHANGED processVars
    BY <2>2 DEF Table, BlocksInv, NothingLeaks, ProcessTypeOK, HistoryInv, TableInv, StateInv,
       Rank, processVars
  <2> QED BY <2>1, <2>2
<1> QED BY <1>1, <1>2, PTL DEF ProcessSpec

\* Whichever return elf_loader_run takes, it has given back each of its blocks
\* exactly once.
THEOREM ProcessNothingLeaks == ProcessSpec => []NothingLeaks
<1>1. BlocksInv => NothingLeaks BY DEF BlocksInv
<1> QED BY <1>1, ProcessInvariant, PTL

\* As many slots are used as there are pids in the history.
LEMMA UsedCount ==
    ASSUME Table
    PROVE  Cardinality(Slots \ Unused) = Len(latest)
<1> DEFINE U == Slots \ Unused
           f == [i \in U |-> Rank(i)]
<1>1. /\ Len(latest) \in Nat
      /\ \A i \in U : Rank(i) \in 1 .. Len(latest)
      /\ \A i, j \in U : Rank(i) = Rank(j) => i = j
      /\ \A k \in 1 .. Len(latest) : \E i \in U : Rank(i) = k
  BY UsedFact
<1>2. f \in Bijection(U, 1 .. Len(latest))
  BY <1>1 DEF Injection, IsInjective, Surjection, Bijection
<1>3. ExistsBijection(U, 1 .. Len(latest))
  BY <1>2 DEF ExistsBijection
<1>4. IsFiniteSet(U)
  <2>1. IsFiniteSet(Slots)
    <3>1. 0 \in Int /\ ROOT_PROCESS_MAX - 1 \in Int BY ProcessAssumption
    <3> QED BY <3>1, FS_Interval DEF Slots
  <2> QED BY <2>1, FS_Subset
<1>5. Cardinality(1 .. Len(latest)) = Len(latest)
  <2>1. PICK n : n = Len(latest) OBVIOUS
  <2>2. 1 \in Int /\ n \in Int /\ n >= 0 BY <1>1, <2>1
  <2>3. Cardinality(1 .. n) = IF 1 > n THEN 0 ELSE n - 1 + 1 BY <2>2, FS_Interval
  <2> QED BY <2>1, <2>2, <2>3
<1> QED BY <1>3, <1>4, <1>5, FS_Bijection

\* The process table is the history of the latest runs, its pids differ after
\* any number of wraps of the counter, the application that runs is the only
\* one not ended, and process_choose_slot always finds a slot.
THEOREM ProcessKeepsLatest == ProcessSpec => []KeepsLatest
<1>1. ASSUME Table PROVE KeepsLatest
  <2>1. ProcessTypeOK BY <1>1 DEF Table
  <2>2. stage = "entry" => process_choose_slot.slot < ROOT_PROCESS_MAX
    BY <1>1, StayIdle, ChooseFact, ProcessAssumption DEF Slots
  <2>3. {process_table[i].pid : i \in Live} = IF pid = 0 THEN {} ELSE {pid}
    <3>1. CASE pid = 0
      <4>1. Live = {} BY <1>1, <3>1 DEF Table, StateInv, Live
      <4> QED BY <3>1, <4>1
    <3>2. CASE pid # 0
      <4>1. PICK i \in Slots : /\ process_find(pid) = {i} /\ Rank(i) = Len(latest)
                               /\ process_table[i].used
        BY <1>1, <3>2, FindFact
      <4>2. \A j \in Slots : Rank(j) = Rank(i) => j = i
        BY <1>1, RankFact DEF Table, ProcessTypeOK, Rank
      <4>3. Live = {i}
        BY <1>1, <3>2, <4>1, <4>2 DEF Table, StateInv, Live
      <4>4. process_table[i].pid = pid BY <4>1 DEF process_find
      <4> QED BY <3>2, <4>3, <4>4
    <3> QED BY <3>1, <3>2
  <2>4. {process_table[i].pid : i \in Slots \ Unused} = {latest[k] : k \in DOMAIN latest}
    BY <1>1, UsedFact
  <2>5. \A i, j \in Slots \ Unused : i # j => process_table[i].pid # process_table[j].pid
    <3> SUFFICES ASSUME NEW i \in Slots \ Unused, NEW j \in Slots \ Unused,
                        process_table[i].pid = process_table[j].pid
                 PROVE  i = j
      OBVIOUS
    <3>1. Rank(i) = Rank(j) BY <1>1, UsedFact, PidFact DEF Table
    <3> QED BY <1>1, <3>1, UsedFact
  <2> QED BY <1>1, <2>1, <2>2, <2>3, <2>4, <2>5, UsedCount DEF KeepsLatest
<1> QED BY <1>1, ProcessInvariant, PTL

-----------------------------------------------------------------------------
(* The timer: arithmetic.                                                  *)

LEMMA DivMod ==
    ASSUME NEW h \in Nat \ {0}, NEW t \in Nat
    PROVE  t \div h \in Nat /\ t % h \in 0 .. h - 1 /\ t = (t \div h) * h + (t % h)
  OBVIOUS

LEMMA TimesGrows ==
    ASSUME NEW h \in Nat, NEW i \in Int, NEW j \in Int, i < j
    PROVE  i * h + h <= j * h
<1>1. PICK d \in Nat : j = i + 1 + d
  <2>1. j - i - 1 \in Nat /\ j = i + 1 + (j - i - 1) OBVIOUS
  <2> QED BY <2>1
<1>2. (i + 1 + d) * h = i * h + h + d * h /\ d * h >= 0
  BY Z3
<1> QED BY <1>1, <1>2

LEMMA TimesOrder ==
    ASSUME NEW h \in Nat, NEW i \in Nat, NEW j \in Nat, i <= j
    PROVE  i * h \in Nat /\ j * h \in Nat /\ i * h <= j * h
  BY TimesGrows

\* Two counts less than HALF apart with the same low half are the same.
LEMMA SameLow ==
    ASSUME NEW h \in Nat \ {0}, NEW a \in Nat, NEW c \in Nat, a <= c, c - a < h, a % h = c % h
    PROVE  a = c
<1>1. PICK i \in Nat, j \in Nat : i = a \div h /\ j = c \div h
  BY DivMod
<1>2. PICK r \in 0 .. h - 1 : a = i * h + r /\ c = j * h + r
  BY <1>1, DivMod
<1>3. ~(i < j) BY <1>2, TimesGrows
<1>4. ~(j < i) BY <1>2, TimesGrows
<1> QED BY <1>2, <1>3, <1>4

LEMMA DivOrder ==
    ASSUME NEW h \in Nat \ {0}, NEW a \in Nat, NEW c \in Nat, a <= c
    PROVE  a \div h <= c \div h
<1>1. PICK i \in Nat, j \in Nat : i = a \div h /\ j = c \div h
  BY DivMod
<1>2. PICK r \in 0 .. h - 1, s \in 0 .. h - 1 : a = i * h + r /\ c = j * h + s
  BY <1>1, DivMod
<1>3. ~(j < i) BY <1>2, TimesGrows
<1> QED BY <1>1, <1>3

LEMMA MillisOrder ==
    ASSUME NEW a \in Nat, NEW c \in Nat, a <= c
    PROVE  Millis(a) \in Nat /\ Millis(c) \in Nat /\ Millis(a) <= Millis(c)
<1>1. a * SECOND \in Nat /\ c * SECOND \in Nat /\ a * SECOND <= c * SECOND
  BY TimesOrder, TimerAssumption
<1> QED BY <1>1, DivOrder, DivMod, TimerAssumption DEF Millis

-----------------------------------------------------------------------------
(* One reading.                                                            *)

Orders == {"low", "high"}

\* Both readings agree: they were taken of one count.  The half read twice
\* last around the other one did not change, so the counter stood still.
LEMMA ReadingFact ==
    ASSUME NEW since \in Nat, NEW now \in Nat, NEW o \in Orders,
           NEW a \in since .. now, NEW b \in a .. now, NEW c \in b .. now, NEW d \in c .. now,
           now - since < HALF,
           NEW r \in [Orders -> Int],
           r[o] = Half(a, o), r[Other(o)] = Half(b, Other(o)),
           r[o] = Half(c, o), r[Other(o)] = Half(d, Other(o))
    PROVE  Whole(r) \in since .. now
<1>0. /\ a \in Nat /\ b \in Nat /\ c \in Nat /\ d \in Nat /\ HALF \in Nat \ {0}
      /\ a <= b /\ b <= c /\ c <= d /\ d <= now /\ since <= a
      /\ a <= c /\ c - a < HALF /\ b <= d /\ d - b < HALF
  BY TimerAssumption
<1>1. CASE o = "low"
  <2>1. r["low"] = a % HALF /\ a % HALF = c % HALF /\ r["high"] = b \div HALF
    BY <1>1 DEF Half, Other
  <2>2. a = c BY <1>0, <2>1, SameLow
  <2>3. b = a BY <1>0, <2>2
  <2>4. Whole(r) = (a \div HALF) * HALF + (a % HALF) BY <2>1, <2>3 DEF Whole
  <2>5. Whole(r) = a BY <1>0, <2>4, DivMod
  <2> QED BY <2>5
<1>2. CASE o = "high"
  <2>1. r["high"] = c \div HALF /\ r["low"] = d % HALF /\ b % HALF = d % HALF
    BY <1>2 DEF Half, Other
  <2>2. b = d BY <1>0, <2>1, SameLow
  <2>3. d = c BY <1>0, <2>2
  <2>4. Whole(r) = (c \div HALF) * HALF + (c % HALF) BY <2>1, <2>3 DEF Whole
  <2>5. Whole(r) = c BY <1>0, <2>4, DivMod
  <2> QED BY <1>0, <2>5
<1> QED BY <1>1, <1>2 DEF Orders

LEMMA HalfType ==
    ASSUME NEW t \in Nat, NEW o \in Orders
    PROVE  Half(t, o) \in Int /\ Other(o) \in Orders /\ Other(o) # o
  BY DivMod, TimerAssumption DEF Half, Other, Orders

-----------------------------------------------------------------------------
(* The inductive invariant.                                                *)

PCs == {"idle", "first", "first2", "second", "second2", "compare", "target", "check", "hlt", "done"}

TimerType ==
    /\ ticks \in Nat
    /\ timer \in [pc : PCs, next : {"idle", "target", "check"}, order : Orders,
                  first : [Orders -> Int], second : [Orders -> Int],
                  since : Nat, ms : Nat, target : Nat, began : Nat]

\* When a half was loaded.
LoadedAt(r, half, t) == r[half] = Half(t, half)

\* The halves loaded so far, each at some time during the call, in order.
ReadingInv ==
    LET o == timer.order
        p == Other(timer.order)
        span == timer.since .. ticks
    IN  /\ timer.pc = "first2" => \E a \in span : LoadedAt(timer.first, o, a)
        /\ timer.pc = "second" => \E a \in span : \E b \in a .. ticks :
             LoadedAt(timer.first, o, a) /\ LoadedAt(timer.first, p, b)
        /\ timer.pc = "second2" => \E a \in span : \E b \in a .. ticks : \E c \in b .. ticks :
             /\ LoadedAt(timer.first, o, a) /\ LoadedAt(timer.first, p, b)
             /\ LoadedAt(timer.second, o, c)
        /\ timer.pc = "compare" =>
             \E a \in span : \E b \in a .. ticks : \E c \in b .. ticks : \E d \in c .. ticks :
               /\ LoadedAt(timer.first, o, a) /\ LoadedAt(timer.first, p, b)
               /\ LoadedAt(timer.second, o, c) /\ LoadedAt(timer.second, p, d)

\* A call began in the past and sees fewer than HALF ticks.
CallInv ==
    /\ timer.since <= ticks
    /\ Reading => ticks - timer.since < HALF /\ timer.next \in {"target", "check"}
    /\ timer.pc \in {"target", "check"} =>
         timer.next = timer.pc /\ Whole(timer.first) \in timer.since .. ticks

\* The target is far enough in the future, and passed when the sleep is over.
SleepInv ==
    /\ (Reading \/ timer.pc = "target") /\ timer.next = "target" => timer.began <= timer.since
    /\ timer.pc = "hlt" => timer.next = "check"
    /\ (Reading /\ timer.next = "check") \/ timer.pc \in {"check", "hlt", "done"} =>
         timer.target >= Millis(timer.began) + timer.ms
    /\ timer.pc = "done" => Millis(ticks) >= timer.target

TimerInv == TimerType /\ ReadingInv /\ CallInv /\ SleepInv

LEMMA TimerInitInv == TimerInit => TimerInv
  BY TimerAssumption DEF TimerInit, TimerInv, TimerType, ReadingInv, CallInv, SleepInv, Reading,
     Nothing, Orders, PCs

\* A load of one half.
LEMMA LoadFact ==
    ASSUME TimerInv, NEW w \in {"first", "second"}, NEW o \in Orders, NEW q \in PCs,
           timer' = [timer EXCEPT ![w][o] = Half(ticks, o), !.pc = q], UNCHANGED ticks
    PROVE  /\ TimerType'
           /\ timer' = IF w = "first"
                       THEN [timer EXCEPT !.first = [@ EXCEPT ![o] = Half(ticks, o)], !.pc = q]
                       ELSE [timer EXCEPT !.second = [@ EXCEPT ![o] = Half(ticks, o)], !.pc = q]
  BY HalfType DEF TimerInv, TimerType

LEMMA ReadingKept ==
    ASSUME TimerInv,
           NEW q \in {"first2", "second", "second2", "compare"},
           ticks' = ticks, timer'.pc = q, Reading,
           timer'.since = timer.since, timer'.next = timer.next, timer'.began = timer.began,
           timer'.target = timer.target, timer'.ms = timer.ms
    PROVE  CallInv' /\ SleepInv'
  BY DEF TimerInv, TimerType, CallInv, SleepInv, Reading

LEMMA FirstReadingInv == TimerInv /\ FirstReading => TimerInv'
<1> SUFFICES ASSUME TimerInv, FirstReading PROVE TimerInv' OBVIOUS
<1>0. ticks' = ticks /\ ticks \in Nat /\ timer.since \in Nat /\ timer.since <= ticks /\ timer.order \in Orders
  BY DEF FirstReading, At, TimerInv, TimerType, CallInv
<1>1. TimerType' /\ timer' = [timer EXCEPT !.first = [@ EXCEPT ![timer.order] = Half(ticks, timer.order)],
                                           !.pc = "first2"]
  BY <1>0, LoadFact DEF PCs, FirstReading, At, LoadHalf
<1>2. /\ LoadedAt(timer'.first, timer.order, ticks)
      /\ timer'.pc = "first2" /\ timer'.order = timer.order /\ timer'.since = timer.since
      /\ timer'.next = timer.next /\ timer'.began = timer.began
      /\ timer'.target = timer.target /\ timer'.ms = timer.ms
  BY <1>0, <1>1 DEF TimerInv, TimerType, LoadedAt
<1>3. ReadingInv'
  BY <1>0, <1>2 DEF ReadingInv
<1>4. Reading BY DEF Reading, FirstReading, At
<1> QED BY <1>1, <1>2, <1>3, <1>4, <1>0, ReadingKept DEF TimerInv

LEMMA FirstRestInv == TimerInv /\ FirstRest => TimerInv'
<1> SUFFICES ASSUME TimerInv, FirstRest PROVE TimerInv' OBVIOUS
<1> DEFINE o == timer.order
           p == Other(timer.order)
<1>0. /\ ticks' = ticks
      /\ ticks \in Nat /\ timer.since \in Nat /\ timer.since <= ticks
      /\ o \in Orders /\ p \in Orders /\ p # o
  BY HalfType DEF FirstRest, At, TimerInv, TimerType, CallInv
<1>1. TimerType' /\ timer' = [timer EXCEPT !.first = [@ EXCEPT ![p] = Half(ticks, p)], !.pc = "second"]
  BY <1>0, LoadFact DEF PCs, FirstRest, At, LoadHalf
<1>2. /\ LoadedAt(timer'.first, p, ticks) /\ timer'.first[o] = timer.first[o]
      /\ timer'.pc = "second" /\ timer'.order = o /\ timer'.since = timer.since
      /\ timer'.next = timer.next /\ timer'.began = timer.began
      /\ timer'.target = timer.target /\ timer'.ms = timer.ms
  BY <1>0, <1>1 DEF TimerInv, TimerType, LoadedAt
<1>3. PICK a \in timer.since .. ticks : LoadedAt(timer.first, o, a)
  BY DEF TimerInv, ReadingInv, FirstRest, At
<1>4. ReadingInv'
  <2>1. ticks' \in a .. ticks' /\ LoadedAt(timer'.first, o, a) BY <1>0, <1>2, <1>3 DEF LoadedAt
  <2> QED BY <1>0, <1>2, <1>3, <2>1 DEF ReadingInv
<1>5. Reading BY DEF Reading, FirstRest, At
<1> QED BY <1>1, <1>2, <1>4, <1>5, <1>0, ReadingKept DEF TimerInv

LEMMA SecondReadingInv == TimerInv /\ SecondReading => TimerInv'
<1> SUFFICES ASSUME TimerInv, SecondReading PROVE TimerInv' OBVIOUS
<1> DEFINE o == timer.order
           p == Other(timer.order)
<1>0. /\ ticks' = ticks
      /\ ticks \in Nat /\ timer.since \in Nat /\ timer.since <= ticks
      /\ o \in Orders /\ p \in Orders /\ p # o
  BY HalfType DEF SecondReading, At, TimerInv, TimerType, CallInv
<1>1. TimerType' /\ timer' = [timer EXCEPT !.second = [@ EXCEPT ![o] = Half(ticks, o)], !.pc = "second2"]
  BY <1>0, LoadFact DEF PCs, SecondReading, At, LoadHalf
<1>2. /\ LoadedAt(timer'.second, o, ticks) /\ timer'.first = timer.first
      /\ timer'.pc = "second2" /\ timer'.order = o /\ timer'.since = timer.since
      /\ timer'.next = timer.next /\ timer'.began = timer.began
      /\ timer'.target = timer.target /\ timer'.ms = timer.ms
  BY <1>0, <1>1 DEF TimerInv, TimerType, LoadedAt
<1>3. PICK a \in timer.since .. ticks : \E b \in a .. ticks :
        LoadedAt(timer.first, o, a) /\ LoadedAt(timer.first, p, b)
  BY DEF TimerInv, ReadingInv, SecondReading, At
<1>4. PICK b \in a .. ticks : LoadedAt(timer.first, o, a) /\ LoadedAt(timer.first, p, b)
  BY <1>3
<1>5. ReadingInv'
  <2>1. ticks' \in b .. ticks' BY <1>0, <1>4
  <2> QED BY <1>0, <1>2, <1>4, <2>1 DEF ReadingInv
<1>6. Reading BY DEF Reading, SecondReading, At
<1> QED BY <1>1, <1>2, <1>5, <1>6, <1>0, ReadingKept DEF TimerInv

LEMMA SecondRestInv == TimerInv /\ SecondRest => TimerInv'
<1> SUFFICES ASSUME TimerInv, SecondRest PROVE TimerInv' OBVIOUS
<1> DEFINE o == timer.order
           p == Other(timer.order)
<1>0. /\ ticks' = ticks
      /\ ticks \in Nat /\ timer.since \in Nat /\ timer.since <= ticks
      /\ o \in Orders /\ p \in Orders /\ p # o
  BY HalfType DEF SecondRest, At, TimerInv, TimerType, CallInv
<1>1. TimerType' /\ timer' = [timer EXCEPT !.second = [@ EXCEPT ![p] = Half(ticks, p)], !.pc = "compare"]
  BY <1>0, LoadFact DEF PCs, SecondRest, At, LoadHalf
<1>2. /\ LoadedAt(timer'.second, p, ticks) /\ timer'.first = timer.first
      /\ timer'.second[o] = timer.second[o]
      /\ timer'.pc = "compare" /\ timer'.order = o /\ timer'.since = timer.since
      /\ timer'.next = timer.next /\ timer'.began = timer.began
      /\ timer'.target = timer.target /\ timer'.ms = timer.ms
  BY <1>0, <1>1 DEF TimerInv, TimerType, LoadedAt
<1>3. PICK a \in timer.since .. ticks : \E b \in a .. ticks : \E c \in b .. ticks :
        /\ LoadedAt(timer.first, o, a) /\ LoadedAt(timer.first, p, b)
        /\ LoadedAt(timer.second, o, c)
  BY DEF TimerInv, ReadingInv, SecondRest, At
<1>4. PICK b \in a .. ticks : \E c \in b .. ticks :
        /\ LoadedAt(timer.first, o, a) /\ LoadedAt(timer.first, p, b)
        /\ LoadedAt(timer.second, o, c)
  BY <1>3
<1>5. PICK c \in b .. ticks :
        /\ LoadedAt(timer.first, o, a) /\ LoadedAt(timer.first, p, b)
        /\ LoadedAt(timer.second, o, c)
  BY <1>4
<1>6. ReadingInv'
  <2>1. ticks' \in c .. ticks' /\ LoadedAt(timer'.second, o, c) BY <1>0, <1>2, <1>5 DEF LoadedAt
  <2> QED BY <1>0, <1>2, <1>5, <2>1 DEF ReadingInv
<1>7. Reading BY DEF Reading, SecondRest, At
<1> QED BY <1>1, <1>2, <1>6, <1>7, <1>0, ReadingKept DEF TimerInv

\* pit_ticks returns a count of the call, or reads again.
LEMMA CompareInv == TimerInv /\ Compare => TimerInv'
<1> SUFFICES ASSUME TimerInv, Compare PROVE TimerInv' OBVIOUS
<1> USE DEF Compare, At
<1>0. /\ ticks \in Nat /\ timer.since \in Nat /\ timer.since <= ticks /\ timer.order \in Orders
      /\ Reading /\ ticks - timer.since < HALF /\ timer.next \in {"target", "check"}
      /\ timer.first \in [Orders -> Int]
  BY DEF TimerInv, TimerType, CallInv, Reading
<1>1. CASE timer.first = timer.second
  <2>1. Whole(timer.first) \in timer.since .. ticks
    <3>1. \E a \in timer.since .. ticks : \E b \in a .. ticks : \E c \in b .. ticks :
            \E d \in c .. ticks :
              /\ LoadedAt(timer.first, timer.order, a)
              /\ LoadedAt(timer.first, Other(timer.order), b)
              /\ LoadedAt(timer.first, timer.order, c)
              /\ LoadedAt(timer.first, Other(timer.order), d)
      BY <1>1 DEF TimerInv, ReadingInv
    <3> QED BY <1>0, <3>1, ReadingFact DEF LoadedAt
  <2>2. timer' = [timer EXCEPT !.pc = timer.next] BY <1>1
  <2> QED BY <1>0, <2>1, <2>2 DEF TimerInv, TimerType, ReadingInv, CallInv, SleepInv, Reading, PCs
<1>2. CASE timer.first # timer.second
  BY <1>0, <1>2 DEF TimerInv, TimerType, ReadingInv, CallInv, SleepInv, Reading, PCs
<1> QED BY <1>1, <1>2

-----------------------------------------------------------------------------
(* Sleeping and the interrupt.                                             *)

\* A call of pit_ticks begins.
LEMMA CallStarts ==
    ASSUME TimerType', timer'.pc = "first", timer'.since = ticks', timer'.next \in {"target", "check"}
    PROVE  ReadingInv' /\ CallInv'
<1>1. ReadingInv' BY DEF ReadingInv
<1>2. ticks' \in Nat /\ ticks' - ticks' < HALF
  <2>1. \A t \in Nat : t - t < HALF BY TimerAssumption
  <2>2. ticks' \in Nat BY DEF TimerType
  <2> QED BY <2>1, <2>2
<1>3. CallInv' BY <1>2 DEF CallInv, Reading
<1> QED BY <1>1, <1>3

LEMMA SleepStarts == ASSUME TimerInv, NEW ms \in Sleeps, root_sleep_ms(ms) PROVE TimerInv'
<1>1. /\ ticks' = ticks /\ ticks \in Nat /\ ms \in Nat
      /\ timer' = [timer EXCEPT !.pc = "first", !.since = ticks, !.next = "target",
                                !.ms = ms, !.began = ticks]
  BY TimerAssumption DEF root_sleep_ms, At, Called, TimerInv, TimerType
<1>2. TimerType' BY <1>1 DEF TimerInv, TimerType, PCs
<1>3. timer'.pc = "first" /\ timer'.since = ticks /\ timer'.next = "target" /\ timer'.began = ticks
  BY <1>1 DEF TimerInv, TimerType
<1>4. SleepInv' BY <1>1, <1>3 DEF SleepInv, Reading
<1> QED BY <1>1, <1>2, <1>3, <1>4, CallStarts DEF TimerInv

LEMMA SetTargetInv == TimerInv /\ SetTarget => TimerInv'
<1> SUFFICES ASSUME TimerInv, SetTarget PROVE TimerInv' OBVIOUS
<1> DEFINE w == Whole(timer.first)
<1>0. /\ w \in Nat /\ timer.began \in Nat /\ timer.began <= w /\ ticks \in Nat
      /\ timer.ms \in Nat
  BY DEF TimerInv, TimerType, CallInv, SleepInv, SetTarget, At
<1> HIDE DEF w
<1>1. Millis(timer.began) \in Nat /\ Millis(w) \in Nat /\ Millis(timer.began) <= Millis(w)
  BY <1>0, MillisOrder
<1> PICK t \in Nat : t = Millis(w) + timer.ms BY <1>0, <1>1
<1>2. /\ timer' = [timer EXCEPT !.pc = "first", !.since = ticks, !.next = "check", !.target = t]
      /\ ticks' = ticks
  BY DEF w, SetTarget, Called, At
<1>3. TimerType' BY <1>0, <1>2 DEF TimerInv, TimerType, PCs
<1>4. /\ timer'.pc = "first" /\ timer'.since = ticks /\ timer'.next = "check" /\ ticks' = ticks
      /\ timer'.began = timer.began /\ timer'.ms = timer.ms /\ timer'.target = t
  BY <1>2 DEF TimerInv, TimerType
<1>5. SleepInv' BY <1>0, <1>1, <1>4 DEF SleepInv, Reading
<1> QED BY <1>3, <1>4, <1>5, CallStarts DEF TimerInv

LEMMA CheckTargetInv == TimerInv /\ CheckTarget => TimerInv'
<1> SUFFICES ASSUME TimerInv, CheckTarget PROVE TimerInv' OBVIOUS
<1> USE DEF CheckTarget, At
<1> DEFINE w == Whole(timer.first)
<1>0. w \in Nat /\ w <= ticks /\ ticks \in Nat /\ timer.target \in Nat
  BY DEF TimerInv, TimerType, CallInv
<1> HIDE DEF w
<1>1. Millis(ticks) \in Nat /\ Millis(w) \in Nat /\ Millis(w) <= Millis(ticks)
  BY <1>0, MillisOrder
<1>2. timer' = [timer EXCEPT !.pc = IF Millis(w) < timer.target THEN "hlt" ELSE "done"]
  BY DEF w
<1> QED BY <1>0, <1>1, <1>2
        DEF TimerInv, TimerType, ReadingInv, CallInv, SleepInv, Reading, PCs

LEMMA ReturnInv == TimerInv /\ Return => TimerInv'
  BY DEF Return, At, TimerInv, TimerType, ReadingInv, CallInv, SleepInv, Reading, PCs

LEMMA TickInv == TimerInv /\ pit_irq_handler => TimerInv'
<1> SUFFICES ASSUME TimerInv, pit_irq_handler PROVE TimerInv' OBVIOUS
<1>0. ticks \in Nat /\ ticks' = ticks + 1 /\ timer.since \in Nat /\ timer.since <= ticks
  BY DEF TimerInv, TimerType, CallInv, pit_irq_handler
<1>1. Millis(ticks) \in Nat /\ Millis(ticks') \in Nat /\ Millis(ticks) <= Millis(ticks')
  BY <1>0, MillisOrder
<1>2. CASE timer.pc = "hlt"
  <2> PICK t \in Nat : t = ticks + 1 BY <1>0
  <2>1. timer' = [timer EXCEPT !.pc = "first", !.since = t] BY <1>2 DEF pit_irq_handler
  <2>2. TimerType'
    <3>1. ticks' = t BY <1>0
    <3> QED BY <3>1, <2>1 DEF TimerInv, TimerType, PCs
  <2>3. /\ timer'.pc = "first" /\ timer'.since = ticks' /\ timer'.next = "check"
        /\ timer'.began = timer.began /\ timer'.ms = timer.ms /\ timer'.target = timer.target
    BY <1>0, <1>2, <2>1 DEF TimerInv, TimerType, SleepInv
  <2>4. SleepInv' BY <1>2, <2>3 DEF TimerInv, SleepInv, Reading
  <2> QED BY <2>2, <2>3, <2>4, CallStarts DEF TimerInv
<1>3. CASE timer.pc # "hlt"
  <2>1. timer' = timer BY <1>3 DEF pit_irq_handler
  <2>3. ReadingInv'
    <3>1. \A x \in Nat : \A t \in x .. ticks : t \in x .. ticks' BY <1>0
    <3>2. \A t \in timer.since .. ticks : t \in Nat BY <1>0
    <3>3. \A x \in Nat : \A t \in x .. ticks : t \in Nat BY <1>0
    <3> QED BY <1>0, <2>1, <3>1, <3>2, <3>3 DEF TimerInv, ReadingInv
  <2>4. CallInv'
    <3>1. Reading => ticks' - timer.since < HALF
      BY <1>0, TimerAssumption DEF pit_irq_handler
    <3>2. (Reading' <=> Reading) /\ timer.since <= ticks' BY <1>0, <2>1 DEF Reading
    <3>3. \A t \in timer.since .. ticks : t \in timer.since .. ticks' BY <1>0
    <3> QED BY <2>1, <3>1, <3>2, <3>3 DEF TimerInv, CallInv
  <2>5. SleepInv'
    BY <1>0, <1>1, <2>1 DEF TimerInv, TimerType, SleepInv, Reading
  <2> QED BY <1>0, <2>1, <2>3, <2>4, <2>5 DEF TimerInv, TimerType
<1> QED BY <1>2, <1>3

\* The invariant of pit_ticks and root_sleep_ms holds whenever the interrupt
\* comes.
THEOREM TimerInvariant == TimerSpec => []TimerInv
<1>1. TimerInv /\ [TimerNext]_timerVars => TimerInv'
  <2>1. CASE TimerNext
    BY <2>1, FirstReadingInv, FirstRestInv, SecondReadingInv, SecondRestInv, CompareInv,
       SleepStarts, SetTargetInv, CheckTargetInv, ReturnInv, TickInv DEF TimerNext
  <2>2. CASE UNCHANGED timerVars
    BY <2>2 DEF timerVars, TimerInv, TimerType, ReadingInv, CallInv, SleepInv, Reading
  <2> QED BY <2>1, <2>2
<1> QED BY <1>1, TimerInitInv, PTL DEF TimerSpec

\* pit_ticks returns a count of the time of the call, in whichever order the
\* halves are read, and root_sleep_ms never returns early.
THEOREM TimerSleptLongEnough == TimerSpec => []SleptLongEnough
<1>1. ASSUME TimerInv PROVE SleptLongEnough
  <2>1. timer.pc = "done" => Millis(ticks) >= Millis(timer.began) + timer.ms
    <3>1. /\ Millis(ticks) \in Nat /\ Millis(timer.began) \in Nat
          /\ timer.target \in Nat /\ timer.ms \in Nat
      BY <1>1, MillisOrder DEF TimerInv, TimerType
    <3> QED BY <1>1, <3>1 DEF TimerInv, SleepInv
  <2> QED BY <1>1, <2>1 DEF TimerInv, CallInv, SleptLongEnough
<1> QED BY <1>1, TimerInvariant, PTL
=============================================================================
