------------------------------- MODULE Malloc -------------------------------
(* The allocator of malloc1/malloc/mm.c on the heap of memlib.c: one list of *)
(* blocks with a tag at each end, searched first-fit, split on allocation    *)
(* and joined with free neighbours when freed.                               *)
(*                                                                           *)
(* Addresses and block sizes count words of 8 bytes from the start of the    *)
(* heap; request sizes are bytes.  Every call is one action, except that     *)
(* each iteration of the loop of find_fit is a step of its own.  The client  *)
(* holds one block per id, as mdriver.c does, fills blocks with their id and *)
(* calls the allocator only with pointers it holds.  mm_realloc of no block  *)
(* is mm_malloc, of size 0 mm_free: the client calls those.  JoinsNext,      *)
(* SplitsTooSmall, RoundsToWord, OmitsTags, CopiesOneWord, FitsStrictly and  *)
(* find_fit_stays are not used: they are mistakes to try TLC on.             *)
EXTENDS Integers, FiniteSets

CONSTANTS MaxHeap, \* MAX_HEAP, in words
          Chunk,   \* CHUNKSIZE, in words
          Uint,    \* number of values of uint32_t
          Ids,     \* the blocks a client may hold at a time
          Sizes,   \* request sizes, in bytes
          Junk     \* the content of a word nobody has written

ASSUME ChunkAssumption == Chunk \in Nat /\ Chunk >= 4 /\ Chunk % 2 = 0
ASSUME MaxHeapAssumption == MaxHeap \in Nat /\ MaxHeap >= Chunk + 4
ASSUME UintAssumption == Uint \in Nat /\ Uint > 8 * MaxHeap /\ Uint % 16 = 0
ASSUME SizesAssumption == Sizes \subseteq 1..(Uint - 1)
ASSUME IdsAssumption == Junk \notin Ids

VARIABLES mem,    \* contents of the heap, word by word
          brk,    \* mem_brk, the words handed out by mem_sbrk
          blocks, \* auxiliary: the block pointers between prologue and epilogue
          call,   \* the call under way
          live    \* what the client holds under each id

vars == <<mem, brk, blocks, call, live>>

Word == 0..(MaxHeap - 1)
Tag == [size : 0..MaxHeap, alloc : {0, 1}]
Content == Tag \cup Ids \cup {Junk}

g_heapBase == 2

NoCall == [op |-> "none", id |-> Junk, size |-> 0, asize |-> 0, bp |-> 0]
None == [ptr |-> 0, size |-> 0, filled |-> 0]

-----------------------------------------------------------------------------
\* Block arithmetic, on a heap m.
PACK(size, alloc) == [size |-> size, alloc |-> alloc]
sizeOf(m, p) == m[p].size
isAllocated(m, p) == m[p].alloc = 1
header(p) == p - 1
footer(m, p) == p + sizeOf(m, header(p)) - 2
nextBlock(m, p) == p + sizeOf(m, header(p))
prevBlock(m, p) == p - sizeOf(m, p - 2)

\* Both tags of a block.
PutBlock(m, p, size, alloc) ==
  [m EXCEPT ![p - 1] = PACK(size, alloc), ![p + size - 2] = PACK(size, alloc)]

\* A heap, the block pointers in it, and the pointer a function returns.
Heap(m, b, p) == [mem |-> m, blocks |-> b, ptr |-> p]

JoinsNext(m, b, bp) ==
  LET next == nextBlock(m, bp) IN
  IF isAllocated(m, header(next)) THEN Heap(m, b, bp)
  ELSE Heap(PutBlock(m, bp, sizeOf(m, header(bp)) + sizeOf(m, header(next)), 0),
            b \ {next}, bp)

\* Joins the free block bp with its free neighbours.
coalesce(m, b, bp) ==
  LET prev      == prevBlock(m, bp)
      next      == nextBlock(m, bp)
      prevAlloc == isAllocated(m, footer(m, prev))
      nextAlloc == isAllocated(m, header(next))
      size      == sizeOf(m, header(bp))
      prevSize  == sizeOf(m, header(prev))
      nextSize  == sizeOf(m, header(next))
  IN CASE prevAlloc /\ nextAlloc   -> Heap(m, b, bp)
       [] prevAlloc /\ ~nextAlloc  ->
            Heap(PutBlock(m, bp, size + nextSize, 0), b \ {next}, bp)
       [] ~prevAlloc /\ nextAlloc  ->
            Heap(PutBlock(m, prev, prevSize + size, 0), b \ {bp}, prev)
       [] ~prevAlloc /\ ~nextAlloc ->
            Heap(PutBlock(m, prev, prevSize + size + nextSize, 0), b \ {bp, next}, prev)

SplitsTooSmall(m, b, bp, words) ==
  LET csize == sizeOf(m, header(bp)) IN
  IF csize - words >= 2
  THEN Heap(PutBlock(PutBlock(m, bp, words, 1), bp + words, csize - words, 0),
            b \cup {bp + words}, bp)
  ELSE Heap(PutBlock(m, bp, csize, 1), b, bp)

\* Takes the first `words' words of the free block bp, and leaves the rest as a
\* free block when it can hold one.
place(m, b, bp, words) ==
  LET csize == sizeOf(m, header(bp)) IN
  IF csize - words >= 4
  THEN Heap(PutBlock(PutBlock(m, bp, words, 1), bp + words, csize - words, 0),
            b \cup {bp + words}, bp)
  ELSE Heap(PutBlock(m, bp, csize, 1), b, bp)

\* mem_sbrk gives out more words, or refuses.
CanGrow(words) == brk + words <= MaxHeap

\* The new words begin at the break, where the epilogue header ends, so that
\* header becomes the header of the new block.
extend_heap(m, b, end, words) ==
  coalesce([PutBlock(m, end, words, 0) EXCEPT ![end + words - 1] = PACK(0, 1)],
           b \cup {end}, end)

RoundsToWord(size) ==
  IF size <= 16 THEN 4 ELSE ((size + 23) % Uint) \div 8
OmitsTags(size) ==
  IF size <= 16 THEN 4 ELSE 2 * (((size + 15) % Uint) \div 16)

\* The words a request needs: the bytes asked for, two tags, rounded up to 16
\* bytes in 32-bit arithmetic.
asize(size) ==
  IF size <= 16 THEN 4 ELSE 2 * (((size + 31) % Uint) \div 16)

freeBlock(m, b, p) ==
  coalesce(PutBlock(m, p, sizeOf(m, header(p)), 0), b, p)

Lower(a, b) == IF a < b THEN a ELSE b
Higher(a, b) == IF a < b THEN b ELSE a

\* The words that hold the first n bytes.
WordsOf(n) == {i \in Word : 8 * i < n}

CopiesOneWord(m, to, from, n) == [m EXCEPT ![to] = m[from]]

memcpy(m, to, from, n) ==
  [w \in Word |-> IF w - to \in WordsOf(n) THEN m[from + (w - to)] ELSE m[w]]

-----------------------------------------------------------------------------
\* mm_init on an empty heap: the prologue, and one free block after it.
InitHeap(m) ==
  extend_heap([m EXCEPT ![1] = PACK(2, 1), ![2] = PACK(2, 1)], {}, 4, Chunk)

EmptyBrk == 4 + Chunk

Init ==
  /\ mem = InitHeap([w \in Word |-> Junk]).mem
  /\ brk = EmptyBrk
  /\ blocks = InitHeap([w \in Word |-> Junk]).blocks
  /\ call = NoCall
  /\ live = [id \in Ids |-> None]

Idle == call = NoCall

\* mem_reset_brk and mm_init: what the heap held stays in its words.
mm_init ==
  /\ Idle
  /\ mem' = InitHeap(mem).mem
  /\ brk' = EmptyBrk
  /\ blocks' = InitHeap(mem).blocks
  /\ live' = [id \in Ids |-> None]
  /\ UNCHANGED call

Start(op, id, size) ==
  /\ Idle
  /\ call' = [op |-> op, id |-> id, size |-> size, asize |-> asize(size), bp |-> g_heapBase]
  /\ UNCHANGED <<mem, brk, blocks, live>>

mm_malloc(id, size) == live[id] = None /\ Start("malloc", id, size)

\* mm_realloc with a block and a size: it begins with mm_malloc.
mm_realloc(id, size) == live[id] # None /\ Start("realloc", id, size)

mm_free(id) ==
  /\ Idle /\ live[id] # None
  /\ \E h \in {freeBlock(mem, blocks, live[id].ptr)} :
       mem' = h.mem /\ blocks' = h.blocks
  /\ live' = [live EXCEPT ![id] = None]
  /\ UNCHANGED <<brk, call>>

FitsStrictly(p) == ~isAllocated(mem, header(p)) /\ call.asize < sizeOf(mem, header(p))
Fits(p) == ~isAllocated(mem, header(p)) /\ call.asize <= sizeOf(mem, header(p))

AtEnd(p) == sizeOf(mem, header(p)) = 0

find_fit_stays ==
  /\ ~Idle /\ ~AtEnd(call.bp) /\ ~Fits(call.bp)
  /\ call' = [call EXCEPT !.bp = IF isAllocated(mem, header(call.bp)) /\ call.bp # g_heapBase
                                THEN call.bp ELSE nextBlock(mem, call.bp)]
  /\ UNCHANGED <<mem, brk, blocks, live>>

\* The loop of find_fit goes to the next block.
find_fit ==
  /\ ~Idle /\ ~AtEnd(call.bp) /\ ~Fits(call.bp)
  /\ call' = [call EXCEPT !.bp = nextBlock(mem, call.bp)]
  /\ UNCHANGED <<mem, brk, blocks, live>>

\* The call returns the block h.ptr, placed in the heap h; mm_realloc goes on to
\* copy the old block and free it.
Return(h) ==
  LET old    == live[call.id]
      copied == Lower(call.size, 8 * sizeOf(h.mem, header(old.ptr)))
      moved  == memcpy(h.mem, h.ptr, old.ptr, copied)
  IN /\ \E g \in {IF call.op = "malloc" THEN h ELSE freeBlock(moved, h.blocks, old.ptr)} :
          mem' = g.mem /\ blocks' = g.blocks
     /\ live' = [live EXCEPT ![call.id] =
                   [ptr |-> h.ptr, size |-> call.size,
                    filled |-> Lower(old.filled, call.size)]]
     /\ call' = NoCall

mm_malloc_fit ==
  /\ ~Idle /\ ~AtEnd(call.bp) /\ Fits(call.bp)
  /\ \E h \in {place(mem, blocks, call.bp, call.asize)} : Return(h)
  /\ UNCHANGED brk

mm_malloc_extend ==
  /\ ~Idle /\ AtEnd(call.bp)
  /\ \E words \in {Higher(call.asize, Chunk)} :
       /\ CanGrow(words)
       /\ brk' = brk + words
       /\ \E g \in {extend_heap(mem, blocks, brk, words)} :
          \E h \in {place(g.mem, g.blocks, g.ptr, call.asize)} : Return(h)

\* mem_sbrk refuses: the call returns NULL.
mm_malloc_fail ==
  /\ ~Idle /\ AtEnd(call.bp)
  /\ ~CanGrow(Higher(call.asize, Chunk))
  /\ call' = NoCall
  /\ UNCHANGED <<mem, brk, blocks, live>>

\* The client fills its block with the id.
memset(id) ==
  /\ Idle /\ live[id] # None
  /\ mem' = [w \in Word |-> IF w - live[id].ptr \in WordsOf(live[id].size) THEN id ELSE mem[w]]
  /\ live' = [live EXCEPT ![id].filled = live[id].size]
  /\ UNCHANGED <<brk, blocks, call>>

Next ==
  \/ \E id \in Ids, size \in Sizes : mm_malloc(id, size) \/ mm_realloc(id, size)
  \/ \E id \in Ids : mm_free(id) \/ memset(id)
  \/ mm_init \/ find_fit \/ mm_malloc_fit \/ mm_malloc_extend \/ mm_malloc_fail

Spec == Init /\ [][Next]_vars

\* A call runs on until it returns: the allocator is called by one thread.
Running == find_fit \/ mm_malloc_fit \/ mm_malloc_extend \/ mm_malloc_fail

FairSpec == Spec /\ WF_vars(Running)

-----------------------------------------------------------------------------
\* The variables have the types mm.c gives them; block pointers are 16-byte
\* aligned.
TypeOK ==
  /\ mem \in [Word -> Content]
  /\ brk \in 0..MaxHeap
  /\ blocks \subseteq {p \in Word : p % 2 = 0}
  /\ call \in {NoCall} \cup [op : {"malloc", "realloc"}, id : Ids, size : Sizes,
                             asize : Nat, bp : 0..MaxHeap]
  /\ live \in [Ids -> [ptr : Word, size : Sizes \cup {0}, filled : Sizes \cup {0}]]

Allocated(p) == isAllocated(mem, header(p))
End(p) == p + sizeOf(mem, header(p))

\* The blocks lie end to end from the prologue to the epilogue, each at least
\* the smallest size, an even number of words, with the same tag at both ends.
\* So the walks of find_fit and coalesce never leave the list.
Tiled ==
  /\ mem[1] = PACK(2, 1) /\ mem[2] = PACK(2, 1)
  /\ mem[brk - 1] = PACK(0, 1)
  /\ 4 \in blocks
  /\ \A p \in blocks :
       /\ mem[header(p)] \in Tag
       /\ sizeOf(mem, header(p)) >= 4 /\ sizeOf(mem, header(p)) % 2 = 0
       /\ mem[footer(mem, p)] = mem[header(p)]
       /\ End(p) \in blocks \cup {brk}
       /\ \A q \in blocks : q <= p \/ End(p) <= q

\* Between calls no two neighbours are free: every free space is joined, so a
\* request fails only when no run of free words is long enough.
NoFreeNeighbours ==
  \A p, q \in blocks : q = End(p) => Allocated(p) \/ Allocated(q)

\* The allocated blocks are those the client holds, each under one id and with
\* room for all the bytes asked for: nothing is lost and nothing overlaps.
HeldBlocks ==
  /\ {p \in blocks : Allocated(p)} = {live[id].ptr : id \in {i \in Ids : live[i] # None}}
  /\ \A i, j \in Ids : i # j /\ live[i] # None /\ live[j] # None => live[i].ptr # live[j].ptr
  /\ \A id \in Ids : live[id] # None =>
       live[id].size <= 8 * (sizeOf(mem, header(live[id].ptr)) - 2)

\* mm.c implements the allocator that mdriver.c expects: payloads are aligned and
\* disjoint, also from what mm_realloc is still copying, and lie below the break,
\* which no call but mm_init lowers; and no call changes what the client filled a
\* payload with, up to the smaller of the sizes of mm_realloc.
Promised == INSTANCE Allocator WITH
  Breaks <- {8 * words : words \in 0..MaxHeap}, Alignment <- 16, brk <- 8 * brk,
  held <- [id \in Ids |-> [ptr |-> 8 * live[id].ptr, size |-> live[id].size]],
  data <- [id \in Ids |-> [i \in 0..(live[id].filled - 1) |-> mem[live[id].ptr + i \div 8]]]

ImplementsAllocator == Promised!Spec

\* mm_malloc returns NULL only when no free block would do.
FailsOnlyWhenFull ==
  [][mm_malloc_fail =>
       \A p \in blocks : Allocated(p) \/ sizeOf(mem, header(p)) < call.asize]_vars

\* Every call returns: the walk of find_fit reaches a fit or the epilogue.
CallsReturn == ~Idle ~> Idle

=============================================================================
