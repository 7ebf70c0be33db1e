---------------------------- MODULE MallocProofs ----------------------------
(* What holds of the allocator for every heap, every set of ids and every    *)
(* set of request sizes that do not wrap: the heap is a list of blocks end   *)
(* to end, no two neighbours are free, the allocated blocks are those the    *)
(* client holds, a request fails only when no free block would do, and       *)
(* Malloc implements Allocator.                                              *)
EXTENDS Malloc, TLAPS

-----------------------------------------------------------------------------
(* Stretches of a heap that blocks cover end to end.                         *)

SizeAt(m, p) == sizeOf(m, header(p))

\* A block at p: an even number of words, at least 4, and equal tags.
IsBlock(m, p) ==
  /\ p \in Nat /\ p % 2 = 0
  /\ m[header(p)] \in Tag
  /\ SizeAt(m, p) >= 4 /\ SizeAt(m, p) % 2 = 0
  /\ m[footer(m, p)] = m[header(p)]

\* The blocks b of m lie end to end from the block pointer `from' to `to'.
Tiles(m, b, from, to) ==
  /\ from \in Nat /\ to \in Nat /\ from <= to
  /\ from \in b \cup {to}
  /\ \A p \in b : /\ IsBlock(m, p)
                  /\ from <= p /\ nextBlock(m, p) <= to
                  /\ nextBlock(m, p) \in b \cup {to}
  /\ \A p, q \in b : q <= p \/ nextBlock(m, p) <= q
  /\ \A x \in (b \cup {to}) \ {from} : \E p \in b : nextBlock(m, p) = x

\* Two heaps with the same words from the header of `from' to the footer before `to'.
SameWords(m, n, from, to) == \A w \in (from - 1)..(to - 2) : n[w] = m[w]

\* A block reaches at least 4 words on, and its size is a number.
LEMMA BlockSize ==
  ASSUME NEW m, NEW p, IsBlock(m, p)
  PROVE  /\ SizeAt(m, p) \in Nat /\ SizeAt(m, p) >= 4 /\ p \in Nat
         /\ nextBlock(m, p) \in Nat /\ nextBlock(m, p) >= p + 4
         /\ nextBlock(m, p) = p + SizeAt(m, p)
         /\ nextBlock(m, p) % 2 = 0
BY MaxHeapAssumption DEF IsBlock, SizeAt, sizeOf, header, nextBlock, Tag

LEMMA TilesSingle ==
  ASSUME NEW m, NEW p, IsBlock(m, p)
  PROVE  Tiles(m, {p}, p, nextBlock(m, p))
BY BlockSize DEF Tiles

LEMMA TilesNothing ==
  ASSUME NEW m, NEW p \in Nat
  PROVE  Tiles(m, {}, p, p)
BY DEF Tiles

LEMMA TilesJoin ==
  ASSUME NEW m, NEW b, NEW c, NEW from, NEW mid, NEW to,
         Tiles(m, b, from, mid), Tiles(m, c, mid, to)
  PROVE  Tiles(m, b \cup c, from, to)
<1>1. \A p \in b : p \in Nat /\ nextBlock(m, p) \in Nat /\ p + 4 <= nextBlock(m, p) /\ nextBlock(m, p) <= mid
  BY BlockSize DEF Tiles
<1>2. \A p \in c : p \in Nat /\ nextBlock(m, p) \in Nat /\ p + 4 <= nextBlock(m, p) /\ mid <= p
  BY BlockSize DEF Tiles
<1>3. \A p, q \in b \cup c : q <= p \/ nextBlock(m, p) <= q
  BY <1>1, <1>2 DEF Tiles
<1>4. \A x \in ((b \cup c) \cup {to}) \ {from} : \E p \in b \cup c : nextBlock(m, p) = x
  BY <1>1, <1>2 DEF Tiles
<1>5. \A p \in b \cup c : /\ IsBlock(m, p)
                  /\ from <= p /\ nextBlock(m, p) <= to
                  /\ nextBlock(m, p) \in (b \cup c) \cup {to}
  BY <1>1, <1>2 DEF Tiles
<1> QED BY <1>3, <1>4, <1>5 DEF Tiles

LEMMA TilesCut ==
  ASSUME NEW m, NEW b, NEW from, NEW to, NEW y \in b \cup {to}, Tiles(m, b, from, to)
  PROVE  /\ Tiles(m, {q \in b : q < y}, from, y)
         /\ Tiles(m, {q \in b : y <= q}, y, to)
<1>1. \A p \in b : p \in Nat /\ nextBlock(m, p) \in Nat /\ p + 4 <= nextBlock(m, p)
                   /\ from <= p /\ nextBlock(m, p) <= to
  BY BlockSize DEF Tiles
<1>2. y \in Nat /\ from <= y /\ y <= to
  BY <1>1 DEF Tiles
<1> DEFINE lo == {q \in b : q < y}
           hi == {q \in b : y <= q}
<1>3. Tiles(m, lo, from, y)
  <2>1. from \in lo \cup {y}
    BY <1>1, <1>2 DEF Tiles
  <2>2. \A p \in lo : nextBlock(m, p) <= y /\ nextBlock(m, p) \in lo \cup {y}
    <3> TAKE p \in lo
    <3>1. nextBlock(m, p) <= y
      BY <1>1, <1>2 DEF Tiles
    <3>2. nextBlock(m, p) \in b \cup {to}
      BY DEF Tiles
    <3> QED BY <1>1, <1>2, <3>1, <3>2
  <2>3. \A x \in (lo \cup {y}) \ {from} : \E p \in lo : nextBlock(m, p) = x
    <3> TAKE x \in (lo \cup {y}) \ {from}
    <3>1. PICK p \in b : nextBlock(m, p) = x
      BY <1>1, <1>2 DEF Tiles
    <3>2. p < y
      BY <1>1, <1>2, <3>1 DEF Tiles
    <3> QED BY <3>1, <3>2
  <2> QED BY <1>1, <1>2, <2>1, <2>2, <2>3 DEF Tiles
<1>4. Tiles(m, hi, y, to)
  <2>1. y \in hi \cup {to}
    BY <1>1, <1>2
  <2>2. \A p \in hi : nextBlock(m, p) \in hi \cup {to}
    BY <1>1, <1>2 DEF Tiles
  <2>3. \A x \in (hi \cup {to}) \ {y} : \E p \in hi : nextBlock(m, p) = x
    <3> TAKE x \in (hi \cup {to}) \ {y}
    <3>1. PICK p \in b : nextBlock(m, p) = x
      BY <1>1, <1>2 DEF Tiles
    <3>2. y <= p
      BY <1>1, <1>2, <3>1 DEF Tiles
    <3> QED BY <3>1, <3>2
  <2> QED BY <1>1, <1>2, <2>1, <2>2, <2>3 DEF Tiles
<1> QED BY <1>3, <1>4

\* Blocks see only their own words.
LEMMA TilesFrame ==
  ASSUME NEW m, NEW n, NEW b, NEW from, NEW to,
         Tiles(m, b, from, to), SameWords(m, n, from, to)
  PROVE  /\ Tiles(n, b, from, to)
         /\ \A p \in b : /\ n[header(p)] = m[header(p)]
                         /\ nextBlock(n, p) = nextBlock(m, p)
<1>1. \A p \in b : p \in Nat /\ nextBlock(m, p) \in Nat /\ p + 4 <= nextBlock(m, p)
                   /\ from <= p /\ nextBlock(m, p) <= to
  BY BlockSize DEF Tiles
<1>2. \A p \in b : n[p - 1] = m[p - 1] /\ n[nextBlock(m, p) - 2] = m[nextBlock(m, p) - 2]
  BY <1>1 DEF SameWords, Tiles
<1>3. \A p \in b : nextBlock(n, p) = nextBlock(m, p)
  BY <1>2 DEF nextBlock, sizeOf, header
<1>4. \A p \in b : IsBlock(n, p)
  <2> TAKE p \in b
  <2>1. IsBlock(m, p)
    BY DEF Tiles
  <2>2. SizeAt(n, p) = SizeAt(m, p) /\ footer(n, p) = footer(m, p) /\ footer(m, p) = nextBlock(m, p) - 2
    BY <1>1, <1>2, <2>1, BlockSize DEF SizeAt, sizeOf, header, footer, nextBlock
  <2>3. n[header(p)] = m[header(p)] /\ n[footer(n, p)] = m[footer(m, p)]
    BY <1>2, <2>2 DEF header
  <2> QED BY <2>1, <2>2, <2>3 DEF IsBlock
<1>5. Tiles(n, b, from, to)
  BY <1>1, <1>3, <1>4 DEF Tiles
<1> QED BY <1>2, <1>3, <1>5 DEF header

LEMMA TilesReplace ==
  ASSUME NEW m, NEW n, NEW b, NEW c, NEW from, NEW to, NEW p \in b, NEW x \in b \cup {to},
         Tiles(m, b, from, to), Tiles(n, c, p, x),
         SameWords(m, n, from, p), SameWords(m, n, x, to)
  PROVE  Tiles(n, {q \in b : q < p} \cup c \cup {q \in b : x <= q}, from, to)
<1>1. Tiles(n, {q \in b : q < p}, from, p)
  BY TilesCut, TilesFrame
<1>2. Tiles(n, {q \in b : x <= q}, x, to)
  BY TilesCut, TilesFrame
<1>3. Tiles(n, {q \in b : q < p} \cup c, from, x)
  BY <1>1, TilesJoin
<1> QED BY <1>2, <1>3, TilesJoin

\* Every block lies inside the stretch, and the blocks are apart.
LEMMA TilesOrder ==
  ASSUME NEW m, NEW b, NEW from, NEW to, Tiles(m, b, from, to)
  PROVE  /\ from \in Nat /\ to \in Nat
         /\ \A p \in b : /\ p \in Nat /\ SizeAt(m, p) \in Nat /\ SizeAt(m, p) >= 4
                         /\ nextBlock(m, p) = p + SizeAt(m, p)
                         /\ from <= p /\ p % 2 = 0 /\ SizeAt(m, p) % 2 = 0
                         /\ nextBlock(m, p) <= to
                         /\ nextBlock(m, p) \in b \cup {to}
         /\ \A p, q \in b : q <= p \/ nextBlock(m, p) <= q
BY BlockSize DEF Tiles, IsBlock

-----------------------------------------------------------------------------
(* Writing both tags of a block.                                             *)

LEMMA TagsWritten ==
  ASSUME NEW m \in [Word -> Content], NEW p \in Nat, NEW size \in Nat, NEW a \in {0, 1},
         p >= 1, size >= 2, p + size - 2 < MaxHeap
  PROVE  /\ PutBlock(m, p, size, a) \in [Word -> Content]
         /\ PutBlock(m, p, size, a)[p - 1] = PACK(size, a)
         /\ PutBlock(m, p, size, a)[p + size - 2] = PACK(size, a)
         /\ \A w \in Word : w # p - 1 /\ w # p + size - 2 => PutBlock(m, p, size, a)[w] = m[w]
<1>1. p - 1 \in Word /\ p + size - 2 \in Word
  BY MaxHeapAssumption, ChunkAssumption DEF Word
<1>2. size \in 0..MaxHeap
  BY MaxHeapAssumption, ChunkAssumption
<1>3. PACK(size, a) \in Content
  BY <1>2 DEF Content, Tag, PACK
<1> QED BY <1>1, <1>3 DEF PutBlock

\* The tags PutBlock writes make a block.
LEMMA PutIsBlock ==
  ASSUME NEW m \in [Word -> Content], NEW p \in Nat, NEW size \in Nat, NEW a \in {0, 1},
         p >= 1, size >= 4, p + size - 2 < MaxHeap, p % 2 = 0, size % 2 = 0
  PROVE  LET n == PutBlock(m, p, size, a) IN
         IsBlock(n, p) /\ nextBlock(n, p) = p + size
<1> DEFINE n == PutBlock(m, p, size, a)
<1> size >= 2
  OBVIOUS
<1>1. n[p - 1] = PACK(size, a) /\ n[p + size - 2] = PACK(size, a)
  BY TagsWritten, ZenonT(60)
<1>2. PACK(size, a) \in Tag
  BY MaxHeapAssumption, ChunkAssumption DEF Tag, PACK
<1> HIDE DEF n
<1>3. SizeAt(n, p) = size
  BY <1>1 DEF PACK, SizeAt, sizeOf, header
<1>4. nextBlock(n, p) = p + size /\ footer(n, p) = p + size - 2
  BY <1>3 DEF nextBlock, footer, SizeAt
<1>5. IsBlock(n, p)
  BY <1>1, <1>2, <1>3, <1>4 DEF IsBlock, header
<1> QED BY <1>4, <1>5 DEF n

-----------------------------------------------------------------------------
(* Heaps.                                                                    *)

\* A prologue and the blocks b end to end up to e.
Body(m, b, e) ==
  /\ m \in [Word -> Content]
  /\ m[1] = PACK(2, 1) /\ m[2] = PACK(2, 1)
  /\ e \in 4..MaxHeap /\ e % 2 = 0
  /\ Tiles(m, b, 4, e)

\* ... and the epilogue header.
HeapOK(m, b, e) == Body(m, b, e) /\ e > 4 /\ m[e - 1] = PACK(0, 1)

\* The block keeps its place, its tags and its payload.
Keeps(m, n, q) == SameWords(m, n, q, nextBlock(m, q))

AllocatedIn(m, b) == {q \in b : isAllocated(m, header(q))}

\* No two neighbours are free, but for those of bp.
FreeApart(m, b, bp) ==
  \A p, q \in b : p # bp /\ q # bp /\ q = nextBlock(m, p) =>
    isAllocated(m, header(p)) \/ isAllocated(m, header(q))

Apart(m, b) ==
  \A p, q \in b : q = nextBlock(m, p) =>
    isAllocated(m, header(p)) \/ isAllocated(m, header(q))

\* A block that keeps its words keeps its header and its neighbour.
LEMMA KeepsHeader ==
  ASSUME NEW m, NEW n, NEW q, IsBlock(m, q), Keeps(m, n, q)
  PROVE  /\ n[header(q)] = m[header(q)] /\ nextBlock(n, q) = nextBlock(m, q)
         /\ SizeAt(n, q) = SizeAt(m, q)
         /\ isAllocated(n, header(q)) <=> isAllocated(m, header(q))
BY BlockSize DEF Keeps, SameWords, header, nextBlock, sizeOf, SizeAt, isAllocated

\* The heap n with the block pointers c is m, where one block takes the place of
\* all blocks from p up to x.
Covered(m, b, e, p, x, a, n, c) ==
  /\ Body(n, c, e)
  /\ n[header(p)] = PACK(x - p, a) /\ nextBlock(n, p) = x
  /\ \A w \in Word : w < p - 1 \/ x - 2 < w => n[w] = m[w]
  /\ \A q \in c \ {p} : Keeps(m, n, q)

LEMMA Cover ==
  ASSUME NEW m, NEW b, NEW e, NEW p \in b, NEW x \in b \cup {e}, NEW a \in {0, 1},
         NEW size \in Nat, x = p + size, size > 0, Body(m, b, e),
         NEW n, n = PutBlock(m, p, size, a), NEW c, c = {q \in b : q <= p \/ x <= q}
  PROVE  Covered(m, b, e, p, x, a, n, c)
<1>1. Tiles(m, b, 4, e) /\ e \in 4..MaxHeap
  BY DEF Body
<1>2. x \in Nat /\ p \in Nat /\ 4 <= p /\ p + 4 <= x /\ x <= e /\ p % 2 = 0 /\ x % 2 = 0
  BY <1>1, TilesOrder DEF Body
<1>3. /\ size >= 4 /\ size % 2 = 0 /\ p + size - 2 = x - 2
      /\ p >= 1 /\ size >= 2 /\ p + size - 2 < MaxHeap
  BY <1>1, <1>2, MaxHeapAssumption, ChunkAssumption
<1>4. /\ n \in [Word -> Content] /\ n[p - 1] = PACK(size, a)
      /\ \A w \in Word : w # p - 1 /\ w # x - 2 => n[w] = m[w]
  <2>1. m \in [Word -> Content]
    BY DEF Body
  <2>2. p \in Nat /\ p >= 1 /\ size >= 2 /\ p + size - 2 < MaxHeap
    BY <1>2, <1>3
  <2>3. n \in [Word -> Content] /\ n[p - 1] = PACK(size, a)
    BY <2>1, <2>2, TagsWritten
  <2>4. \A w \in Word : w # p - 1 /\ w # p + size - 2 => n[w] = m[w]
    BY <2>1, <2>2, TagsWritten
  <2> QED BY <1>3, <2>3, <2>4
<1>5. IsBlock(n, p) /\ nextBlock(n, p) = x
  <2>1. m \in [Word -> Content]
    BY DEF Body
  <2> QED BY <1>2, <1>3, <2>1, PutIsBlock
<1>6. \A w \in Word : w < p - 1 \/ x - 2 < w => n[w] = m[w]
  BY <1>2, <1>4 DEF Word
<1>7. Tiles(n, {p}, p, x)
  BY <1>5, TilesSingle
<1>8. SameWords(m, n, 4, p) /\ SameWords(m, n, x, e)
  BY <1>1, <1>2, <1>6, MaxHeapAssumption, ChunkAssumption DEF SameWords, Word
<1>9. Tiles(n, c, 4, e)
  <2>1. Tiles(n, {q \in b : q < p} \cup {p} \cup {q \in b : x <= q}, 4, e)
    BY <1>1, <1>7, <1>8, TilesReplace
  <2>2. {q \in b : q < p} \cup {p} \cup {q \in b : x <= q} = c
    BY <1>1, <1>2, TilesOrder
  <2> QED BY <2>1, <2>2
<1>10. Body(n, c, e)
  BY <1>2, <1>4, <1>6, <1>9, MaxHeapAssumption, ChunkAssumption DEF Body, Word
<1>11. \A q \in c \ {p} : Keeps(m, n, q)
  <2> TAKE q \in c \ {p}
  <2>1. q \in Nat /\ nextBlock(m, q) \in Nat /\ 4 <= q /\ nextBlock(m, q) <= e
        /\ (nextBlock(m, q) <= p \/ x <= q)
    BY <1>1, <1>2, TilesOrder
  <2> QED BY <1>1, <1>2, <1>6, <2>1, MaxHeapAssumption DEF Keeps, SameWords, Word
<1>12. nextBlock(n, p) = x
  BY <1>5
<1> QED BY <1>4, <1>6, <1>10, <1>11, <1>12 DEF header, Covered

-----------------------------------------------------------------------------
(* coalesce.                                                                 *)

LEMMA EpilogueIsAllocated ==
  ASSUME NEW m, NEW b, NEW e, HeapOK(m, b, e)
  PROVE  isAllocated(m, header(e))
BY DEF HeapOK, isAllocated, header, PACK

\* A free neighbour after bp is a block, and what follows it is allocated.
LEMMA NextSide ==
  ASSUME NEW m, NEW b, NEW e, NEW bp \in b, NEW next, HeapOK(m, b, e), FreeApart(m, b, bp),
         next = nextBlock(m, bp), ~isAllocated(m, header(next))
  PROVE  /\ next \in b /\ bp < next /\ next < nextBlock(m, next)
         /\ nextBlock(m, next) \in b \cup {e}
         /\ nextBlock(m, next) = bp + SizeAt(m, bp) + SizeAt(m, next)
         /\ isAllocated(m, header(nextBlock(m, next)))
         /\ \A q \in b : bp < q /\ q < nextBlock(m, next) => q = next
<1>1. Tiles(m, b, 4, e)
  BY DEF HeapOK, Body
<1>2. next \in b
  BY <1>1, TilesOrder, EpilogueIsAllocated
<1>3. /\ bp < next /\ next < nextBlock(m, next) /\ nextBlock(m, next) \in b \cup {e}
      /\ nextBlock(m, next) = bp + SizeAt(m, bp) + SizeAt(m, next)
  BY <1>1, <1>2, TilesOrder
<1>4. \A q \in b : bp < q /\ q < nextBlock(m, next) => q = next
  BY <1>1, <1>2, TilesOrder
<1>5. bp \in Nat /\ next \in Nat /\ nextBlock(m, next) \in Nat
  BY <1>1, <1>2, TilesOrder
<1>6. isAllocated(m, header(nextBlock(m, next)))
  <2>1. CASE nextBlock(m, next) = e
    BY <2>1, EpilogueIsAllocated
  <2>2. CASE nextBlock(m, next) \in b
    BY <1>2, <1>3, <1>5, <2>2 DEF FreeApart
  <2> QED BY <1>3, <2>1, <2>2
<1> QED BY <1>2, <1>3, <1>4, <1>6

\* The word before the header of bp is a footer that tells of the block before.
LEMMA PrevSide ==
  ASSUME NEW m, NEW b, NEW e, NEW bp \in b, HeapOK(m, b, e), FreeApart(m, b, bp)
  PROVE  LET prev == prevBlock(m, bp) IN
         /\ footer(m, prev) = bp - 2
         /\ isAllocated(m, bp - 2) =>
              \A q \in b : nextBlock(m, q) = bp => isAllocated(m, header(q))
         /\ ~isAllocated(m, bp - 2) =>
              /\ prev \in b /\ prev < bp /\ ~isAllocated(m, header(prev))
              /\ nextBlock(m, prev) = bp /\ bp = prev + SizeAt(m, prev)
              /\ \A q \in b : nextBlock(m, q) = prev => isAllocated(m, header(q))
              /\ \A q \in b : q < bp => q <= prev
<1> DEFINE prev == prevBlock(m, bp)
<1>1. Tiles(m, b, 4, e)
  BY DEF HeapOK, Body
<1>2. CASE bp = 4
  <2>1. m[2] = PACK(2, 1) /\ m[1] = PACK(2, 1)
    BY DEF HeapOK, Body
  <2>2. prev = 2
    BY <1>2, <2>1 DEF prevBlock, sizeOf, PACK
  <2>3. footer(m, prev) = 2
    BY <2>1, <2>2 DEF footer, sizeOf, header, PACK
  <2>4. isAllocated(m, 2)
    BY <2>1 DEF isAllocated, PACK
  <2>5. \A q \in b : nextBlock(m, q) # 4
    BY <1>1, TilesOrder
  <2> QED BY <1>2, <2>3, <2>4, <2>5
<1>3. CASE bp # 4
  <2>1. PICK q \in b : nextBlock(m, q) = bp
    BY <1>1, <1>3 DEF Tiles
  <2>2. /\ q \in Nat /\ SizeAt(m, q) \in Nat /\ bp = q + SizeAt(m, q) /\ q < bp
        /\ IsBlock(m, q)
    <3>1. IsBlock(m, q)
      BY <1>1 DEF Tiles
    <3> QED BY <1>1, <2>1, <3>1, TilesOrder
  <2>3. footer(m, q) = bp - 2 /\ m[bp - 2] = m[q - 1]
    BY <2>2 DEF IsBlock, footer, header, SizeAt
  <2>4. prev = q
    BY <2>2, <2>3 DEF prevBlock, sizeOf, SizeAt, header
  <2>5. isAllocated(m, bp - 2) <=> isAllocated(m, header(q))
    BY <2>3 DEF isAllocated, header
  <2>6. \A r \in b : nextBlock(m, r) = bp => r = q
    BY <1>1, <2>1, TilesOrder
  <2>7. \A r \in b : r < bp => r <= q
    BY <1>1, <2>1, <2>2, TilesOrder
  <2>8. ~isAllocated(m, header(q)) =>
          \A r \in b : nextBlock(m, r) = q => isAllocated(m, header(r))
    BY <1>1, <2>2, TilesOrder DEF FreeApart
  <2> HIDE DEF prev
  <2>9. /\ footer(m, prev) = bp - 2
        /\ isAllocated(m, bp - 2) =>
             \A r \in b : nextBlock(m, r) = bp => isAllocated(m, header(r))
        /\ ~isAllocated(m, bp - 2) =>
             /\ prev \in b /\ prev < bp /\ ~isAllocated(m, header(prev))
             /\ nextBlock(m, prev) = bp /\ bp = prev + SizeAt(m, prev)
             /\ \A r \in b : nextBlock(m, r) = prev => isAllocated(m, header(r))
             /\ \A r \in b : r < bp => r <= prev
    BY <2>1, <2>2, <2>3, <2>4, <2>5, <2>6, <2>7, <2>8
  <2> QED BY <2>9 DEF prev
<1> QED BY <1>2, <1>3

\* One free block of the heap h takes the place of bp and its free neighbours.
Joins(m, b, e, bp, h) ==
  \E p \in b, x \in b \cup {e}, size \in Nat :
    /\ x = p + size /\ size > 0 /\ p <= bp /\ bp < x /\ SizeAt(m, bp) <= size
    /\ h = Heap(PutBlock(m, p, size, 0), {q \in b : q <= p \/ x <= q}, p)
    /\ \A q \in b : p <= q /\ q < x => ~isAllocated(m, header(q))
    /\ \A q \in b : nextBlock(m, q) = p => isAllocated(m, header(q))
    /\ isAllocated(m, header(x))

LEMMA CoalesceJoins ==
  ASSUME NEW m, NEW b, NEW e, NEW bp \in b, HeapOK(m, b, e), FreeApart(m, b, bp),
         ~isAllocated(m, header(bp))
  PROVE  Joins(m, b, e, bp, coalesce(m, b, bp))
<1> DEFINE prev == prevBlock(m, bp)
           next == nextBlock(m, bp)
           size == SizeAt(m, bp)
           prevSize == SizeAt(m, prev)
           nextSize == SizeAt(m, next)
<1>1. Tiles(m, b, 4, e)
  BY DEF HeapOK, Body
<1>2. /\ bp \in Nat /\ size \in Nat /\ size >= 4 /\ next = bp + size /\ next \in b \cup {e}
      /\ \A q \in b : q \in Nat /\ SizeAt(m, q) \in Nat
      /\ \A q \in b : q <= bp \/ next <= q
  BY <1>1, TilesOrder
<1>3. /\ footer(m, prev) = bp - 2
      /\ isAllocated(m, bp - 2) =>
           \A q \in b : nextBlock(m, q) = bp => isAllocated(m, header(q))
      /\ ~isAllocated(m, bp - 2) =>
           /\ prev \in b /\ prev < bp /\ ~isAllocated(m, header(prev))
           /\ nextBlock(m, prev) = bp /\ bp = prev + prevSize
           /\ \A q \in b : nextBlock(m, q) = prev => isAllocated(m, header(q))
           /\ \A q \in b : q < bp => q <= prev
  BY PrevSide
<1>4. ~isAllocated(m, header(next)) =>
           /\ next \in b /\ bp < next /\ next < nextBlock(m, next)
           /\ nextBlock(m, next) \in b \cup {e}
           /\ nextBlock(m, next) = bp + size + nextSize
           /\ isAllocated(m, header(nextBlock(m, next)))
           /\ \A q \in b : bp < q /\ q < nextBlock(m, next) => q = next
  BY NextSide
<1>5. m = PutBlock(m, bp, size, 0)
  <2>1. IsBlock(m, bp)
    BY <1>1 DEF Tiles
  <2>2. m[bp - 1] = PACK(size, 0)
    BY <2>1 DEF IsBlock, Tag, PACK, SizeAt, sizeOf, header, isAllocated
  <2>3. m[bp + size - 2] = PACK(size, 0)
    BY <2>1, <2>2 DEF IsBlock, footer, header, SizeAt
  <2>4. m \in [Word -> Content]
    BY DEF HeapOK, Body
  <2> HIDE DEF size
  <2> QED BY <2>2, <2>3, <2>4 DEF PutBlock
<1>6. coalesce(m, b, bp) =
        CASE isAllocated(m, bp - 2) /\ isAllocated(m, header(next)) -> Heap(m, b, bp)
          [] isAllocated(m, bp - 2) /\ ~isAllocated(m, header(next)) ->
               Heap(PutBlock(m, bp, size + nextSize, 0), b \ {next}, bp)
          [] ~isAllocated(m, bp - 2) /\ isAllocated(m, header(next)) ->
               Heap(PutBlock(m, prev, prevSize + size, 0), b \ {bp}, prev)
          [] ~isAllocated(m, bp - 2) /\ ~isAllocated(m, header(next)) ->
               Heap(PutBlock(m, prev, prevSize + size + nextSize, 0), b \ {bp, next}, prev)
  BY <1>3 DEF coalesce, SizeAt
<1>7. isAllocated(m, bp - 2) => \A q \in b : nextBlock(m, q) = bp => isAllocated(m, header(q))
  BY <1>3
<1> HIDE DEF prev, next, size, prevSize, nextSize
<1>8. CASE isAllocated(m, bp - 2) /\ isAllocated(m, header(next))
  <2>1. coalesce(m, b, bp) = Heap(m, b, bp)
    BY <1>6, <1>8
  <2>2. {q \in b : q <= bp \/ next <= q} = b
    BY <1>2
  <2>3. \A q \in b : bp <= q /\ q < next => q = bp
    BY <1>2
  <2>4. coalesce(m, b, bp) = Heap(PutBlock(m, bp, size, 0), {q \in b : q <= bp \/ next <= q}, bp)
    BY <1>5, <2>1, <2>2
  <2>5. \A q \in b : bp <= q /\ q < next => ~isAllocated(m, header(q))
    BY <2>3
  <2>6. size > 0 /\ bp <= bp /\ bp < next /\ SizeAt(m, bp) <= size
    BY <1>2 DEF size
  <2> QED BY <1>2, <1>7, <1>8, <2>4, <2>5, <2>6 DEF Joins
<1>9. CASE isAllocated(m, bp - 2) /\ ~isAllocated(m, header(next))
  <2> DEFINE x == nextBlock(m, next)
             all == size + nextSize
  <2>1. coalesce(m, b, bp) = Heap(PutBlock(m, bp, all, 0), b \ {next}, bp)
    BY <1>6, <1>9
  <2>2. nextSize \in Nat /\ x = bp + all
    BY <1>2, <1>4, <1>9 DEF nextSize
  <2>3. {q \in b : q <= bp \/ x <= q} = b \ {next}
    <3>1. x \in Nat /\ next \in Nat /\ bp < next /\ next < x
      BY <1>2, <1>4, <1>9, <2>2
    <3> HIDE DEF x
    <3>2. \A q \in b : (q <= bp \/ x <= q) <=> q # next
      BY <1>2, <1>4, <1>9, <3>1 DEF x
    <3> QED BY <3>2
  <2>4. \A q \in b : bp <= q /\ q < x => q = bp \/ q = next
    BY <1>2, <1>4, <1>9
  <2>5. \A q \in b : bp <= q /\ q < x => ~isAllocated(m, header(q))
    BY <1>9, <2>4
  <2>6. x \in b \cup {e} /\ isAllocated(m, header(x)) /\ bp < x
    BY <1>2, <1>4, <1>9, <2>2
  <2>7. all \in Nat /\ all > 0 /\ SizeAt(m, bp) <= all /\ bp <= bp
    BY <1>2, <2>2 DEF size
  <2>8. coalesce(m, b, bp) = Heap(PutBlock(m, bp, all, 0), {q \in b : q <= bp \/ x <= q}, bp)
    BY <2>1, <2>3
  <2> HIDE DEF x, all
  <2> QED BY <1>7, <1>9, <2>2, <2>5, <2>6, <2>7, <2>8 DEF Joins
<1>10. CASE ~isAllocated(m, bp - 2) /\ isAllocated(m, header(next))
  <2>1. coalesce(m, b, bp) = Heap(PutBlock(m, prev, prevSize + size, 0), b \ {bp}, prev)
    BY <1>6, <1>10
  <2>2. prevSize \in Nat /\ prev \in Nat /\ prev \in b /\ prev < bp /\ next = prev + (prevSize + size)
    <3>1. prev \in b /\ prev < bp /\ bp = prev + prevSize
      BY <1>3, <1>10
    <3>2. prevSize \in Nat
      BY <1>2, <3>1 DEF prevSize
    <3> QED BY <1>2, <3>1, <3>2
  <2>3. {q \in b : q <= prev \/ next <= q} = b \ {bp}
    <3>1. \A q \in b : q < bp => q <= prev
      BY <1>3, <1>10
    <3>2. \A q \in b : (q <= prev \/ next <= q) <=> q # bp
      BY <1>2, <2>2, <3>1
    <3> QED BY <3>2
  <2>4. \A q \in b : prev <= q /\ q < next => q = bp \/ q = prev
    BY <1>2, <1>3, <1>10, <2>2
  <2>5. \A q \in b : prev <= q /\ q < next => ~isAllocated(m, header(q))
    BY <1>3, <1>10, <2>4
  <2>6. \A q \in b : nextBlock(m, q) = prev => isAllocated(m, header(q))
    BY <1>3, <1>10
  <2>7. /\ prevSize + size \in Nat /\ prevSize + size > 0 /\ size <= prevSize + size
        /\ prev <= bp /\ bp < next
    BY <1>2, <2>2
  <2> QED BY <1>2, <1>10, <2>1, <2>2, <2>3, <2>5, <2>6, <2>7 DEF Joins, size
<1>11. CASE ~isAllocated(m, bp - 2) /\ ~isAllocated(m, header(next))
  <2> DEFINE x == nextBlock(m, next)
             all == prevSize + size + nextSize
  <2>1. coalesce(m, b, bp) = Heap(PutBlock(m, prev, all, 0), b \ {bp, next}, prev)
    BY <1>6, <1>11
  <2>2. /\ prevSize \in Nat /\ prev \in Nat /\ prev \in b /\ prev < bp /\ nextSize \in Nat
        /\ x = prev + all /\ next \in b
    <3>1. prev \in b /\ prev < bp /\ bp = prev + prevSize
      BY <1>3, <1>11
    <3>2. next \in b /\ x = bp + size + nextSize
      BY <1>4, <1>11
    <3>3. prevSize \in Nat /\ nextSize \in Nat
      BY <1>2, <3>1, <3>2 DEF prevSize, nextSize
    <3> HIDE DEF x
    <3> QED BY <1>2, <3>1, <3>2, <3>3
  <2>3. x \in b \cup {e} /\ isAllocated(m, header(x)) /\ bp < x
    BY <1>2, <1>4, <1>11, <2>2
  <2>4. \A q \in b : q <= prev \/ q = bp \/ q = next \/ x <= q
    BY <1>2, <1>3, <1>4, <1>11, <2>2, <2>3
  <2>5. {q \in b : q <= prev \/ x <= q} = b \ {bp, next}
    <3>1. x \in Nat /\ next \in Nat /\ bp < next /\ next < x
      BY <1>2, <1>4, <1>11, <2>2
    <3> HIDE DEF x, all
    <3>2. \A q \in b : (q <= prev \/ x <= q) <=> (q # bp /\ q # next)
      BY <1>2, <2>2, <2>3, <2>4, <3>1
    <3> QED BY <3>2
  <2>6. \A q \in b : prev <= q /\ q < x => ~isAllocated(m, header(q))
    BY <1>2, <1>3, <1>11, <2>2, <2>4
  <2>7. \A q \in b : nextBlock(m, q) = prev => isAllocated(m, header(q))
    BY <1>3, <1>11
  <2>8. all \in Nat /\ all > 0 /\ SizeAt(m, bp) <= all /\ prev <= bp
    BY <1>2, <2>2 DEF size
  <2> HIDE DEF x, all
  <2> QED BY <2>1, <2>2, <2>3, <2>5, <2>6, <2>7, <2>8 DEF Joins
<1> QED BY <1>8, <1>9, <1>10, <1>11
\* A heap between calls: no two neighbours are free.
Sound(m, b, e) == HeapOK(m, b, e) /\ Apart(m, b)

\* coalesce joins what is free and leaves the allocated blocks as they are.
LEMMA CoalesceKeeps ==
  ASSUME NEW m, NEW b, NEW e, NEW bp \in b, HeapOK(m, b, e), FreeApart(m, b, bp),
         ~isAllocated(m, header(bp)),
         NEW h, h = coalesce(m, b, bp)
  PROVE  /\ Sound(h.mem, h.blocks, e)
         /\ AllocatedIn(h.mem, h.blocks) = AllocatedIn(m, b)
         /\ \A q \in AllocatedIn(m, b) : Keeps(m, h.mem, q)
         /\ h.ptr \in h.blocks /\ ~isAllocated(h.mem, header(h.ptr))
         /\ SizeAt(m, bp) <= SizeAt(h.mem, h.ptr)
<1>1. PICK p \in b, x \in b \cup {e}, size \in Nat :
        /\ x = p + size /\ size > 0 /\ p <= bp /\ bp < x /\ SizeAt(m, bp) <= size
        /\ h = Heap(PutBlock(m, p, size, 0), {q \in b : q <= p \/ x <= q}, p)
        /\ \A q \in b : p <= q /\ q < x => ~isAllocated(m, header(q))
        /\ \A q \in b : nextBlock(m, q) = p => isAllocated(m, header(q))
        /\ isAllocated(m, header(x))
  <2>1. Joins(m, b, e, bp, h)
    BY CoalesceJoins
  <2> QED BY <2>1 DEF Joins
<1> DEFINE n == PutBlock(m, p, size, 0)
           c == {q \in b : q <= p \/ x <= q}
<1>n. n = PutBlock(m, p, size, 0) /\ c = {q \in b : q <= p \/ x <= q}
  OBVIOUS
<1>2. h.mem = n /\ h.blocks = c /\ h.ptr = p
  BY <1>1 DEF Heap
<1>3. Body(m, b, e) /\ Tiles(m, b, 4, e)
  BY DEF HeapOK, Body
<1>4. /\ Body(n, c, e)
      /\ n[header(p)] = PACK(size, 0) /\ nextBlock(n, p) = x
      /\ \A w \in Word : w < p - 1 \/ x - 2 < w => n[w] = m[w]
      /\ \A q \in c \ {p} : Keeps(m, n, q)
  <2>1. x = p + size /\ size > 0 /\ Body(m, b, e) /\ 0 \in {0, 1}
    BY <1>1, <1>3
  <2> HIDE DEF n, c
  <2>2. Covered(m, b, e, p, x, 0, n, c)
    BY <1>n, <2>1, Cover
  <2>3. p \in Nat
    BY <1>3, TilesOrder
  <2>4. x - p = size
    BY <2>1, <2>3
  <2> QED BY <2>2, <2>4 DEF Covered
<1> HIDE DEF n
<1>5. /\ p \in Nat /\ x \in Nat /\ e \in Nat /\ 4 <= p /\ p < x /\ x <= e /\ e <= MaxHeap
      /\ \A q \in b : q \in Nat
  BY <1>1, <1>3, TilesOrder, MaxHeapAssumption DEF Body
<1>6. p \in c
  BY <1>5
<1>7. HeapOK(n, c, e)
  <2>1. n[e - 1] = m[e - 1]
    BY <1>4, <1>5, MaxHeapAssumption DEF Word
  <2> QED BY <1>4, <2>1 DEF HeapOK
<1>8. \A q \in c \ {p} : /\ nextBlock(n, q) = nextBlock(m, q)
                         /\ isAllocated(n, header(q)) <=> isAllocated(m, header(q))
  BY <1>3, <1>4, KeepsHeader DEF Tiles
<1>9. ~isAllocated(n, header(p)) /\ SizeAt(n, p) = size
  BY <1>4 DEF isAllocated, PACK, SizeAt, sizeOf
<1>10. Apart(n, c)
  <2> SUFFICES ASSUME NEW r \in c, NEW s \in c, s = nextBlock(n, r)
               PROVE  isAllocated(n, header(r)) \/ isAllocated(n, header(s))
    BY DEF Apart
  <2>1. Tiles(n, c, 4, e)
    BY <1>4 DEF Body
  <2>2. r # s /\ r < s
    BY <2>1, TilesOrder
  <2>3. CASE r = p
    BY <1>1, <1>4, <1>8, <2>2, <2>3
  <2>4. CASE s = p
    BY <1>1, <1>8, <2>2, <2>4
  <2>5. CASE r # p /\ s # p
    <3>1. r # bp /\ s # bp
      BY <1>1, <1>3, <1>5, <2>5, TilesOrder
    <3> QED BY <1>8, <2>5, <3>1 DEF FreeApart
  <2> QED BY <2>3, <2>4, <2>5
<1>11. AllocatedIn(n, c) = AllocatedIn(m, b)
  <2>1. \A q \in b : isAllocated(m, header(q)) => q \in c \ {p}
    BY <1>1, <1>5
  <2> QED BY <1>8, <1>9, <2>1 DEF AllocatedIn
<1>12. \A q \in AllocatedIn(m, b) : Keeps(m, n, q)
  <2>1. \A q \in b : isAllocated(m, header(q)) => q \in c \ {p}
    BY <1>1, <1>5
  <2> QED BY <1>4, <2>1 DEF AllocatedIn
<1> QED BY <1>1, <1>2, <1>6, <1>7, <1>9, <1>10, <1>11, <1>12 DEF Sound

-----------------------------------------------------------------------------
(* Freeing, placing and growing.                                             *)

LEMMA FreeKeeps ==
  ASSUME NEW m, NEW b, NEW e, NEW p, Sound(m, b, e), p \in AllocatedIn(m, b),
         NEW h, h = freeBlock(m, b, p)
  PROVE  /\ Sound(h.mem, h.blocks, e)
         /\ AllocatedIn(h.mem, h.blocks) = AllocatedIn(m, b) \ {p}
         /\ \A q \in AllocatedIn(m, b) \ {p} : Keeps(m, h.mem, q)
<1> DEFINE size == SizeAt(m, p)
           n == PutBlock(m, p, size, 0)
           x == nextBlock(m, p)
           c == {q \in b : q <= p \/ x <= q}
<1>1. p \in b /\ Body(m, b, e) /\ Tiles(m, b, 4, e) /\ HeapOK(m, b, e) /\ Apart(m, b)
  BY DEF AllocatedIn, Sound, HeapOK, Body
<1>2. /\ x \in b \cup {e} /\ size \in Nat /\ size > 0 /\ x = p + size /\ p \in Nat /\ 4 <= p
      /\ x <= e /\ \A q \in b : q \in Nat
  BY <1>1, TilesOrder
<1>3. c = b
  <2>1. \A q \in b : q <= p \/ x <= q
    BY <1>1, TilesOrder
  <2> QED BY <2>1
<1>4. /\ Body(n, c, e)
      /\ n[header(p)] = PACK(size, 0) /\ nextBlock(n, p) = x
      /\ \A w \in Word : w < p - 1 \/ x - 2 < w => n[w] = m[w]
      /\ \A q \in c \ {p} : Keeps(m, n, q)
  <2>1. /\ x \in b \cup {e} /\ x = p + size /\ size \in Nat /\ size > 0
        /\ Body(m, b, e) /\ 0 \in {0, 1} /\ p \in b
    BY <1>1, <1>2
  <2>2. n = PutBlock(m, p, size, 0) /\ c = {q \in b : q <= p \/ x <= q}
    OBVIOUS
  <2> HIDE DEF size, x, n, c
  <2>3. Covered(m, b, e, p, x, 0, n, c)
    BY <2>1, <2>2, Cover
  <2>4. x - p = size
    BY <1>2
  <2> QED BY <2>3, <2>4 DEF Covered
<1>5. h = coalesce(n, b, p)
  BY DEF freeBlock, SizeAt
<1> HIDE DEF n, x, c
<1>6. HeapOK(n, b, e)
  <2>1. n[e - 1] = m[e - 1]
    BY <1>1, <1>2, <1>4, MaxHeapAssumption, ChunkAssumption DEF Word, Body
  <2> QED BY <1>1, <1>3, <1>4, <2>1 DEF HeapOK
<1>7. \A q \in b \ {p} : /\ nextBlock(n, q) = nextBlock(m, q)
                         /\ isAllocated(n, header(q)) <=> isAllocated(m, header(q))
  BY <1>1, <1>3, <1>4, KeepsHeader DEF Tiles
<1>8. ~isAllocated(n, header(p))
  BY <1>4 DEF isAllocated, PACK
<1>9. FreeApart(n, b, p)
  BY <1>1, <1>7 DEF FreeApart, Apart
<1>10. AllocatedIn(n, b) = AllocatedIn(m, b) \ {p}
  BY <1>7, <1>8 DEF AllocatedIn
<1>11. /\ Sound(h.mem, h.blocks, e)
       /\ AllocatedIn(h.mem, h.blocks) = AllocatedIn(n, b)
       /\ \A q \in AllocatedIn(n, b) : Keeps(n, h.mem, q)
  BY <1>1, <1>5, <1>6, <1>8, <1>9, CoalesceKeeps
<1>12. \A q \in AllocatedIn(m, b) \ {p} : Keeps(m, h.mem, q)
  <2> TAKE q \in AllocatedIn(m, b) \ {p}
  <2>1. Keeps(n, h.mem, q) /\ Keeps(m, n, q) /\ nextBlock(n, q) = nextBlock(m, q)
    BY <1>3, <1>4, <1>7, <1>10, <1>11 DEF AllocatedIn
  <2> QED BY <2>1 DEF Keeps, SameWords
<1> QED BY <1>10, <1>11, <1>12

\* In the heap h the block bp is allocated with room for `words' words, and all
\* else is as in m.
Placed(m, b, e, bp, words, h) ==
  /\ Sound(h.mem, h.blocks, e)
  /\ AllocatedIn(h.mem, h.blocks) = AllocatedIn(m, b) \cup {bp}
  /\ \A q \in AllocatedIn(m, b) : Keeps(m, h.mem, q)
  /\ h.ptr = bp /\ words <= SizeAt(h.mem, bp)

LEMMA PlaceWhole ==
  ASSUME NEW m, NEW b, NEW e, NEW bp \in b, NEW words \in Nat, Sound(m, b, e),
         ~isAllocated(m, header(bp)), words <= SizeAt(m, bp),
         NEW h, h = Heap(PutBlock(m, bp, SizeAt(m, bp), 1), b, bp)
  PROVE  Placed(m, b, e, bp, words, h)
<1> DEFINE size == SizeAt(m, bp)
           n == PutBlock(m, bp, size, 1)
           x == nextBlock(m, bp)
           c == {q \in b : q <= bp \/ x <= q}
<1>1. Body(m, b, e) /\ Tiles(m, b, 4, e) /\ HeapOK(m, b, e) /\ Apart(m, b)
  BY DEF Sound, HeapOK, Body
<1>2. /\ x \in b \cup {e} /\ size \in Nat /\ size > 0 /\ x = bp + size /\ bp \in Nat /\ 4 <= bp
      /\ x <= e /\ \A q \in b : q \in Nat
  BY <1>1, TilesOrder
<1>3. c = b
  <2>1. \A q \in b : q <= bp \/ x <= q
    BY <1>1, TilesOrder
  <2> QED BY <2>1
<1>4. Covered(m, b, e, bp, x, 1, n, c)
  <2>1. n = PutBlock(m, bp, size, 1) /\ c = {q \in b : q <= bp \/ x <= q} /\ 1 \in {0, 1}
    OBVIOUS
  <2> HIDE DEF size, x, n, c
  <2> QED BY <1>1, <1>2, <2>1, Cover
<1>5. h.mem = n /\ h.blocks = b /\ h.ptr = bp
  BY DEF Heap
<1>6. x - bp = size /\ words <= size
  BY <1>2
<1> HIDE DEF n, x, c, size
<1>7. /\ Body(n, b, e) /\ n[header(bp)] = PACK(size, 1)
      /\ \A w \in Word : w < bp - 1 \/ x - 2 < w => n[w] = m[w]
      /\ \A q \in b \ {bp} : Keeps(m, n, q)
  BY <1>3, <1>4, <1>6 DEF Covered
<1>8. HeapOK(n, b, e)
  <2>1. n[e - 1] = m[e - 1]
    BY <1>1, <1>2, <1>7, MaxHeapAssumption, ChunkAssumption DEF Word, Body
  <2> QED BY <1>1, <1>7, <2>1 DEF HeapOK
<1>9. \A q \in b \ {bp} : /\ nextBlock(n, q) = nextBlock(m, q)
                          /\ isAllocated(n, header(q)) <=> isAllocated(m, header(q))
  BY <1>1, <1>7, KeepsHeader DEF Tiles
<1>10. isAllocated(n, header(bp)) /\ SizeAt(n, bp) = size
  BY <1>7 DEF isAllocated, PACK, SizeAt, sizeOf
<1>11. Apart(n, b)
  BY <1>1, <1>9, <1>10 DEF Apart
<1>12. AllocatedIn(n, b) = AllocatedIn(m, b) \cup {bp}
  BY <1>9, <1>10 DEF AllocatedIn
<1>13. \A q \in AllocatedIn(m, b) : Keeps(m, n, q)
  BY <1>7 DEF AllocatedIn
<1> QED BY <1>5, <1>6, <1>8, <1>10, <1>11, <1>12, <1>13 DEF Placed, Sound

LEMMA PlaceSplit ==
  ASSUME NEW m, NEW b, NEW e, NEW bp \in b, NEW words \in Nat, Sound(m, b, e),
         ~isAllocated(m, header(bp)),
         words >= 4, words % 2 = 0, NEW rest \in Nat, rest >= 4, SizeAt(m, bp) = words + rest,
         NEW h, h = Heap(PutBlock(PutBlock(m, bp, words, 1), bp + words, rest, 0),
                         b \cup {bp + words}, bp)
  PROVE  Placed(m, b, e, bp, words, h)
<1> DEFINE x == nextBlock(m, bp)
           r == bp + words
           l == PutBlock(m, bp, words, 1)
           n == PutBlock(l, r, rest, 0)
           c == b \cup {r}
<1>1. /\ Body(m, b, e) /\ Tiles(m, b, 4, e) /\ HeapOK(m, b, e) /\ Apart(m, b)
      /\ m \in [Word -> Content]
  BY DEF Sound, HeapOK, Body
<1>2. /\ x \in b \cup {e} /\ x = r + rest /\ bp \in Nat /\ 4 <= bp /\ bp % 2 = 0
      /\ x <= e /\ \A q \in b : q \in Nat /\ (q <= bp \/ x <= q)
  BY <1>1, TilesOrder
<1>3. r \in Nat /\ bp + 4 <= r /\ r + 4 <= x /\ e \in Nat /\ e <= MaxHeap /\ MaxHeap \in Nat
  BY <1>1, <1>2, MaxHeapAssumption DEF Body
<1>4. r % 2 = 0 /\ rest % 2 = 0
  <2>1. (words + rest) % 2 = 0
    BY <1>1, TilesOrder
  <2> QED BY <1>2, <2>1
<1>5. h.mem = n /\ h.blocks = c /\ h.ptr = bp
  BY DEF Heap
<1>6. l = PutBlock(m, bp, words, 1) /\ n = PutBlock(l, r, rest, 0) /\ r = bp + words
      /\ 0 \in {0, 1} /\ 1 \in {0, 1}
  OBVIOUS
<1> HIDE DEF x, r, l, n
<1>7. bp >= 1 /\ words >= 2 /\ bp + words - 2 < MaxHeap /\ r >= 1 /\ rest >= 2 /\ r + rest - 2 < MaxHeap
  BY <1>2, <1>3, <1>6
<1>8. /\ l \in [Word -> Content] /\ l[bp - 1] = PACK(words, 1)
      /\ \A w \in Word : w # bp - 1 /\ w # bp + words - 2 => l[w] = m[w]
  <2>1. m \in [Word -> Content] /\ bp \in Nat
    BY <1>1, <1>2
  <2>2. l \in [Word -> Content] /\ l[bp - 1] = PACK(words, 1)
    BY <1>6, <1>7, <2>1, TagsWritten
  <2>3. \A w \in Word : w # bp - 1 /\ w # bp + words - 2 => l[w] = m[w]
    BY <1>6, <1>7, <2>1, TagsWritten, ZenonT(60)
  <2> QED BY <2>2, <2>3
<1>9. IsBlock(l, bp) /\ nextBlock(l, bp) = r
  BY <1>1, <1>2, <1>6, <1>7, PutIsBlock
<1>10. /\ n \in [Word -> Content] /\ n[r - 1] = PACK(rest, 0)
       /\ \A w \in Word : w # r - 1 /\ w # r + rest - 2 => n[w] = l[w]
  BY <1>3, <1>6, <1>7, <1>8, TagsWritten
<1>11. IsBlock(n, r) /\ nextBlock(n, r) = x
  BY <1>2, <1>3, <1>4, <1>6, <1>7, <1>8, PutIsBlock
<1>12. \A w \in Word : w < bp - 1 \/ x - 2 < w => n[w] = m[w]
  <2>1. \A w \in Word : w < bp - 1 \/ x - 2 < w => l[w] = m[w]
    <3> TAKE w \in Word
    <3>1. w < bp - 1 \/ x - 2 < w => w # bp - 1 /\ w # bp + words - 2
      BY <1>2, <1>3, <1>6 DEF Word
    <3> QED BY <1>8, <3>1
  <2>2. \A w \in Word : w < bp - 1 \/ x - 2 < w => n[w] = l[w]
    BY <1>2, <1>3, <1>6, <1>10 DEF Word
  <2> QED BY <2>1, <2>2
<1>13. Tiles(n, {bp}, bp, r) /\ n[bp - 1] = PACK(words, 1)
  <2>1. SameWords(l, n, bp, r)
    BY <1>2, <1>3, <1>10 DEF SameWords, Word
  <2>2. n[bp - 1] = l[bp - 1]
    BY <1>2, <1>3, <1>10 DEF Word
  <2> QED BY <1>8, <1>9, <2>1, <2>2, TilesSingle, TilesFrame
<1>14. Tiles(n, {r}, r, x)
  BY <1>11, TilesSingle
<1>15. SameWords(m, n, 4, bp) /\ SameWords(m, n, x, e)
  BY <1>2, <1>3, <1>12 DEF SameWords, Word
<1>16. Tiles(n, c, 4, e)
  <2>1. Tiles(n, {bp} \cup {r}, bp, x)
    BY <1>13, <1>14, TilesJoin
  <2>2. Tiles(n, {q \in b : q < bp} \cup ({bp} \cup {r}) \cup {q \in b : x <= q}, 4, e)
    BY <1>1, <1>2, <1>15, <2>1, TilesReplace
  <2>3. \A q \in b : q < bp \/ q = bp \/ x <= q
    BY <1>2
  <2>4. {q \in b : q < bp} \cup ({bp} \cup {r}) \cup {q \in b : x <= q} = c
    BY <2>3
  <2> QED BY <2>2, <2>4
<1>17. HeapOK(n, c, e)
  <2>1. n[e - 1] = m[e - 1] /\ n[1] = m[1] /\ n[2] = m[2]
    BY <1>2, <1>3, <1>12 DEF Word
  <2> QED BY <1>1, <1>10, <1>16, <2>1 DEF HeapOK, Body
<1>18. \A q \in b \ {bp} : Keeps(m, n, q)
  <2> TAKE q \in b \ {bp}
  <2>1. q \in Nat /\ nextBlock(m, q) \in Nat /\ 4 <= q /\ nextBlock(m, q) <= e
        /\ (nextBlock(m, q) <= bp \/ x <= q)
    BY <1>1, <1>2, TilesOrder
  <2> QED BY <1>2, <1>3, <1>12, <2>1 DEF Keeps, SameWords, Word
<1>19. \A q \in b \ {bp} : /\ nextBlock(n, q) = nextBlock(m, q)
                           /\ isAllocated(n, header(q)) <=> isAllocated(m, header(q))
  BY <1>1, <1>18, KeepsHeader DEF Tiles
<1>20. isAllocated(n, header(bp)) /\ SizeAt(n, bp) = words /\ ~isAllocated(n, header(r))
  BY <1>10, <1>13 DEF isAllocated, PACK, SizeAt, sizeOf, header
<1>21. r \notin b
  BY <1>2, <1>3
<1>22. Apart(n, c)
  <2> SUFFICES ASSUME NEW s \in c, NEW t \in c, t = nextBlock(n, s)
               PROVE  isAllocated(n, header(s)) \/ isAllocated(n, header(t))
    BY DEF Apart
  <2>1. CASE s = bp \/ t = bp
    BY <1>20, <2>1
  <2>2. CASE s = r
    <3>1. t = x /\ t \in b /\ t # bp
      BY <1>2, <1>3, <1>11, <2>2
    <3>2. isAllocated(m, header(x))
      BY <1>1, <3>1 DEF Apart, x
    <3> QED BY <1>19, <3>1, <3>2
  <2>3. CASE s # bp /\ s # r /\ t # bp
    <3>1. s \in b /\ t = nextBlock(m, s) /\ t \in b \cup {e}
      BY <1>1, <1>19, <2>3, TilesOrder
    <3>2. t \in b
      BY <1>1, <1>2, <1>3, <3>1, TilesOrder
    <3> QED BY <1>1, <1>19, <2>3, <3>1, <3>2 DEF Apart
  <2> QED BY <2>1, <2>2, <2>3
<1>23. AllocatedIn(n, c) = AllocatedIn(m, b) \cup {bp}
  BY <1>19, <1>20 DEF AllocatedIn
<1>24. \A q \in AllocatedIn(m, b) : Keeps(m, n, q)
  BY <1>18 DEF AllocatedIn
<1>25. words <= SizeAt(n, bp)
  BY <1>20
<1> QED BY <1>5, <1>17, <1>22, <1>23, <1>24, <1>25 DEF Placed, Sound

LEMMA PlaceKeeps ==
  ASSUME NEW m, NEW b, NEW e, NEW bp \in b, NEW words \in Nat, Sound(m, b, e),
         ~isAllocated(m, header(bp)), words >= 4, words % 2 = 0, words <= SizeAt(m, bp)
  PROVE  Placed(m, b, e, bp, words, place(m, b, bp, words))
<1>1. SizeAt(m, bp) \in Nat
  BY TilesOrder DEF Sound, HeapOK, Body
<1>2. CASE SizeAt(m, bp) - words >= 4
  <2> DEFINE rest == SizeAt(m, bp) - words
  <2>1. rest \in Nat /\ rest >= 4 /\ SizeAt(m, bp) = words + rest
    BY <1>1, <1>2
  <2>2. place(m, b, bp, words) =
          Heap(PutBlock(PutBlock(m, bp, words, 1), bp + words, rest, 0), b \cup {bp + words}, bp)
    BY <1>2 DEF place, SizeAt
  <2> HIDE DEF rest
  <2> QED BY <2>1, <2>2, PlaceSplit
<1>3. CASE ~(SizeAt(m, bp) - words >= 4)
  BY <1>3, PlaceWhole DEF place, SizeAt
<1> QED BY <1>2, <1>3

\* The heap grows by a free block, which is joined with a free one before it.
LEMMA ExtendKeeps ==
  ASSUME NEW m, NEW b, NEW e, NEW words \in Nat, Body(m, b, e), Apart(m, b),
         words >= 4, words % 2 = 0, e + words <= MaxHeap,
         NEW h, h = extend_heap(m, b, e, words)
  PROVE  /\ Sound(h.mem, h.blocks, e + words)
         /\ AllocatedIn(h.mem, h.blocks) = AllocatedIn(m, b)
         /\ \A q \in AllocatedIn(m, b) : Keeps(m, h.mem, q)
         /\ h.ptr \in h.blocks /\ ~isAllocated(h.mem, header(h.ptr))
         /\ words <= SizeAt(h.mem, h.ptr)
<1> DEFINE l == PutBlock(m, e, words, 0)
           n == [l EXCEPT ![e + words - 1] = PACK(0, 1)]
           c == b \cup {e}
           end == e + words
<1>1. /\ Tiles(m, b, 4, e) /\ m \in [Word -> Content] /\ MaxHeap \in Nat
      /\ e \in Nat /\ 4 <= e /\ e % 2 = 0
  BY MaxHeapAssumption DEF Body
<1>2. /\ end \in Nat /\ end % 2 = 0 /\ end >= e + 4 /\ end <= MaxHeap
      /\ e >= 1 /\ words >= 2 /\ e + words - 2 < MaxHeap
      /\ end = e + words /\ 0 \in {0, 1}
  BY <1>1
<1>3. h = coalesce(n, c, e)
  BY DEF extend_heap
<1>4. /\ l \in [Word -> Content] /\ l[e - 1] = PACK(words, 0)
  BY <1>1, <1>2, TagsWritten
<1>5. \A w \in Word : w # e - 1 /\ w # e + words - 2 => l[w] = m[w]
  BY <1>1, <1>2, TagsWritten, ZenonT(60)
<1>6. IsBlock(l, e) /\ nextBlock(l, e) = end
  BY <1>1, <1>2, PutIsBlock
<1>7. /\ n \in [Word -> Content] /\ n[end - 1] = PACK(0, 1)
      /\ \A w \in Word : w # end - 1 => n[w] = l[w]
  <2>1. PACK(0, 1) \in Content
    BY <1>1 DEF PACK, Content, Tag
  <2>2. end - 1 \in Word
    BY <1>1, <1>2 DEF Word
  <2> DEFINE k == e + words - 1
  <2>3. n = [l EXCEPT ![k] = PACK(0, 1)]
    OBVIOUS
  <2> HIDE DEF l, n
  <2>k. k = end - 1
    BY <1>1, <1>2
  <2> HIDE DEF k, end
  <2>4. n \in [Word -> Content] /\ n[k] = PACK(0, 1) /\ \A w \in Word : w # k => n[w] = l[w]
    BY <1>4, <2>1, <2>2, <2>3, <2>k
  <2> QED BY <2>4, <2>k
<1> HIDE DEF l, n, end
<1>8. Tiles(n, {e}, e, end) /\ n[e - 1] = PACK(words, 0)
  <2>1. SameWords(l, n, e, end)
    BY <1>1, <1>2, <1>7 DEF SameWords, Word
  <2>2. n[e - 1] = l[e - 1]
    BY <1>1, <1>2, <1>7 DEF Word
  <2> QED BY <1>4, <1>6, <2>1, <2>2, TilesSingle, TilesFrame
<1>9. \A w \in Word : w < e - 1 => n[w] = m[w]
  <2>1. \A w \in Word : w < e - 1 => l[w] = m[w]
    BY <1>1, <1>2, <1>5 DEF Word
  <2>2. \A w \in Word : w < e - 1 => n[w] = l[w]
    BY <1>1, <1>2, <1>7 DEF Word
  <2> QED BY <2>1, <2>2
<1>10. SameWords(m, n, 4, e)
  BY <1>1, <1>2, <1>9 DEF SameWords, Word
<1>11. /\ Tiles(n, b, 4, e)
       /\ \A p \in b : n[header(p)] = m[header(p)] /\ nextBlock(n, p) = nextBlock(m, p)
  BY <1>1, <1>10, TilesFrame
<1>12. Tiles(n, c, 4, end)
  BY <1>8, <1>11, TilesJoin
<1>13. HeapOK(n, c, end)
  <2>1. n[1] = m[1] /\ n[2] = m[2]
    BY <1>1, <1>2, <1>9 DEF Word
  <2> QED BY <1>1, <1>2, <1>7, <1>12, <2>1 DEF HeapOK, Body
<1>14. \A q \in b : /\ q \in Nat /\ q # e
                    /\ isAllocated(n, header(q)) <=> isAllocated(m, header(q))
  BY <1>1, <1>11, TilesOrder DEF isAllocated
<1>15. FreeApart(n, c, e)
  BY <1>11, <1>14 DEF FreeApart, Apart
<1>16. ~isAllocated(n, header(e)) /\ SizeAt(n, e) = words
  BY <1>8 DEF isAllocated, header, PACK, SizeAt, sizeOf
<1>17. AllocatedIn(n, c) = AllocatedIn(m, b)
  BY <1>14, <1>16 DEF AllocatedIn
<1>18. /\ Sound(h.mem, h.blocks, end)
       /\ AllocatedIn(h.mem, h.blocks) = AllocatedIn(n, c)
       /\ \A q \in AllocatedIn(n, c) : Keeps(n, h.mem, q)
       /\ h.ptr \in h.blocks /\ ~isAllocated(h.mem, header(h.ptr))
       /\ SizeAt(n, e) <= SizeAt(h.mem, h.ptr)
  <2>1. e \in c
    OBVIOUS
  <2> HIDE DEF c
  <2> QED BY <1>3, <1>13, <1>15, <1>16, <2>1, CoalesceKeeps
<1>19. \A q \in AllocatedIn(m, b) : Keeps(m, h.mem, q)
  <2> TAKE q \in AllocatedIn(m, b)
  <2>1. q \in b /\ q \in Nat /\ q >= 4 /\ nextBlock(m, q) \in Nat /\ nextBlock(m, q) <= e
    BY <1>1, TilesOrder DEF AllocatedIn
  <2>2. Keeps(m, n, q)
    BY <1>10, <2>1, <1>1 DEF Keeps, SameWords
  <2>3. Keeps(n, h.mem, q) /\ nextBlock(n, q) = nextBlock(m, q)
    BY <1>11, <1>17, <1>18, <2>1
  <2> QED BY <2>2, <2>3 DEF Keeps, SameWords
<1> QED BY <1>2, <1>16, <1>17, <1>18, <1>19

-----------------------------------------------------------------------------
(* What is written into a payload touches nothing else.                      *)

LEMMA PayloadKeeps ==
  ASSUME NEW m, NEW b, NEW e, NEW p \in b, Sound(m, b, e),
         NEW n \in [Word -> Content],
         \A w \in Word : w < p \/ nextBlock(m, p) - 2 <= w => n[w] = m[w]
  PROVE  /\ Sound(n, b, e)
         /\ AllocatedIn(n, b) = AllocatedIn(m, b)
         /\ \A q \in b : SizeAt(n, q) = SizeAt(m, q) /\ nextBlock(n, q) = nextBlock(m, q)
         /\ \A q \in b \ {p} : Keeps(m, n, q)
<1> DEFINE x == nextBlock(m, p)
<1>1. Body(m, b, e) /\ Tiles(m, b, 4, e) /\ HeapOK(m, b, e) /\ Apart(m, b) /\ MaxHeap \in Nat
  BY MaxHeapAssumption DEF Sound, HeapOK, Body
<1>2. /\ p \in Nat /\ x \in Nat /\ 4 <= p /\ p + 4 <= x /\ x <= e /\ e \in Nat /\ e <= MaxHeap
      /\ x \in b \cup {e} /\ \A q \in b : q \in Nat /\ (q <= p \/ x <= q)
      /\ SizeAt(m, p) \in Nat /\ x = p + SizeAt(m, p)
  BY <1>1, TilesOrder DEF Body
<1>3. \A w \in Word : w < p \/ x - 2 <= w => n[w] = m[w]
  OBVIOUS
<1> HIDE DEF x
<1>4. n[p - 1] = m[p - 1] /\ n[x - 2] = m[x - 2] /\ n[1] = m[1] /\ n[2] = m[2] /\ n[e - 1] = m[e - 1]
  BY <1>1, <1>2, <1>3 DEF Word
<1>5. SizeAt(n, p) = SizeAt(m, p) /\ nextBlock(n, p) = x
  BY <1>2, <1>4 DEF SizeAt, sizeOf, header, nextBlock, x
<1>6. IsBlock(n, p)
  <2>1. IsBlock(m, p)
    BY <1>1 DEF Tiles
  <2>2. footer(m, p) = x - 2 /\ footer(n, p) = x - 2
    BY <1>2, <1>5 DEF footer, SizeAt
  <2> QED BY <1>4, <1>5, <2>1, <2>2 DEF IsBlock, header
<1>7. Tiles(n, {p}, p, x)
  BY <1>5, <1>6, TilesSingle
<1>8. SameWords(m, n, 4, p) /\ SameWords(m, n, x, e)
  BY <1>1, <1>2, <1>3 DEF SameWords, Word
<1>9. Tiles(n, b, 4, e)
  <2>1. Tiles(n, {q \in b : q < p} \cup {p} \cup {q \in b : x <= q}, 4, e)
    BY <1>1, <1>2, <1>7, <1>8, TilesReplace
  <2>2. \A q \in b : q < p \/ q = p \/ x <= q
    BY <1>2
  <2>3. {q \in b : q < p} \cup {p} \cup {q \in b : x <= q} = b
    BY <2>2
  <2> QED BY <2>1, <2>3
<1>10. HeapOK(n, b, e)
  BY <1>1, <1>4, <1>9 DEF HeapOK, Body
<1>11. \A q \in b \ {p} : Keeps(m, n, q)
  <2> TAKE q \in b \ {p}
  <2>1. q \in Nat /\ nextBlock(m, q) \in Nat /\ 4 <= q /\ nextBlock(m, q) <= e
        /\ (nextBlock(m, q) <= p \/ x <= q)
    BY <1>1, <1>2, TilesOrder
  <2> QED BY <1>1, <1>2, <1>3, <2>1 DEF Keeps, SameWords, Word
<1>12. \A q \in b : /\ SizeAt(n, q) = SizeAt(m, q) /\ nextBlock(n, q) = nextBlock(m, q)
                    /\ isAllocated(n, header(q)) <=> isAllocated(m, header(q))
  <2>1. \A q \in b \ {p} : /\ SizeAt(n, q) = SizeAt(m, q) /\ nextBlock(n, q) = nextBlock(m, q)
                           /\ isAllocated(n, header(q)) <=> isAllocated(m, header(q))
    BY <1>1, <1>11, KeepsHeader DEF Tiles
  <2>2. isAllocated(n, header(p)) <=> isAllocated(m, header(p))
    BY <1>4 DEF isAllocated, header
  <2>3. nextBlock(n, p) = nextBlock(m, p) /\ SizeAt(n, p) = SizeAt(m, p)
    BY <1>5 DEF x
  <2> QED BY <2>1, <2>2, <2>3
<1>13. Apart(n, b)
  BY <1>1, <1>12 DEF Apart
<1>14. AllocatedIn(n, b) = AllocatedIn(m, b)
  BY <1>12 DEF AllocatedIn
<1> QED BY <1>10, <1>11, <1>12, <1>13, <1>14 DEF Sound

LEMMA KeepsOn ==
  ASSUME NEW m, NEW n, NEW o, NEW q, IsBlock(m, q), Keeps(m, n, q), Keeps(n, o, q)
  PROVE  Keeps(m, o, q)
BY KeepsHeader DEF Keeps, SameWords

\* memcpy of at most the payload of the block p.
LEMMA MemcpyWrites ==
  ASSUME NEW m \in [Word -> Content], NEW to \in Nat, NEW from \in Nat, NEW n \in Nat, NEW words \in Nat,
         n <= 8 * words, n <= 8 * (MaxHeap - from), from <= MaxHeap
  PROVE  /\ memcpy(m, to, from, n) \in [Word -> Content]
         /\ \A w \in Word : w < to \/ to + words <= w => memcpy(m, to, from, n)[w] = m[w]
         /\ \A i \in Nat : 8 * i < n /\ to + i \in Word => memcpy(m, to, from, n)[to + i] = m[from + i]
<1>1. \A w \in Word : w \in Nat /\ w < MaxHeap
  BY MaxHeapAssumption DEF Word
<1>2. memcpy(m, to, from, n) \in [Word -> Content]
  <2>1. \A w \in Word : w - to \in WordsOf(n) => from + (w - to) \in Word
    BY <1>1, MaxHeapAssumption DEF WordsOf, Word
  <2> QED BY <2>1 DEF memcpy
<1>3. \A w \in Word : w < to \/ to + words <= w => memcpy(m, to, from, n)[w] = m[w]
  <2>1. \A w \in Word : w < to \/ to + words <= w => w - to \notin WordsOf(n)
    BY <1>1 DEF WordsOf
  <2> QED BY <2>1 DEF memcpy
<1>4. \A i \in Nat : 8 * i < n /\ to + i \in Word => memcpy(m, to, from, n)[to + i] = m[from + i]
  <2> SUFFICES ASSUME NEW i \in Nat, 8 * i < n, to + i \in Word
               PROVE  memcpy(m, to, from, n)[to + i] = m[from + i]
    OBVIOUS
  <2>1. (to + i) - to = i /\ i \in WordsOf(n)
    BY <1>1, MaxHeapAssumption DEF WordsOf, Word
  <2> QED BY <2>1 DEF memcpy
<1> QED BY <1>2, <1>3, <1>4

\* In the heap g the block `old' is free and bp holds the first words of it.
Moved(m, b, e, bp, words, old, copied, g) ==
  /\ Sound(g.mem, g.blocks, e)
  /\ AllocatedIn(g.mem, g.blocks) = (AllocatedIn(m, b) \ {old}) \cup {bp}
  /\ \A q \in AllocatedIn(m, b) \ {old} : Keeps(m, g.mem, q)
  /\ words <= SizeAt(g.mem, bp)
  /\ \A i \in Nat : 8 * i < copied /\ i < SizeAt(m, old) - 2 => g.mem[bp + i] = m[old + i]

LEMMA MoveKeeps ==
  ASSUME NEW m, NEW b, NEW e, NEW bp \in b, NEW words \in Nat, NEW h,
         Sound(m, b, e), ~isAllocated(m, header(bp)), Placed(m, b, e, bp, words, h),
         NEW old, old \in AllocatedIn(m, b), words >= 4,
         NEW copied \in Nat, copied <= 8 * (words - 2), copied <= 8 * SizeAt(m, old),
         NEW g, g = freeBlock(memcpy(h.mem, bp, old, copied), h.blocks, old)
  PROVE  Moved(m, b, e, bp, words, old, copied, g)
<1> DEFINE n == memcpy(h.mem, bp, old, copied)
           A == AllocatedIn(m, b)
<1>1. /\ Sound(h.mem, h.blocks, e) /\ AllocatedIn(h.mem, h.blocks) = A \cup {bp}
      /\ \A q \in A : Keeps(m, h.mem, q)
      /\ words <= SizeAt(h.mem, bp)
  BY DEF Placed
<1>2. /\ Tiles(m, b, 4, e) /\ Tiles(h.mem, h.blocks, 4, e) /\ h.mem \in [Word -> Content]
      /\ MaxHeap \in Nat /\ e \in Nat /\ e <= MaxHeap
  BY <1>1, MaxHeapAssumption DEF Sound, HeapOK, Body
<1>3. /\ bp \in h.blocks /\ old \in h.blocks /\ old # bp /\ old \in b
      /\ \A q \in A : q \in b /\ q \in h.blocks
  BY <1>1 DEF AllocatedIn
<1>4. /\ bp \in Nat /\ bp >= 4 /\ old \in Nat /\ old >= 4 /\ SizeAt(h.mem, bp) \in Nat
      /\ nextBlock(h.mem, bp) = bp + SizeAt(h.mem, bp) /\ nextBlock(h.mem, bp) <= e
      /\ SizeAt(m, old) \in Nat /\ nextBlock(m, old) = old + SizeAt(m, old) /\ nextBlock(m, old) <= e
  BY <1>2, <1>3, TilesOrder
<1>5. /\ n \in [Word -> Content]
      /\ \A w \in Word : w < bp \/ bp + (words - 2) <= w => n[w] = h.mem[w]
      /\ \A i \in Nat : 8 * i < copied /\ bp + i \in Word => n[bp + i] = h.mem[old + i]
  <2>1. words - 2 \in Nat /\ copied <= 8 * (MaxHeap - old) /\ old <= MaxHeap
    BY <1>2, <1>4
  <2> QED BY <1>2, <1>4, <2>1, MemcpyWrites, SMTT(40)
<1>6. g = freeBlock(n, h.blocks, old)
  OBVIOUS
<1> HIDE DEF n, A
<1>7. \A w \in Word : w < bp \/ nextBlock(h.mem, bp) - 2 <= w => n[w] = h.mem[w]
  BY <1>1, <1>2, <1>4, <1>5 DEF Word
<1>8. /\ Sound(n, h.blocks, e)
      /\ AllocatedIn(n, h.blocks) = A \cup {bp}
      /\ \A q \in h.blocks : SizeAt(n, q) = SizeAt(h.mem, q) /\ nextBlock(n, q) = nextBlock(h.mem, q)
      /\ \A q \in h.blocks \ {bp} : Keeps(h.mem, n, q)
  BY <1>1, <1>3, <1>5, <1>7, PayloadKeeps
<1>9. /\ Sound(g.mem, g.blocks, e)
      /\ AllocatedIn(g.mem, g.blocks) = (A \cup {bp}) \ {old}
      /\ \A q \in (A \cup {bp}) \ {old} : Keeps(n, g.mem, q)
  <2>1. old \in AllocatedIn(n, h.blocks)
    BY <1>8 DEF A
  <2> QED BY <1>6, <1>8, <2>1, FreeKeeps
<1>10. (A \cup {bp}) \ {old} = (A \ {old}) \cup {bp}
  BY <1>3
<1>11. \A q \in A \ {old} : Keeps(m, g.mem, q)
  <2> TAKE q \in A \ {old}
  <2>1. IsBlock(m, q) /\ q # bp /\ q \in h.blocks
    BY <1>2, <1>3 DEF Tiles, A, AllocatedIn
  <2>2. IsBlock(h.mem, q)
    BY <1>2, <2>1 DEF Tiles
  <2>3. Keeps(m, h.mem, q) /\ Keeps(h.mem, n, q) /\ Keeps(n, g.mem, q)
    BY <1>1, <1>8, <1>9, <2>1
  <2>4. Keeps(h.mem, g.mem, q)
    BY <2>2, <2>3, KeepsOn
  <2> QED BY <2>1, <2>3, <2>4, KeepsOn
<1>12. SizeAt(g.mem, bp) = SizeAt(n, bp) /\ SizeAt(n, bp) = SizeAt(h.mem, bp)
       /\ nextBlock(n, bp) = nextBlock(h.mem, bp) /\ Keeps(n, g.mem, bp)
  <2>1. Keeps(n, g.mem, bp)
    BY <1>3, <1>9
  <2>2. IsBlock(n, bp)
    BY <1>3, <1>8 DEF Sound, HeapOK, Body, Tiles
  <2> QED BY <1>3, <1>8, <2>1, <2>2, KeepsHeader
<1>13. ASSUME NEW i \in Nat, 8 * i < copied, i < SizeAt(m, old) - 2
       PROVE  g.mem[bp + i] = m[old + i]
  <2>1. i < words - 2
    BY <1>13
  <2>2. bp + i \in Word /\ bp + i \in (bp - 1)..(nextBlock(n, bp) - 2)
    BY <1>1, <1>2, <1>4, <1>12, <2>1, SMTT(40) DEF Word
  <2>3. g.mem[bp + i] = n[bp + i]
    BY <1>12, <2>2 DEF Keeps, SameWords
  <2>4. n[bp + i] = h.mem[old + i]
    BY <1>5, <1>13, <2>2
  <2>5. old + i \in (old - 1)..(nextBlock(m, old) - 2)
    BY <1>4, <1>13
  <2>6. h.mem[old + i] = m[old + i]
    BY <1>1, <2>5 DEF Keeps, SameWords, A
  <2> QED BY <2>3, <2>4, <2>6
<1>14. words <= SizeAt(g.mem, bp)
  BY <1>1, <1>12
<1> QED BY <1>9, <1>10, <1>11, <1>13, <1>14 DEF Moved, A

-----------------------------------------------------------------------------
(* The inductive invariant.                                                  *)

\* No adjusted size wraps around: mm.c:265 computes it in 32 bits.
NoWrap == \A size \in Sizes : size + 31 < Uint

\* The client's blocks l are the allocated blocks of the heap, each once.
LiveOK(m, b, l) ==
  /\ l \in [Ids -> [ptr : Nat, size : Sizes \cup {0}, filled : Sizes \cup {0}]]
  /\ \A id \in Ids : l[id] # None =>
       /\ l[id].ptr \in AllocatedIn(m, b)
       /\ l[id].size \in Sizes /\ l[id].size <= 8 * (SizeAt(m, l[id].ptr) - 2)
       /\ l[id].filled <= l[id].size
  /\ \A p \in AllocatedIn(m, b) : \E id \in Ids : l[id] # None /\ l[id].ptr = p
  /\ \A i, j \in Ids : i # j /\ l[i] # None /\ l[j] # None => l[i].ptr # l[j].ptr

\* A call under way stands at a block or an end of the list, and no block before
\* that fits.
CallOK ==
  \/ call = NoCall
  \/ /\ call \in [op : {"malloc", "realloc"}, id : Ids, size : Sizes, asize : Nat, bp : Nat]
     /\ call.asize = asize(call.size)
     /\ call.op = "malloc" <=> live[call.id] = None
     /\ call.bp \in {g_heapBase, brk} \cup blocks
     /\ \A p \in blocks : p < call.bp =>
          isAllocated(mem, header(p)) \/ SizeAt(mem, p) < call.asize

IInv == Sound(mem, blocks, brk) /\ LiveOK(mem, blocks, live) /\ CallOK

\* The words for a request are even in number and hold two tags and its bytes.
LEMMA AsizeFits ==
  ASSUME NoWrap, NEW size \in Sizes
  PROVE  /\ size \in Nat /\ size > 0
         /\ asize(size) \in Nat /\ asize(size) >= 4 /\ asize(size) % 2 = 0
         /\ size <= 8 * (asize(size) - 2)
<1>1. size \in Nat /\ size > 0 /\ size + 31 < Uint /\ Uint \in Nat
  BY SizesAssumption, UintAssumption DEF NoWrap
<1>2. CASE size <= 16
  BY <1>1, <1>2 DEF asize
<1>3. CASE size > 16
  <2>1. (size + 31) % Uint = size + 31
    BY <1>1
  <2>2. asize(size) = 2 * ((size + 31) \div 16)
    BY <1>1, <1>3, <2>1 DEF asize
  <2> DEFINE k == (size + 31) \div 16
  <2>3. k \in Nat /\ 16 * k <= size + 31 /\ size + 31 < 16 * k + 16
    BY <1>1
  <2> HIDE DEF k
  <2>4. asize(size) = 2 * k
    BY <2>2 DEF k
  <2> QED BY <1>1, <1>3, <2>3, <2>4
<1> QED BY <1>1, <1>2, <1>3

\* A fresh heap holds one free block, whatever the words held before.
LEMMA FreshHeap ==
  ASSUME NEW m \in [Word -> Content], NEW h, h = InitHeap(m)
  PROVE  Sound(h.mem, h.blocks, EmptyBrk) /\ AllocatedIn(h.mem, h.blocks) = {}
<1> DEFINE l == [m EXCEPT ![1] = PACK(2, 1), ![2] = PACK(2, 1)]
<1>1. MaxHeap \in Nat /\ MaxHeap >= 8 /\ Chunk \in Nat /\ Chunk >= 4 /\ Chunk % 2 = 0
      /\ 4 + Chunk <= MaxHeap
  BY MaxHeapAssumption, ChunkAssumption
<1>2. PACK(2, 1) \in Content /\ 1 \in Word /\ 2 \in Word
  BY <1>1 DEF PACK, Content, Tag, Word
<1>3. l \in [Word -> Content] /\ l[1] = PACK(2, 1) /\ l[2] = PACK(2, 1)
  BY <1>2
<1>4. h = extend_heap(l, {}, 4, Chunk)
  BY DEF InitHeap
<1> HIDE DEF l
<1>5. Body(l, {}, 4)
  BY <1>1, <1>3, TilesNothing DEF Body
<1>6. Apart(l, {}) /\ AllocatedIn(l, {}) = {}
  BY DEF Apart, AllocatedIn
<1> QED BY <1>1, <1>4, <1>5, <1>6, ExtendKeeps DEF EmptyBrk

\* Nothing is allocated at the address of None.
LEMMA NoneIsNoBlock ==
  ASSUME NEW m, NEW b, NEW e, Sound(m, b, e)
  PROVE  None.ptr \notin AllocatedIn(m, b) /\ None.ptr = 0 /\ None.size = 0 /\ None.filled = 0
<1>1. Tiles(m, b, 4, e)
  BY DEF Sound, HeapOK, Body
<1>2. \A p \in b : p \in Nat /\ 4 <= p
  BY <1>1, TilesOrder
<1> QED BY <1>2 DEF None, AllocatedIn

\* One id is given another block, or one where it had none.
LEMMA LiveMoves ==
  ASSUME NEW m, NEW b, NEW e, NEW n, NEW c, NEW l, NEW id \in Ids,
         Sound(m, b, e), LiveOK(m, b, l),
         NEW p \in Nat, p \notin AllocatedIn(m, b), p # 0,
         NEW size \in Sizes, size <= 8 * (SizeAt(n, p) - 2),
         NEW filled \in Sizes \cup {0}, filled <= size,
         AllocatedIn(n, c) = (AllocatedIn(m, b) \ {l[id].ptr}) \cup {p},
         \A q \in AllocatedIn(m, b) \ {l[id].ptr} : Keeps(m, n, q)
  PROVE  LiveOK(n, c, [l EXCEPT ![id] = [ptr |-> p, size |-> size, filled |-> filled]])
<1> DEFINE new == [ptr |-> p, size |-> size, filled |-> filled]
           k == [l EXCEPT ![id] = new]
           A == AllocatedIn(m, b)
<1>1. new # None /\ new.ptr = p /\ new.size = size /\ new.filled = filled
  BY DEF None
<1>2. new \in [ptr : Nat, size : Sizes \cup {0}, filled : Sizes \cup {0}]
  OBVIOUS
<1> HIDE DEF new
<1>3. /\ k \in [Ids -> [ptr : Nat, size : Sizes \cup {0}, filled : Sizes \cup {0}]]
      /\ k[id] = new /\ \A i \in Ids \ {id} : k[i] = l[i]
  BY <1>2 DEF LiveOK
<1> HIDE DEF k
<1>4. \A q \in A \ {l[id].ptr} : SizeAt(n, q) = SizeAt(m, q)
  BY KeepsHeader DEF Sound, HeapOK, Body, Tiles, AllocatedIn
<1>5. \A i \in Ids \ {id} : l[i] # None => l[i].ptr \in A \ {l[id].ptr}
  <2> SUFFICES ASSUME NEW i \in Ids \ {id}, l[i] # None
               PROVE  l[i].ptr \in A \ {l[id].ptr}
    OBVIOUS
  <2>1. l[i].ptr \in A
    BY DEF LiveOK
  <2>2. l[i].ptr # l[id].ptr
    BY <2>1, NoneIsNoBlock DEF LiveOK
  <2> QED BY <2>1, <2>2
<1>6. \A i \in Ids : k[i] # None =>
       /\ k[i].ptr \in AllocatedIn(n, c)
       /\ k[i].size \in Sizes /\ k[i].size <= 8 * (SizeAt(n, k[i].ptr) - 2)
       /\ k[i].filled <= k[i].size
  <2> TAKE i \in Ids
  <2>1. CASE i = id
    BY <1>1, <1>3, <2>1
  <2>2. CASE i # id
    BY <1>3, <1>4, <1>5, <2>2 DEF LiveOK
  <2> QED BY <2>1, <2>2
<1>7. \A q \in AllocatedIn(n, c) : \E i \in Ids : k[i] # None /\ k[i].ptr = q
  <2> TAKE q \in AllocatedIn(n, c)
  <2>1. CASE q = p
    BY <1>1, <1>3, <2>1
  <2>2. CASE q # p
    <3>1. q \in A /\ q # l[id].ptr
      BY <2>2
    <3>2. PICK i \in Ids : l[i] # None /\ l[i].ptr = q
      BY <3>1 DEF LiveOK
    <3>3. i # id
      BY <3>1, <3>2
    <3> QED BY <1>3, <3>2, <3>3
  <2> QED BY <2>1, <2>2
<1>8. \A i, j \in Ids : i # j /\ k[i] # None /\ k[j] # None => k[i].ptr # k[j].ptr
  <2> SUFFICES ASSUME NEW i \in Ids, NEW j \in Ids, i # j, k[i] # None, k[j] # None
               PROVE  k[i].ptr # k[j].ptr
    OBVIOUS
  <2>1. CASE i = id
    BY <1>1, <1>3, <1>5, <2>1
  <2>2. CASE j = id
    BY <1>1, <1>3, <1>5, <2>2
  <2>3. CASE i # id /\ j # id
    BY <1>3, <2>3 DEF LiveOK
  <2> QED BY <2>1, <2>2, <2>3
<1>9. LiveOK(n, c, k)
  BY <1>3, <1>6, <1>7, <1>8 DEF LiveOK
<1> QED BY <1>9 DEF k, new

\* One id gives up its block.
LEMMA LiveLoses ==
  ASSUME NEW m, NEW b, NEW e, NEW n, NEW c, NEW l, NEW id \in Ids,
         Sound(m, b, e), LiveOK(m, b, l), l[id] # None,
         AllocatedIn(n, c) = AllocatedIn(m, b) \ {l[id].ptr},
         \A q \in AllocatedIn(m, b) \ {l[id].ptr} : Keeps(m, n, q)
  PROVE  LiveOK(n, c, [l EXCEPT ![id] = None])
<1> DEFINE k == [l EXCEPT ![id] = None]
           A == AllocatedIn(m, b)
<1>1. None \in [ptr : Nat, size : Sizes \cup {0}, filled : Sizes \cup {0}]
  BY DEF None
<1>2. /\ k \in [Ids -> [ptr : Nat, size : Sizes \cup {0}, filled : Sizes \cup {0}]]
      /\ k[id] = None /\ \A i \in Ids \ {id} : k[i] = l[i]
  BY <1>1 DEF LiveOK
<1> HIDE DEF k
<1>3. \A q \in A \ {l[id].ptr} : SizeAt(n, q) = SizeAt(m, q)
  BY KeepsHeader DEF Sound, HeapOK, Body, Tiles, AllocatedIn
<1>4. \A i \in Ids \ {id} : l[i] # None => l[i].ptr \in A \ {l[id].ptr}
  BY DEF LiveOK
<1>5. \A i \in Ids : k[i] # None =>
       /\ k[i].ptr \in AllocatedIn(n, c)
       /\ k[i].size \in Sizes /\ k[i].size <= 8 * (SizeAt(n, k[i].ptr) - 2)
       /\ k[i].filled <= k[i].size
  BY <1>2, <1>3, <1>4 DEF LiveOK
<1>6. \A q \in AllocatedIn(n, c) : \E i \in Ids : k[i] # None /\ k[i].ptr = q
  <2> TAKE q \in AllocatedIn(n, c)
  <2>1. PICK i \in Ids : l[i] # None /\ l[i].ptr = q
    BY DEF LiveOK
  <2> QED BY <1>2, <2>1
<1>7. \A i, j \in Ids : i # j /\ k[i] # None /\ k[j] # None => k[i].ptr # k[j].ptr
  BY <1>2 DEF LiveOK
<1>8. LiveOK(n, c, k)
  BY <1>2, <1>5, <1>6, <1>7 DEF LiveOK
<1> QED BY <1>8 DEF k

-----------------------------------------------------------------------------
(* The steps.                                                                *)

\* The call under way returns the block p: it holds what fits of the block the
\* client held before, and the other blocks are as they were.
HandsOut(p) ==
  LET id == call.id
      A  == AllocatedIn(mem, blocks)
      filled == Lower(live[id].filled, call.size)
  IN /\ live' = [live EXCEPT ![id] = [ptr |-> p, size |-> call.size, filled |-> filled]]
     /\ call' = NoCall
     /\ p \in Nat /\ p # 0 /\ p \notin A
     /\ Sound(mem', blocks', brk')
     /\ AllocatedIn(mem', blocks') = (A \ {live[id].ptr}) \cup {p}
     /\ \A q \in A \ {live[id].ptr} : Keeps(mem, mem', q)
     /\ call.size <= 8 * (SizeAt(mem', p) - 2)
     /\ \A i \in Nat : 8 * i < filled => mem'[p + i] = mem[live[id].ptr + i]

\* A call under way.
LEMMA CallFacts ==
  ASSUME IInv, NoWrap, ~Idle
  PROVE  /\ call.op \in {"malloc", "realloc"} /\ call.id \in Ids /\ call.size \in Sizes
         /\ call.size \in Nat /\ call.size > 0
         /\ call.asize \in Nat /\ call.asize >= 4 /\ call.asize % 2 = 0
         /\ call.size <= 8 * (call.asize - 2)
         /\ call.op = "malloc" <=> live[call.id] = None
         /\ call.bp \in {g_heapBase, brk} \cup blocks
<1>1. /\ call \in [op : {"malloc", "realloc"}, id : Ids, size : Sizes, asize : Nat, bp : Nat]
      /\ call.asize = asize(call.size)
      /\ call.op = "malloc" <=> live[call.id] = None
      /\ call.bp \in {g_heapBase, brk} \cup blocks
  BY DEF IInv, CallOK, Idle
<1>2. call.size \in Sizes
  BY <1>1
<1> QED BY <1>1, <1>2, AsizeFits

\* What a block holds for the client.
LEMMA HeldFacts ==
  ASSUME IInv, NEW id \in Ids, live[id] # None
  PROVE  /\ live[id].ptr \in AllocatedIn(mem, blocks)
         /\ live[id].size \in Nat /\ live[id].size \in Sizes
         /\ live[id].size <= 8 * (SizeAt(mem, live[id].ptr) - 2)
         /\ live[id].filled \in Nat /\ live[id].filled <= live[id].size
<1>1. /\ live[id] \in [ptr : Nat, size : Sizes \cup {0}, filled : Sizes \cup {0}]
      /\ live[id].ptr \in AllocatedIn(mem, blocks)
      /\ live[id].size \in Sizes
      /\ live[id].size <= 8 * (SizeAt(mem, live[id].ptr) - 2)
      /\ live[id].filled <= live[id].size
  BY DEF IInv, LiveOK
<1>2. \A size \in Sizes : size \in Nat
  BY SizesAssumption, UintAssumption
<1>3. live[id].filled \in Sizes \cup {0}
  BY <1>1
<1> QED BY <1>1, <1>2, <1>3

\* The heap m is that of the state, or that heap extended, with the free block bp.
LEMMA ReturnHandsOut ==
  ASSUME IInv, NoWrap, ~Idle,
         NEW m, NEW b, Sound(m, b, brk'),
         AllocatedIn(m, b) = AllocatedIn(mem, blocks),
         \A q \in AllocatedIn(mem, blocks) : Keeps(mem, m, q),
         NEW bp \in b, ~isAllocated(m, header(bp)), call.asize <= SizeAt(m, bp),
         Return(place(m, b, bp, call.asize))
  PROVE  HandsOut(bp)
<1> DEFINE h == place(m, b, bp, call.asize)
           id == call.id
           old == live[id].ptr
           A == AllocatedIn(mem, blocks)
           e == brk'
           filled == Lower(live[id].filled, call.size)
<1>1. /\ call.op \in {"malloc", "realloc"} /\ id \in Ids /\ call.size \in Sizes
      /\ call.size \in Nat /\ call.size > 0
      /\ call.asize \in Nat /\ call.asize >= 4 /\ call.asize % 2 = 0
      /\ call.size <= 8 * (call.asize - 2)
      /\ call.op = "malloc" <=> live[id] = None
  BY CallFacts
<1>2. Placed(m, b, e, bp, call.asize, h)
  BY <1>1, PlaceKeeps
<1>3. Tiles(m, b, 4, e) /\ bp \in Nat /\ bp # 0 /\ bp \notin A
  <2>1. Tiles(m, b, 4, e)
    BY DEF Sound, HeapOK, Body
  <2> QED BY <2>1, TilesOrder DEF AllocatedIn
<1>4. /\ h.ptr = bp
      /\ live' = [live EXCEPT ![id] = [ptr |-> bp, size |-> call.size, filled |-> filled]]
      /\ call' = NoCall
  BY <1>2 DEF Return, Placed
<1>5. \A q \in A : IsBlock(mem, q) /\ IsBlock(m, q)
  BY <1>3 DEF IInv, Sound, HeapOK, Body, Tiles, AllocatedIn
<1>6. \A q \in A : SizeAt(m, q) = SizeAt(mem, q) /\ nextBlock(m, q) = nextBlock(mem, q)
  BY <1>5, KeepsHeader
<1>7. CASE call.op = "malloc"
  <2>1. mem' = h.mem /\ blocks' = h.blocks
    BY <1>7 DEF Return
  <2>2. live[id] = None /\ old = 0 /\ 0 \notin A /\ live[id].filled = 0
    BY <1>1, <1>7, NoneIsNoBlock DEF IInv
  <2>3. filled = 0
    BY <1>1, <2>2 DEF Lower
  <2> HIDE DEF h, filled
  <2>4. /\ Sound(mem', blocks', brk') /\ AllocatedIn(mem', blocks') = A \cup {bp}
        /\ \A q \in A : Keeps(m, mem', q)
        /\ call.asize <= SizeAt(mem', bp)
    BY <1>2, <2>1 DEF Placed
  <2>5. \A q \in A \ {old} : Keeps(mem, mem', q)
    BY <1>5, <2>4, KeepsOn
  <2>6. AllocatedIn(mem', blocks') = (A \ {old}) \cup {bp}
    BY <2>2, <2>4
  <2>7. call.size <= 8 * (SizeAt(mem', bp) - 2)
    <3>1. bp \in blocks' /\ Tiles(mem', blocks', 4, brk')
      BY <2>4 DEF AllocatedIn, Sound, HeapOK, Body
    <3>2. SizeAt(mem', bp) \in Nat
      BY <3>1, TilesOrder
    <3> QED BY <1>1, <2>4, <3>2
  <2>8. \A i \in Nat : ~(8 * i < filled)
    BY <2>3
  <2>9. live' = [live EXCEPT ![call.id] = [ptr |-> bp, size |-> call.size,
                                          filled |-> Lower(live[call.id].filled, call.size)]]
    BY <1>4 DEF filled
  <2>10. \A i \in Nat : 8 * i < Lower(live[call.id].filled, call.size) =>
           mem'[bp + i] = mem[live[call.id].ptr + i]
    BY <2>8 DEF filled
  <2> QED BY <1>3, <1>4, <2>4, <2>5, <2>6, <2>7, <2>9, <2>10 DEF HandsOut
<1>8. CASE call.op = "realloc"
  <2>1. /\ live[id] # None /\ old \in A
        /\ live[id].size \in Nat /\ live[id].size <= 8 * (SizeAt(mem, old) - 2)
        /\ live[id].filled \in Nat /\ live[id].filled <= live[id].size
    BY <1>1, <1>8, HeldFacts
  <2> DEFINE copied == Lower(call.size, 8 * sizeOf(h.mem, header(old)))
             g == freeBlock(memcpy(h.mem, bp, old, copied), h.blocks, old)
  <2>2. mem' = g.mem /\ blocks' = g.blocks
    BY <1>4, <1>8 DEF Return
  <2>3. SizeAt(h.mem, old) = SizeAt(m, old) /\ SizeAt(m, old) = SizeAt(mem, old)
    BY <1>2, <1>5, <1>6, <2>1, KeepsHeader DEF Placed
  <2>4. SizeAt(m, old) \in Nat
    BY <1>3, <2>1, TilesOrder DEF AllocatedIn
  <2>5. /\ copied \in Nat /\ copied <= call.size /\ copied <= 8 * SizeAt(m, old)
        /\ copied = Lower(call.size, 8 * SizeAt(m, old))
    <3>1. copied = Lower(call.size, 8 * SizeAt(m, old))
      BY <2>3 DEF SizeAt
    <3> QED BY <1>1, <2>4, <3>1 DEF Lower
  <2>6. Moved(m, b, e, bp, call.asize, old, copied, g)
    <3>1. copied <= 8 * (call.asize - 2)
      BY <1>1, <2>5
    <3>2. g = freeBlock(memcpy(h.mem, bp, old, copied), h.blocks, old) /\ old \in AllocatedIn(m, b)
      BY <2>1
    <3> HIDE DEF h, g, copied, old, e
    <3> QED BY <1>1, <1>2, <2>5, <3>1, <3>2, MoveKeeps DEF e
  <2> HIDE DEF h, g, copied, old
  <2>7. /\ Sound(mem', blocks', brk') /\ AllocatedIn(mem', blocks') = (A \ {old}) \cup {bp}
        /\ \A q \in A \ {old} : Keeps(m, mem', q)
        /\ call.asize <= SizeAt(mem', bp)
        /\ \A i \in Nat : 8 * i < copied /\ i < SizeAt(m, old) - 2 => mem'[bp + i] = m[old + i]
    BY <2>2, <2>6 DEF Moved
  <2>8. \A q \in A \ {old} : Keeps(mem, mem', q)
    BY <1>5, <2>7, KeepsOn
  <2>9. call.size <= 8 * (SizeAt(mem', bp) - 2)
    <3>1. bp \in blocks' /\ Tiles(mem', blocks', 4, brk')
      BY <2>7 DEF AllocatedIn, Sound, HeapOK, Body
    <3>2. SizeAt(mem', bp) \in Nat
      BY <3>1, TilesOrder
    <3> QED BY <1>1, <2>7, <3>2
  <2>10. ASSUME NEW i \in Nat, 8 * i < filled
         PROVE  mem'[bp + i] = mem[old + i]
    <3>1. 8 * i < live[id].filled /\ 8 * i < call.size
      BY <1>1, <2>1, <2>10 DEF Lower
    <3>2. i < SizeAt(m, old) - 2
      BY <2>1, <2>3, <2>4, <3>1
    <3>3. 8 * i < copied
      BY <2>4, <2>5, <3>1, <3>2 DEF Lower
    <3>4. mem'[bp + i] = m[old + i]
      BY <2>7, <3>2, <3>3
    <3>5. old \in Nat /\ nextBlock(mem, old) = old + SizeAt(mem, old) /\ SizeAt(mem, old) \in Nat
      BY <1>5, <2>1, BlockSize
    <3>6. old + i \in (old - 1)..(nextBlock(mem, old) - 2)
      BY <2>3, <3>2, <3>5
    <3>7. m[old + i] = mem[old + i]
      BY <2>1, <3>6 DEF Keeps, SameWords
    <3> QED BY <3>4, <3>7
  <2>11. \A i \in Nat : 8 * i < Lower(live[call.id].filled, call.size) =>
           mem'[bp + i] = mem[live[call.id].ptr + i]
    BY <2>10 DEF filled, old
  <2>12. live' = [live EXCEPT ![call.id] = [ptr |-> bp, size |-> call.size,
                                          filled |-> Lower(live[call.id].filled, call.size)]]
    BY <1>4 DEF filled
  <2> QED BY <1>3, <1>4, <2>7, <2>8, <2>9, <2>11, <2>12 DEF HandsOut, old
<1> QED BY <1>1, <1>7, <1>8

LEMMA KeepsItself ==
  ASSUME NEW m, NEW q
  PROVE  Keeps(m, m, q)
BY DEF Keeps, SameWords

LEMMA FitHandsOut ==
  ASSUME IInv, NoWrap, mm_malloc_fit
  PROVE  HandsOut(call.bp) /\ brk' = brk
<1>1. ~Idle /\ ~AtEnd(call.bp) /\ Fits(call.bp) /\ brk' = brk
      /\ Return(place(mem, blocks, call.bp, call.asize))
  BY DEF mm_malloc_fit
<1>2. Sound(mem, blocks, brk) /\ mem[1] = PACK(2, 1) /\ mem[brk - 1] = PACK(0, 1)
  BY DEF IInv, Sound, HeapOK, Body
<1>3. ~isAllocated(mem, header(call.bp)) /\ call.asize <= SizeAt(mem, call.bp)
  BY <1>1 DEF Fits, SizeAt
<1>4. call.bp \in blocks
  <2>1. call.bp # g_heapBase
    BY <1>2, <1>3 DEF g_heapBase, isAllocated, header, PACK
  <2>2. call.bp # brk
    BY <1>2, <1>3 DEF isAllocated, header, PACK
  <2> QED BY <1>1, <2>1, <2>2, CallFacts
<1>5. Sound(mem, blocks, brk')
  BY <1>1, <1>2
<1> QED BY <1>1, <1>3, <1>4, <1>5, KeepsItself, ReturnHandsOut

LEMMA ExtendHandsOut ==
  ASSUME IInv, NoWrap, mm_malloc_extend
  PROVE  /\ \E p \in Nat : HandsOut(p)
         /\ brk' = brk + Higher(call.asize, Chunk)
<1> DEFINE words == Higher(call.asize, Chunk)
           g == extend_heap(mem, blocks, brk, words)
<1>1. /\ ~Idle /\ CanGrow(words) /\ brk' = brk + words
      /\ Return(place(g.mem, g.blocks, g.ptr, call.asize))
  BY DEF mm_malloc_extend
<1>2. call.asize \in Nat /\ call.asize >= 4 /\ call.asize % 2 = 0
  BY <1>1, CallFacts
<1>3. words \in Nat /\ words >= 4 /\ words % 2 = 0 /\ call.asize <= words
  BY <1>2, ChunkAssumption DEF Higher
<1>4. Body(mem, blocks, brk) /\ Apart(mem, blocks) /\ brk + words <= MaxHeap
  BY <1>1 DEF IInv, Sound, HeapOK, CanGrow
<1>5. g = extend_heap(mem, blocks, brk, words)
  OBVIOUS
<1> HIDE DEF words, g
<1>6. /\ Sound(g.mem, g.blocks, brk + words)
      /\ AllocatedIn(g.mem, g.blocks) = AllocatedIn(mem, blocks)
      /\ \A q \in AllocatedIn(mem, blocks) : Keeps(mem, g.mem, q)
      /\ g.ptr \in g.blocks /\ ~isAllocated(g.mem, header(g.ptr))
      /\ words <= SizeAt(g.mem, g.ptr)
  BY <1>3, <1>4, <1>5, ExtendKeeps
<1>7. g.ptr \in Nat /\ SizeAt(g.mem, g.ptr) \in Nat
  BY <1>6, TilesOrder DEF Sound, HeapOK, Body
<1>8. call.asize <= SizeAt(g.mem, g.ptr) /\ Sound(g.mem, g.blocks, brk')
  BY <1>1, <1>2, <1>3, <1>6, <1>7
<1>9. HandsOut(g.ptr)
  BY <1>1, <1>6, <1>8, ReturnHandsOut
<1> QED BY <1>1, <1>7, <1>9 DEF words

\* Handing out a block keeps the invariant.
LEMMA HandsOutKeeps ==
  ASSUME IInv, NoWrap, ~Idle, NEW p \in Nat, HandsOut(p)
  PROVE  IInv'
<1> DEFINE id == call.id
           filled == Lower(live[id].filled, call.size)
<1>1. id \in Ids /\ call.size \in Sizes /\ call.size \in Nat
  BY CallFacts
<1>2. filled \in Sizes \cup {0} /\ filled <= call.size
  <2>1. live[id].filled \in Sizes \cup {0}
    BY <1>1 DEF IInv, LiveOK
  <2>2. live[id].filled \in Nat
    BY <2>1, SizesAssumption, UintAssumption
  <2> QED BY <1>1, <2>1, <2>2 DEF Lower
<1>3. LiveOK(mem', blocks', live')
  <2>1. Sound(mem, blocks, brk) /\ LiveOK(mem, blocks, live)
    BY DEF IInv
  <2>2. /\ live' = [live EXCEPT ![id] = [ptr |-> p, size |-> call.size, filled |-> filled]]
        /\ p # 0 /\ p \notin AllocatedIn(mem, blocks)
        /\ AllocatedIn(mem', blocks') = (AllocatedIn(mem, blocks) \ {live[id].ptr}) \cup {p}
        /\ \A q \in AllocatedIn(mem, blocks) \ {live[id].ptr} : Keeps(mem, mem', q)
        /\ call.size <= 8 * (SizeAt(mem', p) - 2)
    BY DEF HandsOut
  <2> HIDE DEF id, filled
  <2> QED BY <1>1, <1>2, <2>1, <2>2, LiveMoves
<1>4. CallOK'
  BY DEF HandsOut, CallOK
<1> QED BY <1>3, <1>4 DEF HandsOut, IInv

LEMMA InitKeeps ==
  ASSUME NEW m \in [Word -> Content], NEW h, h = InitHeap(m)
  PROVE  Sound(h.mem, h.blocks, EmptyBrk) /\ LiveOK(h.mem, h.blocks, [id \in Ids |-> None])
<1>1. Sound(h.mem, h.blocks, EmptyBrk) /\ AllocatedIn(h.mem, h.blocks) = {}
  BY FreshHeap
<1>2. None \in [ptr : Nat, size : Sizes \cup {0}, filled : Sizes \cup {0}]
  BY DEF None
<1> QED BY <1>1, <1>2 DEF LiveOK

LEMMA FreeStep ==
  ASSUME IInv, NEW id \in Ids, mm_free(id)
  PROVE  /\ IInv'
         /\ AllocatedIn(mem', blocks') = AllocatedIn(mem, blocks) \ {live[id].ptr}
         /\ \A q \in AllocatedIn(mem, blocks) \ {live[id].ptr} : Keeps(mem, mem', q)
<1>1. /\ Idle /\ live[id] # None /\ brk' = brk /\ call' = call
      /\ live' = [live EXCEPT ![id] = None]
      /\ mem' = freeBlock(mem, blocks, live[id].ptr).mem
      /\ blocks' = freeBlock(mem, blocks, live[id].ptr).blocks
  BY DEF mm_free
<1>2. live[id].ptr \in AllocatedIn(mem, blocks) /\ Sound(mem, blocks, brk) /\ LiveOK(mem, blocks, live)
  BY <1>1, HeldFacts DEF IInv
<1>3. /\ Sound(mem', blocks', brk)
      /\ AllocatedIn(mem', blocks') = AllocatedIn(mem, blocks) \ {live[id].ptr}
      /\ \A q \in AllocatedIn(mem, blocks) \ {live[id].ptr} : Keeps(mem, mem', q)
  BY <1>1, <1>2, FreeKeeps
<1>4. LiveOK(mem', blocks', live')
  BY <1>1, <1>2, <1>3, LiveLoses
<1>5. CallOK'
  BY <1>1 DEF CallOK, Idle
<1> QED BY <1>1, <1>3, <1>4, <1>5 DEF IInv

LEMMA MemsetStep ==
  ASSUME IInv, NEW id \in Ids, memset(id)
  PROVE  /\ IInv'
         /\ AllocatedIn(mem', blocks') = AllocatedIn(mem, blocks)
         /\ \A q \in AllocatedIn(mem, blocks) \ {live[id].ptr} : Keeps(mem, mem', q)
         /\ \A i \in Nat : 8 * i < live[id].size => mem'[live[id].ptr + i] = id
<1> DEFINE p == live[id].ptr
           size == live[id].size
           new == [live[id] EXCEPT !.filled = size]
           A == AllocatedIn(mem, blocks)
<1>1. /\ Idle /\ live[id] # None /\ brk' = brk /\ blocks' = blocks /\ call' = call
      /\ mem' = [w \in Word |-> IF w - p \in WordsOf(size) THEN id ELSE mem[w]]
      /\ live' = [live EXCEPT ![id].filled = size]
  BY DEF memset
<1>2. /\ p \in A /\ size \in Nat /\ size \in Sizes /\ size <= 8 * (SizeAt(mem, p) - 2)
      /\ live \in [Ids -> [ptr : Nat, size : Sizes \cup {0}, filled : Sizes \cup {0}]]
  BY <1>1, HeldFacts DEF IInv, LiveOK
<1>3. /\ Sound(mem, blocks, brk) /\ mem \in [Word -> Content] /\ Tiles(mem, blocks, 4, brk)
      /\ brk \in Nat /\ brk <= MaxHeap /\ MaxHeap \in Nat
  BY MaxHeapAssumption DEF IInv, Sound, HeapOK, Body
<1>4. /\ p \in blocks /\ p \in Nat /\ 4 <= p /\ SizeAt(mem, p) \in Nat
      /\ nextBlock(mem, p) = p + SizeAt(mem, p) /\ nextBlock(mem, p) <= brk
  BY <1>2, <1>3, TilesOrder DEF AllocatedIn
<1> HIDE DEF p, size
<1>5. \A w \in Word : w \in Nat /\ w < MaxHeap
  BY <1>3 DEF Word
<1>6. mem' \in [Word -> Content]
  BY <1>1, <1>3 DEF Content
<1>7. \A w \in Word : w < p \/ nextBlock(mem, p) - 2 <= w => mem'[w] = mem[w]
  <2>1. \A w \in Word : w < p \/ nextBlock(mem, p) - 2 <= w => w - p \notin WordsOf(size)
    BY <1>2, <1>4, <1>5 DEF WordsOf
  <2> QED BY <1>1, <2>1
<1>8. /\ Sound(mem', blocks, brk)
      /\ AllocatedIn(mem', blocks) = A
      /\ \A q \in blocks : SizeAt(mem', q) = SizeAt(mem, q)
      /\ \A q \in blocks \ {p} : Keeps(mem, mem', q)
  BY <1>3, <1>4, <1>6, <1>7, PayloadKeeps
<1>9. \A q \in A \ {p} : Keeps(mem, mem', q)
  BY <1>8 DEF AllocatedIn
<1>10. \A i \in Nat : 8 * i < size => mem'[p + i] = id
  <2> SUFFICES ASSUME NEW i \in Nat, 8 * i < size
               PROVE  mem'[p + i] = id
    OBVIOUS
  <2>1. p + i \in Word /\ (p + i) - p = i /\ i \in WordsOf(size)
    BY <1>2, <1>3, <1>4 DEF Word, WordsOf
  <2> QED BY <1>1, <2>1
<1>11. LiveOK(mem', blocks, live')
  <2>1. /\ live' \in [Ids -> [ptr : Nat, size : Sizes \cup {0}, filled : Sizes \cup {0}]]
        /\ \A i \in Ids : /\ live'[i].ptr = live[i].ptr /\ live'[i].size = live[i].size
                          /\ i # id => live'[i] = live[i]
        /\ live'[id].filled = size
    BY <1>1, <1>2
  <2>2. live'[id] # None
    BY <1>2, <2>1, SizesAssumption DEF None, size
  <2>3. \A i \in Ids : live'[i] # None <=> live[i] # None
    BY <1>1, <2>1, <2>2
  <2>4. \A i \in Ids : live'[i] # None =>
       /\ live'[i].ptr \in A
       /\ live'[i].size \in Sizes /\ live'[i].size <= 8 * (SizeAt(mem, live'[i].ptr) - 2)
       /\ live'[i].filled <= live'[i].size
    <3> TAKE i \in Ids
    <3>1. CASE i = id
      BY <1>2, <2>1, <3>1 DEF p, size
    <3>2. CASE i # id
      BY <2>1, <3>2 DEF IInv, LiveOK
    <3> QED BY <3>1, <3>2
  <2>5. \A q \in A : SizeAt(mem', q) = SizeAt(mem, q)
    BY <1>8 DEF AllocatedIn
  <2>6. \A q \in A : \E i \in Ids : live'[i] # None /\ live'[i].ptr = q
    BY <2>1, <2>3 DEF IInv, LiveOK
  <2>7. \A i, j \in Ids : i # j /\ live'[i] # None /\ live'[j] # None => live'[i].ptr # live'[j].ptr
    BY <2>1, <2>3 DEF IInv, LiveOK
  <2> QED BY <1>8, <2>1, <2>4, <2>5, <2>6, <2>7 DEF LiveOK
<1>12. CallOK'
  BY <1>1 DEF CallOK, Idle
<1> QED BY <1>1, <1>8, <1>9, <1>10, <1>11, <1>12 DEF IInv, p, size

LEMMA StartKeeps ==
  ASSUME IInv, NoWrap, NEW id \in Ids, NEW size \in Sizes, mm_malloc(id, size) \/ mm_realloc(id, size)
  PROVE  IInv' /\ mem' = mem /\ brk' = brk /\ blocks' = blocks /\ live' = live
<1>1. /\ mem' = mem /\ blocks' = blocks /\ live' = live /\ brk' = brk
      /\ \E op \in {"malloc", "realloc"} :
           /\ call' = [op |-> op, id |-> id, size |-> size, asize |-> asize(size), bp |-> g_heapBase]
           /\ op = "malloc" <=> live[id] = None
  BY DEF mm_malloc, mm_realloc, Start
<1>2. Sound(mem', blocks', brk') /\ LiveOK(mem', blocks', live')
  BY <1>1 DEF IInv
<1>3. \A p \in blocks' : ~(p < g_heapBase)
  BY <1>2, TilesOrder DEF Sound, HeapOK, Body, g_heapBase
<1>4. asize(size) \in Nat
  BY AsizeFits
<1>5. CallOK'
  BY <1>1, <1>3, <1>4 DEF CallOK, g_heapBase
<1> QED BY <1>1, <1>2, <1>5 DEF IInv

LEMMA WalkKeeps ==
  ASSUME IInv, NoWrap, find_fit
  PROVE  IInv' /\ mem' = mem /\ brk' = brk /\ blocks' = blocks /\ live' = live
<1>1. /\ ~Idle /\ ~AtEnd(call.bp) /\ ~Fits(call.bp)
      /\ call' = [call EXCEPT !.bp = nextBlock(mem, call.bp)]
      /\ mem' = mem /\ blocks' = blocks /\ live' = live /\ brk' = brk
  BY DEF find_fit
<1>2. Sound(mem', blocks', brk') /\ LiveOK(mem', blocks', live')
  BY <1>1 DEF IInv
<1>3. /\ Tiles(mem, blocks, 4, brk) /\ mem[1] = PACK(2, 1) /\ mem[brk - 1] = PACK(0, 1)
      /\ 4 \in blocks \cup {brk}
  BY DEF IInv, Sound, HeapOK, Body, Tiles
<1>4. /\ call \in [op : {"malloc", "realloc"}, id : Ids, size : Sizes, asize : Nat, bp : Nat]
      /\ call.asize = asize(call.size)
      /\ call.op = "malloc" <=> live[call.id] = None
      /\ call.bp \in {g_heapBase, brk} \cup blocks
      /\ \A p \in blocks : p < call.bp =>
           isAllocated(mem, header(p)) \/ SizeAt(mem, p) < call.asize
  BY <1>1 DEF IInv, CallOK, Idle
<1> DEFINE next == nextBlock(mem, call.bp)
<1>5. next \in Nat /\ next \in {brk} \cup blocks
      /\ \A p \in blocks : p < next =>
           isAllocated(mem, header(p)) \/ SizeAt(mem, p) < call.asize
  <2>1. CASE call.bp = g_heapBase
    <3>1. next = 4
      BY <1>3, <2>1 DEF g_heapBase, nextBlock, sizeOf, header, PACK
    <3>2. \A p \in blocks : ~(p < 4)
      BY <1>3, TilesOrder
    <3> QED BY <1>3, <3>1, <3>2
  <2>2. CASE call.bp = brk
    BY <1>1, <1>3, <2>2 DEF AtEnd, sizeOf, header, PACK
  <2>3. CASE call.bp \in blocks
    <3>1. /\ next \in Nat /\ next \in {brk} \cup blocks
          /\ \A p \in blocks : p \in Nat /\ SizeAt(mem, p) \in Nat /\ (p <= call.bp \/ next <= p)
      BY <1>3, <2>3, TilesOrder
    <3>2. isAllocated(mem, header(call.bp)) \/ SizeAt(mem, call.bp) < call.asize
      BY <1>1, <1>4, <2>3, <3>1 DEF Fits, SizeAt
    <3> HIDE DEF next
    <3>3. ASSUME NEW p \in blocks, p < next
          PROVE  p < call.bp \/ p = call.bp
      BY <1>4, <3>1, <3>3
    <3> QED BY <1>4, <3>1, <3>2, <3>3
  <2> QED BY <1>4, <2>1, <2>2, <2>3
<1> HIDE DEF next
<1>6. /\ call' \in [op : {"malloc", "realloc"}, id : Ids, size : Sizes, asize : Nat, bp : Nat]
      /\ call'.op = call.op /\ call'.id = call.id /\ call'.size = call.size
      /\ call'.asize = call.asize /\ call'.bp = next
  BY <1>1, <1>4, <1>5 DEF next
<1>7. CallOK'
  BY <1>1, <1>4, <1>5, <1>6 DEF CallOK, SizeAt
<1> QED BY <1>1, <1>2, <1>7 DEF IInv

LEMMA InitInv == Init => IInv
<1> SUFFICES ASSUME Init PROVE IInv
  OBVIOUS
<1>1. [w \in Word |-> Junk] \in [Word -> Content]
  BY DEF Content
<1>2. Sound(mem, blocks, brk) /\ LiveOK(mem, blocks, live)
  BY <1>1, InitKeeps DEF Init
<1> QED BY <1>2 DEF IInv, CallOK, Init

LEMMA ResetKeeps ==
  ASSUME IInv, mm_init
  PROVE  IInv'
<1>1. mem \in [Word -> Content]
  BY DEF IInv, Sound, HeapOK, Body
<1>2. Sound(mem', blocks', brk') /\ LiveOK(mem', blocks', live')
  BY <1>1, InitKeeps DEF mm_init
<1>3. CallOK'
  BY DEF mm_init, CallOK, Idle
<1> QED BY <1>2, <1>3 DEF IInv

LEMMA StepKeeps == NoWrap /\ IInv /\ [Next]_vars => IInv'
<1> SUFFICES ASSUME NoWrap, IInv, [Next]_vars PROVE IInv'
  OBVIOUS
<1>1. ASSUME NEW id \in Ids, NEW size \in Sizes, mm_malloc(id, size) \/ mm_realloc(id, size)
      PROVE  IInv'
  BY <1>1, StartKeeps
<1>2. ASSUME NEW id \in Ids, mm_free(id) PROVE IInv'
  BY <1>2, FreeStep
<1>3. ASSUME NEW id \in Ids, memset(id) PROVE IInv'
  BY <1>3, MemsetStep
<1>4. CASE mm_init
  BY <1>4, ResetKeeps
<1>5. CASE find_fit
  BY <1>5, WalkKeeps
<1>6. CASE mm_malloc_fit
  <2>1. ~Idle
    BY <1>6 DEF mm_malloc_fit
  <2>2. call.bp \in Nat /\ HandsOut(call.bp)
    BY <1>6, FitHandsOut DEF HandsOut
  <2> QED BY <2>1, <2>2, HandsOutKeeps
<1>7. CASE mm_malloc_extend
  <2>1. ~Idle
    BY <1>7 DEF mm_malloc_extend
  <2> QED BY <1>7, <2>1, ExtendHandsOut, HandsOutKeeps
<1>8. CASE mm_malloc_fail
  BY <1>8 DEF mm_malloc_fail, IInv, CallOK
<1>9. CASE UNCHANGED vars
  BY <1>9 DEF vars, IInv, CallOK
<1> QED BY <1>1, <1>2, <1>3, <1>4, <1>5, <1>6, <1>7, <1>8, <1>9 DEF Next

-----------------------------------------------------------------------------
(* What the runs check, for every heap size, set of ids and set of sizes.    *)

LEMMA IInvTyped ==
  ASSUME IInv
  PROVE  TypeOK
<1>1. /\ mem \in [Word -> Content] /\ brk \in 4..MaxHeap /\ brk \in Nat /\ brk <= MaxHeap
      /\ MaxHeap \in Nat /\ MaxHeap >= 8 /\ Tiles(mem, blocks, 4, brk) /\ brk >= 4
  BY MaxHeapAssumption, ChunkAssumption DEF IInv, Sound, HeapOK, Body
<1>2. \A p \in blocks : p \in Nat /\ p % 2 = 0 /\ 4 <= p /\ p < brk
  BY <1>1, TilesOrder
<1>3. blocks \subseteq {p \in Word : p % 2 = 0}
  BY <1>1, <1>2 DEF Word
<1>4. call \in {NoCall} \cup [op : {"malloc", "realloc"}, id : Ids, size : Sizes,
                             asize : Nat, bp : 0..MaxHeap]
  <2>1. CASE call = NoCall
    BY <2>1
  <2>2. CASE call # NoCall
    <3>1. /\ call \in [op : {"malloc", "realloc"}, id : Ids, size : Sizes, asize : Nat, bp : Nat]
          /\ call.bp \in {g_heapBase, brk} \cup blocks
      BY <2>2 DEF IInv, CallOK
    <3>2. call.bp \in 0..MaxHeap
      BY <1>1, <1>2, <3>1 DEF g_heapBase
    <3> QED BY <3>1, <3>2
  <2> QED BY <2>1, <2>2
<1>5. live \in [Ids -> [ptr : Word, size : Sizes \cup {0}, filled : Sizes \cup {0}]]
  <2>1. live \in [Ids -> [ptr : Nat, size : Sizes \cup {0}, filled : Sizes \cup {0}]]
    BY DEF IInv, LiveOK
  <2>2. \A id \in Ids : live[id].ptr \in Word
    <3> TAKE id \in Ids
    <3>1. CASE live[id] = None
      BY <1>1, <3>1 DEF None, Word
    <3>2. CASE live[id] # None
      BY <1>1, <1>2, <3>2 DEF IInv, LiveOK, AllocatedIn, Word
    <3> QED BY <3>1, <3>2
  <2>3. \A id \in Ids : live[id] \in [ptr : Word, size : Sizes \cup {0}, filled : Sizes \cup {0}]
    BY <2>1, <2>2
  <2> QED BY <2>1, <2>3
<1>6. brk \in 0..MaxHeap
  BY <1>1
<1> QED BY <1>1, <1>3, <1>4, <1>5, <1>6 DEF TypeOK

LEMMA IInvTiled ==
  ASSUME IInv
  PROVE  Tiled /\ NoFreeNeighbours
<1>1. /\ Body(mem, blocks, brk) /\ Tiles(mem, blocks, 4, brk) /\ brk > 4
      /\ mem[brk - 1] = PACK(0, 1) /\ Apart(mem, blocks)
  BY DEF IInv, Sound, HeapOK, Body
<1>2. 4 \in blocks
  BY <1>1 DEF Tiles
<1>3. \A p \in blocks : End(p) = nextBlock(mem, p)
  BY DEF End, nextBlock
<1>4. \A p \in blocks :
       /\ mem[header(p)] \in Tag
       /\ sizeOf(mem, header(p)) >= 4 /\ sizeOf(mem, header(p)) % 2 = 0
       /\ mem[footer(mem, p)] = mem[header(p)]
       /\ End(p) \in blocks \cup {brk}
       /\ \A q \in blocks : q <= p \/ End(p) <= q
  BY <1>1, <1>3 DEF Tiles, IsBlock, SizeAt
<1>5. Tiled
  BY <1>1, <1>2, <1>4 DEF Tiled, Body
<1>6. NoFreeNeighbours
  BY <1>1, <1>3 DEF NoFreeNeighbours, Apart, Allocated
<1> QED BY <1>5, <1>6

LEMMA IInvHeld ==
  ASSUME IInv
  PROVE  HeldBlocks
<1>1. {p \in blocks : Allocated(p)} = AllocatedIn(mem, blocks)
  BY DEF AllocatedIn, Allocated
<1>2. AllocatedIn(mem, blocks) = {live[id].ptr : id \in {i \in Ids : live[i] # None}}
  BY DEF IInv, LiveOK
<1>3. /\ \A i, j \in Ids : i # j /\ live[i] # None /\ live[j] # None => live[i].ptr # live[j].ptr
      /\ \A id \in Ids : live[id] # None =>
           live[id].size <= 8 * (sizeOf(mem, header(live[id].ptr)) - 2)
  BY DEF IInv, LiveOK, SizeAt
<1> QED BY <1>1, <1>2, <1>3 DEF HeldBlocks

LEMMA Invariant == NoWrap => (Spec => []IInv)
<1> SUFFICES ASSUME NoWrap PROVE Spec => []IInv
  OBVIOUS
<1>1. IInv /\ [Next]_vars => IInv'
  BY StepKeeps
<1> QED BY <1>1, InitInv, PTL DEF Spec

\* mm.c keeps its variables in their types, and every block pointer aligned.
THEOREM TypeCorrect == NoWrap => (Spec => []TypeOK)
<1>1. IInv => TypeOK
  BY IInvTyped
<1> QED BY <1>1, Invariant, PTL

\* place, coalesce and extend_heap keep the blocks end to end from the prologue to
\* the epilogue, with equal tags at both ends.
THEOREM TiledCorrect == NoWrap => (Spec => []Tiled)
<1>1. IInv => Tiled
  BY IInvTiled
<1> QED BY <1>1, Invariant, PTL

\* Whatever is freed or added to the heap, coalesce leaves no two neighbours free.
THEOREM NoFreeNeighboursCorrect == NoWrap => (Spec => []NoFreeNeighbours)
<1>1. IInv => NoFreeNeighbours
  BY IInvTiled
<1> QED BY <1>1, Invariant, PTL

\* No block is lost, handed out twice, or smaller than the request it serves.
THEOREM HeldBlocksCorrect == NoWrap => (Spec => []HeldBlocks)
<1>1. IInv => HeldBlocks
  BY IInvHeld
<1> QED BY <1>1, Invariant, PTL

LEMMA FailsFull ==
  ASSUME IInv, mm_malloc_fail
  PROVE  \A p \in blocks : Allocated(p) \/ sizeOf(mem, header(p)) < call.asize
<1>1. ~Idle /\ AtEnd(call.bp)
  BY DEF mm_malloc_fail
<1>2. /\ Tiles(mem, blocks, 4, brk) /\ mem[1] = PACK(2, 1)
  BY DEF IInv, Sound, HeapOK, Body
<1>3. /\ call.bp \in {g_heapBase, brk} \cup blocks
      /\ \A p \in blocks : p < call.bp =>
           isAllocated(mem, header(p)) \/ SizeAt(mem, p) < call.asize
  BY <1>1 DEF IInv, CallOK, Idle
<1>4. call.bp # g_heapBase
  BY <1>1, <1>2 DEF AtEnd, sizeOf, header, PACK, g_heapBase
<1>5. call.bp \notin blocks
  BY <1>1, <1>2, TilesOrder DEF AtEnd, SizeAt
<1>6. \A p \in blocks : p < brk
  BY <1>2, TilesOrder
<1> QED BY <1>3, <1>4, <1>5, <1>6 DEF Allocated, SizeAt

\* mm_malloc gives up only when find_fit has passed every block and none would do.
THEOREM FailsOnlyWhenFullCorrect == NoWrap => (Spec => FailsOnlyWhenFull)
<1>1. IInv /\ [Next]_vars =>
        [mm_malloc_fail => \A p \in blocks : Allocated(p) \/ sizeOf(mem, header(p)) < call.asize]_vars
  BY FailsFull
<1> QED BY <1>1, Invariant, PTL DEF Spec, FailsOnlyWhenFull

\* The 32-bit sum of mm.c:265 gives room for the request exactly when it does not
\* wrap around: NoWrap is what the allocator needs, and all it needs.
THEOREM AsizeIsEnough ==
  ASSUME NEW size \in Sizes
  PROVE  size + 31 < Uint <=> size <= 8 * (asize(size) - 2)
<1>1. size \in Nat /\ size > 0 /\ size < Uint /\ Uint \in Nat /\ Uint > 64
  BY SizesAssumption, UintAssumption, MaxHeapAssumption, ChunkAssumption
<1>2. CASE size <= 16
  BY <1>1, <1>2 DEF asize
<1>3. CASE size > 16 /\ size + 31 < Uint
  <2>1. (size + 31) % Uint = size + 31
    BY <1>1, <1>3
  <2> DEFINE k == (size + 31) \div 16
  <2>2. k \in Nat /\ 16 * k <= size + 31 /\ size + 31 < 16 * k + 16
    BY <1>1
  <2>3. asize(size) = 2 * k
    BY <1>1, <1>3, <2>1 DEF asize
  <2> HIDE DEF k
  <2> QED BY <1>1, <1>3, <2>2, <2>3
<1>4. CASE size > 16 /\ ~(size + 31 < Uint)
  <2>1. (size + 31) % Uint = size + 31 - Uint
    BY <1>1, <1>4
  <2> DEFINE k == (size + 31 - Uint) \div 16
  <2>2. k \in Nat /\ k <= 1
    BY <1>1, <1>4
  <2>3. asize(size) = 2 * k
    BY <1>1, <1>4, <2>1 DEF asize
  <2> HIDE DEF k
  <2> QED BY <1>1, <1>4, <2>2, <2>3
<1> QED BY <1>1, <1>2, <1>3, <1>4

-----------------------------------------------------------------------------
(* Malloc implements Allocator.                                              *)

\* What the mapping makes of the block under one id, in a heap m.
HeldAs(r) == [ptr |-> 8 * r.ptr, size |-> r.size]
DataAs(m, r) == [i \in 0..(r.filled - 1) |-> m[r.ptr + i \div 8]]

Held == [id \in Ids |-> HeldAs(live[id])]
Data == [id \in Ids |-> DataAs(mem, live[id])]

LEMMA HeldAsNone ==
  /\ HeldAs(None) = Promised!NoPayload
  /\ \A m : DataAs(m, None) = Promised!NoData
<1>1. HeldAs(None) = Promised!NoPayload
  BY DEF HeldAs, None, Promised!NoPayload
<1>2. ASSUME NEW m PROVE DataAs(m, None) = Promised!NoData
  <2>1. 0..(None.filled - 1) = {}
    BY DEF None
  <2> QED BY <2>1 DEF DataAs, Promised!NoData
<1> QED BY <1>1, <1>2

\* A block that keeps its words keeps what the client wrote into it.
LEMMA DataKept ==
  ASSUME IInv, NEW id \in Ids, live[id] # None, NEW n, Keeps(mem, n, live[id].ptr)
  PROVE  DataAs(n, live[id]) = DataAs(mem, live[id])
<1>1. /\ live[id].ptr \in AllocatedIn(mem, blocks) /\ live[id].size \in Nat
      /\ live[id].size <= 8 * (SizeAt(mem, live[id].ptr) - 2)
      /\ live[id].filled \in Nat /\ live[id].filled <= live[id].size
  BY HeldFacts
<1>2. /\ live[id].ptr \in Nat /\ SizeAt(mem, live[id].ptr) \in Nat
      /\ nextBlock(mem, live[id].ptr) = live[id].ptr + SizeAt(mem, live[id].ptr)
  BY <1>1, TilesOrder DEF IInv, Sound, HeapOK, Body, AllocatedIn
<1> DEFINE p == live[id].ptr
           filled == live[id].filled
           S == SizeAt(mem, p)
<1> HIDE DEF p, filled, S
<1>3. ASSUME NEW i \in 0..(filled - 1)
      PROVE  n[p + i \div 8] = mem[p + i \div 8]
  <2>1. filled \in Nat /\ filled <= 8 * (S - 2) /\ S \in Nat /\ p \in Nat
    BY <1>1, <1>2 DEF filled, S, p
  <2>2. i \in Nat /\ i < 8 * (S - 2)
    BY <2>1
  <2>3. i \div 8 \in Nat /\ i \div 8 < S - 2
    BY <2>1, <2>2
  <2>4. nextBlock(mem, p) = p + S
    BY <1>2 DEF p, S
  <2>5. p + i \div 8 \in (p - 1)..(nextBlock(mem, p) - 2)
    BY <2>1, <2>3, <2>4
  <2>6. Keeps(mem, n, p)
    BY DEF p
  <2> QED BY <2>5, <2>6 DEF Keeps, SameWords
<1> QED BY <1>3 DEF DataAs, p, filled

\* The payloads of two ids are apart, and inside the heap.
LEMMA PayloadsApart ==
  ASSUME NEW m, NEW b, NEW e, NEW l, Sound(m, b, e), LiveOK(m, b, l),
         NEW i \in Ids, l[i] # None
  PROVE  /\ HeldAs(l[i]).ptr \in 0..(8 * e)
         /\ HeldAs(l[i]).ptr % 16 = 0
         /\ HeldAs(l[i]).ptr + HeldAs(l[i]).size <= 8 * e
         /\ HeldAs(l[i]) # Promised!NoPayload
         /\ \A j \in Ids \ {i} :
              Promised!Extent(HeldAs(l[i])) \cap Promised!Extent(HeldAs(l[j])) = {}
<1> DEFINE Fits8(p, size) == /\ p \in AllocatedIn(m, b) /\ size \in Nat /\ size > 0
                             /\ size <= 8 * (SizeAt(m, p) - 2)
<1>1. \A k \in Ids : l[k] # None => Fits8(l[k].ptr, l[k].size)
  <2>1. \A n \in Sizes : n \in Nat /\ n > 0
    BY SizesAssumption, UintAssumption
  <2> QED BY <2>1 DEF LiveOK
<1>2. /\ Tiles(m, b, 4, e) /\ e \in Nat /\ e <= MaxHeap /\ MaxHeap \in Nat
  BY MaxHeapAssumption DEF Sound, HeapOK, Body
<1>3. \A p, size : Fits8(p, size) =>
        /\ p \in b /\ p \in Nat /\ p % 2 = 0 /\ 4 <= p /\ SizeAt(m, p) \in Nat
        /\ nextBlock(m, p) = p + SizeAt(m, p) /\ nextBlock(m, p) <= e
        /\ size \in Nat /\ size > 0 /\ size <= 8 * (SizeAt(m, p) - 2)
        /\ \A q \in b : q <= p \/ nextBlock(m, p) <= q
  BY <1>2, TilesOrder DEF AllocatedIn
<1> HIDE DEF Fits8
<1> DEFINE p == l[i].ptr
           size == l[i].size
<1>4. /\ p \in b /\ p \in Nat /\ p % 2 = 0 /\ 4 <= p /\ SizeAt(m, p) \in Nat
      /\ nextBlock(m, p) = p + SizeAt(m, p) /\ nextBlock(m, p) <= e
      /\ size \in Nat /\ size > 0 /\ size <= 8 * (SizeAt(m, p) - 2)
      /\ \A q \in b : q <= p \/ nextBlock(m, p) <= q
  BY <1>1, <1>3
<1>5. HeldAs(l[i]).ptr = 8 * p /\ HeldAs(l[i]).size = size
  BY DEF HeldAs
<1> HIDE DEF p, size
<1>6. /\ HeldAs(l[i]).ptr \in 0..(8 * e)
      /\ HeldAs(l[i]).ptr % 16 = 0
      /\ HeldAs(l[i]).ptr + HeldAs(l[i]).size <= 8 * e
      /\ HeldAs(l[i]) # Promised!NoPayload
  BY <1>2, <1>4, <1>5 DEF Promised!NoPayload
<1>7. ASSUME NEW j \in Ids \ {i}
      PROVE  Promised!Extent(HeldAs(l[i])) \cap Promised!Extent(HeldAs(l[j])) = {}
  <2>1. CASE l[j] = None
    <3>1. Promised!Extent(HeldAs(l[j])) = {}
      BY <2>1 DEF HeldAs, None, Promised!Extent
    <3> QED BY <3>1
  <2>2. CASE l[j] # None
    <3> DEFINE q == l[j].ptr
               n == l[j].size
    <3>1. /\ q \in b /\ q \in Nat /\ SizeAt(m, q) \in Nat
          /\ nextBlock(m, q) = q + SizeAt(m, q)
          /\ n \in Nat /\ n <= 8 * (SizeAt(m, q) - 2)
          /\ \A r \in b : r <= q \/ nextBlock(m, q) <= r
      BY <1>1, <1>3, <2>2
    <3>2. p # q
      BY <2>2 DEF LiveOK, p
    <3>3. HeldAs(l[j]).ptr = 8 * q /\ HeldAs(l[j]).size = n
      BY DEF HeldAs
    <3> HIDE DEF q, n
    <3>4. 8 * p + size <= 8 * q \/ 8 * q + n <= 8 * p
      BY <1>4, <3>1, <3>2
    <3> QED BY <1>4, <1>5, <3>1, <3>3, <3>4 DEF Promised!Extent
  <2> QED BY <2>1, <2>2
<1> QED BY <1>6, <1>7

LEMMA EmptyBrkFits == EmptyBrk \in 0..MaxHeap
BY ChunkAssumption, MaxHeapAssumption DEF EmptyBrk

LEMMA RefinesInit == Init => Promised!Init
<1>1. Init => 8 * brk \in {8 * words : words \in 0..MaxHeap}
  BY EmptyBrkFits DEF Init
<1> QED BY <1>1, HeldAsNone DEF Init, Promised!Init, HeldAs, DataAs

\* A call raises the break or leaves it.
LEMMA RefinesGrows ==
  ASSUME IInv, brk' \in 0..MaxHeap, brk <= brk'
  PROVE  Promised!Grows
<1>1. brk \in Nat /\ brk' \in Nat
  BY MaxHeapAssumption DEF IInv, Sound, HeapOK, Body
<1>2. 8 * brk' \in {8 * words : words \in 0..MaxHeap} /\ 8 * brk <= 8 * brk'
  BY <1>1
<1> QED BY <1>2 DEF Promised!Grows

LEMMA HoldsIffLive ==
  ASSUME IInv, NEW id \in Ids
  PROVE  HeldAs(live[id]) # Promised!NoPayload <=> live[id] # None
BY HeldAsNone, PayloadsApart DEF IInv

\* What is done for one id leaves the data of the others.
LEMMA OthersKeepData ==
  ASSUME IInv, NEW id \in Ids, \A j \in Ids \ {id} : live'[j] = live[j],
         \A q \in AllocatedIn(mem, blocks) \ {live[id].ptr} : Keeps(mem, mem', q)
  PROVE  \A j \in Ids \ {id} : DataAs(mem', live'[j]) = DataAs(mem, live[j])
<1> TAKE j \in Ids \ {id}
<1>1. CASE live[j] = None
  BY <1>1, HeldAsNone
<1>2. CASE live[j] # None
  <2>1. live[j].ptr \in AllocatedIn(mem, blocks) \ {live[id].ptr}
    BY <1>2, NoneIsNoBlock DEF IInv, LiveOK
  <2>2. DataAs(mem', live[j]) = DataAs(mem, live[j])
    BY <1>2, <2>1, DataKept
  <2> QED BY <2>2
<1> QED BY <1>1, <1>2

LEMMA RefinesReturn ==
  ASSUME IInv, NoWrap, ~Idle, NEW p \in Nat, HandsOut(p), brk <= brk'
  PROVE  Promised!Next
<1>0. PICK id \in Ids, size \in Sizes : id = call.id /\ size = call.size
  BY CallFacts
<1> DEFINE old == live[id]
           filled == Lower(old.filled, size)
           new == [ptr |-> p, size |-> size, filled |-> filled]
<1>1. /\ id \in Ids /\ size \in Sizes /\ size \in Nat /\ size > 0
      /\ live \in [Ids -> [ptr : Nat, size : Sizes \cup {0}, filled : Sizes \cup {0}]]
  BY <1>0, CallFacts DEF IInv, LiveOK
<1>2. /\ live' = [live EXCEPT ![id] = new] /\ p # 0
      /\ \A q \in AllocatedIn(mem, blocks) \ {old.ptr} : Keeps(mem, mem', q)
      /\ \A i \in Nat : 8 * i < filled => mem'[p + i] = mem[old.ptr + i]
      /\ Sound(mem', blocks', brk')
  BY <1>0 DEF HandsOut
<1>3. LiveOK(mem', blocks', live')
  BY HandsOutKeeps DEF IInv
<1>4. live'[id] = new /\ \A j \in Ids \ {id} : live'[j] = live[j]
  BY <1>1, <1>2
<1>5. old.filled \in Nat
  <2>1. \A n \in Sizes : n \in Nat
    BY SizesAssumption, UintAssumption
  <2>2. old.filled \in Sizes \cup {0}
    BY <1>1
  <2> QED BY <2>1, <2>2
<1> HIDE DEF old
<1>6. new # None /\ new.ptr = p /\ new.size = size /\ new.filled = filled
      /\ HeldAs(new) = [ptr |-> 8 * p, size |-> size]
  BY <1>2 DEF None, HeldAs
<1> HIDE DEF new, filled
<1>7. \A j \in Ids \ {id} : DataAs(mem', live'[j]) = DataAs(mem, live[j])
  BY <1>1, <1>2, <1>4, OthersKeepData DEF old
<1>8. Promised!Gets(id, size)
  <2> DEFINE ptr == 8 * p
  <2>1. /\ ptr \in 0..(8 * brk') /\ ptr % 16 = 0 /\ ptr + size <= 8 * brk'
        /\ \A j \in Ids \ {id} :
             Promised!Extent([ptr |-> ptr, size |-> size]) \cap Promised!Extent(HeldAs(live[j])) = {}
    <3>1. live'[id] # None
      BY <1>4, <1>6
    <3>2. /\ HeldAs(live'[id]).ptr \in 0..(8 * brk')
          /\ HeldAs(live'[id]).ptr % 16 = 0
          /\ HeldAs(live'[id]).ptr + HeldAs(live'[id]).size <= 8 * brk'
          /\ \A j \in Ids \ {id} :
               Promised!Extent(HeldAs(live'[id])) \cap Promised!Extent(HeldAs(live'[j])) = {}
      <4>1. Sound(mem', blocks', brk')
        BY <1>2
      <4> QED BY <1>3, <3>1, <4>1, PayloadsApart
    <3> QED BY <1>4, <1>6, <3>2
  <2>2. Held' = [Held EXCEPT ![id] = [ptr |-> ptr, size |-> size]]
    BY <1>1, <1>4, <1>6 DEF Held
  <2>3. Promised!Grows
    <3>1. brk' \in 0..MaxHeap
      BY <1>2, MaxHeapAssumption DEF Sound, HeapOK, Body
    <3> QED BY <3>1, RefinesGrows
  <2> HIDE DEF ptr
  <2> QED BY <2>1, <2>2, <2>3 DEF Promised!Gets, Promised!MayHold, Held, HeldAs
<1>9. CASE old = None
  <2>1. filled = 0
    BY <1>1, <1>9 DEF filled, None, Lower
  <2>2. DataAs(mem', new) = Promised!NoData
    <3>1. 0..(filled - 1) = {}
      BY <2>1
    <3> QED BY <1>6, <3>1 DEF DataAs, Promised!NoData
  <2>3. Data' = Data
    BY <1>1, <1>4, <1>7, <1>9, <2>2, HeldAsNone DEF Data, old
  <2>4. HeldAs(live[id]) = Promised!NoPayload
    BY <1>9, HeldAsNone DEF old
  <2>5. Promised!malloc(id, size)
    BY <1>1, <1>8, <2>3, <2>4 DEF Promised!malloc, Promised!Holds, Data, DataAs, HeldAs
  <2> QED BY <1>1, <2>5 DEF Promised!Next
<1>10. CASE old # None
  <2>1. DataAs(mem', new) = Promised!Prefix(DataAs(mem, old), size)
    <3>1. 0..(filled - 1) = {k \in 0..(old.filled - 1) : k < size}
      BY <1>1, <1>5 DEF filled, Lower
    <3>2. ASSUME NEW i \in 0..(filled - 1)
          PROVE  mem'[p + i \div 8] = mem[old.ptr + i \div 8]
      <4>1. filled \in Nat
        BY <1>1, <1>5 DEF filled, Lower
      <4>2. i \div 8 \in Nat /\ 8 * (i \div 8) < filled
        BY <4>1
      <4> QED BY <1>2, <4>2
    <3> QED BY <1>6, <3>1, <3>2 DEF DataAs, Promised!Prefix
  <2>2. Data' = [Data EXCEPT ![id] = Promised!Prefix(@, size)]
    BY <1>1, <1>4, <1>7, <2>1 DEF Data, old
  <2>3. HeldAs(live[id]) # Promised!NoPayload
    BY <1>1, <1>10, HoldsIffLive DEF old
  <2>4. Promised!realloc(id, size)
    BY <1>1, <1>8, <2>2, <2>3 DEF Promised!realloc, Promised!Holds, Data, DataAs, HeldAs
  <2> QED BY <1>1, <2>4 DEF Promised!Next
<1> QED BY <1>9, <1>10

LEMMA RefinesFree ==
  ASSUME IInv, NEW id \in Ids, mm_free(id)
  PROVE  Promised!free(id)
<1>1. /\ live[id] # None /\ live' = [live EXCEPT ![id] = None]
      /\ \A q \in AllocatedIn(mem, blocks) \ {live[id].ptr} : Keeps(mem, mem', q)
  BY FreeStep DEF mm_free
<1>2. live'[id] = None /\ \A j \in Ids \ {id} : live'[j] = live[j]
  BY <1>1 DEF IInv, LiveOK
<1>3. \A j \in Ids \ {id} : DataAs(mem', live'[j]) = DataAs(mem, live[j])
  BY <1>1, <1>2, OthersKeepData
<1>4. Held' = [Held EXCEPT ![id] = Promised!NoPayload]
  BY <1>2, HeldAsNone DEF Held
<1>5. Data' = [Data EXCEPT ![id] = Promised!NoData]
  BY <1>2, <1>3, HeldAsNone DEF Data
<1>6. HeldAs(live[id]) # Promised!NoPayload
  BY <1>1, HoldsIffLive
<1>7. Promised!Grows
  <2>1. brk' = brk /\ brk \in 0..MaxHeap /\ brk <= brk
    BY MaxHeapAssumption DEF mm_free, IInv, Sound, HeapOK, Body
  <2> QED BY <2>1, RefinesGrows
<1> QED BY <1>4, <1>5, <1>6, <1>7 DEF Promised!free, Promised!Holds, Held, Data, DataAs, HeldAs

LEMMA RefinesFill ==
  ASSUME IInv, NEW id \in Ids, memset(id)
  PROVE  Promised!fill(id, id)
<1> DEFINE size == live[id].size
           ptr == live[id].ptr
<1>1. /\ live[id] # None /\ live' = [live EXCEPT ![id].filled = size]
      /\ \A q \in AllocatedIn(mem, blocks) \ {ptr} : Keeps(mem, mem', q)
      /\ \A i \in Nat : 8 * i < size => mem'[ptr + i] = id
  BY MemsetStep DEF memset
<1>2. live \in [Ids -> [ptr : Nat, size : Sizes \cup {0}, filled : Sizes \cup {0}]]
      /\ size \in Nat
  BY <1>1, HeldFacts DEF IInv, LiveOK
<1>3. /\ live'[id].ptr = ptr /\ live'[id].size = size /\ live'[id].filled = size
      /\ \A j \in Ids \ {id} : live'[j] = live[j]
  BY <1>1, <1>2
<1>4. \A j \in Ids \ {id} : DataAs(mem', live'[j]) = DataAs(mem, live[j])
  BY <1>1, <1>3, OthersKeepData
<1>5. Held' = Held
  <2>1. \A j \in Ids : HeldAs(live'[j]) = HeldAs(live[j])
    BY <1>3 DEF HeldAs
  <2> QED BY <2>1 DEF Held
<1>6. DataAs(mem', live'[id]) = [i \in 0..(size - 1) |-> id]
  <2> HIDE DEF size, ptr
  <2>1. ASSUME NEW i \in 0..(size - 1) PROVE mem'[ptr + i \div 8] = id
    <3>1. i \div 8 \in Nat /\ 8 * (i \div 8) < size
      BY <1>2
    <3> QED BY <1>1, <3>1
  <2> QED BY <1>3, <2>1 DEF DataAs
<1>7. Data' = [Data EXCEPT ![id] = [i \in 0..(size - 1) |-> id]]
  BY <1>4, <1>6 DEF Data
<1>8. HeldAs(live[id]) # Promised!NoPayload
  BY <1>1, HoldsIffLive
<1>9. 8 * brk' = 8 * brk
  BY DEF memset
<1> QED BY <1>5, <1>7, <1>8, <1>9 DEF Promised!fill, Promised!Holds, Held, Data, DataAs, HeldAs

LEMMA RefinesReset == mm_init => Promised!init
<1>1. mm_init => 8 * brk' \in {8 * words : words \in 0..MaxHeap}
  BY EmptyBrkFits DEF mm_init
<1> QED BY <1>1, HeldAsNone DEF mm_init, Promised!init, HeldAs, DataAs

LEMMA RefinesStep == NoWrap /\ IInv /\ [Next]_vars => [Promised!Next]_(Promised!vars)
<1> SUFFICES ASSUME NoWrap, IInv, [Next]_vars PROVE [Promised!Next]_(Promised!vars)
  OBVIOUS
<1>1. ASSUME mem' = mem, brk' = brk, live' = live PROVE UNCHANGED Promised!vars
  BY <1>1 DEF Promised!vars
<1>2. ASSUME NEW id \in Ids, NEW size \in Sizes, mm_malloc(id, size) \/ mm_realloc(id, size)
      PROVE  UNCHANGED Promised!vars
  BY <1>1, <1>2, StartKeeps
<1>3. ASSUME NEW id \in Ids, mm_free(id) PROVE Promised!Next
  BY <1>3, RefinesFree DEF Promised!Next
<1>4. ASSUME NEW id \in Ids, memset(id) PROVE Promised!Next
  BY <1>4, RefinesFill DEF Promised!Next
<1>5. CASE mm_init
  BY <1>5, RefinesReset DEF Promised!Next
<1>6. CASE find_fit
  BY <1>1, <1>6, WalkKeeps
<1>7. CASE mm_malloc_fit
  <2>1. ~Idle
    BY <1>7 DEF mm_malloc_fit
  <2>2. call.bp \in Nat /\ HandsOut(call.bp)
    BY <1>7, FitHandsOut DEF HandsOut
  <2>3. PICK p \in Nat : p = call.bp
    BY <2>2
  <2>4. brk <= brk'
    BY <1>7, FitHandsOut DEF IInv, Sound, HeapOK, Body
  <2> QED BY <2>1, <2>2, <2>3, <2>4, RefinesReturn
<1>8. CASE mm_malloc_extend
  <2>1. ~Idle
    BY <1>8 DEF mm_malloc_extend
  <2>2. brk <= brk'
    <3>1. /\ brk \in Nat /\ Higher(call.asize, Chunk) \in Nat
          /\ brk' = brk + Higher(call.asize, Chunk)
      BY <1>8, <2>1, ExtendHandsOut, CallFacts, ChunkAssumption, MaxHeapAssumption
         DEF Higher, IInv, Sound, HeapOK, Body
    <3> QED BY <3>1
  <2> QED BY <1>8, <2>1, <2>2, ExtendHandsOut, RefinesReturn
<1>9. CASE mm_malloc_fail
  BY <1>1, <1>9 DEF mm_malloc_fail
<1>10. CASE UNCHANGED vars
  BY <1>1, <1>10 DEF vars
<1> QED BY <1>2, <1>3, <1>4, <1>5, <1>6, <1>7, <1>8, <1>9, <1>10 DEF Next

\* mm.c implements the allocator mdriver.c expects: aligned, disjoint payloads whose
\* bytes only the client changes, and which mm_realloc carries over.
THEOREM ImplementsAllocatorCorrect == NoWrap => (Spec => ImplementsAllocator)
<1> SUFFICES ASSUME NoWrap PROVE Spec => ImplementsAllocator
  OBVIOUS
<1>1. IInv /\ [Next]_vars => [Promised!Next]_(Promised!vars)
  BY RefinesStep
<1> QED BY <1>1, Invariant, RefinesInit, PTL DEF Spec, ImplementsAllocator, Promised!Spec

=============================================================================
