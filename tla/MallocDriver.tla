---------------------------- MODULE MallocDriver ----------------------------
(* How malloc1/malloc/mdriver.c judges an allocator: eval_mm_valid runs a    *)
(* trace and keeps a list of the payload ranges, eval_mm_util runs it again  *)
(* and adds up sizes.  Addresses count bytes from mem_heap_lo.               *)
(*                                                                           *)
(* The trace is chosen step by step and is well formed, as the .rep files    *)
(* are: an id is allocated when it is free, reallocated or freed when it is  *)
(* allocated.  The allocator is any at all or, when correct, one that keeps  *)
(* the promises of Allocator but may still run out of memory.                *)
(* KeepsRange and AddsNewSize are not used: they are mistakes to try TLC on. *)
EXTENDS Integers, FiniteSets, Sequences, SequencesExt

CONSTANTS Ids, Sizes, Alignment,
          HeapSize, \* MAX_HEAP, in bytes
          Breaks,   \* the sizes the heap may have, in bytes
          Uint,     \* number of values of uint32_t
          NULL

ASSUME DriverAssumption ==
  /\ HeapSize \in Nat /\ Sizes \subseteq 1..HeapSize
  /\ Breaks \subseteq 0..HeapSize /\ 0 \in Breaks
  /\ Alignment \in Nat \ {0} /\ Uint \in Nat /\ Uint > HeapSize

VARIABLES correct,        \* whether the allocator keeps the promises of Allocator
          pass,           \* the evaluation under way
          report,         \* the malloc_error of the last eval_mm_valid
          ranges,         \* the range list, newest first
          blocks,         \* trace->blocks
          block_sizes,    \* trace->block_sizes
          live,           \* the ids the trace holds allocated
          brk,            \* mem_brk: the heap is the bytes below it
          bytes,          \* the bytes that mem_init sets aside for the heap
          total_size, max_total_size

driver == <<pass, report, ranges, blocks, block_sizes, live, brk, bytes, total_size, max_total_size>>
vars == <<correct, driver>>

Address == -Alignment..HeapSize
HeapBytes == 0..(HeapSize - 1)
range_t(lo, size) == [lo |-> lo, hi |-> lo + size - 1]

\* The payloads of the trace, as Allocator sees them.
Promised == INSTANCE Allocator WITH
  held <- [id \in Ids |-> IF id \in live THEN [ptr |-> blocks[id], size |-> block_sizes[id]]
                                         ELSE [ptr |-> 0, size |-> 0]],
  data <- [id \in Ids |-> [i \in 0..(block_sizes[id] - 1) |-> bytes[blocks[id] + i]]]

\* What mm_malloc or mm_realloc may return when it leaves the break at `end'.
Answers(id, size, end) ==
  IF correct THEN {NULL} \cup {p \in HeapBytes : Promised!MayHold(id, p, size, end)}
             ELSE {NULL} \cup Address

\* Every call of the allocator may raise the break, with mem_sbrk.
Grows == brk' \in Breaks /\ brk <= brk'

\* mem_reset_brk and mm_init, which takes what it needs of the empty heap.
Resets == brk' \in Breaks

-----------------------------------------------------------------------------
\* The test of add_range for a payload over the range p.
Overlaps(lo, hi, p) == (lo >= p.lo /\ lo <= p.hi) \/ (hi >= p.lo /\ hi <= p.hi)

\* The first complaint of add_range about a payload in a heap that ends at `end', or
\* "none".
Complaint(list, lo, size, end) ==
  LET hi == lo + size - 1 IN
  CASE lo % Alignment # 0 -> "alignment"
    [] lo % Alignment = 0 /\ ~({lo, hi} \subseteq 0..(end - 1)) -> "outside"
    [] OTHER -> IF \E p \in ToSet(list) : Overlaps(lo, hi, p) THEN "overlap" ELSE "none"

KeepsRange(list, lo) == list

\* remove_range: the first range that starts at lo.
Without(list, lo) == RemoveFirstMatch(list, LAMBDA p : p.lo = lo)

Filled(b, id, lo, size) == [i \in HeapBytes |-> IF i \in lo..(lo + size - 1) THEN id ELSE b[i]]

\* The heap after mm_realloc had n bytes of id to move: it copies them, or, when it
\* is any allocator, returns right or wrong data.
MovedHeaps(id, lo, from, n) ==
  IF correct
  THEN {[i \in HeapBytes |-> IF i \in lo..(lo + n - 1) THEN bytes[from + (i - lo)] ELSE bytes[i]]}
  ELSE {Filled(bytes, id, lo, n), Filled(bytes, NULL, lo, n)}

Reject(complaint) ==
  /\ pass' = "next" /\ report' = complaint
  /\ UNCHANGED <<blocks, block_sizes, live, total_size, max_total_size>>

Remember(id, p, size) ==
  /\ blocks' = [blocks EXCEPT ![id] = p]
  /\ block_sizes' = [block_sizes EXCEPT ![id] = size]

Lower(a, b) == IF a < b THEN a ELSE b
Higher(a, b) == IF a < b THEN b ELSE a

-----------------------------------------------------------------------------
Init ==
  /\ correct \in BOOLEAN
  /\ pass = "next" /\ report = "none" /\ ranges = <<>>
  /\ blocks = [id \in Ids |-> 0] /\ block_sizes = [id \in Ids |-> 0] /\ live = {}
  /\ brk = 0 /\ bytes = [i \in HeapBytes |-> NULL]
  /\ total_size = 0 /\ max_total_size = 0

\* The next trace: eval_mm_valid empties the heap, clears the range list and calls
\* mm_init.
eval_mm_valid ==
  /\ pass = "next" /\ Resets
  /\ ranges' = <<>> /\ live' = {}
  /\ \/ pass' = "valid" /\ report' = "none"
     \/ pass' = "next" /\ report' = "failed"
  /\ UNCHANGED <<blocks, block_sizes, bytes, total_size, max_total_size>>

valid_alloc(id, size) ==
  /\ pass = "valid" /\ id \notin live /\ Grows
  /\ \E p \in Answers(id, size, brk') :
       \/ p = NULL /\ Reject("failed") /\ UNCHANGED <<ranges, bytes>>
       \/ /\ p # NULL /\ Complaint(ranges, p, size, brk') # "none"
          /\ Reject(Complaint(ranges, p, size, brk')) /\ UNCHANGED <<ranges, bytes>>
       \/ /\ p # NULL /\ Complaint(ranges, p, size, brk') = "none"
          /\ ranges' = <<range_t(p, size)>> \o ranges
          /\ bytes' = Filled(bytes, id, p, size)
          /\ Remember(id, p, size)
          /\ live' = live \cup {id}
          /\ UNCHANGED <<pass, report, total_size, max_total_size>>

\* The old range goes before the new one is looked at; then the bytes that both
\* sizes have are compared with the id.
valid_realloc(id, size) ==
  /\ pass = "valid" /\ id \in live /\ Grows
  /\ LET kept == Lower(size, block_sizes[id])
         rest == Without(ranges, blocks[id])
     IN \E p \in Answers(id, size, brk') :
       \/ p = NULL /\ Reject("failed") /\ UNCHANGED <<ranges, bytes>>
       \/ /\ p # NULL /\ Complaint(rest, p, size, brk') # "none"
          /\ ranges' = rest /\ Reject(Complaint(rest, p, size, brk')) /\ UNCHANGED bytes
       \/ /\ p # NULL /\ Complaint(rest, p, size, brk') = "none"
          /\ ranges' = <<range_t(p, size)>> \o rest
          /\ \E moved \in MovedHeaps(id, p, blocks[id], kept) :
               IF \E j \in 0..(kept - 1) : moved[p + j] # id
               THEN bytes' = moved /\ Reject("data")
               ELSE /\ bytes' = Filled(moved, id, p, size)
                    /\ Remember(id, p, size)
                    /\ UNCHANGED <<pass, report, live, total_size, max_total_size>>

valid_free(id) ==
  /\ pass = "valid" /\ id \in live /\ Grows
  /\ ranges' = Without(ranges, blocks[id])
  /\ live' = live \ {id}
  /\ UNCHANGED <<pass, report, blocks, block_sizes, bytes, total_size, max_total_size>>

-----------------------------------------------------------------------------
\* The trace ends and is valid: eval_mm_util runs it again on an empty heap.  It
\* reads no payload, so that what is left in the heap does not matter.
eval_mm_util ==
  /\ pass = "valid" /\ Resets
  /\ pass' = "util" /\ live' = {} /\ total_size' = 0 /\ max_total_size' = 0
  /\ UNCHANGED <<report, ranges, blocks, block_sizes, bytes>>

AddsNewSize(old, new) == new

\* By how much a mm_realloc changes the total.
Growth(old, new) == new - old

\* In unsigned arithmetic.
Total(change) ==
  /\ total_size' = (total_size + change) % Uint
  /\ max_total_size' = Higher(total_size', max_total_size)

\* app_error: the driver exits when a call returns NULL, or mm_init fails.
util_exits ==
  /\ pass = "util" /\ pass' = "exit"
  /\ UNCHANGED <<report, ranges, blocks, block_sizes, live, brk, bytes, total_size, max_total_size>>

util_alloc(id, size) ==
  /\ pass = "util" /\ id \notin live /\ Grows
  /\ \E p \in Answers(id, size, brk') \ {NULL} : Remember(id, p, size)
  /\ live' = live \cup {id}
  /\ Total(size)
  /\ UNCHANGED <<pass, report, ranges, bytes>>

util_realloc(id, size) ==
  /\ pass = "util" /\ id \in live /\ Grows
  /\ \E p \in Answers(id, size, brk') \ {NULL} : Remember(id, p, size)
  /\ Total(Growth(block_sizes[id], size))
  /\ UNCHANGED <<pass, report, ranges, live, bytes>>

util_free(id) ==
  /\ pass = "util" /\ id \in live /\ Grows
  /\ live' = live \ {id}
  /\ total_size' = (total_size - block_sizes[id]) % Uint
  /\ UNCHANGED <<pass, report, ranges, blocks, block_sizes, bytes, max_total_size>>

\* The statistics are taken and the next trace begins.
util_ends ==
  /\ pass = "util" /\ pass' = "next"
  /\ UNCHANGED <<report, ranges, blocks, block_sizes, live, brk, bytes, total_size, max_total_size>>

DriverStep ==
  \/ eval_mm_valid \/ eval_mm_util \/ util_exits \/ util_ends
  \/ \E id \in Ids, size \in Sizes :
       \/ valid_alloc(id, size) \/ valid_realloc(id, size)
       \/ util_alloc(id, size) \/ util_realloc(id, size)
  \/ \E id \in Ids : valid_free(id) \/ util_free(id)

Next == DriverStep /\ UNCHANGED correct

Spec == Init /\ [][Next]_vars

-----------------------------------------------------------------------------
\* The variables have the types of mdriver.c; a range lies in the heap.
TypeOK ==
  /\ correct \in BOOLEAN
  /\ pass \in {"next", "valid", "util", "exit"}
  /\ report \in {"none", "failed", "alignment", "outside", "overlap", "data"}
  /\ ranges \in Seq([lo : HeapBytes, hi : HeapBytes])
  /\ blocks \in [Ids -> Address] /\ block_sizes \in [Ids -> Sizes \cup {0}]
  /\ live \subseteq Ids /\ brk \in Breaks
  /\ bytes \in [HeapBytes -> Ids \cup {NULL}]
  /\ {total_size, max_total_size} \subseteq 0..(Uint - 1)

\* Whatever the allocator returns, the range list of a trace is the list of its
\* live payloads, each once: add_range never lets two ranges begin at one
\* address, so that remove_range finds the right one.
RangesAreLive ==
  /\ TypeOK
  /\ pass = "valid" =>
       /\ Len(ranges) = Cardinality(live)
       /\ ToSet(ranges) = {range_t(blocks[id], block_sizes[id]) : id \in live}

\* An allocator that keeps the promises of Allocator is accused of nothing but
\* running out of memory, whatever the trace: add_range looks at the break as the
\* call has left it.
NoFalseAlarm == correct => report \in {"none", "failed"}

\* The running total of eval_mm_util is the size of all live payloads, and its
\* maximum is no smaller and never more than the break, by which it is divided in the
\* end ("brk is always the high water mark of the heap"): utilization is at most one.
TotalIsLive ==
  correct /\ pass = "util" =>
    /\ total_size = Cardinality({b \in live \X (1..HeapSize) : b[2] <= block_sizes[b[1]]})
    /\ total_size <= max_total_size /\ max_total_size <= brk
=============================================================================
