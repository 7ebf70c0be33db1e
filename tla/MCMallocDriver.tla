--------------------------- MODULE MCMallocDriver ---------------------------
(* What of the state of MallocDriver a later step can read, as TLC's view.   *)
(* The bytes outside the payloads are filled before they are read; with any  *)
(* allocator no outcome depends on the bytes, nor, without range list, on    *)
(* the addresses.                                                            *)
EXTENDS MallocDriver

Payload(id) == blocks[id] .. (blocks[id] + block_sizes[id] - 1)
Read == IF correct THEN UNION {Payload(id) : id \in live} ELSE {}

Seen ==
  CASE pass = "valid" -> <<brk, ranges, [id \in live |-> <<blocks[id], block_sizes[id]>>],
                           [i \in Read |-> bytes[i]]>>
    [] pass = "util"  -> <<IF correct THEN brk ELSE 0,
                           [id \in live |-> <<IF correct THEN blocks[id] ELSE 0, block_sizes[id]>>],
                           total_size, max_total_size>>
    [] OTHER          -> <<report>>
DriverView == <<correct, pass, Seen,
                bytes \in [HeapBytes -> Ids \cup {NULL}]>> \* TLC stores only states it evaluated
=============================================================================
