----------------------------- MODULE Allocator -----------------------------
(* What mdriver.c asks of the functions of mm.h: mm_malloc hands out aligned *)
(* payloads below the break that never overlap, mm_realloc carries over the  *)
(* data that fits, mm_free takes a payload back, and nobody but the client   *)
(* changes the bytes of a payload.  A call may raise the break.              *)
EXTENDS Integers

CONSTANTS Ids,      \* names for the blocks a client holds
          Sizes,    \* the sizes it asks for, in bytes
          Breaks,   \* the sizes the heap may have, in bytes
          Alignment

VARIABLES brk,  \* mem_brk: the heap is the bytes below it
          held, \* the payload under each id, of size 0 when there is none
          data  \* the bytes the client has written there, a function on offsets

vars == <<brk, held, data>>

NoPayload == [ptr |-> 0, size |-> 0]
NoData == [i \in {} |-> 0]

Holds(id) == held[id] # NoPayload
Extent(payload) == payload.ptr .. (payload.ptr + payload.size - 1)

\* Where `size' bytes for id may be in a heap that ends at `end': over no payload
\* of another id.
MayHold(id, ptr, size, end) ==
  /\ ptr % Alignment = 0 /\ ptr + size <= end
  /\ \A other \in Ids \ {id} :
       Extent([ptr |-> ptr, size |-> size]) \cap Extent(held[other]) = {}

Prefix(bytes, size) == [i \in {k \in DOMAIN bytes : k < size} |-> bytes[i]]

Init ==
  /\ brk \in Breaks
  /\ held = [id \in Ids |-> NoPayload] /\ data = [id \in Ids |-> NoData]

\* mem_sbrk never lowers the break.
Grows == brk' \in Breaks /\ brk <= brk'

Gets(id, size) ==
  /\ Grows
  /\ \E ptr \in 0..brk' :
       /\ MayHold(id, ptr, size, brk')
       /\ held' = [held EXCEPT ![id] = [ptr |-> ptr, size |-> size]]

malloc(id, size) ==
  /\ ~Holds(id) /\ Gets(id, size)
  /\ UNCHANGED data

realloc(id, size) ==
  /\ Holds(id) /\ Gets(id, size)
  /\ data' = [data EXCEPT ![id] = Prefix(@, size)]

\* A call that returns NULL.
fail == Grows /\ UNCHANGED <<held, data>>

free(id) ==
  /\ Holds(id) /\ Grows
  /\ held' = [held EXCEPT ![id] = NoPayload]
  /\ data' = [data EXCEPT ![id] = NoData]

\* The client writes one value into every byte of its payload.
fill(id, value) ==
  /\ Holds(id)
  /\ data' = [data EXCEPT ![id] = [i \in 0..(held[id].size - 1) |-> value]]
  /\ UNCHANGED <<brk, held>>

init ==
  /\ brk' \in Breaks
  /\ held' = [id \in Ids |-> NoPayload] /\ data' = [id \in Ids |-> NoData]

Next ==
  \/ \E id \in Ids, size \in Sizes : malloc(id, size) \/ realloc(id, size)
  \/ \E id \in Ids : free(id) \/ fill(id, id)
  \/ fail \/ init

Spec == Init /\ [][Next]_vars
=============================================================================
