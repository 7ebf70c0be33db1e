------------------------------ MODULE MCMalloc ------------------------------
(* The state of Malloc that any later call can read, as TLC's view.          *)
EXTENDS Malloc

\* What a later call can read: tags of blocks and contents of held blocks.
Read(w) == \/ w \in {1, 2, brk - 1}
           \/ \E p \in blocks : w \in {header(p), footer(mem, p)}
           \/ \E id \in Ids : live[id] # None /\ w - live[id].ptr \in WordsOf(live[id].filled)
MemView == <<[w \in Word |-> IF Read(w) THEN mem[w] ELSE Junk], brk, blocks, call, live,
             mem \in [Word -> Content]>> \* TLC stores only states it evaluated
=============================================================================
