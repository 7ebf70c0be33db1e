-------------------------------- MODULE Fifo --------------------------------
(* The queue of queue.h as its user sees it: there is one or none, and it    *)
(* holds a sequence of values.  An operation that fails changes nothing.     *)
EXTENDS Sequences, SequencesExt

CONSTANT Values

VARIABLES exists, contents

vars == <<exists, contents>>

Init == ~exists /\ contents = <<>>

q_new == ~exists /\ exists' /\ contents' = <<>>

q_free == exists /\ ~exists' /\ contents' = <<>>

q_insert_head(v) == exists /\ contents' = <<v>> \o contents /\ UNCHANGED exists

q_insert_tail(v) == exists /\ contents' = Append(contents, v) /\ UNCHANGED exists

q_remove_head ==
  /\ exists /\ contents # <<>>
  /\ contents' = Tail(contents)
  /\ UNCHANGED exists

q_reverse == exists /\ contents' = Reverse(contents) /\ UNCHANGED exists

Next ==
  \/ q_new \/ q_free \/ q_remove_head \/ q_reverse
  \/ \E v \in Values : q_insert_head(v) \/ q_insert_tail(v)

Spec == Init /\ [][Next]_vars
=============================================================================
