------------------------------ MODULE SetCache ------------------------------
(* A cache whose sets keep at most Ways tags: a tag that is kept is a hit,    *)
(* and a tag that is not comes in, in place of some other when the set is     *)
(* full.  Which one is not said: that is the replacement policy.              *)
EXTENDS Integers, FiniteSets

CONSTANTS Sets, Tags,
          Ways \* tags a set can keep

VARIABLES held, \* the tags of each set
          hits, misses, evictions

vars == <<held, hits, misses, evictions>>

Init == held = [set \in Sets |-> {}] /\ hits = 0 /\ misses = 0 /\ evictions = 0

hit(set, tag) ==
  /\ tag \in held[set]
  /\ hits' = hits + 1
  /\ UNCHANGED <<held, misses, evictions>>

fill(set, tag) ==
  /\ tag \notin held[set] /\ Cardinality(held[set]) < Ways
  /\ held' = [held EXCEPT ![set] = @ \cup {tag}]
  /\ misses' = misses + 1
  /\ UNCHANGED <<hits, evictions>>

replace(set, tag) ==
  /\ tag \notin held[set] /\ Cardinality(held[set]) = Ways
  /\ \E old \in held[set] : held' = [held EXCEPT ![set] = (@ \ {old}) \cup {tag}]
  /\ misses' = misses + 1 /\ evictions' = evictions + 1
  /\ UNCHANGED hits

Next == \E set \in Sets, tag \in Tags : hit(set, tag) \/ fill(set, tag) \/ replace(set, tag)

Spec == Init /\ [][Next]_vars
=============================================================================
