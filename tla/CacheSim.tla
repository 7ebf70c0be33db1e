------------------------------ MODULE CacheSim ------------------------------
(* The cache simulator of cachelab/handout/csim.c on the lines of a trace.   *)
(* A hit gives its line a new lru in a copy, which is lost: what is replaced *)
(* is not what the comment of access says (see MCCacheSim).                  *)
(*                                                                           *)
(* The counters are bounded by MaxAccesses, far from the end of an int.      *)
(* FindsEmpty and StopsClock are not used: they are mistakes to try TLC on.  *)
EXTENDS Integers, FiniteSets, Sequences

CONSTANTS s, E, b,    \* set index bits, lines of a set, block offset bits
          Addresses,  \* addresses in the trace
          MaxAccesses \* bound on the accesses of a trace

ASSUME CacheAssumption ==
  /\ s \in Nat \ {0} /\ E \in Nat \ {0} /\ b \in Nat \ {0} /\ MaxAccesses \in Nat
  /\ Addresses \subseteq Nat

VARIABLES cache, hits, misses, evictions, leastRecentUsed,
          again \* the address an M line is about to access a second time

simulator == <<cache, hits, misses, evictions, leastRecentUsed>>
vars == <<simulator, again>>

S == 2^s
Set == 0..(S - 1)
Line == 0..(E - 1)
None == -1

tag(addr) == addr \div 2^(b + s)

\* The set, of which the code shifts all other bits out.
set(addr) == (addr \div 2^b) % S

Init ==
  /\ cache = [i \in Set |-> [j \in Line |-> [valid |-> FALSE, lru |-> 0, tag |-> 0]]]
  /\ hits = 0 /\ misses = 0 /\ evictions = 0 /\ leastRecentUsed = 0
  /\ again = None

-----------------------------------------------------------------------------
FindsEmpty(addr) == {i \in Line : cache[set(addr)][i].tag = tag(addr)}
Found(addr) == {i \in Line : cache[set(addr)][i].valid /\ cache[set(addr)][i].tag = tag(addr)}

Empty(addr) == {i \in Line : ~cache[set(addr)][i].valid}

Victim(addr) ==
  CHOOSE i \in Line : \A j \in Line : cache[set(addr)][i].lru <= cache[set(addr)][j].lru

FirstEmpty(addr) == CHOOSE i \in Empty(addr) : \A j \in Empty(addr) : i <= j

\* The lru of the renewed line does not reach the cache.
hit(addr) ==
  /\ Found(addr) # {}
  /\ hits' = hits + 1 /\ leastRecentUsed' = leastRecentUsed + 1
  /\ UNCHANGED <<cache, misses, evictions>>

StopsClock(addr, i) ==
  /\ cache' = [cache EXCEPT ![set(addr)][i] =
                 [valid |-> TRUE, lru |-> leastRecentUsed + 1, tag |-> tag(addr)]]
  /\ misses' = misses + 1
  /\ UNCHANGED <<hits, leastRecentUsed>>

\* The address comes in at line i.
Place(addr, i) ==
  /\ cache' = [cache EXCEPT ![set(addr)][i] =
                 [valid |-> TRUE, lru |-> leastRecentUsed + 1, tag |-> tag(addr)]]
  /\ misses' = misses + 1 /\ leastRecentUsed' = leastRecentUsed + 1
  /\ UNCHANGED hits

miss(addr) ==
  /\ Found(addr) = {} /\ Empty(addr) # {}
  /\ Place(addr, FirstEmpty(addr))
  /\ UNCHANGED evictions

evict(addr) ==
  /\ Found(addr) = {} /\ Empty(addr) = {}
  /\ Place(addr, Victim(addr))
  /\ evictions' = evictions + 1

access(addr) == hits + misses < MaxAccesses /\ (hit(addr) \/ miss(addr) \/ evict(addr))

-----------------------------------------------------------------------------
\* A line of the trace: L and S are one access, M is two, I is none.
load_or_store(addr) == again = None /\ access(addr) /\ UNCHANGED again

modify(addr) == again = None /\ access(addr) /\ again' = addr

modify_again == again # None /\ access(again) /\ again' = None

Next == modify_again \/ \E addr \in Addresses : load_or_store(addr) \/ modify(addr)

Spec == Init /\ [][Next]_vars

-----------------------------------------------------------------------------
\* The variables have the types of csim.c.
TypeOK ==
  /\ cache \in [Set -> [Line -> [valid : BOOLEAN, lru : Nat, tag : {0} \cup {tag(addr) : addr \in Addresses}]]]
  /\ {hits, misses, evictions, leastRecentUsed} \subseteq Nat
  /\ again \in Addresses \cup {None}

ValidLines(i) == {j \in Line : cache[i][j].valid}

\* The three counts fit together: what came in and was not evicted is there,
\* once, under an lru of its own that is not ahead of the clock; between the two
\* accesses of an M line nothing takes its block away.
CountsAddUp ==
  /\ TypeOK
  /\ again # None => Found(again) # {}
  /\ leastRecentUsed = hits + misses
  /\ misses - evictions = Cardinality({l \in Set \X Line : cache[l[1]][l[2]].valid})
  /\ \A i \in Set : \A j, k \in ValidLines(i) :
       /\ cache[i][j].lru \in 1..leastRecentUsed
       /\ j # k => cache[i][j].lru # cache[i][k].lru /\ cache[i][j].tag # cache[i][k].tag

\* csim.c is a set-associative cache with some replacement policy: an access hits
\* exactly when the block came in and was not evicted since, a block goes only when
\* its set is full of others, and the counters count that.
Cached == INSTANCE SetCache WITH
  Sets <- Set, Tags <- {tag(addr) : addr \in Addresses}, Ways <- E,
  held <- [i \in Set |-> {cache[i][j].tag : j \in ValidLines(i)}]

ImplementsCache == Cached!Spec
=============================================================================
