----------------------------- MODULE MCCacheSim -----------------------------
(* CacheSim with a history: when each block was last accessed.               *)
EXTENDS CacheSim

VARIABLE used \* by set and tag, the clock after the last access

Tag == {tag(addr) : addr \in Addresses}

HistoryInit == Init /\ used = [block \in Set \X Tag |-> 0]

Accesses(addr) == load_or_store(addr) \/ modify(addr) \/ (addr = again /\ modify_again)

HistoryNext ==
  \E addr \in Addresses :
    /\ Accesses(addr)
    /\ used' = [used EXCEPT ![set(addr), tag(addr)] = leastRecentUsed']

HistorySpec == HistoryInit /\ [][HistoryNext]_<<vars, used>>

\* A full set gives up the block that has not been used for longest, as the comment
\* at csim.c:225 says: "find the least recently used value and remove it".
LeastRecentlyUsed ==
  [][\A i \in Set, gone, other \in Line :
       evictions' # evictions /\ cache'[i][gone] # cache[i][gone]
         => used[i, cache[i][gone].tag] <= used[i, cache[i][other].tag]]_<<vars, used>>
=============================================================================
