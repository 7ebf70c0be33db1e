--------------------------- MODULE CacheSimProofs ---------------------------
(* What csim.c of cachelab/handout counts, for every geometry of the cache   *)
(* and every trace.  CountsAddUp is inductive as it stands.                  *)
EXTENDS CacheSim, FiniteSetTheorems, FunctionTheorems, WellFoundedInduction, TLAPS

\* The provers know of powers only as numbers of subsets.
LEMMA PowerOfTwo == ASSUME NEW n \in Nat PROVE 2^n \in Nat \ {0}
<1>1. IsFiniteSet(1..n) /\ Cardinality(1..n) = n
  BY FS_Interval
<1>2. IsFiniteSet(SUBSET (1..n)) /\ Cardinality(SUBSET (1..n)) = 2^n
  BY <1>1, FS_SUBSET
<1>3. Cardinality(SUBSET (1..n)) \in Nat
  BY <1>2, FS_CardinalityType
<1>4. Cardinality(SUBSET (1..n)) # 0
  BY <1>2, FS_EmptySet
<1> QED
  BY <1>2, <1>3, <1>4

LEMMA SNat == S \in Nat \ {0}
BY PowerOfTwo, CacheAssumption DEF S

LEMMA SetInRange == ASSUME NEW addr \in Nat PROVE set(addr) \in Set
<1>1. 2^b \in Nat \ {0}
  BY PowerOfTwo, CacheAssumption
<1>2. addr \div 2^b \in Int
  BY <1>1
<1>3. \A x \in Int : x % S \in 0..(S - 1)
  BY SNat
<1> QED
  BY <1>2, <1>3 DEF set, Set

LEMMA Least == ASSUME NEW T \in SUBSET Nat, T # {} PROVE \E x \in T : \A y \in T : x <= y
<1>1. PICK x \in T : \A y \in T : ~(<<y, x>> \in OpToRel(<, Nat))
  BY NatLessThanWellFounded, WFMin
<1>2. \A y \in T : ~(y < x)
  BY <1>1 DEF OpToRel
<1> QED
  BY <1>2

LEMMA FirstEmptyIsEmpty ==
  ASSUME NEW addr \in Nat, Empty(addr) # {}
  PROVE  FirstEmpty(addr) \in Empty(addr)
<1>1. Empty(addr) \in SUBSET Nat
  BY CacheAssumption DEF Empty, Line
<1>2. \E i \in Empty(addr) : \A j \in Empty(addr) : i <= j
  BY <1>1, Least
<1> QED
  BY <1>2 DEF FirstEmpty

\* There is an oldest line, and it is the one that goes.
LEMMA VictimIsOldest ==
  ASSUME TypeOK, NEW addr \in Nat
  PROVE  /\ Victim(addr) \in Line
         /\ \A j \in Line : cache[set(addr)][Victim(addr)].lru <= cache[set(addr)][j].lru
<1> DEFINE T == {cache[set(addr)][j].lru : j \in Line}
<1>1. T \in SUBSET Nat
  BY SetInRange DEF TypeOK
<1>2. 0 \in Line
  BY CacheAssumption DEF Line
<1>3. PICK x \in T : \A y \in T : x <= y
  BY <1>1, <1>2, Least, ZenonT(60)
<1>4. \E i \in Line : \A j \in Line : cache[set(addr)][i].lru <= cache[set(addr)][j].lru
  BY <1>3
<1> QED
  BY <1>4 DEF Victim

-----------------------------------------------------------------------------
\* The lines whose valid bit is set.
Filled == {l \in Set \X Line : cache[l[1]][l[2]].valid}

LEMMA FilledFinite == IsFiniteSet(Filled)
<1>1. IsFiniteSet(Set) /\ IsFiniteSet(Line)
  BY FS_Interval, SNat, CacheAssumption DEF Set, Line
<1>2. IsFiniteSet(Set \X Line)
  BY <1>1, FS_Product
<1> QED
  BY <1>2, FS_Subset DEF Filled

LEMMA CountsInit == Init => CountsAddUp
<1> SUFFICES ASSUME Init PROVE CountsAddUp
  OBVIOUS
<1>1. TypeOK
  BY DEF Init, TypeOK
<1>2. {l \in Set \X Line : cache[l[1]][l[2]].valid} = {}
  BY DEF Init
<1>3. Cardinality({l \in Set \X Line : cache[l[1]][l[2]].valid}) = 0
  BY <1>2, FS_EmptySet
<1>4. \A i \in Set : ValidLines(i) = {}
  BY DEF Init, ValidLines
<1>5. again = None /\ leastRecentUsed = 0 /\ hits = 0 /\ misses = 0 /\ evictions = 0
  BY DEF Init
<1> QED
  BY <1>1, <1>3, <1>4, <1>5 DEF CountsAddUp

\* What a new block leaves in the cache.
LEMMA Placed ==
  ASSUME TypeOK, NEW addr \in Addresses, NEW i \in Line, Place(addr, i)
  PROVE  /\ cache'[set(addr)][i] = [valid |-> TRUE, lru |-> leastRecentUsed + 1, tag |-> tag(addr)]
         /\ \A x \in Set, j \in Line :
              x # set(addr) \/ j # i => cache'[x][j] = cache[x][j]
         /\ cache' \in [Set -> [Line -> [valid : BOOLEAN, lru : Nat,
                                         tag : {0} \cup {tag(a) : a \in Addresses}]]]
<1>1. set(addr) \in Set /\ leastRecentUsed + 1 \in Nat
  BY SetInRange, CacheAssumption DEF TypeOK
<1> DEFINE new == [valid |-> TRUE, lru |-> leastRecentUsed + 1, tag |-> tag(addr)]
<1>2. new \in [valid : BOOLEAN, lru : Nat, tag : {0} \cup {tag(a) : a \in Addresses}]
  BY <1>1
<1>3. cache' = [cache EXCEPT ![set(addr)][i] = new]
  BY DEF Place
<1>4. cache'[set(addr)][i] = new
  BY <1>1, <1>3 DEF TypeOK
<1> HIDE DEF new
<1> QED
  BY <1>1, <1>2, <1>3, <1>4 DEF TypeOK, new

\* A block that was nowhere comes in at a line that was empty or, when the count of
\* evictions goes up, at one that was not.
LEMMA PlaceCounts ==
  ASSUME CountsAddUp, NEW addr \in Addresses, NEW i \in Line, Place(addr, i), Found(addr) = {},
         \/ ~cache[set(addr)][i].valid /\ evictions' = evictions
         \/ cache[set(addr)][i].valid /\ evictions' = evictions + 1,
         again' \in {None, addr}
  PROVE  CountsAddUp'
<1>1. TypeOK /\ leastRecentUsed = hits + misses
  BY DEF CountsAddUp
<1>0. /\ cache'[set(addr)][i] = [valid |-> TRUE, lru |-> leastRecentUsed + 1, tag |-> tag(addr)]
      /\ \A x \in Set, j \in Line :
           x # set(addr) \/ j # i => cache'[x][j] = cache[x][j]
      /\ cache' \in [Set -> [Line -> [valid : BOOLEAN, lru : Nat,
                                      tag : {0} \cup {tag(a) : a \in Addresses}]]]
  BY <1>1, Placed
<1>2. set(addr) \in Set
  BY SetInRange, CacheAssumption
<1>3. /\ misses' = misses + 1 /\ leastRecentUsed' = leastRecentUsed + 1 /\ hits' = hits
  BY DEF Place
<1>4. {hits, misses, evictions, leastRecentUsed} \subseteq Nat
  BY <1>1 DEF TypeOK
<1>5. TypeOK'
  BY <1>0, <1>1, <1>3, <1>4 DEF TypeOK
<1>6. i \in Found(addr)'
  BY <1>0 DEF Found
<1>7. misses' - evictions' = Cardinality(Filled')
  <2> DEFINE l == <<set(addr), i>>
  <2>1. l \in Set \X Line
    BY <1>2
  <2>2. Filled' = Filled \cup {l}
    <3>1. \A k \in Set \X Line : k # l => (k \in Filled' <=> k \in Filled)
      <4> TAKE k \in Set \X Line
      <4>1. PICK x \in Set, y \in Line : k = <<x, y>>
        OBVIOUS
      <4> QED
        BY <4>1, <1>0 DEF Filled
    <3>2. l \in Filled'
      BY <2>1, <1>0 DEF Filled
    <3> QED
      BY <3>1, <3>2, <2>1 DEF Filled
  <2>3. l \in Filled <=> cache[set(addr)][i].valid
    BY <2>1 DEF Filled
  <2>4. misses - evictions = Cardinality(Filled)
    BY DEF CountsAddUp, Filled
  <2>5. Cardinality(Filled \cup {l}) = IF l \in Filled THEN Cardinality(Filled) ELSE Cardinality(Filled) + 1
    BY FilledFinite, FS_AddElement
  <2> QED
    BY <2>2, <2>3, <2>4, <2>5, <1>3, <1>4
<1>8. ASSUME NEW x \in Set, NEW j \in ValidLines(x)', NEW k \in ValidLines(x)'
      PROVE  /\ cache'[x][j].lru \in 1..leastRecentUsed'
             /\ j # k => cache'[x][j].lru # cache'[x][k].lru /\ cache'[x][j].tag # cache'[x][k].tag
  <2>1. j \in Line /\ k \in Line /\ cache'[x][j].valid /\ cache'[x][k].valid
    BY DEF ValidLines
  <2>2. ASSUME NEW y \in Line, cache'[x][y].valid, x # set(addr) \/ y # i
        PROVE  /\ cache'[x][y] = cache[x][y] /\ y \in ValidLines(x)
               /\ cache[x][y].lru \in 1..leastRecentUsed
    <3>1. cache'[x][y] = cache[x][y]
      BY <1>0, <2>2
    <3> QED
      BY <2>2, <3>1 DEF CountsAddUp, ValidLines
  <2>3. ASSUME NEW y \in Line, cache'[x][y].valid, x = set(addr), y # i
        PROVE  cache'[x][y].tag # tag(addr) /\ cache'[x][y].lru < leastRecentUsed + 1
    BY <1>4, <2>2, <2>3 DEF Found, ValidLines
  <2>4. CASE x = set(addr) /\ j = i
    BY <2>4, <2>1, <2>3, <1>0, <1>3, <1>4
  <2>5. CASE x = set(addr) /\ k = i /\ j # i
    BY <2>5, <2>1, <2>2, <2>3, <1>0, <1>3, <1>4
  <2>6. CASE x # set(addr) \/ (j # i /\ k # i)
    BY <2>6, <2>1, <2>2, <1>3, <1>4 DEF CountsAddUp
  <2> QED
    BY <2>4, <2>5, <2>6
<1>9. again' # None => Found(again)' # {}
  BY <1>6
<1> QED
  BY <1>1, <1>3, <1>4, <1>5, <1>6, <1>7, <1>8, <1>9 DEF CountsAddUp, Filled

LEMMA AccessCounts ==
  ASSUME CountsAddUp, NEW addr \in Addresses, access(addr), again' \in {None, addr}
  PROVE  CountsAddUp'
<1>1. TypeOK /\ addr \in Nat
  BY CacheAssumption DEF CountsAddUp
<1>2. CASE hit(addr)
  <2>1. /\ cache' = cache /\ misses' = misses /\ evictions' = evictions
        /\ hits' = hits + 1 /\ leastRecentUsed' = leastRecentUsed + 1 /\ Found(addr) # {}
    BY <1>2 DEF hit
  <2>2. TypeOK'
    BY <1>1, <2>1 DEF TypeOK
  <2>3. again' # None => Found(again)' # {}
    BY <2>1 DEF Found
  <2>4. leastRecentUsed' = hits' + misses'
    BY <2>1, <1>1 DEF CountsAddUp, TypeOK
  <2>5. misses' - evictions' = Cardinality({l \in Set \X Line : cache'[l[1]][l[2]].valid})
    BY <2>1 DEF CountsAddUp
  <2>6. \A n \in Nat : 1..n \subseteq 1..(n + 1)
    OBVIOUS
  <2>7. 1..leastRecentUsed \subseteq 1..leastRecentUsed'
    BY <2>1, <2>6, <1>1 DEF TypeOK
  <2> QED
    BY <2>1, <2>2, <2>3, <2>4, <2>5, <2>7 DEF CountsAddUp, ValidLines
<1>3. CASE miss(addr)
  <2>1. FirstEmpty(addr) \in Line /\ ~cache[set(addr)][FirstEmpty(addr)].valid
    BY <1>1, <1>3, FirstEmptyIsEmpty DEF miss, Empty
  <2> QED
    BY <2>1, <1>3, PlaceCounts DEF miss
<1>4. CASE evict(addr)
  <2>1. Victim(addr) \in Line /\ cache[set(addr)][Victim(addr)].valid
    BY <1>1, <1>4, VictimIsOldest DEF evict, Empty
  <2> QED
    BY <2>1, <1>4, PlaceCounts DEF evict
<1> QED
  BY <1>2, <1>3, <1>4 DEF access

LEMMA CountsNext == CountsAddUp /\ [Next]_vars => CountsAddUp'
<1> SUFFICES ASSUME CountsAddUp, [Next]_vars PROVE CountsAddUp'
  OBVIOUS
<1>1. again \in Addresses \cup {None}
  BY DEF CountsAddUp, TypeOK
<1>2. CASE modify_again
  BY <1>1, <1>2, AccessCounts DEF modify_again
<1>3. ASSUME NEW addr \in Addresses, load_or_store(addr) PROVE CountsAddUp'
  BY <1>3, AccessCounts DEF load_or_store
<1>4. ASSUME NEW addr \in Addresses, modify(addr) PROVE CountsAddUp'
  BY <1>4, AccessCounts DEF modify
<1>5. CASE UNCHANGED vars
  BY <1>5 DEF vars, simulator, CountsAddUp, TypeOK, Found, ValidLines
<1> QED
  BY <1>2, <1>3, <1>4, <1>5 DEF Next

\* The counts of csim.c fit together and to the lines it keeps, whatever the trace.
THEOREM CountsAddUpCorrect == Spec => []CountsAddUp
BY CountsInit, CountsNext, PTL DEF Spec

-----------------------------------------------------------------------------
(* The tags of a set, and how many they are.                                 *)

Held == [i \in Set |-> {cache[i][j].tag : j \in ValidLines(i)}]

LEMMA FoundIsHeld ==
  ASSUME TypeOK, NEW addr \in Nat
  PROVE  Found(addr) # {} <=> tag(addr) \in Held[set(addr)]
<1>1. set(addr) \in Set
  BY SetInRange
<1>2. Held[set(addr)] = {cache[set(addr)][j].tag : j \in ValidLines(set(addr))}
  BY <1>1 DEF Held
<1> QED
  BY <1>2 DEF Found, ValidLines

\* Two lines of a set never hold the same block.
LEMMA HeldCount ==
  ASSUME CountsAddUp, NEW i \in Set
  PROVE  /\ IsFiniteSet(Line) /\ Cardinality(Line) = E
         /\ ValidLines(i) \subseteq Line /\ IsFiniteSet(ValidLines(i))
         /\ Cardinality(Held[i]) = Cardinality(ValidLines(i))
<1>1. IsFiniteSet(Line) /\ Cardinality(Line) = E
  BY FS_Interval, CacheAssumption DEF Line
<1>2. ValidLines(i) \subseteq Line
  BY DEF ValidLines
<1>3. IsFiniteSet(ValidLines(i))
  BY <1>1, <1>2, FS_Subset
<1> DEFINE f == [j \in ValidLines(i) |-> cache[i][j].tag]
<1>4. Held[i] = {cache[i][j].tag : j \in ValidLines(i)}
  BY DEF Held
<1>5. \A j, k \in ValidLines(i) : j # k => cache[i][j].tag # cache[i][k].tag
  BY DEF CountsAddUp
<1>6. f \in Bijection(ValidLines(i), Held[i])
  <2>1. f \in [ValidLines(i) -> Held[i]]
    BY <1>4
  <2>2. \A j, k \in ValidLines(i) : f[j] = f[k] => j = k
    BY <1>5
  <2>3. \A t \in Held[i] : \E j \in ValidLines(i) : f[j] = t
    BY <1>4
  <2> HIDE DEF f
  <2> QED
    BY <2>1, <2>2, <2>3 DEF Bijection, Injection, Surjection, IsInjective
<1>7. ExistsBijection(ValidLines(i), Held[i])
  BY <1>6 DEF ExistsBijection
<1>8. Cardinality(ValidLines(i)) = Cardinality(Held[i])
  BY <1>3, <1>7, FS_Bijection
<1> QED
  BY <1>1, <1>2, <1>3, <1>8

\* The block that comes in at line i is kept, and with it all but what was there.
LEMMA PlacedIsHeld ==
  ASSUME TypeOK, NEW addr \in Addresses, NEW i \in Line, Place(addr, i)
  PROVE  Held' = [Held EXCEPT ![set(addr)] =
                    {cache[set(addr)][j].tag : j \in ValidLines(set(addr)) \ {i}} \cup {tag(addr)}]
<1>0. addr \in Nat /\ set(addr) \in Set
  BY SetInRange, CacheAssumption
<1> DEFINE x == set(addr)
           rest == {cache[x][j].tag : j \in ValidLines(x) \ {i}}
<1>1. /\ cache'[x][i] = [valid |-> TRUE, lru |-> leastRecentUsed + 1, tag |-> tag(addr)]
      /\ \A y \in Set, j \in Line : y # x \/ j # i => cache'[y][j] = cache[y][j]
  BY Placed
<1>2. \A y \in Set : y # x => ValidLines(y)' = ValidLines(y)
  BY <1>1 DEF ValidLines
<1>3. ValidLines(x)' = (ValidLines(x) \ {i}) \cup {i}
  BY <1>0, <1>1 DEF ValidLines
<1>4. ASSUME NEW y \in Set, y # x
      PROVE  {cache'[y][j].tag : j \in ValidLines(y)'} = {cache[y][j].tag : j \in ValidLines(y)}
  <2>1. \A j \in ValidLines(y) : cache'[y][j].tag = cache[y][j].tag
    BY <1>1, <1>4 DEF ValidLines
  <2> QED
    BY <1>2, <1>4, <2>1
<1>5. {cache'[x][j].tag : j \in ValidLines(x)'} = rest \cup {tag(addr)}
  <2>1. \A j \in ValidLines(x) \ {i} : cache'[x][j].tag = cache[x][j].tag
    BY <1>0, <1>1 DEF ValidLines
  <2>2. cache'[x][i].tag = tag(addr)
    BY <1>1
  <2> QED
    BY <1>3, <2>1, <2>2
<1>6. Held' = [y \in Set |-> {cache'[y][j].tag : j \in ValidLines(y)'}]
  BY DEF Held
<1>7. [Held EXCEPT ![x] = rest \cup {tag(addr)}]
        = [y \in Set |-> IF y = x THEN rest \cup {tag(addr)} ELSE {cache[y][j].tag : j \in ValidLines(y)}]
  BY <1>0 DEF Held
<1>8. \A y \in Set : {cache'[y][j].tag : j \in ValidLines(y)'}
                        = IF y = x THEN rest \cup {tag(addr)} ELSE {cache[y][j].tag : j \in ValidLines(y)}
  BY <1>4, <1>5
<1> HIDE DEF rest, x
<1>9. Held' = [Held EXCEPT ![x] = rest \cup {tag(addr)}]
  BY <1>6, <1>7, <1>8, Zenon
<1> QED
  BY <1>9 DEF rest, x

LEMMA AccessImplementsCache ==
  ASSUME CountsAddUp, NEW addr \in Addresses, access(addr)
  PROVE  Cached!Next
<1> DEFINE x == set(addr)
<1>1. TypeOK /\ addr \in Nat /\ x \in Set /\ tag(addr) \in {tag(a) : a \in Addresses}
  BY SetInRange, CacheAssumption DEF CountsAddUp
<1>2. Found(addr) # {} <=> tag(addr) \in Held[x]
  BY <1>1, FoundIsHeld
<1>3. /\ IsFiniteSet(Line) /\ Cardinality(Line) = E
      /\ ValidLines(x) \subseteq Line /\ IsFiniteSet(ValidLines(x))
      /\ Cardinality(Held[x]) = Cardinality(ValidLines(x))
  BY <1>1, HeldCount
<1>4. Held[x] = {cache[x][j].tag : j \in ValidLines(x)}
  BY <1>1 DEF Held
<1>5. CASE hit(addr)
  <2>1. Held' = Held
    BY <1>5 DEF hit, Held, ValidLines
  <2>2. Cached!hit(x, tag(addr))
    BY <1>2, <1>5, <2>1 DEF hit, Cached!hit, Held
  <2> QED
    BY <1>1, <2>2 DEF Cached!Next
<1>6. CASE miss(addr)
  <2> DEFINE i == FirstEmpty(addr)
  <2>1. i \in Line /\ i \notin ValidLines(x) /\ Place(addr, i) /\ UNCHANGED evictions
    BY <1>1, <1>6, FirstEmptyIsEmpty DEF miss, Empty, ValidLines
  <2>2. ValidLines(x) \ {i} = ValidLines(x)
    BY <2>1
  <2>3. Held' = [Held EXCEPT ![x] = Held[x] \cup {tag(addr)}]
    BY <1>1, <1>4, <2>1, <2>2, PlacedIsHeld
  <2>4. Cardinality(Held[x]) < E
    BY <1>3, <2>1, FS_Subset, FS_CardinalityType
  <2>5. tag(addr) \notin Held[x] /\ misses' = misses + 1 /\ hits' = hits
    BY <1>2, <1>6, <2>1 DEF miss, Place
  <2>6. Cached!fill(x, tag(addr))
    <3>1. /\ tag(addr) \notin [k \in Set |-> {cache[k][j].tag : j \in ValidLines(k)}][x]
          /\ Cardinality([k \in Set |-> {cache[k][j].tag : j \in ValidLines(k)}][x]) < E
      BY <2>4, <2>5, Zenon DEF Held
    <3>2. [k \in Set |-> {cache[k][j].tag : j \in ValidLines(k)}]'
            = [[k \in Set |-> {cache[k][j].tag : j \in ValidLines(k)}] EXCEPT ![x] = @ \cup {tag(addr)}]
      BY <2>3, Zenon DEF Held
    <3> QED
      BY <2>1, <2>5, <3>1, <3>2, Zenon DEF Cached!fill, Cached!Cardinality, Cardinality
  <2> QED
    BY <1>1, <2>6 DEF Cached!Next
<1>7. CASE evict(addr)
  <2> DEFINE i == Victim(addr)
             old == cache[x][i].tag
  <2>1. i \in Line /\ ValidLines(x) = Line /\ Place(addr, i) /\ evictions' = evictions + 1
    BY <1>1, <1>7, VictimIsOldest DEF evict, Empty, ValidLines
  <2>2. \A j, k \in ValidLines(x) : j # k => cache[x][j].tag # cache[x][k].tag
    BY <1>1 DEF CountsAddUp
  <2>3. old \in Held[x]
    BY <1>4, <2>1
  <2>4. {cache[x][j].tag : j \in ValidLines(x) \ {i}} = Held[x] \ {old}
    BY <1>4, <2>1, <2>2
  <2>5. Held' = [Held EXCEPT ![x] = (Held[x] \ {old}) \cup {tag(addr)}]
    BY <1>1, <2>1, <2>4, PlacedIsHeld
  <2>6. tag(addr) \notin Held[x] /\ misses' = misses + 1 /\ hits' = hits /\ Cardinality(Held[x]) = E
    BY <1>2, <1>3, <1>7, <2>1 DEF evict, Place
  <2> HIDE DEF old
  <2>7. Cached!replace(x, tag(addr))
    <3>1. /\ tag(addr) \notin [k \in Set |-> {cache[k][j].tag : j \in ValidLines(k)}][x]
          /\ Cardinality([k \in Set |-> {cache[k][j].tag : j \in ValidLines(k)}][x]) = E
          /\ old \in [k \in Set |-> {cache[k][j].tag : j \in ValidLines(k)}][x]
      BY <2>3, <2>6, Zenon DEF Held
    <3>2. [k \in Set |-> {cache[k][j].tag : j \in ValidLines(k)}]'
            = [[k \in Set |-> {cache[k][j].tag : j \in ValidLines(k)}] EXCEPT ![x] = (@ \ {old}) \cup {tag(addr)}]
      BY <2>5, Zenon DEF Held
    <3> QED
      BY <2>1, <2>6, <3>1, <3>2, Zenon DEF Cached!replace, Cached!Cardinality, Cardinality
  <2> QED
    BY <1>1, <2>7 DEF Cached!Next
<1> QED
  BY <1>5, <1>6, <1>7 DEF access

LEMMA CacheInit == Init => Cached!Init
<1> SUFFICES ASSUME Init PROVE Cached!Init
  OBVIOUS
<1>1. \A i \in Set : {cache[i][j].tag : j \in ValidLines(i)} = {}
  BY DEF Init, ValidLines
<1> QED
  BY <1>1 DEF Cached!Init, Init

LEMMA CacheNext == CountsAddUp /\ [Next]_vars => [Cached!Next]_(Cached!vars)
<1> SUFFICES ASSUME CountsAddUp, [Next]_vars
             PROVE  [Cached!Next]_(Cached!vars)
  OBVIOUS
<1>1. again \in Addresses \cup {None}
  BY DEF CountsAddUp, TypeOK
<1>2. CASE modify_again
  BY <1>1, <1>2, AccessImplementsCache DEF modify_again
<1>3. ASSUME NEW addr \in Addresses, load_or_store(addr) \/ modify(addr) PROVE Cached!Next
  BY <1>3, AccessImplementsCache DEF load_or_store, modify
<1>4. CASE UNCHANGED vars
  BY <1>4 DEF vars, simulator, Cached!vars, ValidLines
<1> QED
  BY <1>2, <1>3, <1>4 DEF Next

\* For every geometry and every trace csim.c counts the hits, misses and evictions
\* of a set-associative cache: a block stays until its set is full of others.
THEOREM ImplementsCacheCorrect == Spec => ImplementsCache
BY CacheInit, CacheNext, CountsAddUpCorrect, PTL DEF Spec, ImplementsCache, Cached!Spec
=============================================================================
