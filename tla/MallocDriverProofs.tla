------------------------- MODULE MallocDriverProofs -------------------------
(* What mdriver.c of malloc1/malloc finds out about an allocator, for every  *)
(* heap, every set of sizes and every trace.                                 *)
EXTENDS MallocDriver, FiniteSetTheorems, SequenceTheorems, WellFoundedInduction, TLAPS

Range_t == [lo : HeapBytes, hi : HeapBytes]

\* Two ranges of a list that meet: the newer one goes beyond the older at both ends.
Around(list) ==
  \A i, j \in DOMAIN list :
    i < j => \/ list[i].hi < list[j].lo \/ list[j].hi < list[i].lo
             \/ list[i].lo < list[j].lo /\ list[j].hi < list[i].hi

\* The list has the payloads of the ids in L, each once.
Lists(list, L, bl, sz) ==
  /\ list \in Seq(Range_t)
  /\ L \subseteq Ids /\ IsFiniteSet(L)
  /\ Len(list) = Cardinality(L)
  /\ ToSet(list) = {range_t(bl[id], sz[id]) : id \in L}
  /\ \A id \in L : bl[id] \in Int /\ sz[id] \in Sizes
  /\ \A i, j \in L : i # j => bl[i] # bl[j]
  /\ Around(list)

LEMMA SizeType == \A size \in Sizes : size \in Nat /\ 1 <= size /\ size <= HeapSize
BY DriverAssumption

LEMMA BreakType == \A end \in Breaks : end \in Nat /\ end <= HeapSize
BY DriverAssumption

LEMMA HeapBytesType == \A x \in HeapBytes : x \in Nat /\ x < HeapSize
BY DriverAssumption DEF HeapBytes

\* The members of a list of payloads, seen from both sides.
LEMMA Members ==
  ASSUME NEW list, NEW L, NEW bl, NEW sz, Lists(list, L, bl, sz)
  PROVE  /\ DOMAIN list = 1..Len(list) /\ Len(list) \in Nat
         /\ \A k \in DOMAIN list : list[k] \in Range_t /\ list[k].lo <= list[k].hi
         /\ \A k \in DOMAIN list : \E id \in L : list[k] = range_t(bl[id], sz[id])
         /\ \A id \in L : \E k \in DOMAIN list : list[k] = range_t(bl[id], sz[id])
<1>1. DOMAIN list = 1..Len(list) /\ Len(list) \in Nat /\ \A k \in DOMAIN list : list[k] \in Range_t
  BY DEF Lists
<1>2. ToSet(list) = {list[k] : k \in DOMAIN list}
  BY DEF ToSet
<1>3. \A k \in DOMAIN list : \E id \in L : list[k] = range_t(bl[id], sz[id])
  BY <1>2 DEF Lists
<1>4. \A id \in L : \E k \in DOMAIN list : list[k] = range_t(bl[id], sz[id])
  BY <1>2 DEF Lists
<1>5. ASSUME NEW k \in DOMAIN list PROVE list[k].lo <= list[k].hi
  <2>1. PICK id \in L : list[k] = range_t(bl[id], sz[id])
    BY <1>3
  <2>2. bl[id] \in Int /\ sz[id] \in Nat /\ 1 <= sz[id]
    BY SizeType DEF Lists
  <2> QED
    BY <2>1, <2>2 DEF range_t
<1> QED
  BY <1>1, <1>3, <1>4, <1>5

\* No two ranges of the list begin at one address.
LEMMA Distinct ==
  ASSUME NEW list, NEW L, NEW bl, NEW sz, Lists(list, L, bl, sz)
  PROVE  \A j, k \in DOMAIN list : j # k => list[j].lo # list[k].lo
<1> SUFFICES ASSUME NEW j \in DOMAIN list, NEW k \in DOMAIN list, j < k
             PROVE  list[j].lo # list[k].lo
  <2>1. \A i \in DOMAIN list : i \in Nat
    BY Members
  <2> QED
    BY <2>1
<1>1. list[j] \in Range_t /\ list[k] \in Range_t /\ list[j].lo <= list[j].hi /\ list[k].lo <= list[k].hi
  BY Members
<1>2. /\ list[j].lo \in Nat /\ list[j].hi \in Nat /\ list[k].lo \in Nat /\ list[k].hi \in Nat
  BY <1>1, HeapBytesType DEF Range_t
<1>3. \/ list[j].hi < list[k].lo \/ list[k].hi < list[j].lo
      \/ list[j].lo < list[k].lo /\ list[k].hi < list[j].hi
  BY DEF Lists, Around
<1> QED
  BY <1>1, <1>2, <1>3

\* The list without its range k.
RemovedAt(list, k, rest) ==
  /\ rest \in Seq(Range_t) /\ Len(rest) = Len(list) - 1
  /\ \A n \in 1..(Len(list) - 1) : rest[n] = list[IF n < k THEN n ELSE n + 1]

\* remove_range takes out the range that begins at lo and leaves the order.
LEMMA WithoutIs ==
  ASSUME NEW list \in Seq(Range_t), NEW k \in DOMAIN list, NEW lo, list[k].lo = lo,
         \A j \in DOMAIN list : j # k => list[j].lo # lo,
         NEW rest, rest = Without(list, lo)
  PROVE  RemovedAt(list, k, rest)
<1>1. DOMAIN list = 1..Len(list) /\ Len(list) \in Nat /\ k \in 1..Len(list)
  OBVIOUS
<1>2. SelectInSeq(list, LAMBDA p : p.lo = lo) = k
  <2>1. {i \in 1..Len(list) : list[i].lo = lo} = {k}
    BY <1>1
  <2>2. Min({k}) = k
    BY DEF Min
  <2> QED
    BY <2>1, <2>2 DEF SelectInSeq
<1>3. \E i \in 1..Len(list) : list[i].lo = lo
  BY <1>1
<1>4. rest = RemoveAt(list, k)
  BY <1>2, <1>3 DEF Without, RemoveFirstMatch
<1>5. rest = SubSeq(list, 1, k - 1) \o SubSeq(list, k + 1, Len(list))
  BY <1>4 DEF RemoveAt
<1>6. PICK u : u = SubSeq(list, 1, k - 1)
  OBVIOUS
<1>7. PICK v : v = SubSeq(list, k + 1, Len(list))
  OBVIOUS
<1>8. u \in Seq(Range_t) /\ Len(u) = k - 1 /\ \A n \in 1..(k - 1) : u[n] = list[n]
  BY <1>1, <1>6
<1>9. v \in Seq(Range_t) /\ Len(v) = Len(list) - k /\ \A n \in 1..(Len(list) - k) : v[n] = list[n + k]
  BY <1>1, <1>7
<1>10. /\ u \o v \in Seq(Range_t) /\ Len(u \o v) = Len(list) - 1
       /\ \A n \in 1..(Len(list) - 1) : (u \o v)[n] = IF n < k THEN u[n] ELSE v[n - k + 1]
  <2>0. u \in Seq(Range_t) /\ v \in Seq(Range_t)
    BY <1>8, <1>9
  <2>1. /\ u \o v \in Seq(Range_t) /\ Len(u \o v) = Len(u) + Len(v)
        /\ \A n \in 1..(Len(u) + Len(v)) : (u \o v)[n] = IF n <= Len(u) THEN u[n] ELSE v[n - Len(u)]
    BY <2>0, ConcatProperties
  <2>2. k \in Int /\ Len(u) + Len(v) = Len(list) - 1
    BY <1>1, <1>8, <1>9
  <2>3. \A n \in Int : (n <= k - 1 <=> n < k) /\ n - (k - 1) = n - k + 1
    BY <2>2
  <2> QED
    <3> SUFFICES ASSUME NEW n \in 1..(Len(list) - 1)
                 PROVE  (u \o v)[n] = IF n < k THEN u[n] ELSE v[n - k + 1]
      BY <2>1, <2>2
    <3>1. (u \o v)[n] = IF n <= Len(u) THEN u[n] ELSE v[n - Len(u)]
      BY <2>1, <2>2
    <3>2. n \in Int /\ Len(u) = k - 1
      BY <1>1, <1>8
    <3> QED
      BY <2>3, <3>1, <3>2
<1>11. \A n \in 1..(Len(list) - 1) : (u \o v)[n] = list[IF n < k THEN n ELSE n + 1]
  <2> SUFFICES ASSUME NEW n \in 1..(Len(list) - 1)
               PROVE  (u \o v)[n] = list[IF n < k THEN n ELSE n + 1]
    OBVIOUS
  <2>1. CASE n < k
    <3>1. n \in 1..(k - 1)
      BY <2>1, <1>1
    <3> QED
      BY <2>1, <3>1, <1>8, <1>10
  <2>2. CASE ~(n < k)
    <3>1. n - k + 1 \in 1..(Len(list) - k) /\ n - k + 1 + k = n + 1
      BY <2>2, <1>1
    <3> QED
      BY <2>2, <3>1, <1>9, <1>10
  <2> QED
    BY <2>1, <2>2
<1>12. rest = u \o v
  BY <1>5, <1>6, <1>7, Zenon
<1> QED
  BY <1>10, <1>11, <1>12, Zenon DEF RemovedAt

\* remove_range on the payload of an id.
LEMMA TakeOut ==
  ASSUME NEW list, NEW L, NEW bl, NEW sz, Lists(list, L, bl, sz), NEW id \in L,
         NEW rest, rest = Without(list, bl[id])
  PROVE  Lists(rest, L \ {id}, bl, sz)
<1>1. PICK k \in DOMAIN list : list[k] = range_t(bl[id], sz[id])
  BY Members
<1>2. DOMAIN list = 1..Len(list) /\ Len(list) \in Nat /\ k \in 1..Len(list) /\ list \in Seq(Range_t)
  BY Members DEF Lists
<1>3. list[k].lo = bl[id]
  BY <1>1 DEF range_t
<1>4. /\ rest \in Seq(Range_t) /\ Len(rest) = Len(list) - 1
      /\ \A n \in 1..(Len(list) - 1) : rest[n] = list[IF n < k THEN n ELSE n + 1]
  <2>1. \A j \in DOMAIN list : j # k => list[j].lo # bl[id]
    BY <1>3, Distinct
  <2>2. rest = Without(list, bl[id]) /\ list \in Seq(Range_t) /\ k \in DOMAIN list
    BY <1>2
  <2>3. PICK lo : lo = bl[id]
    OBVIOUS
  <2>4. list[k].lo = lo /\ rest = Without(list, lo) /\ \A j \in DOMAIN list : j # k => list[j].lo # lo
    BY <2>1, <2>2, <2>3, <1>3
  <2>5. RemovedAt(list, k, rest)
    BY <2>2, <2>4, WithoutIs
  <2> QED
    BY <2>5, Zenon DEF RemovedAt
<1>5. DOMAIN rest = 1..(Len(list) - 1)
  BY <1>2, <1>4
<1>6. ASSUME NEW x \in ToSet(rest)
      PROVE  \E j \in L \ {id} : x = range_t(bl[j], sz[j])
  <2>1. PICK n \in 1..(Len(list) - 1) : x = rest[n]
    BY <1>5 DEF ToSet
  <2>2. PICK m \in 1..Len(list) : m # k /\ x = list[m]
    <3>1. CASE n < k
      BY <3>1, <2>1, <1>2, <1>4
    <3>2. CASE ~(n < k)
      <4>1. n + 1 \in 1..Len(list) /\ n + 1 # k
        BY <3>2, <1>2
      <4> QED
        BY <4>1, <3>2, <2>1, <1>4
    <3> QED
      BY <3>1, <3>2
  <2>3. PICK j \in L : list[m] = range_t(bl[j], sz[j])
    BY <1>2, Members
  <2>4. list[m] # list[k]
    BY <1>2, <2>2, Distinct
  <2> QED
    BY <2>2, <2>3, <2>4, <1>1
<1>7. ASSUME NEW j \in L \ {id}
      PROVE  range_t(bl[j], sz[j]) \in ToSet(rest)
  <2>1. PICK m \in DOMAIN list : list[m] = range_t(bl[j], sz[j])
    BY Members
  <2>2. bl[j] # bl[id]
    BY DEF Lists
  <2>3. m # k
    BY <2>1, <2>2, <1>1 DEF range_t
  <2>4. \E n \in 1..(Len(list) - 1) : rest[n] = list[m]
    <3>1. CASE m < k
      BY <3>1, <1>2, <1>4
    <3>2. CASE k < m
      <4>1. m - 1 \in 1..(Len(list) - 1) /\ ~(m - 1 < k) /\ m - 1 + 1 = m
        BY <3>2, <1>2
      <4> QED
        BY <4>1, <1>4
    <3> QED
      BY <3>1, <3>2, <2>3, <1>2
  <2> QED
    BY <2>1, <2>4, <1>5 DEF ToSet
<1>8. ToSet(rest) = {range_t(bl[j], sz[j]) : j \in L \ {id}}
  BY <1>6, <1>7
<1>9. IsFiniteSet(L \ {id}) /\ Len(rest) = Cardinality(L \ {id})
  BY <1>4, FS_RemoveElement DEF Lists
<1>10. Around(rest)
  <2> SUFFICES ASSUME NEW i \in 1..(Len(list) - 1), NEW j \in 1..(Len(list) - 1), i < j
               PROVE  \/ rest[i].hi < rest[j].lo \/ rest[j].hi < rest[i].lo
                      \/ rest[i].lo < rest[j].lo /\ rest[j].hi < rest[i].hi
    BY <1>5 DEF Around
  <2>1. PICK u : u = IF i < k THEN i ELSE i + 1
    OBVIOUS
  <2>2. PICK v : v = IF j < k THEN j ELSE j + 1
    OBVIOUS
  <2>3. u \in 1..Len(list) /\ v \in 1..Len(list) /\ u < v
    BY <1>2, <2>1, <2>2
  <2>4. rest[i] = list[u] /\ rest[j] = list[v]
    BY <1>4, <2>1, <2>2
  <2> QED
    BY <1>2, <2>3, <2>4 DEF Lists, Around
<1> QED
  BY <1>4, <1>8, <1>9, <1>10 DEF Lists

\* add_range on a payload it has no complaint about.
LEMMA PutIn ==
  ASSUME NEW list, NEW L, NEW bl \in [Ids -> Address], NEW sz \in [Ids -> Sizes \cup {0}],
         Lists(list, L, bl, sz),
         NEW id \in Ids \ L, NEW p \in Address, NEW size \in Sizes,
         NEW end \in Breaks, Complaint(list, p, size, end) = "none"
  PROVE  Lists(<<range_t(p, size)>> \o list, L \cup {id},
               [bl EXCEPT ![id] = p], [sz EXCEPT ![id] = size])
<1>1. p \in Int /\ size \in Nat /\ 1 <= size /\ p + size - 1 \in Int
  BY SizeType, DriverAssumption DEF Address
<1>2. PICK hi : hi = p + size - 1
  OBVIOUS
<1>3. p \in HeapBytes /\ hi \in HeapBytes /\ \A x \in ToSet(list) : ~Overlaps(p, hi, x)
  <2>1. p \in 0..(end - 1) /\ hi \in 0..(end - 1) /\ \A x \in ToSet(list) : ~Overlaps(p, hi, x)
    BY <1>2 DEF Complaint
  <2>2. end \in Nat /\ end <= HeapSize /\ HeapSize \in Nat
    BY DriverAssumption
  <2> QED
    BY <2>1, <2>2 DEF HeapBytes
<1>4. PICK r : r = range_t(p, size)
  OBVIOUS
<1>5. r \in Range_t /\ r.lo = p /\ r.hi = hi
  BY <1>2, <1>3, <1>4 DEF range_t, Range_t
<1>6. PICK new : new = <<r>> \o list
  OBVIOUS
<1>7. DOMAIN list = 1..Len(list) /\ Len(list) \in Nat /\ list \in Seq(Range_t)
  BY Members DEF Lists
<1>8. /\ new \in Seq(Range_t) /\ Len(new) = Len(list) + 1 /\ new[1] = r
      /\ \A n \in 1..Len(list) : new[n + 1] = list[n]
  BY <1>5, <1>6, <1>7
<1>9. DOMAIN new = 1..(Len(list) + 1)
  BY <1>7, <1>8
<1>10. PICK b : b = [bl EXCEPT ![id] = p]
  OBVIOUS
<1>11. PICK s1 : s1 = [sz EXCEPT ![id] = size]
  OBVIOUS
<1>12. /\ b[id] = p /\ s1[id] = size
       /\ \A j \in L : j # id /\ j \in Ids /\ b[j] = bl[j] /\ s1[j] = sz[j]
  BY <1>10, <1>11 DEF Lists
<1>13. \A n \in DOMAIN new : n = 1 \/ (n - 1 \in 1..Len(list) /\ new[n] = list[n - 1])
  <2> SUFFICES ASSUME NEW n \in DOMAIN new, n # 1
               PROVE  n - 1 \in 1..Len(list) /\ new[n] = list[n - 1]
    OBVIOUS
  <2>1. n - 1 \in 1..Len(list) /\ n - 1 + 1 = n
    BY <1>7, <1>9
  <2> QED
    BY <2>1, <1>8
<1>14. ToSet(new) = {range_t(b[j], s1[j]) : j \in L \cup {id}}
  <2>1. ToSet(new) = ToSet(list) \cup {r}
    <3>1. \A x \in ToSet(new) : x \in ToSet(list) \cup {r}
      BY <1>7, <1>8, <1>13 DEF ToSet
    <3>2. r \in ToSet(new)
      BY <1>7, <1>8, <1>9 DEF ToSet
    <3>3. \A n \in 1..Len(list) : list[n] \in ToSet(new)
      <4> SUFFICES ASSUME NEW n \in 1..Len(list) PROVE list[n] \in ToSet(new)
        OBVIOUS
      <4>1. n + 1 \in DOMAIN new
        BY <1>7, <1>9
      <4> QED
        BY <4>1, <1>8 DEF ToSet
    <3> QED
      BY <3>1, <3>2, <3>3, <1>7 DEF ToSet
  <2>2. ToSet(list) = {range_t(bl[j], sz[j]) : j \in L}
    BY DEF Lists
  <2> QED
    BY <2>1, <2>2, <1>4, <1>12
<1>15. IsFiniteSet(L \cup {id}) /\ Len(new) = Cardinality(L \cup {id})
  BY <1>8, FS_AddElement DEF Lists
<1>16. \A n \in DOMAIN list : \/ hi < list[n].lo \/ list[n].hi < p
                              \/ p < list[n].lo /\ list[n].hi < hi
  <2> SUFFICES ASSUME NEW n \in DOMAIN list
               PROVE  hi < list[n].lo \/ list[n].hi < p \/ (p < list[n].lo /\ list[n].hi < hi)
    OBVIOUS
  <2>1. ~Overlaps(p, hi, list[n])
    BY <1>3 DEF ToSet
  <2>2. list[n].lo \in Nat /\ list[n].hi \in Nat /\ list[n].lo <= list[n].hi
    BY Members, HeapBytesType DEF Range_t
  <2>3. p \in Nat /\ hi \in Nat /\ p <= hi
    BY <1>1, <1>2, <1>3, HeapBytesType
  <2> QED
    BY <2>1, <2>2, <2>3 DEF Overlaps
<1>17. Around(new)
  <2> SUFFICES ASSUME NEW i \in DOMAIN new, NEW j \in DOMAIN new, i < j
               PROVE  \/ new[i].hi < new[j].lo \/ new[j].hi < new[i].lo
                      \/ new[i].lo < new[j].lo /\ new[j].hi < new[i].hi
    BY DEF Around
  <2>1. i \in Nat /\ j \in Nat /\ 1 <= i /\ j # 1
    BY <1>7, <1>9
  <2>2. j - 1 \in 1..Len(list) /\ new[j] = list[j - 1]
    BY <2>1, <1>13
  <2>3. CASE i = 1
    BY <2>2, <2>3, <1>5, <1>7, <1>8, <1>16
  <2>4. CASE i # 1
    <3>1. i - 1 \in 1..Len(list) /\ new[i] = list[i - 1] /\ i - 1 < j - 1
      BY <2>1, <2>4, <1>13
    <3> QED
      BY <3>1, <2>2, <1>7 DEF Lists, Around
  <2> QED
    BY <2>3, <2>4
<1>18. \A j \in L : bl[j] # p
  <2> SUFFICES ASSUME NEW j \in L, bl[j] = p PROVE FALSE
    OBVIOUS
  <2>1. PICK k \in DOMAIN list : list[k] = range_t(bl[j], sz[j])
    BY Members
  <2>2. list[k].lo = p
    BY <2>1 DEF range_t
  <2>3. list[k].lo <= list[k].hi /\ list[k].hi \in Nat
    BY Members, HeapBytesType DEF Range_t
  <2>4. p \in Nat /\ hi \in Nat /\ p <= hi
    BY <1>1, <1>2, <1>3, HeapBytesType
  <2>5. \/ hi < list[k].lo \/ list[k].hi < p \/ p < list[k].lo
    BY <1>16
  <2> QED
    BY <2>2, <2>3, <2>4, <2>5
<1>19. /\ \A j \in L \cup {id} : b[j] \in Int /\ s1[j] \in Sizes
       /\ \A i, j \in L \cup {id} : i # j => b[i] # b[j]
  BY <1>1, <1>12, <1>18 DEF Lists
<1>20. Lists(new, L \cup {id}, b, s1)
  BY <1>8, <1>14, <1>15, <1>17, <1>19 DEF Lists
<1> QED
  BY <1>4, <1>6, <1>10, <1>11, <1>20

-----------------------------------------------------------------------------
(* Payloads that lie in the heap and apart from each other.                  *)

Clear(p, size, L, bl, sz) ==
  /\ p \in HeapBytes /\ p + size <= HeapSize
  /\ \A j \in L : p + size <= bl[j] \/ bl[j] + sz[j] <= p

Apart(L, bl, sz) ==
  \A id \in L : sz[id] \in Sizes /\ Clear(bl[id], sz[id], L \ {id}, bl, sz)

LEMMA ApartPut ==
  ASSUME NEW L \in SUBSET Ids, NEW bl \in [Ids -> Address], NEW sz \in [Ids -> Sizes \cup {0}],
         Apart(L, bl, sz), NEW id \in Ids \ L, NEW p, NEW size \in Sizes,
         Clear(p, size, L, bl, sz)
  PROVE  Apart(L \cup {id}, [bl EXCEPT ![id] = p], [sz EXCEPT ![id] = size])
<1>1. PICK b : b = [bl EXCEPT ![id] = p]
  OBVIOUS
<1>2. PICK s1 : s1 = [sz EXCEPT ![id] = size]
  OBVIOUS
<1>3. b[id] = p /\ s1[id] = size /\ \A j \in L : j # id /\ b[j] = bl[j] /\ s1[j] = sz[j]
  BY <1>1, <1>2
<1>4. Clear(b[id], s1[id], (L \cup {id}) \ {id}, b, s1)
  BY <1>3 DEF Clear
<1>5. ASSUME NEW j \in L PROVE s1[j] \in Sizes /\ Clear(b[j], s1[j], (L \cup {id}) \ {j}, b, s1)
  <2>1. sz[j] \in Sizes /\ Clear(bl[j], sz[j], L \ {j}, bl, sz)
    BY DEF Apart
  <2>2. p + size <= bl[j] \/ bl[j] + sz[j] <= p
    BY DEF Clear
  <2> QED
    BY <2>1, <2>2, <1>3 DEF Clear
<1>6. Apart(L \cup {id}, b, s1)
  BY <1>3, <1>4, <1>5 DEF Apart
<1> QED
  BY <1>1, <1>2, <1>6

\* The payloads lie below the break.
Below(end, L, bl, sz) == \A id \in L : bl[id] + sz[id] <= end

LEMMA BelowPut ==
  ASSUME NEW L \in SUBSET Ids, NEW bl \in [Ids -> Address], NEW sz \in [Ids -> Sizes \cup {0}],
         Apart(L, bl, sz), NEW low \in Breaks, NEW end \in Breaks, low <= end, Below(low, L, bl, sz),
         NEW id \in Ids \ L, NEW p, NEW size \in Sizes, p + size <= end
  PROVE  Below(end, L \cup {id}, [bl EXCEPT ![id] = p], [sz EXCEPT ![id] = size])
<1>1. PICK b : b = [bl EXCEPT ![id] = p]
  OBVIOUS
<1>2. PICK s1 : s1 = [sz EXCEPT ![id] = size]
  OBVIOUS
<1>3. b[id] = p /\ s1[id] = size /\ \A j \in L : j # id /\ b[j] = bl[j] /\ s1[j] = sz[j]
  BY <1>1, <1>2
<1>4. ASSUME NEW j \in L PROVE b[j] + s1[j] <= end
  <2>1. bl[j] \in Nat /\ sz[j] \in Nat /\ low \in Nat /\ end \in Nat
    <3>1. bl[j] \in HeapBytes /\ sz[j] \in Sizes
      BY DEF Apart, Clear
    <3> QED
      BY <3>1, SizeType, HeapBytesType, BreakType
  <2>2. bl[j] + sz[j] <= low
    BY DEF Below
  <2> QED
    BY <2>1, <2>2, <1>3
<1>5. Below(end, L \cup {id}, b, s1)
  BY <1>3, <1>4 DEF Below
<1> QED
  BY <1>1, <1>2, <1>5

LEMMA ApartTake ==
  ASSUME NEW L, NEW bl, NEW sz, Apart(L, bl, sz), NEW id
  PROVE  Apart(L \ {id}, bl, sz)
BY DEF Apart, Clear

LEMMA BelowTake ==
  ASSUME NEW L, NEW bl, NEW sz, Apart(L, bl, sz), NEW low \in Breaks, NEW end \in Breaks,
         low <= end, Below(low, L, bl, sz), NEW M \in SUBSET L
  PROVE  Below(end, M, bl, sz)
<1> SUFFICES ASSUME NEW j \in M PROVE bl[j] + sz[j] <= end
  BY DEF Below
<1>1. bl[j] \in Nat /\ sz[j] \in Nat /\ low \in Nat /\ end \in Nat
  <2>1. bl[j] \in HeapBytes /\ sz[j] \in Sizes
    BY DEF Apart, Clear
  <2> QED
    BY <2>1, SizeType, HeapBytesType, BreakType
<1>2. bl[j] + sz[j] <= low
  BY DEF Below
<1> QED
  BY <1>1, <1>2

\* add_range has nothing to say of a payload that keeps clear of all others and of the
\* end of the heap.
LEMMA NoComplaint ==
  ASSUME NEW list, NEW L, NEW bl, NEW sz, Lists(list, L, bl, sz), Apart(L, bl, sz),
         NEW p, NEW size \in Sizes, p % Alignment = 0, Clear(p, size, L, bl, sz),
         NEW end \in Breaks, p + size <= end
  PROVE  Complaint(list, p, size, end) = "none"
<1>1. size \in Nat /\ 1 <= size
  BY SizeType
<1>2. p \in Nat /\ p + size <= end /\ end \in Nat
  BY HeapBytesType, DriverAssumption DEF Clear
<1>3. PICK hi : hi = p + size - 1
  OBVIOUS
<1>4. hi \in Nat /\ hi \in 0..(end - 1) /\ p \in 0..(end - 1)
  BY <1>1, <1>2, <1>3
<1>5. ASSUME NEW x \in ToSet(list) PROVE ~Overlaps(p, hi, x)
  <2>1. PICK j \in L : x = range_t(bl[j], sz[j])
    BY DEF Lists
  <2>2. bl[j] \in Int /\ sz[j] \in Nat /\ 1 <= sz[j]
    BY SizeType DEF Lists
  <2>3. p + size <= bl[j] \/ bl[j] + sz[j] <= p
    BY DEF Clear
  <2>4. x.lo = bl[j] /\ x.hi = bl[j] + sz[j] - 1
    BY <2>1 DEF range_t
  <2> QED
    BY <2>2, <2>3, <2>4, <1>1, <1>2, <1>3 DEF Overlaps
<1>6. ~(\E x \in ToSet(list) : Overlaps(p, hi, x))
  BY <1>5
<1> QED
  BY <1>3, <1>4, <1>6 DEF Complaint

-----------------------------------------------------------------------------
(* The invariant.                                                            *)

Trace == pass = "valid" => Lists(ranges, live, blocks, block_sizes)

Promise ==
  correct /\ pass \in {"valid", "util"} =>
    Apart(live, blocks, block_sizes) /\ Below(brk, live, blocks, block_sizes)

\* Every payload of an allocator that is correct is filled with its id.
Contents ==
  correct /\ pass = "valid" =>
    \A id \in live : \A j \in 0..(block_sizes[id] - 1) : bytes[blocks[id] + j] = id

VInv == TypeOK /\ Trace /\ Promise /\ Contents /\ NoFalseAlarm

Heap == [HeapBytes -> Ids \cup {NULL}]

LEMMA AnswerType ==
  ASSUME NEW id, NEW size, NEW end, NEW p \in Answers(id, size, end), p # NULL
  PROVE  p \in Address
<1>1. HeapBytes \subseteq Address
  BY DriverAssumption DEF HeapBytes, Address
<1> QED
  BY <1>1 DEF Answers

\* What the promises of Allocator come to.
LEMMA AnswerIsClear ==
  ASSUME TypeOK, correct, Apart(live, blocks, block_sizes), NEW id \in Ids, NEW size \in Sizes,
         NEW end \in Breaks, NEW p \in Answers(id, size, end), p # NULL
  PROVE  /\ p % Alignment = 0 /\ p + size <= end
         /\ Clear(p, size, live \ {id}, blocks, block_sizes)
<1>1. p \in HeapBytes /\ Promised!MayHold(id, p, size, end)
  BY DEF Answers
<1>2. p % Alignment = 0 /\ p + size <= end
  BY <1>1 DEF Promised!MayHold
<1>3. p \in Nat /\ size \in Nat /\ 1 <= size
  BY <1>1, SizeType, HeapBytesType
<1>5. p + size <= HeapSize
  BY <1>2, <1>3, DriverAssumption
<1>4. ASSUME NEW j \in live \ {id} PROVE p + size <= blocks[j] \/ blocks[j] + block_sizes[j] <= p
  <2>1. j \in Ids \ {id}
    BY DEF TypeOK
  <2>2. (p .. (p + size - 1)) \cap (blocks[j] .. (blocks[j] + block_sizes[j] - 1)) = {}
    BY <2>1, <1>1 DEF Promised!MayHold, Promised!Extent
  <2>3. blocks[j] \in Nat /\ block_sizes[j] \in Nat /\ 1 <= block_sizes[j]
    BY SizeType, HeapBytesType DEF Apart, Clear
  <2>4. p \notin blocks[j] .. (blocks[j] + block_sizes[j] - 1)
    BY <2>2, <1>3
  <2>5. blocks[j] \notin p .. (p + size - 1)
    BY <2>2, <2>3
  <2> QED
    BY <2>3, <2>4, <2>5, <1>3
<1> QED
  BY <1>1, <1>2, <1>4, <1>5 DEF Clear

LEMMA FilledType ==
  ASSUME NEW b \in Heap, NEW id \in Ids \cup {NULL}, NEW lo, NEW size
  PROVE  Filled(b, id, lo, size) \in Heap
BY DEF Filled, Heap

\* Filling a payload that keeps clear of the others leaves them as they are.
LEMMA FilledContents ==
  ASSUME NEW b \in Heap, NEW L, NEW bl, NEW sz, Apart(L, bl, sz),
         NEW id, NEW p, NEW size \in Sizes, Clear(p, size, L, bl, sz)
  PROVE  /\ \A j \in 0..(size - 1) : Filled(b, id, p, size)[p + j] = id
         /\ \A i \in L : \A j \in 0..(sz[i] - 1) :
              Filled(b, id, p, size)[bl[i] + j] = b[bl[i] + j]
<1>1. size \in Nat /\ p \in Nat /\ p + size <= HeapSize /\ HeapSize \in Nat
  BY SizeType, HeapBytesType, DriverAssumption DEF Clear
<1>2. ASSUME NEW j \in 0..(size - 1) PROVE Filled(b, id, p, size)[p + j] = id
  <2>1. p + j \in HeapBytes /\ p + j \in p..(p + size - 1)
    BY <1>1 DEF HeapBytes
  <2> QED
    BY <2>1 DEF Filled
<1>3. ASSUME NEW i \in L, NEW j \in 0..(sz[i] - 1)
      PROVE  Filled(b, id, p, size)[bl[i] + j] = b[bl[i] + j]
  <2>1. sz[i] \in Nat /\ bl[i] \in Nat /\ bl[i] + sz[i] <= HeapSize
    BY SizeType, HeapBytesType DEF Apart, Clear
  <2>2. p + size <= bl[i] \/ bl[i] + sz[i] <= p
    BY DEF Clear
  <2>3. bl[i] + j \in HeapBytes /\ bl[i] + j \notin p..(p + size - 1)
    BY <2>1, <2>2, <1>1 DEF HeapBytes
  <2> QED
    BY <2>3 DEF Filled
<1> QED
  BY <1>2, <1>3

-----------------------------------------------------------------------------
(* The steps of the driver.                                                  *)

LEMMA VInvInit == Init => VInv
<1> SUFFICES ASSUME Init PROVE VInv
  OBVIOUS
<1>1. TypeOK
  BY DriverAssumption DEF Init, TypeOK, Address
<1> QED
  BY <1>1 DEF Init, VInv, Trace, Promise, Contents, NoFalseAlarm

\* A trace that is given up leaves no promise to keep.
LEMMA Rejected ==
  ASSUME VInv, correct' = correct, NEW complaint, Reject(complaint),
         complaint \in {"failed", "alignment", "outside", "overlap", "data"},
         correct => complaint = "failed",
         ranges' \in Seq(Range_t), bytes' \in Heap, Grows
  PROVE  VInv'
<1>1. TypeOK'
  BY DEF Reject, Grows, VInv, TypeOK, Range_t, Heap
<1> QED
  BY <1>1 DEF Reject, VInv, Trace, Promise, Contents, NoFalseAlarm

LEMMA ComplaintKinds ==
  ASSUME NEW list, NEW lo, NEW size, NEW end
  PROVE  Complaint(list, lo, size, end) \in {"none", "alignment", "outside", "overlap"}
BY DEF Complaint

\* A payload that the driver accepts.
LEMMA Accepted ==
  ASSUME VInv, correct' = correct, pass = "valid", pass' = "valid", report' = report,
         NEW L, NEW id \in Ids \ L, live' = L \cup {id},
         NEW list, Lists(list, L, blocks, block_sizes),
         NEW p \in Address, NEW size \in Sizes, Complaint(list, p, size, brk') = "none",
         ranges' = <<range_t(p, size)>> \o list, Remember(id, p, size), Grows, brk \in Breaks,
         correct => /\ Apart(L, blocks, block_sizes) /\ Below(brk, L, blocks, block_sizes)
                    /\ Clear(p, size, L, blocks, block_sizes) /\ p + size <= brk',
         NEW b \in Heap, bytes' = Filled(b, id, p, size),
         correct => \A i \in L : \A j \in 0..(block_sizes[i] - 1) : b[blocks[i] + j] = i,
         UNCHANGED <<total_size, max_total_size>>
  PROVE  VInv'
<1>1. /\ blocks \in [Ids -> Address] /\ block_sizes \in [Ids -> Sizes \cup {0}]
      /\ report \in {"none", "failed", "alignment", "outside", "overlap", "data"}
  BY DEF VInv, TypeOK
<1>2. /\ blocks' = [blocks EXCEPT ![id] = p]
      /\ block_sizes' = [block_sizes EXCEPT ![id] = size]
  BY DEF Remember
<1>3. L \subseteq Ids
  BY DEF Lists
<1>4. Lists(ranges', live', blocks', block_sizes')
  <2>1. brk' \in Breaks
    BY DEF Grows
  <2>2. PICK end \in Breaks : end = brk'
    BY <2>1
  <2>3. Complaint(list, p, size, end) = "none"
    BY <2>2
  <2> QED
    BY <2>3, <1>1, <1>2, PutIn
<1>5. TypeOK'
  <2>1. bytes' \in Heap
    BY FilledType
  <2>2. ranges' \in Seq(Range_t) /\ live' \subseteq Ids
    BY <1>4 DEF Lists
  <2>3. blocks' \in [Ids -> Address] /\ block_sizes' \in [Ids -> Sizes \cup {0}]
    BY <1>1, <1>2
  <2> QED
    BY <2>1, <2>2, <2>3 DEF VInv, TypeOK, Range_t, Heap, Grows
<1>6. correct => Apart(live', blocks', block_sizes') /\ Below(brk', live', blocks', block_sizes')
  <2>1. correct => Apart(live', blocks', block_sizes')
    BY <1>1, <1>2, <1>3, ApartPut
  <2>2. brk' \in Breaks /\ brk <= brk'
    BY DEF Grows
  <2>3. correct => Below(brk', live', blocks', block_sizes')
    BY <2>2, <1>1, <1>2, <1>3, BelowPut
  <2> QED
    BY <2>1, <2>3
<1>7. ASSUME correct, NEW i \in live', NEW j \in 0..(block_sizes'[i] - 1)
      PROVE  bytes'[blocks'[i] + j] = i
  <2>1. CASE i = id
    <3>1. blocks'[i] = p /\ block_sizes'[i] = size
      BY <2>1, <1>1, <1>2
    <3> QED
      BY <2>1, <3>1, <1>7, FilledContents
  <2>2. CASE i # id
    <3>1. i \in L /\ blocks'[i] = blocks[i] /\ block_sizes'[i] = block_sizes[i]
      BY <2>2, <1>1, <1>2, <1>3, <1>7
    <3>2. bytes'[blocks[i] + j] = b[blocks[i] + j]
      BY <3>1, <1>7, FilledContents
    <3> QED
      BY <3>1, <3>2, <1>7
  <2> QED
    BY <2>1, <2>2
<1>8. Trace'
  BY <1>4 DEF Trace
<1>9. Promise'
  BY <1>6 DEF Promise
<1>10. Contents'
  BY <1>7 DEF Contents
<1>11. NoFalseAlarm'
  BY DEF VInv, NoFalseAlarm
<1> QED
  BY <1>5, <1>8, <1>9, <1>10, <1>11 DEF VInv

LEMMA ValidAlloc ==
  ASSUME VInv, correct' = correct, NEW id \in Ids, NEW size \in Sizes, valid_alloc(id, size)
  PROVE  VInv'
<1>1. pass = "valid" /\ id \notin live /\ TypeOK /\ live \subseteq Ids /\ brk \in Breaks /\ Grows
  BY DEF valid_alloc, VInv, TypeOK
<1>2. /\ Lists(ranges, live, blocks, block_sizes)
      /\ correct => Apart(live, blocks, block_sizes) /\ Below(brk, live, blocks, block_sizes)
      /\ correct => \A i \in live : \A j \in 0..(block_sizes[i] - 1) : bytes[blocks[i] + j] = i
  BY <1>1 DEF VInv, Trace, Promise, Contents
<1>0. PICK end \in Breaks : end = brk'
  BY <1>1 DEF Grows
<1>3. PICK p \in Answers(id, size, end) :
       \/ p = NULL /\ Reject("failed") /\ UNCHANGED <<ranges, bytes>>
       \/ /\ p # NULL /\ Complaint(ranges, p, size, end) # "none"
          /\ Reject(Complaint(ranges, p, size, end)) /\ UNCHANGED <<ranges, bytes>>
       \/ /\ p # NULL /\ Complaint(ranges, p, size, end) = "none"
          /\ ranges' = <<range_t(p, size)>> \o ranges
          /\ bytes' = Filled(bytes, id, p, size)
          /\ Remember(id, p, size)
          /\ live' = live \cup {id}
          /\ UNCHANGED <<pass, report, total_size, max_total_size>>
  BY <1>0 DEF valid_alloc
<1>4. ranges \in Seq(Range_t) /\ bytes \in Heap
  BY <1>1 DEF TypeOK, Range_t, Heap
<1>5. correct /\ p # NULL =>
        p % Alignment = 0 /\ p + size <= end /\ Clear(p, size, live, blocks, block_sizes)
  <2>1. live \ {id} = live
    BY <1>1
  <2> QED
    BY <2>1, <1>1, <1>2, AnswerIsClear
<1>6. correct /\ p # NULL => Complaint(ranges, p, size, end) = "none"
  BY <1>2, <1>5, NoComplaint
<1>7. CASE p = NULL /\ Reject("failed") /\ UNCHANGED <<ranges, bytes>>
  BY <1>1, <1>4, <1>7, Rejected
<1>8. CASE /\ p # NULL /\ Complaint(ranges, p, size, end) # "none"
           /\ Reject(Complaint(ranges, p, size, end)) /\ UNCHANGED <<ranges, bytes>>
  <2>1. PICK c : c = Complaint(ranges, p, size, end)
    OBVIOUS
  <2>2. c \in {"failed", "alignment", "outside", "overlap", "data"} /\ ~correct /\ Reject(c)
    BY <2>1, <1>6, <1>8, ComplaintKinds
  <2> QED
    BY <2>2, <1>1, <1>4, <1>8, Rejected
<1>9. CASE /\ p # NULL /\ Complaint(ranges, p, size, end) = "none"
           /\ ranges' = <<range_t(p, size)>> \o ranges
           /\ bytes' = Filled(bytes, id, p, size)
           /\ Remember(id, p, size)
           /\ live' = live \cup {id}
           /\ UNCHANGED <<pass, report, total_size, max_total_size>>
  <2>1. p \in Address
    BY <1>9, AnswerType
  <2>2. pass' = "valid" /\ report' = report /\ UNCHANGED <<total_size, max_total_size>>
    BY <1>1, <1>9
  <2>3. id \in Ids \ live
    BY <1>1
  <2>4. correct => /\ Apart(live, blocks, block_sizes) /\ Below(brk, live, blocks, block_sizes)
                   /\ Clear(p, size, live, blocks, block_sizes) /\ p + size <= brk'
    BY <1>0, <1>2, <1>5, <1>9
  <2>5. Complaint(ranges, p, size, brk') = "none"
    BY <1>0, <1>9
  <2> QED
    BY <2>5, <2>1, <2>2, <2>3, <2>4, <1>1, <1>2, <1>4, <1>9, Accepted, SMTT(30)
<1> QED
  BY <1>3, <1>7, <1>8, <1>9

\* The bytes that mm_realloc had to move.  Of an allocator that is correct they
\* carry the id, and the payloads it moved them past are as they were.
LEMMA MovedType ==
  ASSUME TypeOK, NEW id \in live, NEW lo \in Int, NEW n \in Nat,
         correct => Apart(live, blocks, block_sizes) /\ n <= block_sizes[id],
         NEW moved \in MovedHeaps(id, lo, blocks[id], n)
  PROVE  moved \in Heap
<1>1. bytes \in Heap /\ id \in Ids
  BY DEF TypeOK, Heap
<1>2. CASE correct
  <2>1. moved = [i \in HeapBytes |-> IF i \in lo..(lo + n - 1) THEN bytes[blocks[id] + (i - lo)] ELSE bytes[i]]
    BY <1>2 DEF MovedHeaps
  <2>2. /\ blocks[id] \in Nat /\ block_sizes[id] \in Nat /\ blocks[id] + block_sizes[id] <= HeapSize
        /\ n <= block_sizes[id] /\ HeapSize \in Nat
    BY <1>2, SizeType, HeapBytesType, DriverAssumption DEF Apart, Clear
  <2>3. \A i \in lo..(lo + n - 1) : blocks[id] + (i - lo) \in HeapBytes
    BY <2>2 DEF HeapBytes
  <2>4. \A i \in HeapBytes : bytes[i] \in Ids \cup {NULL}
    BY <1>1 DEF Heap
  <2> QED
    BY <2>1, <2>3, <2>4 DEF Heap
<1>3. CASE ~correct
  BY <1>1, <1>3, FilledType DEF MovedHeaps
<1> QED
  BY <1>2, <1>3

LEMMA MovedPrefix ==
  ASSUME correct, NEW from \in Nat, NEW p \in Nat, NEW n \in Nat, p + n <= HeapSize,
         NEW id, NEW moved \in MovedHeaps(id, p, from, n)
  PROVE  \A j \in 0..(n - 1) : moved[p + j] = bytes[from + j]
<1>1. moved = [i \in HeapBytes |-> IF i \in p..(p + n - 1) THEN bytes[from + (i - p)] ELSE bytes[i]]
  BY DEF MovedHeaps
<1> SUFFICES ASSUME NEW j \in 0..(n - 1) PROVE moved[p + j] = bytes[from + j]
  OBVIOUS
<1>2. PICK x : x = p + j
  OBVIOUS
<1>3. x \in HeapBytes /\ x \in p..(p + n - 1) /\ from + (x - p) = from + j
  BY <1>2, DriverAssumption DEF HeapBytes
<1>4. moved[x] = bytes[from + (x - p)]
  BY <1>1, <1>3
<1> QED
  BY <1>2, <1>3, <1>4

LEMMA MovedOthers ==
  ASSUME correct, NEW L, Apart(L, blocks, block_sizes), NEW from, NEW p, NEW n \in Nat, NEW size \in Sizes,
         n <= size, Clear(p, size, L, blocks, block_sizes),
         NEW id, NEW moved \in MovedHeaps(id, p, from, n), NEW i \in L
  PROVE  \A j \in 0..(block_sizes[i] - 1) : moved[blocks[i] + j] = bytes[blocks[i] + j]
<1>1. moved = [x \in HeapBytes |-> IF x \in p..(p + n - 1) THEN bytes[from + (x - p)] ELSE bytes[x]]
  BY DEF MovedHeaps
<1> SUFFICES ASSUME NEW j \in 0..(block_sizes[i] - 1)
             PROVE  moved[blocks[i] + j] = bytes[blocks[i] + j]
  OBVIOUS
<1>2. size \in Nat /\ p \in Nat /\ p + size <= HeapSize /\ HeapSize \in Nat
  BY SizeType, HeapBytesType, DriverAssumption DEF Clear
<1>3. block_sizes[i] \in Nat /\ blocks[i] \in Nat /\ blocks[i] + block_sizes[i] <= HeapSize
  BY SizeType, HeapBytesType DEF Apart, Clear
<1>4. p + size <= blocks[i] \/ blocks[i] + block_sizes[i] <= p
  BY DEF Clear
<1>5. blocks[i] + j \in HeapBytes /\ blocks[i] + j \notin p..(p + n - 1)
  BY <1>2, <1>3, <1>4 DEF HeapBytes
<1> QED
  BY <1>1, <1>5

LEMMA ValidRealloc ==
  ASSUME VInv, correct' = correct, NEW id \in Ids, NEW size \in Sizes, valid_realloc(id, size)
  PROVE  VInv'
<1>1. pass = "valid" /\ id \in live /\ TypeOK /\ live \subseteq Ids /\ brk \in Breaks /\ Grows
  BY DEF valid_realloc, VInv, TypeOK
<1>0. PICK end \in Breaks : end = brk'
  BY <1>1 DEF Grows
<1>2. /\ Lists(ranges, live, blocks, block_sizes)
      /\ correct => Apart(live, blocks, block_sizes) /\ Below(brk, live, blocks, block_sizes)
      /\ correct => \A i \in live : \A j \in 0..(block_sizes[i] - 1) : bytes[blocks[i] + j] = i
  BY <1>1 DEF VInv, Trace, Promise, Contents
<1>3. PICK kept : kept = Lower(size, block_sizes[id])
  OBVIOUS
<1>4. PICK rest : rest = Without(ranges, blocks[id])
  OBVIOUS
<1>5. PICK p \in Answers(id, size, end) :
       \/ p = NULL /\ Reject("failed") /\ UNCHANGED <<ranges, bytes>>
       \/ /\ p # NULL /\ Complaint(rest, p, size, end) # "none"
          /\ ranges' = rest /\ Reject(Complaint(rest, p, size, end)) /\ UNCHANGED bytes
       \/ /\ p # NULL /\ Complaint(rest, p, size, end) = "none"
          /\ ranges' = <<range_t(p, size)>> \o rest
          /\ \E moved \in MovedHeaps(id, p, blocks[id], kept) :
               IF \E j \in 0..(kept - 1) : moved[p + j] # id
               THEN bytes' = moved /\ Reject("data")
               ELSE /\ bytes' = Filled(moved, id, p, size)
                    /\ Remember(id, p, size)
                    /\ UNCHANGED <<pass, report, live, total_size, max_total_size>>
  BY <1>0, <1>3, <1>4 DEF valid_realloc
<1>6. Lists(rest, live \ {id}, blocks, block_sizes)
  BY <1>1, <1>2, <1>4, TakeOut
<1>7. ranges \in Seq(Range_t) /\ rest \in Seq(Range_t) /\ bytes \in Heap
  BY <1>1, <1>6 DEF TypeOK, Range_t, Heap, Lists
<1>8. correct => Apart(live \ {id}, blocks, block_sizes) /\ Below(brk, live \ {id}, blocks, block_sizes)
  BY <1>2, ApartTake DEF Below
<1>9. correct /\ p # NULL =>
        p % Alignment = 0 /\ p + size <= end /\ Clear(p, size, live \ {id}, blocks, block_sizes)
  BY <1>1, <1>2, AnswerIsClear
<1>10. correct /\ p # NULL => Complaint(rest, p, size, end) = "none"
  BY <1>6, <1>8, <1>9, NoComplaint
<1>11. /\ kept \in Nat /\ kept <= size /\ kept <= block_sizes[id] /\ size \in Nat
  <2>1. block_sizes[id] \in Nat /\ size \in Nat
    BY <1>1, <1>2, SizeType DEF Lists
  <2> QED
    BY <2>1, <1>3 DEF Lower
<1>12. CASE p = NULL /\ Reject("failed") /\ UNCHANGED <<ranges, bytes>>
  BY <1>1, <1>7, <1>12, Rejected
<1>13. CASE /\ p # NULL /\ Complaint(rest, p, size, end) # "none"
            /\ ranges' = rest /\ Reject(Complaint(rest, p, size, end)) /\ UNCHANGED bytes
  <2>1. PICK c : c = Complaint(rest, p, size, end)
    OBVIOUS
  <2>2. c \in {"failed", "alignment", "outside", "overlap", "data"} /\ ~correct /\ Reject(c)
    BY <2>1, <1>10, <1>13, ComplaintKinds
  <2> QED
    BY <2>2, <1>1, <1>7, <1>13, Rejected
<1>14. ASSUME p # NULL, Complaint(rest, p, size, end) = "none",
              ranges' = <<range_t(p, size)>> \o rest,
              NEW moved \in MovedHeaps(id, p, blocks[id], kept),
              IF \E j \in 0..(kept - 1) : moved[p + j] # id
              THEN bytes' = moved /\ Reject("data")
              ELSE /\ bytes' = Filled(moved, id, p, size)
                   /\ Remember(id, p, size)
                   /\ UNCHANGED <<pass, report, live, total_size, max_total_size>>
       PROVE  VInv'
  <2>1. p \in Address /\ p \in Int
    BY <1>14, AnswerType, DriverAssumption DEF Address
  <2>2. moved \in Heap
    BY <2>1, <1>1, <1>2, <1>11, <1>14, MovedType
  <2>3. ASSUME correct
        PROVE  /\ ~\E j \in 0..(kept - 1) : moved[p + j] # id
               /\ \A i \in live \ {id} : \A j \in 0..(block_sizes[i] - 1) : moved[blocks[i] + j] = i
    <3>1. /\ \A j \in 0..(kept - 1) : moved[p + j] = bytes[blocks[id] + j]
          /\ \A i \in live \ {id} : \A j \in 0..(block_sizes[i] - 1) :
               moved[blocks[i] + j] = bytes[blocks[i] + j]
      <4>1. /\ Apart(live \ {id}, blocks, block_sizes)
            /\ Clear(p, size, live \ {id}, blocks, block_sizes)
            /\ moved \in MovedHeaps(id, p, blocks[id], kept)
        BY <2>3, <1>8, <1>9, <1>14
      <4>2. blocks[id] \in Nat /\ p \in Nat /\ p + kept <= HeapSize
        BY <2>3, <4>1, <1>1, <1>2, <1>11, HeapBytesType, DriverAssumption DEF Apart, Clear
      <4>3. \A j \in 0..(kept - 1) : moved[p + j] = bytes[blocks[id] + j]
        BY <4>1, <4>2, <2>3, <1>11, MovedPrefix
      <4>4. ASSUME NEW i \in live \ {id}
            PROVE  \A j \in 0..(block_sizes[i] - 1) : moved[blocks[i] + j] = bytes[blocks[i] + j]
        BY <4>1, <2>3, <1>11, MovedOthers
      <4> QED
        BY <4>3, <4>4
    <3>2. \A j \in 0..(kept - 1) : j \in 0..(block_sizes[id] - 1)
      <4>1. block_sizes[id] \in Nat
        BY <1>1, <1>2, SizeType DEF Lists
      <4> QED
        BY <4>1, <1>11
    <3> QED
      BY <3>1, <3>2, <2>3, <1>1, <1>2
  <2>4. CASE \E j \in 0..(kept - 1) : moved[p + j] # id
    <3>1. ranges' \in Seq(Range_t)
      <4>1. Lists(<<range_t(p, size)>> \o rest, (live \ {id}) \cup {id},
                  [blocks EXCEPT ![id] = p], [block_sizes EXCEPT ![id] = size])
        BY <2>1, <1>1, <1>6, <1>14, PutIn DEF TypeOK
      <4> QED
        BY <4>1, <1>14 DEF Lists
    <3>2. ~correct /\ bytes' \in Heap /\ Reject("data")
      BY <2>2, <2>3, <2>4, <1>14
    <3> QED
      BY <3>1, <3>2, <1>1, Rejected
  <2>5. CASE ~\E j \in 0..(kept - 1) : moved[p + j] # id
    <3>1. /\ bytes' = Filled(moved, id, p, size)
          /\ Remember(id, p, size)
          /\ UNCHANGED <<pass, report, live, total_size, max_total_size>>
      BY <2>5, <1>14
    <3>2. live' = (live \ {id}) \cup {id} /\ id \in Ids \ (live \ {id})
      BY <3>1, <1>1
    <3>3. PICK L : L = live \ {id}
      OBVIOUS
    <3>4. /\ live' = L \cup {id} /\ id \in Ids \ L
          /\ Lists(rest, L, blocks, block_sizes)
          /\ correct => /\ Apart(L, blocks, block_sizes) /\ Below(brk, L, blocks, block_sizes)
                        /\ Clear(p, size, L, blocks, block_sizes) /\ p + size <= brk'
          /\ correct => \A i \in L : \A j \in 0..(block_sizes[i] - 1) : moved[blocks[i] + j] = i
      BY <1>0, <3>2, <3>3, <2>3, <1>6, <1>8, <1>9, <1>14
    <3>5. pass = "valid" /\ pass' = "valid" /\ report' = report /\ UNCHANGED <<total_size, max_total_size>>
      BY <3>1, <1>1
    <3>6. Complaint(rest, p, size, brk') = "none"
      BY <1>0, <1>14
    <3> QED
      BY <3>1, <3>4, <3>5, <3>6, <2>1, <2>2, <1>1, <1>14, Accepted
  <2> QED
    BY <2>4, <2>5
<1> QED
  BY <1>5, <1>12, <1>13, <1>14

LEMMA ValidFree ==
  ASSUME VInv, correct' = correct, NEW id \in Ids, valid_free(id)
  PROVE  VInv'
<1>1. /\ pass = "valid" /\ id \in live /\ TypeOK
      /\ Lists(ranges, live, blocks, block_sizes)
      /\ correct => Apart(live, blocks, block_sizes) /\ Below(brk, live, blocks, block_sizes)
      /\ brk \in Breaks /\ brk' \in Breaks /\ brk <= brk'
  BY DEF valid_free, Grows, VInv, TypeOK, Trace, Promise
<1>2. /\ ranges' = Without(ranges, blocks[id]) /\ live' = live \ {id} /\ pass' = pass
      /\ report' = report /\ blocks' = blocks /\ block_sizes' = block_sizes /\ bytes' = bytes
      /\ total_size' = total_size /\ max_total_size' = max_total_size
  BY DEF valid_free
<1>3. Lists(ranges', live', blocks', block_sizes')
  BY <1>1, <1>2, TakeOut
<1>4. correct => Apart(live', blocks', block_sizes') /\ Below(brk', live', blocks', block_sizes')
  <2>1. live \ {id} \in SUBSET live
    OBVIOUS
  <2> QED
    BY <2>1, <1>1, <1>2, ApartTake, BelowTake
<1>5. TypeOK'
  BY <1>1, <1>2, <1>3 DEF TypeOK, Lists, Range_t
<1> QED
  BY <1>1, <1>2, <1>3, <1>4, <1>5 DEF VInv, Trace, Promise, Contents, NoFalseAlarm

LEMMA NoPayloads ==
  ASSUME NEW bl, NEW sz
  PROVE  Lists(<<>>, {}, bl, sz) /\ Apart({}, bl, sz) /\ \A end : Below(end, {}, bl, sz)
<1>1. <<>> \in Seq(Range_t) /\ Len(<<>>) = 0 /\ DOMAIN <<>> = {}
  OBVIOUS
<1>2. IsFiniteSet({}) /\ Cardinality({}) = 0
  BY FS_EmptySet
<1>3. ToSet(<<>>) = {}
  BY <1>1 DEF ToSet
<1> QED
  BY <1>1, <1>2, <1>3 DEF Lists, Apart, Around, Below

LEMMA ValidStarts == ASSUME VInv, correct' = correct, eval_mm_valid PROVE VInv'
<1>1. ranges' = <<>> /\ live' = {} /\ pass' \in {"valid", "next"} /\ report' \in {"none", "failed"}
  BY DEF eval_mm_valid
<1>2. UNCHANGED <<blocks, block_sizes, bytes, total_size, max_total_size>> /\ brk' \in Breaks
  BY DEF eval_mm_valid, Resets
<1>3. /\ Lists(ranges', live', blocks', block_sizes') /\ Apart(live', blocks', block_sizes')
      /\ Below(brk', live', blocks', block_sizes')
  BY <1>1, NoPayloads
<1>4. ranges' \in Seq(Range_t)
  BY <1>3 DEF Lists
<1>5. TypeOK'
  BY <1>1, <1>2, <1>4 DEF VInv, TypeOK, Range_t
<1> QED
  BY <1>1, <1>3, <1>5 DEF VInv, Trace, Promise, Contents, NoFalseAlarm

LEMMA UtilStarts == ASSUME VInv, correct' = correct, eval_mm_util PROVE VInv'
<1>1. /\ pass' = "util" /\ live' = {} /\ total_size' = 0 /\ max_total_size' = 0
      /\ UNCHANGED <<report, ranges, blocks, block_sizes, bytes>> /\ brk' \in Breaks
  BY DEF eval_mm_util, Resets
<1>2. Apart(live', blocks', block_sizes') /\ Below(brk', live', blocks', block_sizes')
  BY <1>1, NoPayloads
<1>3. TypeOK'
  BY <1>1, DriverAssumption DEF VInv, TypeOK
<1> QED
  BY <1>1, <1>2, <1>3 DEF VInv, Trace, Promise, Contents, NoFalseAlarm

LEMMA UtilStops == ASSUME VInv, correct' = correct, util_exits \/ util_ends PROVE VInv'
<1>1. /\ pass' \in {"exit", "next"}
      /\ UNCHANGED <<report, ranges, blocks, block_sizes, live, brk, bytes, total_size, max_total_size>>
  BY DEF util_exits, util_ends
<1>2. TypeOK'
  BY <1>1 DEF VInv, TypeOK
<1> QED
  BY <1>1, <1>2 DEF VInv, Trace, Promise, Contents, NoFalseAlarm

LEMMA Modulo == ASSUME NEW x \in Int PROVE x % Uint \in 0..(Uint - 1)
BY DriverAssumption

\* What mm_malloc and mm_realloc have in common in eval_mm_util.
LEMMA UtilGets ==
  ASSUME VInv, correct' = correct, pass = "util", NEW id \in Ids, NEW size \in Sizes,
         Grows, NEW p \in Answers(id, size, brk') \ {NULL}, Remember(id, p, size),
         live' = live \cup {id}, NEW change \in Int, Total(change),
         UNCHANGED <<pass, report, ranges, bytes>>
  PROVE  VInv'
<1>1. /\ blocks \in [Ids -> Address] /\ block_sizes \in [Ids -> Sizes \cup {0}] /\ live \subseteq Ids
      /\ {total_size, max_total_size} \subseteq 0..(Uint - 1) /\ TypeOK
      /\ correct => Apart(live, blocks, block_sizes) /\ Below(brk, live, blocks, block_sizes)
      /\ brk \in Breaks /\ brk' \in Breaks /\ brk <= brk'
  BY DEF VInv, TypeOK, Promise, Grows
<1>2. /\ blocks' = [blocks EXCEPT ![id] = p]
      /\ block_sizes' = [block_sizes EXCEPT ![id] = size]
  BY DEF Remember
<1>3. p \in Address
  BY AnswerType
<1>4. blocks' \in [Ids -> Address] /\ block_sizes' \in [Ids -> Sizes \cup {0}] /\ live' \subseteq Ids
  BY <1>1, <1>2, <1>3
<1>5. {total_size', max_total_size'} \subseteq 0..(Uint - 1)
  <2>1. total_size' = (total_size + change) % Uint /\ total_size + change \in Int
    BY <1>1 DEF Total
  <2>2. total_size' \in 0..(Uint - 1)
    BY <2>1, Modulo
  <2>3. max_total_size' \in {total_size', max_total_size}
    BY DEF Total, Higher
  <2> QED
    BY <2>2, <2>3, <1>1
<1>6. TypeOK'
  BY <1>1, <1>4, <1>5 DEF VInv, TypeOK
<1>7. ASSUME correct PROVE Apart(live', blocks', block_sizes') /\ Below(brk', live', blocks', block_sizes')
  <2>1. PICK L : L = live \ {id}
    OBVIOUS
  <2>2. Clear(p, size, L, blocks, block_sizes) /\ p + size <= brk'
    <3>1. PICK end \in Breaks : end = brk'
      BY <1>1
    <3>2. p \in Answers(id, size, end) /\ p # NULL
      BY <3>1
    <3> QED
      BY <2>1, <3>1, <3>2, <1>1, <1>7, AnswerIsClear
  <2>3. Apart(L, blocks, block_sizes) /\ Below(brk, L, blocks, block_sizes)
    BY <2>1, <1>1, <1>7, ApartTake DEF Below
  <2>4. id \in Ids \ L /\ L \in SUBSET Ids /\ live' = L \cup {id}
    BY <2>1, <1>1
  <2> QED
    <3>1. Apart(L \cup {id}, [blocks EXCEPT ![id] = p], [block_sizes EXCEPT ![id] = size])
      BY <2>2, <2>3, <2>4, <1>1, <1>7, ApartPut
    <3>2. Below(brk', L \cup {id}, [blocks EXCEPT ![id] = p], [block_sizes EXCEPT ![id] = size])
      BY <2>2, <2>3, <2>4, <1>1, <1>7, BelowPut
    <3> QED
      BY <3>1, <3>2, <2>4, <1>2
<1> QED
  BY <1>6, <1>7 DEF VInv, Trace, Promise, Contents, NoFalseAlarm

LEMMA UtilAlloc ==
  ASSUME VInv, correct' = correct, NEW id \in Ids, NEW size \in Sizes, util_alloc(id, size)
  PROVE  VInv'
<1>1. size \in Int
  BY SizeType
<1> QED
  BY <1>1, UtilGets DEF util_alloc

LEMMA UtilRealloc ==
  ASSUME VInv, correct' = correct, NEW id \in Ids, NEW size \in Sizes, util_realloc(id, size)
  PROVE  VInv'
<1>1. PICK change : change = Growth(block_sizes[id], size)
  OBVIOUS
<1>2. change \in Int
  <2>1. block_sizes[id] \in Sizes \cup {0}
    BY DEF VInv, TypeOK
  <2> QED
    BY <2>1, <1>1, SizeType DEF Growth
<1>3. PICK p \in Answers(id, size, brk') \ {NULL} : Remember(id, p, size)
  BY DEF util_realloc
<1>4. /\ pass = "util" /\ live' = live \cup {id} /\ Total(change) /\ Grows
      /\ UNCHANGED <<pass, report, ranges, bytes>>
  BY <1>1 DEF util_realloc
<1> QED
  BY <1>2, <1>3, <1>4, UtilGets

LEMMA UtilFree ==
  ASSUME VInv, correct' = correct, NEW id \in Ids, util_free(id)
  PROVE  VInv'
<1>1. /\ pass = "util" /\ live' = live \ {id} /\ total_size' = (total_size - block_sizes[id]) % Uint
      /\ UNCHANGED <<pass, report, ranges, blocks, block_sizes, bytes, max_total_size>>
      /\ brk' \in Breaks /\ brk <= brk'
  BY DEF util_free, Grows
<1>2. total_size' \in 0..(Uint - 1)
  <2>1. total_size \in Int /\ block_sizes[id] \in Int
    <3>1. total_size \in 0..(Uint - 1) /\ block_sizes[id] \in Sizes \cup {0}
      BY DEF VInv, TypeOK
    <3> QED
      BY <3>1, SizeType
  <2> QED
    BY <2>1, <1>1, Modulo
<1>3. TypeOK'
  BY <1>1, <1>2 DEF VInv, TypeOK
<1>4. correct => Apart(live', blocks', block_sizes') /\ Below(brk', live', blocks', block_sizes')
  <2>1. live \ {id} \in SUBSET live /\ brk \in Breaks
    BY DEF VInv, TypeOK
  <2> QED
    BY <2>1, <1>1, ApartTake, BelowTake DEF VInv, Promise
<1> QED
  BY <1>1, <1>3, <1>4 DEF VInv, Trace, Promise, Contents, NoFalseAlarm

LEMMA VInvNext == VInv /\ [Next]_vars => VInv'
<1> SUFFICES ASSUME VInv, [Next]_vars PROVE VInv'
  OBVIOUS
<1>1. CASE Next
  BY <1>1, ValidAlloc, ValidRealloc, ValidFree, ValidStarts, UtilStarts, UtilStops,
     UtilAlloc, UtilRealloc, UtilFree DEF Next, DriverStep
<1>2. CASE UNCHANGED vars
  BY <1>2 DEF vars, driver, VInv, TypeOK, Trace, Promise, Contents, NoFalseAlarm
<1> QED
  BY <1>1, <1>2

LEMMA VInvCorrect == Spec => []VInv
BY VInvInit, VInvNext, PTL DEF Spec

\* The range list is the list of the live payloads, each once, for every
\* allocator, whatever it returns.
THEOREM RangesAreLiveCorrect == Spec => []RangesAreLive
<1>1. VInv => RangesAreLive
  BY DEF VInv, Trace, Lists, RangesAreLive
<1> QED
  BY <1>1, VInvCorrect, PTL

\* An allocator that keeps the promises of Allocator is never accused of a bad
\* address or of lost data.
THEOREM NoFalseAlarmCorrect == Spec => []NoFalseAlarm
<1>1. VInv => NoFalseAlarm
  BY DEF VInv
<1> QED
  BY <1>1, VInvCorrect, PTL

-----------------------------------------------------------------------------
(* The sizes of payloads, as numbers of bytes.                               *)

PayloadBytes(L, sz) == {b \in L \X (1..HeapSize) : b[2] <= sz[b[1]]}

LEMMA BytesFinite == ASSUME NEW L, IsFiniteSet(L), NEW sz PROVE IsFiniteSet(PayloadBytes(L, sz))
<1>1. IsFiniteSet(1..HeapSize)
  BY FS_Interval, DriverAssumption
<1>2. IsFiniteSet(L \X (1..HeapSize))
  BY <1>1, FS_Product
<1>3. PayloadBytes(L, sz) \in SUBSET (L \X (1..HeapSize))
  BY DEF PayloadBytes
<1> QED
  BY <1>2, <1>3, FS_Subset

LEMMA BytesAdded ==
  ASSUME NEW L, IsFiniteSet(L), NEW sz, NEW id, id \notin L, sz[id] \in Sizes
  PROVE  Cardinality(PayloadBytes(L \cup {id}, sz)) = Cardinality(PayloadBytes(L, sz)) + sz[id]
<1>1. sz[id] \in Nat /\ 1 <= sz[id] /\ sz[id] <= HeapSize
  BY SizeType
<1>2. PICK A : A = PayloadBytes(L, sz)
  OBVIOUS
<1>3. PICK B : B = {id} \X (1..sz[id])
  OBVIOUS
<1>4. PayloadBytes(L \cup {id}, sz) = A \cup B
  <2>1. ASSUME NEW b \in PayloadBytes(L \cup {id}, sz) PROVE b \in A \cup B
    <3>1. PICK x \in L \cup {id}, y \in 1..HeapSize : b = <<x, y>> /\ y <= sz[x]
      BY DEF PayloadBytes
    <3>2. CASE x \in L
      BY <3>1, <3>2, <1>2 DEF PayloadBytes
    <3>3. CASE x = id
      <4>1. y \in 1..sz[id]
        BY <3>1, <3>3, <1>1
      <4> QED
        BY <4>1, <3>1, <3>3, <1>3
    <3> QED
      BY <3>2, <3>3
  <2>2. \A b \in A : b \in PayloadBytes(L \cup {id}, sz)
    BY <1>2 DEF PayloadBytes
  <2>3. ASSUME NEW b \in B PROVE b \in PayloadBytes(L \cup {id}, sz)
    <3>1. PICK y \in 1..sz[id] : b = <<id, y>>
      BY <1>3
    <3>2. y \in 1..HeapSize /\ y <= sz[id]
      BY <1>1, DriverAssumption
    <3> QED
      BY <3>1, <3>2 DEF PayloadBytes
  <2> QED
    BY <2>1, <2>2, <2>3
<1>5. A \cap B = {}
  BY <1>2, <1>3 DEF PayloadBytes
<1>6. IsFiniteSet(A)
  BY <1>2, BytesFinite
<1>7. IsFiniteSet(B) /\ Cardinality(B) = sz[id]
  <2>1. IsFiniteSet({id}) /\ Cardinality({id}) = 1
    BY FS_Singleton
  <2>2. IsFiniteSet(1..sz[id]) /\ Cardinality(1..sz[id]) = sz[id]
    BY <1>1, FS_Interval, SMTT(40)
  <2>3. IsFiniteSet(B) /\ Cardinality(B) = Cardinality({id}) * Cardinality(1..sz[id])
    BY <2>1, <2>2, <1>3, FS_Product
  <2> QED
    BY <2>1, <2>2, <2>3, <1>1
<1>8. Cardinality(A \cup B) = Cardinality(A) + Cardinality(B) - Cardinality(A \cap B)
  BY <1>6, <1>7, FS_Union
<1>9. Cardinality(A \cap B) = 0 /\ Cardinality(A) \in Nat
  BY <1>5, <1>6, FS_EmptySet, FS_CardinalityType
<1>10. Cardinality(A \cup B) = Cardinality(A) + sz[id]
  BY <1>1, <1>7, <1>8, <1>9
<1> QED
  BY <1>2, <1>4, <1>10

LEMMA BytesSame ==
  ASSUME NEW L, NEW sz, NEW other, \A j \in L : sz[j] = other[j]
  PROVE  PayloadBytes(L, sz) = PayloadBytes(L, other)
BY DEF PayloadBytes

\* Payloads that lie apart and below the break have no more bytes than the heap.
LEMMA BytesFit ==
  ASSUME NEW L, NEW bl, NEW sz, Apart(L, bl, sz), NEW end \in Breaks, Below(end, L, bl, sz)
  PROVE  Cardinality(PayloadBytes(L, sz)) <= end
<1>1. PICK A : A = PayloadBytes(L, sz)
  OBVIOUS
<1>2. \A b \in A : b[1] \in L /\ b[2] \in 1..HeapSize /\ b[2] <= sz[b[1]] /\ b = <<b[1], b[2]>>
  BY <1>1 DEF PayloadBytes
<1>3. \A j \in L : bl[j] \in Nat /\ sz[j] \in Nat /\ bl[j] + sz[j] <= end
  BY SizeType, HeapBytesType DEF Apart, Clear, Below
<1>4. PICK f : f = [b \in A |-> bl[b[1]] + b[2] - 1]
  OBVIOUS
<1>5. ASSUME NEW b \in A PROVE f[b] \in 0..(end - 1)
  <2>1. /\ bl[b[1]] \in Nat /\ sz[b[1]] \in Nat /\ bl[b[1]] + sz[b[1]] <= end
        /\ b[2] \in Nat /\ 1 <= b[2] /\ b[2] <= sz[b[1]] /\ end \in Nat
    BY <1>2, <1>3, DriverAssumption, BreakType
  <2>2. f[b] = bl[b[1]] + b[2] - 1
    BY <1>4
  <2> QED
    BY <2>1, <2>2
<1>6. ASSUME NEW b \in A, NEW c \in A, f[b] = f[c] PROVE b = c
  <2>1. /\ bl[b[1]] \in Nat /\ sz[b[1]] \in Nat /\ b[2] \in Nat /\ 1 <= b[2] /\ b[2] <= sz[b[1]]
        /\ bl[c[1]] \in Nat /\ sz[c[1]] \in Nat /\ c[2] \in Nat /\ 1 <= c[2] /\ c[2] <= sz[c[1]]
    BY <1>2, <1>3, DriverAssumption
  <2>2. bl[b[1]] + b[2] - 1 = bl[c[1]] + c[2] - 1
    BY <1>4, <1>6
  <2>3. b[1] # c[1] => bl[b[1]] + sz[b[1]] <= bl[c[1]] \/ bl[c[1]] + sz[c[1]] <= bl[b[1]]
    BY <1>2 DEF Apart, Clear
  <2>4. b[1] = c[1]
    BY <2>1, <2>2, <2>3
  <2>5. b[2] = c[2]
    BY <2>1, <2>2, <2>4
  <2> QED
    BY <2>4, <2>5, <1>2
<1>7. f \in Injection(A, 0..(end - 1))
  BY <1>4, <1>5, <1>6 DEF Injection, IsInjective
<1>8. IsFiniteSet(0..(end - 1)) /\ Cardinality(0..(end - 1)) = end
  <2>1. 0 \in Int /\ end - 1 \in Int /\ end \in Nat
    BY BreakType
  <2> QED
    BY <2>1, FS_Interval
<1> QED
  BY <1>1, <1>7, <1>8, FS_Injection

-----------------------------------------------------------------------------
TInv == IsFiniteSet(live) /\ TotalIsLive

LEMMA TotalIs ==
  TotalIsLive <=> (correct /\ pass = "util" =>
                     /\ total_size = Cardinality(PayloadBytes(live, block_sizes))
                     /\ total_size <= max_total_size /\ max_total_size <= brk)
BY DEF TotalIsLive, PayloadBytes

LEMMA NoWrapAround == ASSUME NEW x \in 0..HeapSize PROVE x % Uint = x
BY DriverAssumption

\* The new total is within the heap, so that it is what the unsigned sum says.
LEMMA TotalGrows ==
  ASSUME TInv, VInv, VInv', correct, correct', pass = "util", pass' = "util",
         NEW L, IsFiniteSet(L), NEW id \in Ids, id \notin L, live' = L \cup {id},
         NEW size \in Sizes, block_sizes'[id] = size,
         \A j \in L : block_sizes'[j] = block_sizes[j],
         NEW change \in Int, Total(change), Grows,
         total_size + change = Cardinality(PayloadBytes(L, block_sizes)) + size
  PROVE  TInv'
<1>1. PICK n : n = Cardinality(PayloadBytes(live', block_sizes'))
  OBVIOUS
<1>2. n = Cardinality(PayloadBytes(L, block_sizes)) + size
  <2>1. PayloadBytes(L, block_sizes') = PayloadBytes(L, block_sizes)
    BY BytesSame
  <2>2. Cardinality(PayloadBytes(L \cup {id}, block_sizes')) = Cardinality(PayloadBytes(L, block_sizes')) + size
    BY BytesAdded
  <2> QED
    BY <2>1, <2>2, <1>1
<1>3. IsFiniteSet(live')
  BY FS_AddElement
<1>4. Apart(live', blocks', block_sizes') /\ Below(brk', live', blocks', block_sizes')
  BY DEF VInv, Promise
<1>0. PICK end \in Breaks : end = brk' /\ brk <= end /\ brk \in Nat /\ end \in Nat /\ end <= HeapSize
  BY BreakType DEF Grows, VInv, TypeOK
<1>5. n \in 0..HeapSize /\ n <= end
  <2>1. n \in Nat
    BY <1>1, <1>3, BytesFinite, FS_CardinalityType
  <2>2. n <= end
    BY <1>0, <1>1, <1>4, BytesFit
  <2> QED
    BY <2>1, <2>2, <1>0, DriverAssumption
<1>6. total_size' = n
  BY <1>2, <1>5, NoWrapAround DEF Total
<1>7. max_total_size \in Nat /\ max_total_size <= brk
  <2>1. max_total_size \in 0..(Uint - 1)
    BY DEF VInv, TypeOK
  <2> QED
    BY <2>1, TotalIs DEF TInv
<1>8. total_size' <= max_total_size' /\ max_total_size' <= brk'
  BY <1>0, <1>5, <1>6, <1>7, DriverAssumption DEF Total, Higher
<1>9. TotalIsLive'
  BY <1>1, <1>6, <1>8 DEF TotalIsLive, PayloadBytes
<1> QED
  BY <1>3, <1>9 DEF TInv

LEMMA TInvInit == Init => TInv
BY FS_EmptySet DEF Init, TInv, TotalIsLive

LEMMA TInvUtilAlloc ==
  ASSUME TInv, VInv, VInv', correct' = correct, NEW id \in Ids, NEW size \in Sizes, util_alloc(id, size)
  PROVE  TInv'
<1>1. /\ pass = "util" /\ pass' = "util" /\ id \notin live /\ live' = live \cup {id} /\ Total(size)
      /\ IsFiniteSet(live) /\ Grows
  BY DEF util_alloc, TInv
<1>2. block_sizes' = [block_sizes EXCEPT ![id] = size]
  BY DEF util_alloc, Remember
<1>3. block_sizes \in [Ids -> Sizes \cup {0}] /\ live \subseteq Ids
  BY DEF VInv, TypeOK
<1>4. block_sizes'[id] = size /\ \A j \in live : block_sizes'[j] = block_sizes[j]
  BY <1>1, <1>2, <1>3
<1>5. CASE correct
  <2>1. total_size = Cardinality(PayloadBytes(live, block_sizes))
    BY <1>1, <1>5, TotalIs DEF TInv
  <2>2. size \in Int /\ correct'
    BY <1>5, SizeType
  <2>3. PICK L : L = live
    OBVIOUS
  <2> QED
    BY <2>1, <2>2, <2>3, <1>1, <1>4, <1>5, TotalGrows
<1>6. CASE ~correct
  BY <1>1, <1>6, FS_AddElement DEF TInv, TotalIsLive
<1> QED
  BY <1>5, <1>6

LEMMA TInvUtilRealloc ==
  ASSUME TInv, VInv, VInv', correct' = correct, NEW id \in Ids, NEW size \in Sizes, util_realloc(id, size)
  PROVE  TInv'
<1>1. /\ pass = "util" /\ pass' = "util" /\ id \in live /\ live' = live
      /\ Total(size - block_sizes[id]) /\ IsFiniteSet(live) /\ Grows
  BY DEF util_realloc, Growth, TInv
<1>2. block_sizes' = [block_sizes EXCEPT ![id] = size]
  BY DEF util_realloc, Remember
<1>3. block_sizes \in [Ids -> Sizes \cup {0}] /\ live \subseteq Ids
  BY DEF VInv, TypeOK
<1>4. PICK L : L = live \ {id}
  OBVIOUS
<1>5. /\ IsFiniteSet(L) /\ id \notin L /\ live = L \cup {id} /\ live' = L \cup {id}
      /\ block_sizes'[id] = size /\ \A j \in L : block_sizes'[j] = block_sizes[j]
  BY <1>1, <1>2, <1>3, <1>4, FS_RemoveElement
<1>6. CASE correct
  <2>1. block_sizes[id] \in Sizes
    BY <1>1, <1>6 DEF VInv, Promise, Apart
  <2>2. total_size = Cardinality(PayloadBytes(L, block_sizes)) + block_sizes[id]
    <3>1. total_size = Cardinality(PayloadBytes(L \cup {id}, block_sizes))
      BY <1>1, <1>5, <1>6, TotalIs DEF TInv
    <3> QED
      BY <3>1, <2>1, <1>5, BytesAdded
  <2>3. Cardinality(PayloadBytes(L, block_sizes)) \in Nat
    BY <1>5, BytesFinite, FS_CardinalityType
  <2>4. PICK change : change = size - block_sizes[id]
    OBVIOUS
  <2>5. /\ change \in Int /\ Total(change) /\ correct'
        /\ total_size + change = Cardinality(PayloadBytes(L, block_sizes)) + size
    BY <2>1, <2>2, <2>3, <2>4, <1>1, <1>6, SizeType
  <2> QED
    BY <2>5, <1>1, <1>5, <1>6, TotalGrows
<1>7. CASE ~correct
  BY <1>1, <1>7 DEF TInv, TotalIsLive
<1> QED
  BY <1>6, <1>7

LEMMA TInvUtilFree ==
  ASSUME TInv, VInv, correct' = correct, NEW id \in Ids, util_free(id)
  PROVE  TInv'
<1>1. /\ pass = "util" /\ pass' = "util" /\ id \in live /\ live' = live \ {id}
      /\ total_size' = (total_size - block_sizes[id]) % Uint
      /\ block_sizes' = block_sizes /\ max_total_size' = max_total_size /\ IsFiniteSet(live)
      /\ brk' \in Breaks /\ brk <= brk' /\ brk \in Breaks
  BY DEF util_free, Grows, TInv, VInv, TypeOK
<1>2. PICK L : L = live \ {id}
  OBVIOUS
<1>3. IsFiniteSet(L) /\ id \notin L /\ live = L \cup {id} /\ live' = L
  BY <1>1, <1>2, FS_RemoveElement
<1>4. CASE correct
  <2>1. block_sizes[id] \in Sizes
    BY <1>1, <1>4 DEF VInv, Promise, Apart
  <2>2. PICK n : n = Cardinality(PayloadBytes(L, block_sizes))
    OBVIOUS
  <2>3. /\ total_size = Cardinality(PayloadBytes(L \cup {id}, block_sizes))
        /\ total_size <= max_total_size /\ max_total_size <= brk
    BY <1>1, <1>3, <1>4, TotalIs DEF TInv
  <2>4. total_size = n + block_sizes[id]
    <3>1. Cardinality(PayloadBytes(L \cup {id}, block_sizes)) = Cardinality(PayloadBytes(L, block_sizes)) + block_sizes[id]
      BY <2>1, <1>3, BytesAdded
    <3> QED
      BY <3>1, <2>2, <2>3
  <2>5. n \in Nat /\ max_total_size \in Nat /\ block_sizes[id] \in Nat
    <3>1. max_total_size \in 0..(Uint - 1)
      BY DEF VInv, TypeOK
    <3> QED
      BY <3>1, <2>1, <2>2, <1>3, BytesFinite, FS_CardinalityType, SizeType
  <2>6. n <= max_total_size /\ n \in 0..HeapSize /\ total_size - block_sizes[id] = n
    BY <2>3, <2>4, <2>5, <1>1, BreakType, DriverAssumption
  <2>7. total_size' = n
    BY <2>6, <1>1, NoWrapAround
  <2>8. total_size' = Cardinality(PayloadBytes(live', block_sizes'))
    BY <2>2, <2>7, <1>1, <1>3
  <2>9. total_size' <= max_total_size' /\ max_total_size' <= brk'
    BY <2>3, <2>5, <2>6, <2>7, <1>1, BreakType
  <2> QED
    BY <2>8, <2>9, <1>3 DEF TInv, TotalIsLive, PayloadBytes
<1>5. CASE ~correct
  BY <1>1, <1>3, <1>5 DEF TInv, TotalIsLive
<1> QED
  BY <1>4, <1>5

\* The other steps do not run in eval_mm_util, or begin it.
LEMMA TInvOther ==
  ASSUME TInv, correct' = correct,
         \/ eval_mm_valid \/ eval_mm_util \/ util_exits \/ util_ends
         \/ \E id \in Ids, size \in Sizes : valid_alloc(id, size) \/ valid_realloc(id, size)
         \/ \E id \in Ids : valid_free(id)
  PROVE  TInv'
<1>1. CASE eval_mm_util
  <2>1. /\ pass' = "util" /\ live' = {} /\ total_size' = 0 /\ max_total_size' = 0
        /\ brk' \in Nat
    BY <1>1, BreakType DEF eval_mm_util, Resets
  <2>2. {b \in {} \X (1..HeapSize) : b[2] <= block_sizes'[b[1]]} = {}
    OBVIOUS
  <2> QED
    BY <2>1, <2>2, FS_EmptySet, DriverAssumption DEF TInv, TotalIsLive
<1>2. ASSUME pass' # "util", IsFiniteSet(live') PROVE TInv'
  BY <1>2 DEF TInv, TotalIsLive
<1>3. CASE eval_mm_valid
  BY <1>2, <1>3, FS_EmptySet DEF eval_mm_valid
<1>4. CASE util_exits \/ util_ends
  BY <1>2, <1>4 DEF util_exits, util_ends, TInv
<1>5. ASSUME NEW id \in Ids, NEW size \in Sizes, valid_alloc(id, size) PROVE TInv'
  <2>1. pass' # "util" /\ (live' = live \/ live' = live \cup {id})
    BY <1>5 DEF valid_alloc, Reject
  <2> QED
    BY <2>1, <1>2, FS_AddElement DEF TInv
<1>6. ASSUME NEW id \in Ids, NEW size \in Sizes, valid_realloc(id, size) PROVE TInv'
  <2>1. pass' # "util" /\ live' = live
    BY <1>6 DEF valid_realloc, Reject
  <2> QED
    BY <2>1, <1>2 DEF TInv
<1>7. ASSUME NEW id \in Ids, valid_free(id) PROVE TInv'
  <2>1. pass' # "util" /\ live' = live \ {id}
    BY <1>7 DEF valid_free
  <2> QED
    BY <2>1, <1>2, FS_RemoveElement DEF TInv
<1> QED
  BY <1>1, <1>3, <1>4, <1>5, <1>6, <1>7

LEMMA TInvNext == TInv /\ VInv /\ VInv' /\ [Next]_vars => TInv'
<1> SUFFICES ASSUME TInv, VInv, VInv', [Next]_vars PROVE TInv'
  OBVIOUS
<1>1. CASE Next
  BY <1>1, TInvOther, TInvUtilAlloc, TInvUtilRealloc, TInvUtilFree DEF Next, DriverStep
<1>2. CASE UNCHANGED vars
  BY <1>2 DEF vars, driver, TInv, TotalIsLive
<1> QED
  BY <1>1, <1>2

\* eval_mm_util adds up the live payloads of an allocator that is correct, without
\* wrapping, and finds that they never take more than the heap has below the break.
THEOREM TotalIsLiveCorrect == Spec => []TotalIsLive
<1>1. TInv => TotalIsLive
  BY DEF TInv
<1> QED
  BY <1>1, TInvInit, TInvNext, VInvCorrect, PTL DEF Spec
=============================================================================
