-------------------------- MODULE FileSystemProofs --------------------------
(* Proofs about FileSystem for every size of the disk and every set of names *)
(* and contents.  The inductive invariant grows in three layers, one per     *)
(* specification: the pointers (under every crash), the agreement of list    *)
(* and inodes (when fs_delete is not cut in two), and the absence of leaks   *)
(* (when nothing is killed at all).                                          *)
EXTENDS FileSystem, TLAPS

USE NumBlocksAssumption, MaxFileSizeAssumption, NumInodesAssumption,
    NamesAssumption, DataAssumption

CrashNext == Next \/ killed_in_create \/ killed_in_delete
CreateCrashNext == Next \/ killed_in_create

\* The pointers an inode holds below its size are data blocks in ascending order.
Ascending(ino) ==
  \A k \in 0..(ino.size - 1) :
    /\ ino.blockPointers[k] \in Block
    /\ \A j \in 0..(k - 1) : ino.blockPointers[j] < ino.blockPointers[k]

PointersOK ==
  /\ TypeOK
  /\ \A s \in Slot : Ascending(inode[s])
  /\ Ascending(pending.inode)

-----------------------------------------------------------------------------
\* An inode made of the lowest free blocks is a well-formed inode, and the
\* blocks it points at are the blocks it was given.
LEMMA NewInodeLemma ==
  ASSUME TypeOK, NEW s \in Slot, NEW name \in Names, NEW size \in AskedSizes,
         ~FileTooBig(size), NEW p \in LowestFree(size)
  PROVE  /\ NewInode(inode[s], name, size, p) \in Inode
         /\ Ascending(NewInode(inode[s], name, size, p))
         /\ BlocksOf(NewInode(inode[s], name, size, p)) = {p[k] : k \in 0..(size - 1)}
         /\ \A k \in 0..(size - 1) : p[k] \in FreeBlocks
<1> DEFINE new == NewInode(inode[s], name, size, p)
<1>1. size \in Sizes /\ 0..(size - 1) \subseteq PtrIndex
  BY DEF AskedSizes, Sizes, FileTooBig, PtrIndex
<1>2. /\ p \in [0..(size - 1) -> FreeBlocks]
      /\ \A j, k \in 0..(size - 1) : j < k => p[j] < p[k]
  BY DEF LowestFree
<1>3. FreeBlocks \subseteq Block /\ Block \subseteq ListIndex
  BY DEF FreeBlocks, Block, ListIndex
<1>4. inode[s] \in Inode
  BY DEF TypeOK
<1>5. new \in Inode
  <2>1. [k \in PtrIndex |-> IF k < size THEN p[k] ELSE inode[s].blockPointers[k]]
          \in [PtrIndex -> ListIndex]
    <3> SUFFICES ASSUME NEW k \in PtrIndex
                 PROVE  (IF k < size THEN p[k] ELSE inode[s].blockPointers[k]) \in ListIndex
      OBVIOUS
    <3>1. k < size => k \in 0..(size - 1)
      BY <1>1 DEF PtrIndex, Sizes
    <3> QED BY <3>1, <1>2, <1>3, <1>4 DEF Inode
  <2> QED BY <2>1, <1>1 DEF NewInode, Inode
<1>6. \A k \in 0..(size - 1) : new.blockPointers[k] = p[k]
  BY <1>1 DEF NewInode, Sizes
<1>7. new.size = size
  BY DEF NewInode
<1>8. Ascending(new)
  <2> SUFFICES ASSUME NEW k \in 0..(size - 1)
               PROVE  /\ new.blockPointers[k] \in Block
                      /\ \A j \in 0..(k - 1) : new.blockPointers[j] < new.blockPointers[k]
    BY <1>7 DEF Ascending
  <2>1. \A j \in 0..(k - 1) : j \in 0..(size - 1) /\ j < k
    BY <1>1 DEF Sizes
  <2> HIDE DEF new
  <2> QED BY <2>1, <1>2, <1>3, <1>6
<1>9. BlocksOf(new) = {p[k] : k \in 0..(size - 1)}
  <2> HIDE DEF new
  <2> QED BY <1>6, <1>7 DEF BlocksOf
<1> QED BY <1>2, <1>5, <1>8, <1>9

\* The upward pass of fs_delete frees every block of an ascending inode.
LEMMA FreedBlocksLemma ==
  ASSUME NEW ino \in Inode, Ascending(ino)
  PROVE  FreedBlocks(ino) = BlocksOf(ino) /\ BlocksOf(ino) \subseteq Block
<1>1. \A m \in 0..(ino.size - 1) : \A j \in 0..(m - 1) :
        ino.blockPointers[j] < ino.blockPointers[j + 1]
  <2> SUFFICES ASSUME NEW m \in 0..(ino.size - 1), NEW j \in 0..(m - 1)
               PROVE  ino.blockPointers[j] < ino.blockPointers[j + 1]
    OBVIOUS
  <2>1. ino.size \in Nat
    BY DEF Inode, Sizes
  <2>2. j + 1 \in 0..(ino.size - 1) /\ j \in 0..((j + 1) - 1)
    BY <2>1
  <2> QED BY <2>2 DEF Ascending
<1>2. FreedBlocks(ino) = BlocksOf(ino)
  BY <1>1 DEF FreedBlocks, BlocksOf
<1>3. BlocksOf(ino) \subseteq Block
  BY DEF BlocksOf, Ascending
<1> QED BY <1>2, <1>3

-----------------------------------------------------------------------------
LEMMA ZeroInodeLemma == ZeroInode \in Inode /\ Ascending(ZeroInode) /\ Nothing \in Pending
<1>1. 0 \in ListIndex /\ 0 \in Sizes /\ 0 \in Slot
  BY DEF ListIndex, Sizes, Slot
<1>2. ZeroInode \in Inode
  BY <1>1 DEF ZeroInode, Inode
<1>3. Ascending(ZeroInode)
  BY DEF ZeroInode, Ascending
<1> QED BY <1>1, <1>2, <1>3 DEF Nothing, Pending

LEMMA PointersInit == Init => PointersOK
<1> SUFFICES ASSUME Init PROVE PointersOK
  OBVIOUS
<1>1. TypeOK
  BY ZeroInodeLemma DEF Init, TypeOK, FormattedList, FormattedInodes, FormattedData
<1>2. \A s \in Slot : Ascending(inode[s])
  BY ZeroInodeLemma DEF Init, FormattedInodes
<1>3. Ascending(pending.inode)
  BY ZeroInodeLemma DEF Init, Nothing
<1> QED BY <1>1, <1>2, <1>3 DEF PointersOK

LEMMA PointersStep == PointersOK /\ [CrashNext]_vars => PointersOK'
<1> SUFFICES ASSUME PointersOK, [CrashNext]_vars PROVE PointersOK'
  OBVIOUS
<1> USE DEF PointersOK
<1>0. CASE UNCHANGED vars
  BY <1>0 DEF vars, TypeOK, Ascending
<1>1. CASE fs_open
  BY <1>1 DEF fs_open, disk, TypeOK, Ascending
<1>2. CASE write_inode
  <2>1. pending.slot \in Slot /\ pending.inode \in Inode
    BY DEF TypeOK, Pending
  <2>2. inode' \in [Slot -> Inode] /\ \A s \in Slot : inode'[s] \in {inode[s], pending.inode}
    BY <1>2, <2>1 DEF write_inode, TypeOK
  <2>3. TypeOK'
    BY <1>2, <2>2, ZeroInodeLemma DEF write_inode, TypeOK
  <2>4. \A s \in Slot : Ascending(inode'[s])
    BY <2>2
  <2>5. Ascending(pending'.inode)
    BY <1>2, ZeroInodeLemma DEF write_inode, Nothing
  <2> QED BY <2>3, <2>4, <2>5 DEF Ascending
<1>3. CASE end_of_input
  BY <1>3 DEF end_of_input, Restarted, disk, TypeOK, Ascending
<1>4. CASE create_fs
  <2>1. TypeOK'
    BY <1>4, ZeroInodeLemma
    DEF create_fs, TypeOK, FormattedList, FormattedInodes, FormattedData
  <2>2. \A s \in Slot : Ascending(inode'[s])
    BY <1>4, ZeroInodeLemma DEF create_fs, FormattedInodes
  <2>3. Ascending(pending'.inode)
    BY <1>4 DEF create_fs
  <2> QED BY <2>1, <2>2, <2>3 DEF Ascending
<1>5. ASSUME NEW name \in Names, fs_delete(name) PROVE PointersOK'
  <2>1. PICK s \in Slot :
          /\ freeBlockList' = [b \in ListIndex |->
               IF b \in FreedBlocks(inode[s]) THEN 0 ELSE freeBlockList[b]]
          /\ pending' = [op |-> "delete", slot |-> s,
                         inode |-> [inode[s] EXCEPT !.used = 0]]
    BY <1>5 DEF fs_delete
  <2>2. [inode[s] EXCEPT !.used = 0] \in Inode
    BY DEF TypeOK, Inode
  <2>3. TypeOK'
    BY <1>5, <2>1, <2>2 DEF fs_delete, TypeOK, Pending
  <2>4. Ascending([inode[s] EXCEPT !.used = 0])
    BY DEF Ascending, TypeOK, Inode
  <2> QED BY <1>5, <2>1, <2>3, <2>4 DEF fs_delete, Ascending
<1>6. ASSUME NEW name \in Names, NEW size \in AskedSizes, fs_create(name, size)
      PROVE  PointersOK'
  <2>1. PICK s \in Slot, p \in LowestFree(size) :
          /\ freeBlockList' = [b \in ListIndex |->
               IF \E k \in 0..(size - 1) : p[k] = b THEN 1 ELSE freeBlockList[b]]
          /\ pending' = [op |-> "create", slot |-> s,
                         inode |-> NewInode(inode[s], name, size, p)]
    BY <1>6 DEF fs_create
  <2>2. /\ NewInode(inode[s], name, size, p) \in Inode
        /\ Ascending(NewInode(inode[s], name, size, p))
    BY <1>6, NewInodeLemma DEF fs_create
  <2>3. TypeOK'
    BY <1>6, <2>1, <2>2 DEF fs_create, TypeOK, Pending
  <2> QED BY <1>6, <2>1, <2>2, <2>3 DEF fs_create, Ascending
<1>7. ASSUME NEW name \in Names, NEW k \in BlockNums, Transfer(name, k)
      PROVE  PointersOK'
  <2>1. PICK s \in Slot : /\ k <= inode[s].size - 1
                          /\ \/ /\ buffer' = data[inode[s].blockPointers[k]]
                                /\ data' = data
                             \/ /\ data' = [data EXCEPT ![inode[s].blockPointers[k]] = buffer]
                                /\ buffer' = buffer
    BY <1>7 DEF Transfer, fs_read, fs_write, disk
  <2>2. inode[s].blockPointers[k] \in Block
    BY <2>1 DEF Ascending, TypeOK, Inode, Sizes, BlockNums
  <2>3. UNCHANGED <<freeBlockList, inode, opened, pending>>
    BY <1>7 DEF Transfer, fs_read, fs_write, disk
  <2>4. TypeOK'
    BY <2>1, <2>2, <2>3 DEF TypeOK
  <2> QED BY <2>3, <2>4 DEF Ascending
<1>8. CASE killed_in_create \/ killed_in_delete
  <2>1. Killed
    BY <1>8 DEF killed_in_create, killed_in_delete
  <2>2. TypeOK'
    BY <2>1, ZeroInodeLemma DEF Killed, Restarted, disk, TypeOK
  <2>3. Ascending(pending'.inode)
    BY <2>1, ZeroInodeLemma DEF Killed, Nothing
  <2>4. \A s \in Slot : Ascending(inode'[s])
    BY <2>1 DEF Killed, disk
  <2> QED BY <2>2, <2>3, <2>4 DEF Ascending
<1> QED BY <1>0, <1>1, <1>2, <1>3, <1>4, <1>5, <1>6, <1>7, <1>8
        DEF CrashNext, Next, Housekeeping

\* Every variable keeps its type, whatever is killed and whenever.
THEOREM TypeCorrect == CrashSpec => []TypeOK
<1>1. PointersOK => TypeOK
  BY DEF PointersOK
<1> QED BY <1>1, PointersInit, PointersStep, PTL DEF CrashSpec, CrashNext

\* fs_delete frees every block of the inode it deletes, and no pointer below
\* the size leaves the data blocks, whatever is killed and whenever.
THEOREM DeleteFreesAllCorrect == CrashSpec => []DeleteFreesAll
<1>1. PointersOK => DeleteFreesAll
  BY FreedBlocksLemma DEF PointersOK, DeleteFreesAll, TypeOK
<1> QED BY <1>1, PointersInit, PointersStep, PTL DEF CrashSpec, CrashNext

-----------------------------------------------------------------------------
(* Agreement of the free list and the inodes.  It fails when fs_delete is    *)
(* killed between its writes, so the specification here is CreateCrashSpec.  *)

\* While fs_create is between its writes its slot is unused and its blocks are
\* marked and belong to no file; while fs_delete is, its slot still holds the
\* old inode, whose blocks are all free.
PendingOK ==
  /\ IF Idle THEN pending = Nothing ELSE opened
  /\ pending.op = "create" =>
       /\ ~InUse(pending.slot) /\ pending.inode.used = 1
       /\ \A b \in BlocksOf(pending.inode) : freeBlockList[b] = 1 /\ ~Owned(b)
  /\ pending.op = "delete" =>
       /\ InUse(pending.slot)
       /\ pending.inode = [inode[pending.slot] EXCEPT !.used = 0]
       /\ \A b \in BlocksOf(pending.inode) : freeBlockList[b] = 0

Agreement == PointersOK /\ NoSharedBlocks /\ InUseIsListed /\ PendingOK

\* These four depend on the list, the inodes, opened and pending alone.
LEMMA AgreementFrame ==
  ASSUME Agreement, UNCHANGED <<freeBlockList, inode, opened, pending>>
  PROVE  NoSharedBlocks' /\ InUseIsListed' /\ PendingOK'
<1>1. NoSharedBlocks'
  BY DEF Agreement, NoSharedBlocks, InUse
<1>2. InUseIsListed'
  BY DEF Agreement, InUseIsListed, InUse
<1>3. PendingOK'
  BY DEF Agreement, PendingOK, InUse, Owned, Idle
<1> QED BY <1>1, <1>2, <1>3

LEMMA IdleFrame ==
  ASSUME Agreement, Idle, UNCHANGED <<freeBlockList, inode, pending>>
  PROVE  NoSharedBlocks' /\ InUseIsListed' /\ PendingOK'
<1>1. NoSharedBlocks'
  BY DEF Agreement, NoSharedBlocks, InUse
<1>2. InUseIsListed'
  BY DEF Agreement, InUseIsListed, InUse
<1>3. PendingOK'
  BY DEF Agreement, PendingOK, Idle
<1> QED BY <1>1, <1>2, <1>3

LEMMA AgreementInit == Init => Agreement
<1> SUFFICES ASSUME Init PROVE Agreement
  OBVIOUS
<1>1. \A s \in Slot : ~InUse(s)
  BY DEF Init, FormattedInodes, ZeroInode, InUse
<1>2. NoSharedBlocks /\ InUseIsListed
  BY <1>1 DEF NoSharedBlocks, InUseIsListed
<1>3. PendingOK
  BY DEF Init, Nothing, PendingOK, Idle
<1> QED BY <1>2, <1>3, PointersInit DEF Agreement

LEMMA AgreementCreate ==
  ASSUME Agreement, NEW name \in Names, NEW size \in AskedSizes, fs_create(name, size)
  PROVE  NoSharedBlocks' /\ InUseIsListed' /\ PendingOK'
<1>1. PICK s \in Slot, p \in LowestFree(size) :
        /\ FirstUnused(s)
        /\ freeBlockList' = [b \in ListIndex |->
             IF \E k \in 0..(size - 1) : p[k] = b THEN 1 ELSE freeBlockList[b]]
        /\ pending' = [op |-> "create", slot |-> s,
                       inode |-> NewInode(inode[s], name, size, p)]
  BY DEF fs_create
<1> DEFINE new == NewInode(inode[s], name, size, p)
<1>2. /\ BlocksOf(new) = {p[k] : k \in 0..(size - 1)}
      /\ \A k \in 0..(size - 1) : p[k] \in FreeBlocks
  BY NewInodeLemma DEF fs_create, Agreement, PointersOK
<1>3. FreeBlocks \subseteq ListIndex /\ \A b \in FreeBlocks : freeBlockList[b] = 0
  BY DEF FreeBlocks, Block, ListIndex
<1> HIDE DEF new
<1>4. UNCHANGED <<inode, opened>> /\ opened /\ Idle
  BY DEF fs_create
<1>5. \A b \in ListIndex : freeBlockList[b] = 1 => freeBlockList'[b] = 1
  BY <1>1
<1>6. \A t \in Slot : InUse(t) =>
        \A b \in BlocksOf(inode[t]) : freeBlockList[b] = 1 /\ b \in ListIndex
  <2>1. \A t \in Slot : BlocksOf(inode[t]) \subseteq Block
    BY FreedBlocksLemma DEF Agreement, PointersOK, TypeOK
  <2> QED BY <1>4, <2>1 DEF Agreement, InUseIsListed, Idle, Block, ListIndex
<1>7. \A b \in BlocksOf(new) : freeBlockList'[b] = 1 /\ ~Owned(b)
  <2> SUFFICES ASSUME NEW b \in BlocksOf(new)
               PROVE  freeBlockList'[b] = 1 /\ ~Owned(b)
    OBVIOUS
  <2>1. /\ b \in ListIndex
        /\ freeBlockList[b] = 0
        /\ \E k \in 0..(size - 1) : p[k] = b
    BY <1>2, <1>3
  <2> QED BY <1>1, <1>6, <2>1 DEF Owned
<1>8. NoSharedBlocks'
  BY <1>4 DEF Agreement, NoSharedBlocks, InUse
<1>9. InUseIsListed'
  BY <1>4, <1>5, <1>6 DEF InUseIsListed, InUse
<1>10. PendingOK'
  <2>1. /\ pending'.op = "create" /\ pending'.slot = s
        /\ pending'.inode = new /\ new.used = 1
    BY <1>1 DEF new, NewInode
  <2>2. ~InUse(s)
    BY <1>1 DEF FirstUnused
  <2> QED BY <1>4, <1>7, <2>1, <2>2 DEF PendingOK, InUse, Owned, Idle
<1> QED BY <1>8, <1>9, <1>10

LEMMA AgreementDelete ==
  ASSUME Agreement, NEW name \in Names, fs_delete(name)
  PROVE  NoSharedBlocks' /\ InUseIsListed' /\ PendingOK'
<1>1. PICK s \in Slot :
        /\ Found(name, s)
        /\ freeBlockList' = [b \in ListIndex |->
             IF b \in FreedBlocks(inode[s]) THEN 0 ELSE freeBlockList[b]]
        /\ pending' = [op |-> "delete", slot |-> s,
                       inode |-> [inode[s] EXCEPT !.used = 0]]
  BY DEF fs_delete
<1> DEFINE old == [inode[s] EXCEPT !.used = 0]
<1>2. InUse(s) /\ UNCHANGED <<inode, opened>> /\ opened /\ Idle
  BY <1>1 DEF Found, fs_delete
<1>3. \A t \in Slot : BlocksOf(inode[t]) \subseteq ListIndex
                     /\ FreedBlocks(inode[t]) = BlocksOf(inode[t])
  BY FreedBlocksLemma DEF Agreement, PointersOK, TypeOK, Block, ListIndex
<1>4. BlocksOf(old) = BlocksOf(inode[s])
  BY DEF BlocksOf, Agreement, PointersOK, TypeOK, Inode
<1> HIDE DEF old
<1>5. NoSharedBlocks'
  BY <1>2 DEF Agreement, NoSharedBlocks, InUse
<1>6. InUseIsListed'
  <2> SUFFICES ASSUME NEW t \in Slot, InUse(t), t # s, NEW b \in BlocksOf(inode[t])
               PROVE  freeBlockList'[b] = 1
    BY <1>1, <1>2 DEF InUseIsListed, InUse
  <2>1. b \notin BlocksOf(inode[s])
    BY <1>2 DEF Agreement, NoSharedBlocks
  <2>2. freeBlockList[b] = 1
    BY <1>2 DEF Agreement, InUseIsListed, Idle
  <2> QED BY <1>1, <1>3, <2>1, <2>2
<1>7. PendingOK'
  <2>1. pending'.op = "delete" /\ pending'.slot = s /\ pending'.inode = old
    BY <1>1 DEF old
  <2>2. \A b \in BlocksOf(old) : freeBlockList'[b] = 0
    BY <1>1, <1>3, <1>4
  <2> QED BY <1>2, <2>1, <2>2 DEF PendingOK, InUse, Idle, old
<1> QED BY <1>5, <1>6, <1>7

LEMMA AgreementWriteInode ==
  ASSUME Agreement, write_inode
  PROVE  NoSharedBlocks' /\ InUseIsListed' /\ PendingOK'
<1>0. PICK s \in Slot : s = pending.slot
  BY DEF Agreement, PointersOK, TypeOK, Pending
<1>1. /\ inode' = [inode EXCEPT ![s] = pending.inode]
      /\ freeBlockList' = freeBlockList
      /\ pending' = Nothing /\ pending'.op = "none"
  BY <1>0 DEF write_inode, Nothing
<1>2. pending.op \in {"create", "delete"}
  BY DEF write_inode, Idle, Agreement, PointersOK, TypeOK, Pending
<1>3. /\ inode'[s] = pending.inode
      /\ \A t \in Slot : t # s => inode'[t] = inode[t]
  BY <1>1 DEF Agreement, PointersOK, TypeOK
<1>4. PendingOK'
  BY <1>1 DEF PendingOK, Idle
<1>5. CASE pending.op = "create"
  <2>1. \A b \in BlocksOf(inode'[s]) : freeBlockList[b] = 1 /\ ~Owned(b)
    BY <1>0, <1>3, <1>5 DEF Agreement, PendingOK
  <2>2. NoSharedBlocks'
    <3> SUFFICES ASSUME NEW t \in Slot, NEW u \in Slot, t # u, InUse(t)', InUse(u)'
                 PROVE  BlocksOf(inode'[t]) \cap BlocksOf(inode'[u]) = {}
      BY DEF NoSharedBlocks
    <3>1. CASE t = s
      BY <1>3, <2>1, <3>1 DEF Owned, InUse
    <3>2. CASE u = s
      BY <1>3, <2>1, <3>2 DEF Owned, InUse
    <3>3. CASE t # s /\ u # s
      BY <1>3, <3>3 DEF Agreement, NoSharedBlocks, InUse
    <3> QED BY <3>1, <3>2, <3>3
  <2>3. InUseIsListed'
    BY <1>1, <1>3, <1>5, <2>1 DEF InUseIsListed, InUse, Agreement
  <2> QED BY <1>4, <2>2, <2>3
<1>6. CASE pending.op = "delete"
  <2>1. ~InUse(s)'
    BY <1>0, <1>3, <1>6 DEF Agreement, PendingOK, InUse, PointersOK, TypeOK, Inode
  <2>2. NoSharedBlocks'
    BY <1>3, <2>1 DEF Agreement, NoSharedBlocks, InUse
  <2>3. InUseIsListed'
    BY <1>0, <1>1, <1>3, <1>6, <2>1 DEF InUseIsListed, InUse, Agreement
  <2> QED BY <1>4, <2>2, <2>3
<1> QED BY <1>2, <1>5, <1>6

LEMMA AgreementStep == Agreement /\ [CreateCrashNext]_vars => Agreement'
<1> SUFFICES ASSUME Agreement, [CreateCrashNext]_vars PROVE Agreement'
  OBVIOUS
<1>1. PointersOK'
  BY PointersStep DEF Agreement, CreateCrashNext, CrashNext
<1>2. NoSharedBlocks' /\ InUseIsListed' /\ PendingOK'
  <2>1. CASE UNCHANGED <<freeBlockList, inode, opened, pending>>
    BY <2>1, AgreementFrame
  <2>2. CASE fs_open
    <3>1. UNCHANGED <<freeBlockList, inode, pending>> /\ Idle
      BY <2>2 DEF fs_open, disk
    <3> QED BY <3>1, IdleFrame
  <2>3. CASE write_inode
    BY <2>3, AgreementWriteInode
  <2>4. CASE end_of_input
    <3>1. UNCHANGED <<freeBlockList, inode, pending>> /\ Idle
      BY <2>4 DEF end_of_input, Restarted, disk
    <3> QED BY <3>1, IdleFrame
  <2>5. CASE create_fs
    <3>1. \A t \in Slot : ~InUse(t)'
      BY <2>5 DEF create_fs, FormattedInodes, ZeroInode, InUse
    <3>2. Idle /\ pending = Nothing /\ UNCHANGED <<opened, pending>>
      BY <2>5 DEF create_fs, Agreement, PendingOK
    <3> QED BY <3>1, <3>2 DEF NoSharedBlocks, InUseIsListed, PendingOK, Idle
  <2>6. ASSUME NEW name \in Names, fs_delete(name)
        PROVE  NoSharedBlocks' /\ InUseIsListed' /\ PendingOK'
    BY <2>6, AgreementDelete
  <2>7. ASSUME NEW name \in Names, NEW size \in AskedSizes, fs_create(name, size)
        PROVE  NoSharedBlocks' /\ InUseIsListed' /\ PendingOK'
    BY <2>7, AgreementCreate
  <2>8. ASSUME NEW name \in Names, NEW k \in BlockNums, Transfer(name, k)
        PROVE  UNCHANGED <<freeBlockList, inode, opened, pending>>
    BY <2>8 DEF Transfer, fs_read, fs_write, disk
  <2>9. CASE killed_in_create
    <3>1. /\ UNCHANGED <<freeBlockList, inode>> /\ pending.op = "create"
          /\ pending' = Nothing /\ pending'.op = "none"
      BY <2>9 DEF killed_in_create, Killed, disk, Nothing
    <3>2. NoSharedBlocks'
      BY <3>1 DEF Agreement, NoSharedBlocks, InUse
    <3>3. InUseIsListed'
      BY <3>1 DEF Agreement, InUseIsListed, InUse
    <3>4. PendingOK'
      BY <3>1 DEF PendingOK, Idle
    <3> QED BY <3>2, <3>3, <3>4
  <2> QED BY <2>1, <2>2, <2>3, <2>4, <2>5, <2>6, <2>7, <2>8, <2>9
          DEF CreateCrashNext, Next, Housekeeping, vars
<1> QED BY <1>1, <1>2 DEF Agreement

\* No two files ever share a data block, though fs_create may be cut in two.
THEOREM NoSharedBlocksCorrect == CreateCrashSpec => []NoSharedBlocks
<1>1. Agreement => NoSharedBlocks
  BY DEF Agreement
<1> QED BY <1>1, AgreementInit, AgreementStep, PTL DEF CreateCrashSpec, CreateCrashNext

\* The blocks of a file are marked in the list as long as no fs_delete of that
\* file is under way.
THEOREM InUseIsListedCorrect == CreateCrashSpec => []InUseIsListed
<1>1. Agreement => InUseIsListed
  BY DEF Agreement
<1> QED BY <1>1, AgreementInit, AgreementStep, PTL DEF CreateCrashSpec, CreateCrashNext

-----------------------------------------------------------------------------
(* Space: what is leaked stays leaked, and nothing is leaked without a crash.*)

LEMMA NothingHasNoBlocks == BlocksOf(Nothing.inode) = {}
BY DEF Nothing, ZeroInode, BlocksOf

\* No command changes the set of leaked blocks.
LEMMA LeakedStep ==
  ASSUME Agreement, [Next]_vars, ~create_fs, NEW b \in Block
  PROVE  Leaked(b)' <=> Leaked(b)
<1> USE DEF Agreement
<1>1. CASE UNCHANGED <<freeBlockList, inode, pending>>
  BY <1>1 DEF Leaked, Owned, InUse
<1>2. CASE write_inode
  <2>1. PICK s \in Slot : s = pending.slot
    BY DEF PointersOK, TypeOK, Pending
  <2>2. /\ freeBlockList' = freeBlockList
        /\ inode'[s] = pending.inode
        /\ \A t \in Slot : t # s => inode'[t] = inode[t]
        /\ BlocksOf(pending'.inode) = {}
    BY <1>2, <2>1, NothingHasNoBlocks DEF write_inode, PointersOK, TypeOK
  <2>3. CASE pending.op = "create"
    <3>1. ~InUse(s)
      BY <2>1, <2>3 DEF PendingOK
    <3>2. Leaked(b) => Leaked(b)'
      BY <2>2 DEF Leaked, Owned, InUse
    <3>3. ASSUME Leaked(b)' PROVE Leaked(b)
      <4>1. CASE b \in BlocksOf(pending.inode)
        <5>1. pending.inode.used = 1
          BY <2>3 DEF PendingOK
        <5> QED BY <2>2, <3>3, <4>1, <5>1 DEF Leaked, Owned, InUse
      <4>2. CASE b \notin BlocksOf(pending.inode)
        BY <2>2, <3>1, <3>3, <4>2 DEF Leaked, Owned, InUse
      <4> QED BY <4>1, <4>2
    <3> QED BY <3>2, <3>3
  <2>4. CASE pending.op = "delete"
    <3>1. /\ InUse(s) /\ inode[s].used = 1
          /\ pending.inode.used = 0
          /\ BlocksOf(pending.inode) = BlocksOf(inode[s])
          /\ \A c \in BlocksOf(pending.inode) : freeBlockList[c] = 0
      BY <2>1, <2>4 DEF PendingOK, PointersOK, TypeOK, Inode, InUse, BlocksOf
    <3> QED BY <2>2, <3>1 DEF Leaked, Owned, InUse
  <2> QED BY <1>2, <2>3, <2>4 DEF write_inode, Idle, PointersOK, TypeOK, Pending
<1>3. ASSUME NEW name \in Names, fs_delete(name)
      PROVE  Leaked(b)' <=> Leaked(b)
  <2>1. PICK s \in Slot :
          /\ Found(name, s)
          /\ freeBlockList' = [c \in ListIndex |->
               IF c \in FreedBlocks(inode[s]) THEN 0 ELSE freeBlockList[c]]
          /\ pending' = [op |-> "delete", slot |-> s,
                         inode |-> [inode[s] EXCEPT !.used = 0]]
    BY <1>3 DEF fs_delete
  <2>2. InUse(s) /\ inode' = inode
    BY <1>3, <2>1 DEF Found, fs_delete
  <2>3. BlocksOf(pending'.inode) = BlocksOf(inode[s])
    BY <2>1 DEF BlocksOf, PointersOK, TypeOK, Inode
  <2>4. FreedBlocks(inode[s]) = BlocksOf(inode[s]) /\ b \in ListIndex
    BY FreedBlocksLemma DEF PointersOK, TypeOK, Block, ListIndex
  <2>5. Idle /\ (InUse(s) => \A c \in BlocksOf(inode[s]) : freeBlockList[c] = 1)
    BY <1>3 DEF InUseIsListed, fs_delete, Idle
  <2>6. b \notin BlocksOf(pending.inode)
    BY <2>5, NothingHasNoBlocks DEF PendingOK
  <2> QED BY <2>1, <2>2, <2>3, <2>4, <2>6 DEF Leaked, Owned, InUse
<1>4. ASSUME NEW name \in Names, NEW size \in AskedSizes, fs_create(name, size)
      PROVE  Leaked(b)' <=> Leaked(b)
  <2>1. PICK s \in Slot, p \in LowestFree(size) :
          /\ freeBlockList' = [c \in ListIndex |->
               IF \E k \in 0..(size - 1) : p[k] = c THEN 1 ELSE freeBlockList[c]]
          /\ pending' = [op |-> "create", slot |-> s,
                         inode |-> NewInode(inode[s], name, size, p)]
    BY <1>4 DEF fs_create
  <2>2. /\ BlocksOf(pending'.inode) = {p[k] : k \in 0..(size - 1)}
        /\ \A k \in 0..(size - 1) : p[k] \in FreeBlocks
    BY <1>4, <2>1, NewInodeLemma, SMTT(40) DEF fs_create, PointersOK
  <2>3. inode' = inode /\ b \in ListIndex
    BY <1>4 DEF fs_create, Block, ListIndex
  <2>4. b \notin BlocksOf(pending.inode)
    BY <1>4, NothingHasNoBlocks DEF fs_create, PendingOK
  <2> QED BY <2>1, <2>2, <2>3, <2>4 DEF Leaked, Owned, InUse, FreeBlocks
<1>5. CASE fs_open \/ end_of_input
  BY <1>1, <1>5 DEF fs_open, end_of_input, disk
<1>6. ASSUME NEW name \in Names, NEW k \in BlockNums, Transfer(name, k)
      PROVE  UNCHANGED <<freeBlockList, inode, pending>>
  BY <1>6 DEF Transfer, fs_read, fs_write, disk
<1>7. UNCHANGED vars => UNCHANGED <<freeBlockList, inode, pending>>
  BY DEF vars
<1> QED BY <1>1, <1>2, <1>3, <1>4, <1>5, <1>6, <1>7 DEF Next, Housekeeping

\* A process killed inside fs_create can only add to it.
LEMMA LeakedWhenKilled ==
  ASSUME killed_in_create, NEW b \in Block, Leaked(b)
  PROVE  Leaked(b)'
<1>1. /\ UNCHANGED <<freeBlockList, inode>>
      /\ BlocksOf(pending'.inode) = {}
  BY NothingHasNoBlocks DEF killed_in_create, Killed, disk
<1> QED BY <1>1 DEF Leaked, Owned, InUse

\* Space is lost only to a killed fs_create, and stays lost until the disk is
\* formatted.
THEOREM LeakOnlyByKillCorrect == CreateCrashSpec => LeakOnlyByKill
<1>1. Agreement /\ [CreateCrashNext]_vars =>
        [create_fs \/ \A b \in Block : /\ Leaked(b) => Leaked(b)'
                                       /\ Leaked(b)' => Leaked(b) \/ killed_in_create]_vars
  <2> SUFFICES ASSUME Agreement, [CreateCrashNext]_vars, ~create_fs, NEW b \in Block
               PROVE  /\ Leaked(b) => Leaked(b)'
                      /\ Leaked(b)' => Leaked(b) \/ killed_in_create
    OBVIOUS
  <2>1. CASE [Next]_vars
    BY <2>1, LeakedStep
  <2>2. CASE killed_in_create
    BY <2>2, LeakedWhenKilled
  <2> QED BY <2>1, <2>2 DEF CreateCrashNext
<1> QED BY <1>1, AgreementInit, AgreementStep, PTL
        DEF CreateCrashSpec, CreateCrashNext, LeakOnlyByKill

\* Without a crash no space is lost: every block marked in the list belongs to
\* a file or is about to.
THEOREM NoLeakCorrect == Spec => []NoLeak
<1> DEFINE Tight == Agreement /\ NoLeak
<1>1. Init => Tight
  BY AgreementInit
  DEF Init, FormattedList, NoLeak, Leaked, Block, ListIndex
<1>2. Tight /\ [Next]_vars => Tight'
  <2> SUFFICES ASSUME Tight, [Next]_vars PROVE Tight'
    OBVIOUS
  <2>1. Agreement'
    BY AgreementStep DEF CreateCrashNext
  <2>2. CASE create_fs
    BY <2>1, <2>2 DEF create_fs, FormattedList, NoLeak, Leaked, Block, ListIndex
  <2>3. CASE ~create_fs
    BY <2>1, <2>3, LeakedStep DEF NoLeak
  <2> QED BY <2>2, <2>3
<1>3. Tight => NoLeak
  OBVIOUS
<1> QED BY <1>1, <1>2, <1>3, PTL DEF Spec

-----------------------------------------------------------------------------
(* The refinement: NamedSpec implements FileStore.                           *)

\* A file in use, or about to be, bears a name a user gave.
NamesOK ==
  /\ \A s \in Slot : InUse(s) => inode[s].name \in Names
  /\ pending.op = "create" => pending.inode.name \in Names

Named == Agreement /\ NamesOK

LEMMA NamedIsCreateCrash == NamedNext => CreateCrashNext
BY DEF NamedNext, CreateCrashNext, Next

LEMMA NamedInit == Init => Named
<1> SUFFICES ASSUME Init PROVE NamesOK
  BY AgreementInit DEF Named
<1> QED BY DEF Init, FormattedInodes, ZeroInode, InUse, Nothing, NamesOK

LEMMA NamedStep == Named /\ [NamedNext]_vars => Named'
<1> SUFFICES ASSUME Named, [NamedNext]_vars PROVE NamesOK'
  BY AgreementStep, NamedIsCreateCrash DEF Named
<1> USE DEF Named, NamesOK
<1>1. CASE UNCHANGED <<inode, pending>>
  BY <1>1 DEF InUse
<1>2. CASE write_inode
  <2>1. PICK s \in Slot : s = pending.slot
    BY DEF Agreement, PointersOK, TypeOK, Pending
  <2>2. /\ inode'[s] = pending.inode
        /\ \A t \in Slot : t # s => inode'[t] = inode[t]
        /\ pending'.op = "none"
    BY <1>2, <2>1 DEF write_inode, Nothing, Agreement, PointersOK, TypeOK
  <2>3. pending.inode.used = 1 => pending.op = "create"
    BY <1>2, <2>1 DEF write_inode, Idle, Agreement, PendingOK, PointersOK, TypeOK, Pending, Inode
  <2> QED BY <2>2, <2>3 DEF InUse
<1>3. CASE create_fs
  BY <1>3 DEF create_fs, FormattedInodes, ZeroInode, InUse
<1>4. ASSUME NEW name \in Names, fs_delete(name) PROVE NamesOK'
  BY <1>4 DEF fs_delete, InUse
<1>5. ASSUME NEW name \in Names, NEW size \in AskedSizes, fs_create(name, size)
      PROVE  NamesOK'
  BY <1>5 DEF fs_create, InUse, NewInode
<1>6. CASE killed_in_create
  BY <1>6 DEF killed_in_create, Killed, disk, Nothing, InUse
<1>7. ASSUME NEW name \in Names, NEW k \in BlockNums, Transfer(name, k)
      PROVE  UNCHANGED <<inode, pending>>
  BY <1>7 DEF Transfer, fs_read, fs_write, disk
<1>8. CASE fs_open \/ end_of_input
  BY <1>1, <1>8 DEF fs_open, end_of_input, disk
<1>9. UNCHANGED vars => UNCHANGED <<inode, pending>>
  BY DEF vars
<1> QED BY <1>1, <1>2, <1>3, <1>4, <1>5, <1>6, <1>7, <1>8, <1>9 DEF NamedNext, Housekeeping
\* The file an inode describes, and its place in the mapping.
Described(ino) ==
  [name |-> ino.name,
   body |-> [k \in 0..(ino.size - 1) |-> data[ino.blockPointers[k]]]]

LEMMA AbsFileLemma ==
  AbsFile = [s \in Slot |-> IF InUse(s) THEN Described(inode[s]) ELSE Store!Absent]
BY DEF AbsFile, Described, Store!Absent

LEMMA AbsFileFrame ==
  ASSUME UNCHANGED <<inode, data>>
  PROVE  AbsFile' = AbsFile
BY DEF AbsFile, InUse

\* A file that is there is a file of the store, and not the absence of one.
LEMMA DescribedLemma ==
  ASSUME PointersOK, NEW ino \in Inode, Ascending(ino), ino.name \in Names
  PROVE  /\ Described(ino).body \in Store!Bodies
         /\ Described(ino).name = ino.name
         /\ Described(ino) # Store!Absent
         /\ DOMAIN Described(ino).body = 0..(ino.size - 1)
<1>1. ino.size \in 0..MaxFileSize
  BY DEF Inode, Sizes
<1>2. \A k \in 0..(ino.size - 1) : data[ino.blockPointers[k]] \in Data
  BY DEF Ascending, PointersOK, TypeOK
<1>3. Described(ino).body \in [0..(ino.size - 1) -> Data]
  BY <1>2 DEF Described
<1>4. Described(ino).body \in Store!Bodies
  BY <1>1, <1>3 DEF Store!Bodies
<1>5. Described(ino).name = ino.name /\ Described(ino) # Store!Absent
  BY DEF Described, Store!Absent
<1> QED BY <1>3, <1>4, <1>5

LEMMA RefinesInit == Init => Store!Init
<1> SUFFICES ASSUME Init PROVE Store!Init
  OBVIOUS
<1>1. \A s \in Slot : ~InUse(s)
  BY DEF Init, FormattedInodes, ZeroInode, InUse
<1>2. AbsFile = [h \in Slot |-> Store!Absent]
  BY <1>1, AbsFileLemma
<1> QED BY <1>2 DEF Init, Store!Init

LEMMA RefinesWriteInode ==
  ASSUME Named, write_inode
  PROVE  \E name \in Names : Store!Create(name) \/ Store!Delete(name)
<1> USE DEF Named
<1>0. PICK s \in Slot : s = pending.slot
  BY DEF Agreement, PointersOK, TypeOK, Pending
<1>1. /\ inode'[s] = pending.inode
      /\ \A t \in Slot : t # s => inode'[t] = inode[t]
      /\ UNCHANGED <<data, buffer>>
  BY <1>0 DEF write_inode, Agreement, PointersOK, TypeOK
<1>2. pending.op \in {"create", "delete"}
  BY DEF write_inode, Idle, Agreement, PointersOK, TypeOK, Pending
<1> DEFINE File(t) == IF InUse(t) THEN Described(inode[t]) ELSE Store!Absent
           after  == IF pending.inode.used = 1 THEN Described(pending.inode)
                                              ELSE Store!Absent
<1>3. AbsFile = [t \in Slot |-> File(t)]
  BY AbsFileLemma
<1>4. AbsFile' = [t \in Slot |-> IF t = s THEN after ELSE File(t)]
  BY <1>1 DEF AbsFile, Described, InUse, Store!Absent
<1>5. AbsFile' = [AbsFile EXCEPT ![s] = after]
  BY <1>3, <1>4
<1>6. CASE pending.op = "create"
  <2>1. /\ ~InUse(s) /\ pending.inode.used = 1
        /\ pending.inode \in Inode /\ Ascending(pending.inode)
        /\ pending.inode.name \in Names
    BY <1>0, <1>6 DEF Agreement, PendingOK, PointersOK, TypeOK, Pending, NamesOK
  <2> DEFINE body == Described(pending.inode).body
             name == pending.inode.name
  <2>2. body \in Store!Bodies /\ after = [name |-> name, body |-> body]
    BY <2>1, DescribedLemma DEF Agreement, Described
  <2>3. AbsFile[s] = Store!Absent
    BY <1>3, <2>1
  <2> HIDE DEF after, body
  <2>4. AbsFile' = [AbsFile EXCEPT ![s] = [name |-> name, body |-> body]]
    BY <1>5, <2>2
  <2>5. Store!Create(name)
    BY <1>1, <2>2, <2>3, <2>4 DEF Store!Create
  <2> QED BY <2>1, <2>5
<1>7. CASE pending.op = "delete"
  <2>1. InUse(s) /\ pending.inode.used = 0
    BY <1>0, <1>7 DEF Agreement, PendingOK, PointersOK, TypeOK, Inode
  <2>2. inode[s] \in Inode /\ Ascending(inode[s]) /\ inode[s].name \in Names
    BY <2>1 DEF Agreement, PointersOK, TypeOK, NamesOK
  <2>3. AbsFile[s] # Store!Absent /\ AbsFile[s].name = inode[s].name
    BY <1>3, <2>1, <2>2, DescribedLemma DEF Agreement
  <2>4. AbsFile' = [AbsFile EXCEPT ![s] = Store!Absent]
    BY <1>5, <2>1
  <2>5. Store!Delete(inode[s].name)
    BY <1>1, <2>3, <2>4 DEF Store!Delete
  <2> QED BY <2>2, <2>5
<1> QED BY <1>2, <1>6, <1>7

\* What fs_read and fs_write have in common when the lookup finds the name.
LEMMA FoundLemma ==
  ASSUME Named, NEW name \in Names, NEW k \in BlockNums, NEW s \in Slot,
         \E t \in Slot : Found(name, t), LookedUp(name, s), k <= inode[s].size - 1
  PROVE  /\ InUse(s) /\ inode[s].name = name
         /\ k \in 0..(inode[s].size - 1) /\ k \in 0..(MaxFileSize - 1)
         /\ AbsFile[s] = Described(inode[s])
         /\ AbsFile[s] # Store!Absent /\ AbsFile[s].name = name
         /\ DOMAIN AbsFile[s].body = 0..(inode[s].size - 1)
<1> USE DEF Named
<1>1. InUse(s) /\ inode[s].name = name
  BY DEF LookedUp, Found
<1>2. inode[s] \in Inode /\ Ascending(inode[s])
  BY DEF Agreement, PointersOK, TypeOK
<1>3. k \in 0..(inode[s].size - 1) /\ k \in 0..(MaxFileSize - 1)
  BY <1>2 DEF Inode, Sizes, BlockNums
<1>4. AbsFile[s] = Described(inode[s])
  BY <1>1, AbsFileLemma
<1> QED BY <1>1, <1>2, <1>3, <1>4, DescribedLemma DEF Agreement

LEMMA RefinesRead ==
  ASSUME Named, NEW name \in Names, NEW k \in BlockNums,
         \E t \in Slot : Found(name, t), fs_read(name, k)
  PROVE  k \in 0..(MaxFileSize - 1) /\ Store!Read(name, k)
<1>1. PICK s \in Slot : /\ LookedUp(name, s)
                        /\ k <= inode[s].size - 1
                        /\ buffer' = data[inode[s].blockPointers[k]]
  BY DEF fs_read
<1>2. /\ k \in 0..(inode[s].size - 1) /\ k \in 0..(MaxFileSize - 1)
      /\ AbsFile[s] = Described(inode[s])
      /\ AbsFile[s] # Store!Absent /\ AbsFile[s].name = name
      /\ DOMAIN AbsFile[s].body = 0..(inode[s].size - 1)
  BY <1>1, FoundLemma
<1>3. AbsFile[s].body[k] = data[inode[s].blockPointers[k]]
  BY <1>2 DEF Described
<1>4. AbsFile' = AbsFile
  BY AbsFileFrame DEF fs_read, disk
<1> QED BY <1>1, <1>2, <1>3, <1>4 DEF Store!Read

LEMMA RefinesWrite ==
  ASSUME Named, NEW name \in Names, NEW k \in BlockNums,
         \E t \in Slot : Found(name, t), fs_write(name, k)
  PROVE  k \in 0..(MaxFileSize - 1) /\ Store!Write(name, k)
<1> USE DEF Named
<1>1. PICK s \in Slot :
        /\ LookedUp(name, s)
        /\ k <= inode[s].size - 1
        /\ data' = [data EXCEPT ![inode[s].blockPointers[k]] = buffer]
  BY DEF fs_write
<1>2. /\ InUse(s)
      /\ k \in 0..(inode[s].size - 1) /\ k \in 0..(MaxFileSize - 1)
      /\ AbsFile[s] = Described(inode[s])
      /\ AbsFile[s] # Store!Absent /\ AbsFile[s].name = name
      /\ DOMAIN AbsFile[s].body = 0..(inode[s].size - 1)
  BY <1>1, FoundLemma
<1>3. inode' = inode /\ buffer' = buffer
  BY DEF fs_write
<1> DEFINE b == inode[s].blockPointers[k]
<1>4. /\ b \in Block /\ b \in BlocksOf(inode[s])
      /\ \A c \in Block : data'[c] = IF c = b THEN buffer ELSE data[c]
  BY <1>1, <1>2 DEF Agreement, PointersOK, TypeOK, Ascending, BlocksOf
\* The pointers of one inode are distinct, so one entry of the body changes.
<1>5. \A j \in 0..(inode[s].size - 1) : j # k => inode[s].blockPointers[j] # b
  <2> SUFFICES ASSUME NEW j \in 0..(inode[s].size - 1), j # k
               PROVE  inode[s].blockPointers[j] # b
    OBVIOUS
  <2>1. /\ Ascending(inode[s]) /\ inode[s].size \in Nat
        /\ inode[s].blockPointers[j] \in Nat /\ b \in Nat
    BY <1>2 DEF Agreement, PointersOK, TypeOK, Inode, Sizes, Ascending, Block
  <2>2. CASE j < k
    <3>1. j \in 0..(k - 1)
      BY <1>2, <2>1, <2>2
    <3> QED BY <1>2, <2>1, <3>1 DEF Ascending
  <2>3. CASE k < j
    <3>1. k \in 0..(j - 1)
      BY <1>2, <2>1, <2>3
    <3> QED BY <2>1, <3>1 DEF Ascending
  <2> QED BY <1>2, <2>1, <2>2, <2>3
<1> HIDE DEF b
<1>6. \A t \in Slot : \A j \in 0..(inode[t].size - 1) : inode[t].blockPointers[j] \in Block
  BY DEF Agreement, PointersOK, Ascending
\* The blocks of other files are others.
<1>7. \A t \in Slot : InUse(t) /\ t # s => Described(inode[t])' = Described(inode[t])
  <2> SUFFICES ASSUME NEW t \in Slot, InUse(t), t # s
               PROVE  Described(inode[t])' = Described(inode[t])
    OBVIOUS
  <2>1. b \notin BlocksOf(inode[t])
    BY <1>2, <1>4 DEF Agreement, NoSharedBlocks
  <2>2. \A j \in 0..(inode[t].size - 1) :
          data'[inode[t].blockPointers[j]] = data[inode[t].blockPointers[j]]
    BY <1>4, <1>6, <2>1 DEF BlocksOf
  <2> QED BY <1>3, <2>2 DEF Described
<1> DEFINE body == Described(inode[s]).body
<1>8. Described(inode[s])' = [Described(inode[s]) EXCEPT !.body[k] = buffer]
  <2>1. [j \in 0..(inode[s].size - 1) |-> data'[inode[s].blockPointers[j]]]
          = [body EXCEPT ![k] = buffer]
    <3>1. DOMAIN body = 0..(inode[s].size - 1)
      BY DEF Described
    <3>2. \A j \in 0..(inode[s].size - 1) :
            data'[inode[s].blockPointers[j]] = IF j = k THEN buffer ELSE body[j]
      BY <1>2, <1>4, <1>5, <1>6 DEF Described, b
    <3>3. body = [j \in 0..(inode[s].size - 1) |-> body[j]]
      BY DEF Described
    <3> HIDE DEF body
    <3> QED BY <1>2, <3>2, <3>3
  <2>2. Described(inode[s])' = [name |-> inode[s].name, body |-> [body EXCEPT ![k] = buffer]]
    <3> HIDE DEF body
    <3> QED BY <1>3, <2>1 DEF Described
  <2>3. Described(inode[s]) = [name |-> inode[s].name, body |-> body]
    BY DEF Described
  <2> HIDE DEF body
  <2> QED BY <2>2, <2>3
<1>9. AbsFile' = [t \in Slot |-> IF InUse(t) THEN Described(inode[t])' ELSE Store!Absent]
  <2>1. AbsFile' = [t \in Slot |-> IF InUse(t)' THEN Described(inode[t])' ELSE Store!Absent]
    BY DEF AbsFile, Described, Store!Absent
  <2>2. \A t \in Slot : InUse(t)' = InUse(t)
    BY <1>3 DEF InUse
  <2> QED BY <2>1, <2>2, Zenon
<1>10. AbsFile' = [AbsFile EXCEPT ![s].body[k] = buffer]
  <2>1. AbsFile' = [t \in Slot |-> IF t = s THEN [Described(inode[s]) EXCEPT !.body[k] = buffer]
                                            ELSE AbsFile[t]]
    BY <1>2, <1>7, <1>8, <1>9, AbsFileLemma
  <2>2. AbsFile = [t \in Slot |-> AbsFile[t]]
    BY AbsFileLemma
  <2> DEFINE g == [t \in Slot |-> AbsFile[t]]
  <2>3. [g EXCEPT ![s].body[k] = buffer] =
          [t \in Slot |-> IF t = s THEN [g[s] EXCEPT !.body[k] = buffer] ELSE g[t]]
    OBVIOUS
  <2> QED BY <1>2, <2>1, <2>2, <2>3
<1> QED BY <1>2, <1>3, <1>10 DEF Store!Write

LEMMA RefinesStep == Named /\ [NamedNext]_vars => [Store!Next]_(Store!vars)
<1> SUFFICES ASSUME Named, [NamedNext]_vars PROVE [Store!Next]_(Store!vars)
  OBVIOUS
<1> USE DEF Store!Next, Store!vars
<1>1. CASE UNCHANGED <<inode, data, buffer>>
  BY <1>1, AbsFileFrame
<1>2. CASE write_inode
  BY <1>2, RefinesWriteInode
<1>3. CASE end_of_input \/ killed_in_create
  <2>1. AbsFile' = AbsFile /\ buffer' \in Data
    BY <1>3, AbsFileFrame DEF end_of_input, killed_in_create, Killed, Restarted, disk
  <2> QED BY <2>1 DEF Store!Restart
<1>4. CASE create_fs
  <2>1. \A s \in Slot : ~InUse(s)'
    BY <1>4 DEF create_fs, FormattedInodes, ZeroInode, InUse
  <2>2. AbsFile' = [h \in Slot |-> Store!Absent] /\ buffer' = buffer
    BY <1>4, <2>1 DEF create_fs, AbsFile, Store!Absent
  <2> QED BY <2>2 DEF Store!Format
<1>5. ASSUME NEW name \in Names, NEW k \in BlockNums,
             \E t \in Slot : Found(name, t), Transfer(name, k)
      PROVE  Store!Next
  BY <1>5, RefinesRead, RefinesWrite DEF Transfer
<1>6. ASSUME NEW name \in Names, NEW size \in AskedSizes, fs_create(name, size)
      PROVE  UNCHANGED <<inode, data, buffer>>
  BY <1>6 DEF fs_create
<1>7. fs_open \/ UNCHANGED vars => UNCHANGED <<inode, data, buffer>>
  BY DEF fs_open, disk, vars
<1>8. \A name \in Names : fs_delete(name) => UNCHANGED <<inode, data, buffer>>
  BY DEF fs_delete
<1> QED BY <1>1, <1>2, <1>3, <1>4, <1>5, <1>6, <1>7, <1>8 DEF NamedNext, Housekeeping

\* As long as reads and writes name files the lookup finds, the file system is
\* a store of separate files, also when fs_create is killed half way.
THEOREM ImplementsFileStoreCorrect == NamedSpec => ImplementsFileStore
BY NamedInit, NamedStep, RefinesInit, RefinesStep, PTL
DEF NamedSpec, ImplementsFileStore, Store!Spec
=============================================================================
