----------------------------- MODULE FileSystem -----------------------------
(* The dummy file system of filesystems/fs/fs.c on the disk that             *)
(* create_fs.c formats.  Block 0 of the disk holds the free block list and   *)
(* the inodes; blocks 1.. hold data.  A command of fs_repl is one action,    *)
(* except that fs_create and fs_delete end with two write() calls, first the *)
(* free list and then one inode: the first part of the command leaves the    *)
(* second write in `pending', and write_inode carries it out, so that the    *)
(* process can be killed between the two.                                    *)
(*                                                                           *)
(* A command that prints a message and returns changes nothing, and is a     *)
(* stuttering step; fs_ls is one too.                                        *)
(*                                                                           *)
(* Some operators stand before the definition they alter and are not used:    *)
(* FindsDeleted, CountsPastEnd, AnyFree, FreesStale, FreesPastEnd and        *)
(* KeepsLast are mistakes the properties are tried against.                  *)
EXTENDS Integers, FiniteSets

CONSTANTS NumBlocks,   \* FS_NUM_BLOCKS, the length of the free block list
          MaxFileSize, \* FS_MAX_FILE_SIZE, the block pointers of an inode
          NumInodes,   \* FS_MAX_FILES, the length of the inode table
          Names,       \* file names
          NoName,      \* the zeroed name of an inode that was never used
          Data,        \* contents of one block
          Zero         \* contents of a block of a freshly formatted disk

ASSUME NumBlocksAssumption == NumBlocks \in Nat /\ NumBlocks > 1
ASSUME MaxFileSizeAssumption == MaxFileSize \in Nat /\ MaxFileSize > 0
ASSUME NumInodesAssumption == NumInodes \in Nat /\ NumInodes > 1
ASSUME NamesAssumption == NoName \notin Names
ASSUME DataAssumption == Zero \in Data

ListIndex == 0..(NumBlocks - 1)
Block     == 1..(NumBlocks - 1)
Slot      == 0..(NumInodes - 1)
PtrIndex  == 0..(MaxFileSize - 1)

\* The sizes an inode can record, and the sizes and block numbers a command can
\* ask for: one too large of each, and none below zero, for which the code
\* indexes outside its arrays.
Sizes      == 0..MaxFileSize
AskedSizes == 0..(MaxFileSize + 1)
BlockNums  == 0..MaxFileSize

Inode == [name : Names \cup {NoName}, size : Sizes,
          blockPointers : [PtrIndex -> ListIndex], used : {0, 1}]

VARIABLES freeBlockList, \* first NumBlocks bytes of block 0: 1 when in use
          inode,         \* the inode table, after the list in block 0
          data,          \* contents of blocks 1..NumBlocks-1
          opened,        \* fs.fd is the disk, in the running process
          buffer,        \* the one buffer of fs_repl
          pending        \* the inode write that follows the list write

disk == <<freeBlockList, inode, data>>
vars == <<freeBlockList, inode, data, opened, buffer, pending>>

ZeroInode == [name |-> NoName, size |-> 0,
              blockPointers |-> [k \in PtrIndex |-> 0], used |-> 0]

Nothing == [op |-> "none", slot |-> 0, inode |-> ZeroInode]

Pending == [op : {"none", "create", "delete"}, slot : Slot, inode : Inode]

Idle == pending.op = "none"

-----------------------------------------------------------------------------
\* What the operations look up on the disk.

InUse(s) == inode[s].used = 1

FreeBlocks == {b \in Block : freeBlockList[b] = 0}

\* The blocks an inode points at.
BlocksOf(ino) == {ino.blockPointers[k] : k \in 0..(ino.size - 1)}

\* The slots that the loops of fs_delete, fs_read and fs_write compare with a
\* name: each ends before it looks at the last one.
Searched == 0..(NumInodes - 2)

FindsDeleted(name, s) ==
  /\ s \in Searched /\ inode[s].name = name
  /\ \A t \in Slot : t < s => inode[t].name # name

Found(name, s) ==
  /\ s \in Searched /\ InUse(s) /\ inode[s].name = name
  /\ \A t \in Slot : t < s => ~(InUse(t) /\ inode[t].name = name)

\* The inode that fs_read and fs_write go on with: when no name matches, it is
\* the last one the loop read.
LookedUp(name, s) ==
  \/ Found(name, s)
  \/ s = NumInodes - 2 /\ \A t \in Slot : ~Found(name, t)

FirstUnused(s) ==
  /\ s \in Slot /\ ~InUse(s)
  /\ \A t \in Slot : t < s => InUse(t)

\* The scan of fs_create meets the name before it meets an unused inode.
NameTaken(name) ==
  \E s \in Slot : /\ InUse(s) /\ inode[s].name = name
                  /\ \A t \in Slot : t < s => InUse(t)

FileTooBig(size) == size > MaxFileSize

NotEnoughSpace(size) == Cardinality(FreeBlocks) <= size

AnyFree(size) ==
  {p \in [0..(size - 1) -> FreeBlocks] :
     \A j, k \in 0..(size - 1) : j < k => p[j] # p[k]}

\* The `size' lowest free blocks in ascending order, as pointers.
LowestFree(size) ==
  {p \in [0..(size - 1) -> FreeBlocks] :
     /\ \A j, k \in 0..(size - 1) : j < k => p[j] < p[k]
     /\ \A k \in 0..(size - 1), b \in FreeBlocks :
          b < p[k] => \E j \in 0..(size - 1) : j < k /\ p[j] = b}

CountsPastEnd(old, name, size, p) ==
  [name |-> name, size |-> size + 1, used |-> 1,
   blockPointers |-> [k \in PtrIndex |-> IF k < size THEN p[k]
                                                     ELSE old.blockPointers[k]]]

\* The pointers beyond the size keep what an earlier file left there.
NewInode(old, name, size, p) ==
  [name |-> name, size |-> size, used |-> 1,
   blockPointers |-> [k \in PtrIndex |-> IF k < size THEN p[k]
                                                     ELSE old.blockPointers[k]]]

FreesStale(ino) == {ino.blockPointers[k] : k \in PtrIndex}
FreesPastEnd(ino) == {ino.blockPointers[k] : k \in {m \in PtrIndex : m <= ino.size}}
KeepsLast(ino) == {ino.blockPointers[k] : k \in 0..(ino.size - 2)}

\* What fs_delete frees: it goes up the list once, so it stops at the first
\* pointer that is not above the one before.
FreedBlocks(ino) ==
  {ino.blockPointers[k] : k \in
     {m \in 0..(ino.size - 1) : \A j \in 0..(m - 1) :
        ino.blockPointers[j] < ino.blockPointers[j + 1]}}

-----------------------------------------------------------------------------
\* Block 0 is marked as in use; everything else on the disk is zero.
FormattedList   == [b \in ListIndex |-> IF b = 0 THEN 1 ELSE 0]
FormattedInodes == [s \in Slot |-> ZeroInode]
FormattedData   == [b \in Block |-> Zero]

Init ==
  /\ freeBlockList = FormattedList
  /\ inode = FormattedInodes
  /\ data = FormattedData
  /\ opened = FALSE
  /\ buffer \in Data
  /\ pending = Nothing

-----------------------------------------------------------------------------
\* The command "disk0".
fs_open ==
  /\ Idle
  /\ opened' = TRUE
  /\ UNCHANGED <<disk, buffer, pending>>

fs_create(name, size) ==
  /\ opened /\ Idle
  /\ ~FileTooBig(size)
  /\ ~NotEnoughSpace(size)
  /\ ~NameTaken(name)
  /\ \E s \in Slot, p \in LowestFree(size) :
       /\ FirstUnused(s)
       /\ freeBlockList' = [b \in ListIndex |->
            IF \E k \in 0..(size - 1) : p[k] = b THEN 1 ELSE freeBlockList[b]]
       /\ pending' = [op |-> "create", slot |-> s,
                      inode |-> NewInode(inode[s], name, size, p)]
  /\ UNCHANGED <<inode, data, opened, buffer>>

fs_delete(name) ==
  /\ opened /\ Idle
  /\ \E s \in Slot :
       /\ Found(name, s)
       /\ freeBlockList' = [b \in ListIndex |->
            IF b \in FreedBlocks(inode[s]) THEN 0 ELSE freeBlockList[b]]
       /\ pending' = [op |-> "delete", slot |-> s,
                      inode |-> [inode[s] EXCEPT !.used = 0]]
  /\ UNCHANGED <<inode, data, opened, buffer>>

\* The last write of fs_create and of fs_delete.
write_inode ==
  /\ ~Idle
  /\ inode' = [inode EXCEPT ![pending.slot] = pending.inode]
  /\ pending' = Nothing
  /\ UNCHANGED <<freeBlockList, data, opened, buffer>>

fs_read(name, blockNum) ==
  /\ opened /\ Idle
  /\ \E s \in Slot :
       /\ LookedUp(name, s)
       /\ blockNum <= inode[s].size - 1
       /\ buffer' = data[inode[s].blockPointers[blockNum]]
  /\ UNCHANGED <<disk, opened, pending>>

fs_write(name, blockNum) ==
  /\ opened /\ Idle
  /\ \E s \in Slot :
       /\ LookedUp(name, s)
       /\ blockNum <= inode[s].size - 1
       /\ data' = [data EXCEPT ![inode[s].blockPointers[blockNum]] = buffer]
  /\ UNCHANGED <<freeBlockList, inode, opened, buffer, pending>>

\* End of input: the process ends, and the next one starts with a buffer that
\* nothing has initialised.
Restarted ==
  /\ opened' = FALSE
  /\ buffer' \in Data

end_of_input ==
  /\ opened /\ Idle
  /\ Restarted
  /\ UNCHANGED <<disk, pending>>

\* The separate program that formats the disk, run when no runner has it open.
create_fs ==
  /\ ~opened
  /\ freeBlockList' = FormattedList
  /\ inode' = FormattedInodes
  /\ data' = FormattedData
  /\ UNCHANGED <<opened, buffer, pending>>

\* The process is killed after the free list is written, before the inode is.
Killed ==
  /\ Restarted
  /\ pending' = Nothing
  /\ UNCHANGED disk

killed_in_create == pending.op = "create" /\ Killed

killed_in_delete == pending.op = "delete" /\ Killed

-----------------------------------------------------------------------------
Transfer(name, blockNum) == fs_read(name, blockNum) \/ fs_write(name, blockNum)

Housekeeping == fs_open \/ write_inode \/ end_of_input \/ create_fs

Next ==
  \/ Housekeeping
  \/ \E name \in Names : fs_delete(name) \/ \E size \in AskedSizes : fs_create(name, size)
  \/ \E name \in Names, blockNum \in BlockNums : Transfer(name, blockNum)

\* No crash.
Spec == Init /\ [][Next]_vars

\* The process may be killed between the two writes of fs_create.
CreateCrashSpec == Init /\ [][Next \/ killed_in_create]_vars

\* ... and between those of fs_delete.
CrashSpec == Init /\ [][Next \/ killed_in_create \/ killed_in_delete]_vars

\* The user reads and writes only files that the lookup finds.
NamedNext ==
  \/ Housekeeping
  \/ killed_in_create
  \/ \E name \in Names : fs_delete(name) \/ \E size \in AskedSizes : fs_create(name, size)
  \/ \E name \in Names, blockNum \in BlockNums :
       /\ \E s \in Slot : Found(name, s)
       /\ Transfer(name, blockNum)

NamedSpec == Init /\ [][NamedNext]_vars

-----------------------------------------------------------------------------
\* The variables have the types fs.c gives them.
TypeOK ==
  /\ freeBlockList \in [ListIndex -> {0, 1}]
  /\ inode \in [Slot -> Inode]
  /\ data \in [Block -> Data]
  /\ opened \in BOOLEAN
  /\ buffer \in Data
  /\ pending \in Pending

\* No data block belongs to two files.  fs_create gives out a block when the
\* list says 0, so this rests on the list and the inodes agreeing after every
\* command and after a process killed inside fs_create.
NoSharedBlocks ==
  \A s, t \in Slot :
    s # t /\ InUse(s) /\ InUse(t) => BlocksOf(inode[s]) \cap BlocksOf(inode[t]) = {}

\* A block of a file is marked in the list, except while fs_delete is between
\* its two writes: nothing fs_create reads can hand that block out again.
InUseIsListed ==
  \A s \in Slot :
    InUse(s) /\ ~(pending.op = "delete" /\ pending.slot = s) =>
      \A b \in BlocksOf(inode[s]) : freeBlockList[b] = 1

Owned(b) == \E s \in Slot : InUse(s) /\ b \in BlocksOf(inode[s])

Leaked(b) == /\ freeBlockList[b] = 1
             /\ ~Owned(b)
             /\ b \notin BlocksOf(pending.inode)

\* Without a crash, space is never lost: every marked block belongs to a file,
\* or is about to.
NoLeak == \A b \in Block : ~Leaked(b)

\* Space is lost only when a process is killed inside fs_create, and then for
\* good: no later command gives the block out or frees it, only formatting does.
LeakOnlyByKill ==
  [][\/ create_fs
     \/ \A b \in Block : /\ Leaked(b) => Leaked(b)'
                         /\ Leaked(b)' => Leaked(b) \/ killed_in_create]_vars

\* The one upward pass of fs_delete over the list frees every block of the
\* inode, whatever the history of creations, deletions and crashes, and no
\* pointer of any inode, in use or left over, names block 0: the reads and
\* writes of data never touch the list or the inodes.
DeleteFreesAll ==
  \A s \in Slot : /\ FreedBlocks(inode[s]) = BlocksOf(inode[s])
                  /\ BlocksOf(inode[s]) \subseteq Block

-----------------------------------------------------------------------------
\* The files on the disk, as the user sees them.
AbsFile ==
  [s \in Slot |->
     IF InUse(s)
     THEN [name |-> inode[s].name,
           body |-> [k \in 0..(inode[s].size - 1) |-> data[inode[s].blockPointers[k]]]]
     ELSE [name |-> NoName, body |-> <<>>]]

Store == INSTANCE FileStore WITH Handles <- Slot, MaxLength <- MaxFileSize,
                                 file <- AbsFile

\* The file system is a store of separate files: creating, deleting and
\* writing one file leaves every other file's contents alone, and a read gives
\* what the last write of that block put there.
ImplementsFileStore == Store!Spec

-----------------------------------------------------------------------------
\* fs.c:101, "Filename already exists": fs_create never makes a second file of
\* one name.
UniqueNames ==
  \A s, t \in Slot :
    s # t /\ InUse(s) /\ InUse(t) => inode[s].name # inode[t].name

\* fs.c:274, "write this block to this file": fs_write changes no file of
\* another name.
WriteKeepsOtherFiles ==
  [][\A name \in Names, blockNum \in BlockNums, s \in Slot :
       fs_write(name, blockNum) /\ InUse(s) /\ inode[s].name # name =>
         \A b \in BlocksOf(inode[s]) : data'[b] = data[b]]_vars
=============================================================================
