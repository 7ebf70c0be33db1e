# A verification project for the Spring 2020 systems assignments

The repository holds the laboratory programs of a systems course, each a
separate C program: a file system on a disk file, a dynamic memory allocator, a
string queue with its test interpreter, a cache simulator, a shell, and a few
programs with processes and threads. The TLA+ modules here model them from the
C code, TLC checks them on small instances, and TLAPS proves the theorems
listed below for every value of the constants.

## 1. Inventory

| Part | Source | State it keeps | Operations | What is hard |
|---|---|---|---|---|
| Dummy file system | `filesystems/fs/fs.c`, `create_fs.c`, `runner.c` | on disk: free block list, 16 inodes, 127 data blocks; in the process: descriptor, one 1 KB buffer | `fs_open`, `fs_create`, `fs_delete`, `fs_ls`, `fs_read`, `fs_write`, formatting | two writes per update with a kill between; pointers left in reused inodes; searches that stop early |
| Memory allocator | `malloc1/malloc/mm.c`, `memlib.c` | a heap of blocks with boundary tags, the break | `mm_init`, `mm_malloc`, `mm_free`, `mm_realloc`, `mem_sbrk` | long sequences of calls, splitting and coalescing, sizes at the limits |
| Allocator driver | `malloc1/malloc/mdriver.c` | traces, list of live ranges | `add_range`, `remove_range`, `eval_mm_valid`, `eval_mm_util` | judging an allocator it shares the heap with |
| String queue | `queue/handout/queue.c` | linked list with head, tail and size | `q_new`, `q_free`, `q_insert_head`, `q_insert_tail`, `q_remove_head`, `q_size`, `q_reverse` | allocation failure at every call; the tail pointer of an emptied list |
| Test harness of the queue | `queue/handout/harness.c` | list of allocated blocks with magic words, exception state | `test_malloc`, `test_free`, `exception_setup`, `exception_cancel`, `trigger_exception` | alarms and segmentation faults that jump out of any instruction |
| Interpreter of the queue | `queue/handout/qtest.c`, `console.c`, `report.c` | the queue and its length, command tables, a stack of input files, error count | `do_new` ... `do_show`, `source`, `option`, `quit` | limits and quits in the middle of nested files, freeing with a time limit |
| Cache simulator | `cachelab/handout/csim.c` | sets of lines, counters | `access`, `replay` | replacement order; hit, miss and eviction counts |
| Matrix transposition | `cachelab/handout/trans.c`, `tracegen.c`, `cachelab.c` | two matrices, the blocks gone through | `transpose_submit`, `trans`, `initMatrix`, `validate` | blocks at the edges, the diagonal kept back |
| Evaluation of transpositions | `cachelab/handout/test-trans.c`, `driver.py` | results of the submission, trace and result files | `eval_perf`, `sigalrm_handler` | processes that fail, hang or outlive a run; files they leave |
| Parallel sum | `pthreads/pthreads.c` | shared array, one sum per thread | `sumArray`, create, join | work split among threads, uninitialised accumulator |
| Thread greeting | `pthreads/hellothreads.c` | a count | create, join | nothing shared any more |
| Process demonstrations | `queue/handout/Fork.c`, `Fork/Fork.c`, `Fork/Shell.c` | processes | `fork`, `exec`, prompts | parent and child in any order |
| Shell skeleton | `shell1/shell1/tsh.c` | job table, signals | `eval`, `parseline`, handlers | mostly unwritten handlers |
| Bit puzzles | `datalab/handout/bits.c`, `tests.c` | none | pure functions on `int` and `float` | width and sign |
| Checker of the puzzles | `datalab/handout/btest.c`, `decl.c` | the function under test, its values, a pending alarm | `gen_vals`, `test_function`, `run_tests`, `timeout_handler` | an alarm that outlives its test; which values find a mistake |

The parts do not call each other, except that `mdriver` calls `mm`, which calls
`memlib`; that `qtest` calls `queue`, which calls `harness` through the
`malloc`/`free` macros, under the interpreter of `console`, which counts errors
through `report`; and that `test-trans` starts `tracegen`, which calls `trans`, and a
reference simulator, through files.

What makes each part correct:

* **file system** - no block in two files, list and inodes agree, no space is
  lost, deleting frees everything, an operation touches the file it names;
* **allocator** - blocks tile the heap, tags agree with blocks, no two free
  neighbours, live payloads are disjoint and aligned, `mm_realloc` keeps data;
* **driver** - it knows the live payloads, and accuses no allocator that keeps its
  promises;
* **queue, harness, interpreter** - the list is well formed whatever fails,
  every block is freed exactly once, an exception leaves lists on which commands still
  end, every input file is closed;
* **cache** - an access hits when its block is in its set, the right block is given up,
  and the counts say so;
* **transposition and its evaluation** - B is the transpose of A, and the line that is
  graded is true of the submission;
* **threads** - shares do not overlap, all join before the array is freed;
* **puzzles and checker** - a puzzle is its test function, and a point is given
  where that is so.

## 2. Modules

| Module | What it is | Source |
|---|---|---|
| `FileStore` | abstract: named files in handles, a transfer buffer | |
| `FileSystem` | the disk and the commands on it | `fs.c`, `create_fs.c`, `runner.c` |
| `FileSystemProofs` | theorems about `FileSystem` | |
| `Allocator` | abstract: what `mdriver.c` asks of an allocator | `mdriver.c` |
| `Malloc` | the heap, the three calls, the client that makes them | `mm.c`, `memlib.c` |
| `MallocProofs` | theorems about `Malloc` | |
| `MallocDriver` | the correctness pass and the utilization pass | `mdriver.c` |
| `MallocDriverProofs` | theorems about `MallocDriver` | |
| `Fifo` | abstract: the queue of `queue.h` | `queue.h` |
| `Queue` | the queue, the harness under it, the commands above it | `queue.c`, `harness.c`, `qtest.c` |
| `QueueProofs` | theorems about `Queue` | |
| `Console` | the interpreter loop, its files and errors, the log file, the end of main | `console.c`, `report.c`, `qtest.c` |
| `ConsoleProofs` | theorems about `Console` | |
| `SetCache` | abstract: a set-associative cache, whatever its replacement | `csim.c` |
| `CacheSim` | the simulator on any trace | `csim.c` |
| `CacheSimProofs` | theorems about `CacheSim` | |
| `Transpose` | one run of `tracegen`, in the cache of `CacheSim` | `trans.c`, `tracegen.c`, `cachelab.c` |
| `TestTrans` | the evaluation around it: processes, files, alarm | `test-trans.c` |
| `Bits` | the puzzles and their test functions | `bits.c`, `tests.c` |
| `Btest` | the checker on the puzzles | `btest.c`, `decl.c` |
| `EvaluationProofs` | theorems about the two evaluations, `Btest` and `TestTrans` with its `Transpose` | |
| `ParallelSum` | main and its threads | `pthreads.c` |
| `ParallelSumProofs` | theorems about `ParallelSum` | |
| `MCFileSystem`, `MCMalloc`, `MCMallocDriver`, `MCQueue`, `MCCacheSim`, `MCTestTrans` | symmetry, views, bounds and a history for TLC | |

Each concrete module instantiates its abstract one with a refinement mapping:
`FileSystem` implements `FileStore`, `Malloc` implements `Allocator`, `Queue`
implements `Fifo`, where it is finished, and `CacheSim` implements `SetCache`. `MallocDriver` also
composes with `Allocator`: a variable chosen at the start decides whether its
allocator keeps the promises of `Allocator` or returns whatever it likes.
`Transpose` instantiates `CacheSim`, so that every access of a transposition is one
of the simulator, and `TestTrans` extends `Transpose`.

Definitions bear the names of the C functions. Some operators stand before the
definition they are a mistaken form of, and are used by nobody; the head of each
module lists them. Every property is tried against such a mistake.

### FileSystem

Block 0 of the disk is `freeBlockList` and `inode`, the others are `data`; `opened`
and `buffer` are the process. A command of `fs_repl` is one action, except that
`fs_create` and `fs_delete` end with two `write()` calls: the first is in the
command's action, the second is `write_inode`, and in between the process may be
killed (`killed_in_create`, `killed_in_delete`). An early return changes nothing.
`fs_read` and `fs_write` of a name that is not there go on with the last inode
the loop looked at, as the code does. Only sizes and block numbers from 0 on are
asked for; below, the code indexes outside its arrays.

Two oddities of `fs.c` are in the model and have no run of their own:
`NotEnoughSpace` refuses a file that would fill the disk exactly (line 80, `<=`),
and the loops of `fs_delete`, `fs_read` and `fs_write` never look at the last
inode (line 162), so that a file there can be neither reached nor deleted (section 3).

Four specifications differ in what may be killed and what the user asks:
`Spec` (nothing is killed), `CreateCrashSpec`, `CrashSpec` (also `fs_delete`), and
`NamedSpec` (`CreateCrashSpec` with reads and writes of existing names only).

### Malloc and Allocator

`Allocator` has the break, the payloads and their bytes: a payload lies below the
break, which a call may raise. In `Malloc`, `mem` maps words of eight bytes to tags, to
the id of the client that filled them, or to junk; `blocks` is an auxiliary set of the
block pointers; `live` is the client, which holds a block per id. A call is `mm_malloc`,
`mm_realloc` or `mm_free` followed by one `find_fit` step per block looked at, and ends
in `mm_malloc_fit`, `mm_malloc_extend` or `mm_malloc_fail`; a free joins neighbours in
the same action, and so does a heap extension. Sizes are computed modulo `Uint` where
the code uses `uint32_t`. The bytes the client has written follow `mm_realloc`.

### MallocDriver

`eval_mm_valid` takes one request of a trace at a time: the answer of the
allocator is judged by `add_range`, remembered in `ranges`, filled, and checked
when it is moved. A complaint ends the pass. `brk` is the break: each call may raise
it (`Grows`), and each pass begins with a heap of any size (`Resets`). A payload is
looked at against the break as the call has left it, as `mem_heap_hi` reads it; the
total of `eval_mm_util` is divided by the break at the end of the trace. The test for
an overlap (`Overlaps`) is that of `mdriver.c:424`, which does not see a payload
that reaches beyond an older one at both ends (section 3). `eval_mm_util` replays
requests with the two totals. A trace is any sequence of requests that the code would read:
each id is allocated before it is moved or freed.

### Queue and Fifo

A command is a statement at a time: `run` holds the command, the next statement
and the local variables. So an alarm (`sigalrmhandler`) may fall between any two.
`trigger_exception` jumps to a `sigsetjmp` whose function has returned, which C
leaves undefined; compiled as the Makefile says, without optimization, the call
under way returns false in its place, and the model does the same. A read through
a pointer that cannot be followed is the same jump; one with nothing to catch it
ends the process. Freed blocks are filled with `FILL`. Freeing a block that is
not in use sets `status` to "undefined", and nothing is said about what follows.
`do_size` and `do_reverse` are one step each: `q_size` and `q_reverse` write nothing, the
latter because it has no body. A first element that cannot be read makes `show_queue`
show nothing and go on, and below verbosity 3 nothing is shown at all (`show`).

After the last element is removed `q->tail` points to a freed block, and
`q_insert_tail` writes its `next` there (`queue.c:125`). The write hits freed
memory; the model takes it as a write that nobody reads, which is what a libc
that has not handed the memory out again makes of it.

`q_remove_head` follows `q` before it tests it (`queue.c:154`), although `queue.h`
says that it returns false for no queue: in the model, as in the code, that is a
fault, which the harness catches. `Fifo` has all the operations of `queue.h`;
`ImplementsFifo` is about the finished ones, and leaves out the steps of `q_reverse` and
of `q_remove_head` of no queue (`Unfinished`), where the code does something else.

### Console

A buffer of `rio_t` is the number of complete lines in it, and what a line holds is
chosen when it is interpreted. One action is one line: `readline` when the buffer
has one, `read_on` and `read_eof` when `cmd_select` has to read, which is the last
line before it returns (`pc` "last", then "back"); then `any_cmd`,
`do_option_cmd`, `do_source_cmd`, `do_log_cmd` or `do_quit_cmd`, with the reports the
command may print and the number of `time` in front of it, and at the end
`main_fails` or `finish_cmd`. `held` counts what `report.c` allocates and `fds` and
`logs` the descriptors, so that what is given back can be compared with what was
taken. `lost` counts those to which no pointer is left: a second `log` writes over the
pointer to the file that is open and does not close it (`report.c:53`), so that its
descriptor stays open to the end. `Balanced` says that no other is lost.

Three oddities of the source are in the model. `report_event` closes the log file
and keeps the pointer (`report.c:82`): the next report, or the next error, uses a
closed file, after which nothing is said (`status` "undefined"). A failing command
behind `time` is recorded as an error by both calls of `interpret_cmda`, so that
the count can step over the limit. `quit` frees the lists and leaves the pointers
to them; nothing looks at them later because `quit_flag` is set. Besides, after
an error without `quit`, `main` returns without `finish_cmd` and frees nothing.

The console and `Queue` are separate modules. Where they meet, a command that
returns false in `qtest.c` is `any_cmd` with `ok` false, and `queue_quit` is the
quit helper.

### CacheSim and SetCache

One action is one access; an `M` line is two of them, with `again` in between. The
line that a hit renews is a copy (`csim.c:187`), so that its `lru` is lost and the
victim is the line that came in first, whereas the comment at `csim.c:225` says
least recently used: `CacheSimLeastRecent` shows it, with a history of the accesses
(`MCCacheSim`). `SetCache` is what holds whichever line goes: a set holds tags, an
access hits when its tag is there, and one is given up only when the set is full.
Addresses are natural numbers; the two shifts of 64 bits that cut out the set
leave `(addr \div 2^b) % S`. A trace ends each line with a newline: a last line
without one is not replayed, as `feof` is then already true.

### Transpose and TestTrans

One element is a load from `A` and a store to `B`, each an access of the simulated
cache; the loops of the three blockings are the four counters `rows`, `cols`, `x`
and `y`, and only the side of the block and the test for the edge differ
(`Side`, `InRows`, `InCols`). A diagonal element is kept in `temp` and `i` and stored
at the end of the row, also in a row that has none and stores that of an earlier
row again. For 32 and 64 columns blocks are not cut off below the last row, so that
other cells of the two static arrays are read and written: the arrays are flat, and
what lies behind the matrix is in the model. The static data lies where the traces
`trace.f0` and `trace.f1`, which are kept beside the program, have it. For the
44 by 59 matrix of those traces the model counts 3581 hits and 1620 misses for
`transpose_submit` and 2348 and 2849 for `trans`, which is what replaying the traces
gives; for the matrices that are graded it counts 287, 1795 and 1985 misses.

`TestTrans` is `eval_perf`: per function a `tracegen` under valgrind, the filter,
`csim-ref`, and the count from `.csim_results`. The faults are those that the code
meets without looking: a signal that ends tracegen, or the shell that `system` runs it
in (`tracegen_killed`: `WEXITSTATUS` is 0 when the signal ended what `system` waited for,
which is the shell, or tracegen in its place), a `csim-ref` that leaves no file or
an old one, and what a run that timed out has left in the directory or still at
work. `VerdictIsTrue` says which of them can change the line that is graded, and
how. The reference simulator is no source of the repository; it counts, by its
name and use, what `csim.c` is to count.

### Bits and Btest

A word is the set of its bits that are 1. The puzzles are written with the
operators that the C text uses, the test functions by what they say. `upperBits`,
`floatAbsVal` and `floatNegate` are unfinished in the source and return 2, and
`fitsBits` puts two parts of an answer together with `|` (`bits.c:334`). In `Btest` a comparison is a step. `alarm` is set for each function and
never cancelled (`btest.c:357`), so that it may ring in the next one, in the window
between its `sigsetjmp` and its own `alarm`, which is blamed for it, or in between,
when the jump goes to a function that has returned (`pc` "undefined").
`VerdictsAreRight` compares the points with the truth on a sample of words that
contains more than btest tries.

### ParallelSum

`main` is a step per number read, thread created and thread joined; `sumArray` is a
step per element. The local `foo` is never set (`pthreads.c:87`): a thread starts
from any of `Junk`. `N / p` is rounded down, so that the last elements are in no
share. `SumsAgree` is about what is left when neither of the two spoils the sum. Neither
`malloc` nor `pthread_create` is looked at: "crash" and "undefined" are where that ends.
The program says that p must be less than 16 and accepts 16. N is a number from 0 on,
and 0 is also what a failed `scanf` leaves; a negative N, which the program accepts
too and asks `malloc` for, is left out.

## 3. Runs

| Run | Specification | Checks | Shows |
|---|---|---|---|
| `FileSystem` | `NamedSpec` | `TypeOK`, `NoSharedBlocks`, `InUseIsListed`, `DeleteFreesAll`, `LeakOnlyByKill`, `ImplementsFileStore` | No block in two files, also when creation is cut short; space is lost only then; a store of separate files |
| `FileSystemUniqueNames` | `Spec` | `UniqueNames` | violated: two files of one name |
| `FileSystemWrongFile` | `Spec` | `WriteKeepsOtherFiles` | violated: a mistyped name overwrites another file |
| `Malloc` | `FairSpec` | `TypeOK`, `Tiled`, `NoFreeNeighbours`, `HeldBlocks`, `CallsReturn`, `FailsOnlyWhenFull`, `ImplementsAllocator` | The heap stays whole, the promises are kept, every search ends |
| `MallocDriver` | `Spec` | `RangesAreLive`, `NoFalseAlarm`, `TotalIsLive` | The driver's list is that of the live payloads; who keeps the promises is not accused; the total never exceeds the break that it is divided by |
| `Queue` | `MCSpec` | `TypeOK`, `Disarmed`, `Accounted`, `CommandsEnd`, `OnlyInsertTailBreaks`, `ImplementsFifo` | In time, the finished operations are those of a queue that loses nothing; and what holds wherever an alarm falls |
| `Console` | `FairSpec` | `Balanced`, `QuitsOnce`, `ExitTellsErrors`, `ErrorsAreLimited`, `StopEnds` | Input files and blocks are given back once, log files but for those written over; errors are told, quitting ends |
| `CacheSim` | `Spec` | `CountsAddUp`, `ImplementsCache` | The counts of a set-associative cache |
| `CacheSimLeastRecent` | `HistorySpec` | `LeastRecentlyUsed` | violated: a line that was just used is replaced |
| `TestTrans` | `EvalSpec` | `Transposes`, `VerdictIsTrue`, `EveryRunEnds` | Where the blocks fit, the transpose is right; what can falsify the result |
| `Btest` | `Spec` | `VerdictsAreRight`, `ChargedOnce`, `OnlyLateAlarms` | Points for 11 of 15 puzzles, rightly; whom an alarm hits |
| `ParallelSum` | `FairSpec` | `SharesOK`, `SumsAgree`, `AllJoin` | Shares are apart, an even division leaves nothing out, all are joined |

The runs of `FileSystem` and of the theorems about it complement each other: the
theorems hold under `CreateCrashSpec` and `CrashSpec`, of which `NamedSpec` is the
part that implements the abstract store.

### Bounds

* **FileSystem**: two names, files of up to two blocks, three inodes, four blocks
  (block 0 and three of data) and two contents; one block more where the order of
  names alone matters (`FileSystemUniqueNames`, `FileSystemWrongFile`). Two files,
  a third inode for the last-slot loops and stale pointers of a deleted file fit,
  and the disk gets full.
  Names are symmetric; no liveness is checked under symmetry.
* **Malloc**: 18 words, chunks of 4, three ids and the sizes 16, 17 and 33: two
  block sizes and one that needs a split of a larger block, so that all four
  cases of joining and the heap's end occur.
* **MallocDriver**: three ids, a heap of up to eight bytes with four breaks, alignment
  two, sizes of one, two and four: enough for ranges that touch, share an end and
  contain another, and for payloads on both sides of a break.
* **Queue**: without alarms a queue and three elements, two values, two repetitions;
  with them (`MCQueue` chooses at the start whether any may come) a queue and two elements, one value, and at most two alarms (`MaxAlarms`), the
  second of which meets a list the first has broken. Counters have `SizeT` values
  and wrap.
* **Console**: three descriptors, so that files nest three deep or two with a log
  file, buffers of two lines, limits from 0 to 3, two `time` in front of a command.
  A limit of 0 and one below the count occur, and so does a count that steps over
  the limit.
* **CacheSim**: two sets of two lines, blocks of two bytes, eight addresses in
  both sets with more tags than lines, traces of six accesses: enough to
  fill a set, hit in it, and evict twice. `MCCacheSim` adds when each tag was last
  used.
* **TestTrans**: seven shapes with at most `Cells` elements: rows that fit the
  blocks of 8 and 4 and rows that do not, and matrices that are wider, higher and
  smaller than a block of 16. `Cells` is what the largest block that is not cut off
  reaches (`ShapesAssumption`), and `StaysInsideCorrect` proves that it is enough. A run needs a few thousand steps, and the shapes that
  are graded only more of the same; their counts are in section 2.
* **Btest**: `TEST_RANGE` is 4, the smallest for which the arrays are large enough,
  all the rest of the table is that of `decl.c`; one random value, since the others
  are at the corners; at most two functions are stopped by an alarm (`MaxLate`), the
  fewest that can be next to each other.
* **ParallelSum**: three threads, five elements, two values and two of junk: every
  remainder of the division occurs, and more threads than elements.

The views hide only what no later step reads: in `Malloc` words of free blocks and
of payloads nobody has filled, in `MallocDriver` bytes outside the live payloads,
and addresses where no outcome depends on them. TLC also evaluates `mem` (`bytes`)
for its type, so that no state is kept unevaluated.

### Fairness

`FairSpec` of `Malloc` is fair to the steps of a call under way, `FairSpec` of
`Queue` (`MCSpec` in the run) to those of a command: one thread runs them and nothing
else is scheduled. `FairSpec` of `Console` is fair to what the loop does by itself: to
take a line that is in its buffer, to pass over one once it is to stop, to leave,
and to end. It is not to reading, since no line need come. `TestTrans` is fair to the
alarm alone (`EvalSpec`), which the kernel sends: `valgrind` and `csim-ref` may hang. `FairSpec` of
`ParallelSum` is fair to every thread, and to main when it does not wait for input.
No fairness is assumed of the client, the user, malloc or another alarm.
Deadlock is not checked in `MallocDriver`, `Queue`, `Console`, `TestTrans`, `Btest` and
`ParallelSum`, whose processes end, and in `CacheSim`, whose trace does.

### What the violations are

* `fs_create` stops looking for a duplicate at the first unused inode
  (`fs.c:104`), though it says that a taken name is refused.
* `fs_write` of an unknown name writes to the last inode read (`fs.c:301`).
* A hit in `csim.c` renews a copy of the line (`csim.c:187`), so that the line that
  goes is not the least recently used one.

### Where code and comments part, and no run shows it

The runs above are those the project keeps. The disagreements below are in the models
too, as the code has them, and no property that a run checks vouches for the code in
these cases: the passing properties either leave them out in so many words or are
about something else.

| Code | What it does | What is said of it | In the model |
|---|---|---|---|
| `fs.c:162`, `fs.c:249`, `fs.c:286` | the loops end before the last inode, so that a file there is never found | `fs.c:147` "Delete the file with this name", `fs.c:168` "If you reach the end of the disk, there are no files", `fs.c:274` "write this block to this file" | `Searched`; no property is about the last inode |
| `mdriver.c:424` | a payload that reaches beyond an older one at both ends is accepted | `mdriver.c:421` "The payload must not overlap any other payloads", `mdriver.c:379` "to detect any overlapping allocated blocks" | `Overlaps`; `NoFalseAlarm` is about the other direction |
| `queue.c:197` | `q_reverse` has no body | `queue.h:85` "Reverse elements in queue" | `do_reverse`; left out by `Unfinished` |
| `queue.c:154` | `q_remove_head` follows `q` before it tests it | `queue.h:70` "Return false if queue is NULL or empty" | `remove`; left out by `Unfinished` |
| `trans.c:27`, `trans.c:33` | the blocks are chosen by M alone, and those of 32 and 64 columns are not cut off at the last row: a matrix such as 32 by 12 is not transposed | `trans.c:2` "Matrix transpose B = A^T", `trans.c:85` "For a matrix of any size other than 32x32 or 64x64" | `Side`, `InRows`; `Transposes` is about the shapes whose blocks fit, `VerdictIsTrue` about what is reported of the others |
| `pthreads.c:87`, `pthreads.c:88` | `foo` is not set, and the last N mod p elements are in no share | `pthreads.c:4` to 8 "split the summation onto p amount of threads", "find the total sum", `pthreads.c:80` | `junk`, `End`; `SumsAgree` is about the cases without either |

Besides, the adjusted size of a request within 31 bytes of 2^32 wraps to 0 or 16
(`mm.c:265`; `AsizeIsEnough` in section 4). What test-trans may wrongly report is stated
by `VerdictIsTrue`.

## 4. Proofs

`FileSystemProofs` holds for every size of disk, file and inode table and every
set of names and contents, under the assumptions `FileSystem` names: at least two
blocks, one pointer per inode, two inodes, a zero name that is no name and a zero
content that is one. The invariant grows in layers, because each specification
keeps a different part of it:

* `PointersOK` (under `CrashSpec`): types, and the pointers of every inode below
  its size are data blocks in ascending order. `fs_delete` frees in one upward pass
  and would miss a pointer otherwise; the order comes from `LowestFree`.
  Hence `TypeCorrect` and `DeleteFreesAllCorrect`.
* `Agreement` (under `CreateCrashSpec`): besides, files are disjoint and listed,
  and what `pending` will write fits the list that is already on disk. Disjointness
  alone is not inductive: `fs_create` believes the list. Hence
  `NoSharedBlocksCorrect`, `InUseIsListedCorrect` and `LeakOnlyByKillCorrect`.
* `NoLeakCorrect` (under `Spec`): without kills no block is ever lost; this has
  only the theorem, and no run.
* `ImplementsFileStoreCorrect` (under `NamedSpec`): `Named` adds that a file in use
  has a name; then each action maps to an action of `FileStore` or a stutter,
  `write_inode` being the point where a creation or a deletion takes effect.

`MallocProofs` holds for every heap, set of ids and set of sizes, under the hypothesis
`NoWrap` that no size is within 31 bytes of `Uint`. The hypothesis is as weak as it can
be: `AsizeIsEnough` proves that a block of the adjusted size holds the request
exactly when the sum of `mm.c:265` does not wrap. `Tiled` walks the tags from the
front; the invariant says the same without a walk: in `Tiles` every block pointer but
the first is where another block ends, and no block begins in another. Stretches of
tiles are joined, cut and rewritten by lemmas that do not look at the rest of the heap
(`TilesJoin` and those after it), so that `coalesce`, `place` and `extend_heap` become
replacements of a stretch by one or two blocks (`Covered`, `Joins`, `Placed`). `IInv`
adds `LiveOK`, that the client's blocks are the allocated ones, each once, and
`CallOK`, that `find_fit` has passed over nothing that fits. Hence
`TypeCorrect`, `TiledCorrect`, `NoFreeNeighboursCorrect`, `HeldBlocksCorrect` and
`FailsOnlyWhenFullCorrect`. `ImplementsAllocatorCorrect` follows each block that is
handed out (`HandsOut`): it covers no other, and the bytes under each id (`DataAs`)
are those the client has filled, also where `mm_realloc` has copied them.

`MallocDriverProofs` holds for every heap, set of breaks and of sizes, trace and
allocator. `Lists` says that the range list has the live payloads, each once, and that
those of them that meet do so around an older one; it is kept because no two ranges
begin at one address, so that `remove_range` takes out the right one. `Apart` and
`Contents` say what an allocator that keeps the promises of `Allocator` leaves true of
payloads and bytes, and that the payloads are below the break, wherever it has been
raised to. Hence `RangesAreLiveCorrect` and `NoFalseAlarmCorrect`. `TotalIsLiveCorrect`
counts the bytes of all live payloads: since payloads are apart they map one to one
into the bytes below the break, so that the total never exceeds it, nor does the
maximum, as the break is never lowered; and the unsigned difference of `mdriver.c:779`
wraps back to what is meant.

`QueueProofs` holds for any finite set of blocks, any values and any number of
repetitions and alarms. The invariant `AInv`, which holds wherever alarms fall, says
which statements a command can be at (`Statements`) and what each relies on that
earlier ones have done (`Prepared`). Hence `TypeCorrect`, `DisarmedCorrect` and
`OnlyInsertTailBreaksCorrect`. The last is about walks along `next`: `Hop` is a recursive
function, and that it is the one whose equation it satisfies is proved by taking the
least number where two would differ (`WFMin` of the library), and so are the facts on
walks. As long as no alarm has gone off, `SInv` says for every
statement which blocks are in the list, which are apart from it (`Apart`), and how far
each counter is behind or ahead (`SizeLag`, `QcntLag`, `CountLag`). Hence
`AccountedCorrect`; and each step that is not `Unfinished` is shown to have an
`Effect` that an operation of `Fifo` has, or none, hence `ImplementsFifoCorrect`.

`ConsoleProofs` holds for any number of files, lines, errors and limits. The four
invariants are proved together, with what they rely on: lists and files are given
back only when the interpreter is to stop (`GivenBack`), an error is never forgotten
(`Counted`), and until it is to stop the count is below the limit that was in force
when the last error was counted (`BelowSome`). Hence `BalancedCorrect`,
`QuitsOnceCorrect`, `ExitTellsErrorsCorrect` and `ErrorsAreLimitedCorrect`.

`CacheSimProofs` holds for every geometry and trace. `CountsAddUp` is inductive
as it stands (`CountsAddUpCorrect`); of the powers of two it uses only that they are
numbers of subsets. For `ImplementsCacheCorrect` no set has two valid lines of one tag,
so that lines and tags of a set are as many, a miss adds a tag, and an eviction takes one
out and puts one in.

`EvaluationProofs` is about two programs that share nothing but their purpose. For
`Btest` it holds for every table of functions, range of values and number of
alarms: `AlarmInv` says at each place of the loop whose alarm may be set. Hence
`ChargedOnceCorrect` and `OnlyLateAlarmsCorrect`. The puzzles are not needed for these.

`FinishedPuzzlesAreRight` is about `bits.c` alone: on all words of 32 bits, and for
`dividePower2` on every number of bits from 0 to 30, the eleven finished puzzles are
their test functions. A sum is brought down to cases that have no chain of carries
to follow: the summands have no bit in common (`AddDisjoint`), are the same
(`AddSelf`), or one of them is 1 (`AddOne`) or the mask that is the bias of a
negative dividend (`AddMask`). For a negative dividend, `NoLowBits` is the case in
which nothing is cut off. The four unfinished puzzles differ from their test
functions on the arguments that `gen_vals` puts first (`UnfinishedDiffer`).

So `VerdictsAreRight` holds whatever values are drawn, for every `TEST_RANGE` of at
least 4. `VerdictInv` says that the values are of their ranges, begin with the first
of them and fit their arrays (`Generated`), that the loops stay within them and, for
an unfinished puzzle, do not get past the first (`Sweeps`), that each function so far
has the errors it deserves (`Judged`), and that there are partial sums that end in
the points (`Counted`). What the recursive functions behind `FlattenSeq` and
`Ratings` compute follows, as for the parallel sum, by a least counterexample
(`Induction`). Hence `VerdictsAreRightCorrect`.

For `Transpose` it holds for every set of shapes up to 256 by 256, and of the cache
it needs nothing. `LoopInv` holds while a transposition is under way. `Loops` says
that blocks begin at multiples of their side, so that two of them are one or apart;
`Copied`, where the blocks fit, that every element that the loops have passed, in
their order, is in its cell of B (`Passed`; the element on the diagonal is passed
only with its row); `Kept` why the store at the end of a row of a diagonal block is
right: `temp` is the element that `i` names, and `i` is the row that ends when it has
a diagonal element and else an earlier one, whose cell gets the same value again.
That no store spoils the cell of another element is `CellsApart`. Where the blocks
do not fit, one cell is enough to refute the transpose: `Spoilt` says that the last row
of the last block puts a 0 from behind A into it and that all later stores go to
other cells, and `SpoiltElement` finds it in the transpose. So `LoopInvTransposes`:
`validate` succeeds exactly where the blocks fit. Hence `TransposesCorrect`, and
`StaysInsideCorrect`, which has only the theorem: the model keeps the first `Cells`
cells of each array, no access goes beyond them, and the 256 by 256 cells of
`tracegen.c` are enough for every shape.

`VerdictIsTrue` compares the printed line with what is true of the submission, several
steps and another function later. `EvalInv` adds to `LoopInv` where on its way the
result is: `Flag` that a status of 0 comes from a validation that has succeeded
(`StatusIsRight`, which uses `LoopInvTransposes`) or from a fault that excuses it; `Count` that
the misses are those of the trace, then those in the file of `csim-ref`, then those in
the results; and `NoFault` what each stage of the submission has when nothing has
gone wrong. Hence `VerdictIsTrueCorrect`.

`ParallelSumProofs` holds for any number of threads and elements. `SharesOK` is not
inductive by itself: that no thread is left at the end rests on main going through
them in order (`InOrder`: those to be created do not run yet, those joined do not any
more), and that a share lies in the array on `QuotientFits` and `ProductGrows`, two
facts about rounding down. Hence `SharesOKCorrect`. `SumInv` adds that a thread
holds what it began with and what it has read of its share, and that main holds what
the threads that it has joined do; that `Total` adds up one number after another
(`TotalNext`) is again proved with a least counterexample. Hence
`SumsAgreeCorrect`.

Every invariant, action property and refinement that a passing run checks has a
theorem. Only model-checked are `CallsReturn`, `CommandsEnd`, `StopEnds`,
`EveryRunEnds` and `AllJoin`, which are liveness under fairness. The theorems say
nothing about the runs that expect a violation.

What the proofs rest on besides the models are the assumptions these name. Besides
types and ranges they are: `ErrLimit` is not 0 (`Console`; it is 5 at `console.c:56`),
the heap grows by an even number of words, at least 4, and its bytes can be counted in
32 bits (`Malloc`), the blocks are finitely many and fewer than `SizeT` (`Queue`),
`HeapSize` is below `Uint` (`MallocDriver`), a shape is at most 256 by 256 and `Cells`
covers it and what its blocks reach (`Transpose`), `TEST_RANGE` is at least 4, so that
the small ranges fit (`Btest`; it is 500000 at `btest.c:42`), and the junk and the
elements are integers without overflow (`ParallelSum`).

## 5. Not modelled

The shell is unfinished: its handlers are empty and `eval` runs nothing. The
programs it is tried on send it signals that it does not handle. `hellothreads.c`
and the demonstrations of `fork` print who they are and share nothing. The timers of
the allocator driver read clocks (`config.h` selects `gettimeofday`, so that
`clock.c` and `fcyc.c` are not even called). The drivers in Python and Perl and the
printers of numbers run other programs or format what they are given.
`PROJECT.json` gives the reason for each.

In the modelled parts, memory outside the objects of the program is left out: a
name of eight to sixteen characters in `fs_repl`, a negative block number.

## 6. Plan

What is left, in this order:

1. The options of `btest` that restrict what is tested, and the parsing of traces in
   `mdriver`, if they turn out to decide more than what is printed.
2. The unfinished puzzles once they are written: each is a lemma more beside the
   eleven, and leaves `Unfinished`.

Runs stay few: a component has one for its safety and refinement, and one for
each disagreement with its documentation that is worth keeping.
