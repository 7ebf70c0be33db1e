------------------------------ MODULE Transpose ------------------------------
(* One run of cachelab/handout/tracegen.c: it fills two matrices, calls a    *)
(* transposition of trans.c and validates the result, and every access to    *)
(* its static data is one of the simulated cache of csim.c.                  *)
(*                                                                           *)
(* The arrays are flat, as the parameters A[N][M] and B[M][N] see them, and  *)
(* one element is two steps, a load and a store.  A holds a value of its own *)
(* in every cell; the cells behind the matrix are 0.  Of the 256 * 256 cells *)
(* of B the model keeps the first Cells.  EightForAll is not used: it is a   *)
(* mistake to try TLC on.                                                    *)
EXTENDS Integers, Sequences

CONSTANTS Shapes, \* the pairs of M and N that are tried
          Cells

\* The cells kept hold the matrix and all that blocks reach that are not cut off.
ASSUME ShapesAssumption ==
  /\ Cells \in Nat
  /\ \A shape \in Shapes :
       /\ shape \in (1..256) \X (1..256) /\ shape[1] * shape[2] <= Cells
       /\ shape[1] = 32 => 32 * (shape[2] + 7) <= Cells
       /\ shape[1] = 64 => 64 * (shape[2] + 3) <= Cells

VARIABLES M, N,                    \* B is M by N, A is N by M
          fn,                      \* the function that is traced
          B,
          rows, cols, x, y,        \* the loops, from the outermost
          temp, i,                 \* the diagonal element and its index
          element,                 \* what has been loaded and not yet stored
          ahead,                   \* addresses that the call of the function reads first
          at,                      \* where it is: "off", "load", "store", "return" or "exit"
          cache, hits, misses, evictions, leastRecentUsed, again \* of CacheSim

loops == <<rows, cols, x, y>>
simulator == <<cache, hits, misses, evictions, leastRecentUsed, again>>
tracegen_vars == <<M, N, fn, B, loops, temp, i, element, ahead, at, simulator>>

Cache == INSTANCE CacheSim WITH s <- 5, E <- 1, b <- 5, Addresses <- {}, MaxAccesses <- 8 * Cells

\* The static data of tracegen, as the linker has laid it out in the traces that
\* are kept beside it: A, B, then N, M, the markers and func_list.
A == [k \in 0..(Cells - 1) |-> IF k < N * M THEN k + 1 ELSE 0]
AddressA(k) == 4 * k
AddressB(k) == 2^18 + 4 * k
Static(offset) == 2^19 + offset
MARKER_START == Static(12)
MARKER_END == Static(13)
func_list(f) == Static(32 + 32 * f)

reads(address) == Cache!load_or_store(address)

-----------------------------------------------------------------------------
Off ==
  /\ M = 0 /\ N = 0 /\ fn = 0 /\ B = <<>>
  /\ rows = 0 /\ cols = 0 /\ x = 0 /\ y = 0 /\ temp = 0 /\ i = 0 /\ element = 0
  /\ ahead = <<>> /\ at = "off"
  /\ Cache!Init

EmptyCache ==
  /\ cache' = [set \in Cache!Set |-> [j \in Cache!Line |-> [valid |-> FALSE, lru |-> 0, tag |-> 0]]]
  /\ hits' = 0 /\ misses' = 0 /\ evictions' = 0 /\ leastRecentUsed' = 0 /\ again' = Cache!None

\* main up to the call, with B full of values that A does not have.
main(shape, f) ==
  /\ M' = shape[1] /\ N' = shape[2] /\ fn' = f
  /\ B' = [k \in 0..(Cells - 1) |-> IF k < M' * N' THEN -1 ELSE 0]
  /\ rows' = 0 /\ cols' = 0 /\ x' = 0 /\ y' = 0 /\ temp' = -1 /\ i' = 0 /\ element' = 0
  /\ ahead' = <<MARKER_START, func_list(f), Static(4), Static(0)>> /\ at' = "load"
  /\ EmptyCache

calls ==
  /\ at = "load" /\ ahead # <<>>
  /\ reads(Head(ahead)) /\ ahead' = Tail(ahead)
  /\ UNCHANGED <<M, N, fn, B, loops, temp, i, element, at>>

-----------------------------------------------------------------------------
\* transpose_submit goes through blocks; only the last kind stops at the edges.
EightForAll(m) == IF m \in {32, 64} THEN 8 ELSE 16
Side(m) == CASE m = 32 -> 8 [] m = 64 -> 4 [] OTHER -> 16
InRows == IF fn = 0 THEN x < rows + Side(M) /\ (M \notin {32, 64} => x < N) ELSE x < N
InCols == IF fn = 0 THEN y < cols + Side(M) /\ (M \notin {32, 64} => y < M) ELSE y < M

Loading == at = "load" /\ ahead = <<>>

\* A[x][y], on its way to B[y][x].
load ==
  /\ Loading /\ InRows /\ InCols /\ (fn = 0 => x # y)
  /\ reads(AddressA(x * M + y)) /\ element' = A[x * M + y]
  /\ at' = "store"
  /\ UNCHANGED <<M, N, fn, B, loops, temp, i, ahead>>

store ==
  /\ at = "store"
  /\ reads(AddressB(y * N + x)) /\ B' = [B EXCEPT ![y * N + x] = element]
  /\ y' = y + 1 /\ at' = "load"
  /\ UNCHANGED <<M, N, fn, rows, cols, x, temp, i, element, ahead>>

load_diagonal ==
  /\ Loading /\ InRows /\ InCols /\ fn = 0 /\ x = y
  /\ reads(AddressA(x * M + y)) /\ temp' = A[x * M + y] /\ i' = x
  /\ y' = y + 1
  /\ UNCHANGED <<M, N, fn, B, rows, cols, x, element, ahead, at>>

\* The end of a row of a block on the diagonal: what was kept is stored, also
\* when it is not of this row.
end_of_row ==
  /\ Loading /\ InRows /\ ~InCols
  /\ IF fn = 0 /\ cols = rows
     THEN reads(AddressB(i * N + i)) /\ B' = [B EXCEPT ![i * N + i] = temp]
     ELSE UNCHANGED <<B, simulator>>
  /\ x' = x + 1 /\ y' = IF fn = 0 THEN cols ELSE 0
  /\ UNCHANGED <<M, N, fn, rows, cols, temp, i, element, ahead, at>>

next_block ==
  /\ Loading /\ ~InRows /\ fn = 0 /\ cols + Side(M) < M
  /\ cols' = cols + Side(M) /\ y' = cols' /\ x' = rows
  /\ UNCHANGED <<M, N, fn, B, rows, temp, i, element, ahead, at, simulator>>

next_rows ==
  /\ Loading /\ ~InRows /\ fn = 0 /\ cols + Side(M) >= M /\ rows + Side(M) < N
  /\ rows' = rows + Side(M) /\ x' = rows' /\ cols' = 0 /\ y' = 0
  /\ UNCHANGED <<M, N, fn, B, temp, i, element, ahead, at, simulator>>

\* The function returns and the end marker is written.
returns ==
  /\ Loading /\ ~InRows
  /\ fn = 0 => cols + Side(M) >= M /\ rows + Side(M) >= N
  /\ reads(MARKER_END) /\ at' = "exit"
  /\ UNCHANGED <<M, N, fn, B, loops, temp, i, element, ahead>>

tracegen == calls \/ load \/ store \/ load_diagonal \/ end_of_row \/ next_block \/ next_rows \/ returns

\* validate compares B with the transpose of A.
validate == \A j \in 0..(M - 1), k \in 0..(N - 1) : B[j * N + k] = A[k * M + j]

-----------------------------------------------------------------------------
\* When it is done, B is the transpose of A wherever the blocks fit: no element
\* that is kept or stored twice is wrong, and no other shape needs care.  Blocks
\* of 32 and 64 columns are not cut off at the last row; nothing is said here of
\* the shapes for which one reaches over it, though trans.c:2 speaks of any matrix.
Transposes ==
  at = "exit" /\ (fn = 0 => (M = 32 => N % 8 = 0) /\ (M = 64 => N % 4 = 0)) => validate
=============================================================================
