SPECIFICATION FairSpec
CONSTANTS
  MaxHeap = 18
  Chunk = 4
  Uint = 256
  Ids = {a, b, c}
  Sizes = {16, 17, 33}
  Junk = Junk
VIEW MemView
INVARIANTS TypeOK Tiled NoFreeNeighbours HeldBlocks
PROPERTIES CallsReturn FailsOnlyWhenFull ImplementsAllocator
