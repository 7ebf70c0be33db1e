SPECIFICATION NamedSpec
CONSTANTS
  NumBlocks = 4
  MaxFileSize = 2
  NumInodes = 3
  Names = {a, b}
  NoName = NoName
  Data = {z, y}
  Zero = z
SYMMETRY NameSymmetry
INVARIANTS TypeOK NoSharedBlocks InUseIsListed DeleteFreesAll
PROPERTIES LeakOnlyByKill ImplementsFileStore
