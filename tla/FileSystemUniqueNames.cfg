SPECIFICATION Spec
CONSTANTS
  NumBlocks = 5
  MaxFileSize = 2
  NumInodes = 3
  Names = {a, b}
  NoName = NoName
  Data = {z}
  Zero = z
SYMMETRY NameSymmetry
INVARIANT UniqueNames
