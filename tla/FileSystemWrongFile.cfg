SPECIFICATION Spec
CONSTANTS
  NumBlocks = 5
  MaxFileSize = 2
  NumInodes = 3
  Names = {a, b}
  NoName = NoName
  Data = {z, y}
  Zero = z
SYMMETRY NameSymmetry
PROPERTY WriteKeepsOtherFiles
