CONSTANTS
  Clients = {c1, c2}
  FileNames = {f, g}
  DirUuid = 2
  BlockSize = 2
  MaxLength = 3
  Capacity = 4
  MaxFiles = 2
  MaxWrites = 2
  Junk = Junk
  hashObj <- MCHash
SYMMETRY Symmetry
SPECIFICATION Spec
INVARIANTS TypeOK ReadsBack SizeIsExtent FilesListed NoSharedBlocks
