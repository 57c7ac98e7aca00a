CONSTANTS
  Clients = {c1, c2}
  DirNames = {"a"}
  FileNames = {"a"}
  MaxDepth = 2
  MaxUuid = 5
  MaxSuuid = 2
  CacheSize = 1
  MaxSize = 1
SPECIFICATION Spec
SYMMETRY ClientSymmetry
INVARIANTS TypeOK UuidsNameOne ListsMatchKeys CacheNeverElsewhere
PROPERTIES TreeSpec
