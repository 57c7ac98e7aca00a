CONSTANTS
  Clients = {c1}
  DirNames = {"a"}
  FileNames = {"f"}
  MaxDepth = 2
  MaxUuid = 4
  MaxSuuid = 2
  CacheSize = 2
  MaxSize = 1
SPECIFICATION Spec
PROPERTIES OpenNeedsDirectory
