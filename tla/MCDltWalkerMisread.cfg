CONSTANTS
  NoName = NoName
  Configs <- Misread
  Dirs <- MCDirs
  ParentOf <- MCParentOf
  PathDir <- MCPathDir
  Files <- MCFiles

SPECIFICATION Spec

INVARIANT ConfigAsDocumented
