CONSTANTS
  NoName = NoName
  Configs <- OverlappingPaths
  Dirs <- MCDirs
  ParentOf <- MCParentOf
  PathDir <- MCPathDir
  Files <- MCFiles

SPECIFICATION Spec

PROPERTY ImplementsTraversal
