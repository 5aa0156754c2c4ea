CONSTANTS
  NoName = NoName
  Configs <- Documented
  Dirs <- MCDirs
  ParentOf <- MCParentOf
  PathDir <- MCPathDir
  Files <- MCFiles

SPECIFICATION Spec

INVARIANT TypeOK
INVARIANT ConfigAsDocumented
PROPERTY ImplementsTraversal
