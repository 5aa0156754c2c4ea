CONSTANTS
  Messages <- PlainMessages

SPECIFICATION Spec

INVARIANT TypeOK
INVARIANT FormatMatchesSpec
