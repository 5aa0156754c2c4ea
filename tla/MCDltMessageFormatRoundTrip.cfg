CONSTANTS
  Messages <- RoundTrip

SPECIFICATION Spec

INVARIANT FormatMatchesSpec
