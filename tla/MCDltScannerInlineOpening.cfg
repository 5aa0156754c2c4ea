CONSTANTS
  NoName = NoName
  ConfigChoices = {{"Error"}}
  NumFiles = 1
  MaxLines = 6
  Alphabet <- InlineOpening
  CommentText <- StarredComment
  CommentClose <- DocEnd
  CallClose <- CallEnd
  Truncated = {}
  InputMayFail = FALSE
  CloseMayFail = FALSE
  OutputMayFail = FALSE

SPECIFICATION Spec

INVARIANT MessageHasAllFragments
