CONSTANTS
  NoName = NoName
  ConfigChoices = {{"Error", "Warning"}}
  NumFiles = 2
  MaxLines = 7
  Alphabet <- MCAlphabet
  CommentText <- StarredComment
  CommentClose <- DocEnd
  CallClose <- CallEnd
  Truncated = {}
  InputMayFail = TRUE
  CloseMayFail = FALSE
  OutputMayFail = FALSE

SPECIFICATION Spec

INVARIANT TypeOK
INVARIANT RowLineIsCallLine
INVARIANT DescriptionFromPrecedingComment
INVARIANT RowsFromOwnFile
INVARIANT MessageHasAllFragments

PROPERTY FunctionCapture
PROPERTY Termination
