CONSTANTS
  NoName = NoName
  ConfigChoices = {{"Error"}}
  NumFiles = 1
  MaxLines = 4
  Alphabet <- TwoClasses
  CommentText <- StarredComment
  CommentClose <- DocEnd
  CallClose <- CallEnd
  Truncated = {}
  InputMayFail = FALSE
  CloseMayFail = FALSE
  OutputMayFail = FALSE

SPECIFICATION Spec

PROPERTY FunctionCapture
