CONSTANTS
  NoName = NoName
  ConfigChoices = {{"Error"}}
  NumFiles = 1
  MaxLines = 6
  Alphabet <- MultiLineCall
  CommentText <- StarredComment
  CommentClose <- DocEnd
  CallClose <- CallEnd
  Truncated = {"cont"}
  InputMayFail = FALSE
  CloseMayFail = FALSE
  OutputMayFail = FALSE

SPECIFICATION Spec

PROPERTY Termination
