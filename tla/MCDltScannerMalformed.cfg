CONSTANTS
  NoName = NoName
  ConfigChoices = {{"Error", "Warning"}}
  NumFiles = 2
  MaxLines = 5
  Alphabet <- Malformed
  CommentText <- AnyComment
  CommentClose <- DocEnd
  CallClose <- CallEnd
  Truncated = {"comment", "cont"}
  InputMayFail = TRUE
  CloseMayFail = TRUE
  OutputMayFail = TRUE

SPECIFICATION Spec

INVARIANT RowLineIsCallLine
INVARIANT DescriptionFromPrecedingComment
INVARIANT RowsFromOwnFile
