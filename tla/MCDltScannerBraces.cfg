CONSTANTS
  NoName = NoName
  ConfigChoices = {{"Error"}}
  NumFiles = 1
  MaxLines = 5
  Alphabet <- BracesAndComments
  CommentText <- StarredComment
  CommentClose <- DocEnd
  CallClose <- CallEnd
  Truncated = {}
  InputMayFail = FALSE
  CloseMayFail = FALSE
  OutputMayFail = FALSE

SPECIFICATION Spec

INVARIANT ImbalanceReported
