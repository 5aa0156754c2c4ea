CONSTANTS
  NoName = NoName
  ConfigChoices = {{}, {"Warning"}, {"Error", "Warning"}}
  NumFiles = 2
  MaxLines = 4
  Alphabet <- CrashInputs
  CommentText <- AnyComment
  CommentClose <- DocEnd
  CallClose <- CallEnd
  Truncated = {}
  InputMayFail = FALSE
  CloseMayFail = TRUE
  OutputMayFail = TRUE

SPECIFICATION Spec

INVARIANT NoCrash
