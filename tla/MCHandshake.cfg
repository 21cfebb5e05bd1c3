SPECIFICATION FairSpec
CONSTANTS
  Pieces = 3
  CreateForms = {"full", "c3"}
  AuthResults <- AnyResult
INVARIANTS InStep RepliesInOrder BodyOnlyWhenBound
PROPERTY CompletesOrSitsOnMessage
CHECK_DEADLOCK FALSE
