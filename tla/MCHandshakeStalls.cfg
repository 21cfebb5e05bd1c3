SPECIFICATION FairSpec
CONSTANTS
  Pieces = 3
  CreateForms = {"full"}
  AuthResults <- Accepted
PROPERTY HandshakeCompletes
CHECK_DEADLOCK FALSE
