CONSTANTS
  MaxAttempts = 2
  MaxFrames = 6
SPECIFICATION Spec
INVARIANTS
  TypeOK
  NonceOnce
  InStep
PROPERTIES
  AnswersMatch
  CommandsStayOnTheirLink
