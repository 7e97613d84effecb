CONSTANTS
  p1 = p1
  p2 = p2
  Pins <- MCPins
  MaxAttempts = 3
  CounterMayFail = FALSE
  None = None
SPECIFICATION FairSpec
INVARIANTS
  TypeOK
  GuessBudget
  SecretsGuarded
  CachedPinOpens
PROPERTIES
  VerifierNeverLost
  WipeCompletes
  ExhaustionWipes
