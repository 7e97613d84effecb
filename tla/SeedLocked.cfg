SPECIFICATION Spec
CONSTANTS
  MaxWallets = 2
  Uses <- Tasked
INVARIANTS
  ClearedOnLock
