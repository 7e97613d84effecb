SPECIFICATION Spec
CONSTANTS
  MaxWallets = 2
  Uses <- Alone
INVARIANTS
  CacheValid
