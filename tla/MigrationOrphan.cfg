CONSTANTS
  FirstVersion = 2
  MaxWallets = 1
  MaxSalts = 2
SPECIFICATION Spec
INVARIANT
  NoWalletOrphaned
