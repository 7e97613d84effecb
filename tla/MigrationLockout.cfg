CONSTANTS
  FirstVersion = 1
  MaxWallets = 1
  MaxSalts = 2
SPECIFICATION Spec
INVARIANT
  OwnerNotLockedOut
