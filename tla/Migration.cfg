CONSTANTS
  FirstVersion = 1
  MaxWallets = 3
  MaxSalts = 4
SPECIFICATION Spec
INVARIANTS
  TypeOK
  AcceptedPinOpensAll
  NoWalletOrphaned
PROPERTY
  DamagedVaultUntouched
