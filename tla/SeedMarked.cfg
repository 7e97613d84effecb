SPECIFICATION Spec
CONSTANTS
  MaxWallets = 2
  Uses <- Connected
INVARIANTS
  MarkTrue
