SPECIFICATION FairSpec
CONSTANTS
  MaxWallets = 2
  Uses <- Separate
INVARIANTS
  PathAtomic
  CacheCurrent
  MarkTrue
PROPERTIES
  Ends
