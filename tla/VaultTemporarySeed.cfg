CONSTANTS
  p1 = p1
  p2 = p2
  s1 = s1
  s2 = s2
  Pins <- MCPins
  Seeds <- MCSeeds
  MaxWallets = 2
  None = None
SPECIFICATION Spec
SYMMETRY Symmetry
INVARIANTS
  LoadedSeedIsSelected
