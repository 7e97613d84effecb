\* A second claim that fails: put INVARIANT ServedFromSelected in the place of
\* the last line.  With Overlap = FALSE both hold.
CONSTANTS
  p1 = p1
  p2 = p2
  s1 = s1
  s2 = s2
  Pins <- MCPins
  Seeds <- MCSeeds
  MaxWallets = 2
  None = None
  Overlap = TRUE
SPECIFICATION SharedSpec
SYMMETRY Symmetry
PROPERTY WalletsKept
