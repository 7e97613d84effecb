\* Claims the code makes of itself and does not keep: put one of them in the
\* place of the last line.
\*   INVARIANT ChargedBeforeCompared   INVARIANT StaleMarkerCostsNothing
\*   INVARIANT SettingFollowsWipe
SPECIFICATION Spec
CONSTANTS
  p1 = p1
  p2 = p2
  Pins <- MCPins
  MaxAttempts = 3
  CounterMayFail = TRUE
  None = None
INVARIANT ChargedBeforeCompared
