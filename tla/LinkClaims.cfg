\* Claims the code makes of itself and does not keep: put one of them in the
\* place of the last line.
\*   INVARIANT FramesAsSent     INVARIANT OneSender       INVARIANT SessionOfPeer
\*   INVARIANT NoUnderflow      INVARIANT OneDispatcher
\*   PROPERTY ReplyToAsker      PROPERTY DeafWhenDeselected   PROPERTY ReplyWhole
\*   INVARIANT QueueDiesWithPeer
\* or, under LinkFairSpec and with EarlyPeers = TRUE,
\*   PROPERTY Answered
SPECIFICATION LinkSpec
CONSTANTS
  Handles = {1, 2, 3}
  MaxRequests = 2
  LosesWrites = TRUE
  Handshakes = TRUE
  EarlyPeers = FALSE
INVARIANT NoUnderflow
