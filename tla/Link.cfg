SPECIFICATION LinkFairSpec
CONSTANTS
    Handles = {1, 2, 3}
    MaxRequests = 2
    LosesWrites = TRUE
    Handshakes = FALSE
    EarlyPeers = FALSE
INVARIANTS Exclusive SeedInSilence OwnFrames
PROPERTY Answered
