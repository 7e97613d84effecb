SPECIFICATION Spec
CONSTANTS
  Wallets = {"w1", "w2"}
  Uses <- OneEntrance
  UiKeepsUp = TRUE
  MaxRequests = 2
  MaxSessions = 2
INVARIANT
  PassphraseDiesWithSession
