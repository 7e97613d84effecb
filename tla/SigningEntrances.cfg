SPECIFICATION Spec
CONSTANTS
  Wallets = {"w1", "w2"}
  Uses <- Mixed
  UiKeepsUp = TRUE
  MaxRequests = 2
  MaxSessions = 2
INVARIANT
  Consent
