SPECIFICATION Spec
CONSTANTS
  Wallets = {"w1", "w2"}
  Uses <- OneEntrance
  UiKeepsUp = FALSE
  MaxRequests = 2
  MaxSessions = 2
INVARIANT
  Consent
