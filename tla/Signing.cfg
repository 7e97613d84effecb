SPECIFICATION FairSpec
CONSTANTS
  Wallets = {"w1", "w2"}
  Uses <- Separate
  UiKeepsUp = TRUE
  MaxRequests = 2
  MaxSessions = 2
INVARIANTS
  Consent
  OwnTransaction
  HostPassphraseOwned
PROPERTIES
  Settles
