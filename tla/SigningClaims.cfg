\* Claims the code makes of itself and does not keep: put one of them in the
\* place of the last line.
\*   INVARIANT KeyShown         INVARIANT NoFalseApproval
\*   PROPERTY DevicePassphraseKept
SPECIFICATION Spec
CONSTANTS
  Wallets = {"w1", "w2"}
  Uses <- OneEntrance
  UiKeepsUp = TRUE
  MaxRequests = 2
  MaxSessions = 2
INVARIANT KeyShown
