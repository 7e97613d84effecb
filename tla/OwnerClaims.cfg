\* Claims the code makes of itself and does not keep; keep one of the last two.
SPECIFICATION Spec
CONSTANTS
    wallet = wallet
    hidden1 = hidden1
    hidden2 = hidden2
    None = None
    Seeds = {wallet, hidden1}
    ShownAs <- ShownAsWallet
    Kept <- WalletKept
    Accounts = {0}
    Count = 2
    Slots = {t1, t2}
    PollSlots = {p1}
    MaxLinks = 2
    MaxMoves = 1
    AtBoot <- Boot
INVARIANTS
    OpenLinkInUse
PROPERTIES
    SignedAsNamed
CHECK_DEADLOCK FALSE
