SPECIFICATION Spec
CONSTANTS
    wallet = wallet
    hidden1 = hidden1
    hidden2 = hidden2
    None = None
    Seeds = {wallet, hidden1}
    ShownAs <- ShownAsWallet
    Kept <- WalletKept
    Accounts = {0}
    Count = 2
    Slots = {t1}
    PollSlots = {p1}
    MaxLinks = 1
    MaxMoves = 1
    AtBoot <- Boot
PROPERTIES
    ListIsOfTheDevice
CHECK_DEADLOCK FALSE
