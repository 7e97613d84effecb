SPECIFICATION Spec
CONSTANTS
    wallet = wallet
    hidden1 = hidden1
    hidden2 = hidden2
    None = None
    Seeds = {wallet, hidden1, hidden2}
    ShownAs <- ShownAsWallet
    Kept <- WalletKept
    Accounts = {0}
    Count = 2
    Slots = {t1}
    PollSlots = {}
    MaxLinks = 1
    MaxMoves = 2
    AtBoot <- Boot
PROPERTIES
    ListIsOfTheDevice
CHECK_DEADLOCK FALSE
