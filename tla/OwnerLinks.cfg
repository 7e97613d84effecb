SPECIFICATION FairSpec
CONSTANTS
    wallet = wallet
    hidden1 = hidden1
    hidden2 = hidden2
    None = None
    Seeds = {wallet}
    ShownAs <- ShownAsWallet
    Kept <- WalletKept
    Accounts = {0}
    AtBoot <- Boot
    Count = 1
    Slots = {t1, t2}
    PollSlots = {p1}
    MaxLinks = 2
    MaxMoves = 0
PROPERTIES
    CommandsEnd
CHECK_DEADLOCK FALSE
