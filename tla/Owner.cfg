SPECIFICATION FairSpec
CONSTANTS
    wallet = wallet
    hidden1 = hidden1
    hidden2 = hidden2
    None = None
    Seeds = {wallet, hidden1}
    ShownAs <- ShownAsWallet
    Kept <- WalletKept
    Accounts = {0, 1}
    Count = 2
    Slots = {t1, t2}
    PollSlots = {p1}
    MaxLinks = 1
    MaxMoves = 1
    AtBoot <- Boot
INVARIANTS
    ListUnderItsAccount
PROPERTIES
    ReReadCatches
    CommandsEnd
CHECK_DEADLOCK FALSE
