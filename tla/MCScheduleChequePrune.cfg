CONSTANTS
    GenesisTime = 0
    Interval = 8
    BlockInterval = 2
    MaxMissedBlocks = 1
    ShiftTime = 16
    HF613 = 24
    Members = {m1}
    UpgradeMayFail = TRUE
    FundsTime = 4
    Funds = {1, 2}
    FundEnd <- MCFundEnd
    Cheques = {1, 2}
    ChequeLifetime <- MCChequeLifetime
    ChequeTimes = {0, 6}
    ReverseMayFail = FALSE
    Day = 4
    HistorySize = 3
    m1 = m1
SPECIFICATION Spec
CONSTRAINT TimeBound
INVARIANT
    NewChequeNeverPruned
