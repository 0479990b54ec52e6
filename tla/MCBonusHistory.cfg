CONSTANTS
    a1 = a1
    a2 = a2
    Accounts = {a1, a2}
    Blacklisted = {a2}
    Referred = {a1}
    Holders = {a1, a2}
    Day = 2
    HistorySize = 1
    HF616 = 1
    HF617 = 6
    HF618 = 7
    HF619 = 9
    HF620 = 10
    MaxOps = 3
SPECIFICATION Spec
CONSTRAINT TimeBound
INVARIANTS
    NoPrunedHistoryRead
    OldBonusOnlyToActive
