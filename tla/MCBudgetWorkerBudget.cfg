CONSTANTS
    MaxSupply = 12
    InitHeld = 6
    MaintenanceInterval = 2
    BlockInterval = 1
    SecondsPerDay = 8
    CycleRate = 5
    CycleRateBits = 5
    WitnessPayPerBlock = 1
    WorkerBudgetPerDay = 8
    Workers = {1, 2}
    DailyPay <- MCDailyPay
    WorkerKind <- MCWorkerKind
    WorkerBegin <- MCWorkerBegin
    WorkerEnd <- MCWorkerEnd
    TallyChoices = {0, 1}
    Pools = {1, 3}
    FbaConfigured <- MCFbaConfigured
    Hardfork607Time = 4
    FeeAmounts = {1}
    MaxMissedBlocks = 2
    MaxPendingFees = 1
SPECIFICATION Spec
CONSTRAINT TimeBound
INVARIANT
    WorkerBudgetCoversElapsedTime
