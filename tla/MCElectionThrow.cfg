CONSTANTS
    a1 = a1
    a2 = a2
    a3 = a3
    Accounts = {a1, a2, a3}
    ProxyToSelf = ProxyToSelf
    ByName <- MCByName
    IsMember <- MCIsMember
    Witnesses = {1, 2, 3}
    WitnessVoteId <- MCWitnessVoteId
    WitnessAccount <- MCWitnessAccount
    Committee = {1, 2, 3}
    CommitteeVoteId <- MCCommitteeVoteId
    CommitteeAccount <- MCCommitteeAccount
    NextVoteId = 6
    MinWitnessCount = 1
    MinCommitteeCount = 1
    InitParams <- MCInitParams
    ParamChoices <- MCParamChoices
    InitStake <- MCInitStake
    Stakes <- MCStakes
    VoteChoices <- MCVoteChoices
    NumChoices <- MCNumChoices
    AccountFeeScaleBitshifts = 1
    AccountsPerFeeScale = 2
    FeeProcessingMayThrow = TRUE
    TopNAccount = a1
    NumTopHolders = 1
    MaxEnvSteps = 2
    StakeWidth = 30
    MaxRegistered = 3
SPECIFICATION Spec
INVARIANT
    TallyMatchesStake
