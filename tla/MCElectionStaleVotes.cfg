CONSTANTS
    a1 = a1
    a2 = a2
    a3 = a3
    Accounts = {a1, a2, a3}
    ProxyToSelf = ProxyToSelf
    ByName <- MCByName
    IsMember <- MCIsMember
    Witnesses = {1, 2, 3}
    WitnessVoteId <- MCWitnessVoteId
    WitnessAccount <- MCWitnessAccount
    Committee = {1, 2, 3}
    CommitteeVoteId <- MCCommitteeVoteId
    CommitteeAccount <- MCCommitteeAccount
    NextVoteId = 6
    MinWitnessCount = 1
    MinCommitteeCount = 1
    InitParams <- MCInitParams
    ParamChoices <- MCParamChoices
    InitStake <- MCInitStake
    Stakes <- MCFewStakes
    VoteChoices <- MCFewVoteChoices
    NumChoices <- MCFewNumChoices
    AccountFeeScaleBitshifts = 1
    AccountsPerFeeScale = 2
    FeeProcessingMayThrow = FALSE
    TopNAccount = a1
    NumTopHolders = 1
    MaxEnvSteps = 3
    StakeWidth = 30
    MaxRegistered = 3
SPECIFICATION Spec
INVARIANT
    CommitteeElectionRespectsVotes
