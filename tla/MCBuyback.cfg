CONSTANTS
    Buybacks = {1, 2}
    Assets = {0, 1, 2, 3}
    AssetToBuy <- MCAssetToBuy
    NoList = NoList
    AllowedChoices <- MCAllowedChoices
    MaxEnvSteps = 4
SPECIFICATION Spec
INVARIANT
    TypeOK
PROPERTIES
    BuybackRefinesOffers
    WalkTerminates
