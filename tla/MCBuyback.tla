------------------------------ MODULE MCBuyback ------------------------------
EXTENDS Buyback, TLC

\* Buyback 1 buys asset 2 and buyback 2 asset 3; asset 0 is the core asset.
MCAssetToBuy == (1 :> 2) @@ (2 :> 3)

\* No list, a list without the bought asset, and one that includes it.
MCAllowedChoices == {NoList, {1}, {0, 2, 3}}

=============================================================================
