------------------------------- MODULE Buyback -------------------------------
(***************************************************************************)
(* create_buyback_orders (db_maint.cpp lines 614-688), one loop iteration *)
(* per step.  For each buyback object in id order the walk seeks the      *)
(* account's next balance row with lower_bound(account, next_asset),      *)
(* moves next_asset past it, skips the bought asset, an empty holding and *)
(* a disallowed asset, and otherwise posts a limit order selling the      *)
(* whole holding for at least one unit of the bought asset and cancels    *)
(* what is left of it.  The market may fill any part of the order; an     *)
(* evaluator rejection (caught at line 678) fills nothing.  The received  *)
(* amount is abstracted to one unit.                                      *)
(***************************************************************************)
EXTENDS Naturals, FiniteSets

CONSTANTS Buybacks, Assets, AssetToBuy, NoList, AllowedChoices, MaxEnvSteps

VARIABLES
    rows,      \* assets for which the buyback account has a balance object
    bal,       \* account_balance_object::balance per account and asset
    allowed,   \* account_object::allowed_assets, or NoList
    phase,     \* "idle" | "walk"
    cur,       \* the buyback object the loop is at
    cursor,    \* next_asset
    envSteps

vars == <<rows, bal, allowed, phase, cur, cursor, envSteps>>

LastBuyback == CHOOSE b \in Buybacks : \A c \in Buybacks : c <= b

Init ==
    /\ rows = [b \in Buybacks |-> {}]
    /\ bal = [b \in Buybacks |-> [a \in Assets |-> 0]]
    /\ allowed \in [Buybacks -> AllowedChoices]
    /\ phase = "idle"
    /\ cur = 1
    /\ cursor = 0
    /\ envSteps = 0

\* Between passes: a transfer or an FBA credit into a buyback account,
\* creating its balance row on first use.
Deposit(b, a) ==
    /\ phase = "idle" /\ envSteps < MaxEnvSteps
    /\ rows' = [rows EXCEPT ![b] = @ \cup {a}]
    /\ bal' = [bal EXCEPT ![b][a] = @ + 1]
    /\ envSteps' = envSteps + 1
    /\ UNCHANGED <<allowed, phase, cur, cursor>>

\* Between passes: account_update sets or replaces allowed_assets.
SetAllowed(b, l) ==
    /\ phase = "idle" /\ envSteps < MaxEnvSteps
    /\ allowed' = [allowed EXCEPT ![b] = l]
    /\ envSteps' = envSteps + 1
    /\ UNCHANGED <<rows, bal, phase, cur, cursor>>

BeginPass ==
    /\ phase = "idle"
    /\ phase' = "walk" /\ cur' = 1 /\ cursor' = 0
    \* asset_id_type() is asset 0
    /\ UNCHANGED <<rows, bal, allowed, envSteps>>

\* lower_bound(account, next_asset): the account's first row at or after
\* the cursor, or none when the iterator leaves the account (lines 635-639).
Seek == {a \in rows[cur] : a >= cursor}

Found == CHOOSE a \in Seek : \A x \in Seek : a <= x

\* Lines 627-631 and 635-639: an account without allowed_assets is skipped,
\* and the loop breaks when no row is left; the for loop moves to the next
\* buyback object with next_asset reset, or the pass goes on.
NextBuyback ==
    /\ phase = "walk"
    /\ allowed[cur] = NoList \/ Seek = {}
    /\ IF cur = LastBuyback
         THEN phase' = "idle" /\ UNCHANGED <<cur, cursor>>
         ELSE cur' = cur + 1 /\ cursor' = 0 /\ UNCHANGED phase
    /\ UNCHANGED <<rows, bal, allowed, envSteps>>

\* Lines 643-651: the bought asset, an empty holding and a disallowed
\* asset are skipped, next_asset having already moved past the row.
Skipped(a) ==
    \/ a = AssetToBuy[cur]
    \/ bal[cur][a] = 0
    \/ a \notin allowed[cur]

\* Seeded fault: next_asset advanced by two, past the following row.
NextAssetPastNeighbour(a) == a + 2

NextAsset(a) == a + 1

\* Seeded fault: the cursor advanced only on the path that posts an order.
SkipHoldingBeforeAdvance ==
    /\ phase = "walk" /\ allowed[cur] # NoList /\ Seek # {}
    /\ Skipped(Found)
    /\ UNCHANGED vars

SkipHolding ==
    /\ phase = "walk" /\ allowed[cur] # NoList /\ Seek # {}
    /\ Skipped(Found)
    /\ cursor' = NextAsset(Found)
    /\ UNCHANGED <<rows, bal, allowed, phase, cur, envSteps>>

\* Seeded fault: amount_to_sell read from the bought asset's row.
AmountToSellOfBoughtAsset(b, a) == bal[b][AssetToBuy[b]]

AmountToSell(b, a) == bal[b][a]

\* Lines 653-684: limit_order_create of the whole holding, matched by the
\* market for some part, then limit_order_cancel of the rest; a rejected
\* create is the fill of nothing.
SellHolding ==
    /\ phase = "walk" /\ allowed[cur] # NoList /\ Seek # {}
    /\ ~Skipped(Found)
    /\ cursor' = NextAsset(Found)
    /\ \E filled \in 0 .. AmountToSell(cur, Found) :
          /\ bal' = [bal EXCEPT ![cur][Found] = @ - filled,
                                ![cur][AssetToBuy[cur]] = @ + IF filled > 0 THEN 1 ELSE 0]
          /\ rows' = [rows EXCEPT ![cur] = @ \cup
                        IF filled > 0 THEN {AssetToBuy[cur]} ELSE {}]
    /\ UNCHANGED <<allowed, phase, cur, envSteps>>

Walk == NextBuyback \/ SkipHolding \/ SellHolding

Next ==
    \/ \E b \in Buybacks, a \in Assets : Deposit(b, a)
    \/ \E b \in Buybacks, l \in AllowedChoices : SetAllowed(b, l)
    \/ BeginPass
    \/ Walk

\* The walk is one loop in one thread of block application: once begun it
\* keeps taking steps.
Spec == Init /\ [][Next]_vars /\ WF_vars(Walk)

-----------------------------------------------------------------------------
(* Properties                                                              *)

TypeOK ==
    /\ rows \in [Buybacks -> SUBSET Assets]
    /\ bal \in [Buybacks -> [Assets -> Nat]]
    /\ phase \in {"idle", "walk"}
    /\ cur \in Buybacks
    /\ cursor \in 0 .. Cardinality(Assets) + 1

\* The rows of the walk's buyback objects already behind the cursor.
Offered ==
    IF phase = "idle" THEN {}
    ELSE {<<b, a>> \in Buybacks \X Assets :
            /\ allowed[b] # NoList /\ a \in rows[b] /\ a # AssetToBuy[b]
            /\ b < cur \/ (b = cur /\ a < cursor)}

Abstract == INSTANCE BuybackOffers WITH inPass <- phase = "walk", offered <- Offered

\* The next_asset walk offers every balance row of every buyback account
\* with allowed_assets exactly once per pass, sells only allowed, nonzero
\* holdings other than the bought asset, and the pass ends only after all
\* of them: create_buyback_orders implements spec 4.8.
BuybackRefinesOffers == Abstract!Spec

\* A pass that starts always ends: no skip or swallowed evaluator failure
\* leaves next_asset where it was, so the while(true) loop terminates.
WalkTerminates == phase = "walk" ~> phase = "idle"

=============================================================================
