---------------------------- MODULE BuybackOffers ----------------------------
(***************************************************************************)
(* What create_buyback_orders (db_maint.cpp lines 614-688) promises, as    *)
(* spec 4.8 states it: during a pass every balance row of every buyback    *)
(* account with an allowed_assets list is offered exactly once, in any     *)
(* order; an offer of an allowed, nonzero holding that is not the asset    *)
(* bought may sell part or all of it for the bought asset, every other     *)
(* offer changes nothing.  The pass ends only when every row is offered.   *)
(***************************************************************************)
EXTENDS Naturals

CONSTANTS
    Buybacks,        \* buyback objects, 1 .. N in by_id order
    Assets,          \* asset ids 0 .. K
    AssetToBuy,      \* buyback_object::asset_to_buy
    NoList,          \* allowed_assets not set
    AllowedChoices,  \* lists an account_update may install
    MaxEnvSteps

VARIABLES rows, bal, allowed, inPass, offered, envSteps

vars == <<rows, bal, allowed, inPass, offered, envSteps>>

\* The rows the pass must offer: every row of an account with a list, but
\* the row of the bought asset, which the pass may create while it runs.
Pending == {<<b, a>> \in Buybacks \X Assets :
                allowed[b] # NoList /\ a \in rows[b] /\ a # AssetToBuy[b]}

Sellable(b, a) == bal[b][a] > 0 /\ a \in allowed[b]

Init ==
    /\ rows = [b \in Buybacks |-> {}]
    /\ bal = [b \in Buybacks |-> [a \in Assets |-> 0]]
    /\ allowed \in [Buybacks -> AllowedChoices]
    /\ inPass = FALSE
    /\ offered = {}
    /\ envSteps = 0

Deposit(b, a) ==
    /\ ~inPass /\ envSteps < MaxEnvSteps
    /\ rows' = [rows EXCEPT ![b] = @ \cup {a}]
    /\ bal' = [bal EXCEPT ![b][a] = @ + 1]
    /\ envSteps' = envSteps + 1
    /\ UNCHANGED <<allowed, inPass, offered>>

SetAllowed(b, l) ==
    /\ ~inPass /\ envSteps < MaxEnvSteps
    /\ allowed' = [allowed EXCEPT ![b] = l]
    /\ envSteps' = envSteps + 1
    /\ UNCHANGED <<rows, bal, inPass, offered>>

Begin ==
    /\ ~inPass
    /\ inPass' = TRUE
    /\ UNCHANGED <<rows, bal, allowed, offered, envSteps>>

Offer(b, a) ==
    /\ inPass
    /\ <<b, a>> \in Pending \ offered
    /\ offered' = offered \cup {<<b, a>>}
    /\ \/ /\ ~Sellable(b, a)
          /\ UNCHANGED <<rows, bal>>
       \/ /\ Sellable(b, a)
          /\ \E filled \in 0 .. bal[b][a] :
                /\ bal' = [bal EXCEPT ![b][a] = @ - filled,
                                      ![b][AssetToBuy[b]] = @ + IF filled > 0 THEN 1 ELSE 0]
                /\ rows' = [rows EXCEPT ![b] = @ \cup
                              IF filled > 0 THEN {AssetToBuy[b]} ELSE {}]
    /\ UNCHANGED <<allowed, inPass, envSteps>>

End ==
    /\ inPass
    /\ Pending \subseteq offered
    /\ inPass' = FALSE
    /\ offered' = {}
    /\ UNCHANGED <<rows, bal, allowed, envSteps>>

Next ==
    \/ \E b \in Buybacks, a \in Assets : Deposit(b, a) \/ Offer(b, a)
    \/ \E b \in Buybacks, l \in AllowedChoices : SetAllowed(b, l)
    \/ Begin
    \/ End

Spec == Init /\ [][Next]_vars

=============================================================================
