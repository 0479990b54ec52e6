------------------------------ MODULE MCBudget ------------------------------
(***************************************************************************)
(* Time is scaled: one unit stands for 1/8 of a day, so the maintenance    *)
(* interval (2 units) is a quarter day and a block slot 1 unit.  The cycle  *)
(* rate 5/2^5 per unit makes a pass two intervals late hit the cap at the   *)
(* reserve.  Two workers, a refund and a vesting one, compete for a worker  *)
(* budget smaller than their pay; one of the three FBA accumulators is not  *)
(* configured.                                                             *)
(***************************************************************************)
EXTENDS Budget, TLC

MCDailyPay == (1 :> 8) @@ (2 :> 4)
MCWorkerKind == (1 :> "refund") @@ (2 :> "vesting")
MCWorkerBegin == (1 :> 0) @@ (2 :> 0)
MCWorkerEnd == (1 :> 100) @@ (2 :> 100)
MCFbaConfigured == (1 :> TRUE) @@ (2 :> TRUE) @@ (3 :> FALSE)

\* The exploration stops at time 8, one day.
TimeBound == now <= 8
=============================================================================
