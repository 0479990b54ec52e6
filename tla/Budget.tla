------------------------------- MODULE Budget -------------------------------
(***************************************************************************)
(* The core-asset money flow of the maintenance pass in                    *)
(* src/libraries/chain/db_maint.cpp: distribute_fba_balances,              *)
(* update_worker_votes, the advance of next_maintenance_time and           *)
(* process_budget with pay_workers, together with the block activity that  *)
(* fills the pools they drain: transaction fees, FBA fees, per-block       *)
(* witness pay.                                                            *)
(*                                                                         *)
(* Core tokens are in one of five places: held by accounts (balances,      *)
(* vesting balances, the null account), accumulated_fees, witness_budget,  *)
(* an FBA accumulator, or the reserve (max_supply - current_supply).       *)
(***************************************************************************)
EXTENDS Integers, Sequences, FiniteSets, FiniteSetsExt, SequencesExt, MaintenanceTime

CONSTANTS
    MaxSupply,            \* core asset options.max_supply
    InitHeld,             \* core held by accounts at genesis (= current_supply)
    MaintenanceInterval,  \* parameters.maintenance_interval
    BlockInterval,        \* parameters.block_interval
    SecondsPerDay,        \* fc::days(1)
    CycleRate,            \* GRAPHENE_CORE_ASSET_CYCLE_RATE
    CycleRateBits,        \* GRAPHENE_CORE_ASSET_CYCLE_RATE_BITS
    WitnessPayPerBlock,   \* parameters.witness_pay_per_block
    WorkerBudgetPerDay,   \* parameters.worker_budget_per_day
    Workers,              \* worker ids, ordered as numbers
    DailyPay,             \* worker_object::daily_pay
    WorkerKind,           \* worker_object::worker variant
    WorkerBegin,          \* worker_object::work_begin_date
    WorkerEnd,            \* worker_object::work_end_date
    TallyChoices,         \* values the vote tally may give a worker's vote ids
    Pools,                \* the three FBA accumulator ids
    FbaConfigured,        \* fba_accumulator_object::is_configured
    Hardfork607Time,      \* HARDFORK_607_TIME
    FeeAmounts,           \* fee amounts one operation may pay
    MaxMissedBlocks,      \* most consecutive missed block slots
    MaxPendingFees        \* bound on fees collected in one interval

ASSUME /\ InitHeld <= MaxSupply
       /\ BlockInterval > 0 /\ MaintenanceInterval > 0
       /\ Workers \subseteq Nat
       /\ \A w \in Workers : WorkerKind[w] \in {"refund", "burn", "vesting"}

VARIABLES
    now,             \* head_block_time()
    blockNum,        \* head_block_num()
    next,            \* dynamic props: next_maintenance_time
    lastBudgetTime,  \* dynamic props: last_budget_time
    supply,          \* core dynamic data: current_supply
    held,            \* core held by accounts, vesting balances, null account
    fees,            \* core dynamic data: accumulated_fees
    witnessBudget,   \* dynamic props: witness_budget
    pools,           \* fba_accumulator_object::accumulated_fba_fees
    tally,           \* vote tally of each worker's vote_for and vote_against
    votesFor,        \* worker_object::total_votes_for
    votesAgainst,    \* worker_object::total_votes_against
    rec,             \* the budget_record of the last pass
    phase            \* where the maintenance pass is

vars == <<now, blockNum, next, lastBudgetTime, supply, held, fees,
          witnessBudget, pools, tally, votesFor, votesAgainst, rec, phase>>

Phases == {"idle", "fba", "workers", "schedule", "budget"}

EmptyRecord == [order |-> << >>, dt |-> 0, total |-> 0, witness |-> 0, worker |-> 0, leftover |-> 0,
                delta |-> 0, requested |-> [w \in Workers |-> 0],
                paid |-> [w \in Workers |-> 0]]

Init ==
    /\ now = 0 /\ blockNum = 0 /\ next = 0 /\ lastBudgetTime = 0
    /\ supply = InitHeld /\ held = InitHeld
    /\ fees = 0 /\ witnessBudget = 0
    /\ pools = [p \in Pools |-> 0]
    /\ tally = [w \in Workers |-> [for |-> 0, against |-> 0]]
    /\ votesFor = [w \in Workers |-> 0] /\ votesAgainst = [w \in Workers |-> 0]
    /\ rec = EmptyRecord
    /\ phase = "idle"

-----------------------------------------------------------------------------
(* Blocks between passes                                                   *)

\* Seeded fault: the producer is paid the full rate whatever is left.
ProduceBlockFullPay(k) ==
    /\ phase = "idle"
    /\ now' = now + k * BlockInterval
    /\ blockNum' = blockNum + 1
    /\ witnessBudget' = witnessBudget - WitnessPayPerBlock
    /\ held' = held + WitnessPayPerBlock
    /\ phase' = IF next <= now' THEN "fba" ELSE "idle"
    /\ UNCHANGED <<next, lastBudgetTime, supply, fees, pools, tally,
                   votesFor, votesAgainst, rec>>

\* A block k slots after the last one.  The producer is paid
\* min(witness_pay_per_block, witness_budget) into a vesting balance; the
\* block runs the maintenance pass when it reaches next_maintenance_time.
ProduceBlock(k) ==
    LET pay == Min({WitnessPayPerBlock, witnessBudget})
    IN
    /\ phase = "idle"
    /\ now' = now + k * BlockInterval
    /\ blockNum' = blockNum + 1
    /\ witnessBudget' = witnessBudget - pay
    /\ held' = held + pay
    /\ phase' = IF next <= now' THEN "fba" ELSE "idle"
    /\ UNCHANGED <<next, lastBudgetTime, supply, fees, pools, tally,
                   votesFor, votesAgainst, rec>>

\* The network's share of an operation fee goes to accumulated_fees.
PayFee(n) ==
    /\ phase = "idle"
    /\ n <= held /\ fees + n <= MaxPendingFees
    /\ held' = held - n
    /\ fees' = fees + n
    /\ UNCHANGED <<now, blockNum, next, lastBudgetTime, supply, witnessBudget,
                   pools, tally, votesFor, votesAgainst, rec, phase>>

\* A blind-transfer fee goes to its FBA accumulator.
PayFbaFee(p, n) ==
    /\ phase = "idle"
    /\ n <= held /\ pools[p] + n <= MaxPendingFees
    /\ held' = held - n
    /\ pools' = [pools EXCEPT ![p] = @ + n]
    /\ UNCHANGED <<now, blockNum, next, lastBudgetTime, supply, fees,
                   witnessBudget, tally, votesFor, votesAgainst, rec, phase>>

\* Accounts change their votes for and against a worker.
ChangeWorkerTally(w, f, a) ==
    /\ phase = "idle"
    /\ tally' = [tally EXCEPT ![w] = [for |-> f, against |-> a]]
    /\ UNCHANGED <<now, blockNum, next, lastBudgetTime, supply, held, fees,
                   witnessBudget, pools, votesFor, votesAgainst, rec, phase>>

-----------------------------------------------------------------------------
(* split_fba_balance (lines 529-605), 20% network, 60% buyback, 20% issuer *)

Percent(x, pct) == (x * pct) \div 100

\* What one accumulator gives back: [burn, credit] for the network share
\* burned from supply and the buyback and issuer shares credited.
\* Seeded fault: the network share is taken as 20% rather than the rest.
FbaSplitNetworkByPercent(p) ==
    IF pools[p] = 0 THEN [burn |-> 0, credit |-> 0]
    ELSE IF ~FbaConfigured[p] THEN [burn |-> pools[p], credit |-> 0]
    ELSE [burn |-> Percent(pools[p], 20),
          credit |-> Percent(pools[p], 60) + Percent(pools[p], 20)]

FbaSplit(p) ==
    IF pools[p] = 0 THEN [burn |-> 0, credit |-> 0]
    ELSE IF ~FbaConfigured[p] THEN [burn |-> pools[p], credit |-> 0]
    ELSE LET buyback == Percent(pools[p], 60)
             issuer  == Percent(pools[p], 20)
         IN  [burn |-> pools[p] - (buyback + issuer), credit |-> buyback + issuer]

\* distribute_fba_balances (lines 607-612): the three accumulators in turn.
DistributeFbaBalances ==
    /\ phase = "fba"
    /\ supply' = supply - MapThenSumSet(LAMBDA p : FbaSplit(p).burn, Pools)
    /\ held' = held + MapThenSumSet(LAMBDA p : FbaSplit(p).credit, Pools)
    /\ pools' = [p \in Pools |-> 0]
    /\ phase' = "workers"
    /\ UNCHANGED <<now, blockNum, next, lastBudgetTime, fees, witnessBudget,
                   tally, votesFor, votesAgainst, rec>>

\* update_worker_votes (lines 102-115)
UpdateWorkerVotes ==
    /\ phase = "workers"
    /\ votesFor' = [w \in Workers |-> tally[w].for]
    /\ votesAgainst' = [w \in Workers |->
                          IF now < Hardfork607Time THEN tally[w].against ELSE 0]
    /\ phase' = "schedule"
    /\ UNCHANGED <<now, blockNum, next, lastBudgetTime, supply, held, fees,
                   witnessBudget, pools, tally, rec>>

\* lines 837-878, away from HARDFORK_616_MAINTENANCE_CHANGE_TIME
AdvanceMaintenanceTime ==
    /\ phase = "schedule"
    /\ next' = NextMaintenanceTime(next, now, MaintenanceInterval, blockNum = 1, FALSE)
    /\ phase' = "budget"
    /\ UNCHANGED <<now, blockNum, lastBudgetTime, supply, held, fees,
                   witnessBudget, pools, tally, votesFor, votesAgainst, rec>>

-----------------------------------------------------------------------------
(* process_budget (lines 324-469) with pay_workers (lines 117-158)         *)

\* worker_object::approving_stake and is_active
ApprovingStake(w) == votesFor[w] - votesAgainst[w]
IsActive(w) == WorkerBegin[w] <= now /\ now <= WorkerEnd[w]

\* more approving stake first, ties to the lower id
PayOrder ==
    SetToSortSeq({w \in Workers : IsActive(w) /\ ApprovingStake(w) > 0},
                 LAMBDA a, b : \/ ApprovingStake(a) > ApprovingStake(b)
                               \/ ApprovingStake(a) = ApprovingStake(b) /\ a < b)

\* daily_pay, pro-rated unless exactly one day passed since the last budget
RequestedPay(w) ==
    IF now - lastBudgetTime = SecondsPerDay THEN DailyPay[w]
    ELSE (DailyPay[w] * (now - lastBudgetTime)) \div SecondsPerDay

\* The greedy payroll: what each worker in order is paid from budget.
\* Seeded fault: a worker the budget cannot fully pay is skipped and the
\* loop goes on to the next one.
RECURSIVE PayLoopSkipUnaffordable(_, _)
PayLoopSkipUnaffordable(order, budget) ==
    IF order = << >> \/ budget <= 0 THEN [w \in Workers |-> 0]
    ELSE LET w   == Head(order)
             pay == IF RequestedPay(w) <= budget THEN RequestedPay(w) ELSE 0
         IN  [PayLoopSkipUnaffordable(Tail(order), budget - pay) EXCEPT ![w] = pay]

RECURSIVE PayLoop(_, _)
PayLoop(order, budget) ==
    IF order = << >> \/ budget <= 0 THEN [w \in Workers |-> 0]
    ELSE LET w   == Head(order)
             pay == Min({budget, RequestedPay(w)})
         IN  [PayLoop(Tail(order), budget - pay) EXCEPT ![w] = pay]

\* initialize_budget_record: time_since_last_budget and total_budget
TimeSinceLastBudget ==
    IF lastBudgetTime = 0 \/ now <= lastBudgetTime THEN 0 ELSE now - lastBudgetTime

TotalBudget(reserve, dt) ==
    IF dt = 0 THEN 0
    ELSE LET b == (reserve * dt * CycleRate + 2^CycleRateBits - 1) \div 2^CycleRateBits
         IN  IF b < reserve THEN b ELSE reserve

\* blocks_to_maint: block slots left before the next maintenance (line 398)
BlocksToMaint(timeToMaint) == (timeToMaint + BlockInterval - 1) \div BlockInterval

\* Seeded fault: the worker budget is not capped at the funds left.
WorkerBudgetUncapped(perInterval, available) == perInterval

\* worker_budget: the per-interval rate, capped at what the witness budget
\* left of the total (lines 412-421)
WorkerBudget(perInterval, available) ==
    IF perInterval >= available THEN available ELSE perInterval

ProcessBudget ==
    LET timeToMaint   == next - now
        blocksToMaint == BlocksToMaint(timeToMaint)
        reserve       == (MaxSupply - supply) + fees + witnessBudget
        total         == TotalBudget(reserve, TimeSinceLastBudget)
        witness       == Min({WitnessPayPerBlock * blocksToMaint, total})
        perInterval   == (WorkerBudgetPerDay * timeToMaint) \div SecondsPerDay
        worker        == WorkerBudget(perInterval, total - witness)
        paid          == PayLoop(PayOrder, worker)
        paidTotal     == MapThenSumSet(LAMBDA w : paid[w], Workers)
        refunded      == MapThenSumSet(LAMBDA w : IF WorkerKind[w] = "refund"
                                                  THEN paid[w] ELSE 0, Workers)
        leftover      == worker - paidTotal
        delta         == witness + worker - leftover - fees - witnessBudget
    IN
    /\ phase = "budget"
    /\ timeToMaint > 0
    \* refund_worker lowers current_supply inside pay_workers; the
    \* modify() that adds supply_delta runs after it
    /\ supply' = supply - refunded + delta
    /\ held' = held + paidTotal - refunded
    /\ fees' = 0
    /\ witnessBudget' = witness
    /\ lastBudgetTime' = now
    /\ rec' = [order |-> PayOrder, dt |-> TimeSinceLastBudget, total |-> total, witness |-> witness, worker |-> worker,
               leftover |-> leftover, delta |-> delta,
               requested |-> [w \in Workers |-> IF w \in ToSet(PayOrder)
                                                 THEN RequestedPay(w) ELSE 0],
               paid |-> paid]
    /\ phase' = "idle"
    /\ UNCHANGED <<now, blockNum, next, pools, tally, votesFor, votesAgainst>>

Next ==
    \/ \E k \in 1 .. MaxMissedBlocks + 1 : ProduceBlock(k)
    \/ \E n \in FeeAmounts : PayFee(n)
    \/ \E p \in Pools, n \in FeeAmounts : PayFbaFee(p, n)
    \/ \E w \in Workers, f, a \in TallyChoices : ChangeWorkerTally(w, f, a)
    \/ DistributeFbaBalances
    \/ UpdateWorkerVotes
    \/ AdvanceMaintenanceTime
    \/ ProcessBudget

Spec == Init /\ [][Next]_vars

-----------------------------------------------------------------------------
(* Properties                                                              *)

TypeOK ==
    /\ now \in Nat /\ blockNum \in Nat /\ next \in Nat /\ lastBudgetTime \in Nat
    /\ supply \in Nat /\ held \in Nat /\ fees \in Nat
    /\ witnessBudget \in Nat
    /\ pools \in [Pools -> Nat]
    /\ tally \in [Workers -> [for : TallyChoices, against : TallyChoices]]
    /\ votesFor \in [Workers -> Nat] /\ votesAgainst \in [Workers -> Nat]
    /\ rec.paid \in [Workers -> Nat] /\ rec.requested \in [Workers -> Nat]
    /\ phase \in Phases

\* Every core token in current_supply is held by an account or waits in
\* accumulated_fees, witness_budget or an FBA accumulator (spec section 3,
\* invariant 1), before, during and after every pass: the budget's
\* supply_delta, the refund workers' burns and the FBA network burns
\* together move exactly what they take from the reserve.
SupplyConservation ==
    supply = held + fees + witnessBudget + MapThenSumSet(LAMBDA p : pools[p], Pools)

\* The budget never hands out more than the reserve: current_supply stays
\* within max_supply however late a maintenance block arrives.
SupplyWithinMax == supply <= MaxSupply

\* The payroll of the last pass is greedy in its order: nobody is paid more
\* than requested, the total stays within the worker budget, and a worker
\* paid less than it requested is followed only by workers paid nothing.
PayrollGreedy ==
    LET o == rec.order
    IN  /\ \A w \in Workers : rec.paid[w] <= rec.requested[w]
        /\ MapThenSumSet(LAMBDA w : rec.paid[w], Workers) <= rec.worker
        /\ \A i, j \in 1 .. Len(o) :
              (i < j /\ rec.paid[o[i]] < rec.requested[o[i]]) => rec.paid[o[j]] = 0

\* The worker budget pays for the time elapsed since the last budget
\* (spec section 4.1: worker_budget = worker_budget_per_day * dt / 86400).
WorkerBudgetCoversElapsedTime ==
    (phase = "idle" /\ rec # EmptyRecord) =>
        rec.worker = Min({(WorkerBudgetPerDay * rec.dt) \div SecondsPerDay,
                          rec.total - rec.witness})

=============================================================================
