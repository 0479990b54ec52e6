# TLA+ models of the chain maintenance pass

This directory models `database::perform_chain_maintenance` and what it calls
(`src/libraries/chain/db_maint.cpp`), the once-per-maintenance-interval pass of
this graphene-based chain, for the TLC model checker.

## The system

The pass runs inside block application when a block's timestamp reaches
`next_maintenance_time`. It is single-threaded: nothing interleaves with it.
If any step throws, the whole block is rolled back by the object store's undo
layer. Its parts, in the order the code runs them:

| Part | Code | What it does |
|---|---|---|
| C7 FBA splitter | `split_fba_balance`, `distribute_fba_balances` (529-612) | Splits each fee-backed-asset pool 60/20/20 into buyback, issuer and network (burned). An unconfigured pool is burned whole. |
| C8 buyback orders | `create_buyback_orders` (614-688) | Posts a limit order and cancels it at once for each allowed holding of a buyback account. |
| C3 vote tally + C2 fees | `vote_tally_helper`, `process_fees_helper`, `perform_account_maintenance` (76-82, 728-807) | One loop over the accounts by name. Adds each account's voting stake to `_vote_tally_buffer`, to both count histograms and to `_total_voting_stake`, then flushes its fees. |
| scratch-buffer guard | `clear_canary` (809-817) | Empties the three buffers when the pass returns. |
| C4 top-N authorities | `update_top_n_authorities` (471-527) | Rebuilds top-holder special authorities with `vote_counter`. |
| C5 elector | `update_active_witnesses`, `update_active_committee_members`, `sort_votable_objects` (52-74, 160-322) | Derives the desired count from a histogram and elects the best candidates. Sets `total_votes` and rebuilds the witness, committee and relaxed-committee authorities: the legacy construction before HARDFORK_533, `vote_counter` after it. |
| C6 worker votes | `update_worker_votes` (102-115) | Copies tallies into the workers. Votes against count only before HARDFORK_607. |
| parameter switch | lines 824-835 | Undoes the account-fee scaling of the interval, then swaps in `pending_parameters`. |
| next maintenance | lines 837-878 | Advances `next_maintenance_time`, with a one-shot 0.375 shift at HARDFORK_616_MAINTENANCE_CHANGE_TIME, and resets `accounts_registered_this_interval`. |
| annual members | `deprecate_annual_members` (690-719, called at 872) | The pass whose new `next_maintenance_time` crosses HARDFORK_613 upgrades every annual member to lifetime. |
| C1 budget + C6 pay | `initialize_budget_record`, `process_budget`, `pay_workers` (117-158, 324-469) | Sizes the period budget from the reserve, then pays the witness budget and the workers greedily, and updates supply. |
| C10 funds, cheques | `process_funds`, `process_cheques` (971-1019) | Processes or finishes funds, and reverses expired cheques. |
| C9 bonuses | `issue_bonuses*` (1021-1256) | Daily bonuses, chosen by hardfork. |
| C11 reaper | `clear_old_entities` (908-969) | Prunes history older than the retention horizon. |

The parts interact only through global state, in that fixed order:
- the tally feeds the elector and the worker votes;
- the new `next_maintenance_time` feeds `process_budget` (`time_to_maint`), `process_funds` and `process_cheques`;
- `process_cheques` walks `cheque_index`, which the reaper prunes right after it by creation time;
- the fees the tally loop flushes feed the budget reserve.

## Modules

- **Election.tla** (C3, C4, C5, the parameter switch, the buffer guard, the C2 failure path).
  - State: account options and stake, parameters and pending parameters, `accounts_registered_this_interval`, the scratch buffers, `total_votes`, the active sets and the three authorities.
  - Environment actions: between passes, the environment changes account options (`UpdateAccountOptions`), stake, pending parameters and registrations, and crosses HARDFORK_533.
  - Pass actions, one per step of the code in its order: `PerformAccountMaintenance`, `UpdateTopNAuthorities` (one account, `TopNAccount`, with a top-holders authority on its active slot; the asset's balances are the stakes), `UpdateActiveWitnesses`, `UpdateActiveCommitteeMembers`, `SwitchParameters` and `EndPass` (the `clear_canary` destructors).
  - `AccountMaintenanceThrows(k)`: `process_fees` throws at the k-th account. The block is rolled back, which restores every object but not the buffers, because the guards are constructed only after the loop.
  - `vote_counter` (`vote_count.hpp`) is not in the repository. `VoteCounter` models it from the spec, and the elections and the top-N update both feed it.
- **Budget.tla** (C7, C6, C1, the budget side of next maintenance).
  - State: supply, held balances, accumulated fees, the witness budget, FBA pools, worker tallies and the last budget record.
  - Actions: `ProduceBlock(k)` (k-1 missed slots, the producer paid from the witness budget), fees, FBA fees, worker votes. The pass runs `DistributeFbaBalances`, `UpdateWorkerVotes`, `AdvanceMaintenanceTime`, `ProcessBudget`.
  - `PayLoop` is the `pay_workers` loop, written as a RECURSIVE operator.
- **MaintenanceTime.tla**: the pure `next_maintenance_time` arithmetic (lines 840-868), shared by Budget and Schedule.
- **Schedule.tla** (next maintenance with the shift, `time_to_maint`, `deprecate_annual_members`, C10, the cheque part of C11).
  - Actions: blocks with missed slots; `fund_set_enable` and `cheque_create` between blocks; then the pass steps `AdvanceMaintenance` (which runs `DeprecateAnnualMembers` when `CrossesHF613`), `ProcessFunds`, `ProcessCheques`, `PruneCheques`.
  - A swallowed `cheque_reverse` failure is a nondeterministic subset of the due cheques; a failed `account_upgrade` is a nondeterministic subset of the annual members.
  - `chequeAlive` is the set of cheques still in `cheque_index`; `PruneCheques` removes those created before head - `history_size` days, whatever their status.
- **Buyback.tla** (C8): one step per iteration of the `while(true)` loop.
  - State: the buyback accounts' balance rows and balances, `allowed_assets`, the buyback object the loop is at (`cur`) and `next_asset` (`cursor`).
  - Actions: `NextBuyback` (the `allowed_assets` skip and the two `break`s), `SkipHolding` (the three `continue`s), `SellHolding` (create, market fill of any part, cancel; a swallowed evaluator rejection is the fill of nothing).
  - Between passes the environment deposits into the accounts and changes `allowed_assets`.
- **BuybackOffers.tla**: the abstract specification of C8 (spec 4.8). Every row of every account with a list is offered exactly once per pass, in any order, and the pass ends only when all are offered. `Buyback` maps onto it with `INSTANCE BuybackOffers WITH inPass <- phase = "walk", offered <- Offered`, where `Offered` is the rows behind the cursor.
- **BonusHistory.tla** (C9 variant selection and skips, C11): per block, operations append to the account-history linked lists (`Op`), then the pass runs the bonus variant the head time selects and then `Reap` (`clear_old_entities`).
  - `WalkFrom` is the legacy activity-gate walk, RECURSIVE. It returns `"fault"` where `db.get` would throw on a removed object.
  - Amounts are abstracted to the constant `Holders` (accounts whose quantity reaches 1).
- **MCElection / MCBudget / MCSchedule / MCBuyback / MCBonusHistory**: the instances. Small accounts, witnesses, committee, workers, pools, funds and cheques are given as definitions.

Every definition that models code is listed in `PROJECT.json` under `map`, with the lines it translates. Each seeded-fault operator is defined just before the definition it replaces. These are the mutants: named like `BetterTieHigherId`, each changed the way a plausible bug would change the code.

## Runs

| Run | Checks | Shows |
|---|---|---|
| `election` | TypeOK, WitnessElectionRespectsVotes, AuthorityFollowsElection, TopNAuthorityFollowsHolders, FeeScaleMatchesRegistrations, WitnessCountIsStakeMedian, TopNControlMatchesAuthority | With `process_fees` allowed to abort blocks in the tally loop: the witness set is the best by tally, with ties to the lower vote id. Authorities are well formed (weights 1..65535, threshold = sum/2+1) and follow the election, both before and after HARDFORK_533. The top-holders authority lists the largest holders other than the account itself. `top_n_control_active` is set exactly when the account's own key has been replaced by holders, even after every selected holder's balance falls to zero: `vote_counter` then leaves the former holders in control (line 522). The fee scaling is undone. The witness count is 2m+1 for m the stake median of spec 4.3 over the `stake_target` the code computes. That target is a `uint64_t` difference (`StakeTarget`): after a thrown block leaves a stale `hist[0]` above the fresh total, it wraps, and the loop runs to the largest bucket. The count loop (`CountLoop`) equals the reference `StakeMedian` on every histogram of up to three non-abstaining buckets of 0..2, for every target 0..4 and for a wrapped target. |
| `election_committee_target` (violation) | CommitteeCountFromCommitteeHistogram | The committee target subtracts the witness abstainers (line 248). The commented-out `_committee_count_histogram_buffer[0]` at line 252 and spec 4.3 use the committee histogram, and spec section 9 flags the line. |
| `election_stale_votes` (violation) | CommitteeElectionRespectsVotes | Members voted out keep their old `total_votes`. |
| `election_throw` (violation) | TallyMatchesStake | A throw in the tally loop leaves the buffers filled, and the next pass's tally adds the stale partial tally to the new stake. |
| `budget` | TypeOK, SupplyConservation, SupplyWithinMax, PayrollGreedy | Supply equals held balances + fees + witness budget + FBA pools at every step. Supply never exceeds the maximum. Workers are paid in order, each in full until the budget runs out. |
| `budget_worker_span` (violation) | WorkerBudgetCoversElapsedTime | The worker budget uses `time_to_maint` (line 414), not the elapsed time the spec names. |
| `schedule` | TypeOK, NextMaintenanceAfterHead, ChequeNeverReversedEarly, AnnualDeprecationOneShot, NextMaintenanceOnGrid | With the shift on a boundary, the next maintenance is after the head and at most one interval ahead. No cheque is reversed before its expiry. The annual-member deprecation runs in exactly one pass, the one that reaches HARDFORK_613, though a boundary lands exactly on the fork. `next_maintenance_time` stays on the interval grid, or on the grid shifted by 3/8 interval after the one-shot shift (spec 8 property 6). |
| `schedule_fund_finish` (violation) | OverdueFundsFinished | A fund ending between two boundaries is never finished. |
| `schedule_cheque_prune` (violation) | NewChequeNeverPruned | With a 12-unit history horizon, a cheque with a 17-unit lifetime is removed from `cheque_index` while still new, so it is never reversed. The same happens in the `schedule` instance (24-unit horizon) when a reversal throws near the horizon. |
| `buyback` | TypeOK, BuybackRefinesOffers, WalkTerminates | The `next_asset` walk implements `BuybackOffers`: every row offered exactly once, only allowed nonzero holdings other than the bought asset sold, even when a fill creates the bought asset's row in the middle of the walk. Every pass terminates. |
| `bonus_history` | NoPrunedHistoryRead, OldBonusOnlyToActive | The reaper never removes a history node or operation that `issue_bonuses_old` can reach. The legacy variant pays only unlisted accounts with an outbound EDC transfer less than 24 hours old. |
| `bonus_gate_620` (violation) | LegacyBonusOnlyToActive | `issue_bonuses_before_620` pays without the activity gate that spec 4.9 gives both legacy variants. |

`PROJECT.json` lists the findings each violation run supports and the hazards of the code, each with the properties that cover it.

## Bounds

- **Election:**
  - 3 accounts in by_name order, one of them not a member;
  - 3 witnesses and 3 committee members;
  - 6 vote ids, where witness ids and committee ids interleave so that ties and proxies matter;
  - stakes chosen so that a single account's stake exceeds 2^16 and the legacy shift drops bits. A stake can also drop to 0, so the top-holders walk can select only empty balances;
  - two environment steps between passes;
  - `StakeWidth` = 30 in place of 64: TLC integers are 32-bit, and every stake and tally stays below 2^20, so a wrapped target (at least 2^29) exceeds every tally exactly as a 64-bit one does;
  - `num_top_holders` = 1 for a1, the largest holder at first, so the owner skip matters.

  Together these reach: every phase; both sides of HARDFORK_533; a proxy; a num_witness above a lowered maximum; fee scaling at two registrations; and a throw at each position of the loop. Three steps take over ten minutes and add no new kind of state.
- **Budget:**
  - two workers (refund and vesting) with different pay;
  - one configured FBA pool and one unconfigured;
  - interval 2 and day 8 (so a budget sometimes covers a whole day and sometimes a part);
  - up to two missed slots;
  - time bounded by `TimeBound` (now ≤ 8), which takes in HARDFORK_607 at 4.
- **Schedule:**
  - interval 8 and block interval 2;
  - up to one missed slot;
  - fund ends on (16) and between (13) boundaries;
  - cheques created at time 0 or 6 with lifetimes 6 and 17; a day of 4 units and `history_size` 6 days (3 in `schedule_cheque_prune`), so cheques are pruned both after their reversal and (with a failed reversal, or the shorter horizon) before it;
  - HARDFORK_613 at 24, a boundary of the unshifted grid, so the crossing test meets a stored time equal to the fork; one annual member;
  - time up to 36, covering the shift at 16 and three intervals after it.

- **Buyback:** two buyback objects buying assets 2 and 3, assets 0..3, and four environment steps.
  - The `allowed_assets` choices are: none, a list without the bought asset, and a list with it.
  - So every skip, a fill that creates the bought asset's row ahead of the cursor, and an account without a list all occur.
- **BonusHistory:**
  - two accounts, one blacklisted; up to three history nodes;
  - a day of 2 time units and `history_size` of 1 day;
  - hardforks 616..620 at 1, 6, 7, 9 and 10, with time up to 11.

  So a node can be pruned while a newer node still links to it, inside the legacy window, and every variant and the online window run.

## Fairness

Most specifications are safety specifications (`Init /\ [][Next]_vars`). The
Election spec states weak fairness of the pass steps, and the Buyback spec
states `WF_vars(Walk)`. A pass, once started, runs to completion because it is
one loop in the single thread of block application; nothing can interleave with
it. `WalkTerminates` (`phase = "walk" ~> phase = "idle"`) is checked under that
fairness. A walk step that left the state unchanged would satisfy the fairness
and still never end the pass. Time bounds are state constraints, so the last
states are not deadlocks.

## Not modelled (yet)

- **In C9:**
  - amounts, `check_supply_overflow`, the referral tree, mature balances and `process_bonus_balances`, which are outside the repository or abstracted to `Holders`;
  - the `HARDFORK_620` branches inside `issue_bonuses_before_620`, which are unreachable because that variant runs only up to HARDFORK_620.
- **In C11:** the mature-balance reset (line 910) and the pruning of fund history and blind transfers, which nothing modelled reads.
- **The comment at line 769 against the histogram code:** `HistogramCountsAllStake` (Election) states what the comment says; TLC finds it violated when a maximum below an account's `num_witness` drops its stake from every bucket. The behaviour is inherited from upstream graphene; it is recorded here and in the hazards rather than by a run.
- **The object store, the evaluators, the market engine, `fund_object::process/finish`, `vote_counter` and the workers' `pay_worker`:** not in the repository. They appear only through the effect the spec gives them.
- **A change of `maintenance_interval`:** Schedule keeps the interval constant. The code reads the interval after the parameter switch and advances from the old boundary by the new interval, so after a change the boundaries are no longer multiples of the interval from the epoch (spec 8 property 6); this is arithmetic and is listed as a hazard.
- **The witness budget against the slots left:** after a missed slot the witness budget left over exceeds one pay per remaining slot (an interval of three slots with one missed leaves two pays for one slot). The remainder returns to the reserve at the next `process_budget`, so no property bounds it.
- **Logging, the `force_settled_volume` reset and the notify block number:** these change nothing any property reads.

## Plan

1. Election (with C4), Budget, Schedule, Buyback (with refinement and termination), BonusHistory: done.
2. An abstract election specification (the best 2k+1 by votes) with a refinement: not pursued. Its promise is exactly what `WitnessElectionRespectsVotes` (the best by tally, ties to the lower vote id) and `WitnessCountIsStakeMedian` (the size) already state of every reachable state, so a refinement would add no check.
4. `deprecate_annual_members` and the cheque part of the reaper: done (Schedule).
3. `DesiredCount` checked against a reference definition: done (`WitnessCountIsStakeMedian`).
