------------------------------ MODULE Election ------------------------------
(***************************************************************************)
(* The election half of database::perform_chain_maintenance               *)
(* (src/libraries/chain/db_maint.cpp): the vote tally over all accounts,   *)
(* update_active_witnesses, update_active_committee_members, the           *)
(* parameter switch-over and the end of the pass, where the scratch        *)
(* buffers are released.  Between passes the environment (account_update   *)
(* operations, committee proposals, registrations, the clock crossing      *)
(* HARDFORK_533) changes what the accounts vote for.                       *)
(*                                                                         *)
(* The pass is single-threaded: it is modelled as a fixed sequence of      *)
(* phases that no environment step can interleave with.  A failure in the  *)
(* tally loop rolls the block back, which restores every database object   *)
(* but not the scratch buffers, which are plain members of `database`.     *)
(***************************************************************************)
EXTENDS Integers, Sequences, FiniteSets, FiniteSetsExt

CONSTANTS
    Accounts,            \* account ids (model values)
    ByName,              \* the accounts in by_name index order (a sequence)
    ProxyToSelf,         \* GRAPHENE_PROXY_TO_SELF_ACCOUNT
    IsMember,            \* account_object::is_member(now), per account
    Witnesses,           \* witness ids
    WitnessVoteId,       \* witness_object::vote_id
    WitnessAccount,      \* witness_object::witness_account
    Committee,           \* committee member ids
    CommitteeVoteId,     \* committee_member_object::vote_id
    CommitteeAccount,    \* committee_member_object::committee_member_account
    NextVoteId,          \* global_property_object::next_available_vote_id
    MinWitnessCount,     \* immutable_parameters.min_witness_count
    MinCommitteeCount,   \* immutable_parameters.min_committee_member_count
    InitParams,          \* chain parameters in force at the start
    ParamChoices,        \* parameter sets the committee may propose
    InitStake,           \* initial voting stake of every account
    Stakes,              \* voting stakes an account may come to hold
    VoteChoices,         \* vote sets an account_update may set
    NumChoices,          \* num_witness / num_committee values it may set
    AccountFeeScaleBitshifts,  \* parameters.account_fee_scale_bitshifts
    AccountsPerFeeScale,       \* parameters.accounts_per_fee_scale
    FeeProcessingMayThrow,     \* whether process_fees may raise in the loop
    TopNAccount,         \* account whose active authority is top_holders
    NumTopHolders,       \* top_holders_special_authority::num_top_holders
    MaxEnvSteps,         \* bound on environment steps in a behaviour
    StakeWidth,          \* bits of uint64_t _total_voting_stake and the buffers
    MaxRegistered        \* bound on accounts_registered_this_interval

VoteIds == 0 .. NextVoteId - 1
Params == [maxWitness : Nat, maxCommittee : Nat,
           countNonMember : BOOLEAN, basicFee : Nat]

ASSUME /\ ByName \in Seq(Accounts) /\ Len(ByName) = Cardinality(Accounts)
       /\ WitnessVoteId \in [Witnesses -> VoteIds]
       /\ CommitteeVoteId \in [Committee -> VoteIds]
       \* the by_account indices of witnesses and committee members are unique
       /\ \A v, w \in Witnesses : WitnessAccount[v] = WitnessAccount[w] => v = w
       /\ \A v, w \in Committee : CommitteeAccount[v] = CommitteeAccount[w] => v = w
       /\ Committee # {} /\ Witnesses # {}
       /\ InitParams \in Params /\ ParamChoices \subseteq Params
       /\ AccountsPerFeeScale > 0
       /\ TopNAccount \in Accounts /\ NumTopHolders \in 0 .. 255

VARIABLES
    stake,            \* voting stake: core in orders + cashback + core balance
    proxy,            \* options.voting_account
    votes,            \* options.votes
    numWitness,       \* options.num_witness
    numCommittee,     \* options.num_committee
    params,           \* global_property_object::parameters
    pending,          \* global_property_object::pending_parameters
    registered,       \* dynamic props: accounts_registered_this_interval
    postHF533,        \* head_block_time() >= HARDFORK_533_TIME
    voteTally,        \* database::_vote_tally_buffer
    witnessHist,      \* database::_witness_count_histogram_buffer
    committeeHist,    \* database::_committee_count_histogram_buffer
    totalStake,       \* database::_total_voting_stake
    witnessVotes,     \* witness_object::total_votes
    committeeVotes,   \* committee_member_object::total_votes
    activeWitnesses,  \* global_property_object::active_witnesses
    activeCommittee,  \* global_property_object::active_committee_members
    witnessAuth,      \* active authority of GRAPHENE_WITNESS_ACCOUNT
    committeeAuth,    \* active authority of GRAPHENE_COMMITTEE_ACCOUNT
    relaxedAuth,      \* active authority of GRAPHENE_RELAXED_COMMITTEE_ACCOUNT
    topAuth,          \* active authority of TopNAccount
    topFlag,          \* its top_n_control_active flag
    phase,            \* where the maintenance pass is
    envSteps          \* environment steps taken so far (bounded)

accountVars == <<stake, proxy, votes, numWitness, numCommittee>>
electVars == <<witnessVotes, committeeVotes, activeWitnesses,
               activeCommittee, witnessAuth, committeeAuth, relaxedAuth,
               topAuth, topFlag>>
bufferVars == <<voteTally, witnessHist, committeeHist, totalStake>>
vars == <<accountVars, params, pending, registered, postHF533,
          bufferVars, electVars, phase, envSteps>>

NoPending == [none |-> TRUE]
Phases == {"idle", "tallied", "topn", "witnesses", "committee", "switched"}

-----------------------------------------------------------------------------
(* Arithmetic and helpers                                                  *)

\* boost::multiprecision::detail::find_msb for n > 0.  find_msb(0) is
\* undefined, but every caller passes 0 only when all weights are 0, which
\* every shift maps to 0, so any result gives the same weights.
RECURSIVE Msb(_)
Msb(n) == IF n <= 1 THEN 0 ELSE 1 + Msb(n \div 2)

Weight16 == 2^16   \* weight_type is uint16_t

\* std::vector<uint64_t>::resize: keeps the existing prefix, zero-fills.
Resize(buf, n) == [i \in 1 .. n |-> IF i <= Len(buf) THEN buf[i] ELSE 0]

SumStake(S) == MapThenSumSet(LAMBDA a : stake[a], S)

\* vote_tally_helper: whose opinion a stake account's stake follows
OpinionOf(a) == IF proxy[a] = ProxyToSelf THEN a ELSE proxy[a]

Counted(a) == params.countNonMember \/ IsMember[a]

\* _vote_tally_buffer[vote_id]
Tally(v) == voteTally[v + 1]

-----------------------------------------------------------------------------
(* vote_tally_helper (lines 728-791) applied to the accounts in S         *)

VoteTallyAfter(buf, S) ==
    LET base == Resize(buf, NextVoteId)
    IN  [i \in 1 .. NextVoteId |->
            base[i] + SumStake({a \in S : (i - 1) \in votes[OpinionOf(a)]})]

\* The histogram bucket an opinion falls in, or -1 when the number exceeds
\* the maximum and the stake is added to no bucket.
Bucket(n, maxCount) ==
    IF n <= maxCount THEN Min({n \div 2, maxCount \div 2}) ELSE -1

HistAfter(buf, S, num, maxCount) ==
    LET size == maxCount \div 2 + 1
        base == Resize(buf, size)
    IN  [i \in 1 .. size |->
            base[i] + SumStake({a \in S : Bucket(num[OpinionOf(a)], maxCount) = i - 1})]

-----------------------------------------------------------------------------
(* Desired-count derivation (lines 163-177 and 248-260)                    *)

\* Seeded fault: the loop stops once the tally reaches the target.
RECURSIVE CountLoopPastTarget(_, _, _, _)
CountLoopPastTarget(hist, target, count, tally) ==
    IF count < Len(hist) - 1 /\ tally < target
    THEN CountLoopPastTarget(hist, target, count + 1, tally + hist[count + 2])
    ELSE count

RECURSIVE CountLoop(_, _, _, _)
CountLoop(hist, target, count, tally) ==
    IF count < Len(hist) - 1 /\ tally <= target
    THEN CountLoop(hist, target, count + 1, tally + hist[count + 2])
    ELSE count

DesiredCount(hist, target) == IF target > 0 THEN CountLoop(hist, target, 0, 0) ELSE 0

\* _total_voting_stake and the histogram buffers are uint64_t: the
\* difference wraps when a stale hist[0] exceeds the total, and the halved
\* result (below 2^63) fits the share_type stake_target.
StakeTarget(total, abstain) == ((total - abstain) % 2^StakeWidth) \div 2

-----------------------------------------------------------------------------
(* sort_votable_objects (lines 52-74): the count best candidates by tally, *)
(* ties to the lower vote_id, count clipped to the number of candidates.   *)

\* Seeded fault: ties go to the higher vote id.
BetterTieHigherId(x, y, vid) ==
    \/ Tally(vid[x]) > Tally(vid[y])
    \/ Tally(vid[x]) = Tally(vid[y]) /\ vid[x] > vid[y]

Better(x, y, vid) ==
    \/ Tally(vid[x]) > Tally(vid[y])
    \/ Tally(vid[x]) = Tally(vid[y]) /\ vid[x] < vid[y]

SortVotable(S, vid, count) ==
    LET k == Min({count, Cardinality(S)})
    IN  {x \in S : Cardinality({y \in S : Better(y, x, vid)}) < k}

-----------------------------------------------------------------------------
(* Authorities.  An authority is [weights : account -> weight, threshold]. *)

\* Seeded fault: keeps 17 bits, so a weight can wrap around uint16_t.
LegacyAuthorityDropOffByOne(members, vid, acct) ==
    LET total == MapThenSumSet(LAMBDA m : Tally(vid[m]), members)
        drop  == Max({Msb(total) - 16, 0})
        w(m)  == Max({Tally(vid[m]) \div 2^drop, 1}) % Weight16
        owner(a) == CHOOSE m \in members : acct[m] = a
        ws    == [a \in {acct[m] : m \in members} |-> w(owner(a))]
    IN  [weights |-> ws,
         threshold |-> MapThenSumSet(LAMBDA a : ws[a], DOMAIN ws) \div 2 + 1]

\* vote_counter (graphene/chain/vote_count.hpp) fed the votes w[a] of the
\* accounts in DOMAIN w, largest first: add() skips zero votes and takes
\* its bitshift from the first, largest, vote; finish() leaves the
\* authority untouched when nothing was added (is_empty()).
VoteCounter(old, w) ==
    LET voted == {a \in DOMAIN w : w[a] > 0}
        shift == Max({Msb(Max({w[a] : a \in voted})) - 15, 0})
        ws    == [a \in voted |-> Max({w[a] \div 2^shift, 1})]
    IN  IF voted = {} THEN old
        ELSE [weights |-> ws,
              threshold |-> MapThenSumSet(LAMBDA a : ws[a], DOMAIN ws) \div 2 + 1]

\* Seeded fault: weights keyed by the candidate id, not its account.
VoteCounterFinishById(old, members, vid, acct) ==
    LET voted == {m \in members : Tally(vid[m]) > 0}
        shift == Max({Msb(Max({Tally(vid[m]) : m \in voted})) - 15, 0})
        ws    == [m \in voted |-> Max({Tally(vid[m]) \div 2^shift, 1})]
    IN  IF voted = {} THEN old
        ELSE [weights |-> ws,
              threshold |-> MapThenSumSet(LAMBDA a : ws[a], DOMAIN ws) \div 2 + 1]

\* The legacy construction before HARDFORK_533 (lines 198-222).
LegacyAuthority(members, vid, acct) ==
    LET total == MapThenSumSet(LAMBDA m : Tally(vid[m]), members)
        drop  == Max({Msb(total) - 15, 0})
        w(m)  == Max({Tally(vid[m]) \div 2^drop, 1}) % Weight16
        owner(a) == CHOOSE m \in members : acct[m] = a
        ws    == [a \in {acct[m] : m \in members} |-> w(owner(a))]
    IN  [weights |-> ws,
         threshold |-> MapThenSumSet(LAMBDA a : ws[a], DOMAIN ws) \div 2 + 1]

\* The elected members' accounts, each with its candidate's tally.
VoteCounterFinish(old, members, vid, acct) ==
    VoteCounter(old, [a \in {acct[m] : m \in members} |->
                        Tally(vid[CHOOSE m \in members : acct[m] = a])])

MemberAuthority(old, members, vid, acct) ==
    IF postHF533 THEN VoteCounterFinish(old, members, vid, acct)
    ELSE LegacyAuthority(members, vid, acct)

-----------------------------------------------------------------------------
(* Initial state: the chain after a first pass with no votes cast.  The    *)
(* active sets are the lowest vote ids and every member weighs 1.          *)

LowestVoteIds(S, vid, k) ==
    {x \in S : Cardinality({y \in S : vid[y] < vid[x]}) < Min({k, Cardinality(S)})}

UnitAuthority(members, acct) ==
    [weights |-> [a \in {acct[m] : m \in members} |-> 1],
     threshold |-> Cardinality(members) \div 2 + 1]

Init ==
    /\ stake = InitStake
    /\ proxy = [a \in Accounts |-> ProxyToSelf]
    /\ votes = [a \in Accounts |-> {}]
    /\ numWitness = [a \in Accounts |-> 0]
    /\ numCommittee = [a \in Accounts |-> 0]
    /\ params = InitParams
    /\ pending = NoPending
    /\ registered = 0
    /\ postHF533 \in BOOLEAN
    /\ voteTally = << >> /\ witnessHist = << >> /\ committeeHist = << >>
    /\ totalStake = 0
    /\ witnessVotes = [w \in Witnesses |-> 0]
    /\ committeeVotes = [c \in Committee |-> 0]
    /\ activeWitnesses = LowestVoteIds(Witnesses, WitnessVoteId, MinWitnessCount)
    /\ activeCommittee = LowestVoteIds(Committee, CommitteeVoteId, MinCommitteeCount)
    /\ witnessAuth = UnitAuthority(activeWitnesses, WitnessAccount)
    /\ committeeAuth = UnitAuthority(activeCommittee, CommitteeAccount)
    /\ relaxedAuth = committeeAuth
    /\ topAuth = [weights |-> [x \in {TopNAccount} |-> 1], threshold |-> 1]
    /\ topFlag = FALSE
    /\ phase = "idle"
    /\ envSteps = 0

-----------------------------------------------------------------------------
(* Environment: block activity between two maintenance passes.             *)

EnvStep ==
    /\ phase = "idle"
    /\ envSteps < MaxEnvSteps
    /\ envSteps' = envSteps + 1

\* account_update_operation replaces the whole account_options; the
\* evaluator bounds num_witness / num_committee by the parameters in force.
UpdateAccountOptions(a, vs, nw, nc, p) ==
    /\ EnvStep
    /\ nw <= params.maxWitness /\ nc <= params.maxCommittee
    /\ votes' = [votes EXCEPT ![a] = vs]
    /\ numWitness' = [numWitness EXCEPT ![a] = nw]
    /\ numCommittee' = [numCommittee EXCEPT ![a] = nc]
    /\ proxy' = [proxy EXCEPT ![a] = p]
    /\ UNCHANGED <<stake, params, pending, registered, postHF533,
                   bufferVars, electVars, phase>>

\* Transfers, orders and vesting change an account's voting stake.
ChangeStake(a, s) ==
    /\ EnvStep
    /\ stake' = [stake EXCEPT ![a] = s]
    /\ UNCHANGED <<proxy, votes, numWitness, numCommittee, params, pending,
                   registered, postHF533, bufferVars, electVars, phase>>

\* An approved committee proposal stores pending_parameters.
ProposeParameters(p) ==
    /\ EnvStep
    /\ pending' = p
    /\ UNCHANGED <<accountVars, params, registered, postHF533,
                   bufferVars, electVars, phase>>

\* account_create_evaluator: every accounts_per_fee_scale registrations
\* shift the account-creation basic fee left by the scale bitshifts.
RegisterAccount ==
    /\ EnvStep
    /\ registered < MaxRegistered
    /\ registered' = registered + 1
    /\ params' = IF (registered + 1) % AccountsPerFeeScale = 0
                 THEN [params EXCEPT !.basicFee = @ * 2^AccountFeeScaleBitshifts]
                 ELSE params
    /\ UNCHANGED <<accountVars, pending, postHF533, bufferVars, electVars, phase>>

CrossHardfork533 ==
    /\ EnvStep
    /\ ~postHF533
    /\ postHF533' = TRUE
    /\ UNCHANGED <<accountVars, params, pending, registered,
                   bufferVars, electVars, phase>>

-----------------------------------------------------------------------------
(* The maintenance pass                                                    *)

\* perform_account_maintenance with vote_tally_helper and process_fees
\* over the accounts in S; the constructor resizes the buffers and zeroes
\* only _total_voting_stake.
TallyOver(S) ==
    /\ voteTally' = VoteTallyAfter(voteTally, S)
    /\ witnessHist' = HistAfter(witnessHist, S, numWitness, params.maxWitness)
    /\ committeeHist' = HistAfter(committeeHist, S, numCommittee, params.maxCommittee)
    /\ totalStake' = SumStake(S)

Voters(S) == {a \in S : Counted(a)}

PerformAccountMaintenance ==
    /\ phase = "idle"
    /\ TallyOver(Voters(Accounts))
    /\ phase' = "tallied"
    /\ UNCHANGED <<accountVars, params, pending, registered, postHF533,
                   electVars, envSteps>>

\* process_fees raises for the k-th account in by_name order after its
\* votes were tallied.  The block is rolled back: every database object is
\* restored, but clear_canary is not yet constructed (line 815), so the
\* buffers keep the partial tally.  A failed block counts as an
\* environment step.
AccountMaintenanceThrows(k) ==
    /\ EnvStep
    /\ FeeProcessingMayThrow
    /\ TallyOver(Voters({ByName[i] : i \in 1 .. k}))
    /\ UNCHANGED <<accountVars, params, pending, registered, postHF533,
                   electVars, phase>>

\* by_asset_balance: balance descending, then owner id ascending (account
\* ids follow the by_name order here).  The asset's balances are the
\* accounts' stakes.
Id(a) == CHOOSE i \in 1 .. Len(ByName) : ByName[i] = a

HolderBefore(x, y) == stake[x] > stake[y] \/ (stake[x] = stake[y] /\ Id(x) < Id(y))

\* Seeded fault: the account's own balance is not skipped.
TopHoldersWithOwner ==
    {x \in Accounts :
        Cardinality({y \in Accounts : HolderBefore(y, x)}) < NumTopHolders}

\* Lines 506-516: the first num_top_holders holders but the account itself.
TopHolders ==
    LET others == Accounts \ {TopNAccount}
    IN  {x \in others :
            Cardinality({y \in others : HolderBefore(y, x)}) < NumTopHolders}

\* Seeded fault: the flag is set as soon as a holder was walked.
TopNControlledOnWalk == TopHolders # {}

\* vote_counter is not empty once a walked holder had a positive balance
\* (add() skips zero votes), and only then is the control flag set.
TopNControlled == \E a \in TopHolders : stake[a] > 0

\* update_top_n_authorities (lines 471-527) for the one special authority:
\* nothing when num_top_holders is 0; otherwise vote_counter over the top
\* holders rebuilds the active authority, and the control flag is set
\* once it emitted anything.
UpdateTopNAuthorities ==
    /\ phase = "tallied"
    /\ IF NumTopHolders = 0 THEN UNCHANGED <<topAuth, topFlag>>
       ELSE /\ topAuth' = VoteCounter(topAuth, [a \in TopHolders |-> stake[a]])
            /\ topFlag' = (topFlag \/ TopNControlled)
    /\ phase' = "topn"
    /\ UNCHANGED <<accountVars, params, pending, registered, postHF533, bufferVars,
                   witnessVotes, committeeVotes, activeWitnesses, activeCommittee,
                   witnessAuth, committeeAuth, relaxedAuth, envSteps>>

UpdateActiveWitnesses ==
    LET target == StakeTarget(totalStake, witnessHist[1])
        count  == DesiredCount(witnessHist, target)
        wits   == SortVotable(Witnesses, WitnessVoteId,
                              Max({count * 2 + 1, MinWitnessCount}))
    IN
    /\ phase = "topn"
    /\ witnessVotes' = [w \in Witnesses |-> Tally(WitnessVoteId[w])]
    /\ witnessAuth' = MemberAuthority(witnessAuth, wits, WitnessVoteId, WitnessAccount)
    /\ activeWitnesses' = wits
    /\ phase' = "witnesses"
    /\ UNCHANGED <<accountVars, params, pending, registered, postHF533,
                   bufferVars, committeeVotes, activeCommittee,
                   committeeAuth, relaxedAuth, topAuth, topFlag, envSteps>>

\* The stake target subtracts the witness histogram's abstainers (line 248).
\* The member list is never empty since Committee is not, so the committee
\* and relaxed-committee authorities are always rebuilt.
UpdateActiveCommitteeMembers ==
    LET target  == StakeTarget(totalStake, witnessHist[1])
        count   == DesiredCount(committeeHist, target)
        members == SortVotable(Committee, CommitteeVoteId,
                               Max({count * 2 + 1, MinCommitteeCount}))
        newAuth == MemberAuthority(committeeAuth, members, CommitteeVoteId, CommitteeAccount)
    IN
    /\ phase = "witnesses"
    /\ committeeVotes' = [c \in Committee |->
                            IF c \in members THEN Tally(CommitteeVoteId[c])
                            ELSE committeeVotes[c]]
    /\ committeeAuth' = newAuth
    /\ relaxedAuth' = newAuth
    /\ activeCommittee' = members
    /\ phase' = "committee"
    /\ UNCHANGED <<accountVars, params, pending, registered, postHF533,
                   bufferVars, witnessVotes, activeWitnesses, witnessAuth,
                   topAuth, topFlag, envSteps>>

\* Seeded fault: the fee scaling is not undone.
SwitchParametersKeepingScale ==
    /\ phase = "committee"
    /\ params' = IF pending = NoPending THEN params ELSE pending
    /\ pending' = NoPending
    /\ phase' = "switched"
    /\ UNCHANGED <<accountVars, registered, postHF533, bufferVars, electVars, envSteps>>

\* Seeded fault: no clear_canary, the buffers outlive the pass.
EndPassKeepingBuffers ==
    /\ phase = "switched"
    /\ registered' = 0
    /\ phase' = "idle"
    /\ UNCHANGED <<accountVars, params, pending, postHF533, bufferVars,
                   electVars, envSteps>>

\* Undo the registration fee scaling, then swap in pending_parameters.
SwitchParameters ==
    LET unscaled == [params EXCEPT !.basicFee =
                        @ \div 2^(AccountFeeScaleBitshifts * (registered \div AccountsPerFeeScale))]
    IN
    /\ phase = "committee"
    /\ params' = IF pending = NoPending THEN unscaled ELSE pending
    /\ pending' = NoPending
    /\ phase' = "switched"
    /\ UNCHANGED <<accountVars, registered, postHF533, bufferVars, electVars, envSteps>>

\* The dynamic properties are reset for the next interval and, when the
\* pass returns, clear_canary empties the three buffers.
EndPass ==
    /\ phase = "switched"
    /\ registered' = 0
    /\ voteTally' = << >> /\ witnessHist' = << >> /\ committeeHist' = << >>
    /\ phase' = "idle"
    /\ UNCHANGED <<accountVars, params, pending, postHF533, totalStake,
                   electVars, envSteps>>

Next ==
    \/ \E a \in Accounts, vs \in VoteChoices, nw, nc \in NumChoices :
          \E p \in (Accounts \ {a}) \cup {ProxyToSelf} :
            UpdateAccountOptions(a, vs, nw, nc, p)
    \/ \E a \in Accounts, s \in Stakes : ChangeStake(a, s)
    \/ \E p \in ParamChoices : ProposeParameters(p)
    \/ RegisterAccount
    \/ CrossHardfork533
    \/ PerformAccountMaintenance
    \/ \E k \in 1 .. Len(ByName) : AccountMaintenanceThrows(k)
    \/ UpdateTopNAuthorities
    \/ UpdateActiveWitnesses
    \/ UpdateActiveCommitteeMembers
    \/ SwitchParameters
    \/ EndPass

\* Once a pass has started it runs to its end: the block producer applies
\* the whole block.
Spec == Init /\ [][Next]_vars
        /\ WF_vars(UpdateTopNAuthorities) /\ WF_vars(UpdateActiveWitnesses) /\ WF_vars(UpdateActiveCommitteeMembers)
        /\ WF_vars(SwitchParameters) /\ WF_vars(EndPass)

-----------------------------------------------------------------------------
(* Properties                                                              *)

TypeOK ==
    /\ stake \in [Accounts -> Nat]
    /\ proxy \in [Accounts -> Accounts \cup {ProxyToSelf}]
    /\ votes \in [Accounts -> SUBSET VoteIds]
    /\ numWitness \in [Accounts -> Nat] /\ numCommittee \in [Accounts -> Nat]
    /\ params \in Params /\ pending \in Params \cup {NoPending}
    /\ registered \in 0 .. MaxRegistered
    /\ postHF533 \in BOOLEAN
    /\ voteTally \in Seq(Nat) /\ witnessHist \in Seq(Nat) /\ committeeHist \in Seq(Nat)
    /\ totalStake \in Nat
    /\ witnessVotes \in [Witnesses -> Nat] /\ committeeVotes \in [Committee -> Nat]
    /\ activeWitnesses \subseteq Witnesses /\ activeCommittee \subseteq Committee
    /\ topFlag \in BOOLEAN
    /\ \A auth \in {witnessAuth, committeeAuth, relaxedAuth, topAuth} :
          /\ DOMAIN auth.weights \subseteq Accounts
          /\ auth.threshold \in Nat
    /\ phase \in Phases
    /\ envSteps \in 0 .. MaxEnvSteps

MidPass == phase \in {"tallied", "topn", "witnesses", "committee"}

\* The tally the election reads holds exactly this pass's stake: the vote
\* buffer, both histograms and the total stake equal the sums over the
\* counted accounts.  vote_tally_helper resizes the buffers without zeroing
\* them, so this holds only if every earlier pass left them empty.
TallyMatchesStake ==
    MidPass =>
        /\ voteTally = VoteTallyAfter(<< >>, Voters(Accounts))
        /\ witnessHist = HistAfter(<< >>, Voters(Accounts), numWitness, params.maxWitness)
        /\ committeeHist = HistAfter(<< >>, Voters(Accounts), numCommittee, params.maxCommittee)
        /\ totalStake = SumStake(Voters(Accounts))

\* No omitted candidate shows more total_votes than an elected one, nor as
\* many with a lower vote id (spec section 8, property 3).
RespectsVotes(active, all, total, vid) ==
    \A m \in active, x \in all \ active :
        total[m] > total[x] \/ (total[m] = total[x] /\ vid[m] < vid[x])

WitnessElectionRespectsVotes ==
    RespectsVotes(activeWitnesses, Witnesses, witnessVotes, WitnessVoteId)

CommitteeElectionRespectsVotes ==
    RespectsVotes(activeCommittee, Committee, committeeVotes, CommitteeVoteId)

\* Every voting stake lands in one histogram bucket: numbers above the
\* maximum are clipped to it (spec section 4.2, and the comment at line 769).
HistogramCountsAllStake ==
    phase \in {"witnesses", "committee"} =>
        /\ MapThenSumSet(LAMBDA i : witnessHist[i], DOMAIN witnessHist) = totalStake
        /\ MapThenSumSet(LAMBDA i : committeeHist[i], DOMAIN committeeHist) = totalStake

\* The stake of the opinions in buckets 1 .. k, that is of the accounts
\* that want at most 2k+1 members.
StakeUpTo(hist, k) == MapThenSumSet(LAMBDA i : hist[i], 2 .. k + 1)

\* Spec 4.3's stake median: the least count whose cumulative stake exceeds
\* the target, the largest bucket when none does, 0 for a target <= 0.
StakeMedian(hist, target) ==
    LET over == {k \in 1 .. Len(hist) - 1 : StakeUpTo(hist, k) > target}
    IN  IF target <= 0 THEN 0 ELSE IF over = {} THEN Len(hist) - 1 ELSE Min(over)

\* The while loop of lines 169-175 and 254-259 against the median, over
\* every histogram of one to three non-abstaining buckets of 0 .. 2 and
\* every target up to 4 or past every tally (a wrapped difference).
CountLoopMatchesMedian ==
    \A len \in 2 .. 4 :
        \A hist \in [1 .. len -> 0 .. 2], target \in (0 .. 4) \cup {2^(StakeWidth - 1) - 1} :
            DesiredCount(hist, target) = StakeMedian(hist, target)

\* update_active_witnesses elects 2m+1 witnesses (at least the minimum, at
\* most all), m the stake median of this pass's histogram without its
\* abstainers; and the count loop computes the median for every small
\* histogram and target, not only those the tally produced.
WitnessCountIsStakeMedian ==
    phase = "witnesses" =>
        /\ CountLoopMatchesMedian
        /\ LET m == StakeMedian(witnessHist, StakeTarget(totalStake, witnessHist[1]))
           IN  Cardinality(activeWitnesses) =
                   Min({Max({m * 2 + 1, MinWitnessCount}), Cardinality(Witnesses)})

\* The committee size is the stake median of the committee-size opinions,
\* leaving out the committee abstainers (spec section 4.3).
CommitteeCountFromCommitteeHistogram ==
    phase = "committee" =>
        LET count == DesiredCount(committeeHist,
                                  StakeTarget(totalStake, committeeHist[1]))
        IN  Cardinality(activeCommittee) =
                Min({Max({count * 2 + 1, MinCommitteeCount}), Cardinality(Committee)})

\* An authority built by either construction is usable and proportionate:
\* every weight fits weight_type and is at least 1, the threshold is a
\* strict majority of the weights, and a member with more total_votes never
\* gets less weight than one with fewer (16-bit scaling of lines 209-219).
WellFormedAuthority(auth, active, total, acct) ==
    LET ws == auth.weights
    IN  /\ \A a \in DOMAIN ws : ws[a] \in 1 .. Weight16 - 1
        /\ auth.threshold = MapThenSumSet(LAMBDA a : ws[a], DOMAIN ws) \div 2 + 1
        /\ \A m, n \in active :
              (acct[m] \in DOMAIN ws /\ acct[n] \in DOMAIN ws /\ total[m] > total[n])
                 => ws[acct[m]] >= ws[acct[n]]

\* Authority follows the election: every member with votes holds weight,
\* and only members hold weight unless no member has votes, in which case
\* vote_counter::finish leaves the previous authority in place.
FollowsElection(auth, active, total, acct) ==
    /\ \A m \in active : total[m] > 0 => acct[m] \in DOMAIN auth.weights
    /\ (\E m \in active : total[m] > 0) =>
          DOMAIN auth.weights \subseteq {acct[m] : m \in active}

AuthorityFollowsElection ==
    /\ WellFormedAuthority(witnessAuth, activeWitnesses, witnessVotes, WitnessAccount)
    /\ FollowsElection(witnessAuth, activeWitnesses, witnessVotes, WitnessAccount)
    /\ WellFormedAuthority(committeeAuth, activeCommittee, committeeVotes, CommitteeAccount)
    /\ FollowsElection(committeeAuth, activeCommittee, committeeVotes, CommitteeAccount)
    /\ relaxedAuth = committeeAuth

\* Once update_top_n_authorities has run and some other account holds the
\* asset, the top-holders authority is a well-formed vote_counter
\* authority over the num_top_holders largest holders other than the
\* account itself: it never lists its own account, no holder left out has
\* more than a key, and top_n_control_active is set.
TopNAuthorityFollowsHolders ==
    LET others == Accounts \ {TopNAccount}
        keys   == DOMAIN topAuth.weights
        wanted == Min({NumTopHolders, Cardinality({a \in others : stake[a] > 0})})
    IN
    phase \in {"topn", "witnesses", "committee", "switched"} /\ wanted > 0 =>
        /\ keys \subseteq others
        /\ Cardinality(keys) = wanted
        /\ \A k \in keys, x \in others \ keys : stake[k] >= stake[x]
        /\ \A k \in keys : topAuth.weights[k] \in 1 .. Weight16 - 1
        /\ topAuth.threshold = MapThenSumSet(LAMBDA k : topAuth.weights[k], keys) \div 2 + 1
        /\ topFlag

\* top_n_control_active is set exactly when the account's active authority
\* has been handed to its holders: while the flag is clear the account
\* still holds its own authority, and once it is set the authority names
\* only other holders, in every later pass too, including one in which all
\* selected holders' balances have fallen to zero and vote_counter::finish
\* leaves the former holders in control (line 522).
TopNControlMatchesAuthority ==
    LET keys == DOMAIN topAuth.weights
    IN  /\ topFlag <=> TopNAccount \notin keys
        /\ topFlag => keys \subseteq Accounts \ {TopNAccount}

\* All fees charged for registrations in this interval are undone: the
\* account-creation fee is the scheduled fee shifted by the bitshifts for
\* each full accounts_per_fee_scale registrations of the current interval.
ScheduledFees == {InitParams.basicFee} \cup {p.basicFee : p \in ParamChoices}

FeeScaleMatchesRegistrations ==
    phase # "switched" =>
        \E f \in ScheduledFees :
            params.basicFee = f * 2^(AccountFeeScaleBitshifts * (registered \div AccountsPerFeeScale))

=============================================================================
