------------------------------ MODULE Schedule ------------------------------
(***************************************************************************)
(* The tail of perform_chain_maintenance (db_maint.cpp lines 837-1011):   *)
(* advancing next_maintenance_time (with the one-shot 0.375 phase shift at *)
(* HARDFORK_616_MAINTENANCE_CHANGE_TIME) and the one-shot                 *)
(* deprecate_annual_members when it crosses HARDFORK_613, the              *)
(* time_to_maint that process_budget then computes, process_funds,         *)
(* process_cheques and the cheque part of clear_old_entities.  A pass is   *)
(* one block; its steps run in the code's order and nothing interleaves    *)
(* with them, so the phases only fix that order.                           *)
(***************************************************************************)
EXTENDS Integers, FiniteSets, MaintenanceTime

CONSTANTS
    GenesisTime,       \* timestamp of block 0
    Interval,          \* parameters.maintenance_interval
    BlockInterval,     \* parameters.block_interval
    MaxMissedBlocks,   \* slots a producer may miss before the next block
    ShiftTime,         \* HARDFORK_616_MAINTENANCE_CHANGE_TIME
    HF613,             \* HARDFORK_613_TIME
    Members,           \* accounts that are annual members at genesis
    UpgradeMayFail,    \* account_upgrade may throw an fc::exception
    FundsTime,         \* HARDFORK_622_TIME
    Funds,             \* fund ids
    FundEnd,           \* fund_object::datetime_end
    Cheques,           \* cheque ids
    ChequeLifetime,    \* expiration minus datetime_creation, per cheque
    ChequeTimes,       \* block times at which a cheque may be created
    ReverseMayFail,    \* cheque_reverse may throw an fc::assert_exception
    Day,               \* fc::days(1)
    HistorySize        \* history_size, in days

VARIABLES
    now,             \* head_block_time()
    blockNum,        \* number of the head block
    next,            \* dpo.next_maintenance_time
    timeToMaint,     \* time_to_maint as process_budget computes it
    phase,           \* "idle" | "advance" | "funds" | "cheques" | "reap"
    annual,          \* accounts for which is_annual_member(now) holds
    deprecations,    \* passes that ran deprecate_annual_members
    fundEnabled,     \* fund_object::enabled
    fundFinished,    \* fund_object::finish() was called
    lastProcessed,   \* head time of the last fund_object::process(), or -1
    chequeStatus,    \* "none" (not yet created) | "new" | "undo"
    chequeCreated,   \* cheque_object::datetime_creation, or -1
    chequeAlive,     \* cheques whose object is still in cheque_index
    reversedAt       \* head time of a cheque's reversal, or -1

chequeVars == <<chequeStatus, chequeCreated, chequeAlive, reversedAt>>

vars == <<now, blockNum, next, timeToMaint, phase, annual, deprecations,
          fundEnabled, fundFinished, lastProcessed, chequeVars>>

ChequeExpiration(c) == chequeCreated[c] + ChequeLifetime[c]

Init ==
    /\ now = GenesisTime
    /\ blockNum = 0
    /\ next = 0
    /\ timeToMaint = 0
    /\ phase = "idle"
    /\ annual = Members
    /\ deprecations = 0
    /\ fundEnabled = [f \in Funds |-> TRUE]
    /\ fundFinished = [f \in Funds |-> FALSE]
    /\ lastProcessed = [f \in Funds |-> -1]
    /\ chequeStatus = [c \in Cheques |-> "none"]
    /\ chequeCreated = [c \in Cheques |-> -1]
    /\ chequeAlive = {}
    /\ reversedAt = [c \in Cheques |-> -1]

\* The next block, k slots after the head; it triggers maintenance when its
\* timestamp reaches next_maintenance_time (line 840).
ProduceBlock(k) ==
    /\ phase = "idle"
    /\ now' = now + k * BlockInterval
    /\ blockNum' = blockNum + 1
    /\ phase' = IF next <= now' THEN "advance" ELSE "idle"
    /\ UNCHANGED <<next, timeToMaint, annual, deprecations, fundEnabled,
                   fundFinished, lastProcessed, chequeVars>>

\* fund_set_enable_operation between blocks.
SetFundEnabled(f, b) ==
    /\ phase = "idle"
    /\ fundEnabled' = [fundEnabled EXCEPT ![f] = b]
    /\ UNCHANGED <<now, blockNum, next, timeToMaint, phase, annual,
                   deprecations, fundFinished, lastProcessed, chequeVars>>

\* cheque_create_operation in the head block: the drawer's amount moves
\* into a new cheque object dated at the head.
CreateCheque(c) ==
    /\ phase = "idle" /\ now \in ChequeTimes
    /\ chequeStatus[c] = "none"
    /\ chequeStatus' = [chequeStatus EXCEPT ![c] = "new"]
    /\ chequeCreated' = [chequeCreated EXCEPT ![c] = now]
    /\ chequeAlive' = chequeAlive \cup {c}
    /\ UNCHANGED <<now, blockNum, next, timeToMaint, phase, annual,
                   deprecations, fundEnabled, fundFinished, lastProcessed,
                   reversedAt>>

\* Seeded fault: the crossing test admits a stored time equal to the fork.
CrossesHF613AtOrAfter(old, new) == old <= HF613 /\ new >= HF613

\* Line 872: the stored time lies before the fork, the new one at or after.
CrossesHF613(old, new) == old < HF613 /\ new >= HF613

\* Lines 690-719: an account_upgrade to lifetime for every annual member;
\* an fc::exception is logged and the account keeps its membership.
DeprecateAnnualMembers ==
    /\ \E failed \in SUBSET annual :
          /\ UpgradeMayFail \/ failed = {}
          /\ annual' = failed
    /\ deprecations' = deprecations + 1

\* Seeded fault: every advance from the fork on takes the 0.375 factor.
ShiftedFromFork == now >= ShiftTime

\* Lines 864-865: only the block at HARDFORK_616_MAINTENANCE_CHANGE_TIME
\* itself advances by y + 0.375 intervals.
Shifted == now = ShiftTime

\* Lines 837-889: the new next_maintenance_time is computed, the pass that
\* moves it across HARDFORK_613 deprecates annual members, the new time is
\* stored, then process_budget computes time_to_maint = next - head
\* (line 385).
AdvanceMaintenance ==
    LET n == NextMaintenanceTime(next, now, Interval, blockNum = 1, Shifted)
    IN
    /\ phase = "advance"
    /\ IF CrossesHF613(next, n) THEN DeprecateAnnualMembers
                                ELSE UNCHANGED <<annual, deprecations>>
    /\ next' = n
    /\ timeToMaint' = n - now
    /\ phase' = "funds"
    /\ UNCHANGED <<now, blockNum, fundEnabled, fundFinished, lastProcessed,
                   chequeVars>>

\* The fund loop skips a disabled or overdue fund (line 980).
Overdue(f) == ~fundEnabled[f] \/ FundEnd[f] < now

\* The interval just closed has reached the fund's end (line 985).
FinishDue(f) == next - Interval >= FundEnd[f]

\* Lines 892-894 and 971-988: after HARDFORK_622 each fund that is not
\* skipped is processed, then finished (fund_object::finish() disables it)
\* when the interval just closed reaches its end.
ProcessFunds ==
    LET run(f) == now > FundsTime /\ ~Overdue(f)
    IN
    /\ phase = "funds"
    /\ lastProcessed' = [f \in Funds |->
                           IF run(f) THEN now ELSE lastProcessed[f]]
    /\ fundFinished' = [f \in Funds |-> fundFinished[f] \/ (run(f) /\ FinishDue(f))]
    /\ fundEnabled' = [f \in Funds |-> fundEnabled[f] /\ ~(run(f) /\ FinishDue(f))]
    /\ phase' = "cheques"
    /\ UNCHANGED <<now, blockNum, next, timeToMaint, annual, deprecations,
                   chequeVars>>

\* Seeded fault: expiry compared with the new boundary, not the one closed.
DueByNext(c) ==
    c \in chequeAlive /\ chequeStatus[c] = "new" /\ next >= ChequeExpiration(c)

\* Lines 990-1011: a new cheque in cheque_index whose expiration the closed
\* interval has reached is reversed; an assert_exception from the reversal
\* is swallowed and the cheque stays new.
Due(c) ==
    c \in chequeAlive /\ chequeStatus[c] = "new"
    /\ next - Interval >= ChequeExpiration(c)

ProcessCheques ==
    \E failed \in SUBSET {c \in Cheques : Due(c)} :
        /\ phase = "cheques"
        /\ ReverseMayFail \/ failed = {}
        /\ chequeStatus' = [c \in Cheques |->
                              IF Due(c) /\ c \notin failed THEN "undo"
                              ELSE chequeStatus[c]]
        /\ reversedAt' = [c \in Cheques |->
                            IF Due(c) /\ c \notin failed THEN now
                            ELSE reversedAt[c]]
        /\ phase' = "reap"
        /\ UNCHANGED <<now, blockNum, next, timeToMaint, annual, deprecations,
                       fundEnabled, fundFinished, lastProcessed, chequeCreated,
                       chequeAlive>>

\* clear_old_entities, cheque part (lines 911-916, 952-959): with a
\* history_size, every cheque created before head - history_size days is
\* removed from the by_datetime_creation index, whatever its status.
PruneCheques ==
    /\ phase = "reap"
    /\ chequeAlive' = IF HistorySize > 0
                        THEN {c \in chequeAlive :
                                chequeCreated[c] >= now - HistorySize * Day}
                        ELSE chequeAlive
    /\ phase' = "idle"
    /\ UNCHANGED <<now, blockNum, next, timeToMaint, annual, deprecations,
                   fundEnabled, fundFinished, lastProcessed, chequeStatus,
                   chequeCreated, reversedAt>>

Next ==
    \/ \E k \in 1 .. MaxMissedBlocks + 1 : ProduceBlock(k)
    \/ \E f \in Funds, b \in BOOLEAN : SetFundEnabled(f, b)
    \/ \E c \in Cheques : CreateCheque(c)
    \/ AdvanceMaintenance
    \/ ProcessFunds
    \/ ProcessCheques
    \/ PruneCheques

Spec == Init /\ [][Next]_vars

-----------------------------------------------------------------------------
(* Properties                                                              *)

TypeOK ==
    /\ now \in Nat /\ blockNum \in Nat /\ next \in Nat /\ timeToMaint \in Int
    /\ phase \in {"idle", "advance", "funds", "cheques", "reap"}
    /\ annual \subseteq Members /\ deprecations \in Nat
    /\ fundEnabled \in [Funds -> BOOLEAN]
    /\ fundFinished \in [Funds -> BOOLEAN]
    /\ lastProcessed \in [Funds -> Int]
    /\ chequeStatus \in [Cheques -> {"none", "new", "undo"}]
    /\ chequeCreated \in [Cheques -> Int]
    /\ chequeAlive \subseteq Cheques
    /\ reversedAt \in [Cheques -> Int]

\* Once next_maintenance_time is advanced, it lies after the head block and
\* no more than one interval ahead: the "smallest k" that the comment at
\* lines 848-860 derives, and the time_to_maint > 0 that process_budget
\* asserts at line 391.
NextMaintenanceAfterHead ==
    phase \in {"funds", "cheques", "reap"} => 0 < timeToMaint /\ timeToMaint <= Interval

\* Spec 8 property 6: next_maintenance_time stays a multiple of the
\* interval from the epoch, or, once the block at the fork time has taken
\* the one-shot 0.375 advance, a multiple plus 3/8 of an interval; block 1's
\* rounding, missed slots and later advances keep it on that grid.
NextMaintenanceOnGrid ==
    next % Interval \in {0, (3 * Interval) \div 8}

\* process_cheques never returns a cheque to its drawer before the cheque
\* has expired: the boundary it compares with never lies after the head.
ChequeNeverReversedEarly ==
    \A c \in Cheques :
        chequeStatus[c] = "undo" => ChequeExpiration(c) <= reversedAt[c]

\* HARDFORK_613 is one-shot: deprecate_annual_members has run in exactly
\* one maintenance pass once next_maintenance_time has reached the fork,
\* and in none before, whatever slots were missed and whether the 0.375
\* shift moved the boundaries.
AnnualDeprecationOneShot ==
    deprecations = IF next >= HF613 THEN 1 ELSE 0

\* Spec 4.10: a new cheque holds its drawer's amount until it is reversed,
\* so clear_old_entities never removes the object of a cheque that
\* process_cheques has not yet reversed.
NewChequeNeverPruned ==
    \A c \in Cheques : chequeStatus[c] = "new" => c \in chequeAlive

\* Spec 4.10: once the interval just closed has passed an enabled fund's
\* deadline, process_funds has called finish() on it.
OverdueFundsFinished ==
    phase = "cheques" /\ now > FundsTime =>
        \A f \in Funds : fundEnabled[f] => next - Interval < FundEnd[f]

=============================================================================
