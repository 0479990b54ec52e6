---------------------------- MODULE BonusHistory ----------------------------
(***************************************************************************)
(* The bonus step and the reaper at the end of perform_chain_maintenance  *)
(* (db_maint.cpp lines 895-906): the bonus variant the head time selects  *)
(* (issue_bonuses, issue_bonuses_before_620, issue_bonuses_old), then     *)
(* clear_old_entities.  The legacy variant walks each account's           *)
(* account_transaction_history list (most_recent_op, then next) looking  *)
(* for an outbound transfer of at least 1 EDC in the last 24 hours; the   *)
(* reaper prunes history older than history_size days.  A pass runs at    *)
(* every block time; the history a block's operations add comes before   *)
(* its pass.  Which accounts' quantity reaches 1 is the constant Holders; *)
(* the operations the variants emit are recorded, whatever the evaluator  *)
(* then does with them.                                                   *)
(***************************************************************************)
EXTENDS Integers, Sequences

CONSTANTS
    Accounts,
    Blacklisted,    \* alpha account's and EDC issuer's blacklisted_accounts
    Referred,       \* accounts the referral tree's scan names
    Holders,        \* accounts whose bonus quantity is at least 1
    Day,            \* fc::hours(24)
    HistorySize,    \* history_size, in days
    HF616, HF617, HF618, HF619, HF620,
    MaxOps

VARIABLES
    now,         \* head_block_time()
    nodes,       \* account_transaction_history objects; id i is nodes[i+1]
    mostRecent,  \* account_statistics_object::most_recent_op
    athoAlive,   \* ids of account_transaction_history objects not removed
    opAlive,     \* ids of the operation_history objects they point to
    online,      \* accounts_online_object::online_info's keys
    phase,       \* "ops" | "reap" | "done"
    variant,     \* the bonus variant of this pass
    issued,      \* <<kind, account>> of the issue operations it emitted
    halted       \* the pass dereferenced a removed object and threw

vars == <<now, nodes, mostRecent, athoAlive, opAlive, online, phase, variant,
          issued, halted>>

\* account_transaction_history_id_type(), the null link, is also id 0.
Null == 0

Node(n) == nodes[n + 1]

Init ==
    /\ now = 0
    /\ nodes = << >>
    /\ mostRecent = [a \in Accounts |-> Null]
    /\ athoAlive = {} /\ opAlive = {}
    /\ online = {}
    /\ phase = "ops"
    /\ variant = "none" /\ issued = {}
    /\ halted = FALSE

\* An operation of the head block in account a's history; q: it is a
\* transfer of at least 1 EDC from a.  The new node links to the old head.
Op(a, q) ==
    /\ phase = "ops" /\ Len(nodes) < MaxOps
    /\ nodes' = Append(nodes, [acct |-> a, time |-> now, q |-> q, next |-> mostRecent[a]])
    /\ mostRecent' = [mostRecent EXCEPT ![a] = Len(nodes)]
    /\ athoAlive' = athoAlive \cup {Len(nodes)}
    /\ opAlive' = opAlive \cup {Len(nodes)}
    /\ UNCHANGED <<now, online, phase, variant, issued, halted>>

\* An account reported online in the head block.
GoOnline(a) ==
    /\ phase = "ops"
    /\ online' = online \cup {a}
    /\ UNCHANGED <<now, nodes, mostRecent, athoAlive, opAlive, phase, variant,
                   issued, halted>>

\* Seeded fault: a node exactly 24 hours old still counts.
OutOfWindowStrict(t) == t < now - Day

\* Line 1190 / 1232: the walk stops at a node at or before head - 24h.
OutOfWindow(t) == t <= now - Day

\* The walk from node n (lines 1188-1207, 1230-1243): "fault" when it
\* dereferences a removed node (node->next(*this), stats.most_recent_op
\* (*this)) or operation (node->operation_id(*this)).
RECURSIVE WalkFrom(_, _)
WalkFrom(a, n) ==
    IF n \notin athoAlive THEN "fault"
    ELSE IF OutOfWindow(Node(n).time) THEN "skip"
    ELSE IF n \notin opAlive THEN "fault"
    ELSE IF Node(n).q THEN "issue"
    ELSE IF Node(n).next = Null THEN "skip"
    ELSE WalkFrom(a, Node(n).next)

Gate(a) == IF mostRecent[a] = Null THEN "skip" ELSE WalkFrom(a, mostRecent[a])

\* Lines 1167-1256: referral issues to the scanned accounts, then daily
\* issues to every account, each behind the blacklists and the walk; a
\* walk that throws aborts the pass.
IssueBonusesOld ==
    LET walked == Accounts \ Blacklisted
    IN
    /\ phase = "ops" /\ HF616 < now /\ now <= HF617
    /\ variant' = "old"
    /\ IF \E a \in walked : Gate(a) = "fault"
         THEN halted' = TRUE /\ issued' = {}
         ELSE /\ issued' = {<<"referral", e>> : e \in {x \in Referred \cap walked : Gate(x) = "issue"}}
                       \cup {<<"daily", a>> : a \in {x \in walked \cap Holders : Gate(x) = "issue"}}
              /\ UNCHANGED halted
    /\ phase' = "reap"
    /\ UNCHANGED <<now, nodes, mostRecent, athoAlive, opAlive, online>>

\* Lines 1081-1165: daily issues by mature balance, then a referral issue
\* to a scanned account that got past the daily checks.  Between HF618 and
\* HF619 a nonempty online map zeroes everyone it does not list (a listed
\* account's minutes are abstracted to a full day).
IssueBonusesBefore620 ==
    LET weighted == HF618 < now /\ now < HF619 /\ online # {}
        earning == {a \in Holders \ Blacklisted : ~weighted \/ a \in online}
    IN
    /\ phase = "ops" /\ HF617 < now /\ now <= HF620
    /\ variant' = "before620"
    /\ issued' = {<<"daily", a>> : a \in earning}
                 \cup {<<"referral", e>> : e \in earning \cap Referred}
    /\ phase' = "reap"
    /\ UNCHANGED <<now, nodes, mostRecent, athoAlive, opAlive, online, halted>>

\* Lines 1021-1079 for the one bonus asset: daily issues (or maturing
\* bonus balances) past the quantity and blacklist skips.  The referral
\* distribution and process_bonus_balances are not in the repository.
IssueBonuses ==
    /\ phase = "ops" /\ HF620 < now
    /\ variant' = "modern"
    /\ issued' = {<<"daily", a>> : a \in Holders \ Blacklisted}
    /\ phase' = "reap"
    /\ UNCHANGED <<now, nodes, mostRecent, athoAlive, opAlive, online, halted>>

\* Lines 895-903: no variant up to HF616.
NoBonus ==
    /\ phase = "ops" /\ now <= HF616
    /\ variant' = "none" /\ issued' = {}
    /\ phase' = "reap"
    /\ UNCHANGED <<now, nodes, mostRecent, athoAlive, opAlive, online, halted>>

Cutoff == now - HistorySize * Day

Kept(ids) == {n \in ids : Node(n).time >= Cutoff}

\* Seeded fault: account history reaped before HF617 as well.
ReapIgnoringHardfork617 ==
    /\ phase = "reap"
    /\ opAlive' = IF HistorySize > 0 THEN Kept(opAlive) ELSE opAlive
    /\ athoAlive' = IF HistorySize > 0 THEN Kept(athoAlive) ELSE athoAlive
    /\ online' = IF now > HF618 THEN {} ELSE online
    /\ phase' = "done"
    /\ UNCHANGED <<now, nodes, mostRecent, variant, issued, halted>>

\* clear_old_entities (lines 908-969): operation history older than the
\* cutoff always, account history only after HF617, and the online map
\* after HF618.  The fund-history, blind-transfer and cheque indices are
\* pruned the same way but nothing here reads them.
Reap ==
    /\ phase = "reap"
    /\ opAlive' = IF HistorySize > 0 THEN Kept(opAlive) ELSE opAlive
    /\ athoAlive' = IF HistorySize > 0 /\ now > HF617 THEN Kept(athoAlive) ELSE athoAlive
    /\ online' = IF now > HF618 THEN {} ELSE online
    /\ phase' = "done"
    /\ UNCHANGED <<now, nodes, mostRecent, variant, issued, halted>>

\* The next block.
Tick ==
    /\ phase = "done"
    /\ now' = now + 1
    /\ phase' = "ops"
    /\ variant' = "none" /\ issued' = {}
    /\ UNCHANGED <<nodes, mostRecent, athoAlive, opAlive, online, halted>>

Next ==
    \/ \E a \in Accounts, q \in BOOLEAN : Op(a, q)
    \/ \E a \in Accounts : GoOnline(a)
    \/ IssueBonusesOld \/ IssueBonusesBefore620 \/ IssueBonuses \/ NoBonus
    \/ Reap
    \/ Tick

Spec == Init /\ [][Next]_vars

-----------------------------------------------------------------------------
(* Properties                                                              *)

\* Spec 4.9's activity gate: a transfer of at least 1 EDC from a in the
\* last 24 hours, over the whole history ever written.
RecentOutbound(a) ==
    \E i \in 1 .. Len(nodes) :
        nodes[i].acct = a /\ nodes[i].q /\ nodes[i].time > now - Day

OnlyToActive ==
    \A <<k, a>> \in issued : a \notin Blacklisted /\ RecentOutbound(a)

\* issue_bonuses_old's walk never reads a removed history object: the
\* reaper keeps account_transaction_history up to HF617, when the walk
\* stops being used, and operation_history for at least a day.  A failed
\* read aborts every block that reaches maintenance.
NoPrunedHistoryRead == ~halted

\* issue_bonuses_old emits referral and daily issues only to unlisted
\* accounts with an outbound EDC transfer in the last 24 hours.
OldBonusOnlyToActive == variant = "old" => OnlyToActive

\* Spec 4.9: both legacy variants (issue_bonuses_old and
\* issue_bonuses_before_620) pay only accounts that pass the activity gate.
LegacyBonusOnlyToActive == variant \in {"old", "before620"} => OnlyToActive

=============================================================================
