--------------------------- MODULE MaintenanceTime ---------------------------
(***************************************************************************)
(* How perform_chain_maintenance advances next_maintenance_time            *)
(* (db_maint.cpp lines 837-868).  Times are seconds since the epoch.       *)
(***************************************************************************)
EXTENDS Integers

\* Seeded fault: the whole intervals elapsed are added without the +1.
AdvanceOneShort(interval, y, shifted) ==
    IF shifted THEN y * interval + (3 * interval) \div 8 ELSE y * interval

\* coef is the double 1 or 0.375; (y + coef) * interval is exact in a double
\* and is truncated to whole seconds when added to a time_point_sec.
Advance(interval, y, shifted) ==
    IF shifted THEN y * interval + (3 * interval) \div 8
    ELSE (y + 1) * interval

\* Seeded fault: block #1 rounds down to the previous boundary.
NextMaintenanceTimeFirstBack(next, now, interval, firstBlock, shifted) ==
    IF next > now THEN next
    ELSE IF firstBlock THEN (now \div interval - 1) * interval
    ELSE next + Advance(interval, (now - next) \div interval, shifted)

\* next: the stored next_maintenance_time; now: the block timestamp, which
\* is also head_block_time(); firstBlock: next_block.block_num() == 1;
\* shifted: head_block_time() == HARDFORK_616_MAINTENANCE_CHANGE_TIME.
NextMaintenanceTime(next, now, interval, firstBlock, shifted) ==
    IF next > now THEN next
    ELSE IF firstBlock THEN (now \div interval + 1) * interval
    ELSE next + Advance(interval, (now - next) \div interval, shifted)

=============================================================================
