----------------------------- MODULE MCSchedule -----------------------------
EXTENDS Schedule

CONSTANT m1

\* Fund 1 ends on a maintenance boundary, fund 2 between two boundaries.
MCFundEnd == [f \in Funds |-> IF f = 1 THEN 16 ELSE 13]

\* Cheque 1 expires within one interval, cheque 2 after two.
MCChequeLifetime == [c \in Cheques |-> IF c = 1 THEN 6 ELSE 17]

\* Bounds the chain's clock: a few intervals on both sides of the shift.
TimeBound == now <= 36
=============================================================================
