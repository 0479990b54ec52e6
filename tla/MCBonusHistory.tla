--------------------------- MODULE MCBonusHistory ---------------------------
EXTENDS BonusHistory

CONSTANTS a1, a2

\* Time runs to just past HF620, so every bonus variant runs.
TimeBound == now <= HF620 + 1

=============================================================================
