---------------------------- MODULE MCCostBudget ----------------------------
EXTENDS CostBudget, TLC

CONSTANTS t1, t2, d1, a1, a2

TwoTurns  == {t1, t2}
OneJob    == {d1}
TwoAdmins == {a1, a2}
Symmetry  == Permutations(TwoTurns) \cup Permutations(TwoAdmins)

=============================================================================
