---------------------------- MODULE MCChatTurn ----------------------------
EXTENDS ChatTurn, TLC

CONSTANTS t1, t2

OneTab  == {t1}
TwoTabs == {t1, t2}
TabSymmetry == Permutations(TwoTabs)

=============================================================================
