--------------------------- MODULE MCTabSessions ----------------------------
EXTENDS TabSessions, TLC

MCSymmetry == Permutations(Tabs) \cup Permutations(Accounts)
=============================================================================
