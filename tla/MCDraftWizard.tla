--------------------------- MODULE MCDraftWizard ---------------------------
EXTENDS DraftWizard, TLC

CONSTANTS r1, r2, c1, c2

TwoRequests == {r1, r2}
OneRequest  == {r1}
OneClause   == {c1}
TwoClauses  == {c1, c2}

=============================================================================
