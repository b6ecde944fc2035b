---------------------------- MODULE MCRestoreFlow ----------------------------
EXTENDS RestoreFlow, TLC

CONSTANTS w1, w2, r1, r2

TwoWorkspaces == {w1, w2}
TwoIds == {r1, r2}
=============================================================================
