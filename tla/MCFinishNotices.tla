---------------------------- MODULE MCFinishNotices ----------------------------
EXTENDS FinishNotices
CONSTANTS r1, r2, r3
=============================================================================
