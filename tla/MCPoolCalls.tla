---------------------------- MODULE MCPoolCalls ----------------------------
EXTENDS PoolCalls, TLC

CONSTANTS t1, t2, t3
=============================================================================
