-------------------------- MODULE MCAnalysisQueue --------------------------
EXTENDS AnalysisQueue

CONSTANTS c1, c2
=============================================================================
