--------------------------- MODULE MCProgressPump ---------------------------
EXTENDS ProgressPump
=============================================================================
