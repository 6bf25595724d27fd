--------------------------- MODULE MCResultPages ---------------------------
EXTENDS ResultPages, TLC

CONSTANTS c1, c2, k1, k2, b1, b2

\* The requests are for different pages.
MCKeyOf == [c \in Conns |-> IF c = c1 THEN k1 ELSE k2]

BufferSymmetry == Permutations(Buffers)
=============================================================================
