--------------------------- MODULE MCHpsRankings ---------------------------
EXTENDS HpsRankings

CONSTANTS f1, f2, f3, r1, r2, me, you, them

\* Two fights of one report and one of another.
MCReportOf == [f \in Fights |-> IF f = f3 THEN r2 ELSE r1]

\* Both characters that are asked for, one of them, and neither.
MCPair == [f \in Fights |-> CASE f = f1 -> <<me, you>> [] f = f2 -> <<you, them>> [] f = f3 -> <<them, me>>]

\* Partitions that overlap list a fight twice.
MCListings == {l \in [Fights -> 0 .. 2] : l[f3] <= 1}
=============================================================================
