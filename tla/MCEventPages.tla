---------------------------- MODULE MCEventPages ----------------------------
EXTENDS EventPages

\* Casts and buffs have several pages, the tables one.
MCPages == [p \in Parts |-> CASE p = "casts" -> 3 [] p = "buffs" -> 2 [] OTHER -> 1]

\* Answers have all that was asked for, and files may be lost, unreadable or
\* unwritable; or any part of an answer may be null, and files are sound.
MCWorlds == {[nullable |-> {}, faults |-> 2], [nullable |-> Parts, faults |-> 0]}

\* One table may be null.
MCOneNull == {[nullable |-> {"debuffs"}, faults |-> 0]}
=============================================================================
