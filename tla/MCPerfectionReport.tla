------------------------- MODULE MCPerfectionReport -------------------------
EXTENDS PerfectionReport

MCReportOf == [f \in Fights |-> IF f = "f3" THEN "r2" ELSE "r1"]
MCEncOf == [f \in Fights |-> IF f = "f2" THEN "e2" ELSE "e1"]

\* A monk's Riddle of Earth has three charges and gets two more than the cooldown
\* allows, a gunbreaker's Aurora has two and gets two more; two skills of a warrior
\* share a cooldown.
MCSkillRows == [Monk |-> <<"riddle", "potion">>, Gunbreaker |-> <<"aurora", "potion">>,
                Warrior |-> <<"intuition", "flash", "potion">>]
MCSharedBy == [Monk |-> {}, Gunbreaker |-> {}, Warrior |-> {"intuition", "flash"}]
MCChargesOf == [s \in Skills |-> CASE s = "riddle" -> 3 [] s = "aurora" -> 2 [] OTHER -> 1]
MCCharges == [s \in Skills |-> IF s \in {"riddle", "aurora"} THEN 2 ELSE 0]
MCCooldown == [riddle |-> 24, aurora |-> 12, intuition |-> 5, flash |-> 5, potion |-> 54]

-----------------------------------------------------------------------------
(* What FFLogs may have.  The log of a potion: it is applied, unless that was before the *)
(* fight; its buff ends after its time or with the player's death, unless that is after  *)
(* the fight; and each may show up twice.                                                *)

Drinks == {<<>>, <<0>>, <<3>>, <<57>>, <<-2>>, <<-5>>,
           <<0, 54>>, <<3, 57>>, <<-2, 52>>, <<-5, 49>>, <<-2, 57>>}

BuffOf(at, end, length, twice) ==
    LET apply  == IF at < 0 THEN <<>> ELSE <<[at |-> at, removed |-> FALSE]>>
        remove == IF end > length THEN <<>> ELSE <<[at |-> end, removed |-> TRUE]>>
    IN IF twice THEN apply \o apply \o remove \o remove ELSE apply \o remove

LogOf(drinks, died, twice, casts) ==
    LET length == 60
        end(d) == IF died THEN Max({d + 2, 1}) ELSE d + PotionBuffTime
    IN [length |-> length, drinks |-> drinks, casts |-> casts,
        buffs |-> FoldLeft(LAMBDA buffs, d : buffs \o BuffOf(d, end(d), length, twice), <<>>, drinks)]

CastsOf(riddle, intuition, flash) ==
    [riddle |-> riddle, aurora |-> riddle + 1, intuition |-> intuition, flash |-> flash,
     potion |-> 0]

FullLog == LogOf(<<0, 54>>, FALSE, FALSE, CastsOf(5, 6, 6))
PoorLog == LogOf(<<0>>, FALSE, FALSE, CastsOf(5, 12, 0))
FullLogs == [f \in Fights |-> IF f = "f2" THEN PoorLog ELSE FullLog]

Unranked == [dps |-> [f \in Fights |-> 0], hps |-> {}, job |-> [f \in Fights |-> "Monk"]]
Ranked(dps, hps, job) == [dps |-> dps, hps |-> hps, job |-> job]
OnlyF1 == [f \in Fights |-> IF f = "f1" THEN 1 ELSE 0]
Played == {"Monk", "Warrior"}
Solo == [f \in Fights |-> <<[name |-> "me", job |-> "Monk"]>>]

\* Who is in the fight: up to three players, and two characters ranked for it.
PartyWorlds ==
    {[party |-> [f \in Fights |-> players], log |-> FullLogs,
      rank |-> [n \in Names |-> Ranked(OnlyF1, {}, [f \in Fights |-> jobs[n]])]] :
        players \in UNION {[1 .. n -> [name : Names, job : Played]] : n \in 0 .. 3},
        jobs \in [Names -> Played]}

\* What is listed: fights not, once or twice, in two reports and two encounters.
ListWorlds ==
    {[party |-> Solo, log |-> FullLogs,
      rank |-> [n \in Names |-> IF n = "me" THEN Ranked(dps, hps, [f \in Fights |-> job]) ELSE Unranked]] :
        dps \in [Fights -> 0 .. 2], hps \in SUBSET Fights, job \in Played}

\* What was done: potions of every kind, skills used as often as can be, more and less.
LogWorlds ==
    {[party |-> Solo, log |-> [f \in Fights |-> LogOf(drinks, died, twice, casts)],
      rank |-> [n \in Names |-> Ranked(OnlyF1, {}, [f \in Fights |-> jobs])]] :
        drinks \in Drinks, died \in BOOLEAN, twice \in BOOLEAN, jobs \in Jobs,
        casts \in {CastsOf(r, i, fl) : r \in 4 .. 6, i \in {0, 6, 12}, fl \in {5, 6}}}

MCWorlds == PartyWorlds \cup ListWorlds \cup LogWorlds
=============================================================================
