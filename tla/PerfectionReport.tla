-------------------------- MODULE PerfectionReport --------------------------
(***************************************************************************)
(* One perfection analysis after the other: which fights the rankings of a *)
(* character ask for (updateReports), which player of each is the          *)
(* character (updateFights), whose events come (updateEvents), and the     *)
(* statistics of the page (buildReport).                                   *)
(*                                                                         *)
(* The rounds of the fetches are FetchRounds, the pages of the events      *)
(* EventPages; here a report is answered or null and the events of a fight *)
(* are complete or null.  The cached answers are shared by all characters. *)
(* Times are in units of five seconds.                                     *)
(***************************************************************************)
EXTENDS Integers, Sequences, FiniteSets, FiniteSetsExt, SequencesExt

CONSTANTS
    Names, Jobs, Skills,
    Fights, Reports, Encounters,
    ReportOf, EncOf,
    Worlds,      \* what FFLogs may have: the party and the log of each fight, the
                 \* rankings of each name
    SkillRows,   \* gameData.Job: the rows of the skill table for each job
    SharedBy,    \* the skills of each job that share a cooldown
    ChargesOf,   \* charges of a skill, as the comments of the recalculation name them
    Charges,     \* what setDefaultCharge adds to the uses that the cooldown alone allows
    Cooldown, Potion, PotionBuffTime

All == "all"   \* encounter 0, and job ""

ASSUME ReportAssumption ==
    /\ IsFiniteSet(Fights) /\ IsFiniteSet(Skills)
    /\ ReportOf \in [Fights -> Reports] /\ EncOf \in [Fights -> Encounters]
    /\ SkillRows \in [Jobs -> Seq(Skills)]
    /\ SharedBy \in [Jobs -> SUBSET Skills]
    /\ ChargesOf \in [Skills -> Nat \ {0}] /\ Cooldown \in [Skills -> Nat \ {0}]
    /\ Charges \in [Skills -> Nat] /\ \A s \in Skills : Charges[s] + 1 >= ChargesOf[s]
    /\ Potion \in Skills /\ PotionBuffTime \in Nat /\ PotionBuffTime < Cooldown[Potion]
    /\ All \notin Jobs \cup Encounters

\* The party and the rankings that FFLogs has.
ASSUME WorldAssumption ==
    \A w \in Worlds :
        /\ \A f \in Fights : w.party[f] \in Seq([name : Names, job : Jobs])
        /\ \A n \in Names :
             /\ w.rank[n].dps \in [Fights -> Nat] /\ w.rank[n].hps \subseteq Fights
             /\ w.rank[n].job \in [Fights -> Jobs]

\* What a log has of potions: the buff events of each, in their order, while it lasts.
\* If it is drunk in the fight the first of them is its application; no potion is drunk
\* within the cooldown of the last.
Shows(drinks, buffs) ==
    \E drinkOf \in [DOMAIN buffs -> DOMAIN drinks] :
        /\ \A d \in DOMAIN drinks : \E i \in DOMAIN buffs : drinkOf[i] = d
        /\ \A i, j \in DOMAIN buffs : i <= j => drinkOf[i] <= drinkOf[j]
        /\ \A i \in DOMAIN buffs :
             LET drunk == drinks[drinkOf[i]]
             IN /\ drunk <= buffs[i].at /\ buffs[i].at <= drunk + PotionBuffTime
                /\ ~buffs[i].removed => buffs[i].at = drunk
                /\ drunk >= 0 /\ (i > 1 => drinkOf[i - 1] # drinkOf[i]) => ~buffs[i].removed
Spaced(drinks) ==
    \A d \in DOMAIN drinks : d > 1 => drinks[d] >= drinks[d - 1] + Cooldown[Potion]

ASSUME LogAssumption ==
    \A log \in {w.log[f] : w \in Worlds, f \in Fights} :
        /\ log.length \in Nat \ {0} /\ log.casts \in [Skills -> Nat]
        /\ log.drinks \in Seq(Int) /\ log.buffs \in Seq([at : Nat, removed : BOOLEAN])
        /\ Spaced(log.drinks) /\ Shows(log.drinks, log.buffs)

VARIABLES
    world,     \* FFLogs
    cache,     \* cached answers: the key, and the fights they have with their players
    pc,        \* "idle", "rankings", "replay", "fights", "events", "build", and how
               \* it ended: "done", "failed", "crashed"
    char,      \* the name the analysis asks for; the server is not compared
    charState,
    openReports, \* reports that are not done
    source,    \* SourceID of each fight, 0 if it is not known
    summary,   \* fight objects with DoneSummary
    openEvents, \* of those, the ones whose events are open
    fetched,   \* how often the events of a fight were added to it
    finished,  \* fights with DoneEvents
    stat,      \* the statistics: kills, score sum and count of each cell
    given      \* history: fights that the answers of this analysis had with their players

inst  == <<charState, openReports, source, summary, openEvents, fetched, finished, stat, given>>
rvars == <<world, cache, pc, char, inst>>

RInit ==
    /\ world \in Worlds
    /\ cache = {}
    /\ pc = "idle" /\ char \in Names
    /\ charState = "invalid" /\ openReports = {}
    /\ source = [f \in Fights |-> 0] /\ summary = {} /\ openEvents = {}
    /\ fetched = [f \in Fights |-> 0] /\ finished = {}
    /\ stat = <<>> /\ given = {}

\* An unknown preset or invalid options: the page says so.
Start ==
    /\ pc \in {"idle", "done", "failed"}
    /\ pc' \in {"rankings", "done"}
    /\ char' \in Names
    /\ charState' = "invalid" /\ openReports' = {}
    /\ source' = [f \in Fights |-> 0] /\ summary' = {} /\ openEvents' = {}
    /\ fetched' = [f \in Fights |-> 0] /\ finished' = {}
    /\ stat' = <<>> /\ given' = {}
    /\ UNCHANGED <<world, cache>>

-----------------------------------------------------------------------------
(* updateReports.  A fight is listed once for each partition that has it;  *)
(* every listing makes a fight object, and the last one stays in Fights.   *)

Listed(f) == world.rank[char].dps[f]
Job(f)    == world.rank[char].job[f]
InFights  == {f \in Fights : Listed(f) > 0}
Healed    == world.rank[char].hps

RankingsFail ==
    /\ pc = "rankings"
    /\ pc' = "failed"
    /\ UNCHANGED <<world, cache, char, inst>>

NoRankings ==
    /\ pc = "rankings"
    /\ charState' \in {"notfound", "hidden"}
    /\ pc' = "build"
    /\ UNCHANGED <<world, cache, char, openReports, source, summary, openEvents, fetched,
                   finished, stat, given>>

Rankings ==
    /\ pc = "rankings"
    /\ charState' = IF InFights = {} THEN "nolog" ELSE "normal"
    /\ openReports' = {ReportOf[f] : f \in InFights \cup Healed}
    /\ pc' = IF InFights = {} THEN "build" ELSE "replay"
    /\ UNCHANGED <<world, cache, char, source, summary, openEvents, fetched, finished, stat,
                   given>>

-----------------------------------------------------------------------------
(* updateFights. *)

\* The fights of a report as they are listed make the key of its answer.
Key(r) == <<r, [f \in {g \in InFights : ReportOf[g] = r} |-> Listed(f)]>>
Ids(players) == [i \in DOMAIN players |-> i]

\* The first friendly player with the name.
ByName(players, name) ==
    FoldLeft(LAMBDA id, i : IF id = 0 /\ players[i].name = name THEN i ELSE id,
             0, Ids(players))

\* A second player with the job takes the first one back.
ByJob(players, job) ==
    FoldLeft(LAMBDA id, i : IF players[i].job # job THEN id ELSE IF id # 0 THEN 0 ELSE i,
             0, Ids(players))

\* Fault: the name is asked only when the job says nothing.
JobFirst(f) ==
    LET players == world.party[f] IN
    IF ByJob(players, Job(f)) # 0 THEN ByJob(players, Job(f)) ELSE ByName(players, char)

Resolved(f) ==
    LET players == world.party[f] IN
    IF ByName(players, char) # 0 THEN ByName(players, char) ELSE ByJob(players, Job(f))

\* Fault: every object of a fight gets the summary.
EveryObject(f) == {<<f, k>> : k \in 1 .. Listed(f)}
ObjectOf(f) == {<<f, Listed(f)>>}

Known(has) == {f \in has : Resolved(f) # 0}

\* do(hash, resp, save).
Use(has) ==
    /\ source' = [f \in Fights |-> IF f \in Known(has) THEN Resolved(f) ELSE source[f]]
    /\ summary' = summary \cup UNION {ObjectOf(f) : f \in Known(has)}
    /\ given' = given \cup has

\* Cached answers of reports; a load may fail.
Replay ==
    /\ pc = "replay"
    /\ \E found \in SUBSET {c \in cache : \E r \in openReports : c.key = Key(r)} :
         /\ Use(UNION {c.has : c \in found})
         /\ openReports' = {r \in openReports : \A c \in found : c.key # Key(r)}
    /\ pc' = "fights"
    /\ UNCHANGED <<world, cache, char, charState, openEvents, fetched, finished, stat>>

\* The answer is cached before it is looked at; a save may fail.  If its masterData or
\* the actors are null, none of its fights has a player, now and whenever it is loaded.
FightsAnswered(r) ==
    /\ pc = "fights" /\ r \in openReports
    /\ \E fights \in SUBSET {f \in InFights : ReportOf[f] = r}, actors \in BOOLEAN :
         LET has == IF actors THEN fights ELSE {} IN
         /\ Use(has)
         /\ cache' \in {cache, {c \in cache : c.key # Key(r)} \cup {[key |-> Key(r), has |-> has]}}
    /\ openReports' = openReports \ {r}
    /\ UNCHANGED <<world, pc, char, charState, openEvents, fetched, finished, stat>>

\* A report that is null is done, and its fights are left out.
FightsNull(r) ==
    /\ pc = "fights" /\ r \in openReports
    /\ openReports' = openReports \ {r}
    /\ UNCHANGED <<world, cache, pc, char, charState, source, summary, openEvents, fetched,
                   finished, stat, given>>

\* A call fails, or a report is asked for in vain.
FightsFail ==
    /\ pc = "fights" /\ openReports # {}
    /\ pc' = "failed"
    /\ UNCHANGED <<world, cache, char, inst>>

FightsDone ==
    /\ pc = "fights" /\ openReports = {}
    /\ pc' = "events"
    /\ openEvents' = summary
    /\ UNCHANGED <<world, cache, char, charState, openReports, source, summary, fetched,
                   finished, stat, given>>

-----------------------------------------------------------------------------
(* updateEvents. *)

Events(o) ==
    /\ pc = "events" /\ o \in openEvents
    /\ openEvents' = openEvents \ {o}
    /\ fetched' = [fetched EXCEPT ![o[1]] = @ + 1]
    /\ finished' = finished \cup {o[1]}
    /\ UNCHANGED <<world, cache, pc, char, charState, openReports, source, summary, stat,
                   given>>

EventsNull(o) ==
    /\ pc = "events" /\ o \in openEvents
    /\ openEvents' = openEvents \ {o}
    /\ UNCHANGED <<world, cache, pc, char, charState, openReports, source, summary, fetched,
                   finished, stat, given>>

EventsFail ==
    /\ pc = "events" /\ openEvents # {}
    /\ pc' = "failed"
    /\ UNCHANGED <<world, cache, char, inst>>

EventsDone ==
    /\ pc = "events" /\ openEvents = {}
    /\ pc' = "build"
    /\ UNCHANGED <<world, cache, char, inst>>

-----------------------------------------------------------------------------
(* buildReportFight and buildReportFightRecalc. *)

\* Fault: the end of a buff counts as a time of its own.
EndsUnshifted(buff) == buff.at
DrunkAt(buff) == IF buff.removed THEN buff.at - PotionBuffTime ELSE buff.at

\* A buff event within the cooldown of the last one that counted is the same potion.
Potions(buffs) ==
    FoldLeft(LAMBDA acc, buff :
                 IF acc.next > 0 /\ DrunkAt(buff) < acc.next THEN acc
                   ELSE [used |-> acc.used + 1, next |-> DrunkAt(buff) + Cooldown[Potion]],
             [used |-> 0, next |-> 0], buffs).used

Used(f, s) ==
    fetched[f] * (IF s = Potion THEN Potions(world.log[f].buffs) ELSE world.log[f].casts[s])

\* What is used of a skill counts for all that share its cooldown.
UsedForPercent(f, s) ==
    IF s \in SharedBy[Job(f)]
      THEN SumFunction([t \in SharedBy[Job(f)] |-> Used(f, t)])
      ELSE Used(f, s)

\* Fault: a cooldown that began counts as none.
MaxRoundedDown(f, s) == Charges[s] + world.log[f].length \div Cooldown[s]
MaxForPercent(f, s) ==
    Charges[s] + (world.log[f].length + Cooldown[s] - 1) \div Cooldown[s]

\* In percent, at most 100.
Quota(f, s) == Min({100, (100 * UsedForPercent(f, s)) \div MaxForPercent(f, s)})

-----------------------------------------------------------------------------
(* buildReportCaclPrepare, CalcStat and CalcRank.  A cell of the statistics is a *)
(* job, an encounter, or a job in an encounter.                                *)

Cells(f) ==
    {"job"} \X {All, Job(f)} \cup {"enc"} \X {All, EncOf[f]}
        \cup {"encjob"} \X {<<All, Job(f)>>, <<EncOf[f], Job(f)>>}

\* The cells of all encounters get no score.
ScoreCells(f) == Cells(f) \ {<<"enc", All>>, <<"encjob", <<All, Job(f)>>>>}

Empty == [kills |-> 0, sum |-> 0, count |-> 0]

FightScore(f) == FoldLeft(LAMBDA sum, s : sum + Quota(f, s), 0, SkillRows[Job(f)])

Tally(st, f) ==
    LET old(c) == IF c \in DOMAIN st THEN st[c] ELSE Empty
        scored(c) == c \in ScoreCells(f)
    IN [c \in DOMAIN st \cup Cells(f) |->
          IF c \notin Cells(f) THEN st[c]
            ELSE [kills |-> old(c).kills + 1,
                  sum   |-> old(c).sum + IF scored(c) THEN FightScore(f) ELSE 0,
                  count |-> old(c).count + IF scored(c) THEN Len(SkillRows[Job(f)]) ELSE 0]]

Prepared ==
    FoldSet(LAMBDA f, st : Tally(st, f),
            [c \in {<<"job", All>>, <<"enc", All>>} |-> Empty],
            InFights \cap finished)

Score(c) == IF stat[c].count > 0 THEN stat[c].sum \div stat[c].count ELSE 0

\* The encounters with a ranking; CalcRank looks each of them up in the statistics.
RankedEncounters == {EncOf[f] : f \in InFights \cup Healed}
Covered == \A e \in RankedEncounters : <<"enc", e>> \in DOMAIN Prepared

\* The rankings are there unless the character is not.
Build ==
    /\ pc = "build"
    /\ charState \in {"normal", "nolog"} => Covered
    /\ stat' = IF charState = "normal" THEN Prepared ELSE <<>>
    /\ pc' = "done"
    /\ UNCHANGED <<world, cache, char, charState, openReports, source, summary, openEvents,
                   fetched, finished, given>>

\* A lookup through a nil pointer ends the program, and all that wait with it.
Crash ==
    /\ pc = "build"
    /\ charState \in {"normal", "nolog"} /\ ~Covered
    /\ pc' = "crashed"
    /\ UNCHANGED <<world, cache, char, inst>>

RNext ==
    \/ Start \/ RankingsFail \/ NoRankings \/ Rankings
    \/ Replay \/ (\E r \in Reports : FightsAnswered(r) \/ FightsNull(r)) \/ FightsFail \/ FightsDone
    \/ (\E o \in openEvents : Events(o) \/ EventsNull(o)) \/ EventsFail \/ EventsDone
    \/ Build \/ Crash

RSpec == RInit /\ [][RNext]_rvars

-----------------------------------------------------------------------------
(* Properties. *)

Named(f) == {i \in DOMAIN world.party[f] : world.party[f][i].name = char}
OfJob(f) == {i \in DOMAIN world.party[f] : world.party[f][i].job = Job(f)}

\* If players of a fight have the name of the character, its statistics are those of
\* one of them, also when the answer was cached by the analysis of a character with
\* another name; if none has, those of a player with its job.  A fight that an answer
\* shows with its players is left out only if nobody has the name and not just one
\* player has the job (fflogs_2_fight.go:93-142).
NamedPlayerFirst ==
    /\ \A o \in summary : source[o[1]] # 0
    /\ \A f \in Fights : source[f] # 0 =>
          IF Named(f) # {} THEN source[f] \in Named(f) ELSE source[f] \in OfJob(f)
    /\ \A f \in given :
          Named(f) # {} \/ Cardinality(OfJob(f)) = 1 => \E o \in summary : o[1] = f

\* "If the job is not doubled, the search by job is possible", and a doubled one is
\* told apart: a player taken for the character by its job is the only one with it
\* (fflogs_2_fight.go:117, 122).
JobAloneFits ==
    \A f \in Fights : source[f] # 0 /\ Named(f) = {} => OfJob(f) = {source[f]}

\* A fight that partitions list twice is counted once, and a potion is counted once,
\* whether it was taken before the fight, its buff shows up twice or ends with the
\* player's death (fflogs_1_reports.go:143, fflogs_2_fight.go:138,
\* fflogs_4_statistics_fight.go:29-60).
TrueUse(f, s) == IF s = Potion THEN Len(world.log[f].drinks) ELSE world.log[f].casts[s]
UsesAreTrue ==
    \A f \in finished, s \in Skills : Used(f, s) = TrueUse(f, s)

\* A score is full only if, in each finished fight of its job and encounter, every
\* skill was used as often as can be: all its charges at the start and one for each
\* cooldown that ends within the fight, the uses of skills that share a cooldown taken
\* together.  Nothing else is asked for, unless one of the skills is counted with a
\* charge more than it has (fflogs_4_statistics_calc_prepair.go:81-128,
\* fflogs_4_statistics_fight_recalc.go:10-36; the charges by its comments).
FightsIn(c) ==
    {f \in finished : CASE c[1] = "job" -> c[2] \in {All, Job(f)}
                        [] c[1] = "enc" -> c[2] = EncOf[f]
                        [] c[1] = "encjob" -> c[2] = <<EncOf[f], Job(f)>>}
SkillsOf(f) == Range(SkillRows[Job(f)])
Permitted(f, s) ==
    ChargesOf[s] + Cardinality({t \in 1 .. world.log[f].length - 1 : t % Cooldown[s] = 0})
UsedToTheFull(f, s) ==
    LET together == IF s \in SharedBy[Job(f)] THEN SharedBy[Job(f)] ELSE {s}
    IN SumFunction([t \in together |-> TrueUse(f, t)]) >= Permitted(f, s)
WellCounted(s) == Charges[s] + 1 = ChargesOf[s]
ScoreMeasuresUse ==
    pc = "done" =>
        \A c \in {d \in DOMAIN stat : stat[d].count > 0} :
            LET full == \A f \in FightsIn(c) : \A s \in SkillsOf(f) : UsedToTheFull(f, s)
            IN /\ Score(c) = 100 => full
               /\ full /\ (\A f \in FightsIn(c) : \A s \in SkillsOf(f) : WellCounted(s))
                     => Score(c) = 100

\* "If it is still not found, it cannot be helped": such a fight is left out and the
\* analysis goes on; a job without a fight is skipped (fflogs_2_fight.go:132,
\* fflogs_4_statistics_calc_rank.go:32).
NeverCrashes == pc # "crashed"
=============================================================================
