\* Analyses one after the other; a crash ends the program.
CONSTANTS
    Names = {"me", "other"}
    Jobs = {"Monk", "Gunbreaker", "Warrior"}
    Skills = {"riddle", "aurora", "intuition", "flash", "potion"}
    Fights = {"f1", "f2", "f3"}
    Reports = {"r1", "r2"}
    Encounters = {"e1", "e2"}
    ReportOf <- MCReportOf
    EncOf <- MCEncOf
    Worlds <- MCWorlds
    SkillRows <- MCSkillRows
    SharedBy <- MCSharedBy
    ChargesOf <- MCChargesOf
    Charges <- MCCharges
    Cooldown <- MCCooldown
    Potion = "potion"
    PotionBuffTime = 6
SPECIFICATION RSpec
INVARIANTS
    NamedPlayerFirst
    UsesAreTrue
    ScoreMeasuresUse
CHECK_DEADLOCK FALSE
