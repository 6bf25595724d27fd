\* One fight is ranked for each character, with up to three players in it.
CONSTANTS
    Names = {"me", "other"}
    Jobs = {"Monk", "Gunbreaker", "Warrior"}
    Skills = {"riddle", "aurora", "intuition", "flash", "potion"}
    Fights = {"f1", "f2", "f3"}
    Reports = {"r1", "r2"}
    Encounters = {"e1", "e2"}
    ReportOf <- MCReportOf
    EncOf <- MCEncOf
    Worlds <- PartyWorlds
    SkillRows <- MCSkillRows
    SharedBy <- MCSharedBy
    ChargesOf <- MCChargesOf
    Charges <- MCCharges
    Cooldown <- MCCooldown
    Potion = "potion"
    PotionBuffTime = 6
SPECIFICATION RSpec
INVARIANTS
    JobAloneFits
CHECK_DEADLOCK FALSE
