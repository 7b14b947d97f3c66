SPECIFICATION FairSpec
CONSTANTS
    r1 = r1  r2 = r2  r3 = r3
    Runners = {r1, r2, r3}
    Versions = {1, 2, 3}
    Migrations <- MCThreeRunners
    DownScripts = {1, 3}
    Rerunnable = {1, 2}
    Length = 2
    Targets = {0, 1, 3}
    Regimes = {"rolling", "exclusive"}
INVARIANTS TypeOK TornExplained RecordedIsApplied Gapless Fulfilled
PROPERTY Converges
CHECK_DEADLOCK FALSE
