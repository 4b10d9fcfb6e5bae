SPECIFICATION FairSpec
CONSTANTS
    t1 = t1
    t2 = t2
    t3 = t3
    Lockers = {t1, t2, t3}
    Main = main
    Amount <- Added
    MaxSpins = 2
    ConsumePromoted = FALSE
INVARIANTS
    MutualExclusion
    NoDataRace
    PrintsSum
PROPERTIES
    Terminates
    ImplementsAdds
