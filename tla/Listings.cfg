CONSTANTS
    t1 = t1
    t2 = t2
    t3 = t3
    Threads = {t1, t2, t3}
    Nobody = Nobody
    Change <- Arguments
    MaxObjects = 4
    MaxIndex = 8
    Chars = {".", "/", "a"}
    Paths <- ShortPaths
    NPos = npos
SPECIFICATION FairSpec
INVARIANTS
    NoUpdateLost
    OwnersCounted
    NothingLeaks
    
    OneDotLeft
PROPERTY
    EveryProgramEnds
