\* Two miners, one with a second try, and two validators that vote on what they are offered.
SPECIFICATION FairSpec
CONSTANTS
    m1 = m1
    m2 = m2
    v1 = v1
    v2 = v2
    v3 = v3
    f1 = f1
    f2 = f2
    genesis = genesis
    Genesis = genesis
    Miners = {m1}
    Tasks <- TwoTries
    Validators = {v1, v2}
    Required = 2
    Volatile = {}
    Unmineable <- OneTask
    Direct = {}
    Foreign = {f1}
    MayCrash = FALSE
    MaxAsking = 0
    MaxVoting = 1
PROPERTY CandidateDecided
