\* Two votes of a quorum of one in flight.
SPECIFICATION Spec
CONSTANTS
    m1 = m1
    m2 = m2
    v1 = v1
    v2 = v2
    v3 = v3
    f1 = f1
    f2 = f2
    genesis = genesis
    Genesis = genesis
    Miners = {m1}
    Tasks <- OneTask
    Validators = {v1, v2}
    Required = 1
    Volatile = {}
    Unmineable <- NoTasks
    Direct = {}
    Foreign = {}
    MayCrash = FALSE
    MaxAsking = 1
    MaxVoting = 2
INVARIANT BlockTaskStaysAccepted
