\* Two candidates of a round and one validator: expiry, revival, promotion, foreign
\* blocks, reorgs and restarts between the reads and the writes of a request.
SPECIFICATION Spec
CONSTANTS
    m1 = m1
    m2 = m2
    v1 = v1
    v2 = v2
    v3 = v3
    f1 = f1
    f2 = f2
    genesis = genesis
    Genesis = genesis
    Miners = {m1, m2}
    Tasks <- OneTaskEach
    Validators = {v1}
    Required = 1
    Volatile = {v1}
    Unmineable <- NoTasks
    Direct = {m2}
    Foreign = {f1, f2}
    MayCrash = TRUE
    MaxAsking = 1
    MaxVoting = 1
INVARIANT TypeOK BlocksExtendTheirRound
PROPERTY AcceptanceIsAnchored
