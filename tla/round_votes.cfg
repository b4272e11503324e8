\* One task, three validators and a quorum of two: late, repeated and rejecting votes,
\* the blocks and one message of a peer.
SPECIFICATION GossipSpec
CONSTANTS
    m1 = m1
    m2 = m2
    v1 = v1
    v2 = v2
    v3 = v3
    f1 = f1
    f2 = f2
    genesis = genesis
    Genesis = genesis
    Miners = {m1}
    Tasks <- OneTask
    Validators = {v1, v2, v3}
    Required = 2
    Volatile = {}
    Unmineable <- NoTasks
    Direct = {}
    Foreign = {f1, f2}
    MayCrash = TRUE
    MaxAsking = 1
    MaxVoting = 2
    MaxMessages = 1
    MaxRequests = 2
SYMMETRY Alike
INVARIANT RewardsFollowBlocks
PROPERTY DecisionsAreFinal
