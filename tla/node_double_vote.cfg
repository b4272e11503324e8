SPECIFICATION Spec
CONSTANTS
  a1 = a1  a2 = a2  b1 = b1  b2 = b2  c1 = c1  v1 = v1  v2 = v2  v3 = v3  genesis = genesis
  Blocks <- ForkTips
  Parent <- TipParent
  Height <- TipHeight
  Genesis = genesis
  Validators = {v1, v2, v3}
  Certified = {}
  Unreplayable = {}
  Refused = {}
  Pinned = {}
  Qualified = {v1, v2, v3}
  Weight <- HeavyFirst
  Required = 2
  ReplayLimit = 2
  StallFailures = 2
  Proposed = {a1, b1}
  Announced = {}
  Mined = {}
  Volatile = {}
  MaxInflight = 2
  MayCrash = FALSE
INVARIANT OneVotePerFork
