SPECIFICATION WorkerSpec
CONSTANTS
  a1 = a1  a2 = a2  b1 = b1  b2 = b2  c1 = c1  v1 = v1  v2 = v2  v3 = v3  genesis = genesis
  Blocks <- ThreeForks
  Parent <- ThreeParent
  Height <- ThreeHeight
  Genesis = genesis
  Validators = {v1}
  Certified = {b2}
  Unreplayable = {a2}
  Refused = {c1}
  Pinned = {}
  Qualified = {v1}
  Weight <- HeavyFirst
  Required = 1
  ReplayLimit = 2
  StallFailures = 2
  Proposed = {b2}
  Announced = {a2, b1, b2, c1}
  Mined = {a1}
  Volatile = {}
  MaxInflight = 1
  MayCrash = FALSE
PROPERTIES StuckQueueIsReported ReplayKeepsUp
