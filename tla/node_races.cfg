SPECIFICATION Spec
CONSTANTS
  a1 = a1  a2 = a2  b1 = b1  b2 = b2  c1 = c1  v1 = v1  v2 = v2  v3 = v3  genesis = genesis
  Blocks <- TwoForks
  Parent <- TwoParent
  Height <- TwoHeight
  Genesis = genesis
  Validators = {v1, v2}
  Certified = {b2}
  Unreplayable = {}
  Refused = {}
  Pinned = {}
  Qualified = {v1, v2}
  Weight <- HeavyFirst
  Required = 2
  ReplayLimit = 2
  StallFailures = 1
  Proposed = {a2}
  Announced = {a1, b1, b2}
  Mined = {}
  Volatile = {}
  MaxInflight = 2
  MayCrash = TRUE
INVARIANTS TypeOK ChainLinked HeaderIsSettled RequestsSettled
PROPERTIES CanonicalSpec
