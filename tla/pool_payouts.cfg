SPECIFICATION FirstSpec
CONSTANTS
    w1 = w1
    w2 = w2
    Workers = {w1, w2}
    MaxTasks = 2
    TaskUnits = 1
    Reward = 12
    MinPayout = 1
    Fee = 1
    Funds = 20
    MaxPayouts = 2
    MaxFaults = 1
INVARIANTS PaidAtMostEarned
PROPERTIES EarningsNeverShrink PayoutsSettle
