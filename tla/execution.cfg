SPECIFICATION ScenesSpec
CONSTANTS
  x1 = x1  x2 = x2  w1 = w1  y1 = y1  alice = alice  bob = bob  minerW = minerW
  t1 = t1  t2 = t2  p = p  c = c
  Txs <- AllTxs
  TxOrder <- ByFee
  Sender <- TxSender
  Recipient <- TxTo
  Nonce <- TxNonce
  Amount <- TxAmount
  Fee <- TxFee
  Wallets = {alice, bob, minerW}
  Premine <- Holdings
  NoTask = NoTask
  MaxPerBlock = 2
  MaturityDepth = 1
  MinerReward = 3
  PoolReward = 1
  ReserveShare = 1
  TreasuryShare = 1
  Quarters <- TwoQuarters
  Tasks = {t1, t2}
  Foreign = {p, c}
  Previous <- Parents
  NoBlock = NoBlock
  Payload <- Carried
  Miner <- Producer
  RetargetBlocks = 2
  MaxHeight = 3
  ForcedHeights = {3}
  Aging = {w1}
  MaxClaimed = 1
  j1 = j1  j2 = j2  s1 = s1  s2 = s2  q1 = q1  q2 = q2
  Jobs = {j1, j2}
  Requests = {q1, q2}
  Signers = {s1, s2}
  Threshold = 2
  Rewards = {2}
  MonthlyQuota = 2
  MaxPending = 2
  MaxPaid = 4
  Months = {1, 2}
  MaxAccrued = 2
SYMMETRY Alike
INVARIANTS NodeTypeOK ConfirmedIsOnChain RewardsMatureOnce SelectedHasOwner FrozenStaysExecutable TreasuryAccounted ParamsFollowEvents
PROPERTIES PaymentsFollowChain JobsStayCovered PaymentsAreDue
CHECK_DEADLOCK FALSE
