SPECIFICATION Explored
CONSTANTS
  Null = Null
  None = None
  Failed = Failed
  u1 = u1
  u2 = u2
  v1 = v1
  v2 = v2
  p1 = p1
  app = app
  la = la
  lb = lb
  lc = lc
  x = x
  y = y
  f = f
  top = top
  star = star
  User = {u1, u2}
  Staker = {u1}
  Service = {consensus, app}
  Consensus = consensus
  StakerFunds = 2
  StakedAmounts = {1}
  Lockups = {0, 1}
  Extension = 1
  MaxOffenses = 3
  MaxClock = 2
  Sender = {s1, s2}
  Pool = {p1, p2}
  BridgeFunds = 3
  BridgeAmounts = {1, 2}
  FeeRates = {0, 1}
  MinPerRequest = 1
  MaxPerRequest = 2
  MaxPerDay = 3
  MaxRequests = 2
  MaxDay = 2
  PayingApp = {app}
  Payee = {u2}
  AdminGroup <- Groups
  Escrow <- Escrows
  PayFunds = 2
  PayAmounts = {1}
  Ratios = {0, 50, 100}
  MaxTime = 2
  Validator = {v1, v2}
  Billing = {b1}
  GasFees = GasFees
  PayerFunds = 3
  FeeAmounts = {1, 2}
  Price = 2
  Gas <- GasUsed
  Coin = 2
  RewardShare = 6
  RewardRate = 1
  Votes <- VotesOfBlocks
  MaxTxs = 2
  MaxBlocks = 3
  App = {a1, a2}
  Sizes = {0, 2, 3, 5}
  StakeAmounts = {0, 1, 2}
  TreeLimit = 7
  ServiceBudget = 3
  AppsBudget = 6
  FreeBudget = 4
  MaxNonce = 4
INVARIANTS TypeOK TreesAreExact BooksBalance LimitsAreKept
PROPERTIES VersionsAreSeparate StepsAreCovered PermissionsDecide CallsAreComplete
CHECK_DEADLOCK FALSE
