SPECIFICATION IndexedSpec
CONSTANTS
  alice = alice
  bob = bob
  Wallets = {alice, bob}
  DeedAssets = {d1, d2}
  YieldAssets = {y1}
  U64_MAX = 1000
  FIXED_UNIT = 4
  MAX_YIELD_BPS = 4
  DEFAULT_USDC_SWAP_RATE = 2
  DEFAULT_SOL_SWAP_RATE = 2
  SCALE_FACTOR = 2
  U32_MAX = 2
  MAX_TRIPLES = 3
  RESERVE_OWNED_BY_PROGRAM = FALSE
  ShareChoices = {3}
  PriceChoices = {0}
  CustomRates = {1}
  StartMultipliers = {1, 4}
  MultiplierChoices = {8, 12}
  MAX_TIME = 2
  Shares0 = 4
  Cash = 0
  Lamports = 0
  Liquidity = 3
  PaidIn = "Usdc"
  OtherTokens = {}
  Dust = 0
  SplitMultipliers = {}
  StartStock <- MCStartStock
  StartFunds <- MCStartFunds
  HoldingChoices <- AnyHolding
  ExpiryChoices <- CountedExpiry
SYMMETRY AssetSymmetry
INVARIANTS
  CustodyCovered
  PrincipalPreserved
  EventsTellTheStock
  EventsTellThePositions
PROPERTIES
  StockLeavesByRight
  SquattedForGood
CHECK_DEADLOCK FALSE
