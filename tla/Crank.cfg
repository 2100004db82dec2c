SPECIFICATION FairSpec
CONSTANTS
  alice = alice
  bob = bob
  Wallets = {alice, bob}
  DeedAssets = {d1}
  YieldAssets = {y1, y2}
  U64_MAX = 1000
  FIXED_UNIT = 4
  MAX_YIELD_BPS = 4
  DEFAULT_USDC_SWAP_RATE = 2
  DEFAULT_SOL_SWAP_RATE = 2
  SCALE_FACTOR = 2
  U32_MAX = 2
  MAX_TRIPLES = 2
  RESERVE_OWNED_BY_PROGRAM = FALSE
  ShareChoices = {2}
  PriceChoices = {0}
  CustomRates = {1}
  StartMultipliers = {4}
  MultiplierChoices = {8, 16}
  MAX_TIME = 1
  Shares0 = 3
  Cash = 0
  Lamports = 1
  Liquidity = 3
  PaidIn = "Usdc"
  OtherTokens = {}
  Dust = 0
  SplitMultipliers = {}
  StartStock <- MCStartStock
  StartFunds <- MCStartFunds
  HoldingChoices <- VaultsOwn
  ExpiryChoices <- OneCount
PROPERTIES
  PendingIsSwapped
  PayoutIsDistributed
CHECK_DEADLOCK FALSE
