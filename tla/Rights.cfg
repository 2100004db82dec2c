SPECIFICATION OwnerSpec
CONSTANTS
  alice = alice
  bob = bob
  Wallets = {alice, bob}
  DeedAssets = {d1}
  YieldAssets = {y1, y2}
  U64_MAX = 1000
  FIXED_UNIT = 2
  MAX_YIELD_BPS = 4
  DEFAULT_USDC_SWAP_RATE = 2
  DEFAULT_SOL_SWAP_RATE = 2
  SCALE_FACTOR = 1
  U32_MAX = 4
  MAX_TRIPLES = 3
  RESERVE_OWNED_BY_PROGRAM = FALSE
  ShareChoices = {1, 3}
  PriceChoices = {1}
  CustomRates = {}
  StartMultipliers = {4}
  MultiplierChoices = {}
  MAX_TIME = 1
  Shares0 = 1
  Cash = 0
  Lamports = 1
  Liquidity = 0
  PaidIn = "Usdc"
  OtherTokens = {"Worthless"}
  Dust = 2
  SplitMultipliers = {}
  StartStock <- MCStartStock
  StartFunds <- MCStartFunds
  HoldingChoices <- VaultsOwn
  ExpiryChoices <- TwoPayouts
INVARIANTS
  CountsWithinTerms
PROPERTIES
  ImplementsRights
  OwnerCanLeave
CHECK_DEADLOCK FALSE
