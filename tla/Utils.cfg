SPECIFICATION Spec
CONSTANTS
  U64_MAX = 6
  FIXED_UNIT = 2
  MAX_YIELD_BPS = 7
  DEFAULT_USDC_SWAP_RATE = 5
  DEFAULT_SOL_SWAP_RATE = 3
  SCALE_FACTOR = 4
  BOUND = 13
  SCALED_UI_AMOUNT_EXTENSION_TYPE = 20
  MINT_EXTENSIONS_OFFSET = 3
  MINT_DECIMALS_OFFSET = 1
  AUTHORITY_LEN = 1
  NUMBER_LEN = 1
  ExtensionTypes = {0, 7, 20}
  MOST_EXTENSIONS = 3
  Fillings <- AnyBytes
INVARIANTS
  HarvestIsTheMostThatDilutesNothing
  SharesSplitThePayout
  MultiplierIsTheNearest
  SwapInOneGoIsBest
  ReadsTheFirstExtension
CHECK_DEADLOCK FALSE
