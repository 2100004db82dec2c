SPECIFICATION Spec
CONSTANTS
  U64_MAX = 6
  FIXED_UNIT = 2
  MAX_YIELD_BPS = 7
  DEFAULT_USDC_SWAP_RATE = 5
  DEFAULT_SOL_SWAP_RATE = 3
  SCALE_FACTOR = 4
  BOUND = 0
  SCALED_UI_AMOUNT_EXTENSION_TYPE = 20
  MINT_EXTENSIONS_OFFSET = 83
  MINT_DECIMALS_OFFSET = 44
  AUTHORITY_LEN = 32
  NUMBER_LEN = 8
  ExtensionTypes = {18, 20}
  MOST_EXTENSIONS = 1
  Fillings <- AnyBytes
INVARIANTS
  ScanKeepsOneComment
CHECK_DEADLOCK FALSE
