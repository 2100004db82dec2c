--------------------------- MODULE StripVaultMath ---------------------------
(***************************************************************************)
(* The arithmetic of utils/math.rs.  An operator whose name is that of a   *)
(* function of the program gives the value it returns; the predicate next  *)
(* to it says when it returns one rather than an error.  Products are      *)
(* taken in u128 by the program, where two u64 factors never overflow, so  *)
(* only the narrowing to u64 that ends each function is kept.              *)
(***************************************************************************)
EXTENDS Ledger

CONSTANTS
  U64_MAX,                 \* 2^64 - 1
  FIXED_UNIT,              \* grains of an f64 multiplier in 1e-9, the fixed-point unit
  MAX_YIELD_BPS,           \* 10_000: the whole of a payout, in basis points
  DEFAULT_USDC_SWAP_RATE,  \* micro-USDC for one share of stock
  DEFAULT_SOL_SWAP_RATE,   \* lamports for one share of stock
  SCALE_FACTOR             \* 10^decimals of the stock mint

ASSUME U64_MAXAssumption == U64_MAX \in Nat \ {0}
ASSUME FIXED_UNITAssumption == FIXED_UNIT \in Nat \ {0}
ASSUME MAX_YIELD_BPSAssumption == MAX_YIELD_BPS \in Nat \ {0}
ASSUME SwapRateAssumption ==
  /\ DEFAULT_USDC_SWAP_RATE \in Nat \ {0}
  /\ DEFAULT_SOL_SWAP_RATE \in Nat \ {0}
  /\ SCALE_FACTOR \in Nat \ {0}

(***************************************************************************)
(* f64_to_fixed_multiplier: rounds half away from zero and saturates in    *)
(* the cast.  An f64 is counted in grains of 1/FIXED_UNIT of a fixed-point *)
(* unit, so what rounds to 0 exists.                                       *)
(***************************************************************************)
Scaled(val) == (2 * val + FIXED_UNIT) \div (2 * FIXED_UNIT)

ValidMultiplier(val) == val > 0 /\ Scaled(val) <= U64_MAX + 1

Truncated(val) == val \div FIXED_UNIT   \* mutant: the cast without round()
f64_to_fixed_multiplier(val) ==
  IF Scaled(val) > U64_MAX THEN U64_MAX ELSE Scaled(val)

(* calculate_harvest_amount: the raw tokens that carry a multiplier's rise. *)
HarvestDefined(old, new) == 0 < old /\ old < new

DividedByOld(raw, old, new) == (raw * (new - old)) \div old   \* mutant: the wrong divisor
calculate_harvest_amount(raw, old, new) == (raw * (new - old)) \div new

(* calculate_yield_share: bps of a payout, rounded down. *)
RoundedUp(payout, share_bps) ==            \* mutant
  (payout * share_bps + MAX_YIELD_BPS - 1) \div MAX_YIELD_BPS
calculate_yield_share(payout, share_bps) == (payout * share_bps) \div MAX_YIELD_BPS

(***************************************************************************)
(* calculate_simulated_swap_output: custom_rate is None or a positive      *)
(* rate; Some(0) is an error and starts no swap.                           *)
(***************************************************************************)
None == 0
PayoutAssetTypes == {"Usdc", "Sol"}

SwapRate(payout_asset_type, custom_rate) ==
  CASE custom_rate # None -> custom_rate
    [] payout_asset_type = "Usdc" -> DEFAULT_USDC_SWAP_RATE
    [] OTHER -> DEFAULT_SOL_SWAP_RATE

PricedPerLot(stock_amount, payout_asset_type, custom_rate) ==   \* mutant: divides first
  (stock_amount \div SCALE_FACTOR) * SwapRate(payout_asset_type, custom_rate)
calculate_simulated_swap_output(stock_amount, payout_asset_type, custom_rate) ==
  (stock_amount * SwapRate(payout_asset_type, custom_rate)) \div SCALE_FACTOR
=============================================================================
