------------------------ MODULE StripVaultMathProofs ------------------------
(***************************************************************************)
(* What the functions of utils/math.rs return, for all their arguments.    *)
(***************************************************************************)
EXTENDS StripVaultMath, TLAPS

(* Division of natural numbers: the quotient and how far it is from exact. *)
LEMMA Quotient ==
  ASSUME NEW n \in Nat, NEW d \in Nat \ {0}
  PROVE  /\ n \div d \in Nat
         /\ (n \div d) * d <= n
         /\ n < (n \div d) * d + d
OBVIOUS

(* Products of natural numbers. *)
LEMMA ProductType ==
  ASSUME NEW m \in Nat, NEW n \in Nat
  PROVE  m * n \in Nat
OBVIOUS

LEMMA ProductMonotone ==
  ASSUME NEW m \in Nat, NEW n \in Nat, NEW d \in Nat, m <= n
  PROVE  m * d <= n * d
OBVIOUS

LEMMA ProductCancel ==
  ASSUME NEW m \in Nat, NEW n \in Nat, NEW d \in Nat \ {0}, m * d <= n * d
  PROVE  m <= n
OBVIOUS

(* A multiplier that the program accepts becomes a fixed-point number. *)
LEMMA FixedType ==
  ASSUME NEW val \in Nat
  PROVE  f64_to_fixed_multiplier(val) \in Nat
<1>1. 2 * val + FIXED_UNIT \in Nat /\ 2 * FIXED_UNIT \in Nat \ {0}
  BY FIXED_UNITAssumption
<1>2. Scaled(val) \in Nat
  BY <1>1, Quotient DEF Scaled
<1>. QED  BY <1>2, U64_MAXAssumption DEF f64_to_fixed_multiplier

(* A harvest takes no more than there is, and what it leaves, at the new
   multiplier, is worth at least what there was at the old one. *)
THEOREM HarvestDilutesNothing ==
  ASSUME NEW raw \in Nat, NEW old \in Nat, NEW new \in Nat, HarvestDefined(old, new)
  PROVE  LET harvest == calculate_harvest_amount(raw, old, new)
         IN  /\ harvest \in Nat
             /\ harvest <= raw
             /\ (raw - harvest) * new >= raw * old
<1>. DEFINE q == (raw * (new - old)) \div new
<1>1. new \in Nat \ {0} /\ new - old \in Nat /\ new - old <= new
  BY DEF HarvestDefined
<1>2. raw * (new - old) \in Nat
  BY <1>1, ProductType
<1>3. q \in Nat /\ q * new <= raw * (new - old)
  BY <1>1, <1>2, Quotient
<1>4. raw * (new - old) <= raw * new
  BY <1>1, ProductMonotone
<1>5. q * new <= raw * new
  <2>1. q * new \in Nat /\ raw * new \in Nat
    BY <1>3, ProductType
  <2>. HIDE DEF q
  <2>. QED  BY <1>2, <1>3, <1>4, <2>1
<1>6. q <= raw
  BY <1>1, <1>3, <1>5, ProductCancel
<1>7. (raw - q) * new = raw * new - q * new
  <2>. HIDE DEF q
  <2>. QED  BY <1>3
<1>8. raw * (new - old) = raw * new - raw * old
  OBVIOUS
<1>9. (raw - q) * new >= raw * old
  <2>1. raw * new \in Nat /\ raw * old \in Nat /\ q * new \in Nat
    BY <1>3, ProductType
  <2>. HIDE DEF q
  <2>. QED  BY <1>3, <1>7, <1>8, <2>1
<1>. QED  BY <1>3, <1>6, <1>9 DEF calculate_harvest_amount

(* Nobody could harvest more: any number of tokens that leaves the rest worth
   as much as before is at most what the program takes. *)
THEOREM HarvestIsTheMost ==
  ASSUME NEW raw \in Nat, NEW old \in Nat, NEW new \in Nat, HarvestDefined(old, new),
         NEW q \in 0 .. raw, (raw - q) * new >= raw * old
  PROVE  q <= calculate_harvest_amount(raw, old, new)
<1>. DEFINE h == (raw * (new - old)) \div new
<1>1. new \in Nat \ {0} /\ new - old \in Nat /\ q \in Nat /\ raw - q \in Nat
  BY DEF HarvestDefined
<1>2. raw * (new - old) \in Nat
  BY <1>1, ProductType
<1>3. h \in Nat /\ raw * (new - old) < h * new + new
  BY <1>1, <1>2, Quotient
<1>4. q * new <= raw * (new - old)
  <2>1. (raw - q) * new = raw * new - q * new /\ raw * (new - old) = raw * new - raw * old
    BY <1>1
  <2>2. raw * new \in Nat /\ q * new \in Nat /\ raw * old \in Nat
    BY <1>1, ProductType
  <2>. QED  BY <2>1, <2>2
<1>. HIDE DEF h
<1>5. CASE q > h
  <2>1. (h + 1) * new <= q * new
    BY <1>1, <1>3, <1>5, ProductMonotone
  <2>2. (h + 1) * new = h * new + new /\ h * new \in Nat /\ q * new \in Nat
    BY <1>1, <1>3
  <2>. QED  BY <1>1, <1>2, <1>3, <1>4, <2>1, <2>2
<1>. QED  BY <1>1, <1>3, <1>5 DEF calculate_harvest_amount, h

(* A share of a payout is a number of units, and never more than its basis
   points of the payout. *)
THEOREM YieldShareBounds ==
  ASSUME NEW payout \in Nat, NEW share_bps \in Nat
  PROVE  /\ calculate_yield_share(payout, share_bps) \in Nat
         /\ calculate_yield_share(payout, share_bps) * MAX_YIELD_BPS <= payout * share_bps
<1>1. payout * share_bps \in Nat
  BY ProductType
<1>. QED  BY <1>1, MAX_YIELD_BPSAssumption, Quotient DEF calculate_yield_share

(* A swap pays out a number of units. *)
THEOREM SwapOutputType ==
  ASSUME NEW amount \in Nat, NEW asset \in PayoutAssetTypes, NEW rate \in Nat
  PROVE  calculate_simulated_swap_output(amount, asset, rate) \in Nat
<1>1. SwapRate(asset, rate) \in Nat
  BY SwapRateAssumption DEF SwapRate
<1>2. amount * SwapRate(asset, rate) \in Nat
  BY <1>1, ProductType
<1>. QED  BY <1>2, SwapRateAssumption, Quotient DEF calculate_simulated_swap_output

(* Swapping a harvest in two parts pays no more than swapping it in one go:
   a keeper that waits loses nothing to rounding. *)
THEOREM SwapInParts ==
  ASSUME NEW m \in Nat, NEW n \in Nat, NEW asset \in PayoutAssetTypes, NEW rate \in Nat
  PROVE  calculate_simulated_swap_output(m, asset, rate)
           + calculate_simulated_swap_output(n, asset, rate)
             <= calculate_simulated_swap_output(m + n, asset, rate)
<1>. DEFINE r == SwapRate(asset, rate)
            out(k) == (k * r) \div SCALE_FACTOR
<1>1. r \in Nat
  BY SwapRateAssumption DEF SwapRate
<1>. HIDE DEF r
<1>2. \A k \in Nat : /\ out(k) \in Nat /\ k * r \in Nat
                    /\ out(k) * SCALE_FACTOR <= k * r
                    /\ k * r < out(k) * SCALE_FACTOR + SCALE_FACTOR
  BY <1>1, ProductType, Quotient, SwapRateAssumption
<1>. HIDE DEF out
<1>3. (m + n) * r = m * r + n * r
  BY <1>1
<1>4. (out(m) + out(n)) * SCALE_FACTOR = out(m) * SCALE_FACTOR + out(n) * SCALE_FACTOR
      /\ (out(m + n) + 1) * SCALE_FACTOR = out(m + n) * SCALE_FACTOR + SCALE_FACTOR
  BY <1>2, SwapRateAssumption
<1>5. ASSUME out(m) + out(n) >= out(m + n) + 1
      PROVE  FALSE
  <2>1. (out(m + n) + 1) * SCALE_FACTOR <= (out(m) + out(n)) * SCALE_FACTOR
    <3>1. out(m + n) + 1 \in Nat /\ out(m) + out(n) \in Nat
      BY <1>2
    <3>. QED  BY <1>5, <3>1, SwapRateAssumption, ProductMonotone
  <2>2. /\ out(m) * SCALE_FACTOR \in Nat /\ out(n) * SCALE_FACTOR \in Nat
        /\ out(m + n) * SCALE_FACTOR \in Nat
    BY <1>2, SwapRateAssumption, ProductType
  <2>. QED  BY <1>2, <1>3, <1>4, <2>1, <2>2, SwapRateAssumption
<1>6. out(m) + out(n) <= out(m + n)
  <2>1. out(m) \in Nat /\ out(n) \in Nat /\ out(m + n) \in Nat
    BY <1>2
  <2>. QED  BY <1>5, <2>1
<1>. QED  BY <1>6 DEF calculate_simulated_swap_output, out, r
=============================================================================
