---------------------------- MODULE UtilsProofs ----------------------------
(***************************************************************************)
(* What MCUtils checks on small inputs, for all inputs: the functions of   *)
(* math.rs and the scan of scaled_ui.rs.  The induction over the entries   *)
(* of a mint takes the least element of a set of numbers, a fact that is   *)
(* about a set and not about an operator.                                  *)
(***************************************************************************)
EXTENDS MCUtils, StripVaultMathProofs, FiniteSetTheorems, WellFoundedInduction, SequenceTheorems

(* The least element of a set of natural numbers, from which every
   induction below starts. *)
LEMMA LeastNatural ==
  ASSUME NEW T, T \subseteq Nat, T # {}
  PROVE  \E m \in T : \A n \in T : m <= n
<1>1. PICK m \in T : \A n \in T : <<n, m>> \notin OpToRel(<, Nat)
  BY WFMin, NatLessThanWellFounded, Zenon
<1>2. \A n \in T : ~(n < m)
  BY <1>1, Zenon DEF OpToRel
<1>. QED  BY <1>2

(* Max and Min choose what they say. *)
LEMMA MaxIs ==
  ASSUME NEW S, S \subseteq Int, NEW x \in S, \A y \in S : y <= x
  PROVE  Max(S) = x
<1>1. \A y \in S : x >= y
  OBVIOUS
<1>2. \A z \in S : (\A y \in S : z >= y) => z = x
  BY <1>1
<1>. QED  BY <1>1, <1>2 DEF Max

LEMMA MinIs ==
  ASSUME NEW S, S \subseteq Int, NEW x \in S, \A y \in S : x <= y
  PROVE  Min(S) = x
<1>1. \A z \in S : (\A y \in S : z <= y) => z = x
  OBVIOUS
<1>. QED  BY <1>1 DEF Min

-----------------------------------------------------------------------------
(* math.rs                                                                 *)

LEMMA HarvestValue ==
  ASSUME NEW raw \in Nat, NEW old \in Nat, NEW new \in Nat, HarvestDefined(old, new)
  PROVE  calculate_harvest_amount(raw, old, new)
           = Max({q \in 0 .. raw : (raw - q) * new >= raw * old})
<1>. DEFINE S == {q \in 0 .. raw : (raw - q) * new >= raw * old}
            h == calculate_harvest_amount(raw, old, new)
<1>1. h \in S
  BY HarvestDilutesNothing
<1>2. \A q \in S : q <= h
  BY HarvestIsTheMost
<1>3. S \subseteq Int
  OBVIOUS
<1>. HIDE DEF S, h
<1>4. Max(S) = h
  BY <1>1, <1>2, <1>3, MaxIs
<1>. QED  BY <1>4 DEF S, h

LEMMA ShareValue ==
  ASSUME NEW payout \in Nat, NEW bps \in 0 .. MAX_YIELD_BPS
  PROVE  /\ calculate_yield_share(payout, bps)
              = Cardinality({k \in 1 .. payout : k * MAX_YIELD_BPS <= payout * bps})
         /\ calculate_yield_share(payout, bps)
              + calculate_yield_share(payout, MAX_YIELD_BPS - bps) \in {payout - 1, payout}
<1>. DEFINE M == MAX_YIELD_BPS
            q == (payout * bps) \div M
            r == (payout * (M - bps)) \div M
<1>1. M \in Nat \ {0} /\ bps \in Nat /\ M - bps \in Nat
  BY MAX_YIELD_BPSAssumption
<1>2. payout * bps \in Nat /\ payout * (M - bps) \in Nat
  BY <1>1, ProductType
<1>3. q \in Nat /\ q * M <= payout * bps /\ payout * bps < q * M + M
  BY <1>1, <1>2, Quotient
<1>4. r \in Nat /\ r * M <= payout * (M - bps) /\ payout * (M - bps) < r * M + M
  BY <1>1, <1>2, Quotient
<1>5. calculate_yield_share(payout, bps) = q
      /\ calculate_yield_share(payout, M - bps) = r
  BY DEF calculate_yield_share
<1>. HIDE DEF q, r, M
<1>6. payout * bps + payout * (M - bps) = payout * M
  BY <1>1
<1>7. payout * M \in Nat /\ q * M \in Nat /\ r * M \in Nat
  BY <1>1, <1>3, <1>4, ProductType
<1>8. (q + r) * M = q * M + r * M /\ (q + r + 2) * M = q * M + r * M + M + M
  BY <1>1, <1>3, <1>4
<1>9. q + r <= payout
  <2>1. (q + r) * M <= payout * M
    BY <1>1, <1>2, <1>3, <1>4, <1>6, <1>7, <1>8
  <2>. QED  BY <2>1, <1>1, <1>3, <1>4, ProductCancel
<1>10. payout < q + r + 2
  <2>1. CASE q + r + 2 <= payout
    <3>1. (q + r + 2) * M <= payout * M
      BY <2>1, <1>1, <1>3, <1>4, ProductMonotone
    <3>. QED  BY <3>1, <1>1, <1>2, <1>3, <1>4, <1>6, <1>7, <1>8
  <2>. QED  BY <2>1, <1>3, <1>4
<1>11. q + r \in {payout - 1, payout}
  BY <1>3, <1>4, <1>9, <1>10
<1>12. {k \in 1 .. payout : k * M <= payout * bps} = 1 .. q
  <2>1. ASSUME NEW k \in 1 .. payout, k * M <= payout * bps
        PROVE  k <= q
    <3>1. CASE q + 1 <= k
      <4>1. (q + 1) * M <= k * M
        BY <3>1, <1>1, <1>3, ProductMonotone
      <4>2. (q + 1) * M = q * M + M /\ k * M \in Nat
        BY <1>1, <1>3
      <4>. QED  BY <4>1, <4>2, <2>1, <1>1, <1>2, <1>3, <1>7
    <3>. QED  BY <3>1, <1>3
  <2>2. ASSUME NEW k \in 1 .. q
        PROVE  k \in 1 .. payout /\ k * M <= payout * bps
    <3>1. k <= payout
      BY <1>3, <1>4, <1>9
    <3>2. k * M <= q * M /\ k * M \in Nat
      BY <1>1, <1>3, ProductMonotone, ProductType
    <3>. QED  BY <3>1, <3>2, <1>2, <1>3, <1>7
  <2>. QED  BY <2>1, <2>2, <1>3
<1>13. Cardinality(1 .. q) = q
  <2>1. Cardinality(1 .. q) = IF 1 > q THEN 0 ELSE q - 1 + 1
    BY <1>3, FS_Interval
  <2>. QED  BY <2>1, <1>3
<1>. QED  BY <1>5, <1>11, <1>12, <1>13 DEF M

(* Half a unit of fixed point is as far as rounding may go. *)
LEMMA ScaledBounds ==
  ASSUME NEW val \in Nat
  PROVE  /\ Scaled(val) \in Nat
         /\ 2 * (Scaled(val) * FIXED_UNIT) <= 2 * val + FIXED_UNIT
         /\ 2 * val < 2 * (Scaled(val) * FIXED_UNIT) + FIXED_UNIT
         /\ Scaled(val) <= val
<1>. DEFINE F == FIXED_UNIT
            s == (2 * val + F) \div (2 * F)
<1>1. F \in Nat \ {0} /\ 2 * F \in Nat \ {0} /\ 2 * val + F \in Nat
  BY FIXED_UNITAssumption
<1>2. s \in Nat /\ s * (2 * F) <= 2 * val + F /\ 2 * val + F < s * (2 * F) + 2 * F
  BY <1>1, Quotient
<1>3. s = Scaled(val)
  BY DEF Scaled
<1>. HIDE DEF s, F
<1>4. s * (2 * F) = 2 * (s * F) /\ s * F \in Nat
  BY <1>1, <1>2
<1>5. s <= val
  <2>1. CASE val + 1 <= s
    <3>1. (val + 1) * F <= s * F /\ (val + 1) * F = val * F + F
      BY <2>1, <1>1, <1>2, ProductMonotone
    <3>2. val * 1 <= val * F /\ val * F \in Nat
      BY <1>1
    <3>. QED  BY <3>1, <3>2, <1>1, <1>2, <1>4
  <2>. QED  BY <2>1, <1>2
<1>. QED  BY <1>1, <1>2, <1>3, <1>4, <1>5 DEF F

LEMMA MultiplierValue ==
  ASSUME NEW val \in Nat
  PROVE  LET error(fixed) == IF val > fixed * FIXED_UNIT THEN val - fixed * FIXED_UNIT
                             ELSE fixed * FIXED_UNIT - val
             best == {f \in 0 .. val + 1 : \A g \in 0 .. val + 1 : error(f) <= error(g)}
         IN  f64_to_fixed_multiplier(val) = Min({Max(best), U64_MAX})
<1>. DEFINE F == FIXED_UNIT
            error(fixed) == IF val > fixed * F THEN val - fixed * F ELSE fixed * F - val
            best == {f \in 0 .. val + 1 : \A g \in 0 .. val + 1 : error(f) <= error(g)}
            s == Scaled(val)
<1>1. F \in Nat \ {0}
  BY FIXED_UNITAssumption
<1>2. /\ s \in Nat /\ s <= val /\ s * F \in Nat
      /\ 2 * (s * F) <= 2 * val + F
      /\ 2 * val < 2 * (s * F) + F
  BY <1>1, ScaledBounds
<1>. HIDE DEF s, F
<1>3. \A g \in 0 .. val + 1 : /\ g * F \in Nat
                              /\ g > s => g * F >= s * F + F
                              /\ g < s => g * F + F <= s * F
  <2>1. ASSUME NEW g \in 0 .. val + 1
        PROVE  g * F \in Nat
    BY <1>1
  <2>2. ASSUME NEW g \in 0 .. val + 1, g > s
        PROVE  g * F >= s * F + F
    <3>1. (s + 1) * F <= g * F
      BY <2>2, <1>1, <1>2, ProductMonotone
    <3>. QED  BY <3>1, <1>1, <1>2
  <2>3. ASSUME NEW g \in 0 .. val + 1, g < s
        PROVE  g * F + F <= s * F
    <3>1. (g + 1) * F <= s * F
      BY <2>3, <1>1, <1>2, ProductMonotone
    <3>. QED  BY <3>1, <1>1, <1>2
  <2>. QED  BY <2>1, <2>2, <2>3
<1>4. \A g \in 0 .. val + 1 : error(s) <= error(g) /\ (g > s => error(s) < error(g))
  <2>. TAKE g \in 0 .. val + 1
  <2>1. CASE g = s
    BY <2>1, <1>2
  <2>2. CASE g > s
    <3>1. g * F \in Nat /\ g * F >= s * F + F
      BY <2>2, <1>3
    <3>. QED  BY <3>1, <1>1, <1>2
  <2>3. CASE g < s
    <3>1. g * F \in Nat /\ g * F + F <= s * F
      BY <2>3, <1>3
    <3>. QED  BY <2>3, <3>1, <1>1, <1>2
  <2>. QED  BY <2>1, <2>2, <2>3, <1>2
<1>5. \A g \in 0 .. val + 1 : error(g) \in Int
  BY <1>3
<1>6. s \in 0 .. val + 1
  BY <1>2
<1>. HIDE DEF error
<1>7. s \in best
  BY <1>4, <1>6
<1>8. \A g \in best : g <= s
  <2>. TAKE g \in best
  <2>1. error(g) <= error(s)
    BY <1>6
  <2>2. g \in 0 .. val + 1 /\ error(g) \in Int /\ error(s) \in Int
    BY <1>5, <1>6
  <2>. QED  BY <2>1, <2>2, <1>2, <1>4
<1>9. best \subseteq Int
  OBVIOUS
<1>. HIDE DEF best
<1>10. Max(best) = s
  BY <1>7, <1>8, <1>9, MaxIs
<1>11. f64_to_fixed_multiplier(val) = Min({s, U64_MAX})
  <2>1. s \in Int /\ U64_MAX \in Int
    BY <1>2, U64_MAXAssumption
  <2>2. CASE s > U64_MAX
    <3>1. Min({s, U64_MAX}) = U64_MAX
      BY <2>1, <2>2, MinIs
    <3>. QED  BY <2>2, <3>1 DEF f64_to_fixed_multiplier, s
  <2>3. CASE ~(s > U64_MAX)
    <3>1. Min({s, U64_MAX}) = s
      BY <2>1, <2>3, MinIs
    <3>. QED  BY <2>3, <3>1 DEF f64_to_fixed_multiplier, s
  <2>. QED  BY <2>2, <2>3
<1>. QED  BY <1>10, <1>11 DEF best, error, F

LEMMA SwapValue ==
  ASSUME NEW m \in Nat, NEW n \in Nat, NEW asset \in PayoutAssetTypes, NEW rate \in Nat
  PROVE  LET out(k) == calculate_simulated_swap_output(k, asset, rate)
         IN  /\ out(m + n) - out(m) - out(n) \in {0, 1}
             /\ out(SCALE_FACTOR) = SwapRate(asset, rate)
<1>. DEFINE F == SCALE_FACTOR
            r == SwapRate(asset, rate)
            out(k) == calculate_simulated_swap_output(k, asset, rate)
<1>1. r \in Nat /\ F \in Nat \ {0}
  BY SwapRateAssumption DEF SwapRate
<1>. HIDE DEF r
<1>2. ASSUME NEW k \in Nat
      PROVE  /\ out(k) \in Nat /\ k * r \in Nat /\ out(k) * F \in Nat
             /\ out(k) * F <= k * r
             /\ k * r < out(k) * F + F
  <2>1. k * r \in Nat
    BY <1>1, ProductType
  <2>2. out(k) = (k * r) \div F
    BY DEF calculate_simulated_swap_output, r
  <2>. HIDE DEF out, F
  <2>3. /\ out(k) \in Nat
        /\ out(k) * F <= k * r
        /\ k * r < out(k) * F + F
    BY <1>1, <2>1, <2>2, Quotient
  <2>. QED  BY <2>1, <2>3, <1>1, ProductType
<1>3. out(m) + out(n) <= out(m + n)
  BY SwapInParts
<1>. HIDE DEF out, F
<1>4. /\ out(m) \in Nat /\ out(n) \in Nat /\ out(m + n) \in Nat
      /\ (m + n) * r \in Nat /\ m * r \in Nat /\ n * r \in Nat
      /\ out(m) * F \in Nat /\ out(n) * F \in Nat /\ out(m + n) * F \in Nat
      /\ out(m + n) * F <= (m + n) * r
      /\ m * r < out(m) * F + F
      /\ n * r < out(n) * F + F
  BY <1>2
<1>5. (m + n) * r = m * r + n * r
  BY <1>1
<1>6. out(m + n) <= out(m) + out(n) + 1
  <2>1. CASE out(m) + out(n) + 2 <= out(m + n)
    <3>1. (out(m) + out(n) + 2) * F <= out(m + n) * F
      BY <2>1, <1>1, <1>4, ProductMonotone
    <3>2. (out(m) + out(n) + 2) * F = out(m) * F + out(n) * F + F + F
      BY <1>1, <1>4
    <3>. QED  BY <3>1, <3>2, <1>1, <1>5, <1>4
  <2>. QED  BY <2>1, <1>4
<1>7. out(m + n) - out(m) - out(n) \in {0, 1}
  BY <1>3, <1>6, <1>4
<1>8. out(F) = r
  <2>. DEFINE q == out(F)
  <2>1. /\ q \in Nat /\ q * F \in Nat
        /\ q * F <= F * r /\ F * r < q * F + F
    BY <1>1, <1>2
  <2>2. r * F = F * r
    BY <1>1
  <2>. HIDE DEF q
  <2>3. q <= r
    BY <2>1, <2>2, <1>1, ProductCancel
  <2>4. CASE q + 1 <= r
    <3>1. (q + 1) * F <= r * F /\ (q + 1) * F = q * F + F
      BY <2>1, <2>4, <1>1, ProductMonotone
    <3>. QED  BY <3>1, <2>1, <2>2, <1>1
  <2>. QED  BY <2>1, <2>3, <2>4, <1>1 DEF q
<1>. QED  BY <1>7, <1>8 DEF out, r, F

-----------------------------------------------------------------------------
(* The arguments of a call, and the extensions of a mint. *)
TypeOK ==
  /\ a \in Args /\ b \in Args /\ c \in Args
  /\ extensions \in Seq(Extension)

LEMMA ArgsType == Args \subseteq Nat /\ 0 \in Args
  BY BOUNDAssumption DEF Args

THEOREM InputsType == Spec => []TypeOK
<1>1. Init => TypeOK
  BY ArgsType DEF Init, TypeOK
<1>2. TypeOK /\ [Next]_inputs => TypeOK'
  <2>. SUFFICES ASSUME TypeOK, [Next]_inputs
                PROVE  TypeOK'
    OBVIOUS
  <2>1. CASE Call
    BY <2>1 DEF Call, TypeOK
  <2>2. CASE AddExtension
    BY <2>2 DEF AddExtension, TypeOK
  <2>3. CASE UNCHANGED inputs
    BY <2>3 DEF inputs, TypeOK
  <2>. QED  BY <2>1, <2>2, <2>3 DEF Next
<1>. QED  BY <1>1, <1>2, PTL DEF Spec

(* The harvest of math.rs is the most that leaves the principal whole. *)
THEOREM HarvestTakesTheMost == Spec => []HarvestIsTheMostThatDilutesNothing
<1>1. TypeOK => HarvestIsTheMostThatDilutesNothing
  BY ArgsType, HarvestValue DEF TypeOK, HarvestIsTheMostThatDilutesNothing
<1>. QED  BY <1>1, InputsType, PTL

(* Shares that fill the allocation ask for the payout but for one unit. *)
THEOREM SharesSplit == Spec => []SharesSplitThePayout
<1>1. TypeOK => SharesSplitThePayout
  BY ArgsType, ShareValue DEF TypeOK, SharesSplitThePayout
<1>. QED  BY <1>1, InputsType, PTL

(* The fixed-point multiplier is the nearest to the f64 that a u64 holds. *)
THEOREM MultiplierNearest == Spec => []MultiplierIsTheNearest
<1>1. TypeOK => MultiplierIsTheNearest
  BY ArgsType, MultiplierValue DEF TypeOK, MultiplierIsTheNearest
<1>. QED  BY <1>1, InputsType, PTL

(* A keeper gains nothing by splitting a swap and loses a unit at most. *)
THEOREM SwapInOneGo == Spec => []SwapInOneGoIsBest
<1>1. TypeOK => SwapInOneGoIsBest
  BY ArgsType, SwapValue DEF TypeOK, SwapInOneGoIsBest, None
<1>. QED  BY <1>1, InputsType, PTL

-----------------------------------------------------------------------------
(* scaled_ui.rs                                                            *)

(* Induction from the end of an interval, for a set of its numbers. *)
LEMMA FromTheEnd ==
  ASSUME NEW n \in Nat, NEW S,
         \A m \in 0 .. n : (\A p \in m + 1 .. n : p \in S) => m \in S
  PROVE  \A m \in 0 .. n : m \in S
<1>. DEFINE T == {k \in 0 .. n : n - k \notin S}
<1>1. CASE T = {}
  <2>1. \A m \in 0 .. n : n - m \in 0 .. n /\ n - (n - m) = m
    OBVIOUS
  <2>. QED  BY <1>1, <2>1
<1>2. CASE T # {}
  <2>1. T \subseteq Nat
    OBVIOUS
  <2>2. PICK k \in T : \A j \in T : k <= j
    BY <1>2, <2>1, LeastNatural
  <2>3. \A p \in n - k + 1 .. n : p \in S
    <3>. SUFFICES ASSUME NEW p \in n - k + 1 .. n, p \notin S
                  PROVE  FALSE
      OBVIOUS
    <3>1. n - p \in 0 .. n /\ n - (n - p) = p /\ n - p < k
      BY <2>2
    <3>2. n - p \in T
      BY <3>1
    <3>. QED  BY <2>2, <3>1, <3>2
  <2>4. n - k \in S
    BY <2>2, <2>3
  <2>. QED  BY <2>2, <2>4
<1>. QED  BY <1>1, <1>2

(* What the turns of the loop find, from every offset. *)
Scan(mint_data) ==
  LET scan[offset \in 0 .. Len(mint_data)] == Turn(mint_data, offset, scan) IN scan

LEMMA Mint == \A mint_data : unpack_scaled_ui_mint(mint_data) =
                IF Len(mint_data) < MINT_EXTENSIONS_OFFSET THEN Refused
                ELSE Scan(mint_data)[MINT_EXTENSIONS_OFFSET]
BY DEF unpack_scaled_ui_mint, Scan

(* The two numbers of an entry's header. *)
LEMMA HeaderType ==
  ASSUME NEW mint_data \in Seq(Nat), NEW offset \in Nat, offset + 4 <= Len(mint_data)
  PROVE  /\ u16_from_le_bytes(mint_data, offset) \in Nat
         /\ u16_from_le_bytes(mint_data, offset + 2) \in Nat
<1>1. /\ offset + 1 \in 1 .. Len(mint_data) /\ offset + 2 \in 1 .. Len(mint_data)
      /\ offset + 2 + 1 \in 1 .. Len(mint_data) /\ offset + 2 + 2 \in 1 .. Len(mint_data)
  OBVIOUS
<1>2. /\ mint_data[offset + 1] \in Nat /\ mint_data[offset + 2] \in Nat
      /\ mint_data[offset + 2 + 1] \in Nat /\ mint_data[offset + 2 + 2] \in Nat
  BY <1>1, ElementOfSeq
<1>3. \A x, y \in Nat : x + 256 * y \in Nat
  OBVIOUS
<1>4. u16_from_le_bytes(mint_data, offset) \in Nat
  BY <1>2, <1>3, Zenon DEF u16_from_le_bytes
<1>5. u16_from_le_bytes(mint_data, offset + 2) \in Nat
  BY <1>2, <1>3, Zenon DEF u16_from_le_bytes
<1>. QED  BY <1>4, <1>5

(* A turn looks at no earlier offset: every turn leaves the offset further
   on, so the loop ends. *)
LEMMA TurnLooksAhead ==
  ASSUME NEW mint_data \in Seq(Nat), NEW offset \in 0 .. Len(mint_data),
         NEW f, NEW g, \A p \in offset + 1 .. Len(mint_data) : f[p] = g[p]
  PROVE  Turn(mint_data, offset, f) = Turn(mint_data, offset, g)
<1>. DEFINE ext_len == u16_from_le_bytes(mint_data, offset + 2)
<1>1. CASE offset + 4 > Len(mint_data)
  BY <1>1 DEF Turn
<1>2. CASE ~(offset + 4 > Len(mint_data))
  <2>1. ext_len \in Nat
    BY <1>2, HeaderType
  <2>2. CASE offset + 4 + ext_len > Len(mint_data)
    BY <2>2 DEF Turn
  <2>3. CASE ~(offset + 4 + ext_len > Len(mint_data))
    <3>1. offset + 4 + ext_len \in offset + 1 .. Len(mint_data)
      BY <2>1, <2>3
    <3>. QED  BY <3>1, <2>3, <1>2 DEF Turn
  <2>. QED  BY <2>2, <2>3
<1>. QED  BY <1>1, <1>2

(* The loop of the program is a function: it ends whatever the bytes. *)
LEMMA ScanExists ==
  ASSUME NEW mint_data \in Seq(Nat)
  PROVE  \E f : f = [offset \in 0 .. Len(mint_data) |-> Turn(mint_data, offset, f)]
<1>. DEFINE n == Len(mint_data)
            Known(m) == \E f : f = [offset \in m .. n |-> Turn(mint_data, offset, f)]
            S == {m \in 0 .. n : Known(m)}
<1>1. n \in Nat
  OBVIOUS
<1>2. n \in S
  <2>. DEFINE f == [offset \in n .. n |-> Refused]
  <2>1. \A offset \in n .. n : Turn(mint_data, offset, f) = Refused
    BY <1>1 DEF Turn
  <2>2. f = [offset \in n .. n |-> Turn(mint_data, offset, f)]
    BY <2>1
  <2>. HIDE DEF f
  <2>3. Known(n)
    BY <2>2
  <2>. QED  BY <1>1, <2>3
<1>. HIDE DEF S
<1>3. ASSUME NEW m \in 0 .. n, \A p \in m + 1 .. n : p \in S
      PROVE  m \in S
  <2>1. CASE m = n
    BY <1>2, <2>1
  <2>2. CASE m # n
    <3>1. m + 1 \in S
      BY <1>1, <1>3, <2>2
    <3>2. PICK f : f = [offset \in m + 1 .. n |-> Turn(mint_data, offset, f)]
      BY <3>1 DEF S
    <3>. DEFINE g == [offset \in m .. n |-> IF offset = m THEN Turn(mint_data, m, f)
                                            ELSE f[offset]]
    <3>3. \A p \in m + 1 .. n : g[p] = f[p]
      BY <1>1
    <3>4. ASSUME NEW offset \in m .. n
          PROVE  g[offset] = Turn(mint_data, offset, g)
      <4>. HIDE DEF g
      <4>1. \A p \in offset + 1 .. n : g[p] = f[p]
        BY <1>1, <3>3
      <4>2. offset \in 0 .. n
        BY <1>1
      <4>3. Turn(mint_data, offset, g) = Turn(mint_data, offset, f)
        BY <4>1, <4>2, TurnLooksAhead
      <4>4. CASE offset = m
        <5>1. g[m] = Turn(mint_data, m, f)
          BY <1>1 DEF g
        <5>. QED  BY <4>3, <4>4, <5>1
      <4>5. CASE offset # m
        <5>1. offset \in m + 1 .. n
          BY <1>1, <4>5
        <5>2. f[offset] = Turn(mint_data, offset, f)
          BY <3>2, <5>1
        <5>. QED  BY <3>3, <4>3, <5>1, <5>2
      <4>. QED  BY <4>4, <4>5
    <3>5. g = [offset \in m .. n |-> g[offset]]
      OBVIOUS
    <3>. HIDE DEF g
    <3>6. g = [offset \in m .. n |-> Turn(mint_data, offset, g)]
      BY <3>4, <3>5
    <3>. QED  BY <3>6 DEF S
  <2>. QED  BY <2>1, <2>2
<1>4. 0 \in S
  <2>1. \A m \in 0 .. n : m \in S
    BY <1>1, <1>3, FromTheEnd
  <2>. QED  BY <1>1, <2>1
<1>. QED  BY <1>4 DEF S

LEMMA ScanTurns ==
  ASSUME NEW mint_data \in Seq(Nat)
  PROVE  \A offset \in 0 .. Len(mint_data) :
           Scan(mint_data)[offset] = Turn(mint_data, offset, Scan(mint_data))
<1>1. PICK f : f = [offset \in 0 .. Len(mint_data) |-> Turn(mint_data, offset, f)]
  BY ScanExists
<1>2. Scan(mint_data) = [offset \in 0 .. Len(mint_data)
                          |-> Turn(mint_data, offset, Scan(mint_data))]
  BY <1>1 DEF Scan
<1>. QED  BY <1>2

(* The header at an offset, and what is read after it. *)
AtHeader(mint_data, offset) ==
  /\ offset + 4 + SCALED_UI_CONFIG_LEN <= Len(mint_data)
  /\ IsScaledUiAmount(u16_from_le_bytes(mint_data, offset),
                      u16_from_le_bytes(mint_data, offset + 2))
Reading(mint_data, offset) ==
  [decimals |-> mint_data[MINT_DECIMALS_OFFSET + 1],
   config |-> from_bytes(Slice(mint_data, offset + 4, SCALED_UI_CONFIG_LEN))]

LEMMA ConfigLen == SCALED_UI_CONFIG_LEN \in Nat
BY LayoutAssumption DEF SCALED_UI_CONFIG_LEN

(* The three ways a turn can go. *)
LEMMA TurnCases ==
  ASSUME NEW mint_data \in Seq(Nat), NEW offset \in 0 .. Len(mint_data), NEW f
  PROVE  \/ Turn(mint_data, offset, f) = Refused
         \/ AtHeader(mint_data, offset) /\ Turn(mint_data, offset, f) = Reading(mint_data, offset)
         \/ \E p \in offset + 4 .. Len(mint_data) : Turn(mint_data, offset, f) = f[p]
<1>. DEFINE ext_type == u16_from_le_bytes(mint_data, offset)
            ext_len == u16_from_le_bytes(mint_data, offset + 2)
<1>1. CASE offset + 4 > Len(mint_data)
  BY <1>1 DEF Turn
<1>2. CASE ~(offset + 4 > Len(mint_data))
  <2>1. ext_len \in Nat
    BY <1>2, HeaderType
  <2>2. CASE offset + 4 + ext_len > Len(mint_data)
    BY <2>2 DEF Turn
  <2>3. CASE ~(offset + 4 + ext_len > Len(mint_data)) /\ IsScaledUiAmount(ext_type, ext_len)
    <3>1. ext_len = SCALED_UI_CONFIG_LEN
      BY <2>3 DEF IsScaledUiAmount
    <3>2. AtHeader(mint_data, offset)
      BY <2>1, <2>3, <3>1 DEF AtHeader
    <3>3. Turn(mint_data, offset, f) = Reading(mint_data, offset)
      BY <1>2, <2>3 DEF Turn, Reading
    <3>. QED  BY <3>2, <3>3
  <2>4. CASE ~(offset + 4 + ext_len > Len(mint_data)) /\ ~IsScaledUiAmount(ext_type, ext_len)
    <3>1. offset + 4 + ext_len \in offset + 4 .. Len(mint_data)
      BY <2>1, <2>4
    <3>2. Turn(mint_data, offset, f) = f[offset + 4 + ext_len]
      BY <1>2, <2>4 DEF Turn
    <3>. QED  BY <3>1, <3>2
  <2>. QED  BY <2>2, <2>3, <2>4
<1>. QED  BY <1>1, <1>2

(* Whatever the bytes, a mint is refused, or its configuration is read after
   the header of one, beyond the fields of the mint and wholly within them. *)
THEOREM ReadsOnlyAtAHeader ==
  ASSUME NEW mint_data \in Seq(Nat)
  PROVE  \/ unpack_scaled_ui_mint(mint_data) = Refused
         \/ \E offset \in MINT_EXTENSIONS_OFFSET .. Len(mint_data) :
              /\ AtHeader(mint_data, offset)
              /\ unpack_scaled_ui_mint(mint_data) = Reading(mint_data, offset)
<1>. DEFINE n == Len(mint_data)
            scan == Scan(mint_data)
            Found(m) == \/ scan[m] = Refused
                        \/ \E offset \in m .. n : /\ AtHeader(mint_data, offset)
                                                  /\ scan[m] = Reading(mint_data, offset)
            S == {m \in 0 .. n : Found(m)}
<1>1. n \in Nat
  OBVIOUS
<1>2. \A m \in 0 .. n : scan[m] = Turn(mint_data, m, scan)
  BY ScanTurns
<1>. HIDE DEF scan
<1>3. ASSUME NEW m \in 0 .. n, \A p \in m + 1 .. n : p \in S
      PROVE  m \in S
  <2>1. CASE scan[m] = Refused
    BY <2>1
  <2>2. CASE AtHeader(mint_data, m) /\ scan[m] = Reading(mint_data, m)
    BY <1>1, <2>2
  <2>3. CASE \E p \in m + 4 .. n : scan[m] = scan[p]
    <3>1. PICK p \in m + 4 .. n : scan[m] = scan[p]
      BY <2>3
    <3>2. p \in m + 1 .. n
      BY <1>1
    <3>3. Found(p)
      BY <1>3, <3>2
    <3>4. \A offset \in p .. n : offset \in m .. n
      BY <1>1
    <3>5. Found(m)
      BY <3>1, <3>3, <3>4
    <3>. QED  BY <3>5
  <2>. QED  BY <1>2, <2>1, <2>2, <2>3, TurnCases
<1>. HIDE DEF S
<1>4. \A m \in 0 .. n : m \in S
  BY <1>1, <1>3, FromTheEnd
<1>5. CASE n < MINT_EXTENSIONS_OFFSET
  BY <1>5, Mint
<1>6. CASE ~(n < MINT_EXTENSIONS_OFFSET)
  <2>1. MINT_EXTENSIONS_OFFSET \in 0 .. n
    BY <1>1, <1>6, LayoutAssumption
  <2>2. Found(MINT_EXTENSIONS_OFFSET)
    BY <1>4, <2>1 DEF S
  <2>. QED  BY <1>6, <2>2, Mint DEF scan
<1>. QED  BY <1>5, <1>6

LEMMA Prefix ==
  ASSUME NEW data \in Seq(Nat), NEW n \in 0 .. Len(data)
  PROVE  /\ SubSeq(data, 1, n) \in Seq(Nat)
         /\ Len(SubSeq(data, 1, n)) = n
         /\ \A i \in 1 .. n : SubSeq(data, 1, n)[i] = data[i]
OBVIOUS

LEMMA SliceOfPrefix ==
  ASSUME NEW data \in Seq(Nat), NEW n \in 0 .. Len(data),
         NEW from \in Nat, NEW len \in Nat, from + len <= n
  PROVE  Slice(SubSeq(data, 1, n), from, len) = Slice(data, from, len)
<1>1. CASE len = 0
  BY <1>1, SubSeqEmpty DEF Slice
<1>2. CASE len # 0
  <2>1. n \in 1 .. Len(data) /\ 1 \in 1 .. Len(data)
        /\ from + 1 \in 1 .. n - 1 + 1 /\ from + len \in 1 .. n - 1 + 1
    BY <1>2
  <2>2. SubSeq(SubSeq(data, 1, n), from + 1, from + len)
          = SubSeq(data, 1 + (from + 1) - 1, 1 + (from + len) - 1)
    BY <2>1, SubSeqOfSubSeq
  <2>3. 1 + (from + 1) - 1 = from + 1 /\ 1 + (from + len) - 1 = from + len
    OBVIOUS
  <2>. QED  BY <2>2, <2>3 DEF Slice
<1>. QED  BY <1>1, <1>2

(* A mint that was cut short is refused, or read as the whole one is: no
   account data, however short, yields a multiplier that is not there. *)
THEOREM CutShort ==
  ASSUME NEW mint_data \in Seq(Nat), NEW n \in 0 .. Len(mint_data)
  PROVE  unpack_scaled_ui_mint(SubSeq(mint_data, 1, n))
           \in {Refused, unpack_scaled_ui_mint(mint_data)}
<1>. DEFINE cut == SubSeq(mint_data, 1, n)
            whole == Scan(mint_data)
            short == Scan(cut)
            S == {m \in 0 .. n : short[m] \in {Refused, whole[m]}}
<1>1. cut \in Seq(Nat) /\ Len(cut) = n /\ n \in Nat
      /\ \A i \in 1 .. n : cut[i] = mint_data[i]
  BY Prefix
<1>2. \A m \in 0 .. n : short[m] = Turn(cut, m, short)
  BY <1>1, ScanTurns
<1>3. \A m \in 0 .. n : whole[m] = Turn(mint_data, m, whole)
  BY ScanTurns
<1>4. n <= Len(mint_data) /\ Len(mint_data) \in Nat
  OBVIOUS
<1>5. CASE n < MINT_EXTENSIONS_OFFSET
  BY <1>1, <1>5, Mint
<1>6. CASE ~(n < MINT_EXTENSIONS_OFFSET)
  <2>. HIDE DEF whole, short
  <2>1. ASSUME NEW m \in 0 .. n, \A p \in m + 1 .. n : p \in S
        PROVE  m \in S
    <3>. DEFINE ext_type == u16_from_le_bytes(mint_data, m)
                ext_len == u16_from_le_bytes(mint_data, m + 2)
    <3>1. CASE m + 4 > n
      BY <3>1, <1>1, <1>2 DEF Turn
    <3>2. CASE ~(m + 4 > n)
      <4>1. /\ u16_from_le_bytes(cut, m) = ext_type
            /\ u16_from_le_bytes(cut, m + 2) = ext_len
        <5>1. /\ m + 1 \in 1 .. n /\ m + 2 \in 1 .. n
              /\ m + 2 + 1 \in 1 .. n /\ m + 2 + 2 \in 1 .. n
          BY <1>1, <3>2
        <5>2. /\ cut[m + 1] = mint_data[m + 1] /\ cut[m + 2] = mint_data[m + 2]
              /\ cut[m + 2 + 1] = mint_data[m + 2 + 1]
              /\ cut[m + 2 + 2] = mint_data[m + 2 + 2]
          BY <1>1, <5>1
        <5>. HIDE DEF cut
        <5>. QED  BY <5>2 DEF u16_from_le_bytes
      <4>2. ext_len \in Nat
        <5>1. m \in Nat /\ m + 4 <= Len(mint_data)
          BY <1>4, <3>2
        <5>. HIDE DEF cut
        <5>. QED  BY <5>1, HeaderType
      <4>. HIDE DEF cut
      <4>3. CASE m + 4 + ext_len > n
        BY <3>2, <4>1, <4>3, <1>1, <1>2 DEF Turn
      <4>4. CASE ~(m + 4 + ext_len > n) /\ IsScaledUiAmount(ext_type, ext_len)
        <5>1. ext_len = SCALED_UI_CONFIG_LEN
          BY <4>4 DEF IsScaledUiAmount
        <5>2. short[m] = Reading(cut, m)
          BY <3>2, <4>1, <4>4, <1>1, <1>2 DEF Turn, Reading
        <5>3. whole[m] = Reading(mint_data, m)
          <6>1. ~(m + 4 > Len(mint_data)) /\ ~(m + 4 + ext_len > Len(mint_data))
            BY <3>2, <4>2, <4>4, <1>4
          <6>. QED  BY <4>4, <6>1, <1>3 DEF Turn, Reading
        <5>4. cut[MINT_DECIMALS_OFFSET + 1] = mint_data[MINT_DECIMALS_OFFSET + 1]
          <6>1. MINT_DECIMALS_OFFSET + 1 \in 1 .. n
            BY <1>1, <1>6, LayoutAssumption
          <6>. QED  BY <1>1, <6>1
        <5>5. Slice(cut, m + 4, SCALED_UI_CONFIG_LEN)
                = Slice(mint_data, m + 4, SCALED_UI_CONFIG_LEN)
          <6>1. m + 4 \in Nat /\ m + 4 + SCALED_UI_CONFIG_LEN <= n
            BY <4>2, <4>4, <5>1
          <6>. QED  BY <6>1, <1>4, ConfigLen, SliceOfPrefix DEF cut
        <5>6. Reading(cut, m) = Reading(mint_data, m)
          BY <5>4, <5>5 DEF Reading
        <5>. QED  BY <5>2, <5>3, <5>6
      <4>5. CASE ~(m + 4 + ext_len > n) /\ ~IsScaledUiAmount(ext_type, ext_len)
        <5>. DEFINE p == m + 4 + ext_len
        <5>1. short[m] = short[p]
          BY <3>2, <4>1, <4>5, <1>1, <1>2 DEF Turn
        <5>2. whole[m] = whole[p]
          <6>1. ~(m + 4 > Len(mint_data)) /\ ~(m + 4 + ext_len > Len(mint_data))
            BY <3>2, <4>2, <4>5, <1>4
          <6>. QED  BY <4>5, <6>1, <1>3 DEF Turn
        <5>3. p \in m + 1 .. n
          BY <4>2, <4>5, <1>1
        <5>4. short[p] \in {Refused, whole[p]}
          BY <2>1, <5>3
        <5>. QED  BY <5>1, <5>2, <5>4
      <4>. QED  BY <4>3, <4>4, <4>5
    <3>. QED  BY <3>1, <3>2
  <2>. HIDE DEF S
  <2>2. \A m \in 0 .. n : m \in S
    BY <1>1, <2>1, FromTheEnd
  <2>3. MINT_EXTENSIONS_OFFSET \in 0 .. n
    BY <1>1, <1>6, LayoutAssumption
  <2>4. short[MINT_EXTENSIONS_OFFSET] \in {Refused, whole[MINT_EXTENSIONS_OFFSET]}
    BY <2>2, <2>3 DEF S
  <2>5. unpack_scaled_ui_mint(cut) = short[MINT_EXTENSIONS_OFFSET]
    BY <1>1, <1>6, Mint DEF short
  <2>6. unpack_scaled_ui_mint(mint_data) = whole[MINT_EXTENSIONS_OFFSET]
    <3>1. ~(Len(mint_data) < MINT_EXTENSIONS_OFFSET)
      BY <1>4, <1>6, LayoutAssumption
    <3>. QED  BY <3>1, Mint DEF whole
  <2>. QED  BY <2>4, <2>5, <2>6
<1>. QED  BY <1>5, <1>6

-----------------------------------------------------------------------------
(* A mint that is a chain of entries.                                      *)

(* Induction from the start of an interval. *)
LEMMA FromTheStart ==
  ASSUME NEW n \in Nat, NEW S,
         \A m \in 0 .. n : (m > 0 => m - 1 \in S) => m \in S
  PROVE  \A m \in 0 .. n : m \in S
<1>. DEFINE T == {k \in 0 .. n : k \notin S}
<1>. SUFFICES ASSUME T # {} PROVE FALSE
  OBVIOUS
<1>1. T \subseteq Nat
  OBVIOUS
<1>2. PICK k \in T : \A j \in T : k <= j
  BY <1>1, LeastNatural
<1>3. k > 0 => k - 1 \in S
  <2>. SUFFICES ASSUME k > 0, k - 1 \notin S PROVE FALSE
    OBVIOUS
  <2>1. k - 1 \in T /\ k - 1 < k
    BY <1>2
  <2>. QED  BY <1>2, <2>1
<1>. QED  BY <1>2, <1>3

(* What FlattenSeq has put together after each of the sequences. *)
Flat(seqs) ==
  LET flatten[i \in 1 .. Len(seqs)] ==
        IF i = 1 THEN seqs[i] ELSE flatten[i - 1] \o seqs[i]
  IN  flatten

LEMMA FlatTurns ==
  ASSUME NEW seqs \in Seq(Seq(Nat))
  PROVE  \A i \in 1 .. Len(seqs) :
           Flat(seqs)[i] = IF i = 1 THEN seqs[i] ELSE Flat(seqs)[i - 1] \o seqs[i]
<1>. DEFINE n == Len(seqs)
            Next1(f, i) == IF i = 1 THEN seqs[i] ELSE f[i - 1] \o seqs[i]
            Known(m) == \E f : f = [i \in 1 .. m |-> Next1(f, i)]
            S == {m \in 0 .. n : Known(m)}
<1>1. n \in Nat
  OBVIOUS
<1>2. ASSUME NEW m \in 0 .. n, m > 0 => m - 1 \in S
      PROVE  m \in S
  <2>1. CASE m = 0
    <3>. DEFINE f == [i \in 1 .. 0 |-> << >>]
    <3>1. f = [i \in 1 .. 0 |-> Next1(f, i)]
      OBVIOUS
    <3>. HIDE DEF f, Next1
    <3>2. Known(0)
      BY <3>1
    <3>. QED  BY <2>1, <3>2, <1>1
  <2>2. CASE m > 0
    <3>1. PICK f : f = [i \in 1 .. m - 1 |-> Next1(f, i)]
      BY <1>2, <2>2
    <3>. DEFINE g == [i \in 1 .. m |-> IF i = m THEN Next1(f, m) ELSE f[i]]
    <3>2. ASSUME NEW i \in 1 .. m
          PROVE  g[i] = Next1(g, i)
      <4>1. i = 1 \/ i - 1 \in 1 .. m - 1
        OBVIOUS
      <4>2. i = 1 \/ g[i - 1] = f[i - 1]
        BY <4>1
      <4>3. Next1(g, i) = Next1(f, i)
        BY <4>2
      <4>4. CASE i = m
        BY <4>3, <4>4
      <4>5. CASE i # m
        <5>1. i \in 1 .. m - 1
          BY <4>5
        <5>2. f[i] = Next1(f, i)
          <6>. HIDE DEF Next1
          <6>. QED  BY <3>1, <5>1
        <5>. QED  BY <4>3, <4>5, <5>2
      <4>. QED  BY <4>4, <4>5
    <3>3. g = [i \in 1 .. m |-> g[i]]
      OBVIOUS
    <3>. HIDE DEF g, Next1
    <3>4. g = [i \in 1 .. m |-> Next1(g, i)]
      BY <3>2, <3>3
    <3>5. Known(m)
      BY <3>4
    <3>. QED  BY <3>5
  <2>. HIDE DEF S
  <2>. QED  BY <2>1, <2>2
<1>. HIDE DEF S
<1>3. n \in S
  <2>1. \A m \in 0 .. n : m \in S
    BY <1>1, <1>2, FromTheStart
  <2>. QED  BY <1>1, <2>1
<1>4. PICK f : f = [i \in 1 .. n |-> Next1(f, i)]
  BY <1>3 DEF S
<1>5. Flat(seqs) = [i \in 1 .. n |-> Next1(Flat(seqs), i)]
  BY <1>4 DEF Flat
<1>. QED  BY <1>5

(* The end of each sequence in what FlattenSeq returns, and that it holds
   every one of them in its place. *)
At(seqs, i) == IF i = 0 THEN 0 ELSE Len(Flat(seqs)[i])

LEMMA FlatType ==
  ASSUME NEW seqs \in Seq(Seq(Nat))
  PROVE  \A i \in 1 .. Len(seqs) : Flat(seqs)[i] \in Seq(Nat)
<1>. DEFINE n == Len(seqs)
            S == {m \in 0 .. n : m > 0 => Flat(seqs)[m] \in Seq(Nat)}
<1>1. n \in Nat
  OBVIOUS
<1>2. ASSUME NEW m \in 0 .. n, m > 0 => m - 1 \in S
      PROVE  m \in S
  <2>1. CASE m = 0
    BY <2>1
  <2>2. CASE m = 1
    <3>1. Flat(seqs)[1] = seqs[1] /\ seqs[1] \in Seq(Nat)
      BY <2>2, FlatTurns
    <3>. QED  BY <2>2, <3>1
  <2>3. CASE m > 1
    <3>1. Flat(seqs)[m - 1] \in Seq(Nat) /\ seqs[m] \in Seq(Nat)
      BY <1>2, <2>3
    <3>2. Flat(seqs)[m] = Flat(seqs)[m - 1] \o seqs[m]
      <4>1. m \in 1 .. Len(seqs) /\ m # 1
        BY <1>1, <2>3
      <4>. QED  BY <4>1, FlatTurns
    <3>3. Flat(seqs)[m] \in Seq(Nat)
      BY <3>1, <3>2, ConcatProperties
    <3>. QED  BY <3>3
  <2>. QED  BY <2>1, <2>2, <2>3
<1>. HIDE DEF S
<1>3. \A m \in 0 .. n : m \in S
  BY <1>1, <1>2, FromTheStart
<1>. QED  BY <1>1, <1>3 DEF S

LEMMA FlatStep ==
  ASSUME NEW seqs \in Seq(Seq(Nat)), NEW i \in 1 .. Len(seqs)
  PROVE  /\ At(seqs, i - 1) \in Nat /\ At(seqs, i) \in Nat
         /\ At(seqs, i) = At(seqs, i - 1) + Len(seqs[i])
         /\ \A j \in 1 .. Len(seqs[i]) : Flat(seqs)[i][At(seqs, i - 1) + j] = seqs[i][j]
         /\ i > 1 => \A j \in 1 .. At(seqs, i - 1) : Flat(seqs)[i][j] = Flat(seqs)[i - 1][j]
<1>1. seqs[i] \in Seq(Nat) /\ Flat(seqs)[i] \in Seq(Nat)
  BY FlatType
<1>2. CASE i = 1
  <2>1. Flat(seqs)[i] = seqs[i]
    BY <1>2, FlatTurns
  <2>2. At(seqs, i - 1) = 0 /\ At(seqs, i) = Len(seqs[i])
    BY <1>2, <2>1 DEF At
  <2>. QED  BY <1>1, <1>2, <2>1, <2>2
<1>3. CASE i # 1
  <2>1. i - 1 \in 1 .. Len(seqs) /\ i - 1 # 0 /\ i # 0
    BY <1>3
  <2>2. Flat(seqs)[i - 1] \in Seq(Nat)
    BY <2>1, FlatType
  <2>3. Flat(seqs)[i] = Flat(seqs)[i - 1] \o seqs[i]
    BY <1>3, FlatTurns
  <2>4. At(seqs, i - 1) = Len(Flat(seqs)[i - 1]) /\ At(seqs, i) = Len(Flat(seqs)[i])
    BY <2>1 DEF At
  <2>. DEFINE s == Flat(seqs)[i - 1]
              t == seqs[i]
  <2>5. Len(s \o t) = Len(s) + Len(t)
        /\ \A j \in 1 .. Len(s) + Len(t) : (s \o t)[j] = IF j <= Len(s) THEN s[j] ELSE t[j - Len(s)]
    BY <1>1, <2>2, ConcatProperties
  <2>6. Len(s) \in Nat /\ Len(t) \in Nat
    BY <1>1, <2>2
  <2>. HIDE DEF s, t
  <2>7. \A j \in 1 .. Len(t) : (s \o t)[Len(s) + j] = t[j]
    <3>. TAKE j \in 1 .. Len(t)
    <3>1. Len(s) + j \in 1 .. Len(s) + Len(t) /\ ~(Len(s) + j <= Len(s))
          /\ Len(s) + j - Len(s) = j
      BY <2>6
    <3>. QED  BY <2>5, <3>1
  <2>8. \A j \in 1 .. Len(s) : (s \o t)[j] = s[j]
    <3>. TAKE j \in 1 .. Len(s)
    <3>1. j \in 1 .. Len(s) + Len(t) /\ j <= Len(s)
      BY <2>6
    <3>. QED  BY <2>5, <3>1
  <2>9. /\ Flat(seqs)[i] = s \o t
        /\ At(seqs, i - 1) = Len(s) /\ At(seqs, i) = Len(s \o t)
    BY <2>3, <2>4 DEF s, t
  <2>10. \A j \in 1 .. Len(t) : Flat(seqs)[i][At(seqs, i - 1) + j] = t[j]
    BY <2>7, <2>9
  <2>11. \A j \in 1 .. At(seqs, i - 1) : Flat(seqs)[i][j] = s[j]
    BY <2>8, <2>9
  <2>12. /\ At(seqs, i - 1) \in Nat /\ At(seqs, i) \in Nat
         /\ At(seqs, i) = At(seqs, i - 1) + Len(t)
    BY <2>5, <2>6, <2>9
  <2>. QED  BY <2>10, <2>11, <2>12 DEF s, t
<1>. QED  BY <1>2, <1>3

LEMMA FlattenPlaces ==
  ASSUME NEW seqs \in Seq(Seq(Nat))
  PROVE  /\ FlattenSeq(seqs) \in Seq(Nat)
         /\ At(seqs, Len(seqs)) = Len(FlattenSeq(seqs))
         /\ \A i \in 1 .. Len(seqs) :
              /\ At(seqs, i - 1) \in Nat /\ At(seqs, i) = At(seqs, i - 1) + Len(seqs[i])
              /\ At(seqs, i) <= Len(FlattenSeq(seqs))
              /\ \A j \in 1 .. Len(seqs[i]) : FlattenSeq(seqs)[At(seqs, i - 1) + j] = seqs[i][j]
<1>. DEFINE n == Len(seqs)
<1>1. n \in Nat
  OBVIOUS
<1>2. CASE n = 0
  <2>1. FlattenSeq(seqs) = seqs /\ seqs = << >>
    BY <1>2, EmptySeq DEF FlattenSeq
  <2>. QED  BY <1>2, <2>1 DEF At
<1>3. CASE n # 0
  <2>. DEFINE flat == Flat(seqs)[n]
              Held(m) == /\ At(seqs, m) <= Len(flat)
                         /\ \A j \in 1 .. At(seqs, m) : flat[j] = Flat(seqs)[m][j]
              S == {m \in 0 .. n : m > 0 => Held(m)}
  <2>1. FlattenSeq(seqs) = flat
    BY <1>3 DEF FlattenSeq, Flat
  <2>2. flat \in Seq(Nat) /\ At(seqs, n) = Len(flat)
    BY <1>1, <1>3, FlatType DEF At
  <2>. HIDE DEF flat
  <2>3. ASSUME NEW m \in 0 .. n, \A p \in m + 1 .. n : p \in S
        PROVE  m \in S
    <3>1. CASE m = 0
      BY <3>1
    <3>2. CASE m = n
      <4>1. Held(n)
        BY <2>2 DEF flat
      <4>. QED  BY <3>2, <4>1
    <3>3. CASE m > 0 /\ m < n
      <4>1. m + 1 \in 1 .. n /\ m + 1 - 1 = m /\ m + 1 > 1 /\ m + 1 \in m + 1 .. n
        BY <1>1, <3>3
      <4>2. Held(m + 1)
        BY <2>3, <4>1
      <4>3. /\ At(seqs, m) \in Nat /\ At(seqs, m + 1) \in Nat
            /\ At(seqs, m + 1) = At(seqs, m) + Len(seqs[m + 1])
            /\ \A j \in 1 .. At(seqs, m) : Flat(seqs)[m + 1][j] = Flat(seqs)[m][j]
        <5>. DEFINE i == m + 1
        <5>1. i \in 1 .. Len(seqs) /\ i - 1 = m /\ i > 1
          BY <4>1
        <5>. HIDE DEF i
        <5>2. /\ At(seqs, m) \in Nat /\ At(seqs, i) \in Nat
              /\ At(seqs, i) = At(seqs, m) + Len(seqs[i])
              /\ \A j \in 1 .. At(seqs, m) : Flat(seqs)[i][j] = Flat(seqs)[m][j]
          BY <5>1, FlatStep
        <5>. QED  BY <5>2 DEF i
      <4>4. seqs[m + 1] \in Seq(Nat) /\ Len(seqs[m + 1]) \in Nat
        BY <4>1
      <4>5. Len(flat) \in Nat
        BY <2>2
      <4>6. Held(m)
        <5>1. At(seqs, m) <= Len(flat)
          BY <4>2, <4>3, <4>4, <4>5
        <5>2. ASSUME NEW j \in 1 .. At(seqs, m)
              PROVE  flat[j] = Flat(seqs)[m][j]
          <6>1. j \in 1 .. At(seqs, m + 1)
            BY <4>3, <4>4
          <6>. QED  BY <4>2, <4>3, <6>1
        <5>. QED  BY <5>1, <5>2
      <4>. QED  BY <4>6
    <3>. QED  BY <1>1, <3>1, <3>2, <3>3
  <2>. HIDE DEF S
  <2>4. \A m \in 0 .. n : m \in S
    BY <1>1, <2>3, FromTheEnd
  <2>5. ASSUME NEW i \in 1 .. n
        PROVE  /\ At(seqs, i - 1) \in Nat /\ At(seqs, i) = At(seqs, i - 1) + Len(seqs[i])
               /\ At(seqs, i) <= Len(flat)
               /\ \A j \in 1 .. Len(seqs[i]) : flat[At(seqs, i - 1) + j] = seqs[i][j]
    <3>1. Held(i)
      <4>1. i \in S /\ i > 0
        BY <2>4
      <4>. QED  BY <4>1 DEF S
    <3>2. /\ At(seqs, i - 1) \in Nat /\ At(seqs, i) \in Nat
          /\ At(seqs, i) = At(seqs, i - 1) + Len(seqs[i])
          /\ \A j \in 1 .. Len(seqs[i]) : Flat(seqs)[i][At(seqs, i - 1) + j] = seqs[i][j]
      BY FlatStep
    <3>3. ASSUME NEW j \in 1 .. Len(seqs[i])
          PROVE  flat[At(seqs, i - 1) + j] = seqs[i][j]
      <4>1. seqs[i] \in Seq(Nat)
        OBVIOUS
      <4>2. At(seqs, i - 1) + j \in 1 .. At(seqs, i)
        BY <3>2, <4>1
      <4>. QED  BY <3>1, <3>2, <4>2
    <3>. QED  BY <3>1, <3>2, <3>3
  <2>. QED  BY <2>1, <2>2, <2>5
<1>. QED  BY <1>2, <1>3

(* An entry: the two numbers of its header and its contents. *)
LEMMA EntryType ==
  ASSUME NEW e \in Extension
  PROVE  /\ e.len \in Nat /\ e.type \in Nat
         /\ Body(e) \in Seq(Nat) /\ Len(Body(e)) = e.len
         /\ Entry(e) \in Seq(Nat) /\ Len(Entry(e)) = 4 + e.len
         /\ Entry(e)[1] + 256 * Entry(e)[2] = e.type
         /\ Entry(e)[3] + 256 * Entry(e)[4] = e.len
         /\ \A j \in 1 .. e.len : Entry(e)[4 + j] = Body(e)[j]
<1>. DEFINE n == e.len
            ty == e.type
            fil == e.filling
<1>1. n \in Nat /\ ty \in Nat
  <2>1. e.len \in Lengths /\ e.type \in ExtensionTypes
    BY DEF Extension
  <2>2. Lengths \subseteq Nat
    BY ConfigLen DEF Lengths
  <2>. QED  BY <2>1, <2>2, ExtensionsAssumption
<1>2. fil \in Seq(Nat) /\ Len(fil) \in Nat \ {0}
  <2>1. fil \in Seq(Nat) /\ fil # << >>
    BY ExtensionsAssumption DEF Extension
  <2>. HIDE DEF fil
  <2>. QED  BY <2>1, EmptySeq
<1>15. Body(e) = [i \in 1 .. n |-> fil[((i - 1) % Len(fil)) + 1]]
  BY DEF Body
<1>16. Entry(e) = <<ty % 256, ty \div 256>> \o <<n % 256, n \div 256>> \o Body(e)
  BY DEF Entry, u16_to_le_bytes
<1>. HIDE DEF n, ty, fil
<1>3. \A i \in 1 .. n : fil[((i - 1) % Len(fil)) + 1] \in Nat
  <2>. TAKE i \in 1 .. n
  <2>. DEFINE k == (i - 1) % Len(fil)
  <2>1. k \in 0 .. Len(fil) - 1
    BY <1>1, <1>2
  <2>. HIDE DEF k
  <2>2. k + 1 \in 1 .. Len(fil)
    BY <1>2, <2>1
  <2>3. fil[k + 1] \in Nat
    BY <1>2, <2>2, ElementOfSeq
  <2>. QED  BY <2>3 DEF k
<1>4. Body(e) \in Seq(Nat) /\ Len(Body(e)) = n
  BY <1>1, <1>3, <1>15
<1>5. \A x \in Nat : /\ x % 256 \in Nat /\ x \div 256 \in Nat
                     /\ (x % 256) + 256 * (x \div 256) = x
  OBVIOUS
<1>. DEFINE s == <<ty % 256, ty \div 256>>
            t == <<n % 256, n \div 256>>
            u == Body(e)
<1>6. s \in Seq(Nat) /\ t \in Seq(Nat) /\ Len(s) = 2 /\ Len(t) = 2
      /\ s[1] + 256 * s[2] = ty /\ t[1] + 256 * t[2] = n
  BY <1>1, <1>5
<1>7. Entry(e) = (s \o t) \o u
  <2>1. Entry(e) = s \o t \o u
    BY <1>16
  <2>. QED  BY <2>1
<1>8. u \in Seq(Nat) /\ Len(u) = n
  BY <1>4
<1>. HIDE DEF s, t, u
<1>9. /\ s \o t \in Seq(Nat) /\ Len(s \o t) = 4
      /\ (s \o t)[1] = s[1] /\ (s \o t)[2] = s[2]
      /\ (s \o t)[3] = t[1] /\ (s \o t)[4] = t[2]
  <2>1. /\ s \o t \in Seq(Nat) /\ Len(s \o t) = Len(s) + Len(t)
        /\ \A i \in 1 .. Len(s) + Len(t) : (s \o t)[i] =
             IF i <= Len(s) THEN s[i] ELSE t[i - Len(s)]
    BY <1>6, ConcatProperties
  <2>. QED  BY <1>6, <2>1
<1>10. /\ (s \o t) \o u \in Seq(Nat) /\ Len((s \o t) \o u) = 4 + n
       /\ \A i \in 1 .. 4 + n : ((s \o t) \o u)[i] =
            IF i <= 4 THEN (s \o t)[i] ELSE u[i - 4]
  <2>. DEFINE v == s \o t
  <2>1. v \in Seq(Nat) /\ Len(v) = 4
    BY <1>9
  <2>. HIDE DEF v
  <2>2. /\ v \o u \in Seq(Nat) /\ Len(v \o u) = Len(v) + Len(u)
        /\ \A i \in 1 .. Len(v) + Len(u) : (v \o u)[i] =
             IF i <= Len(v) THEN v[i] ELSE u[i - Len(v)]
    BY <1>8, <2>1, ConcatProperties
  <2>3. /\ v \o u \in Seq(Nat) /\ Len(v \o u) = 4 + n
        /\ \A i \in 1 .. 4 + n : (v \o u)[i] = IF i <= 4 THEN v[i] ELSE u[i - 4]
    BY <1>8, <2>1, <2>2
  <2>. QED  BY <2>3 DEF v
<1>11. \A i \in {1, 2, 3, 4} : Entry(e)[i] = (s \o t)[i]
  <2>. TAKE i \in {1, 2, 3, 4}
  <2>1. i \in 1 .. 4 + n /\ i <= 4
    BY <1>1
  <2>2. ((s \o t) \o u)[i] = IF i <= 4 THEN (s \o t)[i] ELSE u[i - 4]
    BY <1>10, <2>1, Zenon
  <2>3. ((s \o t) \o u)[i] = (s \o t)[i]
    BY <2>1, <2>2, Zenon
  <2>. QED  BY <1>7, <2>3, Zenon
<1>12. /\ Entry(e)[1] = s[1] /\ Entry(e)[2] = s[2]
       /\ Entry(e)[3] = t[1] /\ Entry(e)[4] = t[2]
  BY <1>9, <1>11
<1>13. ASSUME NEW j \in 1 .. n
       PROVE  Entry(e)[4 + j] = u[j]
  <2>. DEFINE i == 4 + j
  <2>1. i \in 1 .. 4 + n /\ ~(i <= 4) /\ i - 4 = j
    BY <1>1
  <2>. HIDE DEF i
  <2>2. ((s \o t) \o u)[i] = IF i <= 4 THEN (s \o t)[i] ELSE u[i - 4]
    BY <1>10, <2>1, Zenon
  <2>3. ((s \o t) \o u)[i] = u[i - 4]
    BY <2>1, <2>2, Zenon
  <2>4. Entry(e)[i] = u[j]
    BY <1>7, <2>1, <2>3, Zenon
  <2>. QED  BY <2>4 DEF i
<1>14. Entry(e)[1] + 256 * Entry(e)[2] = ty /\ Entry(e)[3] + 256 * Entry(e)[4] = n
  BY <1>6, <1>12
<1>. QED  BY <1>1, <1>4, <1>7, <1>10, <1>13, <1>14 DEF u, n, ty

(* A turn at an entry reads it, or goes on at its end. *)
LEMMA EntryTurn ==
  ASSUME NEW mint_data \in Seq(Nat), NEW offset \in Nat, NEW e \in Extension, NEW f,
         offset + Len(Entry(e)) <= Len(mint_data),
         \A j \in 1 .. Len(Entry(e)) : mint_data[offset + j] = Entry(e)[j]
  PROVE  Turn(mint_data, offset, f) =
           IF IsScaledUiAmount(e.type, e.len)
           THEN [decimals |-> mint_data[MINT_DECIMALS_OFFSET + 1], config |-> from_bytes(Body(e))]
           ELSE f[offset + Len(Entry(e))]
<1>. DEFINE n == e.len
            ty == e.type
<1>1. /\ n \in Nat /\ ty \in Nat /\ Body(e) \in Seq(Nat) /\ Len(Body(e)) = n
      /\ Len(Entry(e)) = 4 + n
      /\ Entry(e)[1] + 256 * Entry(e)[2] = ty
      /\ Entry(e)[3] + 256 * Entry(e)[4] = n
      /\ \A j \in 1 .. n : Entry(e)[4 + j] = Body(e)[j]
  BY EntryType
<1>. HIDE DEF n, ty
<1>2. u16_from_le_bytes(mint_data, offset) = ty
      /\ u16_from_le_bytes(mint_data, offset + 2) = n
  <2>1. /\ 1 \in 1 .. Len(Entry(e)) /\ 2 \in 1 .. Len(Entry(e))
        /\ 3 \in 1 .. Len(Entry(e)) /\ 4 \in 1 .. Len(Entry(e))
    BY <1>1
  <2>2. /\ mint_data[offset + 1] = Entry(e)[1] /\ mint_data[offset + 2] = Entry(e)[2]
        /\ mint_data[offset + 3] = Entry(e)[3] /\ mint_data[offset + 4] = Entry(e)[4]
    BY <2>1
  <2>3. offset + 2 + 1 = offset + 3 /\ offset + 2 + 2 = offset + 4
    OBVIOUS
  <2>4. /\ mint_data[offset + 2 + 1] = Entry(e)[3] /\ mint_data[offset + 2 + 2] = Entry(e)[4]
    BY <2>2, <2>3, Zenon
  <2>. QED  BY <1>1, <2>2, <2>4, Zenon DEF u16_from_le_bytes
<1>3. ~(offset + 4 > Len(mint_data)) /\ ~(offset + 4 + n > Len(mint_data))
  <2>1. offset + (4 + n) <= Len(mint_data) /\ Len(mint_data) \in Nat
    BY <1>1
  <2>2. n \in Nat
    BY <1>1
  <2>. QED  BY <2>1, <2>2
<1>4. CASE IsScaledUiAmount(ty, n)
  <2>1. n = SCALED_UI_CONFIG_LEN
    BY <1>4 DEF IsScaledUiAmount
  <2>. DEFINE slice == SubSeq(mint_data, offset + 4 + 1, offset + 4 + n)
  <2>2. \A i \in offset + 4 + 1 .. offset + 4 + n : mint_data[i] \in Nat
    <3>. TAKE i \in offset + 4 + 1 .. offset + 4 + n
    <3>1. i \in 1 .. Len(mint_data)
      BY <1>1
    <3>. QED  BY <3>1, ElementOfSeq
  <2>. DEFINE from == offset + 4 + 1
              to == offset + 4 + n
  <2>3. from \in Int /\ to \in Int /\ \A i \in from .. to : mint_data[i] \in Nat
    BY <1>1, <2>2
  <2>4. /\ to - from + 1 = n
        /\ (from <= to <=> n # 0)
        /\ \A i \in 1 .. n : from + i - 1 = offset + (4 + i)
    <3>1. n \in Nat
      BY <1>1
    <3>. QED  BY <3>1
  <2>5. slice = SubSeq(mint_data, from, to)
    BY Zenon DEF from, to
  <2>. HIDE DEF from, to, slice
  <2>8. /\ slice \in Seq(Nat)
        /\ Len(slice) = IF from <= to THEN to - from + 1 ELSE 0
        /\ \A i \in 1 .. to - from + 1 : slice[i] = mint_data[from + i - 1]
    BY <2>3, <2>5, SubSeqProperties
  <2>9. Len(slice) = n
    BY <1>1, <2>4, <2>8
  <2>10. ASSUME NEW i \in 1 .. n
         PROVE  slice[i] = Body(e)[i]
    <3>1. slice[i] = mint_data[offset + (4 + i)]
      BY <2>4, <2>8
    <3>2. 4 + i \in 1 .. Len(Entry(e))
      BY <1>1
    <3>3. mint_data[offset + (4 + i)] = Entry(e)[4 + i]
      BY <3>2
    <3>. QED  BY <1>1, <3>1, <3>3
  <2>6. slice = Body(e)
    BY <1>1, <2>8, <2>9, <2>10, SeqEqual
  <2>7. Slice(mint_data, offset + 4, SCALED_UI_CONFIG_LEN) = Body(e)
    BY <2>1, <2>6 DEF Slice, slice
  <2>. QED  BY <1>2, <1>3, <1>4, <2>7 DEF Turn, n, ty
<1>5. CASE ~IsScaledUiAmount(ty, n)
  <2>1. offset + 4 + n = offset + Len(Entry(e))
    BY <1>1
  <2>. QED  BY <1>2, <1>3, <1>5, <2>1 DEF Turn, n, ty
<1>. QED  BY <1>4, <1>5

(* The mint of the unit test: its fields, then the entries in their places. *)
EntrySeq == [i \in DOMAIN extensions |-> Entry(extensions[i])]
Start(i) == MINT_EXTENSIONS_OFFSET + At(EntrySeq, i)

LEMMA MockMintPlaces ==
  ASSUME extensions \in Seq(Extension)
  PROVE  /\ MockMint \in Seq(Nat)
         /\ MockMint[MINT_DECIMALS_OFFSET + 1] = DECIMALS
         /\ Start(0) = MINT_EXTENSIONS_OFFSET
         /\ Start(Len(extensions)) = Len(MockMint)
         /\ \A i \in 1 .. Len(extensions) :
              /\ Start(i - 1) \in Nat
              /\ Start(i) = Start(i - 1) + Len(Entry(extensions[i]))
              /\ Start(i) <= Len(MockMint)
              /\ \A j \in 1 .. Len(Entry(extensions[i])) :
                   MockMint[Start(i - 1) + j] = Entry(extensions[i])[j]
<1>. DEFINE N == Len(extensions)
            base == BaseMint(MINT_EXTENSIONS_OFFSET)
            O == MINT_EXTENSIONS_OFFSET
<1>1. /\ EntrySeq \in Seq(Seq(Nat)) /\ Len(EntrySeq) = N
      /\ \A i \in 1 .. N : EntrySeq[i] = Entry(extensions[i])
  <2>1. DOMAIN extensions = 1 .. N /\ N \in Nat
    OBVIOUS
  <2>2. \A i \in 1 .. N : Entry(extensions[i]) \in Seq(Nat)
    <3>. TAKE i \in 1 .. N
    <3>1. extensions[i] \in Extension
      BY ElementOfSeq
    <3>. QED  BY <3>1, EntryType
  <2>. QED  BY <2>1, <2>2 DEF EntrySeq
<1>2. /\ FlattenSeq(EntrySeq) \in Seq(Nat)
      /\ At(EntrySeq, N) = Len(FlattenSeq(EntrySeq))
      /\ \A i \in 1 .. N :
           /\ At(EntrySeq, i - 1) \in Nat
           /\ At(EntrySeq, i) = At(EntrySeq, i - 1) + Len(EntrySeq[i])
           /\ At(EntrySeq, i) <= Len(FlattenSeq(EntrySeq))
           /\ \A j \in 1 .. Len(EntrySeq[i]) :
                FlattenSeq(EntrySeq)[At(EntrySeq, i - 1) + j] = EntrySeq[i][j]
  BY <1>1, FlattenPlaces
<1>3. /\ base \in Seq(Nat) /\ Len(base) = O /\ O \in Nat
      /\ base[MINT_DECIMALS_OFFSET + 1] = DECIMALS
      /\ MINT_DECIMALS_OFFSET + 1 \in 1 .. O
  <2>1. O \in Nat /\ MINT_DECIMALS_OFFSET + 1 \in 1 .. O
    BY LayoutAssumption
  <2>2. Zeros(O) \in Seq(Nat) /\ Len(Zeros(O)) = O /\ DOMAIN Zeros(O) = 1 .. O
    BY <2>1 DEF Zeros
  <2>3. base = [Zeros(O) EXCEPT ![MINT_DECIMALS_OFFSET + 1] = DECIMALS] /\ DECIMALS \in Nat
    BY DEF BaseMint, DECIMALS
  <2>. HIDE DEF base, O
  <2>. QED  BY <2>1, <2>2, <2>3, ExceptSeq
<1>. DEFINE t == FlattenSeq(EntrySeq)
<1>4. MockMint = base \o t
  BY DEF MockMint, Entries, EntrySeq
<1>5. /\ base \o t \in Seq(Nat) /\ Len(base \o t) = O + Len(t)
      /\ \A i \in 1 .. O + Len(t) : (base \o t)[i] = IF i <= O THEN base[i] ELSE t[i - O]
  <2>. HIDE DEF base, t, O
  <2>1. t \in Seq(Nat)
    BY <1>2 DEF t
  <2>2. /\ base \o t \in Seq(Nat) /\ Len(base \o t) = Len(base) + Len(t)
        /\ \A i \in 1 .. Len(base) + Len(t) :
             (base \o t)[i] = IF i <= Len(base) THEN base[i] ELSE t[i - Len(base)]
    BY <1>3, <2>1, ConcatProperties
  <2>. QED  BY <1>3, <2>2
<1>6. t \in Seq(Nat) /\ Len(t) \in Nat
  BY <1>2
<1>7. Start(0) = O /\ Start(N) = O + Len(t)
  <2>1. At(EntrySeq, 0) = 0 /\ At(EntrySeq, N) = Len(t)
    BY <1>2 DEF At
  <2>2. Start(0) = O + At(EntrySeq, 0) /\ Start(N) = O + At(EntrySeq, N)
    BY DEF Start
  <2>3. O \in Nat
    BY <1>3
  <2>. HIDE DEF O, t, N
  <2>. QED  BY <2>1, <2>2, <2>3
<1>8. ASSUME NEW i \in 1 .. N
      PROVE  /\ Start(i - 1) \in Nat
             /\ Start(i) = Start(i - 1) + Len(Entry(extensions[i]))
             /\ Start(i) <= O + Len(t)
             /\ \A j \in 1 .. Len(Entry(extensions[i])) :
                  (base \o t)[Start(i - 1) + j] = Entry(extensions[i])[j]
  <2>. DEFINE from == At(EntrySeq, i - 1)
              to == At(EntrySeq, i)
              entry == Entry(extensions[i])
  <2>1. /\ from \in Nat /\ to = from + Len(entry) /\ to <= Len(t)
        /\ \A j \in 1 .. Len(entry) : t[from + j] = entry[j]
    BY <1>1, <1>2
  <2>2. Start(i - 1) = O + from /\ Start(i) = O + to
    BY DEF Start
  <2>3. entry \in Seq(Nat) /\ Len(entry) \in Nat
    BY <1>1, ElementOfSeq, EntryType
  <2>. HIDE DEF from, to, entry, t, base, O
  <2>4. \A j \in 1 .. Len(entry) : (base \o t)[O + from + j] = entry[j]
    <3>. TAKE j \in 1 .. Len(entry)
    <3>. DEFINE k == O + from + j
    <3>1. k \in 1 .. O + Len(t) /\ ~(k <= O) /\ k - O = from + j
      BY <1>3, <1>6, <2>1, <2>3
    <3>. HIDE DEF k
    <3>2. (base \o t)[k] = IF k <= O THEN base[k] ELSE t[k - O]
      BY <1>5, <3>1, Zenon
    <3>3. (base \o t)[k] = t[from + j]
      BY <3>1, <3>2, Zenon
    <3>. QED  BY <2>1, <3>3 DEF k
  <2>5. O + from \in Nat /\ O + to = O + from + Len(entry) /\ O + to <= O + Len(t)
    BY <1>3, <1>6, <2>1, <2>3
  <2>. QED  BY <2>2, <2>4, <2>5 DEF entry
<1>9. (base \o t)[MINT_DECIMALS_OFFSET + 1] = DECIMALS
  <2>. HIDE DEF base, t, O
  <2>1. MINT_DECIMALS_OFFSET + 1 \in 1 .. O + Len(t) /\ MINT_DECIMALS_OFFSET + 1 <= O
    BY <1>3, <1>6
  <2>. QED  BY <1>3, <1>5, <2>1
<1>. HIDE DEF base, t
<1>. QED  BY <1>4, <1>5, <1>7, <1>8, <1>9

(* What is found from the end of the first i entries on. *)
ReadingOf(i) == [decimals |-> DECIMALS, config |-> from_bytes(Body(extensions[i]))]
After(i) == {k \in Configured : k > i}
FoundAfter(i) == IF After(i) = {} THEN Refused ELSE ReadingOf(Min(After(i)))

LEMMA ChainIsScanned ==
  ASSUME extensions \in Seq(Extension)
  PROVE  \A i \in 0 .. Len(extensions) : Scan(MockMint)[Start(i)] = FoundAfter(i)
<1>. DEFINE N == Len(extensions)
            M == MockMint
            scan == Scan(M)
            S == {m \in 0 .. N : scan[Start(m)] = FoundAfter(m)}
<1>1. /\ M \in Seq(Nat) /\ M[MINT_DECIMALS_OFFSET + 1] = DECIMALS
      /\ Start(0) = MINT_EXTENSIONS_OFFSET /\ Start(N) = Len(M)
      /\ \A i \in 1 .. N :
           /\ Start(i - 1) \in Nat
           /\ Start(i) = Start(i - 1) + Len(Entry(extensions[i]))
           /\ Start(i) <= Len(M)
           /\ \A j \in 1 .. Len(Entry(extensions[i])) :
                M[Start(i - 1) + j] = Entry(extensions[i])[j]
  BY MockMintPlaces
<1>2. N \in Nat /\ \A k \in Configured : k \in Nat /\ 1 <= k /\ k <= N
  BY DEF Configured
<1>3. \A offset \in 0 .. Len(M) : scan[offset] = Turn(M, offset, scan)
  BY <1>1, ScanTurns
<1>. HIDE DEF M, scan
<1>4. ASSUME NEW m \in 0 .. N, \A p \in m + 1 .. N : p \in S
      PROVE  m \in S
  <2>1. CASE m = N
    <3>1. After(m) = {}
      <4>1. \A k \in Configured : ~(k > m)
        BY <1>2, <2>1
      <4>. QED  BY <4>1 DEF After
    <3>2. Len(M) \in Nat /\ Len(M) \in 0 .. Len(M)
      BY <1>1
    <3>3. scan[Len(M)] = Turn(M, Len(M), scan)
      BY <1>3, <3>2
    <3>4. Turn(M, Len(M), scan) = Refused
      <4>1. Len(M) + 4 > Len(M)
        BY <3>2
      <4>. QED  BY <4>1 DEF Turn
    <3>. QED  BY <1>1, <2>1, <3>1, <3>3, <3>4 DEF FoundAfter
  <2>2. CASE m # N
    <3>. DEFINE i == m + 1
                e == extensions[i]
                len == Len(Entry(e))
    <3>1. i \in 1 .. N /\ i - 1 = m /\ i \in m + 1 .. N /\ i > m
      BY <1>2, <2>2
    <3>2. e \in Extension
      BY <3>1, ElementOfSeq
    <3>. HIDE DEF i
    <3>3. /\ Start(m) \in Nat /\ Start(i) = Start(m) + len /\ Start(i) <= Len(M)
          /\ \A j \in 1 .. len : M[Start(m) + j] = Entry(e)[j]
      BY <1>1, <3>1
    <3>4. scan[Start(i)] = FoundAfter(i)
      BY <1>4, <3>1
    <3>. HIDE DEF e
    <3>5. len \in Nat
      BY <3>2, EntryType
    <3>6. Turn(M, Start(m), scan) =
            IF IsScaledUiAmount(e.type, e.len)
            THEN [decimals |-> M[MINT_DECIMALS_OFFSET + 1], config |-> from_bytes(Body(e))]
            ELSE scan[Start(m) + len]
      <4>. DEFINE o == Start(m)
      <4>1. /\ M \in Seq(Nat) /\ o \in Nat /\ o + Len(Entry(e)) <= Len(M)
            /\ \A j \in 1 .. Len(Entry(e)) : M[o + j] = Entry(e)[j]
        BY <1>1, <3>3
      <4>. HIDE DEF o
      <4>2. Turn(M, o, scan) =
              IF IsScaledUiAmount(e.type, e.len)
              THEN [decimals |-> M[MINT_DECIMALS_OFFSET + 1], config |-> from_bytes(Body(e))]
              ELSE scan[o + Len(Entry(e))]
        BY <3>2, <4>1, EntryTurn
      <4>. QED  BY <4>2, Zenon DEF o
    <3>7. scan[Start(m)] = Turn(M, Start(m), scan)
      <4>1. Len(M) \in Nat
        BY <1>1
      <4>2. Start(m) \in 0 .. Len(M)
        <5>. HIDE DEF len
        <5>. QED  BY <3>3, <3>5, <4>1
      <4>. QED  BY <1>3, <4>2
    <3>8. i \in Configured <=> IsScaledUiAmount(e.type, e.len)
      <4>1. DOMAIN extensions = 1 .. N
        OBVIOUS
      <4>. QED  BY <3>1, <4>1 DEF Configured, IsScaledUiAmount, e
    <3>9. CASE i \in Configured
      <4>1. i \in After(m) /\ \A k \in After(m) : i <= k
        BY <1>2, <3>1, <3>9 DEF After
      <4>2. After(m) \subseteq Int
        <5>1. \A k \in Configured : k \in Int
          BY <1>2
        <5>. QED  BY <5>1 DEF After
      <4>3. Min(After(m)) = i
        BY <4>1, <4>2, MinIs
      <4>4. FoundAfter(m) = ReadingOf(i)
        BY <4>1, <4>3 DEF FoundAfter
      <4>5. scan[Start(m)] = ReadingOf(i)
        BY <1>1, <3>6, <3>7, <3>8, <3>9 DEF ReadingOf, e
      <4>. QED  BY <4>4, <4>5
    <3>10. CASE i \notin Configured
      <4>1. After(m) = After(i)
        <5>1. \A k \in Configured : k > m <=> k > i
          BY <1>2, <3>1, <3>10
        <5>. QED  BY <5>1 DEF After
      <4>2. FoundAfter(m) = FoundAfter(i)
        BY <4>1 DEF FoundAfter
      <4>3. scan[Start(m)] = scan[Start(i)]
        BY <3>3, <3>6, <3>7, <3>8, <3>10
      <4>. QED  BY <3>4, <4>2, <4>3
    <3>. QED  BY <3>9, <3>10
  <2>. QED  BY <2>1, <2>2
<1>. HIDE DEF S
<1>5. \A m \in 0 .. N : m \in S
  BY <1>2, <1>4, FromTheEnd
<1>. QED  BY <1>5 DEF S, scan, M

(* The fields of a configuration are its bytes, each in its place. *)
LEMMA FieldsAreTheBody ==
  ASSUME NEW bytes \in Seq(Nat), Len(bytes) = SCALED_UI_CONFIG_LEN
  PROVE  LET config == from_bytes(bytes)
         IN  config.authority \o config.multiplier \o config.new_multiplier_effective_timestamp
               \o config.new_multiplier = bytes
<1>. DEFINE A == AUTHORITY_LEN
            B == AUTHORITY_LEN + NUMBER_LEN
            C == AUTHORITY_LEN + 2 * NUMBER_LEN
            D == Len(bytes)
<1>1. /\ A \in Nat /\ B \in Nat /\ C \in Nat /\ D \in Nat /\ A <= B /\ B <= C /\ C <= D
      /\ B + NUMBER_LEN = C /\ C + NUMBER_LEN = D
  BY LayoutAssumption DEF SCALED_UI_CONFIG_LEN
<1>2. LET config == from_bytes(bytes)
      IN  /\ config.authority = SubSeq(bytes, 1, A)
          /\ config.multiplier = SubSeq(bytes, A + 1, B)
          /\ config.new_multiplier_effective_timestamp = SubSeq(bytes, B + 1, C)
          /\ config.new_multiplier = SubSeq(bytes, C + 1, D)
  <2>1. 0 + 1 = 1 /\ 0 + A = A
    BY <1>1
  <2>2. /\ SubSeq(bytes, 0 + 1, 0 + A) = SubSeq(bytes, 1, A)
        /\ SubSeq(bytes, B + 1, B + NUMBER_LEN) = SubSeq(bytes, B + 1, C)
        /\ SubSeq(bytes, C + 1, C + NUMBER_LEN) = SubSeq(bytes, C + 1, D)
    BY <1>1, <2>1
  <2>. QED  BY <2>2 DEF from_bytes, Slice
<1>3. 1 \in 1 .. D + 1
  BY <1>1
<1>. HIDE DEF A, B, C
<1>4. SubSeq(bytes, 1, A) \o SubSeq(bytes, A + 1, B) = SubSeq(bytes, 1, B)
  <2>1. A \in 1 - 1 .. D /\ B \in A .. D
    BY <1>1
  <2>. QED  BY <1>3, <2>1, ConcatAdjacentSubSeq
<1>5. SubSeq(bytes, 1, B) \o SubSeq(bytes, B + 1, C) = SubSeq(bytes, 1, C)
  <2>1. B \in 1 - 1 .. D /\ C \in B .. D
    BY <1>1
  <2>. QED  BY <1>3, <2>1, ConcatAdjacentSubSeq
<1>6. SubSeq(bytes, 1, C) \o SubSeq(bytes, C + 1, D) = SubSeq(bytes, 1, D)
  <2>1. C \in 1 - 1 .. D /\ D \in C .. D
    BY <1>1
  <2>. QED  BY <1>3, <2>1, ConcatAdjacentSubSeq
<1>7. SubSeq(bytes, 1, D) = bytes
  BY SubSeqFull
<1>. QED  BY <1>2, <1>4, <1>5, <1>6, <1>7

(* For any chain of extensions the program reads the first ScaledUiAmount
   among them, field by field, or refuses the mint; cut short, the mint is
   refused or read the same. *)
THEOREM FirstExtensionIsRead == Spec => []ReadsTheFirstExtension
<1>1. TypeOK => ReadsTheFirstExtension
  <2>. SUFFICES ASSUME TypeOK PROVE ReadsTheFirstExtension
    OBVIOUS
  <2>. DEFINE read == unpack_scaled_ui_mint(MockMint)
              k == Min(Configured)
  <2>1. extensions \in Seq(Extension)
    BY DEF TypeOK
  <2>2. /\ MockMint \in Seq(Nat) /\ Start(0) = MINT_EXTENSIONS_OFFSET
        /\ ~(Len(MockMint) < MINT_EXTENSIONS_OFFSET)
    <3>1. /\ MockMint \in Seq(Nat) /\ Start(0) = MINT_EXTENSIONS_OFFSET
          /\ Start(Len(extensions)) = Len(MockMint)
      BY <2>1, MockMintPlaces
    <3>2. CASE Len(extensions) = 0
      BY <3>1, <3>2, LayoutAssumption
    <3>3. CASE Len(extensions) # 0
      <4>1. 1 \in 1 .. Len(extensions) /\ 1 - 1 = 0
        BY <2>1, <3>3
      <4>2. Start(1) = Start(0) + Len(Entry(extensions[1])) /\ Start(1) <= Len(MockMint)
        BY <2>1, <4>1, MockMintPlaces
      <4>3. Len(Entry(extensions[1])) \in Nat
        BY <2>1, <4>1, ElementOfSeq, EntryType
      <4>4. Len(MockMint) \in Nat
        BY <3>1
      <4>. QED  BY <3>1, <4>2, <4>3, <4>4, LayoutAssumption
    <3>. QED  BY <3>1, <3>2, <3>3
  <2>3. read = FoundAfter(0)
    <3>1. 0 \in 0 .. Len(extensions)
      BY <2>1
    <3>2. Scan(MockMint)[Start(0)] = FoundAfter(0)
      BY <2>1, <3>1, ChainIsScanned
    <3>. QED  BY <2>2, <3>2, Mint
  <2>4. After(0) = Configured /\ Configured \subseteq Nat
    <3>1. DOMAIN extensions = 1 .. Len(extensions)
      BY <2>1
    <3>2. \A i \in Configured : i \in Nat /\ i > 0
      BY <2>1, <3>1 DEF Configured
    <3>. QED  BY <3>2 DEF After
  <2>5. Configured = {} => read = Refused
    BY <2>3, <2>4 DEF FoundAfter
  <2>6. ASSUME Configured # {}
        PROVE  /\ read.decimals = DECIMALS
               /\ read.config.authority \o read.config.multiplier
                    \o read.config.new_multiplier_effective_timestamp
                    \o read.config.new_multiplier = Body(extensions[k])
    <3>1. read = ReadingOf(k)
      BY <2>3, <2>4, <2>6 DEF FoundAfter
    <3>2. k \in Configured
      <4>1. PICK i \in Configured : \A j \in Configured : i <= j
        BY <2>4, <2>6, LeastNatural
      <4>2. k = i
        <5>1. Configured \subseteq Int
          BY <2>4
        <5>. HIDE DEF read
        <5>. QED  BY <4>1, <5>1, MinIs
      <4>. QED  BY <4>1, <4>2
    <3>. HIDE DEF k, read
    <3>3. extensions[k] \in Extension /\ extensions[k].len = SCALED_UI_CONFIG_LEN
      BY <2>1, <3>2, ElementOfSeq DEF Configured
    <3>4. Body(extensions[k]) \in Seq(Nat) /\ Len(Body(extensions[k])) = SCALED_UI_CONFIG_LEN
      BY <3>3, EntryType
    <3>5. read.decimals = DECIMALS /\ read.config = from_bytes(Body(extensions[k]))
      BY <3>1 DEF ReadingOf
    <3>. QED  BY <3>4, <3>5, FieldsAreTheBody
  <2>7. \A n \in 0 .. Len(MockMint) :
          unpack_scaled_ui_mint(SubSeq(MockMint, 1, n)) \in {Refused, read}
    BY <2>2, CutShort
  <2>. QED  BY <2>5, <2>6, <2>7 DEF ReadsTheFirstExtension
<1>. QED  BY <1>1, InputsType, PTL
=============================================================================
