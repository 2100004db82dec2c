-------------------------- MODULE StripVaultProofs --------------------------
(***************************************************************************)
(* Proofs about StripVault: the accounts keep their types and the          *)
(* invariants of StripVaultProperties hold for every value of the          *)
(* constants.                                                              *)
(***************************************************************************)
EXTENDS StripVaultProperties, StripVaultMathProofs, LedgerProofs

-----------------------------------------------------------------------------
(* Type correctness.                                                       *)

(* The accounts an action reads have the types of TypeOK. *)
LEMMA RecordType ==
  ASSUME TypeOK, NEW y \in YieldAssets
  PROVE  /\ records[y] \in YieldRecord
         /\ records[y].buyout_price_lamports \in Nat
         /\ records[y].share_bps \in Nat
         /\ records[y].payouts_received_count \in 0 .. U32_MAX
         /\ records[y].is_active \in BOOLEAN
         /\ records[y].expiry_condition \in ExpiryCondition
         /\ records[y].expiry_condition.limit \in Nat
BY DEF TypeOK, YieldRecord, ExpiryCondition

LEMMA VaultType ==
  ASSUME TypeOK
  PROVE  /\ vault.open \in BOOLEAN
         /\ vault.total_raw_shares \in Nat
         /\ vault.last_multiplier \in Nat
         /\ vault.pending_harvest_amount \in Nat
         /\ vault.total_yield_allocated_bps \in 0 .. MAX_YIELD_BPS
         /\ vault.payout_asset_type \in PayoutAssetTypes
BY DEF TypeOK, Vault

(* The multiplier in force is a natural number of grains. *)
LEMMA EffectiveType ==
  ASSUME TypeOK
  PROVE  /\ get_effective_multiplier \in Nat
         /\ f64_to_fixed_multiplier(get_effective_multiplier) \in Nat
<1>1. get_effective_multiplier \in Nat
  BY DEF TypeOK, ScaledUiAmountConfig, get_effective_multiplier
<1>. QED  BY <1>1, FixedType

(* A record is paid a number of times, and a position that is paid is within
   its count. *)
LEMMA TimesPaidType ==
  ASSUME TypeOK, NEW y \in YieldAssets, NEW n \in Nat
  PROVE  /\ TimesPaid(records[y], n) \in Nat
         /\ TimesPaid(records[y], n) <= n
         /\ (records[y].expiry_condition.kind = "PayoutCount" /\ TimesPaid(records[y], n) > 0)
              => records[y].payouts_received_count + TimesPaid(records[y], n)
                   <= records[y].expiry_condition.limit
<1>1. records[y].payouts_received_count \in Nat /\ records[y].expiry_condition.limit \in Nat
  BY RecordType, LimitAssumption
<1>2. records[y].expiry_condition.kind = "PayoutCount" /\ ~is_expired(records[y], clock)
        => records[y].payouts_received_count < records[y].expiry_condition.limit
  BY <1>1 DEF is_expired
<1>. QED  BY <1>1, <1>2 DEF TimesPaid

(* What is left of a record after the triples that name it. *)
LEMMA AfterTriplesType ==
  ASSUME TypeOK, NEW y \in YieldAssets, NEW n \in Nat,
         records[y].payouts_received_count + TimesPaid(records[y], n) <= U32_MAX
  PROVE  /\ AfterTriples(records[y], n) \in YieldRecord
         /\ AfterTriples(records[y], n).share_bps = records[y].share_bps
         /\ AfterTriples(records[y], n).expiry_condition = records[y].expiry_condition
         /\ AfterTriples(records[y], n).payouts_received_count
              = records[y].payouts_received_count + TimesPaid(records[y], n)
         /\ AfterTriples(records[y], n).is_active => records[y].is_active
<1>1. records[y] \in YieldRecord /\ TimesPaid(records[y], n) \in Nat
  BY RecordType, TimesPaidType
<1>2. records[y].payouts_received_count + TimesPaid(records[y], n) \in 0 .. U32_MAX
  BY <1>1, LimitAssumption DEF YieldRecord
<1>. HIDE DEF TypeOK
<1>. QED  BY <1>1, <1>2 DEF AfterTriples, YieldRecord

(* What a distribution pays out is within what it takes. *)
LEMMA IncomeType ==
  ASSUME NEW payout \in Nat, NEW paid \in [YieldAssets -> Nat],
         Total(paid, YieldAssets) <= payout
  PROVE  Income(payout, paid) \in [Wallets -> Nat]
<1>1. Total(paid, YieldAssets) \in Nat
  BY AddressAssumption, TotalType
<1>2. \A w \in Wallets : Total(paid, {y \in YieldAssets : nft[y] = w}) \in Nat
  <2>. SUFFICES ASSUME NEW w \in Wallets
                PROVE  Total(paid, {y \in YieldAssets : nft[y] = w}) \in Nat
    OBVIOUS
  <2>1. IsFiniteSet({y \in YieldAssets : nft[y] = w})
    BY AddressAssumption, FS_Subset
  <2>. QED  BY <2>1, TotalType
<1>. QED  BY <1>1, <1>2 DEF Income

LEMMA StartTypes ==
  Init => TypeOK
<1>. SUFFICES ASSUME Init
              PROVE  TypeOK
  OBVIOUS
<1>1. mint \in ScaledUiAmountConfig
  BY ChoiceAssumption DEF Init, ScaledUiAmountConfig
<1>2. vault \in Vault
  BY MAX_YIELD_BPSAssumption DEF Init, Vault, NoVault, HoldingAccounts, PayoutAssetTypes
<1>3. records \in [YieldAssets -> YieldRecord]
  BY LimitAssumption DEF Init, YieldRecord, NoRecord, ExpiryCondition
<1>4. stock \in [StockAccounts -> Nat]
  BY StartAssumption DEF Init, StockAccounts
<1>. QED  BY <1>1, <1>2, <1>3, <1>4, StartAssumption DEF Init, TypeOK, Assets

(* No step of anybody takes an account out of its type. *)
LEMMA StepTypes ==
  TypeOK /\ [Next]_vars => TypeOK'
<1>. SUFFICES ASSUME TypeOK, [Next]_vars
              PROVE  TypeOK'
  OBVIOUS
<1>1. ASSUME NEW w \in Wallets, NEW kind \in PayoutAssetTypes, NEW holding \in HoldingChoices,
             NEW deed \in DeedAssets, NEW amount \in 1 .. stock[w],
             creator_initialize_vault(w, amount, kind, holding, deed)
      PROVE  TypeOK'
  <2>1. amount \in Nat /\ w \in StockAccounts /\ "stock_vault_ata" \in StockAccounts
    BY DEF StockAccounts
  <2>2. stock' \in [StockAccounts -> Nat]
    BY <1>1, <2>1, TransferType DEF creator_initialize_vault, TypeOK
  <2>3. f64_to_fixed_multiplier(get_effective_multiplier) \in Nat
    BY EffectiveType
  <2>4. vault' \in Vault
    BY <1>1, <2>1, <2>3, MAX_YIELD_BPSAssumption, ChoiceAssumption
    DEF creator_initialize_vault, Vault
  <2>5. nft' \in [Assets -> Wallets \cup {"unminted", "burned"}]
    BY <1>1 DEF creator_initialize_vault, TypeOK
  <2>6. principal' \in Nat
    BY <1>1, <2>1, <2>3, ProductType DEF creator_initialize_vault
  <2>. QED  BY <1>1, <2>2, <2>4, <2>5, <2>6 DEF creator_initialize_vault, TypeOK
<1>2. ASSUME NEW w \in Wallets, NEW r \in Wallets, NEW y \in YieldAssets,
             NEW share \in ShareChoices, NEW expiry \in ExpiryChoices, NEW price \in PriceChoices,
             owner_strip_position(w, y, r, share, expiry, price)
      PROVE  TypeOK'
  <2>1. share \in Nat /\ price \in Nat /\ expiry \in ExpiryCondition
    BY ChoiceAssumption
  <2>2. vault' \in Vault
    BY <1>2, <2>1, MAX_YIELD_BPSAssumption
    DEF owner_strip_position, FitsAllocation, TypeOK, Vault
  <2>3. records' \in [YieldAssets -> YieldRecord]
    BY <1>2, <2>1, LimitAssumption DEF owner_strip_position, TypeOK, YieldRecord
  <2>4. nft' \in [Assets -> Wallets \cup {"unminted", "burned"}]
    BY <1>2 DEF owner_strip_position, TypeOK
  <2>. QED  BY <1>2, <2>2, <2>3, <2>4 DEF owner_strip_position, TypeOK
<1>3. ASSUME NEW w \in Wallets, NEW y \in YieldAssets, owner_buyout_yield(w, y)
      PROVE  TypeOK'
  <2>1. records[y].buyout_price_lamports \in Nat /\ records[y].share_bps \in Nat
    BY RecordType
  <2>2. nft[y] \in FundAccounts /\ w \in FundAccounts
    BY <1>3 DEF owner_buyout_yield, FundAccounts
  <2>3. funds["Sol"] \in [FundAccounts -> Nat]
    BY DEF TypeOK, Monies, PayoutAssetTypes
  <2>4. Transfer(funds["Sol"], w, nft[y], records[y].buyout_price_lamports)
          \in [FundAccounts -> Nat]
    BY <1>3, <2>1, <2>2, <2>3, TransferType DEF owner_buyout_yield
  <2>5. funds' \in [Monies -> [FundAccounts -> Nat]]
    BY <1>3, <2>4 DEF owner_buyout_yield, TypeOK
  <2>6. vault' \in Vault
    BY <1>3, <2>1, MAX_YIELD_BPSAssumption DEF owner_buyout_yield, saturating_sub, TypeOK, Vault
  <2>7. records' \in [YieldAssets -> YieldRecord]
    BY <1>3 DEF owner_buyout_yield, TypeOK, YieldRecord
  <2>8. nft' \in [Assets -> Wallets \cup {"unminted", "burned"}]
    BY <1>3 DEF owner_buyout_yield, TypeOK
  <2>. QED  BY <1>3, <2>5, <2>6, <2>7, <2>8 DEF owner_buyout_yield, TypeOK
<1>4. ASSUME NEW w \in Wallets, owner_redeem_principal(w)
      PROVE  TypeOK'
  <2>1. stock' \in [StockAccounts -> Nat]
    <3>1. stock \in [StockAccounts -> Nat] /\ w \in StockAccounts
      BY DEF TypeOK, StockAccounts
    <3>2. "stock_vault_ata" \in StockAccounts /\ stock["stock_vault_ata"] \in Nat
      BY <3>1 DEF StockAccounts
    <3>3. stock' = Transfer(stock, "stock_vault_ata", w, stock["stock_vault_ata"])
      BY <1>4 DEF owner_redeem_principal
    <3>. QED  BY <3>1, <3>2, <3>3, TransferType
  <2>2. Transfer(funds["Sol"], "vault_payout", w, funds["Sol"]["vault_payout"])
          \in [FundAccounts -> Nat]
    <3>1. funds["Sol"] \in [FundAccounts -> Nat] /\ w \in FundAccounts
      BY DEF TypeOK, FundAccounts, Monies, PayoutAssetTypes
    <3>2. "vault_payout" \in FundAccounts /\ funds["Sol"]["vault_payout"] \in Nat
      BY <3>1 DEF FundAccounts
    <3>. QED  BY <3>1, <3>2, TransferType
  <2>3. funds' \in [Monies -> [FundAccounts -> Nat]]
    BY <1>4, <2>2 DEF owner_redeem_principal, TypeOK
  <2>4. vault' \in Vault
    BY <1>4, MAX_YIELD_BPSAssumption
    DEF owner_redeem_principal, Vault, NoVault, HoldingAccounts, PayoutAssetTypes
  <2>5. nft' \in [Assets -> Wallets \cup {"unminted", "burned"}]
    BY <1>4 DEF owner_redeem_principal, TypeOK
  <2>. QED  BY <1>4, <2>1, <2>3, <2>4, <2>5 DEF owner_redeem_principal, TypeOK
<1>5. CASE keeper_harvest_dividend
  <2>. DEFINE active == f64_to_fixed_multiplier(get_effective_multiplier)
              balance == stock["stock_vault_ata"]
              harvest == calculate_harvest_amount(balance, vault.last_multiplier, active)
  <2>1. balance \in Nat /\ active \in Nat /\ vault.last_multiplier \in Nat
    BY EffectiveType, VaultType DEF TypeOK, StockAccounts
  <2>2. HarvestDefined(vault.last_multiplier, active)
    BY <1>5 DEF keeper_harvest_dividend
  <2>3. harvest \in Nat /\ harvest <= balance
    BY <2>1, <2>2, HarvestDilutesNothing
  <2>4. stock' \in [StockAccounts -> Nat]
    BY <1>5, <2>3, TransferType DEF keeper_harvest_dividend, TypeOK, StockAccounts
  <2>5. /\ vault.pending_harvest_amount + harvest \in Nat
        /\ balance - harvest \in Nat
    BY <2>1, <2>3, VaultType
  <2>6. vault' = [vault EXCEPT !.last_multiplier = active,
                               !.pending_harvest_amount = @ + harvest,
                               !.total_raw_shares = balance - harvest]
    BY <1>5 DEF keeper_harvest_dividend
  <2>7. vault' \in Vault
    <3>. HIDE DEF active, balance, harvest
    <3>. QED  BY <2>1, <2>5, <2>6 DEF TypeOK, Vault
  <2>. QED  BY <1>5, <2>4, <2>7 DEF keeper_harvest_dividend, TypeOK
<1>6. ASSUME NEW rate \in CustomRates \cup {None}, NEW money \in Monies,
             NEW destination \in FundAccounts, keeper_execute_swap(rate, money, destination)
      PROVE  TypeOK'
  <2>. DEFINE output == calculate_simulated_swap_output(vault.pending_harvest_amount,
                                                        vault.payout_asset_type, rate)
  <2>1. vault.payout_asset_type \in PayoutAssetTypes /\ vault.pending_harvest_amount \in Nat
    BY VaultType
  <2>2. output \in Nat
    BY <2>1, ChoiceAssumption, SwapOutputType DEF None
  <2>3. stock' \in [StockAccounts -> Nat]
    BY <1>6, <2>1, TransferType DEF keeper_execute_swap, TypeOK, StockAccounts
  <2>4. Transfer(funds[money], "swap_reserve", destination, output) \in [FundAccounts -> Nat]
    <3>1. funds[money] \in [FundAccounts -> Nat] /\ "swap_reserve" \in FundAccounts
      BY DEF TypeOK, FundAccounts
    <3>2. output <= funds[money]["swap_reserve"]
      <4>1. funds[money]["swap_reserve"] >= output
        BY <1>6 DEF keeper_execute_swap
      <4>2. funds[money]["swap_reserve"] \in Nat
        BY <3>1
      <4>. QED  BY <2>2, <4>1, <4>2
    <3>. QED  BY <2>2, <3>1, <3>2, TransferType
  <2>5. funds' \in [Monies -> [FundAccounts -> Nat]]
    BY <1>6, <2>4 DEF keeper_execute_swap, TypeOK
  <2>6. vault' \in Vault
    BY <1>6 DEF keeper_execute_swap, VaultAfterSwap, TypeOK, Vault
  <2>. QED  BY <1>6, <2>3, <2>5, <2>6 DEF keeper_execute_swap, TypeOK
<1>7. ASSUME NEW money \in Monies, NEW listed \in Listings,
             NEW amount \in 0 .. funds[money]["vault_payout"],
             keeper_distribute_payout(money, amount, listed)
      PROVE  TypeOK'
  <2>. DEFINE available == funds[money]["vault_payout"]
              payout == IF amount > 0 THEN amount ELSE available
              times == [y \in YieldAssets |-> TimesPaid(records[y], listed[y])]
              paid == [y \in YieldAssets |->
                         times[y] * calculate_yield_share(payout, records[y].share_bps)]
              after == [y \in YieldAssets |-> AfterTriples(records[y], listed[y])]
              shares == [y \in YieldAssets |-> records[y].share_bps]
  <2>1. /\ funds[money] \in [FundAccounts -> Nat]
        /\ available \in Nat
        /\ payout \in Nat
    <3>1. funds[money] \in [FundAccounts -> Nat]
      BY DEF TypeOK
    <3>2. available \in Nat
      BY <3>1 DEF FundAccounts
    <3>3. payout \in Nat
      <4>. HIDE DEF available
      <4>. QED  BY <3>2
    <3>. QED  BY <3>1, <3>2, <3>3
  <2>2. \A y \in YieldAssets : listed[y] \in Nat
    BY LimitAssumption DEF Listings
  <2>3. paid \in [YieldAssets -> Nat]
    <3>. SUFFICES ASSUME NEW y \in YieldAssets
                  PROVE  times[y] * calculate_yield_share(payout, records[y].share_bps) \in Nat
      OBVIOUS
    <3>1. times[y] \in Nat
      BY <2>2, TimesPaidType
    <3>2. calculate_yield_share(payout, records[y].share_bps) \in Nat
      BY <2>1, RecordType, YieldShareBounds
    <3>. HIDE DEF times, payout
    <3>. QED  BY <3>1, <3>2, ProductType
  <2>4. /\ Total(paid, YieldAssets) <= payout
        /\ payout <= available
    BY <1>7 DEF keeper_distribute_payout
  <2>5. Income(payout, paid) \in [Wallets -> Nat]
    <3>. HIDE DEF paid, payout
    <3>. QED  BY <2>1, <2>3, <2>4, IncomeType
  <2>6. funds' \in [Monies -> [FundAccounts -> Nat]]
    <3>1. funds' = [funds EXCEPT ![money] =
                      [a \in FundAccounts |->
                         CASE a = "vault_payout" -> available - payout
                           [] a \in Wallets -> funds[money][a] + Income(payout, paid)[a]
                           [] OTHER -> funds[money][a]]]
      BY <1>7 DEF keeper_distribute_payout
    <3>2. available - payout \in Nat
      <4>. HIDE DEF available, payout
      <4>. QED  BY <2>1, <2>4
    <3>3. \A a \in Wallets : funds[money][a] + Income(payout, paid)[a] \in Nat
      BY <2>1, <2>5 DEF FundAccounts
    <3>. HIDE DEF available, payout, paid
    <3>4. [a \in FundAccounts |->
             CASE a = "vault_payout" -> available - payout
               [] a \in Wallets -> funds[money][a] + Income(payout, paid)[a]
               [] OTHER -> funds[money][a]] \in [FundAccounts -> Nat]
      BY <2>1, <3>2, <3>3 DEF FundAccounts
    <3>. QED  BY <3>1, <3>4 DEF TypeOK
  <2>7. records' \in [YieldAssets -> YieldRecord]
    <3>1. \A y \in YieldAssets :
            records[y].payouts_received_count + TimesPaid(records[y], listed[y]) <= U32_MAX
      BY <1>7 DEF keeper_distribute_payout
    <3>2. records' = after
      BY <1>7 DEF keeper_distribute_payout
    <3>. QED  BY <2>2, <3>1, <3>2, AfterTriplesType
  <2>8. Total(shares, Reverted(after)) \in Nat
    <3>1. IsFiniteSet(Reverted(after))
      BY AddressAssumption, FS_Subset DEF Reverted
    <3>2. \A y \in Reverted(after) : shares[y] \in Nat
      BY RecordType DEF Reverted
    <3>. QED  BY <3>1, <3>2, TotalType
  <2>9. vault' \in Vault
    <3>1. vault' = [vault EXCEPT !.total_yield_allocated_bps =
                                   saturating_sub(@, Total(shares, Reverted(after)))]
      BY <1>7 DEF keeper_distribute_payout
    <3>. HIDE DEF shares, after
    <3>. QED  BY <2>8, <3>1, MAX_YIELD_BPSAssumption DEF saturating_sub, TypeOK, Vault
  <2>. QED  BY <1>7, <2>6, <2>7, <2>9 DEF keeper_distribute_payout, TypeOK
<1>8. CASE Tick
  BY <1>8 DEF Tick, TypeOK
<1>9. ASSUME NEW m \in MultiplierChoices, NEW t \in {0} \cup (clock + 1 .. MAX_TIME),
             update_multiplier(m, t)
      PROVE  TypeOK'
  <2>1. m \in Nat /\ t \in Nat
    BY ChoiceAssumption, LimitAssumption DEF TypeOK
  <2>. QED  BY <1>9, <2>1 DEF update_multiplier, TypeOK, ScaledUiAmountConfig
<1>10. ASSUME NEW a \in Assets, NEW w \in Wallets, transfer_asset(a, w)
       PROVE  TypeOK'
  BY <1>10 DEF transfer_asset, TypeOK
<1>11. ASSUME NEW a \in Assets, burn_asset(a)
       PROVE  TypeOK'
  BY <1>11 DEF burn_asset, TypeOK
<1>12. CASE create_stock_vault_ata
  BY <1>12 DEF create_stock_vault_ata, TypeOK
<1>13. ASSUME NEW w \in Wallets, NEW n \in 1 .. stock[w], send_stock(w, n)
       PROVE  TypeOK'
  <2>1. stock \in [StockAccounts -> Nat] /\ w \in StockAccounts
    BY DEF TypeOK, StockAccounts
  <2>2. "stock_vault_ata" \in StockAccounts /\ n \in Nat /\ n <= stock[w]
    BY <1>13 DEF send_stock, StockAccounts
  <2>3. stock' = Transfer(stock, w, "stock_vault_ata", n)
    BY <1>13 DEF send_stock
  <2>4. stock' \in [StockAccounts -> Nat]
    BY <2>1, <2>2, <2>3, TransferType
  <2>. QED  BY <1>13, <2>4 DEF send_stock, TypeOK
<1>14. ASSUME NEW money \in Monies, NEW w \in Wallets, NEW n \in 1 .. funds[money][w],
              send_funds(money, w, n)
       PROVE  TypeOK'
  <2>1. Transfer(funds[money], w, "vault_payout", n) \in [FundAccounts -> Nat]
    <3>1. funds[money] \in [FundAccounts -> Nat] /\ w \in FundAccounts
      BY DEF TypeOK, FundAccounts
    <3>2. "vault_payout" \in FundAccounts /\ n \in Nat /\ n <= funds[money][w]
      BY <1>14 DEF send_funds, FundAccounts
    <3>. QED  BY <3>1, <3>2, TransferType
  <2>2. funds' \in [Monies -> [FundAccounts -> Nat]]
    BY <1>14, <2>1 DEF send_funds, TypeOK
  <2>. QED  BY <1>14, <2>2 DEF send_funds, TypeOK
<1>15. CASE UNCHANGED vars
  BY <1>15 DEF vars, TypeOK
<1>. QED
  BY <1>1, <1>2, <1>3, <1>4, <1>5, <1>6, <1>7, <1>8, <1>9, <1>10, <1>11, <1>12, <1>13, <1>14,
     <1>15
  DEF Next, OwnerStep, KeeperStep, Swap, Distribute, EnvironmentStep

(* Every account keeps the type of its Rust struct: no instruction of anybody
   makes a balance negative or a counter larger than its field. *)
THEOREM TypeCorrect ==
  Spec => []TypeOK
BY StartTypes, StepTypes, PTL DEF Spec
=============================================================================
