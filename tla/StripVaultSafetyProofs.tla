----------------------- MODULE StripVaultSafetyProofs -----------------------
(***************************************************************************)
(* Proofs of the safety invariants of StripVault for every value of the    *)
(* constants.  None of them is inductive alone: their conjunction IInv is. *)
(***************************************************************************)
EXTENDS StripVaultProofs

-----------------------------------------------------------------------------
(* What the steps of everybody but the program leave alone.                *)

LEMMA EnvironmentLeaves ==
  ASSUME TypeOK, EnvironmentStep \/ UNCHANGED vars
  PROVE  /\ vault' = vault /\ records' = records /\ principal' = principal
         /\ \A y \in YieldAssets : nft[y] # "unminted" => nft'[y] # "unminted"
         /\ stock'["stock_vault_ata"] >= stock["stock_vault_ata"]
         /\ stock'["pending_distribution_ata"] = stock["pending_distribution_ata"]
         /\ ata_exists => ata_exists'
         /\ ~ata_exists' => stock' = stock
<1>. DEFINE Left ==
       /\ vault' = vault /\ records' = records /\ principal' = principal
       /\ \A y \in YieldAssets : nft[y] # "unminted" => nft'[y] # "unminted"
       /\ stock'["stock_vault_ata"] >= stock["stock_vault_ata"]
       /\ stock'["pending_distribution_ata"] = stock["pending_distribution_ata"]
       /\ ata_exists => ata_exists'
       /\ ~ata_exists' => stock' = stock
<1>1. stock \in [StockAccounts -> Nat] /\ stock["stock_vault_ata"] \in Nat
  BY DEF TypeOK, StockAccounts
<1>2. CASE stock' = stock /\ nft' = nft /\ vault' = vault /\ records' = records
           /\ principal' = principal /\ (ata_exists => ata_exists')
  BY <1>1, <1>2
<1>3. ASSUME NEW a \in Assets, NEW to \in Wallets \cup {"burned"},
             nft' = [nft EXCEPT ![a] = to],
             UNCHANGED <<vault, records, stock, ata_exists, principal>>
      PROVE  Left
  <2>1. to # "unminted"
    BY AddressAssumption
  <2>. QED  BY <1>1, <1>3, <2>1 DEF TypeOK, Assets
<1>4. ASSUME NEW w \in Wallets, NEW n \in 1 .. stock[w], send_stock(w, n)
      PROVE  Left
  <2>1. w \in StockAccounts /\ w # "stock_vault_ata" /\ w # "pending_distribution_ata"
        /\ "stock_vault_ata" \in StockAccounts /\ "pending_distribution_ata" \in StockAccounts
    BY AddressAssumption DEF StockAccounts
  <2>2. n \in Nat /\ stock' = Transfer(stock, w, "stock_vault_ata", n)
    BY <1>4 DEF send_stock
  <2>3. /\ stock'["stock_vault_ata"] = stock["stock_vault_ata"] + n
        /\ stock'["pending_distribution_ata"] = stock["pending_distribution_ata"]
    BY <1>1, <2>1, <2>2, TransferMoves
  <2>. QED  BY <1>1, <1>4, <2>2, <2>3 DEF send_stock
<1>. QED
  BY <1>2, <1>3, <1>4
  DEF EnvironmentStep, vars, Tick, update_multiplier, transfer_asset, burn_asset,
      create_stock_vault_ata, send_funds

-----------------------------------------------------------------------------
(* The allocation.                                                         *)

(* The shares of any set of positions can be summed. *)
LEMMA SharesSummable ==
  ASSUME TypeOK
  PROVE  /\ IsFiniteSet(Active)
         /\ \A y \in YieldAssets : Shares[y] \in Nat
         /\ Total(Shares, Active) \in Nat
<1>1. IsFiniteSet(Active)
  BY AddressAssumption, FS_Subset DEF Active
<1>2. \A y \in YieldAssets : Shares[y] \in Nat
  BY RecordType DEF Shares
<1>. QED  BY <1>1, <1>2, TotalType DEF Active

(* The same positions with the same shares add up to the same allocation. *)
LEMMA AllocationFrame ==
  ASSUME AllocationExact, records' = records,
         vault'.total_yield_allocated_bps = vault.total_yield_allocated_bps,
         \A y \in YieldAssets : nft[y] # "unminted" => nft'[y] # "unminted"
  PROVE  AllocationExact'
BY DEF AllocationExact, Active, Shares

(* A new position has an address that no active position has. *)
LEMMA StripAllocates ==
  ASSUME TypeOK, TypeOK', AllocationExact,
         NEW w \in Wallets, NEW r \in Wallets, NEW y \in YieldAssets, NEW share \in ShareChoices,
         NEW expiry \in ExpiryChoices, NEW price \in PriceChoices,
         owner_strip_position(w, y, r, share, expiry, price)
  PROVE  AllocationExact'
<1>1. share \in Nat /\ share > 0 /\ r # "unminted"
  BY ChoiceAssumption, AddressAssumption DEF owner_strip_position
<1>2. y \notin Active
  BY DEF AllocationExact, owner_strip_position
<1>3. /\ records'[y].share_bps = share /\ records'[y].is_active
      /\ \A z \in YieldAssets \ {y} : records'[z] = records[z]
  BY DEF owner_strip_position, TypeOK
<1>4. Active' = Active \cup {y}
  BY <1>3 DEF Active
<1>5. Shares'[y] = share /\ \A z \in Active : Shares'[z] = Shares[z]
  BY <1>2, <1>3 DEF Shares, Active
<1>6. Total(Shares', Active') = Total(Shares, Active) + share
  <2>1. Total(Shares', Active) = Total(Shares, Active)
    BY <1>5, TotalSame
  <2>2. \A z \in Active \cup {y} : Shares'[z] \in Nat
    BY <1>1, <1>5, SharesSummable DEF Active
  <2>3. Total(Shares', Active \cup {y}) = Total(Shares', Active) + Shares'[y]
    BY <1>2, <2>2, SharesSummable, TotalAdd
  <2>. QED  BY <1>4, <1>5, <2>1, <2>3
<1>7. vault'.total_yield_allocated_bps = vault.total_yield_allocated_bps + share
  BY DEF owner_strip_position, TypeOK, Vault
<1>8. \A z \in Active' : Shares'[z] > 0 /\ nft'[z] # "unminted"
  <2>1. nft'[y] = r /\ \A z \in YieldAssets \ {y} : nft'[z] = nft[z]
    BY DEF owner_strip_position, TypeOK, Assets
  <2>. QED  BY <1>1, <1>4, <1>5, <2>1 DEF AllocationExact, Active
<1>. QED  BY <1>6, <1>7, <1>8 DEF AllocationExact

(* Ending active positions and giving their shares back keeps the sum, and
   saturating_sub never has anything to hide. *)
LEMMA EndingReleases ==
  ASSUME TypeOK, AllocationExact, NEW ended \in SUBSET Active,
         Active' = Active \ ended,
         \A y \in YieldAssets : Shares'[y] = Shares[y],
         \A y \in YieldAssets : nft[y] # "unminted" => nft'[y] # "unminted",
         vault'.total_yield_allocated_bps =
           saturating_sub(vault.total_yield_allocated_bps, Total(Shares, ended))
  PROVE  AllocationExact'
<1>1. /\ Total(Shares, Active) = Total(Shares, Active \ ended) + Total(Shares, ended)
      /\ Total(Shares, Active \ ended) \in Nat
      /\ Total(Shares, ended) \in Nat
  BY SharesSummable, TotalWithout DEF Active
<1>2. Total(Shares', Active') = Total(Shares, Active \ ended)
  <2>1. \A y \in Active \ ended : Shares'[y] = Shares[y]
    BY DEF Active
  <2>. QED  BY <2>1, TotalSame
<1>3. vault'.total_yield_allocated_bps = Total(Shares, Active \ ended)
  BY <1>1 DEF saturating_sub, AllocationExact
<1>4. \A y \in Active' : Shares'[y] > 0 /\ nft'[y] # "unminted"
  BY DEF AllocationExact, Active
<1>. QED  BY <1>2, <1>3, <1>4 DEF AllocationExact

(* The triples of a distribution: how each record is paid and what it is
   afterwards. *)
LEMMA DistributionLeaves ==
  ASSUME TypeOK, NEW money, NEW amount, NEW listed \in Listings,
         keeper_distribute_payout(money, amount, listed), NEW y \in YieldAssets
  PROVE  /\ listed[y] \in Nat
         /\ records'[y] = AfterTriples(records[y], listed[y])
         /\ records'[y] \in YieldRecord
         /\ records'[y].share_bps = records[y].share_bps
         /\ records'[y].expiry_condition = records[y].expiry_condition
         /\ records'[y].payouts_received_count
              = records[y].payouts_received_count + TimesPaid(records[y], listed[y])
         /\ records'[y].is_active => records[y].is_active
<1>1. listed[y] \in Nat
  BY LimitAssumption DEF Listings
<1>2. records[y].payouts_received_count + TimesPaid(records[y], listed[y]) <= U32_MAX
  BY DEF keeper_distribute_payout
<1>3. records'[y] = AfterTriples(records[y], listed[y])
  BY DEF keeper_distribute_payout
<1>. QED  BY <1>1, <1>2, <1>3, AfterTriplesType

LEMMA DistributionReleases ==
  ASSUME TypeOK, AllocationExact, NEW money, NEW amount, NEW listed \in Listings,
         keeper_distribute_payout(money, amount, listed)
  PROVE  AllocationExact'
<1>. DEFINE after == [y \in YieldAssets |-> AfterTriples(records[y], listed[y])]
            shares == [y \in YieldAssets |-> records[y].share_bps]
<1>1. Reverted(after) \in SUBSET Active /\ Active' = Active \ Reverted(after)
  <2>1. \A y \in YieldAssets : records'[y] = after[y]
    BY DistributionLeaves
  <2>. QED  BY <2>1, DistributionLeaves DEF Reverted, Active
<1>2. \A y \in YieldAssets : Shares'[y] = Shares[y]
  BY DistributionLeaves DEF Shares
<1>3. vault'.total_yield_allocated_bps =
        saturating_sub(vault.total_yield_allocated_bps, Total(Shares, Reverted(after)))
  <2>1. vault' = [vault EXCEPT !.total_yield_allocated_bps =
                                 saturating_sub(@, Total(shares, Reverted(after)))]
    BY DEF keeper_distribute_payout
  <2>2. shares = Shares
    BY DEF Shares
  <2>. HIDE DEF shares, after
  <2>. QED  BY <2>1, <2>2 DEF TypeOK, Vault
<1>4. nft' = nft
  BY DEF keeper_distribute_payout
<1>. QED  BY <1>1, <1>2, <1>3, <1>4, EndingReleases

(* A buyout ends the one position whose NFT it burns. *)
LEMMA BuyoutReleases ==
  ASSUME TypeOK, AllocationExact, NEW w \in Wallets, NEW y \in YieldAssets,
         owner_buyout_yield(w, y)
  PROVE  AllocationExact'
<1>1. y \in Active
  BY DEF owner_buyout_yield, Active
<1>2. records' = [records EXCEPT ![y].is_active = FALSE]
  BY DEF owner_buyout_yield
<1>3. Active' = Active \ {y}
  BY <1>2 DEF Active, TypeOK, YieldRecord
<1>4. \A z \in YieldAssets : Shares'[z] = Shares[z]
  BY <1>2 DEF Shares, TypeOK, YieldRecord
<1>5. Total(Shares, {y}) = records[y].share_bps
  BY SharesSummable, TotalOne DEF Shares
<1>6. vault'.total_yield_allocated_bps =
        saturating_sub(vault.total_yield_allocated_bps, Total(Shares, {y}))
  BY <1>5 DEF owner_buyout_yield, TypeOK, Vault
<1>7. \A z \in YieldAssets : nft[z] # "unminted" => nft'[z] # "unminted"
  BY DEF owner_buyout_yield, TypeOK, Assets
<1>. QED  BY <1>1, <1>3, <1>4, <1>6, <1>7, EndingReleases

(* With nothing allocated no position is active. *)
LEMMA NothingAllocated ==
  ASSUME TypeOK, AllocationExact, vault.total_yield_allocated_bps = 0
  PROVE  Active = {}
<1>1. \A y \in Active : Shares[y] = 0
  BY SharesSummable, TotalZero DEF AllocationExact, Active
<1>. QED  BY <1>1 DEF AllocationExact

LEMMA AllocationStep ==
  IInv /\ [Next]_vars => AllocationExact'
<1>. SUFFICES ASSUME IInv, [Next]_vars
              PROVE  AllocationExact'
  OBVIOUS
<1>. USE DEF IInv
<1>1. TypeOK'
  BY StepTypes
<1>2. ASSUME NEW w \in Wallets, NEW kind \in PayoutAssetTypes, NEW holding \in HoldingChoices,
             NEW deed \in DeedAssets, NEW amount,
             creator_initialize_vault(w, amount, kind, holding, deed)
      PROVE  AllocationExact'
  <2>1. ~vault.open
    BY <1>2 DEF creator_initialize_vault
  <2>2. vault.total_yield_allocated_bps = 0
    BY <2>1 DEF ClosedMeansUnwound, NoVault
  <2>3. \A y \in YieldAssets : nft'[y] = nft[y]
    BY <1>2, AddressAssumption DEF creator_initialize_vault, TypeOK, Assets
  <2>4. records' = records /\ vault'.total_yield_allocated_bps = 0
    BY <1>2 DEF creator_initialize_vault
  <2>. QED  BY <2>2, <2>3, <2>4, AllocationFrame
<1>3. ASSUME NEW w \in Wallets, NEW r \in Wallets, NEW y \in YieldAssets,
             NEW share \in ShareChoices, NEW expiry \in ExpiryChoices, NEW price \in PriceChoices,
             owner_strip_position(w, y, r, share, expiry, price)
      PROVE  AllocationExact'
  BY <1>1, <1>3, StripAllocates
<1>4. ASSUME NEW w \in Wallets, NEW y \in YieldAssets, owner_buyout_yield(w, y)
      PROVE  AllocationExact'
  BY <1>4, BuyoutReleases
<1>5. ASSUME NEW w \in Wallets, owner_redeem_principal(w)
      PROVE  AllocationExact'
  <2>1. records' = records /\ vault.total_yield_allocated_bps = 0
        /\ vault'.total_yield_allocated_bps = 0
    BY <1>5 DEF owner_redeem_principal, AllUnwound, NoVault
  <2>2. \A y \in YieldAssets : nft[y] # "unminted" => nft'[y] # "unminted"
    BY <1>5 DEF owner_redeem_principal, TypeOK, Assets
  <2>. QED  BY <2>1, <2>2, AllocationFrame
<1>6. CASE keeper_harvest_dividend
  <2>1. vault'.total_yield_allocated_bps = vault.total_yield_allocated_bps
    BY <1>6 DEF keeper_harvest_dividend, TypeOK, Vault
  <2>2. records' = records /\ nft' = nft
    BY <1>6 DEF keeper_harvest_dividend
  <2>. QED  BY <2>1, <2>2, AllocationFrame
<1>7. ASSUME NEW rate, NEW money, NEW destination, keeper_execute_swap(rate, money, destination)
      PROVE  AllocationExact'
  <2>1. vault'.total_yield_allocated_bps = vault.total_yield_allocated_bps
    BY <1>7 DEF keeper_execute_swap, VaultAfterSwap, TypeOK, Vault
  <2>2. records' = records /\ nft' = nft
    BY <1>7 DEF keeper_execute_swap
  <2>. QED  BY <2>1, <2>2, AllocationFrame
<1>8. ASSUME NEW money, NEW amount, NEW listed \in Listings,
             keeper_distribute_payout(money, amount, listed)
      PROVE  AllocationExact'
  BY <1>8, DistributionReleases
<1>9. CASE EnvironmentStep \/ UNCHANGED vars
  BY <1>9, EnvironmentLeaves, AllocationFrame
<1>. QED
  BY <1>2, <1>3, <1>4, <1>5, <1>6, <1>7, <1>8, <1>9
  DEF Next, OwnerStep, KeeperStep, Swap, Distribute

-----------------------------------------------------------------------------
(* Custody.                                                                *)

(* The accounts of the program are nobody's wallet. *)
LEMMA ProgramAccounts ==
  ASSUME TypeOK
  PROVE  /\ stock \in [StockAccounts -> Nat]
         /\ Wallets \subseteq StockAccounts
         /\ "stock_vault_ata" \in StockAccounts \ Wallets
         /\ "pending_distribution_ata" \in StockAccounts \ Wallets
         /\ "swap_reserve_stock_ata" \in StockAccounts \ Wallets
         /\ stock["stock_vault_ata"] \in Nat
         /\ stock["pending_distribution_ata"] \in Nat
BY AddressAssumption DEF TypeOK, StockAccounts

(* What a harvest moves, and what it leaves. *)
LEMMA HarvestMoves ==
  ASSUME TypeOK, keeper_harvest_dividend
  PROVE  /\ vault'.total_raw_shares = stock'["stock_vault_ata"]
         /\ stock'["stock_vault_ata"] \in Nat
         /\ stock'["stock_vault_ata"] * vault'.last_multiplier
              >= stock["stock_vault_ata"] * vault.last_multiplier
         /\ vault'.last_multiplier \in Nat
         /\ stock'["pending_distribution_ata"] - stock["pending_distribution_ata"]
              = vault'.pending_harvest_amount - vault.pending_harvest_amount
         /\ stock'["pending_distribution_ata"] \in Nat
         /\ vault'.pending_harvest_amount \in Nat
         /\ vault'.open
<1>. DEFINE active == f64_to_fixed_multiplier(get_effective_multiplier)
            balance == stock["stock_vault_ata"]
            harvest == calculate_harvest_amount(balance, vault.last_multiplier, active)
<1>1. balance \in Nat /\ active \in Nat /\ vault.last_multiplier \in Nat
  BY EffectiveType, VaultType, ProgramAccounts
<1>2. /\ HarvestDefined(vault.last_multiplier, active)
      /\ vault.open
      /\ stock' = Transfer(stock, "stock_vault_ata", "pending_distribution_ata", harvest)
      /\ vault' = [vault EXCEPT !.last_multiplier = active,
                                !.pending_harvest_amount = @ + harvest,
                                !.total_raw_shares = balance - harvest]
  BY DEF keeper_harvest_dividend
<1>3. /\ harvest \in Nat
      /\ harvest <= balance
      /\ (balance - harvest) * active >= balance * vault.last_multiplier
  BY <1>1, <1>2, HarvestDilutesNothing
<1>. HIDE DEF active, harvest
<1>4. /\ stock'["stock_vault_ata"] = stock["stock_vault_ata"] - harvest
      /\ stock'["pending_distribution_ata"] = stock["pending_distribution_ata"] + harvest
  BY <1>2, <1>3, ProgramAccounts, TransferMoves
<1>5. /\ vault'.last_multiplier = active
      /\ vault'.pending_harvest_amount = vault.pending_harvest_amount + harvest
      /\ vault'.total_raw_shares = balance - harvest
      /\ vault'.open
  <2>. HIDE DEF balance
  <2>. QED  BY <1>2 DEF TypeOK, Vault
<1>. QED  BY <1>1, <1>3, <1>4, <1>5, ProgramAccounts, VaultType

LEMMA CustodyStep ==
  IInv /\ [Next]_vars => CustodyCovered'
<1>. SUFFICES ASSUME IInv, [Next]_vars
              PROVE  CustodyCovered'
  OBVIOUS
<1>. USE DEF IInv
<1>1. ASSUME NEW w \in Wallets, NEW kind \in PayoutAssetTypes, NEW holding \in HoldingChoices,
             NEW deed \in DeedAssets, NEW amount \in 1 .. stock[w],
             creator_initialize_vault(w, amount, kind, holding, deed)
      PROVE  CustodyCovered'
  <2>1. /\ amount \in Nat /\ w \in StockAccounts
        /\ w # "stock_vault_ata" /\ w # "pending_distribution_ata"
        /\ "stock_vault_ata" \in StockAccounts /\ "pending_distribution_ata" \in StockAccounts
        /\ stock \in [StockAccounts -> Nat]
    BY ProgramAccounts
  <2>2. stock' = Transfer(stock, w, "stock_vault_ata", amount)
    BY <1>1 DEF creator_initialize_vault
  <2>3. /\ stock'["stock_vault_ata"] = stock["stock_vault_ata"] + amount
        /\ stock'["pending_distribution_ata"] = stock["pending_distribution_ata"]
    BY <2>1, <2>2, TransferMoves
  <2>4. vault'.total_raw_shares = amount /\ vault'.pending_harvest_amount = 0
    BY <1>1 DEF creator_initialize_vault
  <2>. QED  BY <2>1, <2>3, <2>4, ProgramAccounts DEF CustodyCovered
<1>2. ASSUME NEW w \in Wallets, owner_redeem_principal(w)
      PROVE  CustodyCovered'
  BY <1>2 DEF owner_redeem_principal, NoVault, CustodyCovered
<1>3. CASE keeper_harvest_dividend
  BY <1>3, HarvestMoves, ProgramAccounts, VaultType DEF CustodyCovered, keeper_harvest_dividend
<1>4. ASSUME NEW rate \in CustomRates \cup {None}, NEW money, NEW destination,
             keeper_execute_swap(rate, money, destination)
      PROVE  CustodyCovered'
  <2>1. /\ vault.pending_harvest_amount \in Nat
        /\ stock["pending_distribution_ata"] >= vault.pending_harvest_amount
        /\ stock' = Transfer(stock, "pending_distribution_ata", "swap_reserve_stock_ata",
                             vault.pending_harvest_amount)
    BY <1>4, VaultType DEF keeper_execute_swap
  <2>2. /\ stock'["stock_vault_ata"] = stock["stock_vault_ata"]
        /\ stock'["pending_distribution_ata"] \in Nat
    BY <2>1, ProgramAccounts, TransferMoves
  <2>3. /\ vault'.pending_harvest_amount = 0
        /\ vault'.total_raw_shares = vault.total_raw_shares
        /\ vault.open
    BY <1>4 DEF keeper_execute_swap, VaultAfterSwap, TypeOK, Vault
  <2>. QED  BY <2>2, <2>3 DEF CustodyCovered
<1>5. ASSUME UNCHANGED stock, vault'.open => vault.open,
             vault'.total_raw_shares = vault.total_raw_shares,
             vault'.pending_harvest_amount = vault.pending_harvest_amount
      PROVE  CustodyCovered'
  BY <1>5 DEF CustodyCovered
<1>6. ASSUME NEW w \in Wallets, NEW r \in Wallets, NEW y \in YieldAssets,
             NEW share \in ShareChoices, NEW expiry \in ExpiryChoices, NEW price \in PriceChoices,
             owner_strip_position(w, y, r, share, expiry, price)
      PROVE  CustodyCovered'
  BY <1>6, <1>5 DEF owner_strip_position, TypeOK, Vault
<1>7. ASSUME NEW w \in Wallets, NEW y \in YieldAssets, owner_buyout_yield(w, y)
      PROVE  CustodyCovered'
  BY <1>7, <1>5 DEF owner_buyout_yield, TypeOK, Vault
<1>8. ASSUME NEW money, NEW amount, NEW listed \in Listings,
             keeper_distribute_payout(money, amount, listed)
      PROVE  CustodyCovered'
  BY <1>8, <1>5 DEF keeper_distribute_payout, TypeOK, Vault
<1>9. CASE EnvironmentStep \/ UNCHANGED vars
  <2>1. /\ vault' = vault
        /\ stock'["stock_vault_ata"] >= stock["stock_vault_ata"]
        /\ stock'["pending_distribution_ata"] = stock["pending_distribution_ata"]
    BY <1>9, EnvironmentLeaves
  <2>2. stock'["stock_vault_ata"] \in Nat
    BY StepTypes DEF TypeOK, StockAccounts
  <2>. QED  BY <2>1, <2>2, ProgramAccounts, VaultType DEF CustodyCovered
<1>. QED
  BY <1>1, <1>2, <1>3, <1>4, <1>6, <1>7, <1>8, <1>9
  DEF Next, OwnerStep, KeeperStep, Swap, Distribute

-----------------------------------------------------------------------------
(* The principal.                                                          *)

(* A harvest leaves what keeps the value of the deposit: the vault counts no
   share that is not in its token account, and the harvest is priced on all
   the shares that are. *)
LEMMA HarvestPreserves ==
  ASSUME TypeOK, CustodyCovered, PrincipalPreserved, keeper_harvest_dividend
  PROVE  PrincipalPreserved'
<1>1. vault.open /\ principal' = principal
  BY DEF keeper_harvest_dividend
<1>2. /\ vault.total_raw_shares \in Nat /\ vault.last_multiplier \in Nat
      /\ stock["stock_vault_ata"] \in Nat /\ principal \in Nat
  BY ProgramAccounts, VaultType DEF TypeOK
<1>3. vault.total_raw_shares * vault.last_multiplier
        <= stock["stock_vault_ata"] * vault.last_multiplier
  BY <1>1, <1>2, ProductMonotone DEF CustodyCovered
<1>4. /\ vault'.total_raw_shares * vault'.last_multiplier
           >= stock["stock_vault_ata"] * vault.last_multiplier
      /\ vault'.total_raw_shares \in Nat /\ vault'.last_multiplier \in Nat
  BY HarvestMoves
<1>5. /\ vault.total_raw_shares * vault.last_multiplier \in Nat
      /\ stock["stock_vault_ata"] * vault.last_multiplier \in Nat
      /\ vault'.total_raw_shares * vault'.last_multiplier \in Nat
  BY <1>2, <1>4, ProductType
<1>6. principal <= vault.total_raw_shares * vault.last_multiplier
  BY DEF PrincipalPreserved
<1>7. principal <= vault'.total_raw_shares * vault'.last_multiplier
  BY <1>2, <1>3, <1>4, <1>5, <1>6
<1>. QED  BY <1>1, <1>7 DEF PrincipalPreserved

LEMMA PrincipalStep ==
  IInv /\ [Next]_vars => PrincipalPreserved'
<1>. SUFFICES ASSUME IInv, [Next]_vars
              PROVE  PrincipalPreserved'
  OBVIOUS
<1>. USE DEF IInv
<1>1. ASSUME NEW w \in Wallets, NEW kind \in PayoutAssetTypes, NEW holding \in HoldingChoices,
             NEW deed \in DeedAssets, NEW amount \in 1 .. stock[w],
             creator_initialize_vault(w, amount, kind, holding, deed)
      PROVE  PrincipalPreserved'
  <2>. DEFINE initial == f64_to_fixed_multiplier(get_effective_multiplier)
  <2>1. /\ principal' = amount * initial
        /\ vault'.total_raw_shares = amount /\ vault'.last_multiplier = initial
    BY <1>1 DEF creator_initialize_vault
  <2>2. amount \in Nat /\ initial \in Nat
    BY EffectiveType
  <2>. HIDE DEF initial
  <2>3. amount * initial <= amount * initial
    BY <2>2, ProductType
  <2>. QED  BY <2>1, <2>3 DEF PrincipalPreserved
<1>2. ASSUME NEW w \in Wallets, owner_redeem_principal(w)
      PROVE  PrincipalPreserved'
  BY <1>2 DEF owner_redeem_principal, NoVault, PrincipalPreserved
<1>3. CASE keeper_harvest_dividend
  BY <1>3, HarvestPreserves
<1>4. ASSUME principal' = principal, vault'.total_raw_shares = vault.total_raw_shares,
             vault'.last_multiplier = vault.last_multiplier
      PROVE  PrincipalPreserved'
  BY <1>4 DEF PrincipalPreserved
<1>5. ASSUME NEW rate, NEW money, NEW destination, keeper_execute_swap(rate, money, destination)
      PROVE  PrincipalPreserved'
  BY <1>4, <1>5 DEF keeper_execute_swap, VaultAfterSwap, TypeOK, Vault
<1>6. ASSUME NEW w \in Wallets, NEW r \in Wallets, NEW y \in YieldAssets,
             NEW share \in ShareChoices, NEW expiry \in ExpiryChoices, NEW price \in PriceChoices,
             owner_strip_position(w, y, r, share, expiry, price)
      PROVE  PrincipalPreserved'
  BY <1>4, <1>6 DEF owner_strip_position, TypeOK, Vault
<1>7. ASSUME NEW w \in Wallets, NEW y \in YieldAssets, owner_buyout_yield(w, y)
      PROVE  PrincipalPreserved'
  BY <1>4, <1>7 DEF owner_buyout_yield, TypeOK, Vault
<1>8. ASSUME NEW money, NEW amount, NEW listed \in Listings,
             keeper_distribute_payout(money, amount, listed)
      PROVE  PrincipalPreserved'
  BY <1>4, <1>8 DEF keeper_distribute_payout, TypeOK, Vault
<1>9. CASE EnvironmentStep \/ UNCHANGED vars
  <2>1. vault' = vault /\ principal' = principal
    BY <1>9, EnvironmentLeaves
  <2>. QED  BY <1>4, <2>1
<1>. QED
  BY <1>1, <1>2, <1>3, <1>5, <1>6, <1>7, <1>8, <1>9
  DEF Next, OwnerStep, KeeperStep, Swap, Distribute

-----------------------------------------------------------------------------
(* The counts.                                                             *)

(* What CountsWithinTerms says of one record. *)
WithinTerms(record) ==
  record.expiry_condition.kind = "PayoutCount" =>
    /\ record.payouts_received_count <= record.expiry_condition.limit
    /\ record.is_active /\ record.expiry_condition.limit > 0 =>
         record.payouts_received_count < record.expiry_condition.limit

(* However often a distribution names a record, its count stays in its terms,
   and a record that reaches its count is not left active. *)
LEMMA TriplesStayWithin ==
  ASSUME TypeOK, NEW money, NEW amount, NEW listed \in Listings,
         keeper_distribute_payout(money, amount, listed), NEW y \in YieldAssets,
         WithinTerms(records[y])
  PROVE  WithinTerms(records'[y])
<1>. DEFINE n == listed[y]
            paid == TimesPaid(records[y], n)
            limit == records[y].expiry_condition.limit
            count == records[y].payouts_received_count
<1>1. /\ n \in Nat
      /\ records'[y] = AfterTriples(records[y], n)
      /\ records'[y].expiry_condition = records[y].expiry_condition
      /\ records'[y].payouts_received_count = count + paid
      /\ records'[y].is_active => records[y].is_active
  BY DistributionLeaves
<1>2. count \in Nat /\ limit \in Nat
  BY RecordType, LimitAssumption
<1>3. /\ paid \in Nat /\ paid <= n
      /\ records[y].expiry_condition.kind = "PayoutCount" /\ paid > 0 => count + paid <= limit
  BY <1>1, TimesPaidType
<1>4. records'[y].is_active /\ n > 0 =>
        ~is_expired([records[y] EXCEPT !.payouts_received_count = count + paid], clock)
  BY <1>1, RecordType DEF AfterTriples, YieldRecord
<1>5. records'[y].is_active /\ n > 0 /\ records[y].expiry_condition.kind = "PayoutCount" =>
        count + paid < limit
  <2>. DEFINE counted == [records[y] EXCEPT !.payouts_received_count = count + paid]
  <2>1. /\ counted.expiry_condition = records[y].expiry_condition
        /\ counted.payouts_received_count = count + paid
    BY RecordType DEF YieldRecord
  <2>. HIDE DEF counted, count, paid
  <2>. QED  BY <1>2, <1>3, <1>4, <2>1 DEF is_expired, counted
<1>. HIDE DEF n, paid, limit, count
<1>6. CASE paid = 0
  <2>1. n = 0 \/ n > 0
    BY <1>1
  <2>. QED  BY <1>1, <1>2, <1>5, <1>6, <2>1 DEF WithinTerms, limit, count
<1>7. CASE paid > 0
  <2>1. n > 0
    BY <1>1, <1>3, <1>7
  <2>. QED  BY <1>1, <1>2, <1>3, <1>5, <1>7, <2>1 DEF WithinTerms, limit
<1>. QED  BY <1>3, <1>6, <1>7

LEMMA CountsStep ==
  IInv /\ [Next]_vars => CountsWithinTerms'
<1>. SUFFICES ASSUME IInv, [Next]_vars, NEW y \in YieldAssets
              PROVE  WithinTerms(records'[y])
  BY DEF CountsWithinTerms, WithinTerms
<1>. USE DEF IInv
<1>1. WithinTerms(records[y])
  BY DEF CountsWithinTerms, WithinTerms
<1>2. CASE records' = records
  BY <1>1, <1>2
<1>3. ASSUME NEW w \in Wallets, NEW r \in Wallets, NEW z \in YieldAssets,
             NEW share \in ShareChoices, NEW expiry \in ExpiryChoices, NEW price \in PriceChoices,
             owner_strip_position(w, z, r, share, expiry, price)
      PROVE  WithinTerms(records'[y])
  <2>1. CASE y = z
    <3>1. /\ records'[y].payouts_received_count = 0
          /\ records'[y].expiry_condition = expiry
          /\ expiry.limit \in Nat
      BY <1>3, <2>1, ChoiceAssumption DEF owner_strip_position, TypeOK, ExpiryCondition
    <3>. QED  BY <3>1 DEF WithinTerms
  <2>2. CASE y # z
    BY <1>1, <1>3, <2>2 DEF owner_strip_position, TypeOK
  <2>. QED  BY <2>1, <2>2
<1>4. ASSUME NEW w \in Wallets, NEW z \in YieldAssets, owner_buyout_yield(w, z)
      PROVE  WithinTerms(records'[y])
  <2>1. /\ records'[y].payouts_received_count = records[y].payouts_received_count
        /\ records'[y].expiry_condition = records[y].expiry_condition
        /\ records'[y].is_active => records[y].is_active
    BY <1>4 DEF owner_buyout_yield, TypeOK, YieldRecord
  <2>. QED  BY <1>1, <2>1 DEF WithinTerms
<1>5. ASSUME NEW money, NEW amount, NEW listed \in Listings,
             keeper_distribute_payout(money, amount, listed)
      PROVE  WithinTerms(records'[y])
  BY <1>1, <1>5, TriplesStayWithin
<1>6. CASE EnvironmentStep \/ UNCHANGED vars
  BY <1>2, <1>6, EnvironmentLeaves
<1>. QED
  BY <1>2, <1>3, <1>4, <1>5, <1>6
  DEF Next, OwnerStep, KeeperStep, Swap, Distribute, creator_initialize_vault,
      owner_redeem_principal, keeper_harvest_dividend, keeper_execute_swap

-----------------------------------------------------------------------------
(* Closing.                                                                *)

LEMMA ClosedStep ==
  IInv /\ [Next]_vars => ClosedMeansUnwound'
<1>. SUFFICES ASSUME IInv, [Next]_vars
              PROVE  ClosedMeansUnwound'
  OBVIOUS
<1>. USE DEF IInv
<1>1. CASE vault'.open /\ ata_exists'
  BY <1>1 DEF ClosedMeansUnwound
<1>2. ASSUME NEW w \in Wallets, owner_redeem_principal(w)
      PROVE  ClosedMeansUnwound'
  <2>1. Active = {}
    BY <1>2, NothingAllocated DEF owner_redeem_principal, AllUnwound
  <2>2. Active' = Active
    BY <1>2 DEF owner_redeem_principal, Active
  <2>3. /\ w \in StockAccounts /\ "stock_vault_ata" \in StockAccounts /\ w # "stock_vault_ata"
        /\ stock \in [StockAccounts -> Nat] /\ stock["stock_vault_ata"] \in Nat
    BY ProgramAccounts
  <2>4. stock' = Transfer(stock, "stock_vault_ata", w, stock["stock_vault_ata"])
    BY <1>2 DEF owner_redeem_principal
  <2>5. stock'["stock_vault_ata"] = 0
    BY <2>3, <2>4, TransferMoves
  <2>. QED  BY <1>2, <2>1, <2>2, <2>5 DEF owner_redeem_principal, ClosedMeansUnwound, NoVault
<1>3. CASE EnvironmentStep \/ UNCHANGED vars
  BY <1>3, EnvironmentLeaves DEF ClosedMeansUnwound, Active
<1>4. ASSUME vault.open, vault'.open = vault.open, ata_exists' = ata_exists
      PROVE  ClosedMeansUnwound'
  BY <1>1, <1>4 DEF ClosedMeansUnwound
<1>5. ASSUME NEW w \in Wallets, NEW r \in Wallets, NEW y \in YieldAssets,
             NEW share \in ShareChoices, NEW expiry \in ExpiryChoices, NEW price \in PriceChoices,
             owner_strip_position(w, y, r, share, expiry, price)
      PROVE  ClosedMeansUnwound'
  BY <1>4, <1>5 DEF owner_strip_position, HoldsDeed, TypeOK, Vault
<1>6. ASSUME NEW w \in Wallets, NEW y \in YieldAssets, owner_buyout_yield(w, y)
      PROVE  ClosedMeansUnwound'
  BY <1>4, <1>6 DEF owner_buyout_yield, HoldsDeed, TypeOK, Vault
<1>7. ASSUME NEW rate, NEW money, NEW destination, keeper_execute_swap(rate, money, destination)
      PROVE  ClosedMeansUnwound'
  BY <1>4, <1>7 DEF keeper_execute_swap, VaultAfterSwap, TypeOK, Vault
<1>8. ASSUME NEW money, NEW amount, NEW listed,
             keeper_distribute_payout(money, amount, listed)
      PROVE  ClosedMeansUnwound'
  BY <1>4, <1>8 DEF keeper_distribute_payout, HoldsDeed, TypeOK, Vault
<1>9. CASE keeper_harvest_dividend
  <2>1. vault.open /\ vault'.open /\ ata_exists' = ata_exists
    BY <1>9, HarvestMoves DEF keeper_harvest_dividend
  <2>. QED  BY <1>4, <2>1
<1>10. ASSUME NEW w, NEW kind, NEW holding, NEW deed, NEW amount,
              creator_initialize_vault(w, amount, kind, holding, deed)
       PROVE  ClosedMeansUnwound'
  BY <1>1, <1>10 DEF creator_initialize_vault
<1>. QED
  BY <1>2, <1>3, <1>5, <1>6, <1>7, <1>8, <1>9, <1>10
  DEF Next, OwnerStep, KeeperStep, Swap, Distribute

-----------------------------------------------------------------------------
(* The theorems.                                                           *)

LEMMA StartSafe ==
  Init => IInv
<1>. SUFFICES ASSUME Init
              PROVE  IInv
  OBVIOUS
<1>1. \A y \in YieldAssets : records[y] = NoRecord
  BY DEF Init
<1>2. Active = {}
  BY <1>1 DEF Active, NoRecord
<1>3. AllocationExact
  BY <1>2, TotalEmpty DEF Init, NoVault, AllocationExact
<1>4. stock["stock_vault_ata"] = 0
  BY AddressAssumption DEF Init, StockAccounts
<1>5. ClosedMeansUnwound /\ CustodyCovered /\ PrincipalPreserved
  BY <1>2, <1>4 DEF Init, NoVault, ClosedMeansUnwound, CustodyCovered, PrincipalPreserved
<1>6. CountsWithinTerms
  BY <1>1 DEF CountsWithinTerms, NoRecord
<1>. QED  BY <1>3, <1>5, <1>6, StartTypes DEF IInv

LEMMA StepSafe ==
  IInv /\ [Next]_vars => IInv'
BY StepTypes, AllocationStep, ClosedStep, CustodyStep, PrincipalStep, CountsStep DEF IInv

(* The conjunction of the invariants holds always. *)
THEOREM Safe ==
  Spec => []IInv
BY StartSafe, StepSafe, PTL DEF Spec

(* The vault's counter is the sum of the shares of its active positions: no
   saturating_sub of a buyout or of a distribution ever hides a difference. *)
THEOREM AllocationIsExact ==
  Spec => []AllocationExact
<1>1. IInv => AllocationExact
  BY DEF IInv
<1>. QED  BY <1>1, Safe, PTL

(* Redeeming, which looks at the counter alone, leaves no position active and
   no stock in the vault's token account. *)
THEOREM RedeemUnwindsAll ==
  Spec => []ClosedMeansUnwound
<1>1. IInv => ClosedMeansUnwound
  BY DEF IInv
<1>. QED  BY <1>1, Safe, PTL

(* The stock the vault counts is in its accounts, so a harvest and a swap
   never ask a token account for more than it holds. *)
THEOREM CustodyIsCovered ==
  Spec => []CustodyCovered
<1>1. IInv => CustodyCovered
  BY DEF IInv
<1>. QED  BY <1>1, Safe, PTL

(* However many harvests round, the shares left are worth at least the value
   deposited. *)
THEOREM PrincipalIsPreserved ==
  Spec => []PrincipalPreserved
<1>1. IInv => PrincipalPreserved
  BY DEF IInv
<1>. QED  BY <1>1, Safe, PTL

(* No list of triples gets a position a payout beyond its PayoutCount. *)
THEOREM CountsStayWithinTerms ==
  Spec => []CountsWithinTerms
<1>1. IInv => CountsWithinTerms
  BY DEF IInv
<1>. QED  BY <1>1, Safe, PTL

-----------------------------------------------------------------------------
(* How stock leaves the vault.                                             *)

(* The two ways of StockLeavesByRight, as a relation between two states. *)
LeftByHarvest ==
  /\ vault'.open
  /\ stock'["stock_vault_ata"] * vault'.last_multiplier
       >= stock["stock_vault_ata"] * vault.last_multiplier
LeftByRedemption ==
  /\ Active = {}
  /\ \E owner \in Wallets :
       HoldsDeed(owner) /\
       stock' = Transfer(stock, "stock_vault_ata", owner, stock["stock_vault_ata"])

LEMMA StockStep ==
  ASSUME IInv, [Next]_vars, stock'["stock_vault_ata"] < stock["stock_vault_ata"]
  PROVE  LeftByHarvest \/ LeftByRedemption
<1>. USE DEF IInv
<1>1. /\ stock["stock_vault_ata"] \in Nat /\ stock'["stock_vault_ata"] \in Nat
      /\ stock' # stock
  BY ProgramAccounts, StepTypes DEF TypeOK, StockAccounts
<1>2. ASSUME NEW w \in Wallets, NEW kind \in PayoutAssetTypes, NEW holding \in HoldingChoices,
             NEW deed \in DeedAssets, NEW amount \in 1 .. stock[w],
             creator_initialize_vault(w, amount, kind, holding, deed)
      PROVE  FALSE
  <2>1. /\ amount \in Nat /\ w \in StockAccounts /\ w # "stock_vault_ata"
        /\ "stock_vault_ata" \in StockAccounts /\ stock \in [StockAccounts -> Nat]
    BY ProgramAccounts
  <2>2. stock' = Transfer(stock, w, "stock_vault_ata", amount)
    BY <1>2 DEF creator_initialize_vault
  <2>3. stock'["stock_vault_ata"] = stock["stock_vault_ata"] + amount
    BY <2>1, <2>2, TransferMoves
  <2>. QED  BY <1>1, <2>1, <2>3
<1>3. ASSUME NEW w \in Wallets, owner_redeem_principal(w)
      PROVE  LeftByRedemption
  <2>1. Active = {}
    BY <1>3, NothingAllocated DEF owner_redeem_principal, AllUnwound
  <2>. QED  BY <1>3, <2>1 DEF owner_redeem_principal, LeftByRedemption
<1>4. CASE keeper_harvest_dividend
  BY <1>4, HarvestMoves DEF LeftByHarvest
<1>5. ASSUME NEW rate, NEW money, NEW destination, keeper_execute_swap(rate, money, destination)
      PROVE  FALSE
  <2>1. /\ vault.pending_harvest_amount \in Nat
        /\ stock' = Transfer(stock, "pending_distribution_ata", "swap_reserve_stock_ata",
                             vault.pending_harvest_amount)
    BY <1>5, VaultType DEF keeper_execute_swap
  <2>2. stock'["stock_vault_ata"] = stock["stock_vault_ata"]
    BY <2>1, ProgramAccounts, TransferMoves
  <2>. QED  BY <1>1, <2>2
<1>6. CASE EnvironmentStep \/ UNCHANGED vars
  <2>1. stock'["stock_vault_ata"] >= stock["stock_vault_ata"]
    BY <1>6, EnvironmentLeaves
  <2>. QED  BY <1>1, <2>1
<1>. QED
  BY <1>1, <1>2, <1>3, <1>4, <1>5, <1>6
  DEF Next, OwnerStep, KeeperStep, Swap, Distribute, owner_strip_position, owner_buyout_yield,
      keeper_distribute_payout

(* Stock leaves the vault's token account only by a harvest that keeps the
   value of what stays, or all of it to the Master Deed holder when no
   position is active. *)
THEOREM StockLeavesOnlyByRight ==
  Spec => StockLeavesByRight
<1>1. IInv /\ [Next]_vars =>
        [stock'["stock_vault_ata"] < stock["stock_vault_ata"] =>
           LeftByHarvest \/ LeftByRedemption]_vars
  BY StockStep
<1>. QED  BY <1>1, Safe, PTL DEF Spec, StockLeavesByRight, LeftByHarvest, LeftByRedemption

-----------------------------------------------------------------------------
(* The token account of the vault.                                         *)

LEMMA SquatStep ==
  ASSUME IInv, [Next]_vars, ata_exists, ~vault.open
  PROVE  /\ ata_exists' /\ ~vault'.open
         /\ stock'["stock_vault_ata"] >= stock["stock_vault_ata"]
<1>. USE DEF IInv
<1>1. \A w \in Wallets : ~HoldsDeed(w)
  BY DEF HoldsDeed
<1>2. ASSUME OwnerStep
      PROVE  FALSE
  BY <1>1, <1>2 DEF OwnerStep, creator_initialize_vault, AtaIsFree, owner_strip_position,
                    owner_buyout_yield, owner_redeem_principal
<1>3. ASSUME KeeperStep
      PROVE  FALSE
  BY <1>1, <1>3 DEF KeeperStep, Swap, Distribute, keeper_harvest_dividend,
                    keeper_execute_swap, keeper_distribute_payout
<1>4. EnvironmentStep \/ UNCHANGED vars
  BY <1>2, <1>3 DEF Next
<1>. QED  BY <1>4, EnvironmentLeaves

(* A token account that somebody created before the vault, or created again
   after it was closed, is there for good: no vault is opened at its address
   any more, and nothing takes out what was sent to it. *)
THEOREM SquattedStaysSquatted ==
  Spec => SquattedForGood
<1>1. IInv /\ [Next]_vars =>
        [ata_exists /\ ~vault.open =>
           /\ ata_exists' /\ ~vault'.open
           /\ stock'["stock_vault_ata"] >= stock["stock_vault_ata"]]_vars
  BY SquatStep
<1>. QED  BY <1>1, Safe, PTL DEF Spec, SquattedForGood
=============================================================================
