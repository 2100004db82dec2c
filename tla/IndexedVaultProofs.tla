------------------------- MODULE IndexedVaultProofs -------------------------
(***************************************************************************)
(* What the events tell is true, for every value of the constants: joining *)
(* the events to the instructions changes nothing of what the program      *)
(* does, so IInv holds, and under it each event keeps the reader's index   *)
(* in step with the vault.                                                 *)
(***************************************************************************)
EXTENDS IndexedVault, StripVaultSafetyProofs

(* The reader subtracts, so its numbers are integers until they are known
   to be those of the vault. *)
IndexType ==
  [multiplier : Int, pending : Int, shares : Int,
   positions : SUBSET YieldAssets, allocated_bps : Int]

Told == index \in IndexType /\ EventsTellTheStock /\ EventsTellThePositions

-----------------------------------------------------------------------------
(* The events beside the program.                                          *)

LEMMA EventsChangeNothing ==
  [IndexedNext]_<<vars, index>> => [Next]_vars
<1>. SUFFICES ASSUME [IndexedNext]_<<vars, index>>
              PROVE  [Next]_vars
  OBVIOUS
<1>1. CASE UNCHANGED <<vars, index>>
  BY <1>1
<1>2. CASE IndexedNext
  BY <1>2 DEF IndexedNext, Next, OwnerStep, KeeperStep, Swap, Distribute
<1>. QED  BY <1>1, <1>2

(* What holds of the program holds beside the events. *)
LEMMA IndexedIsTheProgram ==
  IndexedSpec => Spec
<1>1. IndexedInit => Init
  BY DEF IndexedInit
<1>. QED  BY <1>1, EventsChangeNothing, PTL DEF IndexedSpec, Spec

(* A position that has met its condition has met it for good: the clock and
   the count only go up. *)
LEMMA ExpiredStays ==
  ASSUME NEW record \in YieldRecord, NEW later \in YieldRecord, NEW now \in Nat, NEW then \in Nat,
         later.expiry_condition = record.expiry_condition,
         later.payouts_received_count >= record.payouts_received_count,
         then >= now,
         is_expired(record, now)
  PROVE  is_expired(later, then)
BY LimitAssumption DEF is_expired, YieldRecord, ExpiryCondition

(* An active position has a part in what is allocated. *)
LEMMA ShareIsAllocated ==
  ASSUME TypeOK, AllocationExact, NEW y \in Active
  PROVE  /\ records[y].share_bps \in Nat
         /\ records[y].share_bps <= vault.total_yield_allocated_bps
<1>1. Total(Shares, Active) = Total(Shares, Active \ {y}) + Total(Shares, {y})
      /\ Total(Shares, Active \ {y}) \in Nat
  BY SharesSummable, TotalWithout DEF Active
<1>2. Total(Shares, {y}) = records[y].share_bps /\ records[y].share_bps \in Nat
  BY SharesSummable, TotalOne DEF Shares, Active
<1>. QED  BY <1>1, <1>2 DEF AllocationExact

(* What the reader keeps, field by field. *)
LEMMA IndexFields ==
  ASSUME index \in IndexType
  PROVE  /\ index = [multiplier |-> index.multiplier, pending |-> index.pending,
                     shares |-> index.shares, positions |-> index.positions,
                     allocated_bps |-> index.allocated_bps]
         /\ index.multiplier \in Int /\ index.pending \in Int /\ index.shares \in Int
         /\ index.positions \subseteq YieldAssets /\ index.allocated_bps \in Int
BY DEF IndexType

LEMMA IndexTyped ==
  ASSUME NEW m \in Int, NEW p \in Int, NEW s \in Int, NEW b \in Int,
         NEW positions, positions \subseteq YieldAssets
  PROVE  [multiplier |-> m, pending |-> p, shares |-> s, positions |-> positions,
          allocated_bps |-> b] \in IndexType
BY DEF IndexType

-----------------------------------------------------------------------------
(* One lemma per instruction.                                              *)

LEMMA OpeningIsTold ==
  ASSUME IInv, Told, NEW w \in Wallets, NEW kind \in PayoutAssetTypes,
         NEW holding \in HoldingChoices, NEW deed \in DeedAssets, NEW amount \in 1 .. stock[w],
         creator_initialize_vault(w, amount, kind, holding, deed),
         Emit(VaultInitializedEvent(amount))
  PROVE  Told'
<1>. USE DEF IInv
<1>. DEFINE multiplier == f64_to_fixed_multiplier(get_effective_multiplier)
<1>1. multiplier \in Nat /\ amount \in Nat
  BY EffectiveType, ProgramAccounts DEF creator_initialize_vault
<1>. HIDE DEF multiplier
<1>2. index' = [NoIndex EXCEPT !.multiplier = multiplier, !.shares = amount]
  BY DEF Emit, Index, VaultInitializedEvent, multiplier
<1>3. index' = [multiplier |-> multiplier, pending |-> 0, shares |-> amount,
                positions |-> {}, allocated_bps |-> 0]
  BY <1>2 DEF NoIndex
<1>4. /\ vault'.last_multiplier = multiplier /\ vault'.pending_harvest_amount = 0
      /\ vault'.total_yield_allocated_bps = 0
      /\ records' = records
  BY DEF creator_initialize_vault, multiplier
<1>5. Active' = {}
  BY <1>4 DEF creator_initialize_vault, ClosedMeansUnwound, Active
<1>6. stock'["stock_vault_ata"] >= amount
  <2>1. stock' = Transfer(stock, w, "stock_vault_ata", amount)
    BY DEF creator_initialize_vault
  <2>2. /\ w \in StockAccounts /\ w # "stock_vault_ata" /\ "stock_vault_ata" \in StockAccounts
        /\ stock \in [StockAccounts -> Nat]
    BY ProgramAccounts
  <2>3. stock'["stock_vault_ata"] = stock["stock_vault_ata"] + amount
    BY <1>1, <2>1, <2>2, TransferMoves
  <2>. QED  BY <1>1, <2>3, ProgramAccounts
<1>7. index' \in IndexType
  BY <1>1, <1>3 DEF IndexType
<1>. QED
  BY <1>1, <1>3, <1>4, <1>5, <1>6, <1>7 DEF Told, EventsTellTheStock, EventsTellThePositions

LEMMA StripIsTold ==
  ASSUME IInv, Told, NEW w \in Wallets, NEW r \in Wallets, NEW y \in YieldAssets,
         NEW share \in ShareChoices, NEW expiry \in ExpiryChoices, NEW price \in PriceChoices,
         owner_strip_position(w, y, r, share, expiry, price), Emit(YieldStrippedEvent(y, share))
  PROVE  Told'
<1>. USE DEF IInv
<1>1. index' = [index EXCEPT !.positions = @ \cup {y},
                             !.allocated_bps = vault.total_yield_allocated_bps + share]
  BY DEF Emit, Index, YieldStrippedEvent
<1>2. share \in Nat /\ vault.total_yield_allocated_bps \in Nat
  BY ChoiceAssumption, VaultType
<1>3. index' \in IndexType
  <2>1. index' = [multiplier |-> index.multiplier, pending |-> index.pending,
                  shares |-> index.shares, positions |-> index.positions \cup {y},
                  allocated_bps |-> vault.total_yield_allocated_bps + share]
    BY <1>1, IndexFields DEF Told
  <2>2. vault.total_yield_allocated_bps + share \in Int
    BY <1>2
  <2>. QED  BY <2>1, <2>2, IndexFields, IndexTyped DEF Told
<1>4. /\ vault'.open = vault.open /\ vault.open
      /\ vault'.last_multiplier = vault.last_multiplier
      /\ vault'.pending_harvest_amount = vault.pending_harvest_amount
      /\ vault'.total_yield_allocated_bps = vault.total_yield_allocated_bps + share
      /\ stock' = stock /\ clock' = clock
  BY DEF owner_strip_position, HoldsDeed, TypeOK, Vault
<1>5. /\ index'.multiplier = index.multiplier /\ index'.pending = index.pending
      /\ index'.shares = index.shares
      /\ index'.positions = index.positions \cup {y}
      /\ index'.allocated_bps = vault.total_yield_allocated_bps + share
  BY <1>1 DEF Told, IndexType
<1>6. EventsTellTheStock'
  BY <1>4, <1>5 DEF Told, EventsTellTheStock
<1>7. /\ records'[y].is_active
      /\ \A z \in YieldAssets \ {y} : records'[z] = records[z]
  BY DEF owner_strip_position, TypeOK
<1>8. Active' = Active \cup {y}
  BY <1>7 DEF Active
<1>9. EventsTellThePositions'
  <2>1. \A z \in index'.positions \ Active' :
           z \in YieldAssets \ {y} /\ z \in index.positions \ Active
    BY <1>5, <1>8 DEF Told, IndexType
  <2>2. \A z \in index'.positions \ Active' : is_expired(records'[z], clock')
    BY <1>4, <1>7, <2>1 DEF Told, EventsTellThePositions
  <2>3. Active' \subseteq index'.positions
    BY <1>4, <1>5, <1>8 DEF Told, EventsTellThePositions
  <2>. QED  BY <1>2, <1>4, <1>5, <2>2, <2>3 DEF EventsTellThePositions
<1>. QED  BY <1>3, <1>6, <1>9 DEF Told

LEMMA BuyoutIsTold ==
  ASSUME IInv, Told, NEW w \in Wallets, NEW y \in YieldAssets, owner_buyout_yield(w, y),
         Emit(YieldBoughtOutEvent(y))
  PROVE  Told'
<1>. USE DEF IInv
<1>1. index' = [index EXCEPT !.positions = @ \ {y}, !.allocated_bps = @ - records[y].share_bps]
  BY DEF Emit, Index, YieldBoughtOutEvent
<1>2. y \in Active
  BY DEF owner_buyout_yield, Active
<1>3. /\ records[y].share_bps \in Nat
      /\ records[y].share_bps <= vault.total_yield_allocated_bps
      /\ vault.total_yield_allocated_bps \in Nat
  BY <1>2, ShareIsAllocated, VaultType
<1>4. /\ index' \in IndexType
      /\ index'.multiplier = index.multiplier /\ index'.pending = index.pending
      /\ index'.shares = index.shares
      /\ index'.positions = index.positions \ {y}
      /\ index'.allocated_bps = index.allocated_bps - records[y].share_bps
      /\ index.allocated_bps \in Int
  <2>1. index' = [multiplier |-> index.multiplier, pending |-> index.pending,
                  shares |-> index.shares, positions |-> index.positions \ {y},
                  allocated_bps |-> index.allocated_bps - records[y].share_bps]
    BY <1>1, IndexFields DEF Told
  <2>2. index.allocated_bps - records[y].share_bps \in Int /\ index.allocated_bps \in Int
    BY <1>3, IndexFields DEF Told
  <2>3. index' \in IndexType
    BY <2>1, <2>2, IndexFields, IndexTyped DEF Told
  <2>. QED  BY <2>1, <2>2, <2>3
<1>5. /\ vault'.open = vault.open /\ vault.open
      /\ vault'.last_multiplier = vault.last_multiplier
      /\ vault'.pending_harvest_amount = vault.pending_harvest_amount
      /\ vault'.total_yield_allocated_bps =
           saturating_sub(vault.total_yield_allocated_bps, records[y].share_bps)
      /\ stock' = stock /\ clock' = clock
  BY DEF owner_buyout_yield, HoldsDeed, TypeOK, Vault
<1>6. EventsTellTheStock'
  BY <1>4, <1>5 DEF Told, EventsTellTheStock
<1>7. /\ Active' = Active \ {y}
      /\ \A z \in YieldAssets \ {y} : records'[z] = records[z]
  BY DEF owner_buyout_yield, Active, TypeOK, YieldRecord
<1>8. EventsTellThePositions'
  <2>1. \A z \in index'.positions \ Active' :
           z \in YieldAssets \ {y} /\ z \in index.positions \ Active
    BY <1>4, <1>7 DEF Told, IndexType
  <2>2. \A z \in index'.positions \ Active' : is_expired(records'[z], clock')
    BY <1>5, <1>7, <2>1 DEF Told, EventsTellThePositions
  <2>3. Active' \subseteq index'.positions
    BY <1>4, <1>5, <1>7 DEF Told, EventsTellThePositions
  <2>4. vault'.total_yield_allocated_bps <= index'.allocated_bps
    BY <1>3, <1>4, <1>5 DEF saturating_sub, Told, EventsTellThePositions
  <2>. QED  BY <2>2, <2>3, <2>4 DEF EventsTellThePositions
<1>. QED  BY <1>4, <1>6, <1>8 DEF Told

LEMMA RedemptionIsTold ==
  ASSUME NEW w \in Wallets, owner_redeem_principal(w), Emit(PrincipalRedeemedEvent)
  PROVE  Told'
<1>1. index' = NoIndex
  BY DEF Emit, Index, PrincipalRedeemedEvent
<1>2. ~vault'.open
  BY DEF owner_redeem_principal, NoVault
<1>. QED
  BY <1>1, <1>2 DEF Told, NoIndex, IndexType, EventsTellTheStock, EventsTellThePositions

(* The chain of harvests: each begins at the multiplier the reader knows. *)
LEMMA HarvestIsTold ==
  ASSUME IInv, Told, keeper_harvest_dividend, Emit(DividendHarvestedEvent)
  PROVE  Told'
<1>. USE DEF IInv
<1>. DEFINE active == f64_to_fixed_multiplier(get_effective_multiplier)
            balance == stock["stock_vault_ata"]
            harvest == calculate_harvest_amount(balance, vault.last_multiplier, active)
<1>1. balance \in Nat /\ active \in Nat /\ vault.last_multiplier \in Nat
      /\ vault.pending_harvest_amount \in Nat
  BY EffectiveType, VaultType, ProgramAccounts
<1>2. /\ HarvestDefined(vault.last_multiplier, active)
      /\ vault.open
      /\ stock' = Transfer(stock, "stock_vault_ata", "pending_distribution_ata", harvest)
      /\ vault' = [vault EXCEPT !.last_multiplier = active,
                                !.pending_harvest_amount = @ + harvest,
                                !.total_raw_shares = balance - harvest]
      /\ records' = records /\ clock' = clock
  BY DEF keeper_harvest_dividend
<1>3. harvest \in Nat /\ harvest <= balance
  BY <1>1, <1>2, HarvestDilutesNothing
<1>4. index' = [index EXCEPT !.multiplier = IF vault.last_multiplier = @ THEN active ELSE Gap,
                             !.pending = @ + harvest, !.shares = @ - harvest]
  BY DEF Emit, Index, DividendHarvestedEvent, old_multiplier
<1>. HIDE DEF active, harvest
<1>5. stock'["stock_vault_ata"] = stock["stock_vault_ata"] - harvest
  BY <1>2, <1>3, ProgramAccounts, TransferMoves
<1>. HIDE DEF balance
<1>6. /\ vault'.last_multiplier = active
      /\ vault'.pending_harvest_amount = vault.pending_harvest_amount + harvest
      /\ vault'.total_yield_allocated_bps = vault.total_yield_allocated_bps
  BY <1>2 DEF TypeOK, Vault
<1>7. /\ index.multiplier = vault.last_multiplier
      /\ index.pending = vault.pending_harvest_amount
      /\ index.shares <= stock["stock_vault_ata"] /\ index.shares \in Int
  BY <1>2 DEF Told, EventsTellTheStock, IndexType
<1>8. /\ index' \in IndexType
      /\ index'.multiplier = active
      /\ index'.pending = index.pending + harvest
      /\ index'.shares = index.shares - harvest
      /\ index'.positions = index.positions /\ index'.allocated_bps = index.allocated_bps
  <2>1. index' = [multiplier |-> active, pending |-> index.pending + harvest,
                  shares |-> index.shares - harvest, positions |-> index.positions,
                  allocated_bps |-> index.allocated_bps]
    BY <1>4, <1>7, IndexFields DEF Told
  <2>2. index.pending + harvest \in Int /\ index.shares - harvest \in Int /\ active \in Int
    BY <1>1, <1>3, IndexFields DEF Told
  <2>3. index' \in IndexType
    BY <2>1, <2>2, IndexFields, IndexTyped DEF Told
  <2>. QED  BY <2>1, <2>3
<1>9. EventsTellTheStock'
  BY <1>3, <1>5, <1>6, <1>7, <1>8, ProgramAccounts DEF EventsTellTheStock
<1>10. EventsTellThePositions'
  BY <1>2, <1>6, <1>8 DEF Told, EventsTellThePositions, Active
<1>. QED  BY <1>8, <1>9, <1>10 DEF Told

LEMMA SwapIsTold ==
  ASSUME IInv, Told, Swap, Emit(SwapExecutedEvent)
  PROVE  Told'
<1>. USE DEF IInv
<1>. PICK rate, money, destination : keeper_execute_swap(rate, money, destination)
  BY DEF Swap
<1>1. index' = [index EXCEPT !.pending = @ - vault.pending_harvest_amount]
  BY DEF Emit, Index, SwapExecutedEvent
<1>2. /\ vault.open /\ vault'.open
      /\ vault'.last_multiplier = vault.last_multiplier
      /\ vault'.pending_harvest_amount = 0
      /\ vault'.total_yield_allocated_bps = vault.total_yield_allocated_bps
      /\ vault.pending_harvest_amount \in Nat
      /\ records' = records /\ clock' = clock
  BY VaultType DEF keeper_execute_swap, VaultAfterSwap, TypeOK, Vault
<1>3. stock'["stock_vault_ata"] = stock["stock_vault_ata"]
  <2>1. stock' = Transfer(stock, "pending_distribution_ata", "swap_reserve_stock_ata",
                          vault.pending_harvest_amount)
    BY DEF keeper_execute_swap
  <2>. QED  BY <1>2, <2>1, ProgramAccounts, TransferMoves
<1>4. index.pending = vault.pending_harvest_amount
  BY <1>2 DEF Told, EventsTellTheStock
<1>5. /\ index' \in IndexType
      /\ index'.pending = 0
      /\ index'.multiplier = index.multiplier /\ index'.shares = index.shares
      /\ index'.positions = index.positions /\ index'.allocated_bps = index.allocated_bps
  BY <1>1, <1>2, <1>4 DEF Told, IndexType
<1>6. EventsTellTheStock'
  BY <1>2, <1>3, <1>5 DEF Told, EventsTellTheStock
<1>7. EventsTellThePositions'
  BY <1>2, <1>5 DEF Told, EventsTellThePositions, Active
<1>. QED  BY <1>5, <1>6, <1>7 DEF Told

(* Nobody tells the reader that a distribution ended a position, and what it
   goes on to believe is still on the safe side. *)
LEMMA DistributionIsTold ==
  ASSUME IInv, Told, Distribute, Emit(PayoutDistributedEvent)
  PROVE  Told'
<1>. USE DEF IInv
<1>. PICK money \in Monies, listed \in Listings :
            \E amount : keeper_distribute_payout(money, amount, listed)
  BY DEF Distribute
<1>. PICK amount : keeper_distribute_payout(money, amount, listed)
  OBVIOUS
<1>1. index' = index
  BY DEF Emit, Index, PayoutDistributedEvent
<1>2. /\ vault'.open = vault.open /\ vault.open
      /\ vault'.last_multiplier = vault.last_multiplier
      /\ vault'.pending_harvest_amount = vault.pending_harvest_amount
      /\ stock' = stock /\ clock' = clock
  BY DEF keeper_distribute_payout, HoldsDeed, TypeOK, Vault
<1>3. EventsTellTheStock'
  BY <1>1, <1>2 DEF Told, EventsTellTheStock
<1>4. Active' \subseteq Active
  BY DistributionLeaves DEF Active
<1>5. ASSUME NEW y \in index.positions \ Active'
      PROVE  is_expired(records'[y], clock)
  <2>1. y \in YieldAssets /\ clock \in Nat /\ records[y] \in YieldRecord
    BY <1>5, RecordType DEF Told, IndexType, TypeOK
  <2>2. /\ listed[y] \in Nat
        /\ records'[y] = AfterTriples(records[y], listed[y]) /\ records'[y] \in YieldRecord
        /\ records'[y].expiry_condition = records[y].expiry_condition
        /\ records'[y].payouts_received_count
             = records[y].payouts_received_count + TimesPaid(records[y], listed[y])
    BY <2>1, DistributionLeaves
  <2>3. CASE y \in Active
    <3>. DEFINE counted == [records[y] EXCEPT !.payouts_received_count =
                                                @ + TimesPaid(records[y], listed[y])]
    <3>1. records[y].is_active /\ ~records'[y].is_active
      BY <1>5, <2>1, <2>3 DEF Active
    <3>2. is_expired(counted, clock)
      BY <2>1, <2>2, <3>1 DEF AfterTriples, YieldRecord
    <3>3. /\ records'[y].expiry_condition = counted.expiry_condition
          /\ records'[y].payouts_received_count = counted.payouts_received_count
      BY <2>1, <2>2 DEF AfterTriples, YieldRecord
    <3>. HIDE DEF counted
    <3>. QED  BY <3>2, <3>3 DEF is_expired
  <2>4. CASE y \notin Active
    <3>1. is_expired(records[y], clock)
      BY <1>2, <1>5, <2>4 DEF Told, EventsTellThePositions
    <3>2. TimesPaid(records[y], listed[y]) = 0
      BY <2>1, <2>4 DEF TimesPaid, Active
    <3>3. records'[y].payouts_received_count >= records[y].payouts_received_count
      BY <2>1, <2>2, <3>2, LimitAssumption DEF YieldRecord
    <3>. QED  BY <2>1, <2>2, <3>1, <3>3, ExpiredStays
  <2>. QED  BY <2>3, <2>4
<1>6. vault'.total_yield_allocated_bps <= vault.total_yield_allocated_bps
      /\ vault.total_yield_allocated_bps \in Nat /\ vault'.total_yield_allocated_bps \in Nat
  <2>. DEFINE after == [y \in YieldAssets |-> AfterTriples(records[y], listed[y])]
              shares == [y \in YieldAssets |-> records[y].share_bps]
              back == Total(shares, Reverted(after))
  <2>1. vault' = [vault EXCEPT !.total_yield_allocated_bps = saturating_sub(@, back)]
    BY DEF keeper_distribute_payout
  <2>2. back \in Nat
    <3>1. IsFiniteSet(Reverted(after)) /\ Reverted(after) \subseteq YieldAssets
      BY AddressAssumption, FS_Subset DEF Reverted
    <3>2. \A y \in YieldAssets : shares[y] \in Nat
      BY RecordType
    <3>. HIDE DEF after, shares
    <3>. QED  BY <3>1, <3>2, TotalType
  <2>. HIDE DEF back
  <2>3. vault'.total_yield_allocated_bps = saturating_sub(vault.total_yield_allocated_bps, back)
        /\ vault.total_yield_allocated_bps \in Nat
    BY <2>1, VaultType DEF TypeOK, Vault
  <2>. QED  BY <2>2, <2>3 DEF saturating_sub
<1>7. EventsTellThePositions'
  <2>1. vault'.total_yield_allocated_bps <= index'.allocated_bps
    BY <1>1, <1>2, <1>6 DEF Told, EventsTellThePositions, IndexType
  <2>2. Active' \subseteq index'.positions
    BY <1>1, <1>2, <1>4 DEF Told, EventsTellThePositions
  <2>. QED  BY <1>1, <1>2, <1>5, <2>1, <2>2 DEF EventsTellThePositions
<1>. QED  BY <1>1, <1>3, <1>7 DEF Told

(* Stock that is sent to the vault, time that passes, NFTs that are traded or
   burned: no event, and nothing told becomes false. *)
LEMMA OthersLeaveItTold ==
  ASSUME IInv, Told, EnvironmentStep \/ UNCHANGED vars, UNCHANGED index
  PROVE  Told'
<1>. USE DEF IInv
<1>1. /\ vault' = vault /\ records' = records
      /\ stock'["stock_vault_ata"] >= stock["stock_vault_ata"]
  BY EnvironmentLeaves
<1>2. clock \in Nat /\ clock' \in Nat /\ clock' >= clock
  BY DEF EnvironmentStep, Tick, update_multiplier, transfer_asset, burn_asset,
         create_stock_vault_ata, send_stock, send_funds, vars, TypeOK
<1>3. EventsTellTheStock'
  <2>1. vault.open => index.shares \in Int /\ index.shares <= stock["stock_vault_ata"]
                      /\ stock["stock_vault_ata"] \in Nat
    BY ProgramAccounts DEF Told, IndexType, EventsTellTheStock
  <2>2. stock'["stock_vault_ata"] \in Nat
    BY StepTypes, ProgramAccounts DEF TypeOK, StockAccounts, Next
  <2>. QED  BY <1>1, <2>1, <2>2 DEF Told, EventsTellTheStock
<1>4. EventsTellThePositions'
  <2>1. Active' = Active
    BY <1>1 DEF Active
  <2>2. ASSUME vault.open, NEW y \in index.positions \ Active
        PROVE  is_expired(records'[y], clock')
    <3>1. records[y] \in YieldRecord
      BY <2>2, RecordType DEF Told, IndexType
    <3>2. records[y].payouts_received_count >= records[y].payouts_received_count
      BY <3>1, LimitAssumption DEF YieldRecord
    <3>3. is_expired(records[y], clock)
      BY <2>2 DEF Told, EventsTellThePositions
    <3>. QED  BY <1>1, <1>2, <3>1, <3>2, <3>3, ExpiredStays
  <2>. QED  BY <1>1, <2>1, <2>2 DEF Told, EventsTellThePositions
<1>. QED  BY <1>3, <1>4 DEF Told

-----------------------------------------------------------------------------
LEMMA StartTold ==
  IndexedInit => Told
BY DEF IndexedInit, Init, NoVault, NoIndex, Told, IndexType, EventsTellTheStock,
       EventsTellThePositions

LEMMA StepTold ==
  IInv /\ Told /\ [IndexedNext]_<<vars, index>> => Told'
<1>. SUFFICES ASSUME IInv, Told, [IndexedNext]_<<vars, index>>
              PROVE  Told'
  OBVIOUS
<1>1. CASE UNCHANGED <<vars, index>>
  BY <1>1, OthersLeaveItTold
<1>2. CASE IndexedNext
  BY <1>2, OpeningIsTold, StripIsTold, BuyoutIsTold, RedemptionIsTold, HarvestIsTold, SwapIsTold,
     DistributionIsTold, OthersLeaveItTold
  DEF IndexedNext
<1>. QED  BY <1>1, <1>2

THEOREM EventsAreTrue ==
  IndexedSpec => []Told
<1>1. IndexedSpec => []IInv
  BY IndexedIsTheProgram, Safe, PTL
<1>. QED  BY <1>1, StartTold, StepTold, PTL DEF IndexedSpec

(* Nobody who follows the events is wrong about the stock: what is pending,
   at which multiplier it was harvested last, and the least there is. *)
THEOREM EventsTellStock ==
  IndexedSpec => []EventsTellTheStock
<1>1. Told => EventsTellTheStock
  BY DEF Told
<1>. QED  BY <1>1, EventsAreTrue, PTL

(* Nobody who follows the events misses an active position or takes more of
   the vault to be free than there is, though expiry emits no event. *)
THEOREM EventsTellPositions ==
  IndexedSpec => []EventsTellThePositions
<1>1. Told => EventsTellThePositions
  BY DEF Told
<1>. QED  BY <1>1, EventsAreTrue, PTL
=============================================================================
