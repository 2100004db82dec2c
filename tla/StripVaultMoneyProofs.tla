----------------------- MODULE StripVaultMoneyProofs -----------------------
(***************************************************************************)
(* Proofs about what StripVault pays: the shares of a payout fit into it,  *)
(* nothing is made or lost, who gets what leaves the payout account and    *)
(* how positions end.                                                      *)
(***************************************************************************)
EXTENDS StripVaultSafetyProofs

-----------------------------------------------------------------------------
(* The shares of a payout.                                                 *)

(* What the active positions get is within what is allocated to them. *)
LEMMA SharesWithinAllocation ==
  ASSUME IInv, NEW payout \in Nat,
         NEW part, \A y \in YieldAssets : part[y] = calculate_yield_share(payout, records[y].share_bps)
  PROVE  /\ IsFiniteSet(Active)
         /\ \A y \in YieldAssets : part[y] \in Nat
         /\ Total(part, Active) \in Nat
         /\ Total(part, Active) * MAX_YIELD_BPS <= vault.total_yield_allocated_bps * payout
<1>. USE DEF IInv
<1>. DEFINE whole == [y \in YieldAssets |-> part[y] * MAX_YIELD_BPS]
            owed == [y \in YieldAssets |-> Shares[y] * payout]
<1>1. \A y \in YieldAssets : /\ part[y] \in Nat /\ Shares[y] \in Nat
                             /\ whole[y] \in Nat /\ owed[y] \in Nat /\ whole[y] <= owed[y]
  <2>. SUFFICES ASSUME NEW y \in YieldAssets
                PROVE  /\ part[y] \in Nat /\ Shares[y] \in Nat
                       /\ whole[y] \in Nat /\ owed[y] \in Nat /\ whole[y] <= owed[y]
    OBVIOUS
  <2>1. Shares[y] \in Nat /\ Shares[y] = records[y].share_bps
    BY SharesSummable DEF Shares
  <2>2. part[y] \in Nat /\ part[y] * MAX_YIELD_BPS <= payout * Shares[y]
    BY <2>1, YieldShareBounds
  <2>3. /\ part[y] * MAX_YIELD_BPS \in Nat /\ payout * Shares[y] \in Nat
        /\ payout * Shares[y] = Shares[y] * payout
    BY <2>1, <2>2, MAX_YIELD_BPSAssumption, ProductType
  <2>4. whole[y] = part[y] * MAX_YIELD_BPS /\ owed[y] = Shares[y] * payout
    BY <2>1
  <2>. QED  BY <2>1, <2>2, <2>3, <2>4
<1>2. IsFiniteSet(Active) /\ Active \subseteq YieldAssets /\ Total(Shares, Active) \in Nat
  BY SharesSummable DEF Active
<1>3. Total(part, Active) \in Nat
  BY <1>1, <1>2, TotalType
<1>4. Total(whole, Active) = Total(part, Active) * MAX_YIELD_BPS
  <2>1. \A y \in Active : whole[y] = part[y] * MAX_YIELD_BPS
    BY <1>2
  <2>. HIDE DEF whole
  <2>. QED  BY <1>1, <1>2, <2>1, MAX_YIELD_BPSAssumption, TotalScaled
<1>5. Total(owed, Active) = Total(Shares, Active) * payout
  <2>1. \A y \in Active : owed[y] = Shares[y] * payout
    BY <1>2
  <2>. HIDE DEF owed
  <2>. QED  BY <1>1, <1>2, <2>1, TotalScaled
<1>6. Total(whole, Active) <= Total(owed, Active)
  <2>. HIDE DEF whole, owed
  <2>. QED  BY <1>1, <1>2, TotalMonotone
<1>7. Total(Shares, Active) = vault.total_yield_allocated_bps
  BY DEF AllocationExact
<1>. HIDE DEF whole, owed
<1>. QED  BY <1>1, <1>2, <1>3, <1>4, <1>5, <1>6, <1>7

LEMMA SharesFit ==
  IInv => SharesFitThePayout
<1>. SUFFICES ASSUME IInv, NEW money \in Monies,
                     NEW payout \in 0 .. funds[money]["vault_payout"]
              PROVE  Total([y \in YieldAssets |->
                              calculate_yield_share(payout, records[y].share_bps)], Active) <= payout
  BY DEF SharesFitThePayout
<1>. DEFINE part == [y \in YieldAssets |-> calculate_yield_share(payout, records[y].share_bps)]
            allocated == vault.total_yield_allocated_bps
<1>1. payout \in Nat
  BY DEF IInv, TypeOK, FundAccounts
<1>2. allocated \in 0 .. MAX_YIELD_BPS
  BY VaultType DEF IInv
<1>3. \A y \in YieldAssets : part[y] = calculate_yield_share(payout, records[y].share_bps)
  OBVIOUS
<1>. HIDE DEF part
<1>4. Total(part, Active) \in Nat /\ Total(part, Active) * MAX_YIELD_BPS <= allocated * payout
  BY <1>1, <1>3, SharesWithinAllocation
<1>. HIDE DEF allocated
<1>5. allocated * payout <= MAX_YIELD_BPS * payout /\ MAX_YIELD_BPS * payout = payout * MAX_YIELD_BPS
  BY <1>1, <1>2, MAX_YIELD_BPSAssumption, ProductMonotone
<1>6. /\ Total(part, Active) * MAX_YIELD_BPS \in Nat /\ allocated * payout \in Nat
      /\ MAX_YIELD_BPS * payout \in Nat
  BY <1>1, <1>2, <1>4, MAX_YIELD_BPSAssumption, ProductType
<1>7. Total(part, Active) * MAX_YIELD_BPS <= payout * MAX_YIELD_BPS
  BY <1>4, <1>5, <1>6
<1>8. Total(part, Active) <= payout
  BY <1>1, <1>4, <1>7, MAX_YIELD_BPSAssumption, ProductCancel
<1>. QED  BY <1>8 DEF part

(* A distribution that names each active position once never asks for more
   than it takes, whatever the shares, the payout and the rounding. *)
THEOREM SharesAlwaysFit ==
  Spec => []SharesFitThePayout
BY SharesFit, Safe, PTL

-----------------------------------------------------------------------------
(* Nothing is made or lost.                                                *)

LEMMA AccountsFinite ==
  IsFiniteSet(StockAccounts) /\ IsFiniteSet(FundAccounts)
<1>1. IsFiniteSet({"stock_vault_ata", "pending_distribution_ata", "swap_reserve_stock_ata"})
  <2>1. IsFiniteSet({"stock_vault_ata"})
    BY FS_Singleton
  <2>2. IsFiniteSet({"stock_vault_ata"} \cup {"pending_distribution_ata"})
    BY <2>1, FS_AddElement
  <2>3. IsFiniteSet(({"stock_vault_ata"} \cup {"pending_distribution_ata"})
                      \cup {"swap_reserve_stock_ata"})
    BY <2>2, FS_AddElement
  <2>4. ({"stock_vault_ata"} \cup {"pending_distribution_ata"}) \cup {"swap_reserve_stock_ata"}
          = {"stock_vault_ata", "pending_distribution_ata", "swap_reserve_stock_ata"}
    OBVIOUS
  <2>. QED  BY <2>3, <2>4
<1>2. IsFiniteSet({"vault_payout", "swap_reserve"})
  <2>1. IsFiniteSet({"vault_payout"})
    BY FS_Singleton
  <2>2. IsFiniteSet({"vault_payout"} \cup {"swap_reserve"})
    BY <2>1, FS_AddElement
  <2>3. {"vault_payout"} \cup {"swap_reserve"} = {"vault_payout", "swap_reserve"}
    OBVIOUS
  <2>. QED  BY <2>2, <2>3
<1>. QED  BY <1>1, <1>2, AddressAssumption, FS_Union DEF StockAccounts, FundAccounts

(* What the wallets get of a payout is the payout, to the last unit. *)
LEMMA IncomeIsThePayout ==
  ASSUME NEW payout \in Nat, NEW paid \in [YieldAssets -> Nat],
         Total(paid, YieldAssets) <= payout,
         \E w \in Wallets : HoldsDeed(w),
         \A y \in YieldAssets : paid[y] > 0 => nft[y] \in Wallets
  PROVE  Total(Income(payout, paid), Wallets) = payout
<1>. DEFINE held == {y \in YieldAssets : nft[y] \in Wallets}
            holder == [y \in held |-> nft[y]]
            shares == SumsBySort(paid, held, holder, Wallets)
            rest == [w \in Wallets |-> IF HoldsDeed(w) THEN payout - Total(paid, YieldAssets) ELSE 0]
<1>1. IsFiniteSet(Wallets) /\ IsFiniteSet(YieldAssets) /\ IsFiniteSet(held)
  BY AddressAssumption, FS_Subset
<1>2. Total(paid, YieldAssets) \in Nat /\ payout - Total(paid, YieldAssets) \in Nat
  <2>1. Total(paid, YieldAssets) \in Nat
    BY <1>1, TotalType
  <2>. QED  BY <2>1
<1>3. Total(shares, Wallets) = Total(paid, YieldAssets)
  <2>1. Total(shares, Wallets) = Total(paid, held)
    BY <1>1, TotalOfTotals
  <2>2. Total(paid, YieldAssets \ held) = 0
    <3>1. \A y \in YieldAssets \ held : paid[y] = 0
      OBVIOUS
    <3>. QED  BY <3>1, TotalOfNothing
  <2>3. /\ Total(paid, YieldAssets) = Total(paid, YieldAssets \ held) + Total(paid, held)
        /\ Total(paid, held) \in Nat
    <3>1. held \in SUBSET YieldAssets
      OBVIOUS
    <3>. HIDE DEF held
    <3>. QED  BY <1>1, <3>1, TotalWithout
  <2>. QED  BY <2>1, <2>2, <2>3
<1>4. Total(rest, Wallets) = payout - Total(paid, YieldAssets)
  <2>1. PICK owner \in Wallets : HoldsDeed(owner)
    OBVIOUS
  <2>2. \A w \in Wallets \ {owner} : rest[w] = 0
    BY <2>1 DEF HoldsDeed
  <2>3. rest[owner] = payout - Total(paid, YieldAssets) /\ \A w \in Wallets : rest[w] \in Nat
    BY <1>2, <2>1
  <2>. HIDE DEF rest
  <2>4. Total(rest, Wallets \ {owner}) = 0 /\ Total(rest, {owner}) = rest[owner]
    BY <2>2, <2>3, TotalOfNothing, TotalOne
  <2>5. Total(rest, Wallets) = Total(rest, Wallets \ {owner}) + Total(rest, {owner})
    BY <1>1, <2>3, TotalWithout
  <2>. QED  BY <1>2, <2>3, <2>4, <2>5
<1>5. \A w \in Wallets : /\ shares[w] \in Nat /\ rest[w] \in Nat
                         /\ Income(payout, paid)[w] = shares[w] + rest[w]
  <2>. SUFFICES ASSUME NEW w \in Wallets
                PROVE  /\ shares[w] \in Nat /\ rest[w] \in Nat
                       /\ Income(payout, paid)[w] = shares[w] + rest[w]
    OBVIOUS
  <2>1. OfSort(held, holder, w) = {y \in YieldAssets : nft[y] = w}
    BY DEF OfSort
  <2>2. shares[w] = Total(paid, {y \in YieldAssets : nft[y] = w})
    BY <2>1 DEF SumsBySort
  <2>3. Total(paid, {y \in YieldAssets : nft[y] = w}) \in Nat
    <3>1. IsFiniteSet({y \in YieldAssets : nft[y] = w})
      BY <1>1, FS_Subset
    <3>. QED  BY <3>1, TotalType
  <2>. QED  BY <1>2, <2>2, <2>3 DEF Income
<1>6. Total(Income(payout, paid), Wallets) = Total(shares, Wallets) + Total(rest, Wallets)
  <2>. HIDE DEF shares, rest
  <2>. QED  BY <1>1, <1>5, TotalPlus
<1>. HIDE DEF shares, rest
<1>. QED  BY <1>2, <1>3, <1>4, <1>6

(* The two accounts of the program, and the wallets. *)
LEMMA FundsSum ==
  ASSUME NEW ledger \in [FundAccounts -> Nat]
  PROVE  /\ Total(ledger, FundAccounts)
              = Total(ledger, Wallets) + ledger["vault_payout"] + ledger["swap_reserve"]
         /\ Total(ledger, Wallets) \in Nat
<1>. DEFINE vaulted == Wallets \cup {"vault_payout"}
<1>1. /\ IsFiniteSet(Wallets) /\ IsFiniteSet(vaulted)
      /\ "vault_payout" \notin Wallets /\ "swap_reserve" \notin vaulted
      /\ FundAccounts = vaulted \cup {"swap_reserve"}
  BY AddressAssumption, FS_AddElement DEF FundAccounts
<1>2. /\ \A a \in vaulted \cup {"swap_reserve"} : ledger[a] \in Nat
      /\ \A a \in Wallets \cup {"vault_payout"} : ledger[a] \in Nat
  BY DEF FundAccounts
<1>3. Total(ledger, vaulted) = Total(ledger, Wallets) + ledger["vault_payout"]
  BY <1>1, <1>2, TotalAdd
<1>4. Total(ledger, Wallets) \in Nat
  BY <1>1, <1>2, TotalType
<1>. HIDE DEF vaulted
<1>5. Total(ledger, FundAccounts) = Total(ledger, vaulted) + ledger["swap_reserve"]
  BY <1>1, <1>2, TotalAdd
<1>. QED  BY <1>3, <1>4, <1>5

(* A distribution pays the wallets what it takes. *)
LEMMA DistributionConserves ==
  ASSUME TypeOK, NEW asset \in Monies, NEW amount \in 0 .. funds[asset]["vault_payout"],
         NEW listed \in Listings, keeper_distribute_payout(asset, amount, listed),
         NEW money \in Monies
  PROVE  Total(funds'[money], FundAccounts) = Total(funds[money], FundAccounts)
<1>. DEFINE available == funds[asset]["vault_payout"]
            payout == IF amount > 0 THEN amount ELSE available
            times == [y \in YieldAssets |-> TimesPaid(records[y], listed[y])]
            paid == [y \in YieldAssets |->
                       times[y] * calculate_yield_share(payout, records[y].share_bps)]
            income == Income(payout, paid)
            after == [a \in FundAccounts |->
                        CASE a = "vault_payout" -> available - payout
                          [] a \in Wallets -> funds[asset][a] + income[a]
                          [] OTHER -> funds[asset][a]]
<1>1. /\ funds[asset] \in [FundAccounts -> Nat]
      /\ available \in Nat
  BY DEF TypeOK, FundAccounts
<1>2. payout \in Nat
  <2>. HIDE DEF available
  <2>. QED  BY <1>1
<1>3. \A y \in YieldAssets :
        /\ paid[y] \in Nat
        /\ paid[y] > 0 => times[y] > 0
  <2>. SUFFICES ASSUME NEW y \in YieldAssets
                PROVE  paid[y] \in Nat /\ (paid[y] > 0 => times[y] > 0)
    OBVIOUS
  <2>1. listed[y] \in Nat
    BY LimitAssumption DEF Listings
  <2>2. times[y] \in Nat
    BY <2>1, TimesPaidType
  <2>3. calculate_yield_share(payout, records[y].share_bps) \in Nat
    BY <1>2, RecordType, YieldShareBounds
  <2>. HIDE DEF times, payout
  <2>. QED  BY <2>2, <2>3, ProductType
<1>4. /\ \E w \in Wallets : HoldsDeed(w)
      /\ payout <= available
      /\ \A y \in YieldAssets : times[y] > 0 => nft[y] \in Wallets
      /\ Total(paid, YieldAssets) <= payout
      /\ funds' = [funds EXCEPT ![asset] = after]
  BY DEF keeper_distribute_payout
<1>5. paid \in [YieldAssets -> Nat]
  BY <1>3
<1>. HIDE DEF available, payout, times, paid
<1>6. income \in [Wallets -> Nat] /\ Total(income, Wallets) = payout
  BY <1>2, <1>3, <1>4, <1>5, IncomeType, IncomeIsThePayout
<1>7. CASE money # asset
  BY <1>4, <1>7 DEF TypeOK
<1>8. CASE money = asset
  <2>1. "vault_payout" \notin Wallets /\ "swap_reserve" \notin Wallets
    BY AddressAssumption
  <2>. HIDE DEF income
  <2>2. /\ after["vault_payout"] = available - payout
        /\ after["swap_reserve"] = funds[asset]["swap_reserve"]
        /\ \A w \in Wallets : after[w] = funds[asset][w] + income[w]
    BY <2>1 DEF FundAccounts
  <2>3. available - payout \in Nat /\ \A w \in Wallets : /\ funds[asset][w] \in Nat
                                                        /\ income[w] \in Nat
    BY <1>1, <1>2, <1>4, <1>6 DEF FundAccounts
  <2>4. after \in [FundAccounts -> Nat]
    BY <1>1, <2>2, <2>3 DEF FundAccounts
  <2>. HIDE DEF after
  <2>5. IsFiniteSet(Wallets)
    BY AddressAssumption
  <2>6. Total(after, Wallets) = Total(funds[asset], Wallets) + Total(income, Wallets)
    BY <2>2, <2>3, <2>5, TotalPlus
  <2>7. /\ Total(after, FundAccounts)
             = Total(after, Wallets) + after["vault_payout"] + after["swap_reserve"]
        /\ Total(funds[asset], FundAccounts)
             = Total(funds[asset], Wallets) + funds[asset]["vault_payout"]
                 + funds[asset]["swap_reserve"]
        /\ Total(funds[asset], Wallets) \in Nat
    BY <1>1, <2>4, FundsSum
  <2>8. funds[asset]["swap_reserve"] \in Nat /\ available = funds[asset]["vault_payout"]
    BY <1>1 DEF FundAccounts, available
  <2>9. Total(after, FundAccounts) = Total(funds[asset], FundAccounts)
    BY <1>1, <1>2, <1>6, <2>2, <2>6, <2>7, <2>8
  <2>10. funds'[asset] = after
    BY <1>1, <1>4 DEF TypeOK
  <2>. QED  BY <1>8, <2>9, <2>10
<1>. QED  BY <1>7, <1>8

(* Moving money within one of the ledgers. *)
LEMMA FundsMove ==
  ASSUME TypeOK, NEW asset \in Monies, NEW from \in FundAccounts,
         NEW to \in FundAccounts, NEW n \in Nat, n <= funds[asset][from],
         funds' = [funds EXCEPT ![asset] = Transfer(@, from, to, n)],
         NEW money \in Monies
  PROVE  Total(funds'[money], FundAccounts) = Total(funds[money], FundAccounts)
<1>1. funds[asset] \in [FundAccounts -> Nat]
  BY DEF TypeOK
<1>2. Total(Transfer(funds[asset], from, to, n), FundAccounts) = Total(funds[asset], FundAccounts)
  BY <1>1, AccountsFinite, TransferConserves
<1>3. /\ funds'[asset] = Transfer(funds[asset], from, to, n)
      /\ money # asset => funds'[money] = funds[money]
  BY DEF TypeOK
<1>. QED  BY <1>2, <1>3

LEMMA FundsStep ==
  ASSUME TypeOK, [Next]_vars, NEW money \in Monies
  PROVE  Total(funds'[money], FundAccounts) = Total(funds[money], FundAccounts)
<1>1. /\ \A asset \in Monies : funds[asset] \in [FundAccounts -> Nat]
      /\ Wallets \subseteq FundAccounts
      /\ "vault_payout" \in FundAccounts /\ "swap_reserve" \in FundAccounts
      /\ "Sol" \in Monies
  BY DEF TypeOK, FundAccounts, Monies, PayoutAssetTypes
<1>2. ASSUME NEW w \in Wallets, NEW y \in YieldAssets, owner_buyout_yield(w, y)
      PROVE  Total(funds'[money], FundAccounts) = Total(funds[money], FundAccounts)
  <2>1. /\ nft[y] \in FundAccounts /\ w \in FundAccounts
        /\ records[y].buyout_price_lamports \in Nat
        /\ records[y].buyout_price_lamports <= funds["Sol"][w]
        /\ funds' = [funds EXCEPT !["Sol"] =
                       Transfer(@, w, nft[y], records[y].buyout_price_lamports)]
    BY <1>1, <1>2, RecordType DEF owner_buyout_yield
  <2>. QED  BY <1>1, <2>1, FundsMove
<1>3. ASSUME NEW w \in Wallets, owner_redeem_principal(w)
      PROVE  Total(funds'[money], FundAccounts) = Total(funds[money], FundAccounts)
  <2>1. /\ w \in FundAccounts
        /\ funds["Sol"]["vault_payout"] \in Nat
        /\ funds["Sol"]["vault_payout"] <= funds["Sol"]["vault_payout"]
        /\ funds' = [funds EXCEPT !["Sol"] =
                       Transfer(@, "vault_payout", w, funds["Sol"]["vault_payout"])]
    BY <1>1, <1>3 DEF owner_redeem_principal
  <2>. QED  BY <1>1, <2>1, FundsMove
<1>4. ASSUME NEW rate \in CustomRates \cup {None}, NEW asset \in Monies,
             NEW destination \in FundAccounts, keeper_execute_swap(rate, asset, destination)
      PROVE  Total(funds'[money], FundAccounts) = Total(funds[money], FundAccounts)
  <2>. DEFINE output == calculate_simulated_swap_output(vault.pending_harvest_amount,
                                                        vault.payout_asset_type, rate)
  <2>1. output \in Nat
    BY VaultType, ChoiceAssumption, SwapOutputType DEF None
  <2>2. /\ funds[asset]["swap_reserve"] >= output
        /\ funds' = [funds EXCEPT ![asset] = Transfer(@, "swap_reserve", destination, output)]
    BY <1>4 DEF keeper_execute_swap
  <2>. HIDE DEF output
  <2>3. funds[asset]["swap_reserve"] \in Nat
    BY <1>1, <2>1
  <2>4. output <= funds[asset]["swap_reserve"]
    BY <2>1, <2>2, <2>3
  <2>. QED  BY <1>1, <2>1, <2>2, <2>4, FundsMove
<1>5. ASSUME NEW asset \in Monies, NEW w \in Wallets, NEW n \in 1 .. funds[asset][w],
             send_funds(asset, w, n)
      PROVE  Total(funds'[money], FundAccounts) = Total(funds[money], FundAccounts)
  <2>1. /\ w \in FundAccounts /\ n \in Nat /\ n <= funds[asset][w]
        /\ funds' = [funds EXCEPT ![asset] = Transfer(@, w, "vault_payout", n)]
    BY <1>1, <1>5 DEF send_funds
  <2>. QED  BY <1>1, <2>1, FundsMove
<1>6. ASSUME NEW asset \in Monies, NEW amount \in 0 .. funds[asset]["vault_payout"],
             NEW listed \in Listings, keeper_distribute_payout(asset, amount, listed)
      PROVE  Total(funds'[money], FundAccounts) = Total(funds[money], FundAccounts)
  BY <1>6, DistributionConserves
<1>. QED
  BY <1>2, <1>3, <1>4, <1>5, <1>6
  DEF Next, OwnerStep, KeeperStep, Swap, Distribute, EnvironmentStep, creator_initialize_vault,
      owner_strip_position, keeper_harvest_dividend, Tick, update_multiplier, transfer_asset,
      burn_asset, create_stock_vault_ata, send_stock, vars

LEMMA StockSumStep ==
  ASSUME TypeOK, [Next]_vars
  PROVE  Total(stock', StockAccounts) = Total(stock, StockAccounts)
<1>1. ASSUME NEW from \in StockAccounts, NEW to \in StockAccounts, NEW n \in Nat,
             n <= stock[from], stock' = Transfer(stock, from, to, n)
      PROVE  Total(stock', StockAccounts) = Total(stock, StockAccounts)
  BY <1>1, AccountsFinite, ProgramAccounts, TransferConserves
<1>2. ASSUME NEW w \in Wallets, NEW kind \in PayoutAssetTypes, NEW holding \in HoldingChoices,
             NEW deed \in DeedAssets, NEW amount \in 1 .. stock[w],
             creator_initialize_vault(w, amount, kind, holding, deed)
      PROVE  Total(stock', StockAccounts) = Total(stock, StockAccounts)
  <2>1. /\ w \in StockAccounts /\ "stock_vault_ata" \in StockAccounts /\ amount \in Nat
        /\ amount <= stock[w] /\ stock' = Transfer(stock, w, "stock_vault_ata", amount)
    BY <1>2, ProgramAccounts DEF creator_initialize_vault
  <2>. QED  BY <1>1, <2>1
<1>3. ASSUME NEW w \in Wallets, owner_redeem_principal(w)
      PROVE  Total(stock', StockAccounts) = Total(stock, StockAccounts)
  <2>1. /\ w \in StockAccounts /\ "stock_vault_ata" \in StockAccounts
        /\ stock["stock_vault_ata"] \in Nat
        /\ stock["stock_vault_ata"] <= stock["stock_vault_ata"]
        /\ stock' = Transfer(stock, "stock_vault_ata", w, stock["stock_vault_ata"])
    BY <1>3, ProgramAccounts DEF owner_redeem_principal
  <2>. QED  BY <1>1, <2>1
<1>4. CASE keeper_harvest_dividend
  <2>. DEFINE active == f64_to_fixed_multiplier(get_effective_multiplier)
              harvest == calculate_harvest_amount(stock["stock_vault_ata"],
                                                  vault.last_multiplier, active)
  <2>1. /\ stock["stock_vault_ata"] \in Nat /\ active \in Nat /\ vault.last_multiplier \in Nat
        /\ "stock_vault_ata" \in StockAccounts /\ "pending_distribution_ata" \in StockAccounts
    BY EffectiveType, VaultType, ProgramAccounts
  <2>2. /\ HarvestDefined(vault.last_multiplier, active)
        /\ stock' = Transfer(stock, "stock_vault_ata", "pending_distribution_ata", harvest)
    BY <1>4 DEF keeper_harvest_dividend
  <2>3. harvest \in Nat /\ harvest <= stock["stock_vault_ata"]
    BY <2>1, <2>2, HarvestDilutesNothing
  <2>. HIDE DEF harvest
  <2>. QED  BY <1>1, <2>1, <2>2, <2>3
<1>5. ASSUME NEW rate, NEW money, NEW destination, keeper_execute_swap(rate, money, destination)
      PROVE  Total(stock', StockAccounts) = Total(stock, StockAccounts)
  <2>1. /\ vault.pending_harvest_amount \in Nat /\ stock["pending_distribution_ata"] \in Nat
        /\ "pending_distribution_ata" \in StockAccounts
        /\ "swap_reserve_stock_ata" \in StockAccounts
    BY VaultType, ProgramAccounts
  <2>2. /\ stock["pending_distribution_ata"] >= vault.pending_harvest_amount
        /\ stock' = Transfer(stock, "pending_distribution_ata", "swap_reserve_stock_ata",
                             vault.pending_harvest_amount)
    BY <1>5 DEF keeper_execute_swap
  <2>3. vault.pending_harvest_amount <= stock["pending_distribution_ata"]
    BY <2>1, <2>2
  <2>. QED  BY <1>1, <2>1, <2>2, <2>3
<1>6. ASSUME NEW w \in Wallets, NEW n \in 1 .. stock[w], send_stock(w, n)
      PROVE  Total(stock', StockAccounts) = Total(stock, StockAccounts)
  <2>1. /\ w \in StockAccounts /\ "stock_vault_ata" \in StockAccounts /\ n \in Nat
        /\ n <= stock[w] /\ stock' = Transfer(stock, w, "stock_vault_ata", n)
    BY <1>6, ProgramAccounts DEF send_stock
  <2>. QED  BY <1>1, <2>1
<1>. QED
  BY <1>2, <1>3, <1>4, <1>5, <1>6
  DEF Next, OwnerStep, KeeperStep, Swap, Distribute, EnvironmentStep, owner_strip_position,
      owner_buyout_yield, keeper_distribute_payout, Tick, update_multiplier, transfer_asset,
      burn_asset, create_stock_vault_ata, send_funds, vars

LEMMA StartConserved ==
  Init => Conserved
<1>. SUFFICES ASSUME Init
              PROVE  Conserved
  OBVIOUS
<1>. DEFINE own == StockAccounts \ Wallets
<1>1. stock \in [StockAccounts -> Nat] /\ Wallets \in SUBSET StockAccounts
  BY StartTypes DEF TypeOK, StockAccounts
<1>2. /\ Total(stock, StockAccounts) = Total(stock, own) + Total(stock, Wallets)
      /\ Total(stock, Wallets) \in Nat
  <2>1. \A a \in StockAccounts : stock[a] \in Nat
    BY <1>1
  <2>. QED  BY <1>1, <2>1, AccountsFinite, TotalWithout
<1>3. Total(stock, own) = 0
  <2>1. \A a \in own : stock[a] = 0
    BY DEF Init
  <2>. QED  BY <2>1, TotalOfNothing
<1>4. Total(stock, Wallets) = Total(StartStock, Wallets)
  <2>1. \A w \in Wallets : stock[w] = StartStock[w]
    BY <1>1 DEF Init
  <2>. QED  BY <2>1, TotalSame
<1>. QED  BY <1>2, <1>3, <1>4 DEF Init, Conserved

LEMMA StepConserved ==
  TypeOK /\ Conserved /\ [Next]_vars => Conserved'
BY FundsStep, StockSumStep DEF Conserved

(* Whatever instructions run, the accounts of the vault, of the reserve and
   of the wallets together hold the stock, USDC and SOL of the start. *)
THEOREM NothingIsMadeOrLost ==
  Spec => []Conserved
BY StartConserved, StepConserved, TypeCorrect, PTL DEF Spec

-----------------------------------------------------------------------------
(* Who is paid.                                                            *)

HasRight(w) ==
  \/ HoldsDeed(w)
  \/ \E y \in Active : nft[y] = w /\ ~is_expired(records[y], clock)

(* Who gains in a distribution has the deed, or a Yield NFT whose record the
   loop has paid. *)
LEMMA DistributionPaysRights ==
  ASSUME TypeOK, NEW asset \in Monies, NEW amount \in 0 .. funds[asset]["vault_payout"],
         NEW listed \in Listings, keeper_distribute_payout(asset, amount, listed),
         NEW money \in Monies, NEW w \in Wallets, funds'[money][w] > funds[money][w]
  PROVE  HasRight(w)
<1>. DEFINE available == funds[asset]["vault_payout"]
            payout == IF amount > 0 THEN amount ELSE available
            times == [y \in YieldAssets |-> TimesPaid(records[y], listed[y])]
            paid == [y \in YieldAssets |->
                       times[y] * calculate_yield_share(payout, records[y].share_bps)]
            income == Income(payout, paid)
            mine == {y \in YieldAssets : nft[y] = w}
<1>1. /\ funds[asset] \in [FundAccounts -> Nat]
      /\ available \in Nat
      /\ w \in FundAccounts /\ w # "vault_payout"
  BY AddressAssumption DEF TypeOK, FundAccounts
<1>2. funds' = [funds EXCEPT ![asset] =
        [a \in FundAccounts |->
           CASE a = "vault_payout" -> available - payout
             [] a \in Wallets -> funds[asset][a] + income[a]
             [] OTHER -> funds[asset][a]]]
  BY DEF keeper_distribute_payout
<1>3. payout \in Nat
  <2>. HIDE DEF available
  <2>. QED  BY <1>1
<1>4. \A y \in mine : times[y] = 0 => paid[y] = 0
  <2>. SUFFICES ASSUME NEW y \in mine, times[y] = 0
                PROVE  times[y] * calculate_yield_share(payout, records[y].share_bps) = 0
    OBVIOUS
  <2>1. calculate_yield_share(payout, records[y].share_bps) \in Nat
    BY <1>3, RecordType, YieldShareBounds
  <2>. HIDE DEF times, payout
  <2>. QED  BY <2>1
<1>5. income[w] = Total(paid, mine) + (IF HoldsDeed(w) THEN payout - Total(paid, YieldAssets) ELSE 0)
  BY DEF Income
<1>. HIDE DEF available, payout, paid, income, mine
<1>6. funds'[asset][w] = funds[asset][w] + income[w] /\ (money # asset => funds'[money] = funds[money])
  BY <1>1, <1>2 DEF TypeOK
<1>7. funds[money] \in [FundAccounts -> Nat] /\ funds[money][w] \in Nat
  BY <1>1 DEF TypeOK
<1>8. CASE \A y \in mine : times[y] = 0
  <2>1. Total(paid, mine) = 0
    BY <1>4, <1>8, TotalOfNothing
  <2>2. HoldsDeed(w)
    BY <1>5, <1>6, <1>7, <2>1
  <2>. QED  BY <2>2 DEF HasRight
<1>9. ASSUME NEW y \in mine, times[y] # 0
      PROVE  HasRight(w)
  <2>1. records[y].is_active /\ ~is_expired(records[y], clock) /\ y \in YieldAssets /\ nft[y] = w
    BY <1>9 DEF TimesPaid, mine
  <2>. QED  BY <2>1 DEF HasRight, Active
<1>. QED  BY <1>8, <1>9

LEMMA PayoutStep ==
  ASSUME TypeOK, [Next]_vars, NEW money \in Monies, NEW w \in Wallets,
         funds'[money]["vault_payout"] < funds[money]["vault_payout"],
         funds'[money][w] > funds[money][w]
  PROVE  HasRight(w)
<1>1. /\ \A asset \in Monies : funds[asset] \in [FundAccounts -> Nat]
      /\ Wallets \subseteq FundAccounts /\ "vault_payout" \notin Wallets
      /\ "vault_payout" \in FundAccounts /\ "swap_reserve" \in FundAccounts
      /\ "Sol" \in Monies
  BY AddressAssumption DEF TypeOK, FundAccounts, Monies, PayoutAssetTypes
<1>2. funds[money]["vault_payout"] \in Nat /\ funds[money][w] \in Nat /\ funds' # funds
  BY <1>1
<1>3. ASSUME NEW asset \in Monies, NEW from \in FundAccounts \ {"vault_payout"},
             NEW to \in FundAccounts, NEW n \in Nat,
             funds' = [funds EXCEPT ![asset] = Transfer(@, from, to, n)]
      PROVE  FALSE
  <2>1. /\ funds'[asset] = Transfer(funds[asset], from, to, n)
        /\ money # asset => funds'[money] = funds[money]
    BY <1>3 DEF TypeOK
  <2>2. money = asset
    BY <1>2, <2>1
  <2>3. CASE from = to
    BY <1>1, <1>2, <2>1, <2>2, <2>3 DEF Transfer
  <2>4. CASE from # to
    <3>1. \/ funds'[asset]["vault_payout"] = funds[asset]["vault_payout"] + n
          \/ funds'[asset]["vault_payout"] = funds[asset]["vault_payout"]
      <4>1. funds[asset] \in [FundAccounts -> Nat] /\ from \in FundAccounts
        BY <1>1
      <4>2. /\ to = "vault_payout" => funds'[asset][to] = funds[asset][to] + n
            /\ \A a \in FundAccounts \ {from, to} : funds'[asset][a] = funds[asset][a]
        BY <2>1, <2>4, <4>1, TransferMoves
      <4>. QED  BY <1>1, <4>2
    <3>. QED  BY <1>2, <2>2, <3>1
  <2>. QED  BY <2>3, <2>4
<1>4. ASSUME NEW v \in Wallets, NEW y \in YieldAssets, owner_buyout_yield(v, y)
      PROVE  FALSE
  <2>1. /\ nft[y] \in FundAccounts /\ v \in FundAccounts \ {"vault_payout"}
        /\ records[y].buyout_price_lamports \in Nat
        /\ funds' = [funds EXCEPT !["Sol"] =
                       Transfer(@, v, nft[y], records[y].buyout_price_lamports)]
    BY <1>1, <1>4, RecordType DEF owner_buyout_yield
  <2>. QED  BY <1>1, <1>3, <2>1
<1>5. ASSUME NEW v \in Wallets, owner_redeem_principal(v)
      PROVE  HasRight(w)
  <2>1. /\ v \in FundAccounts /\ v # "vault_payout"
        /\ funds["Sol"] \in [FundAccounts -> Nat]
        /\ funds["Sol"]["vault_payout"] \in Nat
    BY <1>1
  <2>2. funds' = [funds EXCEPT !["Sol"] = Transfer(@, "vault_payout", v, @["vault_payout"])]
    BY <1>5 DEF owner_redeem_principal
  <2>3. /\ funds'["Sol"] = Transfer(funds["Sol"], "vault_payout", v, funds["Sol"]["vault_payout"])
        /\ money # "Sol" => funds'[money] = funds[money]
    BY <1>1, <2>2 DEF TypeOK
  <2>4. \A a \in FundAccounts \ {"vault_payout", v} : funds'["Sol"][a] = funds["Sol"][a]
    BY <1>1, <2>1, <2>3, TransferMoves
  <2>5. w = v
    BY <1>1, <1>2, <2>3, <2>4
  <2>. QED  BY <1>5, <2>5 DEF owner_redeem_principal, HasRight
<1>6. ASSUME NEW rate \in CustomRates \cup {None}, NEW asset \in Monies,
             NEW destination \in FundAccounts, keeper_execute_swap(rate, asset, destination)
      PROVE  FALSE
  <2>. DEFINE output == calculate_simulated_swap_output(vault.pending_harvest_amount,
                                                        vault.payout_asset_type, rate)
  <2>1. output \in Nat
    BY VaultType, ChoiceAssumption, SwapOutputType DEF None
  <2>2. funds' = [funds EXCEPT ![asset] = Transfer(@, "swap_reserve", destination, output)]
    BY <1>6 DEF keeper_execute_swap
  <2>. HIDE DEF output
  <2>. QED  BY <1>1, <1>3, <2>1, <2>2
<1>7. ASSUME NEW asset \in Monies, NEW v \in Wallets, NEW n \in 1 .. funds[asset][v],
             send_funds(asset, v, n)
      PROVE  FALSE
  <2>1. /\ v \in FundAccounts \ {"vault_payout"} /\ n \in Nat
        /\ funds' = [funds EXCEPT ![asset] = Transfer(@, v, "vault_payout", n)]
    BY <1>1, <1>7 DEF send_funds
  <2>. QED  BY <1>1, <1>3, <2>1
<1>8. ASSUME NEW asset \in Monies, NEW amount \in 0 .. funds[asset]["vault_payout"],
             NEW listed \in Listings, keeper_distribute_payout(asset, amount, listed)
      PROVE  HasRight(w)
  BY <1>8, DistributionPaysRights
<1>. QED
  BY <1>2, <1>4, <1>5, <1>6, <1>7, <1>8
  DEF Next, OwnerStep, KeeperStep, Swap, Distribute, EnvironmentStep, creator_initialize_vault,
      owner_strip_position, keeper_harvest_dividend, Tick, update_multiplier, transfer_asset,
      burn_asset, create_stock_vault_ata, send_stock, vars

(* No list of triples, stale or repeated, gets a payout to a wallet that had
   no right to one when it was paid. *)
THEOREM OnlyRightsArePaid ==
  Spec => PayoutsReachRightsHolders
<1>1. TypeOK /\ [Next]_vars =>
        [\A money \in Monies, w \in Wallets :
           /\ funds'[money]["vault_payout"] < funds[money]["vault_payout"]
           /\ funds'[money][w] > funds[money][w]
           => HasRight(w)]_vars
  BY PayoutStep
<1>. QED  BY <1>1, TypeCorrect, PTL DEF Spec, PayoutsReachRightsHolders, HasRight

-----------------------------------------------------------------------------
(* How positions end.                                                      *)

EndedByExpiry(y) == is_expired(records'[y], clock)
EndedByBuyout(y) ==
  /\ nft'[y] = "burned"
  /\ \E owner \in Wallets :
       /\ HoldsDeed(owner)
       /\ funds'["Sol"] = Transfer(funds["Sol"], owner, nft[y], records[y].buyout_price_lamports)
TermsKept(y) ==
  /\ records'[y].is_active => records[y].is_active
  /\ records'[y].share_bps = records[y].share_bps
  /\ records'[y].expiry_condition = records[y].expiry_condition
  /\ records'[y].buyout_price_lamports = records[y].buyout_price_lamports
PositionKept(y) ==
  /\ records[y].is_active /\ ~records'[y].is_active => EndedByExpiry(y) \/ EndedByBuyout(y)
  /\ nft[y] # "unminted" => TermsKept(y)

LEMMA PositionStep ==
  ASSUME TypeOK, [Next]_vars, NEW y \in YieldAssets
  PROVE  PositionKept(y)
<1>1. records[y] \in YieldRecord
  BY RecordType
<1>2. ASSUME records'[y] = records[y]
      PROVE  PositionKept(y)
  BY <1>2 DEF PositionKept, TermsKept
<1>3. ASSUME NEW w \in Wallets, NEW r \in Wallets, NEW z \in YieldAssets,
             NEW share \in ShareChoices, NEW expiry \in ExpiryChoices, NEW price \in PriceChoices,
             owner_strip_position(w, z, r, share, expiry, price)
      PROVE  PositionKept(y)
  <2>1. CASE y = z
    BY <1>3, <2>1 DEF owner_strip_position, TypeOK, PositionKept
  <2>2. CASE y # z
    BY <1>2, <1>3, <2>2 DEF owner_strip_position, TypeOK
  <2>. QED  BY <2>1, <2>2
<1>4. ASSUME NEW w \in Wallets, NEW z \in YieldAssets, owner_buyout_yield(w, z)
      PROVE  PositionKept(y)
  <2>1. CASE y = z
    <3>1. TermsKept(y)
      BY <1>1, <1>4, <2>1 DEF owner_buyout_yield, TypeOK, YieldRecord, TermsKept
    <3>2. nft'[y] = "burned"
      BY <1>4, <2>1 DEF owner_buyout_yield, TypeOK, Assets
    <3>3. funds'["Sol"] = Transfer(funds["Sol"], w, nft[y], records[y].buyout_price_lamports)
      BY <1>4, <2>1 DEF owner_buyout_yield, TypeOK, Monies, PayoutAssetTypes
    <3>4. EndedByBuyout(y)
      BY <1>4, <3>2, <3>3 DEF owner_buyout_yield, EndedByBuyout
    <3>. QED  BY <3>1, <3>4 DEF PositionKept
  <2>2. CASE y # z
    BY <1>2, <1>4, <2>2 DEF owner_buyout_yield, TypeOK
  <2>. QED  BY <2>1, <2>2
<1>5. ASSUME NEW money, NEW amount, NEW listed \in Listings,
             keeper_distribute_payout(money, amount, listed)
      PROVE  PositionKept(y)
  <2>1. /\ records'[y] = AfterTriples(records[y], listed[y]) /\ records'[y] \in YieldRecord
        /\ records'[y].share_bps = records[y].share_bps
        /\ records'[y].expiry_condition = records[y].expiry_condition
        /\ records'[y].is_active => records[y].is_active
    BY <1>5, DistributionLeaves
  <2>2. records'[y].buyout_price_lamports = records[y].buyout_price_lamports
    BY <1>1, <2>1 DEF AfterTriples, YieldRecord
  <2>3. ASSUME records[y].is_active, ~records'[y].is_active
        PROVE  EndedByExpiry(y)
    <3>. DEFINE counted == [records[y] EXCEPT !.payouts_received_count =
                                                @ + TimesPaid(records[y], listed[y])]
    <3>1. is_expired(counted, clock)
      BY <1>1, <2>1, <2>3 DEF AfterTriples, YieldRecord
    <3>2. /\ records'[y].expiry_condition = counted.expiry_condition
          /\ records'[y].payouts_received_count = counted.payouts_received_count
      BY <1>1, <2>1 DEF AfterTriples, YieldRecord
    <3>. HIDE DEF counted
    <3>. QED  BY <3>1, <3>2 DEF is_expired, EndedByExpiry
  <2>. QED  BY <2>1, <2>2, <2>3 DEF PositionKept, TermsKept
<1>6. CASE records' = records
  BY <1>2, <1>6
<1>. QED
  BY <1>3, <1>4, <1>5, <1>6
  DEF Next, OwnerStep, KeeperStep, Swap, Distribute, EnvironmentStep, creator_initialize_vault,
      owner_redeem_principal, keeper_harvest_dividend, keeper_execute_swap, Tick,
      update_multiplier, transfer_asset, burn_asset, create_stock_vault_ata, send_stock,
      send_funds, vars

(* A position ends by its own condition or for the price agreed, and its terms
   are those it was stripped with for as long as its record exists. *)
THEOREM PositionsKeepTheirTerms ==
  Spec => PositionsEndByTheirTerms
<1>1. TypeOK /\ [Next]_vars =>
        [\A y \in YieldAssets :
           /\ records[y].is_active /\ ~records'[y].is_active =>
                \/ EndedByExpiry(y)
                \/ EndedByBuyout(y)
           /\ nft[y] # "unminted" => TermsKept(y)]_vars
  BY PositionStep DEF PositionKept
<1>. QED
  BY <1>1, TypeCorrect, PTL
  DEF Spec, PositionsEndByTheirTerms, TermsKept, EndedByExpiry, EndedByBuyout
-----------------------------------------------------------------------------
(* What a distribution to every right pays.                                *)

(* The keeper's list has every due position paid once, and no other. *)
LEMMA ListedOnce ==
  ASSUME TypeOK, NEW y \in YieldAssets
  PROVE  /\ KeeperListing[y] \in {0, 1}
         /\ TimesPaid(records[y], KeeperListing[y]) = IF y \in Due THEN 1 ELSE 0
<1>1. /\ records[y].payouts_received_count \in Nat
      /\ records[y].expiry_condition.limit \in Nat
      /\ records[y].is_active \in BOOLEAN
  BY RecordType, LimitAssumption
<1>2. y \in Active <=> records[y].is_active
  BY DEF Active
<1>3. y \in Due <=> y \in Active /\ nft[y] \in Wallets /\ ~is_expired(records[y], clock)
  BY DEF Due
<1>4. KeeperListing[y] = IF y \in Active /\ (nft[y] \in Wallets \/ is_expired(records[y], clock))
                         THEN 1 ELSE 0
  BY DEF KeeperListing
<1>5. CASE ~records[y].is_active \/ is_expired(records[y], clock)
  BY <1>2, <1>3, <1>4, <1>5 DEF TimesPaid
<1>6. CASE records[y].is_active /\ ~is_expired(records[y], clock)
  <2>1. records[y].expiry_condition.kind = "PayoutCount"
          => 1 <= records[y].expiry_condition.limit - records[y].payouts_received_count
    BY <1>1, <1>6 DEF is_expired
  <2>2. KeeperListing[y] = IF y \in Due THEN 1 ELSE 0
    BY <1>2, <1>3, <1>4, <1>6
  <2>. QED  BY <1>1, <1>6, <2>1, <2>2 DEF TimesPaid
<1>. QED  BY <1>5, <1>6

(* A position that is listed once, or was not to be listed, is active
   afterwards exactly if it was and has not expired by then. *)
LEMMA ListedOnceAfter ==
  ASSUME TypeOK, NEW y \in YieldAssets,
         records[y].payouts_received_count + TimesPaid(records[y], KeeperListing[y]) <= U32_MAX
  PROVE  LET after == AfterTriples(records[y], KeeperListing[y])
         IN  /\ after.payouts_received_count
                  = records[y].payouts_received_count + (IF y \in Due THEN 1 ELSE 0)
             /\ after.is_active <=> y \in Active /\ ~is_expired(after, clock)
<1>. DEFINE n == KeeperListing[y]
            after == AfterTriples(records[y], n)
            counted == [records[y] EXCEPT !.payouts_received_count = @ + TimesPaid(records[y], n)]
<1>1. n \in {0, 1} /\ TimesPaid(records[y], n) = IF y \in Due THEN 1 ELSE 0
  BY ListedOnce
<1>2. records[y] \in YieldRecord /\ records[y].payouts_received_count \in Nat
  BY RecordType, LimitAssumption
<1>3. y \in Active <=> records[y].is_active
  BY DEF Active
<1>4. n = 0 => (y \in Active => ~is_expired(records[y], clock)) /\ y \notin Due
  BY DEF KeeperListing, Due
<1>. HIDE DEF n
<1>5. /\ after.payouts_received_count
           = records[y].payouts_received_count + TimesPaid(records[y], n)
      /\ after.expiry_condition = records[y].expiry_condition
  BY <1>1, AfterTriplesType DEF n
<1>6. after.is_active <=> records[y].is_active /\ (n > 0 => ~is_expired(counted, clock))
  BY <1>2 DEF AfterTriples, YieldRecord
<1>7. /\ counted.expiry_condition = after.expiry_condition
      /\ counted.payouts_received_count = after.payouts_received_count
  BY <1>2, <1>5 DEF YieldRecord
<1>. HIDE DEF counted, after
<1>8. is_expired(counted, clock) <=> is_expired(after, clock)
  BY <1>7 DEF is_expired
<1>9. n = 0 => (is_expired(after, clock) <=> is_expired(records[y], clock))
  <2>1. n = 0 => after.payouts_received_count = records[y].payouts_received_count
    BY <1>1, <1>2, <1>4, <1>5
  <2>. QED  BY <1>5, <2>1 DEF is_expired
<1>10. after.payouts_received_count
         = records[y].payouts_received_count + (IF y \in Due THEN 1 ELSE 0)
  BY <1>1, <1>5
<1>11. after.is_active <=> y \in Active /\ ~is_expired(after, clock)
  <2>1. CASE n = 0
    BY <1>3, <1>4, <1>6, <1>9, <2>1
  <2>2. CASE n = 1
    BY <1>3, <1>6, <1>8, <2>2
  <2>. QED  BY <1>1, <2>1, <2>2
<1>. QED  BY <1>10, <1>11 DEF after, n

(* The least that the holder of the deed gets of such a payout. *)
LEMMA RestCoversUnallocated ==
  ASSUME IInv, NEW payout \in Nat,
         NEW part, \A y \in YieldAssets : part[y] = calculate_yield_share(payout, records[y].share_bps)
  PROVE  /\ Total(part, Due) \in Nat
         /\ Total(part, Due) <= Total(part, Active)
         /\ payout - Total(part, Due)
              >= calculate_yield_share(payout, MAX_YIELD_BPS - vault.total_yield_allocated_bps)
<1>. DEFINE allocated == vault.total_yield_allocated_bps
            free == MAX_YIELD_BPS - allocated
            due == Total(part, Due)
            all == Total(part, Active)
            unit == calculate_yield_share(payout, free)
<1>1. /\ allocated \in Nat /\ free \in Nat /\ allocated + free = MAX_YIELD_BPS
      /\ MAX_YIELD_BPS \in Nat \ {0}
  BY VaultType, MAX_YIELD_BPSAssumption DEF IInv
<1>2. /\ IsFiniteSet(Active) /\ \A y \in Active : part[y] \in Nat
      /\ all \in Nat /\ all * MAX_YIELD_BPS <= allocated * payout
  BY SharesWithinAllocation DEF Active
<1>3. due \in Nat /\ due <= all
  <2>1. Due \in SUBSET Active
    BY DEF Due
  <2>2. all = Total(part, Active \ Due) + due /\ Total(part, Active \ Due) \in Nat /\ due \in Nat
    BY <1>2, <2>1, TotalWithout
  <2>. QED  BY <2>2
<1>4. unit \in Nat /\ unit * MAX_YIELD_BPS <= payout * free
  BY <1>1, YieldShareBounds
<1>. HIDE DEF allocated, free, due, all, unit
<1>5. due * MAX_YIELD_BPS <= all * MAX_YIELD_BPS
  BY <1>1, <1>2, <1>3, ProductMonotone
<1>6. /\ due * MAX_YIELD_BPS \in Nat /\ all * MAX_YIELD_BPS \in Nat /\ unit * MAX_YIELD_BPS \in Nat
      /\ allocated * payout \in Nat /\ payout * free \in Nat /\ payout * MAX_YIELD_BPS \in Nat
  BY <1>1, <1>2, <1>3, <1>4, ProductType
<1>7. /\ payout * MAX_YIELD_BPS = allocated * payout + payout * free
      /\ (unit + due) * MAX_YIELD_BPS = unit * MAX_YIELD_BPS + due * MAX_YIELD_BPS
  BY <1>1, <1>3, <1>4
<1>8. (unit + due) * MAX_YIELD_BPS <= payout * MAX_YIELD_BPS
  BY <1>2, <1>4, <1>5, <1>6, <1>7
<1>9. unit + due <= payout
  <2>1. unit + due \in Nat
    BY <1>3, <1>4
  <2>. QED  BY <1>1, <1>8, <2>1, ProductCancel
<1>. QED  BY <1>3, <1>4, <1>9 DEF allocated, free, due, all, unit

(* To whom a distribution to every right goes, and how the records stand. *)
LEMMA KeeperPays ==
  ASSUME IInv, NEW asset \in Monies, keeper_distribute_payout(asset, 0, KeeperListing)
  PROVE  LET payout == funds[asset]["vault_payout"]
             part == [y \in YieldAssets |-> calculate_yield_share(payout, Shares[y])]
             rest == payout - Total(part, Due)
             unallocated == MAX_YIELD_BPS - vault.total_yield_allocated_bps
         IN  /\ \A w \in Wallets :
                  funds'[asset][w] = funds[asset][w] + Total(part, {y \in Due : nft[y] = w})
                                       + (IF HoldsDeed(w) THEN rest ELSE 0)
             /\ rest >= calculate_yield_share(payout, unallocated)
             /\ \A y \in YieldAssets :
                  /\ records'[y].payouts_received_count
                       = records[y].payouts_received_count + (IF y \in Due THEN 1 ELSE 0)
                  /\ records'[y].is_active <=> y \in Active /\ ~is_expired(records'[y], clock)
<1>. DEFINE payout == funds[asset]["vault_payout"]
            part == [y \in YieldAssets |-> calculate_yield_share(payout, Shares[y])]
            unallocated == MAX_YIELD_BPS - vault.total_yield_allocated_bps
            times == [y \in YieldAssets |-> TimesPaid(records[y], KeeperListing[y])]
            paid == [y \in YieldAssets |->
                       times[y] * calculate_yield_share(payout, records[y].share_bps)]
            income == Income(payout, paid)
            after == [a \in FundAccounts |->
                        CASE a = "vault_payout" -> payout - payout
                          [] a \in Wallets -> funds[asset][a] + income[a]
                          [] OTHER -> funds[asset][a]]
            OfHolder(w) == {y \in Due : nft[y] = w}
<1>1. TypeOK /\ funds[asset] \in [FundAccounts -> Nat] /\ payout \in Nat
  BY DEF IInv, TypeOK, FundAccounts
<1>2. /\ funds' = [funds EXCEPT ![asset] = after]
      /\ \A y \in YieldAssets :
           /\ records[y].payouts_received_count + times[y] <= U32_MAX
           /\ records'[y] = AfterTriples(records[y], KeeperListing[y])
  BY DEF keeper_distribute_payout
<1>3. \A y \in YieldAssets : part[y] = calculate_yield_share(payout, records[y].share_bps)
  BY DEF Shares
<1>4. \A y \in YieldAssets : part[y] \in Nat /\ paid[y] = IF y \in Due THEN part[y] ELSE 0
  <2>. SUFFICES ASSUME NEW y \in YieldAssets
                PROVE  part[y] \in Nat /\ paid[y] = IF y \in Due THEN part[y] ELSE 0
    OBVIOUS
  <2>1. times[y] = IF y \in Due THEN 1 ELSE 0
    BY <1>1, ListedOnce
  <2>2. part[y] \in Nat
    <3>. HIDE DEF payout, part
    <3>. QED  BY <1>1, <1>3, RecordType, YieldShareBounds
  <2>3. paid[y] = times[y] * part[y]
    BY <1>3
  <2>. HIDE DEF times, part, paid
  <2>. QED  BY <2>1, <2>2, <2>3
<1>5. IsFiniteSet(YieldAssets) /\ Due \in SUBSET YieldAssets /\ \A y \in YieldAssets : paid[y] \in Nat
  <2>. HIDE DEF paid, part
  <2>. QED  BY <1>4, AddressAssumption DEF Due, Active
<1>. HIDE DEF payout, part, unallocated, times, paid
<1>6. Total(paid, YieldAssets) = Total(part, Due)
  BY <1>4, <1>5, TotalOfPart
<1>7. /\ Total(part, Due) \in Nat
      /\ payout - Total(part, Due) >= calculate_yield_share(payout, unallocated)
  BY <1>1, <1>3, RestCoversUnallocated DEF unallocated
<1>8. ASSUME NEW w \in Wallets
      PROVE  funds'[asset][w] = funds[asset][w] + Total(part, OfHolder(w))
                                  + (IF HoldsDeed(w) THEN payout - Total(part, Due) ELSE 0)
  <2>1. Total(paid, {y \in YieldAssets : nft[y] = w}) = Total(part, OfHolder(w))
    <3>. DEFINE held == {y \in YieldAssets : nft[y] = w}
                due == OfHolder(w)
    <3>1. /\ IsFiniteSet(held) /\ due \in SUBSET held
          /\ \A y \in held : paid[y] \in Nat
          /\ \A y \in held \ due : paid[y] = 0
          /\ \A y \in due : paid[y] = part[y]
      BY <1>4, <1>5, FS_Subset
    <3>. HIDE DEF held, due
    <3>2. Total(paid, held) = Total(part, due)
      BY <3>1, TotalOfPart
    <3>. QED  BY <3>2 DEF held, due
  <2>2. income[w] = Total(part, OfHolder(w))
                      + (IF HoldsDeed(w) THEN payout - Total(part, Due) ELSE 0)
    BY <1>6, <2>1 DEF Income
  <2>3. w \in FundAccounts /\ w # "vault_payout"
    BY AddressAssumption DEF FundAccounts
  <2>4. funds'[asset][w] = funds[asset][w] + income[w]
    BY <1>1, <1>2, <2>3 DEF TypeOK
  <2>5. Total(part, OfHolder(w)) \in Nat /\ funds[asset][w] \in Nat
    <3>1. IsFiniteSet(OfHolder(w)) /\ \A y \in OfHolder(w) : part[y] \in Nat
      BY <1>4, <1>5, FS_Subset
    <3>. QED  BY <1>1, <2>3, <3>1, TotalType
  <2>. HIDE DEF income, OfHolder
  <2>. QED  BY <1>1, <1>7, <2>2, <2>4, <2>5
<1>9. \A y \in YieldAssets :
        /\ records'[y].payouts_received_count
             = records[y].payouts_received_count + (IF y \in Due THEN 1 ELSE 0)
        /\ records'[y].is_active <=> y \in Active /\ ~is_expired(records'[y], clock)
  BY <1>1, <1>2, ListedOnceAfter DEF times
<1>. QED  BY <1>7, <1>8, <1>9 DEF payout, part, unallocated, OfHolder

(* A keeper that names every position pays every right, for any number of
   positions and any rounding: what the program leaves to the caller is the
   list and nothing else. *)
THEOREM KeeperPaysAll ==
  Spec => KeeperPaysEveryRight
<1>1. IInv => (\A money \in Monies : keeper_distribute_payout(money, 0, KeeperListing) =>
        LET payout == funds[money]["vault_payout"]
            part == [y \in YieldAssets |-> calculate_yield_share(payout, Shares[y])]
            rest == payout - Total(part, Due)
            unallocated == MAX_YIELD_BPS - vault.total_yield_allocated_bps
        IN  /\ \A w \in Wallets :
                 funds'[money][w] = funds[money][w] + Total(part, {y \in Due : nft[y] = w})
                                      + (IF HoldsDeed(w) THEN rest ELSE 0)
            /\ rest >= calculate_yield_share(payout, unallocated)
            /\ \A y \in YieldAssets :
                 /\ records'[y].payouts_received_count
                      = records[y].payouts_received_count + (IF y \in Due THEN 1 ELSE 0)
                 /\ records'[y].is_active <=> y \in Active /\ ~is_expired(records'[y], clock))
  BY KeeperPays
<1>. QED  BY <1>1, Safe, PTL DEF KeeperPaysEveryRight

-----------------------------------------------------------------------------
(* What the liveness properties rest on: the instruction that each waits    *)
(* for is possible for as long as it waits.  An instruction determines      *)
(* everything it changes, so it is possible exactly when its checks pass;   *)
(* the lemmas below take each of the four apart into the two.               *)

MayDistribute(money, total_payout_amount, listed) ==
  LET available == funds[money]["vault_payout"]
      payout == IF total_payout_amount > 0 THEN total_payout_amount ELSE available
      times == [y \in YieldAssets |-> TimesPaid(records[y], listed[y])]
      paid == [y \in YieldAssets |->
                 times[y] * calculate_yield_share(payout, records[y].share_bps)]
  IN  /\ \E owner \in Wallets : HoldsDeed(owner)
      /\ money \in PayoutSources
      /\ payout > 0
      /\ payout <= available
      /\ \A y \in YieldAssets : listed[y] > 0 => nft[y] # "unminted"
      /\ \A y \in YieldAssets : times[y] > 0 => nft[y] \in Wallets
      /\ \A y \in YieldAssets : records[y].payouts_received_count + times[y] <= U32_MAX
      /\ Total(paid, YieldAssets) <= payout

Distributed(money, total_payout_amount, listed) ==
  LET available == funds[money]["vault_payout"]
      payout == IF total_payout_amount > 0 THEN total_payout_amount ELSE available
      times == [y \in YieldAssets |-> TimesPaid(records[y], listed[y])]
      paid == [y \in YieldAssets |->
                 times[y] * calculate_yield_share(payout, records[y].share_bps)]
      after == [y \in YieldAssets |-> AfterTriples(records[y], listed[y])]
      shares == [y \in YieldAssets |-> records[y].share_bps]
      income == Income(payout, paid)
  IN  <<clock, mint,
        [vault EXCEPT !.total_yield_allocated_bps =
                        saturating_sub(@, Total(shares, Reverted(after)))],
        after, nft, stock, ata_exists,
        [funds EXCEPT ![money] =
           [a \in FundAccounts |->
              CASE a = "vault_payout" -> available - payout
                [] a \in Wallets -> funds[money][a] + income[a]
                [] OTHER -> funds[money][a]]],
        principal>>

LEMMA DistributionApart ==
  ASSUME NEW money, NEW amount, NEW listed
  PROVE  keeper_distribute_payout(money, amount, listed)
           <=> /\ MayDistribute(money, amount, listed)
               /\ vars' = Distributed(money, amount, listed)
BY DEF keeper_distribute_payout, MayDistribute, Distributed, vars

MaySwap(custom_rate, money, destination) ==
  LET payout_amount ==
        calculate_simulated_swap_output(vault.pending_harvest_amount, vault.payout_asset_type,
                                        custom_rate)
  IN  /\ vault.open
      /\ vault.pending_harvest_amount > 0
      /\ payout_amount <= U64_MAX
      /\ stock["pending_distribution_ata"] >= vault.pending_harvest_amount
      /\ <<money, destination>> \in SwapDestinations
      /\ funds[money]["swap_reserve"] >= payout_amount
      /\ MayDebitReserve(destination, payout_amount)

Swapped(custom_rate, money, destination) ==
  LET payout_amount ==
        calculate_simulated_swap_output(vault.pending_harvest_amount, vault.payout_asset_type,
                                        custom_rate)
  IN  <<clock, mint, VaultAfterSwap, records, nft,
        Transfer(stock, "pending_distribution_ata", "swap_reserve_stock_ata",
                 vault.pending_harvest_amount),
        ata_exists,
        [funds EXCEPT ![money] = Transfer(@, "swap_reserve", destination, payout_amount)],
        principal>>

LEMMA SwapApart ==
  ASSUME NEW rate, NEW money, NEW destination
  PROVE  keeper_execute_swap(rate, money, destination)
           <=> MaySwap(rate, money, destination) /\ vars' = Swapped(rate, money, destination)
BY DEF keeper_execute_swap, MaySwap, Swapped, vars

MayBuyOut(owner, yield) ==
  /\ HoldsDeed(owner)
  /\ records[yield].is_active
  /\ nft[yield] \in Wallets
  /\ records[yield].buyout_price_lamports <= funds["Sol"][owner]

BoughtOut(owner, yield) ==
  <<clock, mint,
    [vault EXCEPT !.total_yield_allocated_bps = saturating_sub(@, records[yield].share_bps)],
    [records EXCEPT ![yield].is_active = FALSE],
    [nft EXCEPT ![yield] = "burned"],
    stock, ata_exists,
    [funds EXCEPT !["Sol"] =
       Transfer(@, owner, nft[yield], records[yield].buyout_price_lamports)],
    principal>>

LEMMA BuyoutApart ==
  ASSUME NEW owner, NEW yield
  PROVE  owner_buyout_yield(owner, yield)
           <=> MayBuyOut(owner, yield) /\ vars' = BoughtOut(owner, yield)
BY DEF owner_buyout_yield, MayBuyOut, BoughtOut, vars

MayRedeem(owner) == HoldsDeed(owner) /\ AllUnwound

Redeemed(owner) ==
  <<clock, mint, NoVault, records,
    [nft EXCEPT ![vault.master_deed_asset] = "burned"],
    Transfer(stock, "stock_vault_ata", owner, stock["stock_vault_ata"]),
    FALSE,
    [funds EXCEPT !["Sol"] = Transfer(@, "vault_payout", owner, @["vault_payout"])],
    0>>

LEMMA RedemptionApart ==
  ASSUME NEW owner
  PROVE  owner_redeem_principal(owner) <=> MayRedeem(owner) /\ vars' = Redeemed(owner)
BY DEF owner_redeem_principal, MayRedeem, Redeemed, vars

(* A payout that waits, and counts that have room for one more. *)
PayoutWaits(asset) ==
  DeedIsHeld /\ vault.payout_asset_type = asset /\ funds[asset]["vault_payout"] > 0

RoomToCount ==
  \A y \in Active :
    \/ records[y].payouts_received_count < U32_MAX
    \/ /\ records[y].expiry_condition.kind = "PayoutCount"
       /\ records[y].expiry_condition.limit <= U32_MAX

LEMMA WaitingIsPossible ==
  ASSUME IInv, RoomToCount, NEW asset \in PayoutAssetTypes, PayoutWaits(asset)
  PROVE  MayDistribute(asset, 0, KeeperListing)
<1>. DEFINE payout == funds[asset]["vault_payout"]
            times == [y \in YieldAssets |-> TimesPaid(records[y], KeeperListing[y])]
            part == [y \in YieldAssets |-> calculate_yield_share(payout, records[y].share_bps)]
            paid == [y \in YieldAssets |->
                       times[y] * calculate_yield_share(payout, records[y].share_bps)]
<1>1. TypeOK /\ payout \in Nat /\ payout > 0 /\ asset = vault.payout_asset_type
  BY DEF IInv, TypeOK, FundAccounts, Monies, PayoutWaits
<1>2. \A y \in YieldAssets : times[y] = IF y \in Due THEN 1 ELSE 0
  BY <1>1, ListedOnce
<1>3. \A y \in YieldAssets : KeeperListing[y] > 0 => nft[y] # "unminted"
  BY DEF KeeperListing, IInv, AllocationExact
<1>4. \A y \in YieldAssets : times[y] > 0 => nft[y] \in Wallets
  BY <1>2 DEF Due
<1>5. ASSUME NEW y \in YieldAssets
      PROVE  records[y].payouts_received_count + times[y] <= U32_MAX
  <2>1. /\ records[y].payouts_received_count \in 0 .. U32_MAX /\ U32_MAX \in Nat
        /\ records[y].expiry_condition.limit \in Nat
    BY <1>1, RecordType, LimitAssumption
  <2>2. CASE y \notin Due
    BY <1>2, <2>1, <2>2
  <2>3. CASE y \in Due
    <3>1. records[y].expiry_condition.kind = "PayoutCount"
            => records[y].payouts_received_count < records[y].expiry_condition.limit
      BY <2>1, <2>3 DEF Due, is_expired
    <3>2. records[y].payouts_received_count < U32_MAX
      BY <2>1, <2>3, <3>1 DEF RoomToCount, Due
    <3>. QED  BY <1>2, <2>1, <2>3, <3>2
  <2>. QED  BY <2>2, <2>3
<1>6. Total(paid, YieldAssets) <= payout
  <2>1. \A y \in YieldAssets : part[y] = calculate_yield_share(payout, records[y].share_bps)
    OBVIOUS
  <2>. HIDE DEF part, payout
  <2>2. /\ IsFiniteSet(Active) /\ \A y \in YieldAssets : part[y] \in Nat
        /\ Total(part, Active) \in Nat
    BY <1>1, <2>1, SharesWithinAllocation
  <2>3. \A y \in YieldAssets : paid[y] = IF y \in Due THEN part[y] ELSE 0
    <3>. SUFFICES ASSUME NEW y \in YieldAssets
                  PROVE  paid[y] = IF y \in Due THEN part[y] ELSE 0
      OBVIOUS
    <3>1. times[y] = IF y \in Due THEN 1 ELSE 0
      BY <1>2
    <3>2. paid[y] = times[y] * part[y] /\ part[y] \in Nat
      BY <2>1, <2>2
    <3>. HIDE DEF times, paid
    <3>. QED  BY <3>1, <3>2
  <2>4. IsFiniteSet(YieldAssets) /\ Due \in SUBSET YieldAssets
    BY AddressAssumption DEF Due, Active
  <2>. HIDE DEF paid
  <2>5. \A y \in YieldAssets : paid[y] \in Nat
    BY <2>2, <2>3
  <2>6. Total(paid, YieldAssets) = Total(part, Due)
    BY <2>3, <2>4, <2>5, TotalOfPart
  <2>7. Total(part, Due) \in Nat /\ Total(part, Due) <= Total(part, Active)
    BY <1>1, <2>1, RestCoversUnallocated
  <2>8. payout \in 0 .. funds[asset]["vault_payout"] /\ asset \in Monies
    BY <1>1 DEF payout, Monies
  <2>9. Total([y \in YieldAssets |-> calculate_yield_share(payout, records[y].share_bps)], Active)
          <= payout
    BY <2>8, SharesFit DEF SharesFitThePayout
  <2>10. Total(part, Active) <= payout
    BY <2>9 DEF part
  <2>. QED  BY <1>1, <2>2, <2>6, <2>7, <2>10
<1>7. \E owner \in Wallets : HoldsDeed(owner)
  BY DEF PayoutWaits, DeedIsHeld
<1>. HIDE DEF times
<1>8. payout <= payout /\ asset \in PayoutSources
  BY <1>1 DEF PayoutSources, TokenMints, Monies, PayoutAssetTypes
<1>. QED  BY <1>1, <1>3, <1>4, <1>5, <1>6, <1>7, <1>8 DEF MayDistribute, times

(* No position that the keeper lists, expired, traded, burned or completed,
   can stop a distribution: whenever a payout waits and no count without an
   end has reached its limit, the keeper's instruction goes through. *)
THEOREM PayoutCanBeDistributed ==
  Spec => [](\A asset \in PayoutAssetTypes :
               PayoutWaits(asset) /\ RoomToCount => MayDistribute(asset, 0, KeeperListing))
<1>1. IInv => \A asset \in PayoutAssetTypes :
                PayoutWaits(asset) /\ RoomToCount => MayDistribute(asset, 0, KeeperListing)
  BY WaitingIsPossible
<1>. QED  BY <1>1, Safe, PTL

(* Whenever a swap of a USDC vault is due and the reserve can pay, it goes
   through, into whatever account the vault's creator named, if there is no
   more of that token than an account can hold: nothing that happens between
   harvests and swaps takes the pending stock away. *)
THEOREM PendingCanBeSwapped ==
  ASSUME \A money \in Monies : Total(StartFunds[money], FundAccounts) <= U64_MAX
  PROVE  Spec => [](Swappable("Usdc") =>
                      \E money \in Monies, to \in FundAccounts : MaySwap(None, money, to))
<1>1. IInv /\ Conserved =>
        (Swappable("Usdc") => \E money \in Monies, to \in FundAccounts : MaySwap(None, money, to))
  <2>. SUFFICES ASSUME IInv, Conserved, Swappable("Usdc")
                PROVE  \E money \in Monies, to \in FundAccounts : MaySwap(None, money, to)
    OBVIOUS
  <2>. DEFINE output ==
         calculate_simulated_swap_output(vault.pending_harvest_amount, "Usdc", None)
              coin == vault.payout_holding_ata[1]
              to == vault.payout_holding_ata[2]
  <2>1. /\ vault.open /\ vault.payout_asset_type = "Usdc"
        /\ vault.pending_harvest_amount > 0
        /\ coin \in Monies
        /\ output <= funds[coin]["swap_reserve"]
    BY DEF Swappable, ReserveCanPay, SwapMoney
  <2>2. /\ vault.pending_harvest_amount \in Nat
        /\ stock["pending_distribution_ata"] \in Nat
        /\ vault.pending_harvest_amount <= stock["pending_distribution_ata"]
    BY <2>1, VaultType DEF IInv, TypeOK, CustodyCovered, StockAccounts
  <2>3. to \in FundAccounts /\ vault.payout_holding_ata = <<coin, to>>
    <3>1. vault.payout_holding_ata \in HoldingAccounts /\ "none" \notin Monies
      BY AddressAssumption DEF IInv, TypeOK, Vault, Monies, PayoutAssetTypes
    <3>2. vault.payout_holding_ata # NoTokenAccount
      BY <2>1, <3>1 DEF NoTokenAccount
    <3>. QED  BY <3>1, <3>2 DEF HoldingAccounts
  <2>4. funds[coin] \in [FundAccounts -> Nat] /\ "swap_reserve" \in FundAccounts
    BY <2>1 DEF IInv, TypeOK, FundAccounts
  <2>5. Total(funds[coin], FundAccounts) = Total(StartFunds[coin], FundAccounts)
    BY <2>1 DEF Conserved
  <2>. HIDE DEF coin, to
  <2>6. /\ funds[coin]["swap_reserve"] <= Total(funds[coin], FundAccounts)
        /\ Total(funds[coin], FundAccounts) \in Nat /\ funds[coin]["swap_reserve"] \in Nat
    BY <2>4, AccountsFinite, AccountWithinTotal, TotalType
  <2>7. output \in Nat
    BY <2>2, SwapOutputType DEF None, PayoutAssetTypes
  <2>. HIDE DEF output
  <2>8. output <= U64_MAX /\ funds[coin]["swap_reserve"] >= output
    BY <2>1, <2>5, <2>6, <2>7, U64_MAXAssumption
  <2>9. MaySwap(None, coin, to)
    BY <2>1, <2>2, <2>3, <2>8 DEF MaySwap, SwapDestinations, MayDebitReserve, output
  <2>. QED  BY <2>1, <2>3, <2>9
<1>. QED  BY <1>1, Safe, NothingIsMadeOrLost, PTL

(* An owner who can unwind the vault never waits for anybody: every active
   position can be bought out at once, and with none left the principal can
   be redeemed, because the counter that redemption looks at is zero then. *)
THEOREM OwnerCanAct ==
  Spec => [](\A w \in Wallets :
               CanUnwind(w) => /\ \A y \in Active : MayBuyOut(w, y)
                               /\ Active = {} => MayRedeem(w))
<1>1. IInv => \A w \in Wallets :
                CanUnwind(w) => /\ \A y \in Active : MayBuyOut(w, y)
                                /\ Active = {} => MayRedeem(w)
  <2>. SUFFICES ASSUME IInv, NEW w \in Wallets, CanUnwind(w)
                PROVE  /\ \A y \in Active : MayBuyOut(w, y)
                       /\ Active = {} => MayRedeem(w)
    OBVIOUS
  <2>. DEFINE prices == [y \in YieldAssets |-> records[y].buyout_price_lamports]
  <2>1. /\ HoldsDeed(w) /\ \A y \in Active : nft[y] \in Wallets
        /\ Total(prices, Active) <= funds["Sol"][w]
    BY DEF CanUnwind
  <2>2. IsFiniteSet(Active) /\ \A y \in Active : y \in YieldAssets /\ prices[y] \in Nat
    BY SharesSummable, RecordType DEF IInv, Active
  <2>3. funds["Sol"][w] \in Nat
    BY DEF IInv, TypeOK, FundAccounts, Monies, PayoutAssetTypes
  <2>4. ASSUME NEW y \in Active
        PROVE  MayBuyOut(w, y)
    <3>1. prices[y] = records[y].buyout_price_lamports /\ records[y].is_active
      BY <2>2 DEF Active
    <3>. HIDE DEF prices
    <3>2. prices[y] <= Total(prices, Active)
      BY <2>2, AccountWithinTotal
    <3>3. Total(prices, Active) \in Nat
      BY <2>2, TotalType
    <3>4. prices[y] <= funds["Sol"][w]
      BY <2>1, <2>2, <2>3, <3>2, <3>3
    <3>. QED  BY <2>1, <3>1, <3>4 DEF MayBuyOut
  <2>5. ASSUME Active = {}
        PROVE  MayRedeem(w)
    <3>1. vault.total_yield_allocated_bps = 0
      BY <2>5, TotalEmpty DEF IInv, AllocationExact
    <3>. QED  BY <2>1, <3>1 DEF MayRedeem, AllUnwound
  <2>. QED  BY <2>4, <2>5
<1>. QED  BY <1>1, Safe, PTL

-----------------------------------------------------------------------------
(* And each wait comes nearer to its end.                                  *)

(* Once minted, an NFT is never again free to be minted. *)
LEMMA MintedStays ==
  ASSUME TypeOK, [Next]_vars, NEW y \in YieldAssets, nft[y] # "unminted"
  PROVE  nft'[y] # "unminted"
<1>1. ASSUME NEW w \in Wallets, NEW kind, NEW holding, NEW deed \in DeedAssets, NEW amount,
             creator_initialize_vault(w, amount, kind, holding, deed)
      PROVE  nft'[y] # "unminted"
  BY <1>1, AddressAssumption DEF creator_initialize_vault, TypeOK, Assets
<1>2. ASSUME NEW w \in Wallets, NEW r \in Wallets, NEW z \in YieldAssets,
             NEW share, NEW expiry, NEW price, owner_strip_position(w, z, r, share, expiry, price)
      PROVE  nft'[y] # "unminted"
  BY <1>2, AddressAssumption DEF owner_strip_position, TypeOK, Assets
<1>3. ASSUME NEW w \in Wallets, NEW z \in YieldAssets, owner_buyout_yield(w, z)
      PROVE  nft'[y] # "unminted"
  BY <1>3 DEF owner_buyout_yield, TypeOK, Assets
<1>4. ASSUME NEW w \in Wallets, owner_redeem_principal(w)
      PROVE  nft'[y] # "unminted"
  BY <1>4 DEF owner_redeem_principal, TypeOK, Assets
<1>5. CASE nft' = nft
  BY <1>5
<1>6. CASE EnvironmentStep
  BY <1>6, EnvironmentLeaves
<1>. QED
  BY <1>1, <1>2, <1>3, <1>4, <1>5, <1>6
  DEF Next, OwnerStep, KeeperStep, Swap, Distribute, keeper_harvest_dividend,
      keeper_execute_swap, keeper_distribute_payout, vars

(* The positions that an owner may still have to buy out: those that are
   active, and those that could yet be stripped. *)
Remaining == {y \in YieldAssets : nft[y] = "unminted" \/ y \in Active}

(* An owner who leaves has finitely many positions before it: no step of
   anybody adds to those that remain, and each buyout takes one away. *)
THEOREM PositionsRunOut ==
  Spec => [][/\ Remaining' \subseteq Remaining
             /\ \A w \in Wallets, y \in YieldAssets :
                  owner_buyout_yield(w, y) => y \in Remaining /\ y \notin Remaining']_vars
<1>1. TypeOK /\ [Next]_vars =>
        [/\ Remaining' \subseteq Remaining
         /\ \A w \in Wallets, y \in YieldAssets :
              owner_buyout_yield(w, y) => y \in Remaining /\ y \notin Remaining']_vars
  <2>. SUFFICES ASSUME TypeOK, [Next]_vars
                PROVE  /\ Remaining' \subseteq Remaining
                       /\ \A w \in Wallets, y \in YieldAssets :
                            owner_buyout_yield(w, y) => y \in Remaining /\ y \notin Remaining'
    OBVIOUS
  <2>1. ASSUME NEW y \in YieldAssets, y \notin Remaining
        PROVE  y \notin Remaining'
    <3>1. nft[y] # "unminted" /\ ~records[y].is_active
      BY <2>1 DEF Remaining, Active
    <3>2. nft'[y] # "unminted"
      BY <3>1, MintedStays
    <3>3. PositionKept(y)
      BY PositionStep
    <3>4. ~records'[y].is_active
      BY <3>1, <3>3 DEF PositionKept, TermsKept
    <3>. QED  BY <3>2, <3>4 DEF Remaining, Active
  <2>2. ASSUME NEW w \in Wallets, NEW y \in YieldAssets, owner_buyout_yield(w, y)
        PROVE  y \in Remaining /\ y \notin Remaining'
    <3>1. records[y].is_active /\ ~records'[y].is_active /\ nft'[y] = "burned"
      BY <2>2, RecordType DEF owner_buyout_yield, TypeOK, Assets, YieldRecord
    <3>. QED  BY <3>1 DEF Remaining, Active
  <2>. QED  BY <2>1, <2>2 DEF Remaining
<1>. QED  BY <1>1, TypeCorrect, PTL DEF Spec

(* A payout that waits goes on waiting, for the same asset, until it is
   distributed or nobody holds the deed, and the keeper's instruction is what
   ends it: all of the account is paid out. *)
THEOREM PayoutWaitsForTheKeeper ==
  Spec => [][\A asset \in PayoutAssetTypes : PayoutWaits(asset) =>
               /\ PayoutWaits(asset)' \/ ~DeedIsHeld' \/ funds'[asset]["vault_payout"] = 0
               /\ keeper_distribute_payout(asset, 0, KeeperListing)
                    => funds'[asset]["vault_payout"] = 0]_vars
<1>1. TypeOK /\ [Next]_vars =>
        [\A asset \in PayoutAssetTypes : PayoutWaits(asset) =>
           /\ PayoutWaits(asset)' \/ ~DeedIsHeld' \/ funds'[asset]["vault_payout"] = 0
           /\ keeper_distribute_payout(asset, 0, KeeperListing)
                => funds'[asset]["vault_payout"] = 0]_vars
  <2>. SUFFICES ASSUME TypeOK, [Next]_vars, NEW asset \in PayoutAssetTypes, PayoutWaits(asset)
                PROVE  /\ PayoutWaits(asset)' \/ ~DeedIsHeld' \/ funds'[asset]["vault_payout"] = 0
                       /\ keeper_distribute_payout(asset, 0, KeeperListing)
                            => funds'[asset]["vault_payout"] = 0
    OBVIOUS
  <2>1. vault.open /\ vault.payout_asset_type = asset
    BY DEF PayoutWaits, DeedIsHeld, HoldsDeed
  <2>2. ASSUME DeedIsHeld'
        PROVE  vault'.payout_asset_type = asset
    <3>1. vault'.open
      BY <2>2 DEF DeedIsHeld, HoldsDeed
    <3>2. CASE vault' = vault
      BY <2>1, <3>2
    <3>3. ASSUME NEW w \in Wallets, owner_redeem_principal(w)
          PROVE  FALSE
      BY <3>1, <3>3 DEF owner_redeem_principal, NoVault
    <3>4. ASSUME NEW w, NEW kind, NEW holding, NEW deed, NEW amount,
                 creator_initialize_vault(w, amount, kind, holding, deed)
          PROVE  FALSE
      BY <2>1, <3>4 DEF creator_initialize_vault
    <3>5. ASSUME NEW w, NEW r, NEW y, NEW share, NEW expiry, NEW price,
                 owner_strip_position(w, y, r, share, expiry, price)
          PROVE  vault'.payout_asset_type = asset
      BY <2>1, <3>5 DEF owner_strip_position, TypeOK, Vault
    <3>6. ASSUME NEW w, NEW y, owner_buyout_yield(w, y)
          PROVE  vault'.payout_asset_type = asset
      BY <2>1, <3>6 DEF owner_buyout_yield, TypeOK, Vault
    <3>7. CASE keeper_harvest_dividend
      BY <2>1, <3>7 DEF keeper_harvest_dividend, TypeOK, Vault
    <3>8. ASSUME NEW rate, NEW money, NEW destination, keeper_execute_swap(rate, money, destination)
          PROVE  vault'.payout_asset_type = asset
      BY <2>1, <3>8 DEF keeper_execute_swap, VaultAfterSwap, TypeOK, Vault
    <3>9. ASSUME NEW money, NEW amount, NEW listed,
                 keeper_distribute_payout(money, amount, listed)
          PROVE  vault'.payout_asset_type = asset
      BY <2>1, <3>9 DEF keeper_distribute_payout, TypeOK, Vault
    <3>10. CASE EnvironmentStep
      BY <3>2, <3>10, EnvironmentLeaves
    <3>. QED
      BY <3>2, <3>3, <3>4, <3>5, <3>6, <3>7, <3>8, <3>9, <3>10
      DEF Next, OwnerStep, KeeperStep, Swap, Distribute, vars
  <2>3. funds'[asset]["vault_payout"] \in Nat
    BY StepTypes DEF TypeOK, FundAccounts, Monies
  <2>4. DeedIsHeld' /\ funds'[asset]["vault_payout"] # 0 => PayoutWaits(asset)'
    BY <2>2, <2>3 DEF PayoutWaits
  <2>5. ASSUME keeper_distribute_payout(asset, 0, KeeperListing)
        PROVE  funds'[asset]["vault_payout"] = 0
    <3>. DEFINE available == funds[asset]["vault_payout"]
                times == [y \in YieldAssets |-> TimesPaid(records[y], KeeperListing[y])]
                paid == [y \in YieldAssets |->
                           times[y] * calculate_yield_share(available, records[y].share_bps)]
                income == Income(available, paid)
                after == [a \in FundAccounts |->
                            CASE a = "vault_payout" -> available - available
                              [] a \in Wallets -> funds[asset][a] + income[a]
                              [] OTHER -> funds[asset][a]]
    <3>1. available \in Nat /\ "vault_payout" \in FundAccounts /\ asset \in Monies
      BY DEF TypeOK, FundAccounts, Monies
    <3>2. funds' = [funds EXCEPT ![asset] = after]
      BY <2>1, <2>5 DEF keeper_distribute_payout
    <3>. HIDE DEF available, income
    <3>3. after["vault_payout"] = available - available
      BY <3>1, AddressAssumption
    <3>. HIDE DEF after
    <3>4. funds'[asset]["vault_payout"] = available - available
      BY <3>1, <3>2, <3>3 DEF TypeOK
    <3>. QED  BY <3>1, <3>4
  <2>. QED  BY <2>4, <2>5
<1>. QED  BY <1>1, TypeCorrect, PTL DEF Spec

-----------------------------------------------------------------------------
(* What can keep an owner from leaving.                                    *)

LEMMA OrphanStays ==
  ASSUME TypeOK, [Next]_vars, NEW y \in Orphaned
  PROVE  y \in Orphaned'
<1>1. /\ y \in YieldAssets /\ records[y].is_active /\ nft[y] = "burned"
      /\ records[y].expiry_condition.kind # "Timestamp" /\ ~is_expired(records[y], clock)
      /\ records[y] \in YieldRecord
  BY RecordType DEF Orphaned, Active
<1>2. "burned" \notin Wallets /\ y \in Assets /\ y \notin DeedAssets
  BY <1>1, AddressAssumption DEF Assets
<1>3. ASSUME records'[y] = records[y], nft'[y] = "burned"
      PROVE  y \in Orphaned'
  <2>1. ~is_expired(records'[y], clock')
    BY <1>1, <1>3 DEF is_expired
  <2>. QED  BY <1>1, <1>3, <2>1 DEF Orphaned, Active
<1>4. ASSUME NEW w, NEW r, NEW z, NEW share, NEW expiry, NEW price,
             owner_strip_position(w, z, r, share, expiry, price)
      PROVE  y \in Orphaned'
  BY <1>1, <1>2, <1>3, <1>4 DEF owner_strip_position, TypeOK
<1>5. ASSUME NEW w, NEW z, owner_buyout_yield(w, z)
      PROVE  y \in Orphaned'
  BY <1>1, <1>2, <1>3, <1>5 DEF owner_buyout_yield, TypeOK
<1>6. ASSUME NEW money, NEW amount, NEW listed \in Listings,
             keeper_distribute_payout(money, amount, listed)
      PROVE  y \in Orphaned'
  <2>1. /\ records'[y] = AfterTriples(records[y], listed[y])
        /\ records'[y].expiry_condition = records[y].expiry_condition
        /\ records'[y].payouts_received_count
             = records[y].payouts_received_count + TimesPaid(records[y], listed[y])
        /\ listed[y] \in Nat
    BY <1>1, <1>6, DistributionLeaves
  <2>2. TimesPaid(records[y], listed[y]) = 0
    <3>1. TimesPaid(records[y], listed[y]) > 0 => nft[y] \in Wallets
      BY <1>1, <1>6 DEF keeper_distribute_payout
    <3>2. TimesPaid(records[y], listed[y]) \in Nat
      BY <1>1, <2>1, TimesPaidType
    <3>. QED  BY <1>1, <1>2, <3>1, <3>2
  <2>3. records[y].payouts_received_count \in Nat
    BY <1>1, RecordType, LimitAssumption
  <2>4. records'[y] = records[y]
    <3>. DEFINE counted == [records[y] EXCEPT !.payouts_received_count =
                                                @ + TimesPaid(records[y], listed[y])]
    <3>1. counted = records[y]
      BY <1>1, <2>2, <2>3 DEF YieldRecord
    <3>2. records'[y] = [counted EXCEPT !.is_active =
                                          @ /\ (listed[y] > 0 => ~is_expired(counted, clock))]
      BY <2>1 DEF AfterTriples
    <3>. HIDE DEF counted
    <3>. QED  BY <1>1, <3>1, <3>2 DEF YieldRecord
  <2>5. nft' = nft
    BY <1>6 DEF keeper_distribute_payout
  <2>. QED  BY <1>1, <1>3, <2>4, <2>5
<1>7. ASSUME NEW a \in Assets, NEW to, nft[a] \in Wallets, nft' = [nft EXCEPT ![a] = to],
             records' = records
      PROVE  y \in Orphaned'
  BY <1>1, <1>2, <1>3, <1>7 DEF TypeOK
<1>8. ASSUME NEW w \in Wallets, owner_redeem_principal(w)
      PROVE  y \in Orphaned'
  BY <1>1, <1>2, <1>3, <1>8 DEF owner_redeem_principal, HoldsDeed, TypeOK
<1>9. ASSUME NEW w, NEW kind, NEW holding, NEW deed \in DeedAssets, NEW amount,
             creator_initialize_vault(w, amount, kind, holding, deed)
      PROVE  y \in Orphaned'
  BY <1>1, <1>2, <1>3, <1>9 DEF creator_initialize_vault, TypeOK
<1>10. CASE records' = records /\ nft' = nft
  BY <1>1, <1>3, <1>10
<1>. QED
  BY <1>4, <1>5, <1>6, <1>7, <1>8, <1>9, <1>10
  DEF Next, OwnerStep, KeeperStep, Swap, Distribute, EnvironmentStep, keeper_harvest_dividend,
      keeper_execute_swap, Tick, update_multiplier, transfer_asset, burn_asset,
      create_stock_vault_ata, send_stock, send_funds, vars

(* An open vault is closed by a redemption and by nothing else. *)
LEMMA OpenUntilRedeemed ==
  ASSUME TypeOK, [Next]_vars, vault.open, ~vault'.open
  PROVE  AllUnwound
<1>1. vault \in Vault
  BY DEF TypeOK
<1>2. ASSUME NEW w, NEW kind, NEW holding, NEW deed, NEW amount,
             creator_initialize_vault(w, amount, kind, holding, deed)
      PROVE  FALSE
  BY <1>2 DEF creator_initialize_vault
<1>3. ASSUME NEW w, NEW r, NEW y, NEW share, NEW expiry, NEW price,
             owner_strip_position(w, y, r, share, expiry, price)
      PROVE  FALSE
  BY <1>1, <1>3 DEF owner_strip_position, Vault
<1>4. ASSUME NEW w, NEW y, owner_buyout_yield(w, y)
      PROVE  FALSE
  BY <1>1, <1>4 DEF owner_buyout_yield, Vault
<1>5. CASE keeper_harvest_dividend
  BY <1>1, <1>5 DEF keeper_harvest_dividend, Vault
<1>6. ASSUME NEW rate, NEW money, NEW destination, keeper_execute_swap(rate, money, destination)
      PROVE  FALSE
  BY <1>1, <1>6 DEF keeper_execute_swap, VaultAfterSwap, Vault
<1>7. ASSUME NEW money, NEW amount, NEW listed,
             keeper_distribute_payout(money, amount, listed)
      PROVE  FALSE
  BY <1>1, <1>7 DEF keeper_distribute_payout, Vault
<1>8. ASSUME vault' = vault
      PROVE  FALSE
  BY <1>8
<1>9. CASE EnvironmentStep
  BY <1>8, <1>9, EnvironmentLeaves
<1>. QED
  BY <1>2, <1>3, <1>4, <1>5, <1>6, <1>7, <1>8, <1>9
  DEF Next, OwnerStep, KeeperStep, Swap, Distribute, owner_redeem_principal, vars

(* A burned Yield NFT that no clock ends, one of a PayoutCount with payouts
   left included, locks the vault for good, whatever the other shares are and
   whoever acts. *)
THEOREM OrphansLockTheVault ==
  Spec => OrphansHoldTheVault
<1>1. IInv /\ [Next]_vars =>
        [Orphaned \subseteq Orphaned' /\ (Orphaned # {} => vault'.open)]_vars
  <2>. SUFFICES ASSUME IInv, [Next]_vars
                PROVE  Orphaned \subseteq Orphaned' /\ (Orphaned # {} => vault'.open)
    OBVIOUS
  <2>1. Orphaned \subseteq Orphaned'
    BY OrphanStays DEF IInv
  <2>2. ASSUME NEW y \in Orphaned, ~vault'.open
        PROVE  FALSE
    <3>1. y \in Active /\ vault.open
      BY <2>2 DEF Orphaned, IInv, ClosedMeansUnwound
    <3>2. vault.total_yield_allocated_bps = 0
      BY <2>2, <3>1, OpenUntilRedeemed DEF IInv, AllUnwound
    <3>3. IsFiniteSet(Active) /\ \A z \in Active : Shares[z] \in Nat
      BY SharesSummable DEF IInv, Active
    <3>4. Total(Shares, Active) = 0 /\ Shares[y] > 0
      BY <3>1, <3>2 DEF IInv, AllocationExact
    <3>5. Shares[y] = 0
      BY <3>1, <3>3, <3>4, TotalZero
    <3>. QED  BY <3>4, <3>5
  <2>. QED  BY <2>1, <2>2
<1>. QED  BY <1>1, Safe, PTL DEF Spec, OrphansHoldTheVault
=============================================================================
