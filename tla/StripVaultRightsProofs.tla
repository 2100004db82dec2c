----------------------- MODULE StripVaultRightsProofs -----------------------
(***************************************************************************)
(* strip_vault implements DividendRights, for every value of the           *)
(* constants: its initial states are initial states of the promise and     *)
(* each of its steps, from a state of IInv, is a step of the promise or    *)
(* changes nothing that it speaks of.                                      *)
(***************************************************************************)
EXTENDS StripVaultRights, StripVaultSafetyProofs

(* Sums and transfers are the same in both specifications. *)
LEMMA SameLedgers ==
  /\ \A f, S : Promised!Total(f, S) = Total(f, S)
  /\ \A ledger, from, to, n :
       Promised!Transfer(ledger, from, to, n) = Transfer(ledger, from, to, n)
<1>1. \A S : Promised!Cardinality(S) = Cardinality(S)
  BY DEF Promised!Cardinality, Cardinality
<1>2. \A f, S : Promised!Total(f, S) = Total(f, S)
  BY <1>1 DEF Promised!Total, Promised!Units, Total, Units
<1>. QED  BY <1>2 DEF Promised!Transfer, Transfer

-----------------------------------------------------------------------------
(* What the promise sees of a state.                                       *)

(* The owner of the promise is who may send the owner's instructions. *)
LEMMA OwnerHoldsDeed ==
  ASSUME NEW w \in Wallets
  PROVE  HoldsDeed(w) <=> DeedHolder = w
<1>1. w # "burned"
  BY AddressAssumption
<1>. QED  BY <1>1 DEF DeedHolder, DeedIsHeld, HoldsDeed

(* The owner stays the owner as long as the vault and its deed stay. *)
LEMMA SameOwner ==
  ASSUME vault'.open = vault.open,
         vault'.master_deed_asset = vault.master_deed_asset,
         nft'[vault.master_deed_asset] = nft[vault.master_deed_asset]
  PROVE  DeedHolder' = DeedHolder
BY DEF DeedHolder, DeedIsHeld, HoldsDeed

(* An open vault knows its deed, which is no Yield NFT: what happens to the
   NFT of a position does not change who the owner is. *)
DeedNamed == vault.open => vault.master_deed_asset \in DeedAssets
RInv == IInv /\ DeedNamed

LEMMA YieldIsNoDeed ==
  ASSUME TypeOK, DeedNamed, vault.open, NEW y \in YieldAssets, NEW to,
         nft' = [nft EXCEPT ![y] = to]
  PROVE  nft'[vault.master_deed_asset] = nft[vault.master_deed_asset]
<1>1. vault.master_deed_asset \in Assets /\ vault.master_deed_asset # y
  BY AddressAssumption DEF DeedNamed, Assets
<1>. QED  BY <1>1 DEF TypeOK

(* The parts that the rights carry add up to the counter of the vault. *)
LEMMA OwedIsAllocated ==
  ASSUME IInv
  PROVE  /\ Total(OwedShare, YieldAssets) = vault.total_yield_allocated_bps
         /\ \A y \in YieldAssets : OwedShare[y] \in Nat
<1>. USE DEF IInv
<1>1. \A y \in YieldAssets : OwedShare[y] \in Nat
  BY RecordType DEF OwedShare
<1>2. /\ Active \in SUBSET YieldAssets /\ IsFiniteSet(YieldAssets)
  BY AddressAssumption DEF Active
<1>3. /\ Total(OwedShare, YieldAssets)
           = Total(OwedShare, YieldAssets \ Active) + Total(OwedShare, Active)
      /\ Total(OwedShare, Active) \in Nat
  BY <1>1, <1>2, TotalWithout
<1>4. Total(OwedShare, YieldAssets \ Active) = 0
  <2>1. \A y \in YieldAssets \ Active : OwedShare[y] = 0
    BY DEF OwedShare, Active
  <2>. QED  BY <2>1, TotalOfNothing
<1>5. Total(OwedShare, Active) = Total(Shares, Active)
  <2>1. \A y \in Active : OwedShare[y] = Shares[y]
    BY DEF OwedShare, Shares, Active
  <2>. QED  BY <2>1, TotalSame
<1>. QED  BY <1>1, <1>3, <1>4, <1>5 DEF AllocationExact

(* With no active position the vault owes nothing. *)
LEMMA InactiveOwesNothing ==
  ASSUME Active = {}
  PROVE  Promised!NothingOwed
BY DEF Active, Promised!NothingOwed, OwedShare

-----------------------------------------------------------------------------
(* Each instruction is a step of the promise.                              *)

LEMMA InitializeFounds ==
  ASSUME RInv, NEW w \in Wallets, NEW kind \in PayoutAssetTypes, NEW holding \in HoldingChoices,
         NEW deed \in DeedAssets, NEW amount,
         creator_initialize_vault(w, amount, kind, holding, deed)
  PROVE  Promised!Found(w)
<1>. USE DEF RInv, IInv
<1>1. ~vault.open /\ Promised!NothingOwed
  BY InactiveOwesNothing DEF creator_initialize_vault, ClosedMeansUnwound
<1>2. vault'.open = TRUE
  BY DEF creator_initialize_vault
<1>3. DeedHolder' = w
  BY AddressAssumption
  DEF creator_initialize_vault, DeedHolder, DeedIsHeld, HoldsDeed, TypeOK, Assets
<1>4. records' = records /\ funds' = funds
  BY DEF creator_initialize_vault
<1>5. YieldHolder' = YieldHolder
  BY AddressAssumption DEF creator_initialize_vault, YieldHolder, TypeOK, Assets
<1>. QED  BY <1>1, <1>2, <1>3, <1>4, <1>5 DEF Promised!Found, OwedShare, AgreedPrice

LEMMA StripGrants ==
  ASSUME RInv, NEW w \in Wallets, NEW r \in Wallets, NEW y \in YieldAssets,
         NEW share \in ShareChoices, NEW expiry \in ExpiryChoices, NEW price \in PriceChoices,
         owner_strip_position(w, y, r, share, expiry, price)
  PROVE  share \in 1 .. MAX_YIELD_BPS /\ Promised!Grant(y, r, share, price)
<1>. USE DEF RInv, IInv
<1>1. HoldsDeed(w) /\ DeedHolder = w /\ vault.open
  BY OwnerHoldsDeed DEF owner_strip_position, HoldsDeed
<1>2. /\ share \in Nat /\ share > 0
      /\ vault.total_yield_allocated_bps + share <= MAX_YIELD_BPS
      /\ nft[y] = "unminted"
  BY ChoiceAssumption DEF owner_strip_position, FitsAllocation
<1>3. share \in 1 .. MAX_YIELD_BPS /\ Promised!Total(OwedShare, YieldAssets) + share <= MAX_YIELD_BPS
  BY <1>2, OwedIsAllocated, SameLedgers, VaultType, MAX_YIELD_BPSAssumption
<1>4. /\ vault'.open = vault.open
      /\ vault'.master_deed_asset = vault.master_deed_asset
      /\ funds' = funds
  BY DEF owner_strip_position, TypeOK, Vault
<1>5. DeedHolder' = DeedHolder
  <2>1. nft'[vault.master_deed_asset] = nft[vault.master_deed_asset]
    BY <1>1, YieldIsNoDeed DEF owner_strip_position
  <2>. QED  BY <1>4, <2>1, SameOwner
<1>6. OwedShare' = [OwedShare EXCEPT ![y] = share]
  BY DEF owner_strip_position, TypeOK, OwedShare
<1>7. AgreedPrice' = [AgreedPrice EXCEPT ![y] = price]
  BY DEF owner_strip_position, TypeOK, AgreedPrice
<1>8. YieldHolder' = [YieldHolder EXCEPT ![y] = r]
  BY DEF owner_strip_position, TypeOK, YieldHolder, Assets
<1>9. YieldHolder[y] = "unminted"
  BY <1>2 DEF YieldHolder
<1>. QED
  BY <1>1, <1>3, <1>4, <1>5, <1>6, <1>7, <1>8, <1>9 DEF Promised!Grant

LEMMA BuyoutBuysBack ==
  ASSUME RInv, NEW w \in Wallets, NEW y \in YieldAssets, owner_buyout_yield(w, y)
  PROVE  Promised!BuyOut(y)
<1>. USE DEF RInv, IInv
<1>1. HoldsDeed(w) /\ DeedHolder = w /\ vault.open
  BY OwnerHoldsDeed DEF owner_buyout_yield, HoldsDeed
<1>2. OwedShare[y] > 0
  <2>1. y \in Active
    BY DEF owner_buyout_yield, Active
  <2>. QED  BY <2>1 DEF AllocationExact, Active, Shares, OwedShare
<1>3. /\ YieldHolder[y] \in Wallets
      /\ AgreedPrice[y] <= funds["Sol"][w]
      /\ funds' = [funds EXCEPT !["Sol"] = Transfer(@, w, YieldHolder[y], AgreedPrice[y])]
  BY DEF owner_buyout_yield, YieldHolder, AgreedPrice
<1>4. /\ vault'.open = vault.open
      /\ vault'.master_deed_asset = vault.master_deed_asset
  BY DEF owner_buyout_yield, TypeOK, Vault
<1>5. DeedHolder' = DeedHolder
  <2>1. nft'[vault.master_deed_asset] = nft[vault.master_deed_asset]
    BY <1>1, YieldIsNoDeed DEF owner_buyout_yield
  <2>. QED  BY <1>4, <2>1, SameOwner
<1>6. OwedShare' = [OwedShare EXCEPT ![y] = 0] /\ AgreedPrice' = AgreedPrice
  BY DEF owner_buyout_yield, TypeOK, YieldRecord, OwedShare, AgreedPrice
<1>7. YieldHolder' = [YieldHolder EXCEPT ![y] = "burned"]
  BY DEF owner_buyout_yield, TypeOK, YieldHolder, Assets
<1>. QED
  BY <1>1, <1>2, <1>3, <1>4, <1>5, <1>6, <1>7, SameLedgers DEF Promised!BuyOut

LEMMA RedeemCloses ==
  ASSUME RInv, NEW w \in Wallets, owner_redeem_principal(w)
  PROVE  Promised!Close
<1>. USE DEF RInv, IInv
<1>1. HoldsDeed(w) /\ DeedHolder = w /\ vault.open
  BY OwnerHoldsDeed DEF owner_redeem_principal, HoldsDeed
<1>2. Promised!NothingOwed
  BY NothingAllocated, InactiveOwesNothing DEF owner_redeem_principal, AllUnwound
<1>3. vault'.open = FALSE /\ DeedHolder' = "burned"
  BY DEF owner_redeem_principal, NoVault, DeedHolder, DeedIsHeld, HoldsDeed
<1>4. /\ funds' = [funds EXCEPT !["Sol"] = Transfer(@, "vault_payout", w, @["vault_payout"])]
      /\ records' = records
  BY DEF owner_redeem_principal
<1>5. YieldHolder' = YieldHolder
  <2>1. vault.master_deed_asset \notin YieldAssets
    BY <1>1, AddressAssumption DEF DeedNamed
  <2>. QED  BY <2>1 DEF owner_redeem_principal, YieldHolder, TypeOK, Assets
<1>. QED
  BY <1>1, <1>2, <1>3, <1>4, <1>5, SameLedgers DEF Promised!Close, OwedShare, AgreedPrice

LEMMA DistributionPaysOut ==
  ASSUME RInv, NEW asset \in Monies, NEW amount \in 0 .. funds[asset]["vault_payout"],
         NEW listed \in Listings, keeper_distribute_payout(asset, amount, listed)
  PROVE  Promised!PayOut
<1>. USE DEF RInv, IInv
<1>. DEFINE available == funds[asset]["vault_payout"]
            payout == IF amount > 0 THEN amount ELSE available
            times == [y \in YieldAssets |-> TimesPaid(records[y], listed[y])]
            paid == [y \in YieldAssets |->
                       times[y] * calculate_yield_share(payout, records[y].share_bps)]
            after == [y \in YieldAssets |-> AfterTriples(records[y], listed[y])]
            ended == Reverted(after)
<1>1. /\ funds[asset] \in [FundAccounts -> Nat]
      /\ available \in Nat
  BY DEF TypeOK, FundAccounts
<1>2. payout \in 1 .. available /\ payout \in Nat
  <2>1. payout > 0 /\ payout <= available
    BY DEF keeper_distribute_payout
  <2>2. payout \in Nat
    <3>. HIDE DEF available
    <3>. QED  BY <1>1
  <2>. HIDE DEF payout, available
  <2>. QED  BY <1>1, <2>1, <2>2
<1>3. vault.open /\ DeedHolder \in Wallets
  BY OwnerHoldsDeed DEF keeper_distribute_payout, HoldsDeed
<1>4. \A y \in YieldAssets : /\ times[y] \in 0 .. MAX_TRIPLES
                             /\ ~records[y].is_active => times[y] = 0
  <2>. SUFFICES ASSUME NEW y \in YieldAssets
                PROVE  /\ times[y] \in 0 .. MAX_TRIPLES
                       /\ ~records[y].is_active => times[y] = 0
    OBVIOUS
  <2>1. listed[y] \in Nat /\ listed[y] <= MAX_TRIPLES
    BY LimitAssumption DEF Listings
  <2>2. TimesPaid(records[y], listed[y]) \in Nat /\ TimesPaid(records[y], listed[y]) <= listed[y]
    BY <2>1, TimesPaidType
  <2>3. TimesPaid(records[y], listed[y]) \in 0 .. MAX_TRIPLES
    BY <2>1, <2>2, LimitAssumption
  <2>. QED  BY <2>3 DEF TimesPaid
<1>5. Promised!Paid(payout, times) = paid
  <2>. SUFFICES ASSUME NEW y \in YieldAssets
                PROVE  times[y] * ((payout * OwedShare[y]) \div MAX_YIELD_BPS)
                         = times[y] * calculate_yield_share(payout, records[y].share_bps)
    BY DEF Promised!Paid
  <2>1. CASE records[y].is_active
    BY <2>1 DEF OwedShare, calculate_yield_share
  <2>2. CASE ~records[y].is_active
    <3>1. times[y] = 0
      BY <1>4, <2>2
    <3>2. calculate_yield_share(payout, records[y].share_bps) \in Nat
      BY <1>2, RecordType, YieldShareBounds
    <3>3. (payout * OwedShare[y]) \div MAX_YIELD_BPS \in Nat
      BY <1>2, OwedIsAllocated, YieldShareBounds DEF calculate_yield_share
    <3>. HIDE DEF times, payout
    <3>. QED  BY <3>1, <3>2, <3>3
  <2>. QED  BY <2>1, <2>2
<1>. HIDE DEF available, payout, paid, after
<1>6. \A y \in YieldAssets : times[y] > 0 => OwedShare[y] > 0 /\ YieldHolder[y] \in Wallets
  <2>. SUFFICES ASSUME NEW y \in YieldAssets, times[y] > 0
                PROVE  OwedShare[y] > 0 /\ YieldHolder[y] \in Wallets
    OBVIOUS
  <2>1. records[y].is_active
    BY <1>4
  <2>2. OwedShare[y] > 0
    BY <2>1 DEF AllocationExact, Active, Shares, OwedShare
  <2>3. nft[y] \in Wallets
    BY DEF keeper_distribute_payout
  <2>. QED  BY <2>2, <2>3 DEF YieldHolder
<1>7. Total(paid, YieldAssets) <= payout
  BY DEF keeper_distribute_payout, available, payout, paid
<1>8. Promised!Income(payout, times) = Income(payout, paid)
  <2>1. \A w \in Wallets : {y \in YieldAssets : YieldHolder[y] = w} = {y \in YieldAssets : nft[y] = w}
    BY DEF YieldHolder
  <2>2. \A w \in Wallets : DeedHolder = w <=> HoldsDeed(w)
    BY OwnerHoldsDeed
  <2>. HIDE DEF times
  <2>. QED  BY <1>5, <2>1, <2>2, SameLedgers DEF Promised!Income, Income
<1>9. funds' = [funds EXCEPT ![asset] =
        [a \in FundAccounts |->
           CASE a = "vault_payout" -> funds[asset][a] - payout
             [] a \in Wallets -> funds[asset][a] + Income(payout, paid)[a]
             [] OTHER -> funds[asset][a]]]
  <2>1. funds' = [funds EXCEPT ![asset] =
          [a \in FundAccounts |->
             CASE a = "vault_payout" -> available - payout
               [] a \in Wallets -> funds[asset][a] + Income(payout, paid)[a]
               [] OTHER -> funds[asset][a]]]
    BY DEF keeper_distribute_payout, available, payout, paid
  <2>2. available = funds[asset]["vault_payout"]
    BY DEF available
  <2>3. [a \in FundAccounts |->
           CASE a = "vault_payout" -> available - payout
             [] a \in Wallets -> funds[asset][a] + Income(payout, paid)[a]
             [] OTHER -> funds[asset][a]]
         = [a \in FundAccounts |->
           CASE a = "vault_payout" -> funds[asset][a] - payout
             [] a \in Wallets -> funds[asset][a] + Income(payout, paid)[a]
             [] OTHER -> funds[asset][a]]
    BY <2>2
  <2>. QED  BY <2>1, <2>3
<1>10. funds'[asset]["vault_payout"] = funds[asset]["vault_payout"] - payout
  <2>1. "vault_payout" \in FundAccounts /\ "vault_payout" \notin Wallets
    BY AddressAssumption DEF FundAccounts
  <2>2. funds'[asset] =
          [a \in FundAccounts |->
             CASE a = "vault_payout" -> funds[asset][a] - payout
               [] a \in Wallets -> funds[asset][a] + Income(payout, paid)[a]
               [] OTHER -> funds[asset][a]]
    BY <1>1, <1>9 DEF TypeOK
  <2>. QED  BY <2>1, <2>2
<1>11. OwedShare' = [y \in YieldAssets |-> IF y \in ended THEN 0 ELSE OwedShare[y]]
  <2>1. \A y \in YieldAssets : records'[y] = after[y]
    BY DistributionLeaves DEF after
  <2>2. \A y \in YieldAssets : /\ records'[y].share_bps = records[y].share_bps
                               /\ records'[y].is_active => records[y].is_active
    BY DistributionLeaves
  <2>. QED  BY <2>1, <2>2 DEF OwedShare, Reverted
<1>12. AgreedPrice' = AgreedPrice
  <2>1. ASSUME NEW y \in YieldAssets
        PROVE  records'[y].buyout_price_lamports = records[y].buyout_price_lamports
    <3>1. records[y] \in YieldRecord /\ records'[y] = AfterTriples(records[y], listed[y])
      BY RecordType, DistributionLeaves
    <3>. QED  BY <3>1 DEF AfterTriples, YieldRecord
  <2>. QED  BY <2>1 DEF AgreedPrice
<1>13. YieldHolder' = YieldHolder /\ vault'.open = vault.open /\ DeedHolder' = DeedHolder
  <2>1. nft' = nft /\ vault'.open = vault.open /\ vault'.master_deed_asset = vault.master_deed_asset
    BY DEF keeper_distribute_payout, TypeOK, Vault
  <2>. QED  BY <2>1, SameOwner DEF YieldHolder
<1>14. times \in [YieldAssets -> 0 .. MAX_TRIPLES] /\ ended \in SUBSET YieldAssets
  BY <1>4 DEF Reverted
<1>. HIDE DEF times, ended
<1>15. Promised!Pay(asset, payout, times, ended)
  BY <1>5, <1>6, <1>7, <1>8, <1>9, <1>11, <1>12, <1>13, SameLedgers DEF Promised!Pay
<1>. QED
  BY <1>1, <1>2, <1>3, <1>10, <1>14, <1>15 DEF Promised!PayOut, available

LEMMA SwapMoves ==
  ASSUME RInv, NEW rate \in CustomRates \cup {None}, NEW asset \in Monies,
         NEW destination \in FundAccounts, keeper_execute_swap(rate, asset, destination)
  PROVE  \E money \in Monies, from, to \in FundAccounts :
           \E n \in 0 .. funds[money][from] : Promised!Move(money, from, to, n)
<1>. USE DEF RInv, IInv
<1>. DEFINE output == calculate_simulated_swap_output(vault.pending_harvest_amount,
                                                      vault.payout_asset_type, rate)
<1>1. vault.payout_asset_type \in PayoutAssetTypes /\ vault.pending_harvest_amount \in Nat
  BY VaultType
<1>2. output \in Nat
  BY <1>1, ChoiceAssumption, SwapOutputType DEF None
<1>3. "swap_reserve" \in FundAccounts /\ funds[asset]["swap_reserve"] \in Nat
  BY <1>1 DEF TypeOK, FundAccounts
<1>4. /\ output <= funds[asset]["swap_reserve"]
      /\ funds' = [funds EXCEPT ![asset] = Transfer(@, "swap_reserve", destination, output)]
      /\ records' = records /\ nft' = nft
  <2>1. /\ funds[asset]["swap_reserve"] >= output
        /\ funds' = [funds EXCEPT ![asset] = Transfer(@, "swap_reserve", destination, output)]
        /\ records' = records /\ nft' = nft
    BY DEF keeper_execute_swap
  <2>. HIDE DEF output
  <2>. QED  BY <1>2, <1>3, <2>1
<1>5. vault'.open = vault.open /\ DeedHolder' = DeedHolder
  <2>1. vault'.open = vault.open /\ vault'.master_deed_asset = vault.master_deed_asset
    BY DEF keeper_execute_swap, VaultAfterSwap, TypeOK, Vault
  <2>. QED  BY <1>4, <2>1, SameOwner
<1>. HIDE DEF output
<1>6. Promised!Move(asset, "swap_reserve", destination, output)
  BY <1>4, <1>5, SameLedgers DEF Promised!Move, OwedShare, AgreedPrice, YieldHolder
<1>7. output \in 0 .. funds[asset]["swap_reserve"]
  BY <1>2, <1>3, <1>4
<1>. QED  BY <1>1, <1>3, <1>6, <1>7

-----------------------------------------------------------------------------
(* The steps of everybody else.                                            *)

LEMMA HoldersPassOn ==
  ASSUME RInv, NEW a \in Assets, NEW to \in Wallets \cup {"burned"}, nft[a] \in Wallets,
         nft' = [nft EXCEPT ![a] = to], UNCHANGED <<vault, records, funds>>
  PROVE  \/ a \in YieldAssets /\ Promised!PassOn(a, to)
         \/ Promised!PassOnVault(to)
         \/ UNCHANGED Promised!promises
<1>. USE DEF RInv, IInv
<1>1. OwedShare' = OwedShare /\ AgreedPrice' = AgreedPrice
  BY DEF OwedShare, AgreedPrice
<1>2. CASE a \in YieldAssets
  <2>1. YieldHolder' = [YieldHolder EXCEPT ![a] = to] /\ YieldHolder[a] \in Wallets
    BY <1>2 DEF TypeOK, Assets, YieldHolder
  <2>2. DeedHolder' = DeedHolder
    <3>1. CASE vault.open
      BY <1>2, <3>1, YieldIsNoDeed, SameOwner
    <3>2. CASE ~vault.open
      BY <3>2 DEF DeedHolder, DeedIsHeld, HoldsDeed
    <3>. QED  BY <3>1, <3>2
  <2>. QED  BY <1>1, <1>2, <2>1, <2>2 DEF Promised!PassOn
<1>3. CASE a \notin YieldAssets
  <2>1. YieldHolder' = YieldHolder
    BY <1>3 DEF TypeOK, Assets, YieldHolder
  <2>2. CASE vault.open /\ vault.master_deed_asset = a
    <3>1. DeedHolder = nft[a]
      BY <2>2 DEF DeedHolder, DeedIsHeld, HoldsDeed
    <3>2. nft'[a] = to
      BY DEF TypeOK
    <3>3. DeedHolder' = to
      BY <2>2, <3>2 DEF DeedHolder, DeedIsHeld, HoldsDeed
    <3>. QED  BY <1>1, <2>1, <3>1, <3>3 DEF Promised!PassOnVault
  <2>3. CASE vault.open /\ vault.master_deed_asset # a
    <3>1. nft'[vault.master_deed_asset] = nft[vault.master_deed_asset]
      BY <2>3 DEF DeedNamed, TypeOK, Assets
    <3>2. DeedHolder' = DeedHolder
      BY <3>1, SameOwner
    <3>. QED  BY <1>1, <2>1, <3>2 DEF Promised!promises
  <2>4. CASE ~vault.open
    <3>1. DeedHolder' = DeedHolder
      BY <2>4 DEF DeedHolder, DeedIsHeld, HoldsDeed
    <3>. QED  BY <1>1, <2>1, <3>1 DEF Promised!promises
  <2>. QED  BY <2>2, <2>3, <2>4
<1>. QED  BY <1>2, <1>3

LEMMA SenderMoves ==
  ASSUME RInv, NEW asset \in Monies, NEW w \in Wallets, NEW n \in 1 .. funds[asset][w],
         send_funds(asset, w, n)
  PROVE  \E money \in Monies, from, to \in FundAccounts :
           \E m \in 0 .. funds[money][from] : Promised!Move(money, from, to, m)
<1>. USE DEF RInv, IInv
<1>1. w \in FundAccounts /\ "vault_payout" \in FundAccounts /\ w # "vault_payout"
  BY AddressAssumption DEF FundAccounts
<1>2. /\ funds' = [funds EXCEPT ![asset] = Transfer(@, w, "vault_payout", n)]
      /\ UNCHANGED <<vault, records, nft>>
  BY DEF send_funds
<1>3. Promised!Move(asset, w, "vault_payout", n)
  BY <1>1, <1>2, SameLedgers, SameOwner
  DEF Promised!Move, OwedShare, AgreedPrice, YieldHolder
<1>4. n \in 0 .. funds[asset][w]
  BY <1>1 DEF TypeOK
<1>. QED  BY <1>1, <1>3, <1>4

(* What changes none of the accounts that the promise looks at. *)
LEMMA UnseenStutters ==
  ASSUME UNCHANGED <<records, nft, funds>>, vault'.open = vault.open,
         vault'.master_deed_asset = vault.master_deed_asset
  PROVE  UNCHANGED Promised!promises
BY SameOwner DEF Promised!promises, OwedShare, AgreedPrice, YieldHolder

-----------------------------------------------------------------------------
(* The theorem.                                                            *)

LEMMA StartPromises ==
  Init => Promised!Init
<1>. SUFFICES ASSUME Init
              PROVE  Promised!Init
  OBVIOUS
<1>1. vault.open = FALSE /\ DeedHolder = "burned"
  BY DEF Init, NoVault, DeedHolder, DeedIsHeld, HoldsDeed
<1>2. OwedShare = [y \in YieldAssets |-> 0] /\ AgreedPrice = [y \in YieldAssets |-> 0]
  BY DEF Init, NoRecord, OwedShare, AgreedPrice
<1>3. YieldHolder = [y \in YieldAssets |-> "unminted"]
  BY DEF Init, Assets, YieldHolder
<1>4. funds \in [Monies -> [FundAccounts -> Nat]]
  BY StartAssumption DEF Init
<1>. QED  BY <1>1, <1>2, <1>3, <1>4 DEF Promised!Init

LEMMA StartNamed ==
  Init => DeedNamed
BY DEF Init, NoVault, DeedNamed

LEMMA StepNamed ==
  TypeOK /\ DeedNamed /\ [Next]_vars => DeedNamed'
<1>. SUFFICES ASSUME TypeOK, DeedNamed, [Next]_vars
              PROVE  DeedNamed'
  OBVIOUS
<1>1. ASSUME vault'.open => vault.open, vault'.master_deed_asset = vault.master_deed_asset
      PROVE  DeedNamed'
  BY <1>1 DEF DeedNamed
<1>2. ASSUME NEW w, NEW kind, NEW holding, NEW deed \in DeedAssets, NEW amount,
             creator_initialize_vault(w, amount, kind, holding, deed)
      PROVE  DeedNamed'
  BY <1>2 DEF creator_initialize_vault, DeedNamed
<1>3. ASSUME NEW w, NEW r, NEW y, NEW share, NEW expiry, NEW price,
             owner_strip_position(w, y, r, share, expiry, price)
      PROVE  DeedNamed'
  BY <1>1, <1>3 DEF owner_strip_position, TypeOK, Vault
<1>4. ASSUME NEW w, NEW y, owner_buyout_yield(w, y)
      PROVE  DeedNamed'
  BY <1>1, <1>4 DEF owner_buyout_yield, TypeOK, Vault
<1>5. ASSUME NEW w, owner_redeem_principal(w)
      PROVE  DeedNamed'
  BY <1>5 DEF owner_redeem_principal, NoVault, DeedNamed
<1>6. CASE keeper_harvest_dividend
  BY <1>1, <1>6 DEF keeper_harvest_dividend, TypeOK, Vault
<1>7. ASSUME NEW rate, NEW money, NEW destination, keeper_execute_swap(rate, money, destination)
      PROVE  DeedNamed'
  BY <1>1, <1>7 DEF keeper_execute_swap, VaultAfterSwap, TypeOK, Vault
<1>8. ASSUME NEW money, NEW amount, NEW listed,
             keeper_distribute_payout(money, amount, listed)
      PROVE  DeedNamed'
  BY <1>1, <1>8 DEF keeper_distribute_payout, TypeOK, Vault
<1>9. CASE EnvironmentStep \/ UNCHANGED vars
  BY <1>1, <1>9, EnvironmentLeaves
<1>. QED
  BY <1>2, <1>3, <1>4, <1>5, <1>6, <1>7, <1>8, <1>9
  DEF Next, OwnerStep, KeeperStep, Swap, Distribute

LEMMA StepPromises ==
  RInv /\ [Next]_vars => [Promised!Next]_(Promised!promises)
<1>. SUFFICES ASSUME RInv, [Next]_vars
              PROVE  Promised!Next \/ UNCHANGED Promised!promises
  OBVIOUS
<1>. USE DEF RInv, IInv
<1>1. ASSUME NEW w \in Wallets, NEW kind \in PayoutAssetTypes, NEW holding \in HoldingChoices,
             NEW deed \in DeedAssets, NEW amount,
             creator_initialize_vault(w, amount, kind, holding, deed)
      PROVE  Promised!Next
  BY <1>1, InitializeFounds DEF Promised!Next
<1>2. ASSUME NEW w \in Wallets, NEW r \in Wallets, NEW y \in YieldAssets,
             NEW share \in ShareChoices, NEW expiry \in ExpiryChoices, NEW price \in PriceChoices,
             owner_strip_position(w, y, r, share, expiry, price)
      PROVE  Promised!Next
  BY <1>2, StripGrants DEF Promised!Next
<1>3. ASSUME NEW w \in Wallets, NEW y \in YieldAssets, owner_buyout_yield(w, y)
      PROVE  Promised!Next
  BY <1>3, BuyoutBuysBack DEF Promised!Next
<1>4. ASSUME NEW w \in Wallets, owner_redeem_principal(w)
      PROVE  Promised!Next
  BY <1>4, RedeemCloses DEF Promised!Next
<1>5. CASE keeper_harvest_dividend
  BY <1>5, UnseenStutters DEF keeper_harvest_dividend, TypeOK, Vault
<1>6. ASSUME NEW rate \in CustomRates \cup {None}, NEW asset \in Monies,
             NEW destination \in FundAccounts, keeper_execute_swap(rate, asset, destination)
      PROVE  Promised!Next
  BY <1>6, SwapMoves DEF Promised!Next
<1>7. ASSUME NEW asset \in Monies, NEW amount \in 0 .. funds[asset]["vault_payout"],
             NEW listed \in Listings, keeper_distribute_payout(asset, amount, listed)
      PROVE  Promised!Next
  BY <1>7, DistributionPaysOut DEF Promised!Next
<1>8. ASSUME NEW a \in Assets, NEW w \in Wallets, transfer_asset(a, w)
      PROVE  Promised!Next \/ UNCHANGED Promised!promises
  <2>1. /\ nft[a] \in Wallets /\ nft' = [nft EXCEPT ![a] = w]
        /\ UNCHANGED <<vault, records, funds>>
    BY <1>8 DEF transfer_asset
  <2>. QED  BY <2>1, HoldersPassOn DEF Promised!Next
<1>9. ASSUME NEW a \in Assets, burn_asset(a)
      PROVE  Promised!Next \/ UNCHANGED Promised!promises
  <2>1. /\ nft[a] \in Wallets /\ nft' = [nft EXCEPT ![a] = "burned"]
        /\ UNCHANGED <<vault, records, funds>>
    BY <1>9 DEF burn_asset
  <2>. QED  BY <2>1, HoldersPassOn DEF Promised!Next
<1>10. ASSUME NEW asset \in Monies, NEW w \in Wallets, NEW n \in 1 .. funds[asset][w],
              send_funds(asset, w, n)
       PROVE  Promised!Next
  BY <1>10, SenderMoves DEF Promised!Next
<1>11. ASSUME Tick \/ (\E m, t : update_multiplier(m, t)) \/ (\E w, n : send_stock(w, n))
              \/ create_stock_vault_ata \/ UNCHANGED vars
       PROVE  UNCHANGED Promised!promises
  BY <1>11, UnseenStutters
  DEF Tick, update_multiplier, create_stock_vault_ata, send_stock, vars
<1>. QED
  BY <1>1, <1>2, <1>3, <1>4, <1>5, <1>6, <1>7, <1>8, <1>9, <1>10, <1>11
  DEF Next, OwnerStep, KeeperStep, Swap, Distribute, EnvironmentStep

(* Whatever the seven instructions do to their accounts, and in whatever
   order, holders of rights see what DividendRights promises them. *)
THEOREM RightsAreKept ==
  Spec => ImplementsRights
<1>1. IInv => TypeOK
  BY DEF IInv
<1>2. Spec => []DeedNamed
  BY <1>1, StartNamed, StepNamed, Safe, PTL DEF Spec
<1>3. Spec => []RInv
  BY <1>2, Safe, PTL DEF RInv
<1>. QED
  BY <1>3, StartPromises, StepPromises, PTL DEF Spec, ImplementsRights, Promised!Spec
=============================================================================
