------------------------ MODULE StripVaultProperties ------------------------
(***************************************************************************)
(* What the strip_vault program promises, stated over its whole state.     *)
(* AllocationExact, ClosedMeansUnwound, CustodyCovered, PrincipalPreserved *)
(* and CountsWithinTerms are invariants; the formulas of the form          *)
(* [][A]_vars say what no single transaction may do.                       *)
(***************************************************************************)
EXTENDS StripVault

CONSTANT SplitMultipliers   \* the multipliers that the issuer sets for a split of the stock

Active == {y \in YieldAssets : records[y].is_active}
Shares == [y \in YieldAssets |-> records[y].share_bps]

(* Every account has the type its Rust struct gives it. *)
TypeOK ==
  /\ clock \in Nat
  /\ mint \in ScaledUiAmountConfig
  /\ vault \in Vault
  /\ records \in [YieldAssets -> YieldRecord]
  /\ nft \in [Assets -> Wallets \cup {"unminted", "burned"}]
  /\ stock \in [StockAccounts -> Nat]
  /\ ata_exists \in BOOLEAN
  /\ funds \in [Monies -> [FundAccounts -> Nat]]
  /\ principal \in Nat

(* The counter the vault keeps is the sum of the shares of the active
   records, which live in accounts of their own and are deactivated by three
   different code paths, all with saturating_sub, which would hide a
   disagreement.  Every active record has a part in it, and an NFT. *)
AllocationExact ==
  /\ vault.total_yield_allocated_bps = Total(Shares, Active)
  /\ \A y \in Active : Shares[y] > 0 /\ nft[y] # "unminted"

(* owner_redeem_principal looks at the counter only: once the vault is gone
   no record is still active and its token account is closed with nothing
   left in it, whatever was sent there. *)
ClosedMeansUnwound ==
  /\ ~vault.open => Active = {} /\ vault = NoVault /\ principal = 0
  /\ ~ata_exists => ~vault.open /\ stock["stock_vault_ata"] = 0

(* The amounts the vault records are there: total_raw_shares in its token
   account and pending_harvest_amount in the pending account, which the swap
   empties by what the vault says and not by what the account holds. *)
CustodyCovered ==
  vault.open =>
    /\ vault.total_raw_shares <= stock["stock_vault_ata"]
    /\ vault.pending_harvest_amount <= stock["pending_distribution_ata"]

(* Harvesting "without diluting principal equity value" (utils/math.rs): the
   shares left, at the multiplier of the last harvest, are worth at least
   what was deposited, however many harvests rounded. *)
PrincipalPreserved ==
  principal <= vault.total_raw_shares * vault.last_multiplier

(* No position is counted beyond its PayoutCount, whatever the list of
   triples repeats, and one that is still active has payouts left to get,
   unless it was stripped for none. *)
CountsWithinTerms ==
  \A y \in YieldAssets :
    LET expiry == records[y].expiry_condition
    IN  expiry.kind = "PayoutCount" =>
          /\ records[y].payouts_received_count <= expiry.limit
          /\ records[y].is_active /\ expiry.limit > 0 =>
               records[y].payouts_received_count < expiry.limit

(* The invariants above, which together are inductive: the instructions
   keep them whatever else is true. *)
IInv ==
  /\ TypeOK
  /\ AllocationExact
  /\ ClosedMeansUnwound
  /\ CustodyCovered
  /\ PrincipalPreserved
  /\ CountsWithinTerms

(* Naming every active position once never asks for more than the payout, so
   the checked_sub of the remainder cannot fail a distribution that lists
   each position once. *)
SharesFitThePayout ==
  \A money \in Monies : \A payout \in 0 .. funds[money]["vault_payout"] :
    Total([y \in YieldAssets |-> calculate_yield_share(payout, records[y].share_bps)], Active)
      <= payout

(* Stock, SOL and tokens are moved, never made or lost: the sum over all the
   accounts an instruction touches is what it was at the start. *)
Conserved ==
  /\ Total(stock, StockAccounts) = Total(StartStock, Wallets)
  /\ \A money \in Monies :
       Total(funds[money], FundAccounts) = Total(StartFunds[money], FundAccounts)

(* A position ends in one of two ways: its own condition is met by the time
   it is marked, or the Master Deed holder pays its holder the price agreed
   when it was stripped and the NFT is burned in the same transaction.  An
   ended one never pays again, and its terms never change. *)
PositionsEndByTheirTerms ==
  [][\A y \in YieldAssets :
       /\ records[y].is_active /\ ~records'[y].is_active =>
            \/ is_expired(records'[y], clock)
            \/ /\ nft'[y] = "burned"
               /\ \E owner \in Wallets :
                    /\ HoldsDeed(owner)
                    /\ funds'["Sol"] = Transfer(funds["Sol"], owner, nft[y],
                                                records[y].buyout_price_lamports)
       /\ nft[y] # "unminted" =>
            /\ records'[y].is_active => records[y].is_active
            /\ records'[y].share_bps = records[y].share_bps
            /\ records'[y].expiry_condition = records[y].expiry_condition
            /\ records'[y].buyout_price_lamports = records[y].buyout_price_lamports]_vars

(* What leaves the vault's accounts, in any money, reaches only the wallet that holds
   the Master Deed at that moment and the wallets that hold a Yield NFT whose
   position is active and has not expired. *)
PayoutsReachRightsHolders ==
  [][\A money \in Monies, w \in Wallets :
       /\ funds'[money]["vault_payout"] < funds[money]["vault_payout"]
       /\ funds'[money][w] > funds[money][w]
       => \/ HoldsDeed(w)
          \/ \E y \in Active : nft[y] = w /\ ~is_expired(records[y], clock)]_vars

(* Stock leaves the vault's token account in two ways: a harvest, after which
   what is left is worth, at the new multiplier, what was there at the old
   one; or the Master Deed holder takes all of it, with no position active. *)
StockLeavesByRight ==
  [][stock'["stock_vault_ata"] < stock["stock_vault_ata"] =>
       \/ /\ vault'.open
          /\ stock'["stock_vault_ata"] * vault'.last_multiplier
               >= stock["stock_vault_ata"] * vault.last_multiplier
       \/ /\ Active = {}
          /\ \E owner \in Wallets :
               HoldsDeed(owner) /\
               stock' = Transfer(stock, "stock_vault_ata", owner, stock["stock_vault_ata"])]_vars

(***************************************************************************)
(* The keeper of docs/TO-DO.md, which the repository does not hold yet,    *)
(* names once every active position that has expired or whose NFT exists.  *)
(***************************************************************************)
KeeperListing ==
  [y \in YieldAssets |->
     IF y \in Active /\ (nft[y] \in Wallets \/ is_expired(records[y], clock)) THEN 1 ELSE 0]

(* The positions that a payout is due to. *)
Due == {y \in Active : nft[y] \in Wallets /\ ~is_expired(records[y], clock)}

(* The program pays whom the caller names: if the keeper names them all,
   every holder gets, for each Yield NFT held and not expired, its share of
   the payout and one payout more on its count; the Master Deed holder gets
   the rest, never less than the share that is not allocated; and no position
   that has expired, or that this payout completed, stays active. *)
KeeperPaysEveryRight ==
  [][\A money \in Monies : keeper_distribute_payout(money, 0, KeeperListing) =>
       LET payout == funds[money]["vault_payout"]
           part == [y \in YieldAssets |-> calculate_yield_share(payout, Shares[y])]
           rest == payout - Total(part, Due)
           unallocated == MAX_YIELD_BPS - vault.total_yield_allocated_bps
       IN  /\ \A w \in Wallets :
                funds'[money][w] = funds[money][w] + Total(part, {y \in Due : nft[y] = w})
                                     + (IF HoldsDeed(w) THEN rest ELSE 0)
           /\ rest >= calculate_yield_share(payout, unallocated)
           /\ \A y \in YieldAssets :
                /\ records'[y].payouts_received_count
                     = records[y].payouts_received_count + (IF y \in Due THEN 1 ELSE 0)
                /\ records'[y].is_active <=> y \in Active /\ ~is_expired(records'[y], clock)]_vars

(* Positions that no clock ends, short of their payouts if those were
   counted, whose holder has burned the Yield NFT. *)
Orphaned ==
  {y \in Active : /\ nft[y] = "burned"
                  /\ records[y].expiry_condition.kind # "Timestamp"
                  /\ ~is_expired(records[y], clock)}

(* Nothing that anybody does ends such a position: a buyout has nobody to
   pay, a distribution that names it fails, so that its count stays where it
   is, and no clock ends it.  Its share stays allocated and the vault is
   never redeemed again: a holder of any share, however small, can lock the
   principal in. *)
OrphansHoldTheVault ==
  [][Orphaned \subseteq Orphaned' /\ (Orphaned # {} => vault'.open)]_vars

(* creator_initialize_vault creates the token account of the vault with init,
   which an account that exists makes fail.  Whoever creates it first, as
   anybody can, closes the address of this vault for good, and the stock that
   is sent there stays there. *)
SquattedForGood ==
  [][ata_exists /\ ~vault.open =>
       /\ ata_exists' /\ ~vault'.open
       /\ stock'["stock_vault_ata"] >= stock["stock_vault_ata"]]_vars

-----------------------------------------------------------------------------
(* Liveness.                                                               *)

(***************************************************************************)
(* The keeper's crank harvests, swaps at the oracle's rate and distributes *)
(* all there is by KeeperListing, and comes back until each instruction    *)
(* has gone through.  The program makes nobody do anything, so nothing     *)
(* else is fair.                                                           *)
(***************************************************************************)
KeeperSwap ==
  \E money \in Monies, destination \in FundAccounts :
    /\ vault.payout_asset_type = "Sol" => destination = "vault_payout"
    /\ keeper_execute_swap(None, money, destination)

KeeperCrank ==
  /\ WF_vars(keeper_harvest_dividend)
  /\ WF_vars(KeeperSwap)
  /\ WF_vars(keeper_distribute_payout(vault.payout_asset_type, 0, KeeperListing))

FairSpec == Spec /\ KeeperCrank

(***************************************************************************)
(* An owner who wants the principal back: buys out every position there is *)
(* and redeems.  Nobody else is fair, the keeper included.                 *)
(***************************************************************************)
OwnerLeaves ==
  \A w \in Wallets :
    /\ \A y \in YieldAssets : WF_vars(owner_buyout_yield(w, y))
    /\ WF_vars(owner_redeem_principal(w))

OwnerSpec == Spec /\ OwnerLeaves

(* w holds the deed, can pay for every active position and finds somebody
   who holds it. *)
CanUnwind(w) ==
  /\ HoldsDeed(w)
  /\ \A y \in Active : nft[y] \in Wallets
  /\ Total([y \in YieldAssets |-> records[y].buyout_price_lamports], Active) <= funds["Sol"][w]

(* What a swap pays in: SOL, or the token that payout_holding_ata is for. *)
SwapMoney == IF vault.payout_asset_type = "Sol" THEN "Sol" ELSE vault.payout_holding_ata[1]

ReserveCanPay ==
  /\ SwapMoney \in Monies
  /\ calculate_simulated_swap_output(vault.pending_harvest_amount, vault.payout_asset_type, None)
       <= funds[SwapMoney]["swap_reserve"]

Swappable(asset) ==
  /\ vault.open
  /\ vault.payout_asset_type = asset
  /\ vault.pending_harvest_amount > 0
  /\ ReserveCanPay

DeedIsHeld == \E w \in Wallets : HoldsDeed(w)

(* Step 2 happens: what a USDC vault has harvested is sold to the reserve, as
   long as the reserve can pay the oracle's rate for it, whatever trades,
   donations and harvests come in between: nothing but a swap takes the
   pending amount to 0, or the end of the vault.  It is sold by whoever swaps
   first, at the rate that one gives: see SwapKeepsOneTerm. *)
PendingIsSwapped ==
  Swappable("Usdc") ~> (vault.pending_harvest_amount = 0 \/ ~ReserveCanPay)

(* Step 3 happens: what is in the payout account of an open vault is
   distributed, as long as somebody holds the deed.  No position that is
   listed can make the distribution fail for the others. *)
PayoutIsDistributed ==
  \A asset \in PayoutAssetTypes :
    (DeedIsHeld /\ vault.payout_asset_type = asset /\ funds[asset]["vault_payout"] > 0)
      ~> (~DeedIsHeld \/ funds[asset]["vault_payout"] = 0)

(* The way out of a vault: an owner who can pay the prices agreed gets the
   principal back, whatever the keeper, the holders and expiry do meanwhile,
   unless the deed, the money or a Yield NFT is gone first.  A share that
   stayed counted after its position ended would close this way for ever. *)
OwnerCanLeave == \A w \in Wallets : CanUnwind(w) ~> ~CanUnwind(w)

-----------------------------------------------------------------------------
(* Statements of the repository's documents that the program does not keep. *)

(* ABOUT.md:32, "At expiry, a Yield NFT's share automatically reverts to the
   owner's unallocated pool, no action required from anyone". *)
ExpiredShareReverts ==
  \A y \in YieldAssets :
    (DeedIsHeld /\ y \in Active /\ is_expired(records[y], clock))
      ~> (~DeedIsHeld \/ y \notin Active)

(* docs/PLAN_CONTRACTS.md:256, the swap "releases the exact calculated value
   of USDC or native SOL from the reserve into the vault's payout account". *)
SolIsSwapped == Swappable("Sol") ~> ~Swappable("Sol")

(***************************************************************************)
(* Each of the next three follows from either of two statements, so that   *)
(* it fails only in a step that keeps neither.                             *)
(***************************************************************************)

(* docs/PLAN_CONTRACTS.md:256, the swap releases "the exact calculated value"
   (at the "deterministic oracle rate", keeper_execute_swap.rs:88) "into the
   vault's payout account".  So what the reserve pays is that value, or goes
   to the vault at least. *)
SwapKeepsOneTerm ==
  [][LET paid == funds["Usdc"]["swap_reserve"] - funds'["Usdc"]["swap_reserve"]
     IN  paid > 0 =>
           \/ paid = calculate_simulated_swap_output(vault.pending_harvest_amount, "Usdc", None)
           \/ funds'["Usdc"]["vault_payout"] > funds["Usdc"]["vault_payout"]]_vars

(* README.md:33, distribute_payout pays the holder of "every non-expired Yield
   NFT tied to the vault"; docs/PLAN_CONTRACTS.md:278-280, each one gets
   share_bps / 10000 of the payout and its payouts_received_count goes up by
   one.  So no position is paid twice while another one gets nothing. *)
NobodyIsPaidForAnother ==
  [][\A x, y \in Active :
       /\ records'[x].payouts_received_count > records[x].payouts_received_count + 1
       /\ ~is_expired(records[y], clock)
       => records'[y].payouts_received_count > records[y].payouts_received_count]_vars

(* ABOUT.md:20, splits are "handled distinctly from dividends (not treated as
   a payout event)"; lib.rs:85, the Master Deed owner can "reclaim all
   underlying stock equity" when it closes the vault.  So an owner who leaves
   after a split gets back what there was before it. *)
SplitsCostNothing ==
  [][vault.open /\ ~vault'.open /\ get_effective_multiplier \in SplitMultipliers =>
       \E owner \in Wallets :
         stock'[owner] = stock[owner] + stock["stock_vault_ata"] + vault.pending_harvest_amount]_vars
=============================================================================
