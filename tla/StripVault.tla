----------------------------- MODULE StripVault -----------------------------
(***************************************************************************)
(* The strip_vault program: one vault of xStock, the Master Deed that      *)
(* owns it, the Yield NFTs stripped from it and the three keeper           *)
(* instructions that turn a rise of the stock's multiplier into payouts.   *)
(*                                                                         *)
(* An instruction is one atomic transaction: it runs to its end or it      *)
(* fails and changes nothing, so each is one action whose guard is the     *)
(* conjunction of the checks it makes.  Anybody may send an instruction,   *)
(* whenever and with whatever arguments; what happens between two          *)
(* instructions is the environment: the clock, the issuer of the stock,    *)
(* and holders who trade, burn or give away what they own.                 *)
(***************************************************************************)
EXTENDS StripVaultMath

CONSTANTS
  Wallets,             \* the wallets of people: owners, holders, donors
  DeedAssets,          \* addresses a Master Deed can be minted at
  YieldAssets,         \* addresses a Yield NFT can be minted at
  U32_MAX,             \* the largest payouts_received_count
  MAX_TRIPLES,         \* triples of accounts that fit in one transaction
  RESERVE_OWNED_BY_PROGRAM,  \* may the program debit the SOL of swap_reserve_authority?
  OtherTokens,         \* mints that are not USDC, whatever they are worth
  StartStock,          \* the raw stock each wallet starts with
  StartFunds,          \* the SOL and the tokens each account starts with
  HoldingChoices,      \* the accounts a creator may name as payout_holding_ata
  ShareChoices, ExpiryChoices, PriceChoices,  \* the arguments of a strip
  CustomRates,         \* the rates a caller may give a swap
  StartMultipliers,    \* the multipliers the stock may start with, in grains
  MultiplierChoices,   \* those its issuer may set later
  MAX_TIME             \* where the clock stops: a bound of the model

(* Where stock can be, besides a wallet. *)
StockAccounts ==
  Wallets \cup {"stock_vault_ata", "pending_distribution_ata", "swap_reserve_stock_ata"}

(* Where SOL and tokens can be: with a person, with the vault's PDA and with
   that of the swap reserve. *)
FundAccounts == Wallets \cup {"vault_payout", "swap_reserve"}

Monies == PayoutAssetTypes \cup OtherTokens
TokenMints == Monies \ {"Sol"}

(* What payout_holding_ata can be: the token account of a mint that somebody
   has, or an account that takes no tokens at all. *)
NoTokenAccount == <<"none", "none">>
HoldingAccounts == (TokenMints \X FundAccounts) \cup {NoTokenAccount}

Assets == DeedAssets \cup YieldAssets

ExpiryCondition ==
  [kind : {"None", "Timestamp", "PayoutCount"}, limit : Nat]

ASSUME AddressAssumption ==
  /\ DeedAssets \cap YieldAssets = {}
  /\ Wallets \cap {"stock_vault_ata", "pending_distribution_ata", "swap_reserve_stock_ata",
                   "vault_payout", "swap_reserve", "unminted", "burned"} = {}
  /\ OtherTokens \cap (PayoutAssetTypes \cup {"none"}) = {}
  /\ "none" \notin DeedAssets
  /\ IsFiniteSet(YieldAssets) /\ IsFiniteSet(Wallets)
ASSUME StartAssumption ==
  /\ StartStock \in [Wallets -> Nat]
  /\ StartFunds \in [Monies -> [FundAccounts -> Nat]]
ASSUME ChoiceAssumption ==
  /\ ShareChoices \subseteq Nat
  /\ PriceChoices \subseteq Nat
  /\ HoldingChoices \subseteq HoldingAccounts
  /\ ExpiryChoices \subseteq ExpiryCondition
  /\ CustomRates \subseteq Nat
  /\ StartMultipliers \cup MultiplierChoices \subseteq Nat \ {0}
ASSUME LimitAssumption ==
  /\ U32_MAX \in Nat
  /\ MAX_TRIPLES \in Nat
  /\ MAX_TIME \in Nat
  /\ RESERVE_OWNED_BY_PROGRAM \in BOOLEAN

VARIABLES
  clock,      \* Clock::get()?.unix_timestamp
  mint,       \* ScaledUiAmountConfig of the stock mint
  vault,      \* the Vault account
  records,    \* the YieldRecord account of each yield asset
  nft,        \* the owner of each Metaplex Core asset
  stock,      \* the ledger of raw stock
  ata_exists, \* has stock_vault_ata been created?
  funds,      \* the ledgers of the payout assets and of other tokens
  principal   \* history: deposited shares times the multiplier they came in at

vars == <<clock, mint, vault, records, nft, stock, ata_exists, funds, principal>>

-----------------------------------------------------------------------------
(* Accounts.                                                               *)

Vault ==
  [open : BOOLEAN,
   master_deed_asset : DeedAssets \cup {"none"},
   payout_holding_ata : HoldingAccounts,
   total_raw_shares : Nat,
   last_multiplier : Nat,
   pending_harvest_amount : Nat,
   total_yield_allocated_bps : 0 .. MAX_YIELD_BPS,
   payout_asset_type : PayoutAssetTypes]

NoVault ==
  [open |-> FALSE, master_deed_asset |-> "none", payout_holding_ata |-> NoTokenAccount,
   total_raw_shares |-> 0, last_multiplier |-> 0, pending_harvest_amount |-> 0,
   total_yield_allocated_bps |-> 0, payout_asset_type |-> "Usdc"]

YieldRecord ==
  [buyout_price_lamports : Nat, share_bps : Nat,
   payouts_received_count : 0 .. U32_MAX, is_active : BOOLEAN,
   expiry_condition : ExpiryCondition]

NoRecord ==
  [buyout_price_lamports |-> 0, share_bps |-> 0, payouts_received_count |-> 0,
   is_active |-> FALSE, expiry_condition |-> [kind |-> "None", limit |-> 0]]

ScaledUiAmountConfig ==
  [multiplier : Nat, new_multiplier : Nat, new_multiplier_effective_timestamp : Nat]

is_expired(record, now) ==
  LET expiry == record.expiry_condition
  IN  \/ expiry.kind = "Timestamp" /\ now >= expiry.limit
      \/ expiry.kind = "PayoutCount" /\ record.payouts_received_count >= expiry.limit

get_effective_multiplier ==
  IF /\ mint.new_multiplier_effective_timestamp > 0
     /\ clock >= mint.new_multiplier_effective_timestamp
  THEN mint.new_multiplier
  ELSE mint.multiplier

(* The caller of an owner_ instruction holds the vault's Master Deed. *)
HoldsDeed(w) == vault.open /\ nft[vault.master_deed_asset] = w

Init ==
  /\ clock = 1
  /\ \E m \in StartMultipliers :
       mint = [multiplier |-> m, new_multiplier |-> m,
               new_multiplier_effective_timestamp |-> 0]
  /\ vault = NoVault
  /\ records = [y \in YieldAssets |-> NoRecord]
  /\ nft = [a \in Assets |-> "unminted"]
  /\ stock = [a \in StockAccounts |-> IF a \in Wallets THEN StartStock[a] ELSE 0]
  /\ ata_exists = FALSE
  /\ funds = StartFunds
  /\ principal = 0

-----------------------------------------------------------------------------
(* The owner's instructions.                                               *)

(* Room for a share in the allocation.  Mutant: looks at the old total. *)
FitsOldTotal(share_bps) == vault.total_yield_allocated_bps <= MAX_YIELD_BPS
FitsAllocation(share_bps) ==
  vault.total_yield_allocated_bps + share_bps <= MAX_YIELD_BPS

(* No position left, as far as the vault knows.  Mutant: only that some of
   the allocation is free. *)
SomeUnwound == vault.total_yield_allocated_bps < MAX_YIELD_BPS
AllUnwound == vault.total_yield_allocated_bps = 0

(* init fails on a token account that exists.  Mutant: init_if_needed. *)
AnyAta == TRUE
AtaIsFree == ~ata_exists

creator_initialize_vault(creator, amount, payout_asset_type, holding, deed) ==
  LET initial_multiplier == f64_to_fixed_multiplier(get_effective_multiplier)
  IN
  /\ ~vault.open
  /\ AtaIsFree
  /\ nft[deed] = "unminted"
  /\ amount > 0
  /\ ValidMultiplier(get_effective_multiplier)
  /\ amount <= stock[creator]
  /\ stock' = Transfer(stock, creator, "stock_vault_ata", amount)
  /\ nft' = [nft EXCEPT ![deed] = creator]
  /\ ata_exists' = TRUE
  /\ vault' = [open |-> TRUE, master_deed_asset |-> deed,
               payout_holding_ata |-> holding, total_raw_shares |-> amount,
               last_multiplier |-> initial_multiplier, pending_harvest_amount |-> 0,
               total_yield_allocated_bps |-> 0, payout_asset_type |-> payout_asset_type]
  /\ principal' = amount * initial_multiplier
  /\ UNCHANGED <<clock, mint, records, funds>>

owner_strip_position(owner, yield, recipient, share_bps, expiry_condition, price) ==
  /\ HoldsDeed(owner)
  /\ share_bps > 0
  /\ FitsAllocation(share_bps)
  /\ nft[yield] = "unminted"
  /\ nft' = [nft EXCEPT ![yield] = recipient]
  /\ records' = [records EXCEPT ![yield] =
       [buyout_price_lamports |-> price, share_bps |-> share_bps,
        payouts_received_count |-> 0, is_active |-> TRUE,
        expiry_condition |-> expiry_condition]]
  /\ vault' = [vault EXCEPT !.total_yield_allocated_bps = @ + share_bps]
  /\ UNCHANGED <<clock, mint, stock, ata_exists, funds, principal>>

(* The price goes to whoever holds the Yield NFT, and the vault burns it. *)
owner_buyout_yield(owner, yield) ==
  LET record == records[yield]
      holder == nft[yield]
  IN
  /\ HoldsDeed(owner)
  /\ record.is_active
  /\ holder \in Wallets
  /\ record.buyout_price_lamports <= funds["Sol"][owner]
  /\ funds' = [funds EXCEPT !["Sol"] = Transfer(@, owner, holder, record.buyout_price_lamports)]
  /\ nft' = [nft EXCEPT ![yield] = "burned"]
  /\ records' = [records EXCEPT ![yield].is_active = FALSE]
  /\ vault' = [vault EXCEPT !.total_yield_allocated_bps = saturating_sub(@, record.share_bps)]
  /\ UNCHANGED <<clock, mint, stock, ata_exists, principal>>

(* close = owner: the vault's lamports, payouts in SOL among them, go too. *)
owner_redeem_principal(owner) ==
  /\ HoldsDeed(owner)
  /\ AllUnwound
  /\ nft' = [nft EXCEPT ![vault.master_deed_asset] = "burned"]
  /\ stock' = Transfer(stock, "stock_vault_ata", owner, stock["stock_vault_ata"])
  /\ funds' = [funds EXCEPT !["Sol"] = Transfer(@, "vault_payout", owner, @["vault_payout"])]
  /\ ata_exists' = FALSE
  /\ vault' = NoVault
  /\ principal' = 0
  /\ UNCHANGED <<clock, mint, records>>

-----------------------------------------------------------------------------
(* The keeper's instructions: anybody may send them.                       *)

keeper_harvest_dividend ==
  LET active_multiplier == f64_to_fixed_multiplier(get_effective_multiplier)
      current_raw_balance == stock["stock_vault_ata"]
      harvest_amount == calculate_harvest_amount(current_raw_balance, vault.last_multiplier,
                                                 active_multiplier)
  IN
  /\ vault.open
  /\ ValidMultiplier(get_effective_multiplier)
  /\ HarvestDefined(vault.last_multiplier, active_multiplier)
  /\ harvest_amount > 0
  /\ vault.pending_harvest_amount + harvest_amount <= U64_MAX
  /\ stock' = Transfer(stock, "stock_vault_ata", "pending_distribution_ata", harvest_amount)
  /\ vault' = [vault EXCEPT !.last_multiplier = active_multiplier,
                            !.pending_harvest_amount = @ + harvest_amount,
                            !.total_raw_shares = current_raw_balance - harvest_amount]
  /\ UNCHANGED <<clock, mint, records, nft, ata_exists, funds, principal>>

(***************************************************************************)
(* A swap for USDC pays into payout_holding_ata, in whatever token that    *)
(* account is for; SOL goes to any account the caller names.  The runtime  *)
(* lets a program debit only the lamports of an account it owns; a         *)
(* transaction that leaves them unchanged is no debit.                     *)
(***************************************************************************)
SwapDestinations ==
  {to \in Monies \X FundAccounts :
     IF vault.payout_asset_type = "Usdc" THEN to = vault.payout_holding_ata ELSE to[1] = "Sol"}

MayDebitReserve(destination, payout_amount) ==
  \/ vault.payout_asset_type = "Usdc"
  \/ RESERVE_OWNED_BY_PROGRAM
  \/ payout_amount = 0
  \/ destination = "swap_reserve"

VaultAsBefore == vault              \* mutant: the reset is forgotten
VaultAfterSwap == [vault EXCEPT !.pending_harvest_amount = 0]

keeper_execute_swap(custom_rate, money, destination) ==
  LET pending_amount == vault.pending_harvest_amount
      payout_amount == calculate_simulated_swap_output(pending_amount, vault.payout_asset_type,
                                                       custom_rate)
  IN
  /\ vault.open
  /\ pending_amount > 0
  /\ payout_amount <= U64_MAX
  /\ stock["pending_distribution_ata"] >= pending_amount
  /\ <<money, destination>> \in SwapDestinations
  /\ funds[money]["swap_reserve"] >= payout_amount
  /\ MayDebitReserve(destination, payout_amount)
  /\ stock' = Transfer(stock, "pending_distribution_ata", "swap_reserve_stock_ata", pending_amount)
  /\ funds' = [funds EXCEPT ![money] = Transfer(@, "swap_reserve", destination, payout_amount)]
  /\ vault' = VaultAfterSwap
  /\ UNCHANGED <<clock, mint, records, nft, ata_exists, principal>>

(***************************************************************************)
(* The loop of keeper_distribute_payout meets a record once for every      *)
(* triple that names it, and what it does to one record does not depend on *)
(* the other records.  So the list of triples is the number of times each  *)
(* yield asset is in it, and the loop is: how many of those times a record *)
(* is paid, and what the record is afterwards.                             *)
(***************************************************************************)
EveryTriplePays(record, n) == IF record.is_active THEN n ELSE 0   \* mutant: no expiry
TimesPaid(record, n) ==
  IF ~record.is_active \/ is_expired(record, clock) THEN 0
  ELSE LET left == record.expiry_condition.limit - record.payouts_received_count
       IN  IF record.expiry_condition.kind = "PayoutCount" /\ left < n THEN left ELSE n

(* Mutant: the second look at the expiry, after the payment, is missing. *)
CheckedBeforePaying(record, n) ==
  [record EXCEPT !.payouts_received_count = @ + TimesPaid(record, n),
                 !.is_active = @ /\ (n > 0 => ~is_expired(record, clock))]
(* Mutant: whatever has been listed is over. *)
EndedWhenListed(record, n) == [record EXCEPT !.is_active = @ /\ n = 0]
AfterTriples(record, n) ==
  LET counted == [record EXCEPT !.payouts_received_count = @ + TimesPaid(record, n)]
  IN  [counted EXCEPT !.is_active = @ /\ (n > 0 => ~is_expired(counted, clock))]

(* The positions that a distribution ends, whose shares go back to the
   vault.  Mutant: only those that a payment completed. *)
Completed(after) ==
  {y \in YieldAssets : /\ records[y].is_active /\ ~after[y].is_active
                       /\ ~is_expired(records[y], clock)}
Reverted(after) == {y \in YieldAssets : records[y].is_active /\ ~after[y].is_active}

(* What each wallet gets: the shares of the Yield NFTs it holds, and for the
   Master Deed holder all that is left.  Mutant: the deed holder gets the
   unallocated share instead, and what was rounded off goes nowhere. *)
UnallocatedShare(payout, paid) ==
  [w \in Wallets |->
     Total(paid, {y \in YieldAssets : nft[y] = w})
     + (IF HoldsDeed(w)
        THEN calculate_yield_share(payout, MAX_YIELD_BPS - vault.total_yield_allocated_bps)
        ELSE 0)]
Income(payout, paid) ==
  [w \in Wallets |->
     Total(paid, {y \in YieldAssets : nft[y] = w})
     + (IF HoldsDeed(w) THEN payout - Total(paid, YieldAssets) ELSE 0)]

(* The source is the vault's lamports, or any token account of the vault's
   PDA that the caller names: its mint is not looked at. *)
PayoutSources == IF vault.payout_asset_type = "Usdc" THEN TokenMints ELSE {"Sol"}

keeper_distribute_payout(money, total_payout_amount, listed) ==
  LET available == funds[money]["vault_payout"]
      payout == IF total_payout_amount > 0 THEN total_payout_amount ELSE available
      times == [y \in YieldAssets |-> TimesPaid(records[y], listed[y])]
      paid == [y \in YieldAssets |->
                 times[y] * calculate_yield_share(payout, records[y].share_bps)]
      after == [y \in YieldAssets |-> AfterTriples(records[y], listed[y])]
      shares == [y \in YieldAssets |-> records[y].share_bps]
      income == Income(payout, paid)
  IN
  /\ \E owner \in Wallets : HoldsDeed(owner)
  /\ money \in PayoutSources
  /\ payout > 0
  /\ payout <= available
  /\ \A y \in YieldAssets : listed[y] > 0 => nft[y] # "unminted"
  /\ \A y \in YieldAssets : times[y] > 0 => nft[y] \in Wallets
  /\ \A y \in YieldAssets : records[y].payouts_received_count + times[y] <= U32_MAX
  /\ Total(paid, YieldAssets) <= payout
  /\ funds' = [funds EXCEPT ![money] =
       [a \in FundAccounts |->
          CASE a = "vault_payout" -> available - payout
            [] a \in Wallets -> funds[money][a] + income[a]
            [] OTHER -> funds[money][a]]]
  /\ records' = after
  /\ vault' = [vault EXCEPT !.total_yield_allocated_bps =
                              saturating_sub(@, Total(shares, Reverted(after)))]
  /\ UNCHANGED <<clock, mint, nft, stock, ata_exists, principal>>

(* The triples a transaction can carry, by how often each asset is named. *)
Listings == {listed \in [YieldAssets -> 0 .. MAX_TRIPLES] :
               Total(listed, YieldAssets) <= MAX_TRIPLES}

-----------------------------------------------------------------------------
(* The environment: what the program reads and cannot prevent.             *)

Tick ==
  /\ clock < MAX_TIME
  /\ clock' = clock + 1
  /\ UNCHANGED <<mint, vault, records, nft, stock, ata_exists, funds, principal>>

(* Token-2022's UpdateMultiplier: at once, or scheduled over what was
   scheduled before.  Any timestamp that has passed does what 0 does. *)
update_multiplier(new_multiplier, effective_timestamp) ==
  /\ mint' = [multiplier |-> IF effective_timestamp <= clock THEN new_multiplier
                             ELSE mint.multiplier,
              new_multiplier |-> new_multiplier,
              new_multiplier_effective_timestamp |-> effective_timestamp]
  /\ UNCHANGED <<clock, vault, records, nft, stock, ata_exists, funds, principal>>

(* Metaplex Core: an asset is its owner's to give away or to burn. *)
transfer_asset(asset, recipient) ==
  /\ nft[asset] \in Wallets
  /\ nft' = [nft EXCEPT ![asset] = recipient]
  /\ UNCHANGED <<clock, mint, vault, records, stock, ata_exists, funds, principal>>

burn_asset(asset) ==
  /\ nft[asset] \in Wallets
  /\ nft' = [nft EXCEPT ![asset] = "burned"]
  /\ UNCHANGED <<clock, mint, vault, records, stock, ata_exists, funds, principal>>

(* The associated token program creates the token account of any address,
   the vault's too, for whoever pays the rent. *)
create_stock_vault_ata ==
  /\ ~ata_exists
  /\ ata_exists' = TRUE
  /\ UNCHANGED <<clock, mint, vault, records, nft, stock, funds, principal>>

(* A token account takes what anybody sends to it, and so does a PDA, with a
   vault or without one. *)
send_stock(from, amount) ==
  /\ ata_exists
  /\ amount <= stock[from]
  /\ stock' = Transfer(stock, from, "stock_vault_ata", amount)
  /\ UNCHANGED <<clock, mint, vault, records, nft, ata_exists, funds, principal>>

send_funds(money, from, amount) ==
  /\ amount <= funds[money][from]
  /\ funds' = [funds EXCEPT ![money] = Transfer(@, from, "vault_payout", amount)]
  /\ UNCHANGED <<clock, mint, vault, records, nft, stock, ata_exists, principal>>

-----------------------------------------------------------------------------
OwnerStep ==
  \/ \E w \in Wallets, kind \in PayoutAssetTypes, holding \in HoldingChoices, deed \in DeedAssets :
       \E amount \in 1 .. stock[w] : creator_initialize_vault(w, amount, kind, holding, deed)
  \/ \E w, r \in Wallets, y \in YieldAssets, share \in ShareChoices,
        expiry \in ExpiryChoices, price \in PriceChoices :
       owner_strip_position(w, y, r, share, expiry, price)
  \/ \E w \in Wallets, y \in YieldAssets : owner_buyout_yield(w, y)
  \/ \E w \in Wallets : owner_redeem_principal(w)

Swap == \E rate \in CustomRates \cup {None}, money \in Monies, destination \in FundAccounts :
          keeper_execute_swap(rate, money, destination)

Distribute == \E money \in Monies, listed \in Listings :
                \E amount \in 0 .. funds[money]["vault_payout"] :
                  keeper_distribute_payout(money, amount, listed)

KeeperStep == keeper_harvest_dividend \/ Swap \/ Distribute

EnvironmentStep ==
  \/ Tick
  \/ \E m \in MultiplierChoices, t \in {0} \cup (clock + 1 .. MAX_TIME) :
       update_multiplier(m, t)
  \/ \E a \in Assets, w \in Wallets : transfer_asset(a, w)
  \/ \E a \in Assets : burn_asset(a)
  \/ create_stock_vault_ata
  \/ \E w \in Wallets : \E n \in 1 .. stock[w] : send_stock(w, n)
  \/ \E money \in Monies, w \in Wallets :
       \E n \in 1 .. funds[money][w] : send_funds(money, w, n)

Next == OwnerStep \/ KeeperStep \/ EnvironmentStep

Spec == Init /\ [][Next]_vars
=============================================================================
