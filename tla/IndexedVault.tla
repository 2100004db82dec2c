---------------------------- MODULE IndexedVault ----------------------------
(***************************************************************************)
(* StripVault with the events of events.rs, "Program events for indexer    *)
(* tracking" (docs/PLAN_CONTRACTS.md), and a reader who knows nothing but  *)
(* those events: the indexer of docs/TO-DO.md.  A transaction that fails   *)
(* emits nothing.  Index(e) is what the reader makes of an event e.        *)
(***************************************************************************)
EXTENDS StripVaultRights

VARIABLE
  index   \* what the events told so far, of the vault that is open

NoIndex ==
  [multiplier |-> 0, pending |-> 0, shares |-> 0, positions |-> {}, allocated_bps |-> 0]

-----------------------------------------------------------------------------
(* The events, as each handler fills them in, less what this reader does   *)
(* not use: addresses other than that of the Yield NFT, and prices and     *)
(* payouts.                                                                *)

VaultInitializedEvent(amount) ==
  [event |-> "VaultInitialized", initial_shares |-> amount,
   initial_multiplier |-> f64_to_fixed_multiplier(get_effective_multiplier)]

YieldStrippedEvent(yield, share_bps) ==
  [event |-> "YieldStripped", yield_asset_id |-> yield,
   total_allocated_bps |-> vault.total_yield_allocated_bps + share_bps]

YieldBoughtOutEvent(yield) ==
  [event |-> "YieldBoughtOut", yield_asset_id |-> yield,
   share_bps_reclaimed |-> records[yield].share_bps]

(* The multiplier before the harvest.  Mutant: read after it was replaced. *)
ReadAfter == f64_to_fixed_multiplier(get_effective_multiplier)
old_multiplier == vault.last_multiplier

DividendHarvestedEvent ==
  LET active_multiplier == f64_to_fixed_multiplier(get_effective_multiplier)
  IN  [event |-> "DividendHarvested",
       old_multiplier |-> old_multiplier, new_multiplier |-> active_multiplier,
       harvested_tokens |-> calculate_harvest_amount(stock["stock_vault_ata"],
                                                     vault.last_multiplier, active_multiplier)]

SwapExecutedEvent ==
  [event |-> "SwapExecuted", stock_amount_in |-> vault.pending_harvest_amount]

PayoutDistributedEvent == [event |-> "PayoutDistributed"]

PrincipalRedeemedEvent == [event |-> "PrincipalRedeemed"]

-----------------------------------------------------------------------------
(* The reader, who notices when a harvest does not begin where the last one
   that was heard of ended.                                                *)

Gap == 0
Index(e) ==
  CASE e.event = "VaultInitialized" ->
         [NoIndex EXCEPT !.multiplier = e.initial_multiplier, !.shares = e.initial_shares]
    [] e.event = "YieldStripped" ->
         [index EXCEPT !.positions = @ \cup {e.yield_asset_id},
                       !.allocated_bps = e.total_allocated_bps]
    [] e.event = "YieldBoughtOut" ->
         [index EXCEPT !.positions = @ \ {e.yield_asset_id},
                       !.allocated_bps = @ - e.share_bps_reclaimed]
    [] e.event = "DividendHarvested" ->
         [index EXCEPT !.multiplier = IF e.old_multiplier = @ THEN e.new_multiplier ELSE Gap,
                       !.pending = @ + e.harvested_tokens,
                       !.shares = @ - e.harvested_tokens]
    [] e.event = "SwapExecuted" ->
         [index EXCEPT !.pending = @ - e.stock_amount_in]
    [] e.event = "PayoutDistributed" -> index
    [] e.event = "PrincipalRedeemed" -> NoIndex

Emit(e) == index' = Index(e)

IndexedInit == Init /\ index = NoIndex

IndexedNext ==
  \/ \E w \in Wallets, kind \in PayoutAssetTypes, holding \in HoldingChoices, deed \in DeedAssets :
       \E amount \in 1 .. stock[w] :
         /\ creator_initialize_vault(w, amount, kind, holding, deed)
         /\ Emit(VaultInitializedEvent(amount))
  \/ \E w, r \in Wallets, y \in YieldAssets, share \in ShareChoices,
        expiry \in ExpiryChoices, price \in PriceChoices :
       owner_strip_position(w, y, r, share, expiry, price) /\ Emit(YieldStrippedEvent(y, share))
  \/ \E w \in Wallets, y \in YieldAssets :
       owner_buyout_yield(w, y) /\ Emit(YieldBoughtOutEvent(y))
  \/ \E w \in Wallets : owner_redeem_principal(w) /\ Emit(PrincipalRedeemedEvent)
  \/ keeper_harvest_dividend /\ Emit(DividendHarvestedEvent)
  \/ Swap /\ Emit(SwapExecutedEvent)
  \/ Distribute /\ Emit(PayoutDistributedEvent)
  \/ EnvironmentStep /\ UNCHANGED index

IndexedSpec == IndexedInit /\ [][IndexedNext]_<<vars, index>>

-----------------------------------------------------------------------------
(* The events tell what the vault holds for the next swap, at which
   multiplier it was harvested last, each harvest beginning where the one
   before ended, and at least how much stock it has: what they leave out is
   stock that somebody sent. *)
EventsTellTheStock ==
  vault.open =>
    /\ index.multiplier = vault.last_multiplier
    /\ index.pending = vault.pending_harvest_amount
    /\ index.shares <= stock["stock_vault_ata"]

(* No event says that a position expired.  A reader still knows of every
   position that is active, one it has beyond those has met the expiry
   condition of its record, and it never takes more of the vault to be free
   for new positions than there is. *)
EventsTellThePositions ==
  vault.open =>
    /\ Active \subseteq index.positions
    /\ \A y \in index.positions \ Active : is_expired(records[y], clock)
    /\ vault.total_yield_allocated_bps <= index.allocated_bps
=============================================================================
