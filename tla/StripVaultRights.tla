-------------------------- MODULE StripVaultRights --------------------------
(***************************************************************************)
(* strip_vault keeps the promises of DividendRights.  A right is a record  *)
(* that is active; who owns the vault and who holds a right are what       *)
(* Metaplex Core says at that moment.  The counter of the vault, expiry    *)
(* conditions, counts of payouts, stock and multipliers are not part of    *)
(* the promise, so what the program does with them must not show in it.    *)
(***************************************************************************)
EXTENDS StripVaultProperties

DeedHolder == IF DeedIsHeld THEN nft[vault.master_deed_asset] ELSE "burned"
OwedShare == [y \in YieldAssets |-> IF records[y].is_active THEN records[y].share_bps ELSE 0]
AgreedPrice == [y \in YieldAssets |-> records[y].buyout_price_lamports]
YieldHolder == [y \in YieldAssets |-> nft[y]]

Promised ==
  INSTANCE DividendRights WITH
    Holders <- Wallets,
    Rights <- YieldAssets,
    Monies <- Monies,
    Accounts <- FundAccounts,
    Prices <- PriceChoices,
    WHOLE <- MAX_YIELD_BPS,
    MOST_TIMES <- MAX_TRIPLES,
    open <- vault.open,
    owner <- DeedHolder,
    share <- OwedShare,
    price <- AgreedPrice,
    holder <- YieldHolder,
    purse <- funds

(* Every transaction is a step that the promise allows, or one that it does
   not see: the counter total_yield_allocated_bps oversells nothing, and what
   a payout rounds off is lost to nobody, in whatever money it is. *)
ImplementsRights == Promised!Spec
=============================================================================
