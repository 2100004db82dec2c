---------------------------- MODULE MCStripVault ----------------------------
(* Small instances of StripVault for TLC. *)
EXTENDS StripVaultRights, TLC

CONSTANTS
  alice, bob,          \* the wallets
  Shares0,             \* raw stock alice starts with
  Cash,                \* what alice starts with of the payout asset PaidIn
  Lamports,            \* SOL alice starts with on top of that
  Liquidity,           \* what the swap reserve starts with of each payout asset
  PaidIn,              \* the payout asset alice has Cash of
  Dust                 \* what the vault's PDA starts with of each other token

MCStartStock == [w \in Wallets |-> IF w = alice THEN Shares0 ELSE 0]

MCStartFunds ==
  [money \in Monies |->
     [a \in FundAccounts |->
        CASE a = "swap_reserve" -> IF money \in PayoutAssetTypes THEN Liquidity ELSE 0
          [] a = "vault_payout" -> IF money \in OtherTokens THEN Dust ELSE 0
          [] a = alice -> (IF money = PaidIn THEN Cash ELSE 0)
                          + (IF money = "Sol" THEN Lamports ELSE 0)
          [] OTHER -> 0]]

(* The account for payouts that a creator names: the vault's, or one of
   alice's as well. *)
VaultsOwn == {<<"Usdc", "vault_payout">>}
AnyHolding == VaultsOwn \cup {<<"Usdc", alice>>}

(* No constant tells one yield asset, or one deed asset, from another. *)
AssetSymmetry == Permutations(YieldAssets) \cup Permutations(DeedAssets)

Expiry(kind, limit) == [kind |-> kind, limit |-> limit]
AnyExpiry == {Expiry("None", 0), Expiry("Timestamp", 2), Expiry("PayoutCount", 1)}
TwoPayouts == {Expiry("PayoutCount", 0), Expiry("PayoutCount", 2)}
OneCount == {Expiry("PayoutCount", 1)}
CountedExpiry == {Expiry("PayoutCount", 0), Expiry("PayoutCount", 1)}
=============================================================================
