-------------------------- MODULE HoldersOfRecord --------------------------
(***************************************************************************)
(* StripVault with a history variable: who held each Yield NFT when the    *)
(* last dividend fired, which is to say when it was harvested.             *)
(***************************************************************************)
EXTENDS StripVaultProperties

VARIABLE of_record

Holders == [y \in YieldAssets |-> nft[y]]

RecordInit == Init /\ of_record = Holders

RecordNext ==
  \/ keeper_harvest_dividend /\ of_record' = Holders
  \/ (OwnerStep \/ Swap \/ Distribute \/ EnvironmentStep) /\ UNCHANGED of_record

RecordSpec == RecordInit /\ [][RecordNext]_<<vars, of_record>>

(* ABOUT.md:25, "whoever holds it _at the moment a dividend fires_ receives
   that share": of the payout that a position is counted for, its share goes
   to the one who held it at the harvest. *)
HolderAtTheDividendIsPaid ==
  [][\A y \in YieldAssets :
       LET asset == vault.payout_asset_type
           payout == funds[asset]["vault_payout"] - funds'[asset]["vault_payout"]
           holder == of_record[y]
       IN  records'[y].payouts_received_count > records[y].payouts_received_count
             /\ holder \in Wallets =>
           funds'[asset][holder] - funds[asset][holder]
             >= calculate_yield_share(payout, records[y].share_bps)]_<<vars, of_record>>
=============================================================================
