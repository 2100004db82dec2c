------------------------- MODULE MCHoldersOfRecord -------------------------
(* The instances of MCStripVault, with the holders of record. *)
EXTENDS MCStripVault, HoldersOfRecord
=============================================================================
