--------------------------- MODULE MCIndexedVault ---------------------------
(* The instances of MCStripVault, with the events and their reader. *)
EXTENDS MCStripVault, IndexedVault
=============================================================================
