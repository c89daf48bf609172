---------------------------- MODULE MCVaultSync -----------------------------
(* Model values for the bounded checks of VaultSync.                       *)
EXTENDS VaultSync

CONSTANTS e1, f1, f2
=============================================================================
