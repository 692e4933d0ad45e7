-------------------------- MODULE MCVaultLoginCalm --------------------------
EXTENDS VaultLoginCalm
=============================================================================
