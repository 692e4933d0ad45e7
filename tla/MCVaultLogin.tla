---------------------------- MODULE MCVaultLogin ----------------------------
EXTENDS VaultLoginProps, TLC
=============================================================================
