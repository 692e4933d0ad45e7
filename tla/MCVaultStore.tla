---------------------------- MODULE MCVaultStore ----------------------------
EXTENDS VaultStoreProps, Naturals, TLC

\* The callback of update() swaps the structs 1 and 2, when both are used.
MCBump == [v \in Vals |-> IF 2 \in Vals THEN 3 - v ELSE v]

MCSymmetry == Permutations(Tasks)
=============================================================================
