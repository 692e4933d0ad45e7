-------------------------- MODULE MCChainSelection --------------------------
EXTENDS ChainSelection
=============================================================================
