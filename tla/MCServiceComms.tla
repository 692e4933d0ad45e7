--------------------------- MODULE MCServiceComms ---------------------------
EXTENDS ServiceComms
=============================================================================
