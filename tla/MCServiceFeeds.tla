--------------------------- MODULE MCServiceFeeds ---------------------------
EXTENDS ServiceFeeds
=============================================================================
