------------------------- MODULE MCRateLimitingPool -------------------------
EXTENDS RateLimitingPool
=============================================================================
