---------------------------- MODULE MCFeedSockets ----------------------------
EXTENDS FeedSockets
=============================================================================
