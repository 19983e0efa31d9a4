--------------------------- MODULE MC_FeedSimulator ---------------------------
EXTENDS FeedSimulator

CONSTANTS fa, fb
=============================================================================
