---------------------------- MODULE MC_FeedHandler ----------------------------
EXTENDS FeedHandler

MC_Quotes == {<<1, 2>>, <<2, 3>>, <<3, 4>>}
=============================================================================
