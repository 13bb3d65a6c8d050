---------------------------- MODULE MCNodeFeed ----------------------------
EXTENDS NodeFeed
MCBackoff == <<1, 2>>
=============================================================================
