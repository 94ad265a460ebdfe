----------------------------- MODULE MCTwsLink -----------------------------
EXTENDS TwsLink
=============================================================================
