------------------------- MODULE MCSettledRollover -------------------------
EXTENDS SettledRollover
=============================================================================
