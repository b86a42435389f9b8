----------------------------- MODULE MCStratum -------------------------------
EXTENDS Stratum
=============================================================================
