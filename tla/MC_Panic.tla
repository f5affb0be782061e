------------------------------ MODULE MC_Panic ------------------------------
EXTENDS Panic, TLC
=============================================================================
