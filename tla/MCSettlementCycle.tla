------------------------- MODULE MCSettlementCycle -------------------------
EXTENDS SettlementProperties, TLC
=============================================================================
