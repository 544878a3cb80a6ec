------------------------- MODULE MCReserializeChain -------------------------
EXTENDS ReserializeChain
=============================================================================
