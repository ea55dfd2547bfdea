------------------------- MODULE MCExtentRadixTree -------------------------
EXTENDS CLExtentRadixTree
=============================================================================
