------------------------ MODULE MCThreadHeapRecovery ------------------------
EXTENDS CLThreadHeapRecovery
=============================================================================
