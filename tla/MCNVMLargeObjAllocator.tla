----------------------- MODULE MCNVMLargeObjAllocator -----------------------
EXTENDS CLNVMLargeObjAllocator
=============================================================================
