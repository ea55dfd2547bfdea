------------------------- MODULE MCRootInfoManager -------------------------
EXTENDS CLRootInfoManager, TLC
CONSTANTS n1, n2, a1, a2, r1

MCNames     == {n1, n2}
MCAddresses == {a1, a2}
\* One record of two words, one of three.
MCSize      == n1 :> 2 @@ n2 :> 3
=============================================================================
