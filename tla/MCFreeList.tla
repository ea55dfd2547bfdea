----------------------------- MODULE MCFreeList -----------------------------
\* Three nodes let a head go A -> B -> A under a suspended pop.
EXTENDS CLFreeList
=============================================================================
