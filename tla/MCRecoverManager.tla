-------------------------- MODULE MCRecoverManager --------------------------
EXTENDS CLRecoverManager
=============================================================================
