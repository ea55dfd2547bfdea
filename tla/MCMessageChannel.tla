-------------------------- MODULE MCMessageChannel --------------------------
\* Two slots a node and five messages: the queue crosses two boundaries and
\* the third node is one that went through the pool.
EXTENDS CLMessageChannel
=============================================================================
