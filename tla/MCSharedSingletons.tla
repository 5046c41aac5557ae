------------------------- MODULE MCSharedSingletons -------------------------
EXTENDS SharedSingletons
CONSTANTS t1, t2, h1
=============================================================================
