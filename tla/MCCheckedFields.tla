--------------------------- MODULE MCCheckedFields ---------------------------
EXTENDS CheckedFields, TLC

CONSTANTS f1, g1

\* f1 and g1 are of two kinds.
Kinds == f1 :> "f" @@ g1 :> "g"
=============================================================================
