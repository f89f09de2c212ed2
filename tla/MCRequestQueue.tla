--------------------------- MODULE MCRequestQueue ---------------------------
EXTENDS RequestQueue, TLC

Symmetry == Permutations(Requests)
=============================================================================
