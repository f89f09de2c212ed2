----------------------------- MODULE MCLimiter -----------------------------
EXTENDS Limiter, TLC

Symmetry == Permutations(Requests)
=============================================================================
