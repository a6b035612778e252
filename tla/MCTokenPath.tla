----------------------------- MODULE MCTokenPath -----------------------------
EXTENDS TokenPath, TLC
MCSymmetry == Permutations(Callers) \cup Permutations(Flows)
=============================================================================
