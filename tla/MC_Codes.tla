------------------------------- MODULE MC_Codes -------------------------------
EXTENDS Codes, TLC

MCSymmetry == Permutations(Threads)
=============================================================================
