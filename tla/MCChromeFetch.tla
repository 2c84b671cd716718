---------------------------- MODULE MCChromeFetch ----------------------------
EXTENDS ChromeFetch, TLC

Symmetry == Permutations(Trusting) \cup Permutations(Clients \ Trusting)
=============================================================================
