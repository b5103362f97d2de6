--------------------------- MODULE MCApnConnection ----------------------------
EXTENDS ApnConnection
ApnSymmetry == Permutations(Socket) \cup Permutations(Note \ Big)
=============================================================================
