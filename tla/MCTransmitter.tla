---------------------------- MODULE MCTransmitter ----------------------------
EXTENDS Transmitter, TLC
UserSymmetry == Permutations(User)
=============================================================================
