--------------------------- MODULE MCPresenceEngine ---------------------------
EXTENDS PresenceEngine, TLC

TaskSymmetry == Permutations(Loops)
=============================================================================
