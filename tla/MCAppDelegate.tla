----------------------------- MODULE MCAppDelegate -----------------------------
EXTENDS AppDelegate, TLC

LoopSymmetry == Permutations(Loops)
=============================================================================
