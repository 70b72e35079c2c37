---------------------------- MODULE MCComputeTx ----------------------------
EXTENDS ComputeTx, TLC

CONSTANTS w1, w2, reaper

OneWorker == {w1}
TwoWorkers == {w1, w2}
SymWorkers == Permutations(TwoWorkers)
=============================================================================
