------------------------ MODULE MCClientOnboarding ------------------------
EXTENDS ClientOnboarding, TLC

WorkerSymmetry == Permutations(Workers)
===========================================================================
