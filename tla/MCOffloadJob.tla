---------------------------- MODULE MCOffloadJob ----------------------------
EXTENDS OffloadJob, TLC

CONSTANTS shmCopy, fileWrite

\* The two jobs differ only by the sets the cfg puts them in.
Symmetry == Permutations(Jobs)
=============================================================================
