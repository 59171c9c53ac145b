------------------------------ MODULE MCTracer ------------------------------
\* Instances of Tracer for TLC.
EXTENDS Tracer, TLC

CONSTANTS n1, n2, n3

MCCallNodes == {n1, n2, n3}
MCSymmetry == Permutations(MCCallNodes)
\* got is written and never read.
MCView == <<mode, ring, st, calls, leaked, fns, code, log, lost, spoiled>>

MCListable == {"getpid", "end_strace"}
MCModes == {"O_RDWR"}
=============================================================================
