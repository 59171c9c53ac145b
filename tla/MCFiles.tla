------------------------------ MODULE MCFiles ------------------------------
(***************************************************************************)
(* The instance of Files that TLC checks: two processes with three         *)
(* descriptors, of which one is standard I/O, so that tables fill up,      *)
(* descriptors are shared and an object is reused after its last one.      *)
(***************************************************************************)
EXTENDS Files, TLC

MCOffsets == {-1, 1}

MCAccesses == {{"O_READ", "O_WRITE"}}

\* Which free page an object gets does not matter.
Symmetry == Permutations(FileIds)
=============================================================================
