------------------------------- MODULE MCPipe -------------------------------
(***************************************************************************)
(* The small instance of Pipe that TLC checks: a ring of four bytes and a  *)
(* u32 of nine values, so that every position of a full and of an empty    *)
(* ring occurs and buffer_offset + count wraps around.                     *)
(***************************************************************************)
EXTENDS Pipe, TLC

\* No operation looks at the value of a byte.
Symmetry == Permutations(Byte)
=============================================================================
