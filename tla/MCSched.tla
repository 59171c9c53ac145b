------------------------------ MODULE MCSched ------------------------------
(***************************************************************************)
(* The instance of Sched that TLC checks: the swapper and three processes, *)
(* so that a scan skips one, wraps around and comes back to its caller.    *)
(***************************************************************************)
EXTENDS Sched

MCTicks == 0..2
=============================================================================
