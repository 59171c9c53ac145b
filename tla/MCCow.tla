------------------------------- MODULE MCCow -------------------------------
(* Instances of Cow for TLC. *)
EXTENDS Cow, TLC

\* Which pages instructions and the kernel access.
TouchAreas == AreaPages
TouchAllKinds == CodePages \cup AreaPages \cup LowStack

\* No operation looks at a value.
ValuesAlike == Permutations(Values)
=============================================================================
