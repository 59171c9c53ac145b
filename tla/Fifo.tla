-------------------------------- MODULE Fifo --------------------------------
(***************************************************************************)
(* What a pipe promises: a queue of at most Capacity bytes.  A write adds  *)
(* all its bytes at the end or none; a read takes all the bytes it asked   *)
(* for from the front or none.  Pipe implements this module.               *)
(***************************************************************************)
EXTENDS Integers, Sequences

CONSTANTS
  Byte,      \* the values a byte can have
  Capacity,  \* bytes the queue can hold
  Errors     \* what a refused call returns

VARIABLES
  queue,     \* the bytes written and not yet read
  moved,     \* the bytes the last successful call moved, in or out
  ret        \* what the last call returned

vars == <<queue, moved, ret>>

Init ==
  /\ queue = <<>>
  /\ moved = <<>>
  /\ ret = 0

Write(bytes) ==
  /\ Len(queue) + Len(bytes) <= Capacity
  /\ queue' = queue \o bytes
  /\ moved' = bytes
  /\ ret' = Len(bytes)

Read(n) ==
  /\ n <= Len(queue)
  /\ moved' = SubSeq(queue, 1, n)
  /\ queue' = SubSeq(queue, n + 1, Len(queue))
  /\ ret' = n

Refuse(error) ==
  /\ ret' = error
  /\ UNCHANGED <<queue, moved>>

Next ==
  \/ \E n \in 0..Capacity : \E bytes \in [1..n -> Byte] : Write(bytes)
  \/ \E n \in 0..Capacity : Read(n)
  \/ \E error \in Errors : Refuse(error)

Spec == Init /\ [][Next]_vars
=============================================================================
