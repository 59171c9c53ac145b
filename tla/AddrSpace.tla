----------------------------- MODULE AddrSpace -----------------------------
(***************************************************************************)
(* What the memory-mapping calls of one process promise, without the list  *)
(* of areas that implements them: an address is unmapped or carries the    *)
(* protection it was last given.  mmap hands out a run of addresses that   *)
(* was free; munmap and mprotect sweep a range upwards, changing every     *)
(* mapped address they pass and no other, and stop only when nothing is    *)
(* left to change in the range.  VmArea implements this module.            *)
(***************************************************************************)
EXTENDS Integers

CONSTANTS
  Addrs,      \* the addresses of the mmap area, an interval of integers
  Reserved,   \* those of the page the kernel keeps for its own list head
  Prots,      \* the protections a caller can ask for
  PROT_NONE,  \* the protection of the reserved page
  Unmapped    \* what prot holds for an address nobody mapped

VARIABLES
  prot,       \* protection of each address
  busy,       \* the range call being executed, or Idle
  ret         \* what the last call that finished returned

vars == <<prot, busy, ret>>

Idle == [op |-> "idle"]

\* A process that has mapped nothing: only the reserved page is in use.
Blank == [a \in Addrs |-> IF a \in Reserved THEN PROT_NONE ELSE Unmapped]

Init ==
  /\ prot = Blank
  /\ busy = Idle
  /\ ret = 0

\* mmap succeeds: the free run lo .. hi-1 gets protection p; lo is returned.
Map(lo, hi, p) ==
  /\ busy = Idle
  /\ ret' = lo
  /\ lo < hi
  /\ LET run == lo..(hi - 1)
         old == prot
     IN /\ \A a \in run : old[a] = Unmapped
        /\ prot' = [a \in Addrs |-> IF a \in run THEN p ELSE old[a]]
  /\ UNCHANGED busy

\* A call that changes nothing: refused, or with nothing to do.
NoEffect(r) ==
  /\ busy = Idle
  /\ ret' = r
  /\ UNCHANGED <<prot, busy>>

\* munmap (target Unmapped) or mprotect starts on the mapped address lo.
Begin(target, lo, hi) ==
  /\ busy = Idle
  /\ prot[lo] # Unmapped
  /\ lo < hi
  /\ busy' = [op |-> "sweep", target |-> target, lo |-> lo, hi |-> hi]
  /\ UNCHANGED <<prot, ret>>

\* Everything mapped in busy.lo .. c-1 takes the target value; the call goes
\* on at the mapped address c, or ends when nothing mapped is left.
Sweep(c) ==
  /\ busy # Idle
  /\ busy.lo < c /\ c <= busy.hi
  /\ LET old == prot
         new == prot'
     IN /\ new = [a \in Addrs |->
                    IF old[a] # Unmapped /\ busy.lo <= a /\ a < c
                    THEN busy.target ELSE old[a]]
        /\ \/ /\ c < busy.hi /\ new[c] # Unmapped
              /\ busy' = [busy EXCEPT !.lo = c]
              /\ UNCHANGED ret
           \/ /\ \A a \in c..(busy.hi - 1) : new[a] = Unmapped
              /\ busy' = Idle
              /\ ret' = 0

Exit ==
  /\ busy = Idle
  /\ prot' = Blank
  /\ ret' = 0
  /\ UNCHANGED busy

\* Where a run of addresses can end: one past any of them.
Limits == {a + 1 : a \in Addrs}

Next ==
  \/ \E lo \in Addrs, hi \in Limits, p \in Prots : Map(lo, hi, p)
  \/ \E r \in {-1, 0} : NoEffect(r)
  \/ \E t \in Prots \cup {Unmapped}, lo \in Addrs, hi \in Limits : Begin(t, lo, hi)
  \/ \E c \in Limits : Sweep(c)
  \/ Exit

Spec == Init /\ [][Next]_vars
=============================================================================
