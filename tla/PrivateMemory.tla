---------------------------- MODULE PrivateMemory ----------------------------
(***************************************************************************)
(* What processes see of memory when each one has its own: a value for     *)
(* every page it has touched and has not given up.  A store changes one    *)
(* page of one process.  Whether pages are shared behind this, and when    *)
(* they are copied, is not visible here.                                   *)
(***************************************************************************)
EXTENDS Integers

CONSTANTS
  Procs,      \* the processes there can be
  Pages,      \* the pages of an address space, an interval
  LowStack,   \* the stack pages below the first, which forks do not copy
  Values,     \* what a page can hold
  Absent      \* a page without contents

VARIABLES
  alive,      \* the processes there are
  mem         \* mem[p][v] is what p sees at page v

Contents == Values \cup {Absent}

Nothing == [v \in Pages |-> Absent]

PMInit ==
  /\ \E p \in Procs : alive = {p}
  /\ mem \in [Procs -> [Pages -> Contents]]
  /\ \A q \in Procs \ alive : mem[q] = Nothing

\* At most these pages of p change.
Only(p, pages) ==
  /\ mem' \in [Procs -> [Pages -> Contents]]
  /\ \A q \in Procs : q # p => mem'[q] = mem[q]
  /\ \A v \in Pages \ pages : mem'[p][v] = mem[p][v]

\* Pages that are new to the process come with whatever they held before.
Touch(p, lo, hi) ==
  /\ p \in alive /\ UNCHANGED alive
  /\ \A v \in lo..hi : mem[p][v] = Absent /\ mem'[p][v] \in Values
  /\ Only(p, lo..hi)

Store(p, v) ==
  /\ p \in alive /\ UNCHANGED alive
  /\ mem[p][v] # Absent /\ mem'[p][v] \in Values
  /\ Only(p, {v})

GiveUp(p, lo, hi) ==
  /\ p \in alive /\ UNCHANGED alive
  /\ \A v \in lo..hi : mem'[p][v] = Absent
  /\ Only(p, lo..hi)

Fork(p, c) ==
  /\ p \in alive /\ c \in Procs \ alive
  /\ alive' = alive \cup {c}
  /\ Only(c, Pages)
  /\ mem'[c] = [v \in Pages |-> IF v \in LowStack THEN Absent ELSE mem[p][v]]

Exit(p) ==
  /\ p \in alive
  /\ alive' = alive \ {p}
  /\ Only(p, Pages)
  /\ mem'[p] = Nothing

pmvars == <<alive, mem>>

PMNext == \E p \in Procs :
  \/ Exit(p)
  \/ \E c \in Procs : Fork(p, c)
  \/ \E v \in Pages : Store(p, v)
  \/ \E lo, hi \in Pages : Touch(p, lo, hi) \/ GiveUp(p, lo, hi)

PMSpec == PMInit /\ [][PMNext]_pmvars
=============================================================================
