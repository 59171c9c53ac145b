------------------------------ MODULE InfoList ------------------------------
(***************************************************************************)
(* The linked lists the tracers of gemOS (assignment_2, tracer.c) keep     *)
(* what is traced in: struct strace_head and struct ftrace_head with their *)
(* count, next and last, and the nodes they point to.  The code has the    *)
(* same list twice; its operations are here once, on a record.             *)
(***************************************************************************)
EXTENDS Integers, FiniteSets

CONSTANT None  \* a null pointer

\* A list that os_alloc and bzero just made, of nodes that os_alloc has.  A
\* node is its next pointer and what it says; a free one says None.
EmptyList(nodes) ==
  [count |-> 0, first |-> None, last |-> None,
   next |-> [n \in nodes |-> None], info |-> [n \in nodes |-> None]]

NodesOf(l) == DOMAIN l.next
Used(l) == {n \in NodesOf(l) : l.info[n] # None}
Unused(l) == NodesOf(l) \ Used(l)

\* The k-th node from the front, or None.
At(l) == LET f[k \in 0..Cardinality(NodesOf(l))] ==
               IF k = 0 THEN l.first
               ELSE LET before == f[k - 1]
                    IN  IF before = None THEN None ELSE l.next[before]
         IN  f

\* The nodes a walk from the front meets.
InList(l) == {At(l)[k] : k \in 0..Cardinality(NodesOf(l))} \ {None}

\* n, just allocated, becomes the last node.
AddLast(l, n, info) ==
  [l EXCEPT !.count = @ + 1,
            !.info[n] = info,
            !.first = IF l.count = 0 THEN n ELSE @,
            !.last = n,
            !.next = IF l.count = 0 THEN [@ EXCEPT ![n] = None]
                     ELSE [@ EXCEPT ![n] = None, ![l.last] = n]]

Freed(l, n) == [l EXCEPT !.info[n] = None, !.next[n] = None]

\* Mutant: last keeps pointing to a last node that is removed.
UnlinkKeepsLast(l, n) ==
  LET prev == CHOOSE m \in InList(l) : l.next[m] = n
  IN  IF l.first = n
      THEN Freed([l EXCEPT !.first = l.next[n], !.count = @ - 1], n)
      ELSE Freed([l EXCEPT !.next[prev] = l.next[n], !.count = @ - 1], n)

\* n goes; the first node goes without a look at last.
Unlink(l, n) ==
  LET prev == CHOOSE m \in InList(l) : l.next[m] = n
  IN  IF l.first = n
      THEN Freed([l EXCEPT !.first = l.next[n], !.count = @ - 1], n)
      ELSE Freed([l EXCEPT !.next[prev] = l.next[n], !.count = @ - 1,
                           !.last = IF @ = n THEN prev ELSE @], n)

\* The list is what its count and its pointers say.
Sound(l) ==
  /\ InList(l) = Used(l)
  /\ l.count = Cardinality(InList(l))
  /\ l.count > 0 => l.last \in InList(l) /\ l.next[l.last] = None
=============================================================================
