--------------------------- MODULE MCKernelMemory ---------------------------
(***************************************************************************)
(* Instances of PageTables and of OsAlloc for TLC.  The two use regions of *)
(* physical memory of their own and no state in common, so each behaviour  *)
(* is about one of them and the other one stays as it is at boot.          *)
(***************************************************************************)
EXTENDS PageTables, OsAlloc

\* Tables of six entries: a PMD maps 36 pages.
MCCodePages == {72}
MCDataPages == {108}
MCAreaPages == {114, 119, 120}
MCStackPages == {179}
MCPurgeBounds == {114, 118, 119, 120, 121}

MCSizes == {1, 3}

VARIABLE part

MCInit == Init /\ AllocInit /\ part \in {"page tables", "allocators"}

MCNext ==
  \/ part = "page tables" /\ Next /\ UNCHANGED <<allocVars, part>>
  \/ part = "allocators" /\ AllocNext /\ UNCHANGED <<vars, part>>

MCSpec == MCInit /\ [][MCNext]_<<vars, allocVars, part>>
=============================================================================
