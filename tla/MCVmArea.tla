------------------------------ MODULE MCVmArea ------------------------------
(***************************************************************************)
(* The small instance of VmArea that TLC checks: five pages, of which the  *)
(* list head takes the first, so that a range can cover areas and gaps on  *)
(* both sides of the one it starts in.                                     *)
(***************************************************************************)
EXTENDS VmArea

\* NULL, every page of the area, an address inside a page, and the end.
SomeAddresses == {NULL, 5} \cup {a \in MMAP_AREA_START..MMAP_AREA_END : a % PAGE = 0}

\* mmap refuses -1 and 0, the other calls round them to one page and to
\* none; 3 ends inside a page.
SomeLengths == {-1, 0, 2, 3, 6}

SomeFlags == {{}, {"MAP_FIXED"}, {"MAP_FIXED", "MAP_TH_PRIVATE"}}
=============================================================================
