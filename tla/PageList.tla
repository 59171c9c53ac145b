------------------------------ MODULE PageList ------------------------------
(***************************************************************************)
(* The page lists of A3/memory.c: for each region of physical memory a     *)
(* bitmap of its pages, the number of free ones, and the word of the       *)
(* bitmap where the last search stopped.  Pages are numbered from the      *)
(* start of their region.  The operators take a list and return it changed.*)
(***************************************************************************)
EXTENDS Integers, FiniteSets, FiniteSetsExt

CONSTANT WORD    \* pages in a word of the bitmap: 32 in the code

\* struct page_list; taken is the set of the bits that are set.
PageListType(size) ==
  [taken : SUBSET (0 .. size - 1), free_pages : Int, last_free_pos : 0 .. size \div WORD]

\* init_pagelist: the bitmap lies in the first pages of its own region.
InitPageList(size, pages_to_reserve) ==
  [taken |-> 0 .. pages_to_reserve - 1,
   free_pages |-> size - pages_to_reserve,
   last_free_pos |-> pages_to_reserve \div WORD]

FullWord(pgl, w) == \A bit \in 0 .. WORD - 1 : w * WORD + bit \in pgl.taken

\* The first word from `from' on that has a clear bit, or `to'.
ScanWords(pgl, from, to) ==
  Min({w \in from .. to - 1 : ~ FullWord(pgl, w)} \cup {to})

\* Mutant: no search from the start.
GetFreePageOnce(pgl, size) ==
  LET pos == ScanWords(pgl, pgl.last_free_pos, size \div WORD)
      page == Min({pos * WORD + bit : bit \in 0 .. WORD - 1} \ pgl.taken)
  IN IF pos >= size \div WORD
     THEN [found |-> FALSE, page |-> -1, list |-> pgl]
     ELSE [found |-> TRUE, page |-> page,
           list |-> [taken |-> pgl.taken \cup {page},
                     free_pages |-> pgl.free_pages - 1,
                     last_free_pos |-> pos]]

\* get_free_page: search from the last position to the end, then from the
\* start to the last position.  `found' is FALSE where it calls OS_BUG.
GetFreePage(pgl, size) ==
  LET size_in_u32 == size \div WORD
      up   == ScanWords(pgl, pgl.last_free_pos, size_in_u32)
      pos  == IF up < size_in_u32 THEN up ELSE ScanWords(pgl, 0, pgl.last_free_pos)
      page == Min({pos * WORD + bit : bit \in 0 .. WORD - 1} \ pgl.taken)
  IN IF up >= size_in_u32 /\ pos >= pgl.last_free_pos
     THEN [found |-> FALSE, page |-> -1, list |-> pgl]
     ELSE [found |-> TRUE, page |-> page,
           list |-> [taken |-> pgl.taken \cup {page},
                     free_pages |-> pgl.free_pages - 1,
                     last_free_pos |-> pos]]

\* os_page_free refuses the first page of a region and what is outside it.
InRegion(page, size) == page > 0 /\ page < size

OsPageFree(pgl, page, size) ==
  IF InRegion(page, size)
  THEN [pgl EXCEPT !.taken = @ \ {page}, !.free_pages = @ + 1]
  ELSE pgl

FreePages(pgl, size) == (0 .. size - 1) \ pgl.taken
=============================================================================
