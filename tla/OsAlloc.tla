------------------------------- MODULE OsAlloc -------------------------------
(***************************************************************************)
(* The kernel's allocators of A3/memory.c over one region: whole pages,    *)
(* and objects of a few sizes cut from pages of their size class, which    *)
(* go to a list of their class when they are freed and are handed out      *)
(* again from there.                                                       *)
(***************************************************************************)
EXTENDS PageList, Sequences, SequencesExt

CONSTANTS
  PAGES,            \* pages of the region
  RESERVED,         \* pages of its bitmap
  PAGE_SHIFT,       \* a page has 2^PAGE_SHIFT bytes
  MIN_SHIFT,        \* the smallest class, 5 in the code
  MAX_SHIFT,        \* the largest class, 11 in the code
  NODE_MEM_PAGES,   \* pages of list nodes taken at boot
  NODES,            \* list nodes in them
  Sizes             \* sizes callers ask for

\* 1 << k, for the sizes up to a page.
TwoTo[k \in 0 .. PAGE_SHIFT] == IF k = 0 THEN 1 ELSE 2 * TwoTo[k - 1]

Classes == MIN_SHIFT .. MAX_SHIFT

\* Boot takes a page for the chunks, one for each class, the pages of the nodes.
BootPages == 1 + Cardinality(Classes) + NODE_MEM_PAGES

ASSUME AllocAssumption ==
  /\ WORD \in Nat \ {0} /\ PAGES \in Nat /\ PAGES % WORD = 0
  /\ RESERVED \in Nat \ {0} /\ NODE_MEM_PAGES \in Nat
  /\ MIN_SHIFT \in Nat /\ PAGE_SHIFT \in Nat /\ MAX_SHIFT \in MIN_SHIFT .. PAGE_SHIFT - 1
  /\ RESERVED + BootPages <= PAGES
  /\ \A s \in Sizes : s \in 1 .. TwoTo[MAX_SHIFT]

VARIABLES
  pgl,       \* the page list of the region
  ck,        \* struct osalloc_chunk of each class
  nodes,     \* list nodes taken so far
  kernel,    \* pages the allocator itself has taken
  pages,     \* pages its callers hold
  live,      \* objects its callers hold: class, page and place they were cut at
  stopped    \* why the model ends, or "no"

allocVars == <<pgl, ck, nodes, kernel, pages, live, stopped>>

PAGE_SIZE == TwoTo[PAGE_SHIFT]

IsSet(size, i) == (size \div TwoTo[i]) % 2 = 1

\* os_alloc and os_free round a size up to a power of two: the highest bit of
\* the size, and one more if there are lower ones.
SizeClass(size) ==
  LET i == Max({MIN_SHIFT} \cup {k \in MIN_SHIFT + 1 .. MAX_SHIFT : IsSet(size, k)})
  IN IF TwoTo[i] < size THEN i + 1 ELSE i
-----------------------------------------------------------------------------
\* The list after n pages of boot.
Boot[n \in 0 .. BootPages] ==
  IF n = 0 THEN InitPageList(PAGES, RESERVED) ELSE GetFreePage(Boot[n - 1], PAGES).list

BootList == Boot[BootPages]

AllocInit ==
  /\ pgl = BootList
  /\ ck = [i \in Classes |->
             [free_position |-> 0, current_pfn |-> RESERVED + 1 + (i - MIN_SHIFT),
              freelist |-> <<>>, ends |-> FALSE]]
  /\ nodes = 0
  /\ kernel = BootList.taken \ (0 .. RESERVED - 1)
  /\ pages = {} /\ live = {} /\ stopped = "no"

\* os_pfn_alloc, which returns 0 if nothing is free.  OS_BUG stops the machine
\* if something is free and the search does not find it.
Got == GetFreePage(pgl, PAGES)

Stops == stopped' = IF Got.found THEN "no" ELSE "Out of memory"

PageAlloc ==
  /\ stopped = "no" /\ pgl.free_pages > 0
  /\ pgl' = Got.list
  /\ pages' = pages \cup {Got.page}
  /\ Stops
  /\ UNCHANGED <<ck, nodes, kernel, live>>

\* os_page_free of a page its caller holds, after put_pfn.
PageFree(page) ==
  /\ stopped = "no"
  /\ pgl' = OsPageFree(pgl, page, PAGES)
  /\ pages' = pages \ {page}
  /\ UNCHANGED <<ck, nodes, kernel, live, stopped>>

\* dequeue_front.
Dequeued(i) == ck' = [ck EXCEPT ![i].freelist = Tail(@)]

\* Mutant: the object stays on the list.
ReuseKeeps(i) ==
  /\ stopped = "no" /\ ck[i].freelist # <<>>
  /\ live' = live \cup {Head(ck[i].freelist)}
  /\ UNCHANGED <<pgl, ck, nodes, kernel, pages, stopped>>

\* os_alloc takes the first object of its class's list, if there is one.
Reuse(i) ==
  /\ stopped = "no" /\ ck[i].freelist # <<>>
  /\ live' = live \cup {Head(ck[i].freelist)}
  /\ Dequeued(i)
  /\ UNCHANGED <<pgl, nodes, kernel, pages, stopped>>

\* Otherwise it cuts one from the page of the class, or from a new page when
\* that one is finished: which it is, since the code compares with >
\* (line 338), after one object more than a page holds.
Finished(i) == ck[i].free_position > TwoTo[PAGE_SHIFT - i]

CutAt(i, page, position) ==
  /\ live' = live \cup {[shift |-> i, page |-> page, position |-> position]}
  /\ ck' = [ck EXCEPT ![i].current_pfn = page, ![i].free_position = position + 1]

Cut(i) ==
  /\ stopped = "no" /\ ck[i].freelist = <<>> /\ ~ Finished(i)
  /\ CutAt(i, ck[i].current_pfn, ck[i].free_position)
  /\ UNCHANGED <<pgl, nodes, kernel, pages, stopped>>

CutFromNewPage(i) ==
  /\ stopped = "no" /\ ck[i].freelist = <<>> /\ Finished(i)
  /\ pgl.free_pages > 0
  /\ pgl' = Got.list
  /\ kernel' = kernel \cup {Got.page}
  /\ CutAt(i, Got.page, 0)
  /\ Stops
  /\ UNCHANGED <<nodes, pages>>

\* With no free page the code cuts objects from page 0, the error value of
\* os_pfn_alloc; the model ends there.
CutFromNothing(i) ==
  /\ stopped = "no" /\ ck[i].freelist = <<>> /\ Finished(i)
  /\ pgl.free_pages <= 0
  /\ stopped' = "page 0"
  /\ UNCHANGED <<pgl, ck, nodes, kernel, pages, live>>

\* os_free appends the object to the list of its class.  enqueue_tail takes a
\* node for it, and two for the ends of a list that is used for the first
\* time.  node_alloc goes through the node memory once and then starts over,
\* where it takes the last node of a list, whose next is NULL, for a free one:
\* the model covers the first round.
NodesFor(i) == IF ck[i].ends THEN 1 ELSE 3

OsFree(o) ==
  /\ stopped = "no" /\ nodes + NodesFor(o.shift) <= NODES
  /\ nodes' = nodes + NodesFor(o.shift)
  /\ live' = live \ {o}
  /\ ck' = [ck EXCEPT ![o.shift].freelist = Append(@, o), ![o.shift].ends = TRUE]
  /\ UNCHANGED <<pgl, kernel, pages, stopped>>

OsAlloc(size) ==
  LET i == SizeClass(size)
  IN Reuse(i) \/ Cut(i) \/ CutFromNewPage(i) \/ CutFromNothing(i)

AllocNext ==
  \/ PageAlloc
  \/ \E page \in pages : PageFree(page)
  \/ \E size \in Sizes : OsAlloc(size)
  \/ \E o \in live : OsFree(o)

AllocSpec == AllocInit /\ [][AllocNext]_allocVars
-----------------------------------------------------------------------------
(* What the allocators owe their callers.                                  *)

\* The count of free pages is the number of clear bits, every page that is
\* taken belongs to exactly one holder, and a page is always found while the
\* count says that there is one, whichever word the search starts from.
PagesAccounted ==
  /\ pgl.free_pages = Cardinality(FreePages(pgl, PAGES))
  /\ pgl.taken = (0 .. RESERVED - 1) \cup kernel \cup pages
  /\ pages \cap kernel = {} /\ 0 \notin pages \cup kernel
  /\ stopped # "Out of memory"

Address(o) == o.page * PAGE_SIZE + o.position * TwoTo[o.shift]
BytesOf(o) == Address(o) .. Address(o) + TwoTo[o.shift] - 1

OnList(i) == Range(ck[i].freelist)
Objects == live \cup UNION {OnList(i) : i \in Classes}

\* Two objects share bytes only if one of them was cut behind the end of its
\* page; every other object lies in a page the allocator has taken, and no
\* object is in use and on a list, or twice on a list.
OverlapOnlyBehind ==
  LET behind == {o \in Objects : o.position = TwoTo[PAGE_SHIFT - o.shift]}
      inside == Objects \ behind
  IN /\ \A o, p \in inside : o # p => BytesOf(o) \cap BytesOf(p) = {}
     /\ \A o \in inside : {b \div PAGE_SIZE : b \in BytesOf(o)} \subseteq kernel
     /\ \A i \in Classes : IsInjective(ck[i].freelist) /\ OnList(i) \cap live = {}
=============================================================================
