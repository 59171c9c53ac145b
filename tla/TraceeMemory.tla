---------------------------- MODULE TraceeMemory ----------------------------
(***************************************************************************)
(* The memory of the traced processes in the assignment 2 kernel: segments *)
(* that grow and shrink, a list of memory areas, page table entries, the   *)
(* counts of the frames that cfork shares, page faults, and the check that *)
(* the tracer makes of the buffers it is given.  Addresses are pages.      *)
(*                                                                         *)
(* fork and cfork copy the pointer to the list of areas: parent and child  *)
(* edit one list (peers).  An entry can be written through only if the     *)
(* table that leads to it can: all memory areas lie under one such table.  *)
(*                                                                         *)
(* Some calls leave no state to go on from, and the model stops there      *)
(* (lost): an area that ends before it starts, a frame given back while    *)
(* another process maps it, the head of a list freed under a peer, and a   *)
(* fault in a page whose area is gone.                                     *)
(***************************************************************************)
EXTENDS Integers, FiniteSets, SequencesExt

CONSTANTS
  Procs, FirstProc,
  CODE_PAGES, RODATA_PAGES, DATA_PAGES, MMAP_PAGES, STACK_PAGES,
  Prots,    \* protections processes ask for: subsets of {"r", "w", "x"}
  Lengths,  \* pages they ask for
  MaxCalls, \* bound on the calls that map, unmap, protect, grow or fork something
  None

ASSUME SegmentAssumption ==
  /\ IsFiniteSet(Procs) /\ FirstProc \in Procs
  /\ CODE_PAGES \in Nat /\ RODATA_PAGES \in Nat \ {0}
  /\ DATA_PAGES \in Nat \ {0, 1} /\ MMAP_PAGES \in Nat \ {0} /\ STACK_PAGES \in Nat \ {0}
  /\ Lengths \subseteq Nat /\ MaxCalls \in Nat /\ \A prot \in Prots : prot \subseteq {"r", "w", "x"}

VARIABLES
  alive,   \* the slots in use
  free,    \* next_free of each process's RODATA, DATA and STACK
  areas,   \* the list each process's vm_area points to; <<>> is NULL
  peers,   \* the slots whose vm_area is the same pointer
  mem,     \* the frames of each page; the table above each process's areas
  lost,    \* why the model stops, or "no"
  calls    \* how many of the calls that MaxCalls bounds were made

vars == <<alive, free, areas, peers, mem, lost, calls>>

\* The layout of context.h: each segment ends where the next one starts.
CODE_START   == 0
RODATA_START == CODE_START + CODE_PAGES
DATA_START   == RODATA_START + RODATA_PAGES
MMAP_START   == DATA_START + DATA_PAGES
STACK_LOW    == MMAP_START + MMAP_PAGES
STACK_START  == STACK_LOW + STACK_PAGES

Pages     == CODE_START .. STACK_START - 1
InRodata  == RODATA_START .. DATA_START - 1
InData    == DATA_START .. MMAP_START - 1
InMmap    == MMAP_START .. STACK_LOW - 1
InStack   == STACK_LOW .. STACK_START - 1
-----------------------------------------------------------------------------
(* Entries and frames.  The frames of a page are records: the processes that *)
(* map one, those of them whose entry may be written through, and its count. *)
(* Frames that no process maps are left out: those the code gives back and   *)
(* those it loses.                                                           *)

Frame(p, w) == [by |-> {p}, w |-> IF w THEN {p} ELSE {}, count |-> 1]

FrameOf(m, p, v) == {f \in m.frames[v] : p \in f.by}

\* get_user_pte and validate_page_table.
Present(m, p, v) == FrameOf(m, p, v) # {}

\* The hardware lets a store through if the entry and the table above do.
Stores(m, p, v) ==
  /\ \E f \in m.frames[v] : p \in f.w
  /\ v \in InMmap => m.upper[p] = "rw"

\* The page without p's entry.
Without(fs, p) ==
  {[f EXCEPT !.by = @ \ {p}, !.w = @ \ {p}] : f \in {f \in fs : f.by # {p}}}

\* The table above is made with the rights of the first entry below it.
Upper(m, p, vs, rights) ==
  IF vs \cap InMmap # {} /\ m.upper[p] = "none" THEN [m.upper EXCEPT ![p] = rights]
  ELSE m.upper

\* The entries of p for vs lead to new frames.
Install(m, p, vs, w, rights) ==
  [frames |-> [v \in Pages |-> IF v \in vs THEN Without(m.frames[v], p) \cup {Frame(p, w)}
                               ELSE m.frames[v]],
   upper  |-> Upper(m, p, vs, rights)]

\* map_physical_page, with tables that may be written through, and
\* install_page_table, of a fault, with the rights of the access.
MapAll(m, p, vs, w) == Install(m, p, vs, w, "rw")
InstallPageTable(m, p, v, w) == Install(m, p, {v}, w, IF w THEN "rw" ELSE "ro")

\* do_unmap_user and invalidate_pte give a frame back whatever its count.
FreesShared(m, p, vs) == \E v \in vs : \E f \in FrameOf(m, p, v) : f.by # {p}

Unmap(m, p, vs) ==
  [m EXCEPT !.frames = [v \in Pages |-> IF v \in vs THEN Without(@[v], p) ELSE @[v]]]
-----------------------------------------------------------------------------
(* The list of areas.                                                      *)

Area(start, end, prot) == [start |-> start, end |-> end, prot |-> prot]
Holds(area, v) == area.start <= v /\ v < area.end

GapEnd(l, i) == IF i < Len(l) THEN l[i + 1].start ELSE STACK_LOW

\* The area i grows by n pages, and takes in the next one if it reaches it.
Extended(l, i, n) ==
  LET g == [l EXCEPT ![i].end = @ + n]
  IN IF i < Len(l) /\ g[i].end = g[i + 1].start /\ g[i].prot = g[i + 1].prot
     THEN [RemoveAt(g, i + 1) EXCEPT ![i].end = g[i + 1].end]
     ELSE g

\* map_vm_area, behind the area i: the next area is lowered to the end of
\* this one even if that is more than n pages.
MapVmArea(l, i, n, prot) ==
  IF l[i].prot = prot THEN Extended(l, i, n)
  ELSE IF i < Len(l) /\ l[i + 1].prot = prot
  THEN [l EXCEPT ![i + 1].start = l[i].end]
  ELSE InsertAt(l, i + 1, Area(l[i].end, l[i].end + n, prot))

\* look_up_hint_addr: addr is served if it lies in a gap with room behind it.
HintGap(l, addr, n) ==
  {i \in 1 .. Len(l) : l[i].end <= addr /\ addr < GapEnd(l, i) /\ GapEnd(l, i) - addr >= n}

MapAtHint(l, i, addr, n, prot) ==
  IF l[i].end = addr /\ l[i].prot = prot THEN Extended(l, i, n)
  ELSE IF i < Len(l) /\ l[i + 1].start = addr + n /\ l[i + 1].prot = prot
  THEN [l EXCEPT ![i + 1].start = addr]
  ELSE InsertAt(l, i + 1, Area(addr, addr + n, prot))

\* Mutant: a gap that is one page too short is taken.
RoomAlmost(l, n) == {i \in 1 .. Len(l) : GapEnd(l, i) - l[i].end >= n - 1}

Room(l, n) == {i \in 1 .. Len(l) : GapEnd(l, i) - l[i].end >= n}

First(is) == CHOOSE i \in is : \A j \in is : i <= j

\* vm_area_map: the list with a dummy page in front, what it becomes, and the
\* first page of the request, or -1.
Dummy == Area(MMAP_START, MMAP_START + 1, {"r", "x"})
Listed(l) == IF l = <<>> THEN <<Dummy>> ELSE l

Mapped(l, addr, n, prot, fixed) ==
  LET hint == IF addr = None THEN {} ELSE HintGap(l, addr, n)
      room == Room(l, n)
  IN IF hint # {} THEN [list |-> MapAtHint(l, First(hint), addr, n, prot), ret |-> addr]
     ELSE IF fixed \/ room = {} THEN [list |-> l, ret |-> -1]
     ELSE [list |-> MapVmArea(l, First(room), n, prot), ret |-> l[First(room)].end]

Populated(m, p, got, n, prot, populate) ==
  IF populate /\ got.ret # -1
  THEN MapAll(m, p, got.ret .. got.ret + n - 1, "w" \in prot)
  ELSE m

\* The list of vm_area_unmap, for an area that holds addr: its front, all or
\* its end goes, or it is split.  Without its head the whole list is gone.
Unlisted(l, i, addr, end) ==
  IF addr = l[i].start /\ end = l[i].end
  THEN IF i = 1 THEN <<>> ELSE RemoveAt(l, i)
  ELSE IF addr = l[i].start THEN [l EXCEPT ![i].start = end]
  ELSE IF end = l[i].end THEN [l EXCEPT ![i].end = addr]
  ELSE [InsertAt(l, i + 1, Area(end, l[i].end, l[i].prot)) EXCEPT ![i].end = addr]
-----------------------------------------------------------------------------
(* System calls on memory.                                                 *)

Runs(p) == lost = "no" /\ p \in alive
Calls(p) == Runs(p) /\ calls < MaxCalls
Stop(why) == lost' = why /\ UNCHANGED <<alive, free, areas, peers, mem>>

\* The processes with p's list see what p makes of it.
Edits(p, l) == areas' = [q \in Procs |-> IF q \in peers[p] THEN l ELSE areas[q]]

\* p's vm_area becomes a pointer of its own, for a new list or NULL.
Apart(p) == [q \in Procs |-> IF q = p THEN {p} ELSE peers[q] \ {p}]
Own(p) == peers' = Apart(p)

Mmap(p, addr, n, prot, fixed, populate) ==
  LET got == Mapped(Listed(areas[p]), addr, n, prot, fixed)
  IN /\ Calls(p) /\ n > 0
     /\ IF areas[p] = <<>>
        THEN areas' = [areas EXCEPT ![p] = got.list] /\ Own(p)
        ELSE Edits(p, got.list) /\ UNCHANGED peers
     /\ mem' = Populated(mem, p, got, n, prot, populate)
     /\ UNCHANGED <<alive, free, lost>>

\* get_end_addr of a request.
EndAddr(addr, n) == addr + n

\* What munmap of n pages at addr, inside the area i, cannot go on from.
Inverts(l, i, end) == end > l[i].end
Dangles(p, l) == l = <<>> /\ peers[p] # {p}

Unmaps(p, i, addr, n) ==
  LET l == Unlisted(areas[p], i, addr, EndAddr(addr, n))
  IN IF Inverts(areas[p], i, EndAddr(addr, n)) THEN "inverted area"
     ELSE IF Dangles(p, l) THEN "freed list"
     ELSE IF FreesShared(mem, p, addr .. addr + n - 1) THEN "shared frame"
     ELSE "no"

AreaAt(l, addr) == {i \in 1 .. Len(l) : Holds(l[i], addr)}

Munmap(p, addr, n) ==
  /\ Calls(p)
  /\ \E i \in AreaAt(areas[p], addr) :
       LET why == Unmaps(p, i, addr, n)
       IN IF why # "no" THEN Stop(why)
          ELSE /\ Edits(p, Unlisted(areas[p], i, addr, EndAddr(addr, n)))
               /\ mem' = Unmap(mem, p, addr .. addr + n - 1)
               /\ UNCHANGED <<alive, free, peers, lost>>

\* mprotect of a range inside one area: munmap and mmap at the same address,
\* with new pages at once if its first one was there.
Mprotect(p, addr, n, prot) ==
  /\ Calls(p)
  /\ \E i \in AreaAt(areas[p], addr) :
       LET why   == Unmaps(p, i, addr, n)
           after == Unlisted(areas[p], i, addr, EndAddr(addr, n))
           got   == IF n > 0 THEN Mapped(Listed(after), addr, n, prot, FALSE)
                    ELSE [list |-> after, ret |-> -1]
       IN /\ EndAddr(addr, n) <= areas[p][i].end
          /\ IF why # "no" THEN Stop(why)
             ELSE /\ Edits(p, got.list)
                  /\ mem' = Populated(Unmap(mem, p, addr .. addr + n - 1), p, got, n, prot,
                                      Present(mem, p, addr))
                  /\ UNCHANGED <<alive, free, peers, lost>>

\* do_expand and do_shrink of RODATA and DATA.  The last page of a segment is
\* never given: next_free must not pass the segment's last byte.
Limit == [rodata |-> DATA_START, data |-> MMAP_START]
Base  == [rodata |-> RODATA_START, data |-> DATA_START]

Expand(p, seg, n) ==
  /\ Calls(p) /\ free[p][seg] + n < Limit[seg]
  /\ free' = [free EXCEPT ![p][seg] = @ + n]
  /\ UNCHANGED <<alive, areas, peers, mem, lost>>

Shrink(p, seg, n) ==
  LET gone == free[p][seg] - n .. free[p][seg] - 1
  IN /\ Calls(p) /\ free[p][seg] - n >= Base[seg]
     /\ IF FreesShared(mem, p, gone) THEN Stop("shared frame")
        ELSE /\ free' = [free EXCEPT ![p][seg] = @ - n]
             /\ mem' = Unmap(mem, p, gone)
             /\ UNCHANGED <<alive, areas, peers, lost>>
-----------------------------------------------------------------------------
(* Page faults.                                                            *)

\* vm_area_pagefault: areas that may be executed are served for stores too.
AreaServes(p, v, store) ==
  \E i \in AreaAt(areas[p], v) : ~ store \/ areas[p][i].prot \cap {"w", "x"} # {}

\* Whether do_page_fault serves an access to a page that is not there.
Served(p, v, store) ==
  \/ v \in InData /\ v < free[p].data
  \/ v \in InRodata /\ v < free[p].rodata /\ ~ store
  \/ v \in InStack /\ v < free[p].stack
  \/ v \in InMmap /\ AreaServes(p, v, store)

\* do_exit keeps the tables and the lists; the last process's tables are
\* given back by do_cleanup, and nobody walks the others again.
Exit(p) ==
  /\ Runs(p)
  /\ alive' = alive \ {p}
  /\ mem' = [Unmap(mem, p, Pages) EXCEPT !.upper[p] = "none"]
  /\ UNCHANGED <<free, areas, peers, lost>>

FaultAbsent(p, v, store) ==
  /\ Runs(p) /\ ~ Present(mem, p, v) /\ Served(p, v, store)
  /\ mem' = CASE v \in InStack -> MapAll(mem, p, v .. free[p].stack - 1, TRUE)
              [] v \in InMmap  -> InstallPageTable(mem, p, v,
                   "w" \in areas[p][First(AreaAt(areas[p], v))].prot)
              [] OTHER         -> InstallPageTable(mem, p, v, store)
  /\ free' = IF v \in InStack THEN [free EXCEPT ![p].stack = v] ELSE free
  /\ UNCHANGED <<alive, areas, peers, lost>>

\* handle_cow_fault: a shared frame is copied, one's own made writable.  A
\* page of another segment is left as it is, and the process faults again.
Copied(m, p, v) ==
  LET old  == CHOOSE f \in m.frames[v] : p \in f.by
      rest == m.frames[v] \ {old}
  IN IF old.count > 1
     THEN [m EXCEPT !.frames[v] = rest \cup Without({[old EXCEPT !.count = @ - 1]}, p)
                                       \cup {Frame(p, TRUE)}]
     ELSE [m EXCEPT !.frames[v] = rest \cup {[old EXCEPT !.w = @ \cup {p}]}]

FaultCow(p, v) ==
  /\ Runs(p) /\ Present(mem, p, v) /\ ~ Stores(mem, p, v)
  /\ \/ v \in InData /\ mem' = Copied(mem, p, v)
        /\ UNCHANGED <<alive, free, areas, peers, lost>>
     \/ v \in InMmap /\ AreaAt(areas[p], v) = {} /\ Stop("no area")
     \/ v \in InMmap /\ \E i \in AreaAt(areas[p], v) :
          /\ "w" \in areas[p][i].prot /\ mem' = Copied(mem, p, v)
          /\ UNCHANGED <<alive, free, areas, peers, lost>>

\* SIGSEGV without a handler.
Unserved(p, v, store) ==
  \/ ~ Present(mem, p, v) /\ ~ Served(p, v, store)
  \/ /\ store /\ Present(mem, p, v) /\ ~ Stores(mem, p, v) /\ v \in InMmap
     /\ \E i \in AreaAt(areas[p], v) : "w" \notin areas[p][i].prot

Segfault(p) ==
  /\ p \in {q \in Procs : \E v \in Pages, store \in BOOLEAN : Unserved(q, v, store)}
  /\ Exit(p)
-----------------------------------------------------------------------------
(* Processes.                                                              *)

\* Pages of the parent that are there, in a part of its memory.
There(m, p, vs) == {v \in vs : Present(m, p, v)}

CodeAndRodata(p) == CODE_START .. RODATA_START - 1 \cup RODATA_START .. free[p].rodata - 1
DataOf(p) == DATA_START .. free[p].data - 1
StackOf(p) == free[p].stack .. STACK_START - 1
AreasOf(p) == {v \in InMmap : AreaAt(areas[p], v) # {}}

\* The child c maps p's frames of vs too, which count n more, and keep may go
\* on writing.
Inherit(m, p, c, vs, n, keep) ==
  [frames |-> [v \in Pages |-> IF v \in vs
                 THEN {IF p \in f.by
                       THEN [f EXCEPT !.by = @ \cup {c}, !.w = @ \cap keep, !.count = @ + n]
                       ELSE f : f \in m.frames[v]}
                 ELSE m.frames[v]],
   upper  |-> Upper(m, c, There(m, p, vs), "rw")]

\* CODE and RODATA are shared and not counted.
ShareText(m, p, c) == Inherit(m, p, c, CodeAndRodata(p), 0, Procs)

\* Mutant: the parent may go on writing.
ShareOneSided(m, p, c, vs) == Inherit(m, p, c, vs, 1, Procs)

\* cfork shares and counts: neither process may write.
Share(m, p, c, vs) == Inherit(m, p, c, vs, 1, {})

CopyMm(m, p, c) ==
  MapAll(ShareText(m, p, c), c, There(m, p, DataOf(p) \cup StackOf(p)), TRUE)

CforkCopyMm(m, p, c) ==
  LET shared == Share(Share(ShareText(m, p, c), p, c, DataOf(p)), p, c, AreasOf(p))
  IN MapAll(shared, c, There(m, p, StackOf(p)), TRUE)

\* do_fork and do_cfork copy the context, and with it the pointer to the list.
NewPeer(p, c) ==
  LET apart == Apart(c)
  IN IF areas[p] = <<>> THEN apart
     ELSE [q \in Procs |-> IF q \in apart[p] \cup {c} THEN apart[p] \cup {c} ELSE apart[q]]

NewChild(p, c) ==
  /\ Calls(p) /\ c \notin alive
  /\ alive' = alive \cup {c}
  /\ free' = [free EXCEPT ![c] = free[p]]
  /\ areas' = [areas EXCEPT ![c] = areas[p]]
  /\ peers' = NewPeer(p, c)
  /\ UNCHANGED lost

Fork(p, c) == NewChild(p, c) /\ mem' = CopyMm(mem, p, c)
Cfork(p, c) == NewChild(p, c) /\ mem' = CforkCopyMm(mem, p, c)

\* create_context and exec_init; the slot's vm_area is what it was.
Blank ==
  [frames |-> [v \in Pages |-> {}], upper |-> [p \in Procs |-> "none"]]

Loaded(p) ==
  MapAll(MapAll(Blank, p, CODE_START .. RODATA_START - 1, FALSE),
         p, {DATA_START, STACK_START - 1}, TRUE)

Fresh == [rodata |-> RODATA_START, data |-> DATA_START + 1, stack |-> STACK_START - 1]

Launch ==
  /\ lost = "no" /\ alive = {}
  /\ alive' = {FirstProc}
  /\ free' = [free EXCEPT ![FirstProc] = Fresh]
  /\ mem' = Loaded(FirstProc)
  /\ UNCHANGED <<areas, peers, lost>>

Init ==
  /\ alive = {FirstProc}
  /\ free = [p \in Procs |-> Fresh]
  /\ areas = [p \in Procs |-> <<>>]
  /\ peers = [p \in Procs |-> {p}]
  /\ mem = Loaded(FirstProc)
  /\ lost = "no"
  /\ calls = 0

\* A call without effect is not counted.
Counted == calls' = IF UNCHANGED <<alive, free, areas, mem>> THEN calls ELSE calls + 1

Uncounted == UNCHANGED calls

Next ==
  \/ \E p \in Procs :
       \/ \E addr \in InMmap \cup {None}, n \in Lengths, prot \in Prots, fixed, populate \in BOOLEAN :
            Mmap(p, addr, n, prot, fixed, populate) /\ Counted
       \/ \E addr \in InMmap, n \in Lengths : Munmap(p, addr, n) /\ Counted
       \/ \E addr \in InMmap, n \in Lengths, prot \in Prots : Mprotect(p, addr, n, prot) /\ Counted
       \/ \E seg \in {"rodata", "data"}, n \in Lengths : Expand(p, seg, n) /\ Counted
       \/ \E seg \in {"rodata", "data"}, n \in Lengths : Shrink(p, seg, n) /\ Counted
       \/ \E c \in Procs : Fork(p, c) /\ Counted
       \/ \E c \in Procs : Cfork(p, c) /\ Counted
       \/ \E v \in Pages, store \in BOOLEAN : FaultAbsent(p, v, store) /\ Uncounted
       \/ \E v \in Pages : FaultCow(p, v) /\ Uncounted
       \/ Exit(p) /\ Uncounted
       \/ Segfault(p) /\ Uncounted
  \/ Launch /\ Uncounted

Spec == Init /\ [][Next]_vars
-----------------------------------------------------------------------------
(* Properties.                                                             *)

\* check_in_mm_segment and check_in_vma_segment of the pages first..last: 1 if
\* one segment or one area holds them all and may be accessed so.
Within(first, last, from, to) == from <= first /\ last < to

\* Mutant: the whole segment counts, however far it has grown.
WithinWholeData(p, first, last) == Within(first, last, DATA_START, MMAP_START)

WithinData(p, first, last) == Within(first, last, DATA_START, free[p].data)

InMmSegment(p, first, last, store) ==
  \/ Within(first, last, CODE_START, RODATA_START) /\ ~ store
  \/ Within(first, last, RODATA_START, free[p].rodata) /\ ~ store
  \/ WithinData(p, first, last)
  \/ Within(first, last, STACK_LOW, STACK_START)

InVmaSegment(p, first, last, store) ==
  \E i \in 1 .. Len(areas[p]) :
    /\ Within(first, last, areas[p][i].start, areas[p][i].end)
    /\ (IF store THEN "w" ELSE "r") \in areas[p][i].prot

IsValidMemRange(p, first, last, store) ==
  InMmSegment(p, first, last, store) \/ InVmaSegment(p, first, last, store)

\* The kernel copies records to and from buffers that is_valid_mem_range let
\* pass without any further care: every page of such a buffer (of up to
\* three pages here) is there, or the fault handler brings it (tracer.c:142,
\* entry_helpers.c:425).
CheckSound ==
  \A p \in alive, v \in Pages, store \in BOOLEAN :
    ~ Present(mem, p, v) /\ ~ Served(p, v, store) =>
      \A first \in {v - 1, v}, last \in {v, v + 1} :
        ~ IsValidMemRange(p, first, last, store)

\* A page that a process may write without a fault is nobody else's, and the
\* counts of shared pages are high enough for the last one to write in place,
\* however fork, cfork, faults, mprotect and exits follow each other
\* (cfork.c:9-104, 127-179).
WritablePrivate ==
  \A v \in Pages : \A f \in mem.frames[v] :
    /\ f.w # {} => f.w = f.by /\ Cardinality(f.by) = 1
    /\ v >= DATA_START => Cardinality(f.by) <= f.count

\* The areas of a list stay in order, apart and inside the region, whoever of
\* the processes that share it edits it (mmap.c:32-141, 193-366).
AreasApart ==
  \A p \in Procs :
    /\ \A i \in 1 .. Len(areas[p]) :
         /\ areas[p][i].start < areas[p][i].end
         /\ MMAP_START <= areas[p][i].start /\ areas[p][i].end <= GapEnd(areas[p], i)
    /\ \A q \in peers[p] : areas[q] = areas[p]
=============================================================================
