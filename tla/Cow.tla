--------------------------------- MODULE Cow ---------------------------------
(***************************************************************************)
(* The user pages of gemOS processes (assignment_3, page.c, v2p.c and      *)
(* fork.c): page tables that share frames after cfork, the reference       *)
(* count of every frame, and the page faults that copy a frame when one of *)
(* its owners stores into it.                                              *)
(*                                                                         *)
(* The kernel is not preempted, so a system call or a page fault is one    *)
(* step.  An instruction that faults is tried again after the handler has  *)
(* returned, and other processes may run in between.                       *)
(*                                                                         *)
(* A page table is a function from pages to entries, without its three     *)
(* upper levels: an entry is None, or a frame and the write bit.  The word *)
(* at address 0, which replicate_page_table_cow reads for a page without a *)
(* page table, is zero, as for a page that is not mapped.                  *)
(*                                                                         *)
(* No operation looks at the number of a frame, so frames are named: f =   *)
(* <<v, i>> is a frame handed out for page v.  There is a name for every   *)
(* process that may have a frame of its own at v: the region never runs    *)
(* out.                                                                    *)
(***************************************************************************)
EXTENDS Integers, FiniteSets

CONSTANTS
  Procs,        \* the slots of ctx_list
  FirstProc,    \* the slot of init
  CODE_PAGES,   \* pages of code and read-only data
  DATA_PAGES,   \* pages the data segment may grow to
  AREA_PAGES,   \* pages for mmap
  STACK_PAGES,  \* pages of the stack segment
  Touched,      \* the pages instructions and the kernel access
  Values,       \* what a page can hold
  Absent,       \* what a frame holds that nobody has
  WP,           \* bit WP of CR0: the write bit counts in kernel mode too
  None          \* an empty page table entry

ASSUME CowAssumption ==
  /\ IsFiniteSet(Procs) /\ FirstProc \in Procs
  /\ {CODE_PAGES, AREA_PAGES} \subseteq Nat
  /\ {DATA_PAGES, STACK_PAGES} \subseteq Nat \ {0}
  /\ Absent \notin Values /\ None \notin Values
  /\ WP \in BOOLEAN

VARIABLES
  live,      \* the processes in use
  pte,       \* pte[p][v], the page table entry of page v
  area,      \* area[p][v], the protection of the vm area that holds v, or "none"
  brk,       \* the data pages below next_free
  free,      \* the frames whose bit is clear in the region's bitmap
  ref,       \* list_pfn_info: the reference count of a frame
  content,   \* what a frame holds
  halted     \* the message of OS_BUG or gassert, or "no"

vars == <<live, pte, area, brk, free, ref, content, halted>>

\* Pages in address order.  The segments are far apart; only the pages of
\* one segment are neighbours.
DataStart == CODE_PAGES + 1
AreaStart == DataStart + DATA_PAGES
StackStart == AreaStart + AREA_PAGES
StackTop == StackStart + STACK_PAGES - 1

CodePages == 1..(DataStart - 1)
DataPages == DataStart..(AreaStart - 1)
AreaPages == AreaStart..(StackStart - 1)
StackPages == StackStart..StackTop
Pages == 1..StackTop

Frames == Pages \X Procs
Entry(f, w) == [pfn |-> f, w |-> w]
Entries == [pfn : Frames, w : BOOLEAN]

ASSUME EntryAssumption == None \notin Entries /\ Touched \subseteq Pages

\* What a process can do with a page: store a value, or load.
Load == None
Ops == Values \cup {Load}

-----------------------------------------------------------------------------
(* What a process may do with a page.                                      *)

InData(p, v) == v \in DataStart..(DataStart + brk[p] - 1)

\* do_page_fault: the page lies in a segment or in a vm area.
Valid(p, v) ==
  \/ v \in CodePages \cup StackPages
  \/ InData(p, v)
  \/ v \in AreaPages /\ area[p][v] # "none"

\* access_flags & MM_WR of that segment or area.
Writable(p, v) ==
  v \in DataPages \cup StackPages \/ (v \in AreaPages /\ area[p][v] = "rw")

Mapped(p, v) == pte[p][v] # None

CanStore(p, v) == Mapped(p, v) /\ pte[p][v].w

Maps(p, v, f) == Mapped(p, v) /\ pte[p][v].pfn = f

\* Page v of p has f, and no other entry of p changes.
SetEntry(p, v, f, w) == pte' = [pte EXCEPT ![p][v] = Entry(f, w)]

-----------------------------------------------------------------------------
(* Frames.                                                                 *)

\* How many of these pages of p are mapped to frame f.
Uses(p, pages, f) == Cardinality({v \in pages : Maps(p, v, f)})

\* get_free_page.
NewFrame(v) == CHOOSE f \in free : f[1] = v

NewFrames(pages) == {NewFrame(v) : v \in pages}

CanAlloc(pages) == \A v \in pages : \E f \in free : f[1] = v

\* set_pfn_info: a fresh frame has no owner.
AllocFails(pages) == \E f \in NewFrames(pages) : ref[f] # 0

\* os_pfn_alloc and set_pfn_info for each of these pages.  A user frame is
\* not cleared: it holds anything, or what the caller copies into it.
Alloc(pages) ==
  /\ ref' = [f \in Frames |-> IF f \in NewFrames(pages) THEN 1 ELSE ref[f]]
  /\ free' = free \ NewFrames(pages)

Fill(pages, held) ==
  content' = [f \in Frames |-> IF f \in NewFrames(pages) THEN held[f[1]] ELSE content[f]]

\* put_pfn: a frame that is given up has an owner.
PutFails(p, pages) == \E f \in Frames : ref[f] < Uses(p, pages, f)

Halt(message) ==
  /\ halted' = message
  /\ UNCHANGED <<live, pte, area, brk, free, ref, content>>

Clear(p, pages) ==
  pte' = [pte EXCEPT ![p] = [v \in Pages |-> IF v \in pages THEN None ELSE @[v]]]

GiveBack(frames) ==
  /\ free' = free \cup frames
  /\ content' = [f \in Frames |-> IF f \in frames THEN Absent ELSE content[f]]

\* Mutant: a frame goes back to the region whoever else has it.
DropFreesShared(p, pages) ==
  /\ Clear(p, pages)
  /\ ref' = [f \in Frames |-> IF Uses(p, pages, f) > 0 THEN 0 ELSE ref[f]]
  /\ GiveBack({f \in Frames : Uses(p, pages, f) > 0})

\* purge_mapping_range and invalidate_pte: put_pfn for each of these pages,
\* and os_pfn_free for the last owner.
Drop(p, pages) ==
  /\ Clear(p, pages)
  /\ ref' = [f \in Frames |-> ref[f] - Uses(p, pages, f)]
  /\ GiveBack({f \in Frames : Uses(p, pages, f) > 0 /\ ref'[f] = 0})

-----------------------------------------------------------------------------
(* Instructions and page faults.                                           *)

Running(p) == halted = "no" /\ p \in live

\* The processor can carry out o at page v.
Allowed(p, v, o) == Mapped(p, v) /\ (o # Load => CanStore(p, v))

Hit(p, v, o) ==
  /\ Running(p) /\ Allowed(p, v, o) /\ o # Load
  /\ content' = [content EXCEPT ![pte[p][v].pfn] = o]
  /\ UNCHANGED <<live, pte, area, brk, free, ref, halted>>

\* What the fault handler refuses: a page of no segment and no area, and a
\* store without the right.  For a segment it checks the right only when the
\* page is mapped.
Denied(p, v, o) ==
  \/ ~Valid(p, v)
  \/ o # Load /\ ~Writable(p, v) /\ (v \in AreaPages \/ Mapped(p, v))

\* map_physical_page with no frame given.
MapFresh(p, pages, w) ==
  /\ pte' = [pte EXCEPT ![p] =
               [v \in Pages |-> IF v \in pages THEN Entry(NewFrame(v), w) ELSE @[v]]]
  /\ Alloc(pages)
  /\ \E held \in [pages -> Values] : Fill(pages, held)

\* The page is not mapped yet.
FaultAbsent(p, v, o) ==
  /\ Running(p) /\ ~Mapped(p, v) /\ ~Denied(p, v, o)
  /\ CanAlloc({v})
  /\ IF AllocFails({v}) THEN Halt("PFN refcount")
     ELSE /\ MapFresh(p, {v}, Writable(p, v))
          /\ UNCHANGED <<live, area, brk, halted>>

\* handle_cow_fault for a frame with one owner: the page becomes writable.
LastOwner(p, v) ==
  /\ SetEntry(p, v, pte[p][v].pfn, TRUE)
  /\ UNCHANGED <<ref, free, content>>

\* Mutant: the copy is as read-only as the shared page was.
CopyFrameReadOnly(p, v) ==
  /\ SetEntry(p, v, NewFrame(v), FALSE)
  /\ ref' = [ref EXCEPT ![NewFrame(v)] = 1, ![pte[p][v].pfn] = @ - 1]
  /\ free' = free \ {NewFrame(v)}
  /\ Fill({v}, [u \in {v} |-> content[pte[p][v].pfn]])

\* handle_cow_fault for a shared frame: the process gets a copy of its own.
CopyFrame(p, v) ==
  /\ SetEntry(p, v, NewFrame(v), Writable(p, v))
  /\ ref' = [ref EXCEPT ![NewFrame(v)] = 1, ![pte[p][v].pfn] = @ - 1]
  /\ free' = free \ {NewFrame(v)}
  /\ Fill({v}, [u \in {v} |-> content[pte[p][v].pfn]])

\* A store into a page that is mapped read-only.
FaultCow(p, v, o) ==
  /\ Running(p) /\ Mapped(p, v) /\ ~Allowed(p, v, o) /\ ~Denied(p, v, o)
  /\ \/ /\ ref[pte[p][v].pfn] > 1 /\ CanAlloc({v})
        /\ IF AllocFails({v}) THEN Halt("PFN refcount")
           ELSE CopyFrame(p, v) /\ UNCHANGED <<live, area, brk, halted>>
     \/ /\ ref[pte[p][v].pfn] <= 1
        /\ LastOwner(p, v)
        /\ UNCHANGED <<live, area, brk, halted>>

\* do_exit: all pages and areas go.  The slot's segments are set by the fork
\* that takes it next.
Terminate(p) ==
  IF PutFails(p, Pages) THEN Halt("PFN refcount")
  ELSE /\ Drop(p, Pages)
       /\ area' = [area EXCEPT ![p] = [v \in AreaPages |-> "none"]]
       /\ brk' = [brk EXCEPT ![p] = 0]
       /\ live' = live \ {p}
       /\ UNCHANGED halted

\* SIGSEGV without a handler.
Segfault(p, v, o) ==
  /\ Running(p) /\ ~Allowed(p, v, o) /\ Denied(p, v, o)
  /\ Terminate(p)

Exit(p) == Running(p) /\ Terminate(p)

\* The kernel stores into a buffer of the process, as pipe_read does, or onto
\* its stack, as invoke_sync_signal does.  Nothing in the kernel sets CR0.WP,
\* so it has the value the machine starts with.  A fault in kernel mode stops
\* the machine: there is no next step then.
KernelCopy(p, v, x) ==
  /\ Running(p) /\ Mapped(p, v) /\ (WP => CanStore(p, v))
  /\ content' = [content EXCEPT ![pte[p][v].pfn] = x]
  /\ UNCHANGED <<live, pte, area, brk, free, ref, halted>>

-----------------------------------------------------------------------------
(* Areas and segments.                                                     *)

UsedAreas(p) == {v \in AreaPages : area[p][v] # "none"}

\* munmap and mprotect: the pages of areas in the range.  A range that starts
\* below all areas starts with the first; one that starts in a gap above it
\* has none.
InAreas(p, lo, hi) ==
  IF lo \in UsedAreas(p) \/ \A v \in UsedAreas(p) : lo < v
  THEN UsedAreas(p) \cap (lo..hi) ELSE {}

WithArea(p, pages, prot) ==
  [area EXCEPT ![p] = [v \in AreaPages |-> IF v \in pages THEN prot ELSE @[v]]]

\* vm_area_map for a run of pages without areas, with MAP_POPULATE or not.
Mmap(p, lo, hi, prot, populate) ==
  /\ Running(p) /\ lo <= hi /\ UsedAreas(p) \cap (lo..hi) = {}
  /\ populate => CanAlloc(lo..hi)
  /\ IF populate /\ AllocFails(lo..hi) THEN Halt("PFN refcount")
     ELSE /\ area' = WithArea(p, lo..hi, prot)
          /\ IF populate THEN MapFresh(p, lo..hi, prot = "rw")
             ELSE UNCHANGED <<pte, ref, free, content>>
          /\ UNCHANGED <<live, brk, halted>>

\* purge_mapping_range clears the page at its end too.
Purged(pages) == AreaPages \cap (pages \cup {v + 1 : v \in pages})

Munmap(p, lo, hi) ==
  /\ Running(p)
  /\ LET pages == InAreas(p, lo, hi)
     IN IF PutFails(p, Purged(pages)) THEN Halt("PFN refcount")
        ELSE /\ Drop(p, Purged(pages))
             /\ area' = WithArea(p, pages, "none")
             /\ UNCHANGED <<live, brk, halted>>

\* Mutant: the write bit follows the area whoever shares the frame.
ReprotectShared(p, pages, prot) ==
  pte' = [pte EXCEPT ![p] =
            [v \in Pages |-> IF v \in pages /\ Mapped(p, v)
                             THEN Entry(@[v].pfn, prot = "rw") ELSE @[v]]]

\* Mutant: the write bit is given but never taken.
ReprotectGrants(p, pages, prot) ==
  pte' = [pte EXCEPT ![p] =
            [v \in Pages |-> IF v \in pages /\ Mapped(p, v) /\ ref[@[v].pfn] = 1
                             THEN Entry(@[v].pfn, @[v].w \/ prot = "rw") ELSE @[v]]]

\* change_mapping_prot: the write bit follows the area, unless the frame is
\* shared.
Reprotect(p, pages, prot) ==
  pte' = [pte EXCEPT ![p] =
            [v \in Pages |-> IF v \in pages /\ Mapped(p, v) /\ ref[@[v].pfn] = 1
                             THEN Entry(@[v].pfn, prot = "rw") ELSE @[v]]]

\* The assertion of change_mapping_prot: a shared page is read-only.
ReprotectFails(p, pages) ==
  \E v \in pages : CanStore(p, v) /\ ref[pte[p][v].pfn] # 1

Mprotect(p, lo, hi, prot) ==
  /\ Running(p)
  /\ LET pages == {v \in InAreas(p, lo, hi) : area[p][v] # prot}
     IN IF ReprotectFails(p, pages) THEN Halt("Invalid Cow PFN")
        ELSE /\ Reprotect(p, pages, prot)
             /\ area' = WithArea(p, pages, prot)
             /\ UNCHANGED <<live, brk, free, ref, content, halted>>

\* do_expand of the data segment.
Expand(p, n) ==
  /\ Running(p) /\ brk[p] + n <= DATA_PAGES
  /\ brk' = [brk EXCEPT ![p] = @ + n]
  /\ UNCHANGED <<live, pte, area, free, ref, content, halted>>

\* do_shrink of the data segment.
Shrink(p, n) ==
  /\ Running(p) /\ n <= brk[p]
  /\ LET pages == (DataStart + brk[p] - n)..(DataStart + brk[p] - 1)
     IN IF PutFails(p, pages) THEN Halt("PFN refcount")
        ELSE /\ Drop(p, pages)
             /\ brk' = [brk EXCEPT ![p] = @ - n]
             /\ UNCHANGED <<live, area, halted>>

-----------------------------------------------------------------------------
(* Fork.                                                                   *)

\* What cfork_copy_mm, copy_mm and copy_vma walk over: of the stack only the
\* first page, because faults below it do not move next_free.
LowStack == StackStart..(StackTop - 1)

Copied(p) == {v \in Pages \ LowStack : Valid(p, v) /\ Mapped(p, v)}

\* The child's table, given the entries of the pages it gets.
ChildTable(p, entry) == [v \in Pages |-> IF v \in Copied(p) THEN entry[v] ELSE None]

\* Mutant: the parent keeps its write bits.
SharePagesOneSided(p, c) ==
  pte' = [pte EXCEPT
            ![c] = ChildTable(p, [v \in Copied(p) |-> Entry(pte[p][v].pfn, FALSE)])]

\* remap_cow_page and replicate_page_table_cow: both sides read-only.
SharePages(p, c) ==
  LET shared == [v \in Copied(p) |-> Entry(pte[p][v].pfn, FALSE)]
  IN pte' = [pte EXCEPT
               ![p] = [v \in Pages |-> IF v \in Copied(p) THEN shared[v] ELSE @[v]],
               ![c] = ChildTable(p, shared)]

\* The child has the parent's areas and segments.
NewChild(p, c) ==
  /\ live' = live \cup {c}
  /\ area' = [area EXCEPT ![c] = area[p]]
  /\ brk' = [brk EXCEPT ![c] = brk[p]]
  /\ UNCHANGED halted

\* get_pfn: a frame that gets one more owner has one.
GetFails(p, pages) == \E v \in pages : ref[pte[p][v].pfn] < 1

Cfork(p, c) ==
  /\ Running(p) /\ c \in Procs \ live
  /\ IF GetFails(p, Copied(p)) THEN Halt("PFN refcount")
     ELSE /\ SharePages(p, c)
          /\ ref' = [f \in Frames |-> ref[f] + Uses(p, Copied(p), f)]
          /\ NewChild(p, c)
          /\ UNCHANGED <<free, content>>

\* do_fork: the child gets copies at once.
Fork(p, c) ==
  /\ Running(p) /\ c \in Procs \ live /\ CanAlloc(Copied(p))
  /\ IF AllocFails(Copied(p)) THEN Halt("PFN refcount")
     ELSE /\ pte' = [pte EXCEPT
                ![c] = ChildTable(p, [v \in Copied(p) |-> Entry(NewFrame(v), Writable(p, v))])]
          /\ Alloc(Copied(p))
          /\ Fill(Copied(p), [v \in Copied(p) |-> content[pte[p][v].pfn]])
          /\ NewChild(p, c)

-----------------------------------------------------------------------------
(* exec_init: the code, the first data page and the first stack page of    *)
(* init are mapped.                                                        *)

FirstPages == CodePages \cup {DataStart, StackTop}

Init ==
  /\ live = {FirstProc}
  /\ area = [p \in Procs |-> [v \in AreaPages |-> "none"]]
  /\ brk = [p \in Procs |-> IF p = FirstProc THEN 1 ELSE 0]
  /\ pte = [p \in Procs |-> [v \in Pages |->
              IF p = FirstProc /\ v \in FirstPages
              THEN Entry(<<v, p>>, v \notin CodePages) ELSE None]]
  /\ free = Frames \ (FirstPages \X {FirstProc})
  /\ ref = [f \in Frames |-> IF f \in free THEN 0 ELSE 1]
  /\ \E x \in Values : content = [f \in Frames |-> IF f \in free THEN Absent ELSE x]
  /\ halted = "no"

\* The calls of do_syscall on the areas of p.
AreaCall(p) ==
  \E lo, hi \in AreaPages :
    \/ \E prot \in {"ro", "rw"}, populate \in BOOLEAN : Mmap(p, lo, hi, prot, populate)
    \/ Munmap(p, lo, hi)
    \/ \E prot \in {"ro", "rw"} : Mprotect(p, lo, hi, prot)

Next == \E p \in Procs :
  \/ \E v \in Touched, o \in Ops :
       Hit(p, v, o) \/ FaultAbsent(p, v, o) \/ FaultCow(p, v, o) \/ Segfault(p, v, o)
  \/ \E v \in Touched, x \in Values : KernelCopy(p, v, x)
  \/ AreaCall(p)
  \/ \E n \in 1..DATA_PAGES : Expand(p, n) \/ Shrink(p, n)
  \/ \E c \in Procs : Cfork(p, c) \/ Fork(p, c)
  \/ Exit(p)

Spec == Init /\ [][Next]_vars

-----------------------------------------------------------------------------
(* Properties.                                                             *)

\* Every variable has its type: counts are not negative, entries name frames.
TypeOK ==
  /\ live \subseteq Procs
  /\ pte \in [Procs -> [Pages -> Entries \cup {None}]]
  /\ area \in [Procs -> [AreaPages -> {"none", "ro", "rw"}]]
  /\ brk \in [Procs -> 0..DATA_PAGES]
  /\ free \subseteq Frames
  /\ ref \in [Frames -> 0..Cardinality(Procs)]
  /\ content \in [Frames -> Values \cup {Absent}]
  /\ halted \in {"no", "PFN refcount", "Invalid Cow PFN"}

\* A frame's count is the number of page table entries that name it, and the
\* region has exactly the frames that none names: whatever the order of
\* faults, forks, protection changes and exits, no frame is freed under a
\* process and none is lost (page.c, get_pfn and put_pfn).
CountsExact ==
  \A f \in Frames :
    LET owners == {u \in Procs \X Pages : Maps(u[1], u[2], f)}
    IN ref[f] = Cardinality(owners) /\ (f \in free <=> owners = {})

\* A page is writable without a fault only if no one else has its frame, so
\* that a store never reaches the page of another process (v2p.c,
\* handle_cow_fault and change_mapping_prot).
WritableIsPrivate ==
  \A p, q \in Procs, u, v \in Pages :
    CanStore(p, v) /\ Maps(q, u, pte[p][v].pfn) => q = p /\ u = v

\* The page table grants no more than segments and areas do: an entry lies in
\* one of them, and is writable only where that is.  Unmapping, shrinking and
\* protecting leave nothing behind (v2p.c, vm_area_unmap, vm_area_mprotect).
GrantsHonoured ==
  \A p \in Procs, v \in Pages :
    /\ Mapped(p, v) => p \in live /\ Valid(p, v)
    /\ CanStore(p, v) => Writable(p, v)

\* The kernel's own checks of counts and of copy-on-write entries never stop
\* the machine (page.c, OS_BUG; v2p.c, gassert).
ChecksHold == halted = "no"

\* Handling a fault lets the instruction through or ends the process: no
\* process faults on the same instruction for ever (page.c, do_page_fault).
FaultsResolved ==
  [][\A p \in Procs, v \in Pages, o \in Ops :
       FaultAbsent(p, v, o) \/ FaultCow(p, v, o)
       => halted' # "no" \/ Allowed(p, v, o)']_vars

\* What p sees at page v.
Seen(p, v) == IF Mapped(p, v) THEN content[pte[p][v].pfn] ELSE Absent

Memory == INSTANCE PrivateMemory WITH
  alive <- live, mem <- [p \in Procs |-> [v \in Pages |-> Seen(p, v)]]

\* Copy-on-write cannot be told from memories of their own: a process reads
\* what it wrote, a child starts with what its parent had, and the stores,
\* faults, copies, protection changes and exits of others change nothing, as
\* long as the kernel too minds the write bit (v2p.c and fork.c).
ImplementsPrivateMemory == Memory!PMSpec

\* A page that keeps its area keeps what was written to it
\* (user/testcases/part2/testcase6.c).
WrittenStays ==
  [][\A p \in live \cap live', v \in AreaPages :
       area[p][v] # "none" /\ area'[p][v] # "none" /\ Mapped(p, v) => Mapped(p, v)']_vars
=============================================================================
