# gemOS in TLA+

The repository holds three stages of an operating systems course: a user-level
memory allocator (assignment 1), a tracer for system calls and functions in the
gemOS kernel (assignment 2), and the gemOS kernel with memory areas,
copy-on-write fork, files and pipes (assignment 3). This directory specifies
the parts of that code that keep state, checks them with TLC on small instances
and proves the central results with TLAPS for every size.

Paths below are relative to `src/`; `A3` is
`assignment_3/template_solution.v1`, `A2` is `assignment_2/gemOS/src`, `A1` is
`assignment_1`.

## The system

gemOS runs on one core. System calls, page faults and timer ticks enter the
kernel through interrupt gates and run to their end with interrupts off: what
interleaves is whole kernel entries of different processes, and within an entry
there is only its own order of steps, which matters where the entry can stop
halfway (an error return, an assertion) or where a loop works on a structure it
is changing.

| Component | State | Operations | What is hard | Modelled in |
| --- | --- | --- | --- | --- |
| Memory areas (`A3/v2p.c`, `mmap.c`) | per process, a sorted linked list of areas with a dummy head; a global count of areas | mmap, munmap, mprotect, exit | loops that split, merge and free the areas they walk over; rounding of addresses and lengths; the head | `VmArea` |
| Frames and copy-on-write (`A3/page.c`, `v2p.c`, `fork.c`) | entries, a reference count per frame | faults, cfork, fork, mprotect, munmap, expand, shrink, exit | frames shared by several processes; order of faults, exits and protection changes | `Cow` |
| Page tables (`A3/page.c`) | trees of four levels, the kernel's part shared | map, purge, invalidate, install, copy, walk | a table given back while something below it is in use | `PageTables` |
| Pipes (`A3/pipe.c`) | ring, two positions, a count, open flags | create, read, write, close | two encodings of how full the ring is; u32 wrap-around; errors halfway | `Pipe`, `Files` |
| Files (`A3/file.c`) | 32 descriptors per process, file objects with reference counts | open, dup, dup2, read, write, lseek, close, fork, exit | who frees what, and when | `Files` |
| File system (`A3/fs.c`) | 32 inodes with a size | create, lookup, read, write | offsets at the end | `Files` (contents left out) |
| Processes (`A3/fork.c`, `context.c`, `entry.c`) | 32 contexts with a state, a type and handlers | fork, vfork, cfork, clone, exit, signals, launch | reuse of a slot, parents that wait | `Sched`, with their memory in `Cow` and files in `Files` |
| Scheduler (`A3/schedule.c`, `entry.c`) | the current context, sleep and alarm ticks | tick, sleep, alarm | lost wake-ups, starvation | `Sched` |
| Allocators (`A3/memory.c`) | a bitmap per region, a free list per size class | alloc and free of pages and objects | word searches, page ends, list nodes | `PageList`, `OsAlloc` |
| System call tracing (`A2/tracer.c`, `entry.c`) | trace buffer, list of traced calls, mode | create, read, write, close, start, end, add, remove, and every traced call | records cut short by a full buffer, list ends | `Tracer`, `InfoList` |
| Function tracing (`A2/tracer.c`) | list of traced functions with saved code bytes | add, remove, enable, disable, fault | enabling twice, removing while enabled | `Tracer`, `InfoList` |
| Memory under the tracer (`A2/cfork.c`, `mmap.c`, `entry_helpers.c`, `context.c`) | segments, a list of areas that forks share, entries, counts | faults, mmap, munmap, mprotect, expand, shrink, fork, cfork, exit, launch | lists edited by two processes, frames counted on one way and not on another | `TraceeMemory` |
| User allocator (`A1/Part3/mylib.c`) | 4 MB chunks, an explicit free list in the blocks | memalloc, memfree | splitting and coalescing | `Malloc` |
| Directory size utility (`A1/part2/size.c`) | none of its own | - | it is a use of the host's fork, pipe and readdir | - |
| Devices, boot, shell, user programs | none that the others share | - | - | - |

The components interact by plain calls. Processes share frames, file objects,
pipes and, under assignment 2, the list of areas; in assignment 3 a process's own
list is copied by fork and then private. `PROJECT.json` lists every component
with its status, and every hazard with the line where it bites and the
properties that watch it.

What makes each component correct, in one sentence: the list of areas is sorted,
coalesced and does what a map from addresses to protections would do; a frame
has as many owners as it counts and a writable page has one; the walk through
the tables finds what was mapped; a pipe is a queue; a file object lives while a
descriptor names it; one context runs, the swapper only if nobody else can, and
whoever is ready gets a turn; a page has one holder and objects do not overlap;
the trace buffer delivers what was recorded and traced code can be restored; the
tracer's check of a buffer admits only pages that are there or will come; blocks
and free chunks partition the heap.

## Modules

| Module | What it is |
| --- | --- |
| `AddrSpace` | what mmap, munmap and mprotect promise: a function from addresses to protections |
| `VmArea` | the list of areas and the calls that edit it; implements `AddrSpace` |
| `PrivateMemory` | what processes see of memory: each has its own, a fork copies it |
| `Cow` | entries, reference counts, faults and forks; implements `PrivateMemory` |
| `PageTables` | the four levels of tables as trees of pages |
| `PageList`, `OsAlloc` | the bitmap of a region; the objects cut from its pages |
| `Fifo` | what a pipe promises: a bounded queue with atomic calls |
| `Pipe` | the ring, byte by byte; implements `Fifo` |
| `Files` | descriptors, file objects, pipe ends and inodes |
| `Sched` | contexts, the round robin, sleep, alarm, signals, launch |
| `InfoList`, `Tracer` | the lists of the tracers; the trace buffer and both tracers |
| `TraceeMemory` | the memory of the traced processes |
| `Malloc` | the user-level allocator |
| `VmAreaProofs`, `SchedProofs`, `CowProofs`, `FilesProofs`, `TracerProofs`, `MallocProofs`, `KernelMemoryProofs`, `TraceeMemoryProofs` | theorems for any size |
| `MC...` | the instances for TLC; `MCKernelMemory` puts `PageTables` and `OsAlloc` side by side |

### VmArea

`vm_area` is the list `current->vm_area` as a sequence of records with the
fields of `struct vm_area`; a pointer to an area is its index and NULL is 0.
`num_vm_area` is the global statistic. `ret` is what the last call that returned
handed back, and `asked` remembers what the mmap that `ret` answers had asked
for, so that a property can relate the two. mmap looks before it edits and is one
action, `Mmap`; its three placements are `Extend`, `Lower` and `Create`, at the
hint (`MapAtHint`) or in the first gap that fits (`MapVmArea`). munmap and
mprotect edit while they walk. They are an entry action (`Munmap`, `Mprotect`)
and one action for each branch of their loop (`UnmapWhole` ... `UnmapMiddle`,
`ProtectSame` ... `ProtectMiddle`); `call` keeps the loop's local variables. That
makes visible what holds between two passes, which is where the loop's cursor,
the merges and the freed areas have to agree.

Addresses count half pages. An even address is page aligned and an odd one
stands for all addresses inside a page, which is all the code distinguishes.

`halted` is set when munmap is asked for the list head while it is the only
area. The code then writes through a NULL `prev_vma` (line 437) and frees the
area the process still points to; no behaviour is given to the state after
that.

`prev_vma` is not a variable: in every pass it is the area before the cursor,
because lookup_vma walks there from the previous one. PROT_NONE is not among
the protections callers pass (`user/ulib.h` does not offer it): with it, a
mapping would merge into the head.

### Cow

`pte[p][v]` is the entry of page `v` in the page table of process `p`: a frame
and the write bit, or `None`. `ref` is `list_pfn_info`, `free` the region's
bitmap, `brk` and `area` are the segments and the areas, reduced to what each
page may be used for, and `content` is what the frames hold. `halted` names the
check of the kernel (`OS_BUG`, `gassert`) that stopped the machine.

One step is one kernel entry, because nothing preempts the kernel. An
instruction that may go on is `Hit`; one that faults is `FaultAbsent`,
`FaultCow` or `Segfault`, and is tried again when the process runs next, so that
other processes fault, fork, protect and exit between the fault and the store.
`KernelCopy` is any store of the kernel through a user address. `Drop` is
`put_pfn` and `os_pfn_free` for a set of pages, and `Terminate`, `Munmap` and
`Shrink` use it with the sets the code walks over; for `Munmap` this is one page
more than the range (`Purged`), as in `purge_mapping_range`. `Cfork` shares the
pages of `Copied` read-only on both sides and `Fork` copies them. Neither copies
the stack below its first page (`LowStack`), because faults do not lower
`next_free`.

Three things are abstracted. The upper levels of a page table are left out; they
are the subject of `PageTables`. A frame has the name of a page
and an index and not a number: no operation looks at the number, and the region
never runs out. The areas are a protection per page, because how they are split
and merged is the subject of `VmArea`; the range of pages that munmap and
mprotect reach is the same here (`InAreas`).

`PrivateMemory` has no frames. A page is either absent or has a value, and only
the process itself stores into it, gives it up, or touches it for the first
time, when it gets whatever the frame held before: user frames are not cleared.

### PageTables, PageList and OsAlloc

`table` gives every page in use as a table its entries, and an entry is empty,
leads to a table, maps a page of the user or maps a huge page of the kernel; `FAN`
is the number of entries, 512 in the code, and the arithmetic of the indices is
the code's shifts and masks with `FAN` as the base. `pgd` has the top of the tree
of each process that is alive. `MapPhysicalPage` descends and builds what is missing
in three steps (`Below`). `PurgePte`, `PurgePmd`, `PurgePud` and `PurgePgd` follow
the loops of the four functions, whose do-while takes in the entry of the last
address (`InRange`); each reports the entries it clears and whether its table is
empty then, in which case the level above gives the table back (`Upper`), and
`Cleared` carries out what was reported. `CopyOsPts` copies `OS_ENTRIES` entries of the kernel's PUD, so
that the trees share the kernel's tables. `mapped` is history: the pages a
process should have. `Exit` leaves the PUD of the process behind, as the code
does, and `MAX_LEFT` bounds how many are. Frames, counts and write bits are the
subject of `Cow`; an entry here holds the number of the page it was made for.

`PageList` has the operators on `struct page_list`: a search that starts at the
word where the last one stopped and wraps once. `OsAlloc` composes one list with
the object allocator: `Reuse`, `Cut` and `CutFromNewPage` are the branches of
os_alloc, `OsFree` appends to the list of the class and takes list nodes for it.
`live` holds the objects handed out, each with the page and position it was cut
at. The model ends where os_alloc uses page 0 as a page (`CutFromNothing`) and
with the first lap of the list nodes (`NODES`).

### Pipe

`read_pos`, `write_pos` and `buffer_offset` are the fields of `struct
pipe_info`. A call is `PipeWrite` or `PipeRead` (the checks before the loop),
one `WriteByte` or `ReadByte` for each pass of the loop on local copies, then
`WriteEnd` or `ReadEnd`, which store the copies; `WriteFull` and the first
branch of `ReadByte` are the error returns inside the loops. Counts are u32 and
`buffer_offset + count` wraps as it does in the code; the remainder in the
writer's test for a full ring is C's, which is negative for a negative dividend
(`CRem`). `moved` keeps the bytes the last successful call took or delivered,
which is how the queue's calls and the ring's are compared. do_file_read and
do_file_write refuse the wrong mode with the same error as the pipe's own check.

### Files

`files[p]` is the descriptor table, `file` the objects with mode, offset and
`ref_count`, `pipe` the two flags of a pipe, `inode` name, mode and size. Each
action is one system call with every call it makes: `Dup2` closes what newfd had,
`Cfork` counts the child's descriptors twice as the code does, `Vfork` and
`Clone` copy a table without counting, `Exit` drops descriptors without calling
close. `twice` is a ghost that remembers what cfork counted too much, so that the
invariant can say what the count is. `stopped` names the three places the model
does not go on from: a scan past the end of a full table ("overrun"), the launch
of a process into a table that still has pointers of the slot's last one
("inherited"), and a kernel check that fails ("OS_BUG"). What a process that
never runs again still names is `Stale`. Running out of pages for objects is left
out.

### Sched

`ctx` is the table with the fields of `struct exec_context` that scheduling reads;
`current` and `num_contexts` are as in the code. `Tick` is handle_timer_tick: it
accounts sleeps and the caller's alarm, makes the caller READY and switches to
what `IsNext` finds, which is the loop of pick_next_context as an order of
places. `DoExit`, `DoSleep`, `DoVfork` end in `ScheduleNext`, since they do not
return to their caller. `Fault` is a signal without a handler. `Launch` is the
shell, which runs in the swapper when no other context is left. Cfork treats
states as fork does. A process may call anything at any time; what it computes is
left out, and so is the switch of registers and stacks.

### InfoList and Tracer

`InfoList` is the linked list with count, first and last that the code has twice,
with the branches of its removal. `Tracer` counts the ring in words of 8 bytes.
Every system call goes through `Recorded` (perform_tracing wrote its record, the
handler runs) or `Refused` (it did not fit, the call fails and the words that did
fit stay). `Put` is trace_buffer_write, `Read`, `ReadStrace` and `ReadFtrace` the
three readers, which subtract from `remaining_data` each in its own way.
`FunctionCalled` is the fault of a patched function, `EnableFtrace` and the others
are the commands of ftrace on the bytes in `code`. The ghosts are `log`, the words
written and not read, `got`, what the last call returned, and `spoiled`, the
functions a process enabled twice or disabled before enabling. The model stops
(`lost`) when a reader of records meets words that are not one, which plain reads
and writes, and a record cut short, can bring about. `orig_tracer.c` is a copy
that is not built.

### TraceeMemory

Addresses are pages; the segments and their ends are those of `context.h`. A frame
is a record of the processes that map it, those that may write through their
entry, and its count. `upper` is the one thing of the upper tables that matters:
the write bit of the table above all memory areas, made with the rights of the
first entry. fork and cfork copy the pointer to the list of areas, so `peers` says
who edits one list and `Edits` changes it for all. `FaultAbsent`, `FaultCow` and
`Segfault` are the branches of do_page_fault; `Fork` copies data and stack, `Cfork`
shares data and areas and counts them, and both share code and rodata without
counting. `IsValidMemRange` is the tracer's check. The page table code names its
write and user bits by a constant that defines nothing here (`X86_MANUAL`); the
model assumes the named bits are the ones the hardware takes. Contents are left
out. The model stops (`lost`) at an area that ends before it starts, at a frame
given back while another process maps it, at the head of a list freed under a
peer, and at a fault in a page whose area is gone.

### Malloc

`mem` is the heap word by word: a chunk's size, and in a free chunk the next and
previous pointers, `&head` being the previous of the first. `memalloc` and
`memfree` have one disjunct per branch. `live` holds the blocks of the program and
`lost` the rests that three branches (lines 48-56, 76-85, 127-133) link to the
list without linking the list to them. Two branches leave the caller with nothing
defined: a split of the first of several chunks (66-74), after which memalloc
ends without a return, and the first of several taken whole (98-102), whose
successor keeps it as its previous one. The model stops there (`stopped`). sbrk
succeeds and its chunks are contiguous, which the code assumes too.

## Runs

| Run | Instance | Shows |
| --- | --- | --- |
| `vm_area` | five pages, two protections, lengths -1, 0, one, one and a half and three pages | the list stays sorted, disjoint, inside the region (`SortedDisjoint`) and coalesced (`Coalesced`), the asserts are never reached (`NoLogicError`), a mmap that succeeds has made every page it was asked for accessible as asked (`MmapServes`), the list implements `AddrSpace` (`ImplementsAddrSpace`), and every call returns (`CallReturns`) |
| `pipe` | four bytes of two values, a u32 of nine values | the count and the positions agree at every step (`RingConsistent`), admitted calls are not refused halfway (`ReadNeverStarves`, `RefusedOnlyIfTooLong`), the ring is a queue (`ImplementsFifo`) |
| `cow` | two processes, a data page, two pages of areas, a stack page; kernel stores ignore the write bit | counts and the bitmap are exact (`CountsExact`), a page that can be written without a fault has one owner (`WritableIsPrivate`), entries grant no more than segments and areas do (`GrantsHonoured`), the kernel's checks hold (`ChecksHold`) |
| `cow_memory` | two processes with a page of every kind and a stack of two; kernel stores mind the write bit | handling a fault lets the instruction through (`FaultsResolved`), and pages come, go and are inherited as in memories of their own (`ImplementsPrivateMemory`) |
| `cow_written_stays` | as `cow` | violation: munmap takes the page behind its range too |
| `sched` | the swapper and three processes, 0 to 2 ticks, one signal | one context runs (`OneRuns`), the swapper only if nobody else can (`WorkConserving`), contexts are counted (`ContextsCounted`), only the last tick of a sleep wakes (`OnlySleepersWake`), and who is ready or sleeps for a time gets the CPU (`EveryoneRuns`) |
| `files` | two processes, three descriptors of which one is standard, three objects, one pipe, one inode of one byte | no descriptor of a process that runs names an object that is gone (`NoDangling`), counts are what they should be (`RefsAccounted`), a pipe end is closed with its last descriptor (`PipeEndsTold`), offsets stay in their file (`OffsetWithinFile`) |
| `files_pipe_closed` | as `files` | violation: closing the second end of a pipe stops the machine |
| `tracer` | a ring of four words, three nodes for at most two traced calls, one function | the ring holds what was written and not read (`RingHoldsLog`), the lists are sound (`ListSound`), a patched function can be restored (`CodeRestorable`), readers of records return records (`ReadsRecords`) |
| `malloc` | two chunks of eleven words, requests for three, four, seven and fourteen words | blocks, free chunks and lost rests partition the heap (`Partition`), the free list is sound (`ListSound`), it has no neighbours (`Coalesced`), no call touches a block of the program (`BlocksKept`) |
| `kernel_memory` | two processes with tables of six entries; eight pages in words of two, classes of two and four bytes in pages of eight, four list nodes | the walk finds what was mapped (`WalkIsFlat`), tables have one owner but the kernel's (`TablesOwned`), pages are accounted (`PagesAccounted`), only the object cut behind the end of a page overlaps (`OverlapOnlyBehind`) |
| `tracee_memory` | two processes, three pages of areas of which the dummy takes one, two pages of rodata, data and stack, three calls that map, unmap, protect, grow or fork | the check of a buffer is sound (`CheckSound`), a writable page is private (`WritablePrivate`), areas stay apart in lists that processes share (`AreasApart`) |

Why the bounds are enough. `vm_area`: a range can cover an area or a gap on either
side of the one it starts in, every combination of merges occurs, and requests
fill a gap exactly or run out of the region. `pipe`: every position of a full
and an empty ring, every wrap of a position and of `buffer_offset + count`
occur; no operation looks at a byte, so two values, which are symmetric, show
two bytes exchanged. `cow` has two neighbouring pages of areas, so that ranges
end at, before and behind other areas, and one value, since its invariants do
not look at values; `cow_memory` asks which pages a process has, and one value is
enough for that. Two processes give every pair of handlers in every order; a
frame that keeps two owners when a third leaves is beyond the runs. `sched`: with
three processes a scan skips one, wraps around and comes back to its caller, and
slots run out. `files`: tables fill up, objects are shared inside a process and
between two, and the page of an object is reused; `MAX_TWICE` = 1 lets cfork count
one descriptor twice. `tracer`: with four words a record fills the ring, wraps at
each word and is cut at each word; reads ask for two records and may find one;
records of calls have two to five words and those of the function three or four,
so that some fit twice, some once and some never. Three nodes reach a full list and one node beyond it.
`malloc`: every branch of both functions is taken, with chunks before, between and
behind each other. `kernel_memory`: six entries let ranges begin and end inside
tables, at their edges and across two of them; the page search meets full words
and wraps; each class passes the end of a page. `tracee_memory`: three of the
bounded calls are enough for a fork between a mapping and an unmapping, or an
mprotect after a cfork; faults, exits and launches are not bounded. Every passing
run fires each of its actions.

Deadlock is checked for `pipe`. It is not for the others, each of which may
stop for good: `VmArea` with `halted`, `Cow`, `PageTables` and `TraceeMemory` when
no process is left or the model ends, `Sched` when OS_BUG has stopped the machine,
`Files`, `Tracer`, `OsAlloc` and `Malloc` where the sections above say that the
model ends. `tracer` and `malloc` compare states by a VIEW that leaves out a ghost
nothing reads (`got`) and words of free chunks that nothing reads; `ReadsRecords`,
an action property, is evaluated on every step that is generated.

Fairness. `VmArea` assumes weak fairness of the loop step: a system call that is in
its loop goes on, because nothing preempts the kernel. No caller has to make a
call. `CallReturns` uses this. `Sched` assumes weak fairness of `Tick`: the timer
is programmed once to be periodic and its interrupt is enabled whenever a user
process or the swapper runs. No process has to call anything, and `EveryoneRuns`
holds although one may compute for ever or the others fork and sleep without
end; it excuses a machine that OS_BUG has stopped. The other modules state safety
only and assume no fairness.

### What the violations show

munmap of a page takes the next page away too if it is mapped
(`cow_written_stays`). purge_mapping_range is inclusive of its end in all of its
loops, and munmap passes the first address behind its range. The page keeps its
area, so that the next access finds a fresh frame and not what was written.
Reference counts and rights stay right (`cow` has this step).

Closing both ends of a pipe stops the machine (`files_pipe_closed`). pipe_close
frees the page of the pipe without dropping the count set_pfn_info gave it, and
os_page_free checks that the count is 0.

### Facts the models show that no property states

mmap with a hint inside a page creates an area that starts at the hint and is
shorter than the caller asked for; the properties of `vm_area` hold with such
areas. A store of the kernel into a page that is shared after cfork goes to the
shared frame if bit WP of CR0 is clear, which no code sets (`WP` is a constant of
`Cow`): `cow` checks the invariants with it clear, `cow_memory` checks that memory
is private with it set. A parent that called vfork, a thread made by clone and a
sleep of 0 ticks wait for ever: the code that would wake a parent is compiled in only with `vfork_var`, which nothing defines. Under
full tracing a full buffer refuses every call but end_strace. os_alloc cuts one
object behind the end of each page, which `OverlapOnlyBehind` names. cfork counts
every descriptor twice, so that its objects are never freed (`twice`).

## Proofs

`FilesProofs` proves of `Pipe`, for any `PIPE_MAX_SIZE` of at least 3, any u32 larger than
two rings and any set of byte values (`SizeAssumption`, which the code's 4096
and 2^32 satisfy):

- `PipeInvariance`: the inductive invariant `PipeInv` always holds.
- `RingTypeCorrect`, `RingIsConsistent`, `AdmittedReadSucceeds`, `AdmittedWriteFits`: the
  invariants the run `pipe` checks.
- `RefinesFifo`: `PipeSpec => ImplementsFifo`.

`RingConsistent` is not inductive: it does not say how far a call's local
positions are from the stored ones, nor where the bytes it copied went. `PipeInv`
adds `WriteSoFar` and `ReadSoFar`: a write has left `read_pos` where it was, or
started at slot 0 in an empty ring, and its bytes follow the waiting ones; a
read is `i` slots past `read_pos` and has copied the bytes in between. The
arithmetic is in `SlotFacts`, `SlotAdds`, `RemFacts`, `FullFacts`, `WriteFacts`
and `ReadFacts`, which do not mention the state. `FullFacts` is the heart of it:
the writer's odd test for a full ring is equivalent to there being
`PIPE_MAX_SIZE` bytes. For the refinement, `WriteByteHidden` shows that a byte
written during a call is not in the queue's part of the ring, and
`WriteEndAppends` and `ReadEndTakes` that the last step of a call is the atomic
step of the queue.

`VmAreaProofs` proves, for a region of any number of pages and any sets of
addresses, lengths and protections (`AreaAssumption`):

- `Invariance`: the inductive invariant `Inv` always holds.
- `StaysSorted`, `StaysCoalesced`, `LoopsMeetTheirAreas`, `CountsAreas`,
  `TypeCorrect`: the invariants `SortedDisjoint`, `Coalesced`, `NoLogicError`,
  `CountExact` and `TypeOK` of the run `vm_area`.
- `MmapServesRequests`: the invariant `MmapServes`.
- `RefinesAddrSpace`: `Spec => ImplementsAddrSpace`.

None of these is inductive by itself: whether a pass of a loop keeps the list
sorted depends on where the cursor stands, and whether it splits at a page
boundary. `Inv` says the list is sorted for any two areas and not only for
neighbours (`Sorted`), that every area ends on a page boundary, though a hint may
have decided where it starts (`AreaOK`), that neighbours cannot merge (`Apart`),
and that the cursor of a call in progress is inside its area, before the end of
the call, and on a page boundary or at the first address of the area
(`CursorOK`). The argument has three layers. Lemmas about sequences say what
inserting and removing do (`InsertFacts`, `RemoveFacts`). Lemmas about sorted
lists say what replacing, inserting, removing and absorbing an area keep
(`ReplaceFacts`, `InsertSorted`, `RemoveSorted`, `AbsorbFacts`), and which pairs
can merge after it (`ReplacePairs`, `InsertPairs`, `AbsorbApart`); `MergeFacts`
puts them together for try_merge_vms. Then there is one lemma for each placement
of mmap (`ExtendFacts`, `LowerFacts`, `CreateFacts`) and one for each branch of
the loops (`UnmapWholeStep` to `ProtectMiddleStep`), which end in `ContinueFacts`:
however a loop goes on, it stands on an area.

The refinement looks at the list through `Holds`, what the area over an address
says of it. Each edit is described by what it changes of that: mmap adds the
addresses it was asked for and no others (`Gains`, `Serves`), a merge adds nothing,
and a pass of a loop treats the addresses between its cursor and the next one
(`Treats`). So each pass is a sweep of `AddrSpace` (`Swept`), which changes exactly the
mapped addresses it passes over. `MmapServes` needs that mmap rounds its length
once and that the areas it merged with are still there; it is not inductive until it says
that no request is remembered while a loop edits the list. `ProtAssumption` says that
the mark of an unmapped address is not a protection.

`SchedProofs` proves, for a table of any size of at least two and any sets of ticks
and signals (`SchedAssumption`):

- `Invariance`: the inductive invariant `Inv` always holds.
- `OneRunsAlways`, `WorkConserved`, `CountRight`, `TypeCorrect`: the invariants
  `OneRuns`, `WorkConserving` and `ContextsCounted` of the run `sched`, and types.
- `AlarmStaysArmed`: `AlarmArmed`, an alarm once set never runs dry.
- `WakingTakesASleep`: `OnlySleepersWake`, in every step.

None is inductive alone. `Inv` says of each context (`Sane`) that the swapper
neither waits nor ends, that one in use has the type of a process, that a thread
waits without ticks, that only waiting contexts have ticks left, and that an
alarm's ticks are between 1 and its time or there is none; of the table (`Runs`) that nobody
but the current context runs and that the swapper has the CPU only if nobody is
ready; and of the count that it is the cardinality of the slots in use. `Sane` is
what makes `WorkConserving` go through the swapper's own tick, and `OneRuns`
through sleep and exit, where the caller must be known not to be the swapper.
`ScheduleFacts` says what every switch keeps, `Replaced` what a change of one
context keeps, `ContextAdded` what a new one adds; there is then one lemma for
each action.

`CowProofs` proves, for any set of processes, segments of any size and any pages
for mmap (`CowAssumption`, `EntryAssumption`), with the write bit counting in
kernel mode or not:

- `Invariance`: the inductive invariant `Inv` always holds.
- `CountsAreExact`, `WritablePagesArePrivate`, `GrantsAreHonoured`,
  `KernelChecksHold`: the invariants of the run `cow`; and `Typing`.
- `FaultsAreResolved`: `FaultsResolved`, in every step.

A frame has the name of a page, and `Home` says that only entries of that page
lead to it. So a process has a frame at most once, and the number of entries that
name it is the number of processes that share it (`Sharers`): `Counts` says it in
these terms, and `CountsFollow` reduces a step to three cases for each frame:
nothing changes, one process leaves, or one joins. `Private` says that who may
store into a frame is its only sharer. `OwnersFacts` leads back from sharers to the
entries `CountsExact` counts. The invariants of the run need each other: exact
counts show that a count of 1 makes it safe to set the write bit
(`LastOwnerFacts`, `ReprotectFacts`), granted entries show that the pages a mmap
populates were empty, and the slot of a fork's child had no entry
(`ValidFacts`). `CodeThere` was missing from them: the code of a process is mapped
all its life, without which a store to a code page that is not mapped would be
served by a read-only page and fault again.
There is a lemma for each operator on frames (`DropFacts`, `FreshFacts`,
`CopyFrameFacts`, `CforkFacts`) and one for each action.

`CowProofs` also proves `CowIsInvisible`: if `WP` is set, `Spec =>
ImplementsPrivateMemory`. The invariant it adds (`Full`) is that a mapped page holds
a value, so that what is there can be told from what is not. Every operator on
frames is described by what processes see afterwards (`DropSees`, `FreshSees`,
`BitsSee`), and every action is a step of `PrivateMemory` or changes nothing that is
seen. `WP` is needed in one place, `StoreStep`: a store must go through an entry
that is writable, whose frame nobody else has.

`FilesProofs` proves of `Files`, for any number of processes, descriptors, objects, pipes
and inodes (`FilesAssumption`, `ObjectAssumption`: no object is a NULL pointer):

- `Invariance`: the inductive invariant `Inv` always holds.
- `NothingDangles`, `CountsAreExact`, `EndsAreTold`, `OffsetsStayInside`: the
  invariants `NoDangling`, `RefsAccounted`, `PipeEndsTold` and `OffsetWithinFile`
  of the run `files`.

A count is the cardinality of the set of pairs of a process and a descriptor
that lead to the object (`Exact`), and that is all an action has to keep: changing
one descriptor adds a pair to the set of one object and takes one from that of
another (`SetFd`), a process that starts or ends adds or takes a row of pairs
(`RowAdded`, `RowRemoved`). That nothing dangles follows, since an object is
freed at 0. `Backed` says that what an object is for is there, `EndsApart` that a
pipe has one object for each end, without which closing one object could clear
the flag of an end another one stands for. Descriptors and counts are part of the
invariant only while the model goes on (`Going`).

`TracerProofs` proves, for a ring, records, lists and reads of any size
(`TracerAssumption`, `InfoAssumption`: no record of a list is a NULL pointer):

- `Invariance`: the inductive invariant `Inv` always holds.
- `RingIsTheLog`, `ListsAreSound`, `TracingCanBeUndone`: the invariants
  `RingHoldsLog`, `ListSound` and `CodeRestorable` of the run `tracer`.
- `RecordsAreRead`: `ReadsRecords`, in every step.

The ring contains a queue: the word `i` of the log is at the place `i` behind the
read position. The arithmetic modulo the size of the ring is in `Place` and
`Distance`, and putting and taking words is then appending to and cutting from
the queue. The three readers take as many words as they subtract from
`remaining_data`, each by its own loop, whose value is proved by induction. A
list is sound because a sequence of different nodes, its chain, is what its
pointers lead through: adding appends to the chain, and each branch of the removal
takes out one of its nodes, the first, the last or one between. A patched
function is restored from its own node, which needs that no function has two.

`MallocProofs` proves, for any `CHUNK_SIZE`, any heap and any sizes of requests
(`MallocAssumption`):

- `Invariance`: `Sound` always holds.
- `HeapIsPartitioned`, `FreeListIsSound`, `FreeChunksAreMerged`: the invariants
  `Partition`, `ListSound` and `Coalesced` of the run `malloc`.
- `BlocksAreKept`: `BlocksKept`, in every step.

`Sound` says that there is a set of free chunks such that blocks, lost rests and
free chunks tile the heap (`Tiles`), the links in the free chunks make one list of
them (`Linked`), and no two are neighbours (`Merged`). None holds without the others:
a chunk's size is read from the words in front of it, which a wrong link would have
overwritten. Along the list a rank goes down, so that the walk meets every free
chunk once and ends; that it ends within the bound of `At`, a third of the heap,
is because a free chunk has at least three words (`WalkFacts`). A branch of
memalloc or memfree is then a change of the tiling (`TakeWhole`, `GiveBack`,
`AddPiece`, `CutOff`, `JoinFree`) and one of the list (`Unlinks`, `Fronts`,
`Replaces`), and its stores stay out of the blocks (`Spares`). Where the model
stops nothing has changed but `stopped`.

`KernelMemoryProofs` proves of `OsAlloc`, for a region of any number of pages, words of any width, any
range of classes and any sizes up to the largest class (`AllocAssumption`: words
fill the region, as its size in the code is a multiple of the word's, and it has
room for the bitmap and for the pages boot takes):

- `SizesAreServed`: `SizeClass` is the smallest class that holds the size.
- `Invariance`: the inductive invariant `Inv` always holds.
- `PagesAreAccounted`, `OverlapsOnlyBehind`: the invariants `PagesAccounted` and
  `OverlapOnlyBehind` of the run `kernel_memory`.

A word that is not full has a page the scan finds, and while the count says that
one is free the search meets such a word, from whichever it starts (`GetFacts`);
boot takes the first pages one after another, so that each class starts with a page
of its own (`BootFacts`). `Inv` adds to the two properties what makes them inductive:
the objects of one page are of one class, and in the page a class cuts from none
lies at or behind the position it cuts next (`Placed`); no two classes cut from the
same page and none is more than one object behind the end of its page (`ChunksOK`);
every object on a list is of the list's class and there once (`Listed`). Cutting,
handing out again and freeing then each keep it (`CutFacts`, `TailFacts`,
`AppendFacts`). That two objects inside their page share no byte is arithmetic
with powers of two (`TwoToProduct`).

`TraceeMemoryProofs` proves, for any finite number of processes, segments of any size,
any lengths and protections (`SegmentAssumption`):

- `Invariance`: the inductive invariant `MemInv` always holds.
- `BuffersAreThere`, `WritablePagesArePrivate`, `AreasStayApart`: the invariants
  `CheckSound`, `WritablePrivate` and `AreasApart` of the run `tracee_memory`.

`MemInv` has three parts. A page's frames (`PageOK`): a process maps one of them at
most, a frame that may be written through is mapped by one process and not in CODE
or RODATA, and from DATA on no count is below the number of processes. Counts may be
too high, since exits take processes away and leave the count, but never too low,
so that the last process may write in place. How far the segments have grown
(`EndsOK`), with the code and the stack of every process there (`Lasting`): that is
what the tracer's check relies on for CODE, whose pages no fault brings, and for the
part of the stack below which faults do. The lists (`ListOK`, `PeersOK`): being a
peer is the same for all the peers, so that an edit reaches all of them or none.
Every way to change a page is one of four (`Install`, `Unmap`, `Inherit`, `Copied`),
each of which keeps `PageOK` page by page (`FrameFacts`, `WithoutFacts`,
`InheritedFacts`, `CopiedFacts`); the two forks are chains of them (`ChildPage`).
An area that grows or is lowered stays in the room around it (`PutFacts`), which
is all that the seven branches of map and unmap need.

`KernelMemoryProofs` proves of `PageTables`, for tables of any fan-out, any set of
processes and any pages between `CODE_START` and `STACK_START` (`TreeAssumption`: the
user's memory starts above what the entries map that copy_os_pts copies and ends
below what one PUD maps, as 2^20, 4 * 512^2, 2^23 and 512^3 pages do in the code;
the code and the data of a process are not the same pages, munmap and the shrinking
of the data do not reach the code; the kernel's huge pages and the APIC's lie below
the copied entries):

- `TreesInvHolds`: the inductive invariant `TreesInv` always holds.
- `WalkIsFlatHolds`, `TablesOwnedHolds`: the invariants `WalkIsFlat` and `TablesOwned` of
  the run `kernel_memory`.

Neither property is inductive: both say what a walk from the top finds, and a step
changes entries in the middle. `TreesInv` says instead what is in each table. A table
has the name of its process, level and place, so that an entry can be described
without the walk to it: in the tree of a process (`HasTree`) an entry of the PUD or of
a PMD leads to the table of its place exactly if that table is there, an entry of a
last table maps its page exactly if the page is in `mapped`, the first entries of the
PUD lead to the kernel's tables, and no table of the process is anywhere else. Of a
process that is gone only PUDs are left (`Gone`), and the kernel's tables have the huge
pages in them and are no process's own (`KernelTables`). That every process keeps its
pages of code is part of it: it is why a child inherits a page, and so has a PUD that
copy_os_pts can copy the kernel's entries to.

A step of `MapPhysicalPage` finds the table or builds it, and what is built is a tree
again (`PmdBuilt`, `PteBuilt`, `FirstPud`); the loops over pages are inductions over
the function the model defines them by (`MapAllFacts`, `PageInduction`). A step of one
process leaves the trees of the others, which have other names (`TreeStays`,
`OthersStay`). A purge is followed from below. With M the pages mapped, a last table
reports empty exactly if no page of M outside of the range is in it (`PtePurged`), a
PMD exactly if none of its tables is left (`PmdPurged`), and the PUD never does
(`PudPurged`). So the cleared entries are the pages of the range and the entries that
lead to tables which become empty (`TreePurged`); clearing them leaves the tree of the
remaining pages (`PrunedTree`), which after an exit is the PUD (`AllPurged`). The two
properties then follow by walking down a tree whose every entry is known
(`WalkFacts`, `OsWalkFacts`, `TreeIs`). A last table may be empty and stay, after
invalidate_pte; `TreesInv` asks for a table below each page that is mapped, not for a
page in each table.

Induction over numbers, which the recursive functions of `Tracer`, `Malloc`, `OsAlloc`
and `PageTables` need, is stated for sets (`SetInduction`) and follows from the library's
theorem that the numbers are well-founded: the library's own induction theorems
take an operator, which the provers cannot instantiate.

Only model-checked: liveness (`CallReturns`, `EveryoneRuns`), which is out of the
prover's reach. Every other property of a passing run is a theorem.

## Not modelled

- Devices, boot, string helpers, the shell's command line and user programs: no
  state the components share. The directory size utility is a use of the host's
  system calls.
- Of assignment 2: its scheduler, files, file system and allocators, earlier
  stages of those of assignment 3 with the same structure, and `orig_tracer.c`. Its
  handle_cow_fault copies a shared page onto itself instead of the new frame
  (`cfork.c:145-147`, `167-169`), which a model without contents cannot show; the
  fault on a store to a read-only code or rodata page is never served and never
  refused (`entry_helpers.c:440`); stack growth installs the lowest page twice
  (`490-495`).
- Page tables under vfork and clone, which share one table with a parent that
  never runs again or a thread that is never started.
- Running out of frames: os_pfn_alloc returns 0 and its callers use page 0. An
  access of the kernel to a user page that is not there stops the machine
  (`A3/page.c`, "page fault in kernel mode"); that step is not taken.
- `os_contig_pfn_alloc`, called once at boot; the second lap of the memory of list
  nodes, where node_alloc takes the last node of a list for a free one; that the
  user region reaches to the end of memory and so takes in the regions of the
  files too (`A3/memory.c:142-147`).
- The contents of files, the user's buffers, kernel stacks and saved registers.
- `flat_remove_inode`, the listing of inodes, `validate_request` and
  `process_buffer` have no caller.

## Plan

Done: all modules above, with their proofs. In this order, what would come next:

1. An abstract allocator that `Malloc` implements up to what it loses, and a file
   table without reference counts that `Files` implements up to `twice`.
2. The second lap of the list nodes in `OsAlloc`.
