------------------------------- MODULE VmArea -------------------------------
(***************************************************************************)
(* The memory areas of one gemOS process (assignment_3, v2p.c): a linked   *)
(* list of struct vm_area sorted by address, and the system calls that     *)
(* edit it.  mmap only scans before it edits, so it is one step; munmap    *)
(* and mprotect edit in a loop, and each pass through that loop is a step  *)
(* of its own whose local variables are kept in call.  The page tables are *)
(* not here: change_mapping_prot, purge_mapping_range and vm_map_populate  *)
(* do not touch the list.                                                  *)
(*                                                                         *)
(* The list is a sequence; the pointer to an area is its index, and NULL   *)
(* is 0.  Addresses count half pages: an even one is page aligned, an odd  *)
(* one stands for every address inside a page.                             *)
(***************************************************************************)
EXTENDS Integers, SequencesExt

CONSTANTS
  AREA_PAGES,   \* pages between MMAP_AREA_START and MMAP_AREA_END
  PROT_NONE,    \* the protection of the list head
  Prots,        \* the protections callers pass
  Lengths,      \* the lengths callers pass, in half pages
  Addresses,    \* the addresses callers pass, in half pages
  FlagSets      \* the combinations of mmap flags callers pass

PAGE == 2
NULL == 0
MMAP_AREA_START == PAGE
MMAP_AREA_END == MMAP_AREA_START + PAGE * AREA_PAGES

ASSUME AreaAssumption ==
  /\ AREA_PAGES \in Nat \ {0}
  /\ Lengths \subseteq Int
  /\ Addresses \subseteq Nat
  /\ FlagSets \subseteq SUBSET {"MAP_FIXED", "MAP_TH_PRIVATE"}

\* What ProtOf gives an address nobody mapped: no protection of the code.
Unmapped == "unmapped"

ASSUME ProtAssumption == Unmapped \notin Prots \cup {PROT_NONE}

VARIABLES
  vm_area,      \* current->vm_area, the list of areas
  call,         \* the munmap or mprotect in progress, or Idle
  num_vm_area,  \* stats->num_vm_area
  ret,          \* what the last call that returned, returned
  asked,        \* length and protection of the mmap that ret answers
  halted        \* why the kernel can go no further, or "no"

vars == <<vm_area, call, num_vm_area, ret, asked, halted>>

Area(start, end, prot) ==
  [vm_start |-> start, vm_end |-> end, access_flags |-> prot]

Idle == [op |-> "idle"]

Request(length, prot) == [length |-> length, prot |-> prot]

\* ret is not the address a mmap handed out.
Nothing == Request(0, PROT_NONE)

-----------------------------------------------------------------------------
(* Addresses and lengths.                                                  *)

PageOf(addr) == addr \div PAGE

\* get_num_pages: a started page counts.  The division is C's, which rounds
\* towards zero, so that a length of -1 still makes one page.
NumPages(length) ==
  (IF length >= 0 THEN length \div PAGE ELSE -((-length) \div PAGE))
  + (IF length % PAGE # 0 THEN 1 ELSE 0)

\* get_end_addr: rounds the start down to its page and the length up.
EndAddr(addr, length) == (PageOf(addr) + NumPages(length)) * PAGE

-----------------------------------------------------------------------------
(* The list.                                                               *)

NextOf(list, i) == IF i < Len(list) THEN i + 1 ELSE NULL

\* The free run above area i ends at the next area, or at the end of all.
GapEnd(list, i) ==
  IF i < Len(list) THEN list[i + 1].vm_start ELSE MMAP_AREA_END

In(addr, area) == area.vm_start <= addr /\ addr < area.vm_end

\* lookup_vma: the area at or after position i that holds addr.
LookupVma(list, i, addr) ==
  IF \E j \in i..Len(list) : In(addr, list[j])
  THEN CHOOSE j \in i..Len(list) : In(addr, list[j])
  ELSE NULL

\* The second area swallows the first: they touch and agree.
Mergeable(lower, upper) ==
  /\ lower.access_flags = upper.access_flags
  /\ lower.vm_end = upper.vm_start

\* Area i takes over the addresses of area i + 1, which is freed.
Absorb(list, i) ==
  RemoveAt([list EXCEPT ![i].vm_end = list[i + 1].vm_end], i + 1)

\* Mutant: prev is never looked at.
TryMergeNextOnly(list, i, checkPrev, checkNext) ==
  LET above == checkNext /\ i < Len(list) /\ Mergeable(list[i], list[i + 1])
  IN [list |-> IF above THEN Absorb(list, i) ELSE list, vm |-> i,
      freed |-> IF above THEN 1 ELSE 0]

\* try_merge_vms: area i with the one below (when the caller has a prev),
\* then the result with the one above (when the caller asks for it).
TryMerge(list, i, checkPrev, checkNext) ==
  LET below == checkPrev /\ i > 1 /\ Mergeable(list[i - 1], list[i])
      l1 == IF below THEN Absorb(list, i - 1) ELSE list
      j == IF below THEN i - 1 ELSE i
      above == checkNext /\ j < Len(l1) /\ Mergeable(l1[j], l1[j + 1])
      l2 == IF above THEN Absorb(l1, j) ELSE l1
  IN [list |-> l2, vm |-> j,
      freed |-> (IF below THEN 1 ELSE 0) + (IF above THEN 1 ELSE 0)]

-----------------------------------------------------------------------------
(* mmap.  An edit is [list, addr, count]: the new list, the address handed *)
(* out and the change of num_vm_area.                                      *)

\* The three ways to put lo..hi into the gap above area i: onto the end of
\* area i (and on to area i + 1 when that closes the gap), onto the start of
\* area i + 1, or as an area of its own.
Extend(list, i, hi) ==
  LET grown == [list EXCEPT ![i].vm_end = hi]
      closes == i < Len(list) /\ Mergeable(grown[i], grown[i + 1])
  IN [list |-> IF closes THEN Absorb(grown, i) ELSE grown,
      addr |-> list[i].vm_end,
      count |-> IF closes THEN -1 ELSE 0]

Lower(list, i, lo) ==
  [list |-> [list EXCEPT ![i + 1].vm_start = lo], addr |-> lo, count |-> 0]

Create(list, i, lo, hi, prot) ==
  [list |-> InsertAt(list, i + 1, Area(lo, hi, prot)), addr |-> lo, count |-> 1]

\* Mutant: the area above is lowered without a look at its protection.
MapVmAreaBelowAny(list, i, length, prot) ==
  LET lo == list[i].vm_end
      hi == EndAddr(lo, length)
  IN IF list[i].access_flags = prot THEN Extend(list, i, hi)
     ELSE IF i < Len(list) THEN Lower(list, i, lo)
     ELSE Create(list, i, lo, hi, prot)

\* map_vm_area: the request goes at the bottom of the gap above area i.
MapVmArea(list, i, length, prot) ==
  LET lo == list[i].vm_end
      hi == EndAddr(lo, length)
  IN IF list[i].access_flags = prot THEN Extend(list, i, hi)
     ELSE IF i < Len(list) /\ list[i + 1].access_flags = prot
          THEN Lower(list, i, lo)
          ELSE Create(list, i, lo, hi, prot)

\* look_up_hint_addr: the gap that holds the hint, if the request fits there.
HintGap(list, addr, length) ==
  {i \in 1..Len(list) :
     /\ list[i].vm_end <= addr /\ addr < GapEnd(list, i)
     /\ PageOf(GapEnd(list, i)) - PageOf(addr) >= NumPages(length)}

MapAtHint(list, i, addr, length, prot) ==
  LET hi == EndAddr(addr, length)
  IN IF list[i].vm_end = addr /\ list[i].access_flags = prot
     THEN Extend(list, i, hi)
     ELSE IF i < Len(list) /\ Mergeable(Area(addr, hi, prot), list[i + 1])
          THEN Lower(list, i, addr)
          ELSE Create(list, i, addr, hi, prot)

\* Mutant: one page short is good enough.
FitsAlmost(list, i, length) ==
  PageOf(GapEnd(list, i)) - PageOf(list[i].vm_end) + 1 >= NumPages(length)

\* The gaps a request without a usable hint may go to; the first is taken.
Fits(list, i, length) ==
  PageOf(GapEnd(list, i)) - PageOf(list[i].vm_end) >= NumPages(length)

FirstFit(list, length) ==
  {i \in 1..Len(list) :
     Fits(list, i, length) /\ \A j \in 1..(i - 1) : ~Fits(list, j, length)}

BadRequest(addr, length) ==
  \/ addr # NULL /\ (addr < MMAP_AREA_START \/ addr >= MMAP_AREA_END)
  \/ length <= 0

\* vm_area_map puts the list head in place before it looks at the flags.
Head1 == Area(MMAP_AREA_START, EndAddr(MMAP_AREA_START, PAGE), PROT_NONE)

WithHead(list) == IF list = <<>> THEN <<Head1>> ELSE list

\* The edit mmap makes to a list with a head: at the hint, at the first gap
\* that fits, or none.
MapEdits(list, addr, length, prot, flags) ==
  LET hinted == IF addr # NULL \/ "MAP_FIXED" \in flags
                THEN HintGap(list, addr, length) ELSE {}
  IN IF {"MAP_FIXED", "MAP_TH_PRIVATE"} \subseteq flags THEN {}
     ELSE IF hinted # {}
     THEN {MapAtHint(list, i, addr, length, prot) : i \in hinted}
     ELSE IF "MAP_FIXED" \in flags THEN {}
     ELSE {MapVmArea(list, i, length, prot) : i \in FirstFit(list, length)}

Mmap(addr, length, prot, flags) ==
  /\ call = Idle /\ halted = "no"
  /\ UNCHANGED <<call, halted>>
  /\ IF BadRequest(addr, length)
     THEN ret' = -1 /\ asked' = Nothing /\ UNCHANGED <<vm_area, num_vm_area>>
     ELSE LET list == WithHead(vm_area)
              heads == Len(list) - Len(vm_area)
              edits == MapEdits(list, addr, length, prot, flags)
          IN IF edits = {}
             THEN /\ vm_area' = list
                  /\ num_vm_area' = num_vm_area + heads
                  /\ ret' = -1 /\ asked' = Nothing
             ELSE \E e \in edits :
                    /\ vm_area' = e.list
                    /\ num_vm_area' = num_vm_area + heads + e.count
                    /\ ret' = e.addr /\ asked' = Request(length, prot)

-----------------------------------------------------------------------------
(* The loops of munmap and mprotect: call.vm is the area about to be       *)
(* edited and call.caddr the lowest address still to be treated.           *)

\* "Start vma is beyond": addresses below the second area are passed over.
SkipHead(list, addr) ==
  IF Len(list) > 1 /\ addr < list[2].vm_start THEN list[2].vm_start ELSE addr

\* The loop goes on with area vm at caddr, or the call returns 0.
LoopOrReturn(op, vm, caddr, end, prot) ==
  IF vm # NULL /\ caddr < end
  THEN /\ call' = [op |-> op, vm |-> vm, caddr |-> caddr, end |-> end, prot |-> prot]
       /\ UNCHANGED ret
  ELSE call' = Idle /\ ret' = 0

\* Mutant: caddr stays behind in the gap below the next area.
ContinueInGap(list, vm, caddr) ==
  LoopOrReturn(call.op, vm, caddr, call.end, call.prot)

\* The bottom of both loops: on to area vm of the edited list.
Continue(list, vm, caddr) ==
  LET c == IF vm # NULL THEN (IF caddr < list[vm].vm_start
                              THEN list[vm].vm_start ELSE caddr)
           ELSE caddr
  IN LoopOrReturn(call.op,
                  IF call.op = "mprotect" /\ vm # NULL
                  THEN LookupVma(list, vm, c) ELSE vm,
                  c, call.end, call.prot)

Munmap(addr, length) ==
  /\ call = Idle /\ halted = "no"
  /\ asked' = Nothing /\ UNCHANGED <<vm_area, num_vm_area, halted>>
  /\ IF PageOf(addr) * PAGE # addr \/ vm_area = <<>>
     THEN ret' = -1 /\ UNCHANGED call
     ELSE LET c == SkipHead(vm_area, addr)
          IN LoopOrReturn("munmap", LookupVma(vm_area, 1, c), c,
                          EndAddr(addr, length), PROT_NONE)

Mprotect(addr, length, prot) ==
  /\ call = Idle /\ halted = "no"
  /\ asked' = Nothing /\ UNCHANGED <<vm_area, num_vm_area, halted>>
  /\ LET c == SkipHead(vm_area, PageOf(addr) * PAGE)
     IN LoopOrReturn("mprotect", LookupVma(vm_area, 1, c), c,
                     EndAddr(addr, length), prot)

\* Which part of the area the range covers.
Vm == vm_area[call.vm]
Whole  == Vm.vm_start = call.caddr /\ call.end >= Vm.vm_end
Higher == call.caddr > Vm.vm_start /\ call.end >= Vm.vm_end
Lowest == call.caddr = Vm.vm_start /\ call.end < Vm.vm_end
Middle == call.caddr > Vm.vm_start /\ call.end < Vm.vm_end

Edit(list, count) ==
  vm_area' = list /\ num_vm_area' = num_vm_area + count /\ UNCHANGED <<asked, halted>>

\* The whole area goes.  For the list head there is no prev_vma: the kernel
\* writes through NULL and then frees the area current->vm_area still points
\* to.  Nothing the model says holds from there on.
UnmapWhole ==
  /\ call.op = "munmap" /\ halted = "no" /\ Whole
  /\ IF call.vm = 1
     THEN halted' = "null prev_vma" /\ UNCHANGED <<vm_area, call, num_vm_area, ret, asked>>
     ELSE LET list == RemoveAt(vm_area, call.vm)
          IN Edit(list, -1) /\ Continue(list, NextOf(list, call.vm - 1), Vm.vm_end)

UnmapHigher ==
  /\ call.op = "munmap" /\ halted = "no" /\ Higher
  /\ LET list == [vm_area EXCEPT ![call.vm].vm_end = call.caddr]
     IN Edit(list, 0) /\ Continue(list, NextOf(list, call.vm), Vm.vm_end)

UnmapLowest ==
  /\ call.op = "munmap" /\ halted = "no" /\ Lowest
  /\ LET list == [vm_area EXCEPT ![call.vm].vm_start = call.end]
     IN Edit(list, 0) /\ Continue(list, NextOf(list, call.vm), Vm.vm_end)

UnmapMiddle ==
  /\ call.op = "munmap" /\ halted = "no" /\ Middle
  /\ LET cut == [vm_area EXCEPT ![call.vm].vm_end = call.caddr]
         list == InsertAt(cut, call.vm + 1, Area(call.end, Vm.vm_end, Vm.access_flags))
     IN Edit(list, 1) /\ Continue(list, NextOf(list, call.vm + 1), Vm.vm_end)

\* mprotect: m is the list after the merges, and the loop goes on after m.vm.
MergeAndContinue(m, created) ==
  /\ Edit(m.list, created - m.freed)
  /\ Continue(m.list, NextOf(m.list, m.vm), m.list[m.vm].vm_end)

Protecting(different) ==
  /\ call.op = "mprotect" /\ halted = "no"
  /\ (Vm.access_flags # call.prot) = different

\* Mutant: caddr is not moved past the area.
ProtectSameStays ==
  /\ Protecting(FALSE)
  /\ LET m == TryMerge(vm_area, call.vm, TRUE, FALSE)
     IN Edit(m.list, 0 - m.freed) /\ Continue(m.list, m.vm, call.caddr)

ProtectSame ==
  /\ Protecting(FALSE)
  /\ MergeAndContinue(TryMerge(vm_area, call.vm, TRUE, FALSE), 0)

ProtectWhole ==
  /\ Protecting(TRUE) /\ Whole
  /\ LET list == [vm_area EXCEPT ![call.vm].access_flags = call.prot]
     IN MergeAndContinue(TryMerge(list, call.vm, TRUE, TRUE), 0)

ProtectHigher ==
  /\ Protecting(TRUE) /\ Higher
  /\ LET cut == [vm_area EXCEPT ![call.vm].vm_end = call.caddr]
         list == InsertAt(cut, call.vm + 1, Area(call.caddr, Vm.vm_end, call.prot))
     IN MergeAndContinue(TryMerge(list, call.vm + 1, FALSE, TRUE), 1)

\* Mutant: the part above the range takes the new protection.
ProtectLowestAll ==
  /\ Protecting(TRUE) /\ Lowest
  /\ LET list == [vm_area EXCEPT ![call.vm].access_flags = call.prot]
         m == TryMerge(list, call.vm, TRUE, TRUE)
     IN /\ Edit(m.list, 0 - m.freed)
        /\ Continue(m.list, NextOf(m.list, m.vm), Vm.vm_end)

\* Here caddr becomes the old end of the area, so the loop is over.
ProtectLowest ==
  /\ Protecting(TRUE) /\ Lowest
  /\ LET cut == [vm_area EXCEPT ![call.vm] = Area(Vm.vm_start, call.end, call.prot)]
         list == InsertAt(cut, call.vm + 1, Area(call.end, Vm.vm_end, Vm.access_flags))
         m == TryMerge(list, call.vm, TRUE, FALSE)
     IN /\ Edit(m.list, 1 - m.freed)
        /\ Continue(m.list, NextOf(m.list, m.vm), Vm.vm_end)

ProtectMiddle ==
  /\ Protecting(TRUE) /\ Middle
  /\ LET cut == [vm_area EXCEPT ![call.vm].vm_end = call.caddr]
         mid == InsertAt(cut, call.vm + 1, Area(call.caddr, call.end, call.prot))
         list == InsertAt(mid, call.vm + 2, Area(call.end, Vm.vm_end, Vm.access_flags))
     IN Edit(list, 2) /\ Continue(list, NextOf(list, call.vm + 2), Vm.vm_end)

-----------------------------------------------------------------------------

\* do_vma_exit: the process is gone, and with it every area.
Exit ==
  /\ call = Idle /\ halted = "no"
  /\ vm_area' = <<>>
  /\ num_vm_area' = num_vm_area - Len(vm_area)
  /\ ret' = 0 /\ asked' = Nothing
  /\ UNCHANGED <<call, halted>>

Init ==
  /\ vm_area = <<>>
  /\ call = Idle
  /\ num_vm_area = 0
  /\ ret = 0
  /\ asked = Nothing
  /\ halted = "no"

LoopStep ==
  \/ UnmapWhole \/ UnmapHigher \/ UnmapLowest \/ UnmapMiddle
  \/ ProtectSame \/ ProtectWhole \/ ProtectHigher \/ ProtectLowest \/ ProtectMiddle

Next ==
  \/ \E addr \in Addresses, length \in Lengths, prot \in Prots, flags \in FlagSets :
       Mmap(addr, length, prot, flags)
  \/ \E addr \in Addresses, length \in Lengths : Munmap(addr, length)
  \/ \E addr \in Addresses, length \in Lengths, prot \in Prots : Mprotect(addr, length, prot)
  \/ LoopStep
  \/ Exit

\* A system call runs to its end: nothing preempts the kernel in its loop.
Spec == Init /\ [][Next]_vars /\ WF_vars(LoopStep)
-----------------------------------------------------------------------------
(* Properties.                                                             *)

Addrs == MMAP_AREA_START..(MMAP_AREA_END - 1)

Areas == [vm_start : Addrs, vm_end : Int, access_flags : Prots \cup {PROT_NONE}]

Calls ==
  {Idle} \cup [op : {"munmap", "mprotect"}, vm : Nat, caddr : Int, end : Int,
              prot : Prots \cup {PROT_NONE}]

TypeOK ==
  /\ vm_area \in Seq(Areas)
  /\ call \in Calls
  /\ num_vm_area \in Int
  /\ ret \in Int
  /\ asked \in [length : Nat, prot : Prots \cup {PROT_NONE}]
  /\ halted \in {"no", "null prev_vma"}

\* The list stays sorted, areas are not empty, do not overlap and lie inside
\* the mmap area, also between two passes of a loop: lookup_vma, the fault
\* handler and every gap computation of v2p.c rely on it.
SortedDisjoint ==
  /\ \A i \in 1..Len(vm_area) :
       /\ MMAP_AREA_START <= vm_area[i].vm_start
       /\ vm_area[i].vm_start < vm_area[i].vm_end
       /\ vm_area[i].vm_end <= MMAP_AREA_END
  /\ \A i \in 1..(Len(vm_area) - 1) : vm_area[i].vm_end <= vm_area[i + 1].vm_start

\* Areas that touch differ in protection: every path of mmap and mprotect
\* merges what it makes mergeable, whichever side it comes from.
Coalesced ==
  \A i \in 1..(Len(vm_area) - 1) : ~Mergeable(vm_area[i], vm_area[i + 1])

\* gassert(0, "mmap logic error") and gassert(0, "mprotect logic error") are
\* never reached: the range still to be treated meets the area the cursor is
\* on in one of the four ways the loops know, and starts inside it.
NoLogicError ==
  call # Idle =>
    /\ call.vm \in 1..Len(vm_area)
    /\ call.caddr < Vm.vm_end
    /\ Whole \/ Higher \/ Lowest \/ Middle

\* num_vm_area, which pmap prints, is the length of the list: no area that
\* leaves the list is kept, none is freed twice.
CountExact == num_vm_area = Len(vm_area)

\* The protection the list gives an address.
ProtOf ==
  [a \in Addrs |->
     IF \E i \in 1..Len(vm_area) : In(a, vm_area[i])
     THEN vm_area[CHOOSE i \in 1..Len(vm_area) : In(a, vm_area[i])].access_flags
     ELSE IF vm_area = <<>> /\ a < MMAP_AREA_START + PAGE THEN PROT_NONE
     ELSE Unmapped]

Busy ==
  IF call = Idle THEN Idle
  ELSE [op |-> "sweep",
        target |-> IF call.op = "munmap" THEN Unmapped ELSE call.prot,
        lo |-> call.caddr,
        hi |-> IF call.end < MMAP_AREA_END THEN call.end ELSE MMAP_AREA_END]

\* mmap serves the request: from the address it returns to the end of the
\* last page asked for, every address has the protection asked for, whether
\* the areas around it were extended, joined or left alone.
MmapServes ==
  asked # Nothing =>
    \A a \in ret..(EndAddr(ret, asked.length) - 1) :
      a \in Addrs /\ ProtOf[a] = asked.prot

AS == INSTANCE AddrSpace WITH
        Reserved <- MMAP_AREA_START..(MMAP_AREA_START + PAGE - 1),
        prot <- ProtOf, busy <- Busy

\* The list implements the address space: mmap takes only free addresses and
\* returns where they start, munmap and mprotect change every mapped address
\* from the one they start on to the end of their range, and no other.
ImplementsAddrSpace == AS!Spec

\* The loops end: every munmap and mprotect returns (or the kernel is lost).
CallReturns == (call # Idle) ~> (call = Idle \/ halted # "no")
=============================================================================
