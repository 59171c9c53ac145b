----------------------------- MODULE PageTables -----------------------------
(***************************************************************************)
(* The page tables of A3/page.c as trees of pages.  Mapping a page builds  *)
(* the tables on the way to it, purging a range gives back the tables that *)
(* become empty, and every process's tree also leads to the tables of the  *)
(* kernel, which the first process sets up and the others copy.            *)
(*                                                                         *)
(* An entry of the last level holds the number of the page it was mapped   *)
(* for; frames, their counts and the write bit are the subject of Cow.     *)
(***************************************************************************)
EXTENDS Integers, FiniteSets, FiniteSetsExt

CONSTANTS
  Procs, FirstProc,
  FAN,              \* entries of a table, 512 in the code
  OS_ENTRIES,       \* entries of the PUD that copy_os_pts copies, 4 in the code
  OS_PT_MAPS,       \* huge pages that map the kernel's memory
  APIC,             \* the number of the huge page of the APIC
  CODE_START, STACK_START,   \* where the memory of the user starts and ends
  CodePages, DataPages, AreaPages, StackPages,  \* the pages processes use
  PurgeBounds,      \* where the ranges of munmap start and end
  MAX_LEFT          \* bound: table pages that exits leave behind

UserPages == CodePages \cup DataPages \cup AreaPages \cup StackPages

\* The user's memory lies above what the copied entries map and below what one
\* PUD maps; munmap and the shrinking of the data do not reach the code.
ASSUME TreeAssumption ==
  /\ FirstProc \in Procs /\ FAN \in Nat \ {0, 1} /\ OS_ENTRIES \in Nat
  /\ CODE_START \in Nat /\ STACK_START \in Nat
  /\ OS_ENTRIES * FAN * FAN <= CODE_START /\ STACK_START < FAN * FAN * FAN
  /\ UserPages \subseteq CODE_START .. STACK_START - 1
  /\ CodePages # {} /\ DataPages # {} /\ StackPages # {}
  /\ CodePages \cap DataPages = {}
  /\ PurgeBounds \subseteq CODE_START .. STACK_START
  /\ \A b \in PurgeBounds, v \in CodePages : v < b
  /\ OS_PT_MAPS \in 1 .. OS_ENTRIES * FAN
  /\ APIC \in OS_PT_MAPS .. OS_ENTRIES * FAN - 1

VARIABLES
  table,    \* the entries of each page that is in use as a table
  pgd,      \* the top of each process's tree
  mapped    \* history: the pages each process has mapped

vars == <<table, pgd, mapped>>

\* The levels, counted from the one that maps pages.
PGD == 4
PUD == 3
PMD == 2
PTE == 1
Entries == 0 .. FAN - 1

\* Each level shifts a page number by the bits of one table.
Slot(v, level) ==
  CASE level = PTE -> v
    [] level = PMD -> v \div FAN
    [] level = PUD -> (v \div FAN) \div FAN
    [] level = PGD -> ((v \div FAN) \div FAN) \div FAN

Index(v, level) == Slot(v, level) % FAN

\* An entry leads to a table or maps a page, for the user or the kernel only.
Empty == [kind |-> "none"]
ToTable(t, user) == [kind |-> "table", to |-> t, user |-> user]
ToPage(v) == [kind |-> "page", page |-> v, user |-> TRUE]
ToHuge(h) == [kind |-> "huge", page |-> h, user |-> FALSE]
IsTable(e) == e.kind = "table"
IsHuge(e) == e.kind = "huge"
-----------------------------------------------------------------------------
\* os_pfn_alloc(OS_PT_REG) returns a page of zeros.  Pages are named for the
\* first use they are taken for, since nothing depends on their numbers.
NewTable(T, p, level, base) ==
  LET Name(k) == [proc |-> p, level |-> level, base |-> base, copy |-> k]
  IN Name(Min({k \in 0 .. Cardinality(DOMAIN T) : Name(k) \notin DOMAIN T}))

WithTable(T, t) ==
  [x \in DOMAIN T \cup {t} |-> IF x = t THEN [i \in Entries |-> Empty] ELSE T[x]]

\* put_pfn and os_pfn_free of a table, whose count is 1.
Freed(T, t) == [x \in DOMAIN T \ {t} |-> T[x]]

\* The table the entry for the page v leads to, built if the entry is empty.
\* r holds the tables and the one the walk is at.
Below(r, p, v, level, user) ==
  LET i   == Index(v, level)
      new == NewTable(r.tables, p, level - 1, Slot(v, level))
  IN IF r.tables[r.at][i] # Empty
     THEN [tables |-> r.tables, at |-> r.tables[r.at][i].to]
     ELSE [tables |-> [WithTable(r.tables, new) EXCEPT ![r.at][i] = ToTable(new, user)],
           at |-> new]

\* map_physical_page
MapPhysicalPage(T, p, top, v) ==
  LET pud == Below([tables |-> T, at |-> top], p, v, PGD, TRUE)
      pmd == Below(pud, p, v, PUD, TRUE)
      pte == Below(pmd, p, v, PMD, TRUE)
  IN [pte.tables EXCEPT ![pte.at][Index(v, PTE)] = ToPage(v)]

\* The loops over the addresses of a range: upTo[v] is what they have made of
\* the tables when they come to page v.
MapAll(T, p, top, pages) ==
  LET upTo[v \in CODE_START .. STACK_START] ==
        IF v = CODE_START THEN T
        ELSE IF v - 1 \in pages THEN MapPhysicalPage(upTo[v - 1], p, top, v - 1)
        ELSE upTo[v - 1]
  IN upTo[STACK_START]
-----------------------------------------------------------------------------
(* Purging.  Each level clears the entries from the one of `start' to the  *)
(* one of `end', both included, and says whether the table is empty then.  *)

InRange(start, end, level) ==
  {i \in Entries : /\ i >= Index(start, level)
                   /\ Slot(start, level) + (i - Index(start, level)) <= Slot(end, level)}

\* Mutant: the entries below the range are not looked at.
RestEmptyAbove(row, touched) == \A i \in Entries : i > Max(touched) => row[i] = Empty

RestEmpty(row, touched) == \A i \in Entries \ touched : row[i] = Empty

\* The pages one entry maps, and where the range starts in the entry i.
Size(level) ==
  CASE level = PMD -> FAN [] level = PUD -> FAN * FAN [] level = PGD -> FAN * FAN * FAN

From(start, i, level) ==
  IF i = Index(start, level) THEN start
  ELSE (Slot(start, level) + (i - Index(start, level))) * Size(level)

\* What a level reports: the entries it clears, and whether its table is empty.
PurgePte(T, t, start, end) ==
  LET touched == InRange(start, end, PTE)
  IN [cleared |-> {t} \X touched, empty |-> RestEmpty(T[t], touched)]

Leading(T, t, touched) == {i \in touched : IsTable(T[t][i])}

\* An upper level: below is what the level below reports of the tables that
\* its entries lead to, and one that is empty is given back.
Upper(T, t, touched, below) ==
  LET huge == {i \in touched : IsHuge(T[t][i])}
      gone == {i \in DOMAIN below : below[i].empty}
  IN [cleared |-> ({t} \X (huge \cup gone)) \cup UNION {below[i].cleared : i \in DOMAIN below},
      empty |-> RestEmpty(T[t], touched) /\ gone = DOMAIN below]

PurgePmd(T, t, start, end) ==
  LET touched == InRange(start, end, PMD)
  IN Upper(T, t, touched, [i \in Leading(T, t, touched) |->
                             PurgePte(T, T[t][i].to, From(start, i, PMD), end)])

PurgePud(T, t, start, end) ==
  LET touched == InRange(start, end, PUD)
  IN Upper(T, t, touched, [i \in Leading(T, t, touched) |->
                             PurgePmd(T, T[t][i].to, From(start, i, PUD), end)])

PurgePgd(T, t, start, end) ==
  LET touched == InRange(start, end, PGD)
  IN Upper(T, t, touched, [i \in Leading(T, t, touched) |->
                             PurgePud(T, T[t][i].to, From(start, i, PGD), end)])

\* Clears the entries and gives the tables back that they led to.
Cleared(T, cleared) ==
  LET given == {T[x[1]][x[2]].to : x \in {x \in cleared : IsTable(T[x[1]][x[2]])}}
  IN [t \in DOMAIN T \ given |->
        [i \in Entries |-> IF <<t, i>> \in cleared THEN Empty ELSE T[t][i]]]

PurgeMappingRange(T, top, start, end) == Cleared(T, PurgePgd(T, top, start, end).cleared)
-----------------------------------------------------------------------------
(* The kernel's part of a tree.                                            *)

\* install_os_pts: the kernel's memory in huge pages, and the one of the APIC.
InstallHuge(T, p, top, h) ==
  LET pud == Below([tables |-> T, at |-> top], p, h * FAN, PGD, FALSE)
      pmd == Below(pud, p, h * FAN, PUD, FALSE)
  IN [pmd.tables EXCEPT ![pmd.at][Index(h * FAN, PMD)] = ToHuge(h)]

OsPages == 0 .. OS_PT_MAPS - 1 \cup {APIC}

InstallOsPts(T, p, top) ==
  LET upTo[h \in 0 .. APIC + 1] ==
        IF h = 0 THEN T
        ELSE IF h - 1 \in OsPages THEN InstallHuge(upTo[h - 1], p, top, h - 1)
        ELSE upTo[h - 1]
  IN upTo[APIC + 1]

\* Mutant: one entry too many.
CopyOsPtsOneMore(T, src, dst) ==
  [T EXCEPT ![T[dst][0].to] =
     [i \in Entries |-> IF i <= OS_ENTRIES THEN T[T[src][0].to][i] ELSE @[i]]]

\* copy_os_pts: the child's PUD gets the parent's first entries, that is the
\* parent's tables and no copies of them.
CopyOsPts(T, src, dst) ==
  LET from == T[src][0].to
      to   == T[dst][0].to
  IN [T EXCEPT ![to] = [i \in Entries |-> IF i < OS_ENTRIES THEN T[from][i] ELSE @[i]]]
-----------------------------------------------------------------------------
Top(T, p) == NewTable(T, p, PGD, 0)
FirstPages == CodePages \cup {Min(DataPages), Max(StackPages)}

\* exec_init: data and stack, the kernel's tables, then the code.
Init ==
  LET top  == Top(<<>>, FirstProc)
      user == MapAll(WithTable(<<>>, top), FirstProc, top, {Min(DataPages), Max(StackPages)})
      os   == InstallOsPts(user, FirstProc, top)
  IN /\ table = MapAll(os, FirstProc, top, CodePages)
     /\ pgd = [p \in {FirstProc} |-> top]
     /\ mapped = [p \in Procs |-> IF p = FirstProc THEN FirstPages ELSE {}]

\* pgd has the processes that are alive.
Alive(p) == p \in DOMAIN pgd

\* A fault, a MAP_POPULATE or a copied page.
MapPage(p, v) ==
  /\ Alive(p)
  /\ table' = MapPhysicalPage(table, p, pgd[p], v)
  /\ mapped' = [mapped EXCEPT ![p] = @ \cup {v}]
  /\ UNCHANGED pgd

\* munmap of a range: the page at its end goes as well.
Purge(p, start, end) ==
  /\ Alive(p) /\ start < end
  /\ table' = PurgeMappingRange(table, pgd[p], start, end)
  /\ mapped' = [mapped EXCEPT ![p] = @ \ (start .. end)]
  /\ UNCHANGED pgd

\* get_user_pte: the entry that maps a page for the user, through tables that
\* are all open to the user, or an empty one.
Step(T, e, i) == IF IsTable(e) /\ e.user THEN T[e.to][i] ELSE Empty

GetUserPte(T, top, v) ==
  LET pud == T[top][Index(v, PGD)]
      pmd == Step(T, pud, Index(v, PUD))
      pte == Step(T, pmd, Index(v, PMD))
  IN Step(T, pte, Index(v, PTE))

\* invalidate_pte, for a shrinking data segment: the table stays even if it
\* is empty now.
TableOf(T, top, v) ==
  LET pud == T[top][Index(v, PGD)].to
      pmd == T[pud][Index(v, PUD)].to
  IN T[pmd][Index(v, PMD)].to

InvalidatePte(p, v) ==
  /\ Alive(p) /\ GetUserPte(table, pgd[p], v) # Empty
  /\ table' = [table EXCEPT ![TableOf(table, pgd[p], v)][Index(v, PTE)] = Empty]
  /\ mapped' = [mapped EXCEPT ![p] = @ \ {v}]
  /\ UNCHANGED pgd

\* fork and cfork: a tree for the child with the pages its parent has.
Inherited(p) == {v \in UserPages : GetUserPte(table, pgd[p], v) # Empty}

Fork(p, c) ==
  LET top  == Top(table, c)
      user == MapAll(WithTable(table, top), c, top, Inherited(p))
  IN /\ Alive(p) /\ ~ Alive(c)
     /\ table' = CopyOsPts(user, pgd[p], top)
     /\ pgd' = [q \in DOMAIN pgd \cup {c} |-> IF q = c THEN top ELSE pgd[q]]
     /\ mapped' = [mapped EXCEPT ![c] = mapped[p]]

\* do_exit: destroy_user_mappings and the page of the PGD.  The PUD keeps the
\* entries of the kernel, is never empty and stays behind.
Reach(T, ts) == ts \cup UNION {{T[t][i].to : i \in Leading(T, t, Entries)} : t \in ts}
Tree(T, top) == Reach(T, Reach(T, Reach(T, {top})))
Trees(T, tops) == UNION {Tree(T, tops[p]) : p \in DOMAIN tops}
Left(T, tops) == DOMAIN T \ Trees(T, tops)

Exit(p) ==
  LET purged == PurgeMappingRange(table, pgd[p], CODE_START, STACK_START)
  IN /\ Alive(p)
     /\ table' = Freed(purged, pgd[p])
     /\ pgd' = [q \in DOMAIN pgd \ {p} |-> pgd[q]]
     /\ mapped' = [mapped EXCEPT ![p] = {}]
     /\ Cardinality(Left(table', pgd')) <= MAX_LEFT

Next ==
  \E p \in Procs :
    \/ \E v \in DataPages \cup AreaPages : MapPage(p, v)
    \/ \E start, end \in PurgeBounds : Purge(p, start, end)
    \/ \E v \in DataPages : InvalidatePte(p, v)
    \/ \E c \in Procs : Fork(p, c)
    \/ Exit(p)

Spec == Init /\ [][Next]_vars
-----------------------------------------------------------------------------
(* What the tables owe the processes.                                      *)

\* The walk of a process through its tables finds exactly the pages that were
\* mapped for it and not purged since, whatever tables were built, shared and
\* given back meanwhile; and the kernel's memory and the APIC stay reachable
\* under every process, out of reach of the user (page.c:471-528, 352-428).
OsStep(T, e, i) == IF IsTable(e) THEN T[e.to][i] ELSE Empty

OsWalk(T, top, h) ==
  LET pud == T[top][Index(h * FAN, PGD)]
      pmd == OsStep(T, pud, Index(h * FAN, PUD))
  IN OsStep(T, pmd, Index(h * FAN, PMD))

WalkIsFlat ==
  \A p \in Procs : Alive(p) =>
    /\ \A v \in UserPages :
         GetUserPte(table, pgd[p], v) = IF v \in mapped[p] THEN ToPage(v) ELSE Empty
    /\ \A h \in OsPages : OsWalk(table, pgd[p], h) = ToHuge(h)
    /\ \A h \in OsPages : GetUserPte(table, pgd[p], h * FAN) = Empty

\* Processes share no table but those of the kernel, every table a process
\* can reach is allocated, and the tables that nobody reaches are the PUDs
\* that exits leave behind (page.c:284-309, entry.c:40-42).
OsTables == {t \in DOMAIN table : \E i \in Entries : IsHuge(table[t][i])}

TablesOwned ==
  /\ Trees(table, pgd) \subseteq DOMAIN table
  /\ \A p, q \in Procs : p # q /\ Alive(p) /\ Alive(q) =>
       Tree(table, pgd[p]) \cap Tree(table, pgd[q]) \subseteq OsTables
  /\ \A t \in Left(table, pgd) : t.level = PUD \/ t \in OsTables
=============================================================================
