------------------------- MODULE TraceeMemoryProofs -------------------------
(***************************************************************************)
(* The memory of the traced processes, for any number of them, segments    *)
(* and areas of any size: a buffer that the tracer's check lets pass is    *)
(* there or is brought in by a fault, a page that may be written without a *)
(* fault is nobody else's, and the areas of a list stay apart, whoever of  *)
(* the processes that share it edits it.                                   *)
(*                                                                         *)
(* The three come from one invariant of three parts: what the frames of a  *)
(* page are, how far the segments have grown, and what the lists are.      *)
(***************************************************************************)
EXTENDS TraceeMemory, FiniteSetTheorems, SequenceTheorems, WellFoundedInduction, TLAPS
-----------------------------------------------------------------------------
(* The invariant                                                           *)

Rights == {"none", "ro", "rw"}

Frames == [by : SUBSET Procs, w : SUBSET Procs, count : Int]

Mems == [frames : [Pages -> SUBSET Frames], upper : [Procs -> Rights]]

\* What a frame f of the page v is, if the processes A run: they map it, one that
\* may be written through is of one process, and from DATA on all are counted.
FrameOK(f, A, v) ==
  /\ f \in Frames /\ f.by # {} /\ f.by \subseteq A /\ f.w \subseteq f.by
  /\ \A p \in f.w : f.by = {p}
  /\ IF v < DATA_START THEN f.w = {} ELSE Cardinality(f.by) <= f.count

\* What the frames of the page v are: a process maps one of them at most.
PageOK(fs, A, v) ==
  /\ \A f \in fs : FrameOK(f, A, v)
  /\ \A f, g \in fs, p \in Procs : p \in f.by /\ p \in g.by => f = g

MemOK(m, A) == m \in Mems /\ \A v \in Pages : PageOK(m.frames[v], A, v)

Ends == [rodata : Int, data : Int, stack : Int]

\* How far a process's segments have grown.
EndsOK(e) ==
  /\ e \in Ends
  /\ RODATA_START <= e.rodata /\ e.rodata <= DATA_START
  /\ DATA_START <= e.data /\ e.data <= MMAP_START
  /\ STACK_LOW <= e.stack /\ e.stack <= STACK_START

\* A process has its code, and its stack from where it ends.
Lasting(m, p, e) ==
  \A v \in Pages : v < RODATA_START \/ e.stack <= v => Present(m, p, v)

Regions == [start : Int, end : Int, prot : SUBSET {"r", "w", "x"}]

\* A list of areas: they are in the region, not empty, in order and apart.
ListOK(l) ==
  /\ l \in Seq(Regions)
  /\ \A i \in 1 .. Len(l) :
       /\ MMAP_START <= l[i].start /\ l[i].start < l[i].end /\ l[i].end <= STACK_LOW
       /\ l[i].end <= GapEnd(l, i)

\* Who has a list with whom: the peers of a process are those of its peers.
PeersOK(P, L) ==
  \A p \in Procs :
    /\ p \in P[p]
    /\ \A q \in P[p] : P[q] = P[p] /\ L[q] = L[p]

\* What is so for every process.
EndsAre(F) == F \in [Procs -> Ends] /\ \A p \in Procs : EndsOK(F[p])
ListsAre(L) == L \in [Procs -> Seq(Regions)] /\ \A p \in Procs : ListOK(L[p])
PeersAre(P, L) == P \in [Procs -> SUBSET Procs] /\ PeersOK(P, L)
AllLast(m, A, F) == \A p \in A : Lasting(m, p, F[p])

\* The inductive invariant.
MemInv ==
  /\ alive \subseteq Procs
  /\ EndsAre(free)
  /\ ListsAre(areas) /\ PeersAre(peers, areas)
  /\ MemOK(mem, alive) /\ AllLast(mem, alive, free)

-----------------------------------------------------------------------------
(* The layout                                                              *)

\* The segments follow each other.
LEMMA Layout ==
  /\ RODATA_START \in Nat /\ DATA_START \in Nat /\ MMAP_START \in Nat
  /\ STACK_LOW \in Nat /\ STACK_START \in Nat
  /\ CODE_START = 0 /\ RODATA_START < DATA_START /\ DATA_START + 1 < MMAP_START
  /\ MMAP_START < STACK_LOW /\ STACK_LOW < STACK_START
BY SegmentAssumption
  DEF CODE_START, RODATA_START, DATA_START, MMAP_START, STACK_LOW, STACK_START

\* A page is in one segment, and the pages of each are where it is.
LEMMA PageFacts ==
  ASSUME NEW v \in Pages
  PROVE  /\ v \in Int /\ 0 <= v /\ v < STACK_START
         /\ v \in InRodata <=> RODATA_START <= v /\ v < DATA_START
         /\ v \in InData <=> DATA_START <= v /\ v < MMAP_START
         /\ v \in InMmap <=> MMAP_START <= v /\ v < STACK_LOW
         /\ v \in InStack <=> STACK_LOW <= v
<1>1. v \in 0 .. STACK_START - 1
  BY Layout DEF Pages
<1> QED BY <1>1, Layout DEF InRodata, InData, InMmap, InStack

-----------------------------------------------------------------------------
(* The frames of a page                                                    *)

\* Some processes are finitely many.
LEMMA CountFacts ==
  ASSUME NEW A \in SUBSET Procs
  PROVE  IsFiniteSet(A) /\ Cardinality(A) \in Nat
BY SegmentAssumption, FS_Subset, FS_CardinalityType

\* With one more, and with one less.
LEMMA CountChanges ==
  ASSUME NEW A \in SUBSET Procs, NEW p \in Procs
  PROVE  /\ Cardinality(A \cup {p}) <= Cardinality(A) + 1
         /\ Cardinality(A \ {p}) <= Cardinality(A)
         /\ p \in A => Cardinality(A \ {p}) = Cardinality(A) - 1
         /\ Cardinality({p}) = 1
<1>1. IsFiniteSet(A) /\ Cardinality(A) \in Nat
  BY CountFacts
<1>2. Cardinality(A \cup {p}) = IF p \in A THEN Cardinality(A) ELSE Cardinality(A) + 1
  BY <1>1, FS_AddElement
<1>3. Cardinality(A \ {p}) = IF p \in A THEN Cardinality(A) - 1 ELSE Cardinality(A)
  BY <1>1, FS_RemoveElement
<1>4. Cardinality({p}) = 1
  BY FS_Singleton
<1> QED BY <1>1, <1>2, <1>3, <1>4

\* A frame that one process may map at most.
LEMMA CountOne ==
  ASSUME NEW A \in SUBSET Procs, NEW p \in A, Cardinality(A) <= 1
  PROVE  A = {p}
<1>1. p \in Procs
  OBVIOUS
<1>2. Cardinality(A \ {p}) = Cardinality(A) - 1
  BY <1>1, CountChanges
<1>3. A \ {p} \in SUBSET Procs
  OBVIOUS
<1>4. IsFiniteSet(A \ {p}) /\ Cardinality(A \ {p}) \in Nat /\ Cardinality(A) \in Nat
  BY <1>3, CountFacts
<1>5. Cardinality(A \ {p}) = 0
  BY <1>2, <1>4
<1>6. A \ {p} = {}
  BY <1>4, <1>5, FS_EmptySet
<1> QED BY <1>6

\* A frame with other processes, writers or count.
LEMMA FrameIs ==
  ASSUME NEW f \in Frames, NEW x \in SUBSET Procs, NEW y \in SUBSET Procs, NEW n \in Int
  PROVE  /\ [f EXCEPT !.by = x, !.w = y] = [by |-> x, w |-> y, count |-> f.count]
         /\ [f EXCEPT !.w = y] = [by |-> f.by, w |-> y, count |-> f.count]
         /\ [f EXCEPT !.count = n] = [by |-> f.by, w |-> f.w, count |-> n]
         /\ f.by \in SUBSET Procs /\ f.w \in SUBSET Procs /\ f.count \in Int
<1>1. f.by \in SUBSET Procs /\ f.w \in SUBSET Procs /\ f.count \in Int
  BY DEF Frames
<1>2. [f EXCEPT !.by = x, !.w = y] = [by |-> x, w |-> y, count |-> f.count]
  <2> DEFINE g == [f EXCEPT !.by = x, !.w = y]
  <2>1. g \in Frames /\ g.by = x /\ g.w = y /\ g.count = f.count
    BY DEF Frames
  <2> HIDE DEF g
  <2>2. g = [by |-> x, w |-> y, count |-> f.count]
    BY <2>1 DEF Frames
  <2> QED BY <2>2 DEF g
<1>3. [f EXCEPT !.w = y] = [by |-> f.by, w |-> y, count |-> f.count]
  BY DEF Frames
<1>4. [f EXCEPT !.count = n] = [by |-> f.by, w |-> f.w, count |-> n]
  BY DEF Frames
<1> QED BY <1>1, <1>2, <1>3, <1>4

\* The process p maps a frame of the page.
Maps(fs, p) == \E f \in fs : p \in f.by

\* A frame with other processes and writers, and with another count.
Now(f, x, y, n) == [by |-> x, w |-> y, count |-> n]

LEMMA NowFacts ==
  ASSUME NEW f, NEW x \in SUBSET Procs, NEW y \in SUBSET Procs, NEW n \in Int
  PROVE  /\ Now(f, x, y, n) \in Frames
         /\ Now(f, x, y, n).by = x /\ Now(f, x, y, n).w = y /\ Now(f, x, y, n).count = n
BY DEF Now, Frames

LEMMA FrameWith ==
  ASSUME NEW f \in Frames, NEW x \in SUBSET Procs, NEW y \in SUBSET Procs, NEW n \in Int
  PROVE  [f EXCEPT !.by = x, !.w = y, !.count = n] = Now(f, x, y, n)
<1> DEFINE g == [f EXCEPT !.by = x, !.w = y, !.count = n]
<1>1. g \in Frames /\ g.by = x /\ g.w = y /\ g.count = n
  BY DEF Frames
<1> HIDE DEF g
<1>2. g = Now(f, x, y, n)
  BY <1>1 DEF Frames, Now
<1> QED BY <1>2 DEF g

\* A page is as good for more processes.
LEMMA PageMore ==
  ASSUME NEW fs, NEW A, NEW B, NEW v, PageOK(fs, A, v), A \subseteq B
  PROVE  PageOK(fs, B, v)
BY DEF PageOK, FrameOK

\* The frames of a page without p's entry.
Less(f, p) == Now(f, f.by \ {p}, f.w \ {p}, f.count)

LEMMA WithoutIs ==
  ASSUME NEW fs \in SUBSET Frames, NEW p \in Procs
  PROVE  /\ \A g \in Without(fs, p) : \E f \in fs : f.by # {p} /\ g = Less(f, p)
         /\ \A f \in fs : f.by # {p} => Less(f, p) \in Without(fs, p)
<1>1. ASSUME NEW f \in fs
      PROVE  [f EXCEPT !.by = f.by \ {p}, !.w = f.w \ {p}] = Less(f, p)
  <2>1. f \in Frames
    OBVIOUS
  <2>2. f.by \ {p} \in SUBSET Procs /\ f.w \ {p} \in SUBSET Procs /\ f.count \in Int
    BY <2>1 DEF Frames
  <2> QED BY <2>1, <2>2, FrameIs DEF Less, Now
<1>2. Without(fs, p) = {Less(f, p) : f \in {f \in fs : f.by # {p}}}
  BY <1>1 DEF Without
<1> QED BY <1>2

\* Taking p's entry out leaves what the others map, and nothing of p.
LEMMA WithoutFacts ==
  ASSUME NEW fs, NEW A \in SUBSET Procs, NEW v \in Int, PageOK(fs, A, v), NEW p \in Procs
  PROVE  /\ PageOK(Without(fs, p), A \ {p}, v)
         /\ \A q \in Procs : q # p /\ Maps(fs, q) => Maps(Without(fs, p), q)
<1>1. fs \in SUBSET Frames
  BY DEF PageOK, FrameOK
<1>2. ASSUME NEW f \in fs
      PROVE  /\ FrameOK(f, A, v)
             /\ f.by \in SUBSET Procs /\ f.w \in SUBSET Procs /\ f.count \in Int
             /\ Less(f, p).by = f.by \ {p} /\ Less(f, p).w = f.w \ {p}
             /\ Less(f, p).count = f.count /\ Less(f, p) \in Frames
  <2>1. FrameOK(f, A, v)
    BY DEF PageOK
  <2>2. f.by \in SUBSET Procs /\ f.w \in SUBSET Procs /\ f.count \in Int
    BY <2>1 DEF FrameOK, Frames
  <2>3. f.by \ {p} \in SUBSET Procs /\ f.w \ {p} \in SUBSET Procs
    BY <2>2
  <2> QED BY <2>1, <2>2, <2>3, NowFacts DEF Less
<1>3. ASSUME NEW f \in fs, f.by # {p}
      PROVE  FrameOK(Less(f, p), A \ {p}, v)
  <2> DEFINE g == Less(f, p)
  <2>1. g.by = f.by \ {p} /\ g.w = f.w \ {p} /\ g.count = f.count /\ g \in Frames
    BY <1>2
  <2> HIDE DEF g
  <2>2. f.by # {} /\ f.by \subseteq A /\ f.w \subseteq f.by /\ \A q \in f.w : f.by = {q}
    BY <1>2 DEF FrameOK
  <2>3. Cardinality(g.by) <= Cardinality(f.by)
    BY <1>2, <2>1, CountChanges
  <2>4. Cardinality(g.by) \in Nat /\ Cardinality(f.by) \in Nat
    <3>1. g.by \in SUBSET Procs
      BY <1>2, <2>1
    <3> QED BY <1>2, <3>1, CountFacts
  <2>5. IF v < DATA_START THEN g.w = {} ELSE Cardinality(g.by) <= g.count
    <3>1. CASE v < DATA_START
      BY <1>2, <2>1, <3>1 DEF FrameOK
    <3>2. CASE ~ v < DATA_START
      <4>1. Cardinality(f.by) <= f.count
        BY <1>2, <3>2 DEF FrameOK
      <4> QED BY <1>2, <2>1, <2>3, <2>4, <3>2, <4>1
    <3> QED BY <3>1, <3>2
  <2>6. g.by # {} /\ g.by \subseteq A \ {p} /\ g.w \subseteq g.by
    BY <1>3, <2>1, <2>2
  <2>7. \A q \in g.w : g.by = {q}
    BY <2>1, <2>2
  <2>8. FrameOK(g, A \ {p}, v)
    BY <2>1, <2>5, <2>6, <2>7 DEF FrameOK
  <2> QED BY <2>8 DEF g
<1>4. ASSUME NEW g \in Without(fs, p) PROVE FrameOK(g, A \ {p}, v)
  <2>1. PICK f \in fs : f.by # {p} /\ g = Less(f, p)
    BY <1>1, WithoutIs
  <2> QED BY <1>3, <2>1
<1>5. ASSUME NEW g \in Without(fs, p), NEW h \in Without(fs, p), NEW q \in Procs,
             q \in g.by, q \in h.by
      PROVE  g = h
  <2>1. PICK f \in fs : g = Less(f, p)
    BY <1>1, WithoutIs
  <2>2. PICK e \in fs : h = Less(e, p)
    BY <1>1, WithoutIs
  <2>3. q \in f.by /\ q \in e.by
    BY <1>2, <1>5, <2>1, <2>2
  <2>4. f = e
    BY <2>3 DEF PageOK
  <2> QED BY <2>1, <2>2, <2>4
<1>6. ASSUME NEW q \in Procs, q # p, Maps(fs, q)
      PROVE  Maps(Without(fs, p), q)
  <2>1. PICK f \in fs : q \in f.by
    BY <1>6 DEF Maps
  <2>2. f.by # {p}
    BY <1>6, <2>1
  <2>3. Less(f, p) \in Without(fs, p) /\ q \in Less(f, p).by
    BY <1>1, <1>2, <1>6, <2>1, <2>2, WithoutIs
  <2> QED BY <2>3 DEF Maps
<1> QED BY <1>4, <1>5, <1>6 DEF PageOK

\* A new frame, for a process that maps none of the page.
LEMMA FrameFacts ==
  ASSUME NEW fs, NEW A \in SUBSET Procs, NEW v \in Int, NEW p \in Procs, NEW w \in BOOLEAN,
         PageOK(fs, A \ {p}, v), v < DATA_START => ~ w
  PROVE  /\ PageOK(fs \cup {Frame(p, w)}, A \cup {p}, v)
         /\ Maps(fs \cup {Frame(p, w)}, p)
         /\ \A q \in Procs : Maps(fs, q) => Maps(fs \cup {Frame(p, w)}, q)
<1> DEFINE g == Frame(p, w)
<1>1. g \in Frames /\ g.by = {p} /\ g.w = (IF w THEN {p} ELSE {}) /\ g.count = 1
  BY DEF Frame, Frames
<1> HIDE DEF g
<1>2. Cardinality(g.by) = 1
  BY <1>1, FS_Singleton
<1>3. FrameOK(g, A \cup {p}, v)
  BY <1>1, <1>2 DEF FrameOK
<1>4. \A f \in fs : FrameOK(f, A \ {p}, v)
  BY DEF PageOK
<1>5. \A f \in fs : p \notin f.by /\ FrameOK(f, A \cup {p}, v)
  BY <1>4 DEF FrameOK
<1>6. \A f, h \in fs \cup {g}, q \in Procs : q \in f.by /\ q \in h.by => f = h
  BY <1>1, <1>5 DEF PageOK
<1>7. PageOK(fs \cup {g}, A \cup {p}, v)
  BY <1>3, <1>5, <1>6 DEF PageOK
<1>8. Maps(fs \cup {g}, p) /\ \A q \in Procs : Maps(fs, q) => Maps(fs \cup {g}, q)
  BY <1>1 DEF Maps
<1> QED BY <1>7, <1>8 DEF g

\* The frames of a page that p maps are c's too.
Inherited(fs, p, c, n, keep) ==
  {IF p \in f.by
   THEN [f EXCEPT !.by = @ \cup {c}, !.w = @ \cap keep, !.count = @ + n]
   ELSE f : f \in fs}

Heir(f, c, n, keep) == Now(f, f.by \cup {c}, f.w \cap keep, f.count + n)

\* Who inherits a page has it if the other has, and is one more of its
\* processes: none of them may write, or no one could.
LEMMA InheritedFacts ==
  ASSUME NEW fs, NEW A \in SUBSET Procs, NEW v \in Int, NEW p \in Procs, NEW c \in Procs,
         PageOK(fs, A, v), c \notin A, NEW n \in Int, NEW keep \in SUBSET Procs,
         v < DATA_START \/ (n = 1 /\ keep = {})
  PROVE  /\ PageOK(Inherited(fs, p, c, n, keep), A \cup {c}, v)
         /\ Maps(fs, p) => Maps(Inherited(fs, p, c, n, keep), c)
         /\ \A q \in Procs : Maps(fs, q) => Maps(Inherited(fs, p, c, n, keep), q)
<1> DEFINE New(f) == IF p \in f.by THEN Heir(f, c, n, keep) ELSE f
           I == Inherited(fs, p, c, n, keep)
<1>1. ASSUME NEW f \in fs
      PROVE  /\ FrameOK(f, A, v) /\ f \in Frames
             /\ f.by \in SUBSET Procs /\ f.w \in SUBSET Procs /\ f.count \in Int
             /\ [f EXCEPT !.by = f.by \cup {c}, !.w = f.w \cap keep, !.count = f.count + n]
                = Heir(f, c, n, keep)
             /\ Heir(f, c, n, keep) \in Frames
             /\ Heir(f, c, n, keep).by = f.by \cup {c}
             /\ Heir(f, c, n, keep).w = f.w \cap keep
             /\ Heir(f, c, n, keep).count = f.count + n
  <2>1. FrameOK(f, A, v)
    BY DEF PageOK
  <2>2. f \in Frames
    BY <2>1 DEF FrameOK
  <2>3. f.by \in SUBSET Procs /\ f.w \in SUBSET Procs /\ f.count \in Int
    BY <2>2 DEF Frames
  <2>4. f.by \cup {c} \in SUBSET Procs /\ f.w \cap keep \in SUBSET Procs /\ f.count + n \in Int
    BY <2>3
  <2>5. [f EXCEPT !.by = f.by \cup {c}, !.w = f.w \cap keep, !.count = f.count + n]
        = Heir(f, c, n, keep)
    <3> DEFINE x == f.by \cup {c}
               y == f.w \cap keep
               m == f.count + n
    <3>1. x \in SUBSET Procs /\ y \in SUBSET Procs /\ m \in Int
      BY <2>4
    <3> HIDE DEF x, y, m
    <3>2. [f EXCEPT !.by = x, !.w = y, !.count = m] = Now(f, x, y, m)
      BY <2>2, <3>1, FrameWith
    <3> QED BY <3>2 DEF Heir, x, y, m
  <2>6. /\ Heir(f, c, n, keep) \in Frames
        /\ Heir(f, c, n, keep).by = f.by \cup {c}
        /\ Heir(f, c, n, keep).w = f.w \cap keep
        /\ Heir(f, c, n, keep).count = f.count + n
    BY <2>4, NowFacts DEF Heir
  <2> QED BY <2>1, <2>2, <2>3, <2>5, <2>6
<1>2. I = {New(f) : f \in fs}
  BY <1>1 DEF Inherited
<1>3. ASSUME NEW f \in fs, p \in f.by
      PROVE  FrameOK(Heir(f, c, n, keep), A \cup {c}, v)
  <2> DEFINE g == Heir(f, c, n, keep)
  <2>1. g \in Frames /\ g.by = f.by \cup {c} /\ g.w = f.w \cap keep /\ g.count = f.count + n
    BY <1>1
  <2> HIDE DEF g
  <2>2. f.by # {} /\ f.by \subseteq A /\ f.w \subseteq f.by
    BY <1>1 DEF FrameOK
  <2>3. g.w = {}
    BY <1>1, <2>1 DEF FrameOK
  <2>4. IF v < DATA_START THEN g.w = {} ELSE Cardinality(g.by) <= g.count
    <3>1. CASE v < DATA_START
      BY <2>3, <3>1
    <3>2. CASE ~ v < DATA_START
      <4>1. Cardinality(f.by) <= f.count /\ n = 1
        BY <1>1, <3>2 DEF FrameOK
      <4>2. Cardinality(g.by) <= Cardinality(f.by) + 1
        BY <1>1, <2>1, CountChanges
      <4>3. Cardinality(f.by) \in Nat
        BY <1>1, CountFacts
      <4>4. g.by \in SUBSET Procs
        BY <1>1, <2>1
      <4>5. Cardinality(g.by) \in Nat
        BY <4>4, CountFacts
      <4>6. f.count \in Int /\ g.count = f.count + 1
        BY <1>1, <2>1, <4>1
      <4>7. Cardinality(g.by) <= g.count
        BY <4>1, <4>2, <4>3, <4>5, <4>6
      <4> QED BY <3>2, <4>7
    <3> QED BY <3>1, <3>2
  <2>5. FrameOK(g, A \cup {c}, v)
    BY <2>1, <2>2, <2>3, <2>4 DEF FrameOK
  <2> QED BY <2>5 DEF g
<1>4. ASSUME NEW f \in fs PROVE FrameOK(New(f), A \cup {c}, v)
  <2>1. FrameOK(f, A \cup {c}, v)
    BY <1>1 DEF FrameOK
  <2> QED BY <1>3, <2>1
<1>5. ASSUME NEW f \in fs, NEW e \in fs, NEW q \in Procs, q \in New(f).by, q \in New(e).by
      PROVE  f = e
  <2>1. c \notin f.by /\ c \notin e.by
    BY <1>1 DEF FrameOK
  <2>2. CASE q = c
    <3>1. p \in f.by /\ p \in e.by
      BY <1>5, <2>1, <2>2
    <3> QED BY <3>1 DEF PageOK
  <2>3. CASE q # c
    <3>1. New(f).by \subseteq f.by \cup {c} /\ New(e).by \subseteq e.by \cup {c}
      BY <1>1
    <3> HIDE DEF New
    <3>2. q \in f.by /\ q \in e.by
      BY <1>5, <2>3, <3>1
    <3> QED BY <3>2 DEF PageOK
  <2> QED BY <2>2, <2>3
<1>6. ASSUME NEW f \in fs PROVE f.by \subseteq New(f).by /\ (p \in f.by => c \in New(f).by)
  BY <1>1
<1> HIDE DEF New
<1>7. PageOK(I, A \cup {c}, v)
  <2>1. \A g \in I : FrameOK(g, A \cup {c}, v)
    BY <1>2, <1>4
  <2>2. ASSUME NEW g \in I, NEW h \in I, NEW q \in Procs, q \in g.by, q \in h.by
        PROVE  g = h
    <3>1. PICK f \in fs : g = New(f)
      BY <1>2
    <3>2. PICK e \in fs : h = New(e)
      BY <1>2
    <3> QED BY <1>5, <2>2, <3>1, <3>2
  <2> HIDE DEF I
  <2> QED BY <2>1, <2>2 DEF PageOK
<1>8. ASSUME NEW q \in Procs, Maps(fs, q) PROVE Maps(I, q)
  <2>1. PICK f \in fs : q \in f.by
    BY <1>8 DEF Maps
  <2>2. New(f) \in I /\ q \in New(f).by
    BY <1>2, <1>6, <2>1
  <2> HIDE DEF I
  <2> QED BY <2>2 DEF Maps
<1>9. ASSUME Maps(fs, p) PROVE Maps(I, c)
  <2>1. PICK f \in fs : p \in f.by
    BY <1>9 DEF Maps
  <2>2. New(f) \in I /\ c \in New(f).by
    BY <1>2, <1>6, <2>1
  <2> HIDE DEF I
  <2> QED BY <2>2 DEF Maps
<1> QED BY <1>7, <1>8, <1>9

\* The frames of a page after handle_cow_fault.
CopiedPage(fs, p) ==
  LET old  == CHOOSE f \in fs : p \in f.by
      rest == fs \ {old}
  IN IF old.count > 1
     THEN rest \cup Without({[old EXCEPT !.count = @ - 1]}, p) \cup {Frame(p, TRUE)}
     ELSE rest \cup {[old EXCEPT !.w = @ \cup {p}]}

\* A copy is p's own and takes p off the frame that was shared; a frame that
\* is counted once is mapped once, and is written in place.
LEMMA CopiedFacts ==
  ASSUME NEW fs, NEW A \in SUBSET Procs, NEW v \in Int, NEW p \in A,
         PageOK(fs, A, v), Maps(fs, p), ~ v < DATA_START
  PROVE  /\ PageOK(CopiedPage(fs, p), A, v)
         /\ \A q \in Procs : Maps(fs, q) => Maps(CopiedPage(fs, p), q)
<1> DEFINE old  == CHOOSE f \in fs : p \in f.by
           rest == fs \ {old}
<1>1. old \in fs /\ p \in old.by
  BY DEF Maps
<1> HIDE DEF old
<1>2. /\ FrameOK(old, A, v) /\ old \in Frames
      /\ old.by \in SUBSET Procs /\ old.w \in SUBSET Procs /\ old.count \in Int
  <2>1. FrameOK(old, A, v) /\ old \in Frames
    BY <1>1 DEF PageOK, FrameOK
  <2> QED BY <2>1 DEF Frames
<1>3. Cardinality(old.by) \in Nat /\ Cardinality(old.by) <= old.count
  BY <1>2, CountFacts DEF FrameOK
<1>4. /\ \A f \in rest : f \in fs /\ FrameOK(f, A, v) /\ p \notin f.by
      /\ \A f \in rest, q \in Procs : q \in f.by => q \notin old.by
  BY <1>1 DEF PageOK
<1>5. CASE old.count > 1
  <2> DEFINE less  == [old EXCEPT !.count = old.count - 1]
             after == rest \cup Without({less}, p)
  <2>1. less = Now(old, old.by, old.w, old.count - 1) /\ less \in Frames
        /\ less.by = old.by /\ less.w = old.w /\ less.count = old.count - 1
    <3>1. old.count - 1 \in Int
      BY <1>2
    <3>2. less = Now(old, old.by, old.w, old.count - 1)
      BY <1>2, <3>1, FrameIs DEF Now
    <3> HIDE DEF less
    <3> QED BY <1>2, <3>1, <3>2, NowFacts
  <2> HIDE DEF less
  <2>2. CopiedPage(fs, p) = after \cup {Frame(p, TRUE)}
    BY <1>5 DEF CopiedPage, old, less
  <2>3. /\ \A g \in Without({less}, p) : less.by # {p} /\ g = Less(less, p)
        /\ less.by # {p} => Less(less, p) \in Without({less}, p)
    <3>1. {less} \in SUBSET Frames
      BY <2>1
    <3> QED BY <3>1, WithoutIs
  <2>4. /\ Less(less, p) \in Frames /\ Less(less, p).by = old.by \ {p}
        /\ Less(less, p).w = old.w \ {p} /\ Less(less, p).count = old.count - 1
    <3>1. less.by \ {p} \in SUBSET Procs /\ less.w \ {p} \in SUBSET Procs /\ less.count \in Int
      BY <1>2, <2>1
    <3> QED BY <2>1, <3>1, NowFacts DEF Less
  <2>5. ASSUME old.by # {p} PROVE FrameOK(Less(less, p), A \ {p}, v)
    <3>1. old.by \subseteq A /\ old.w \subseteq old.by /\ \A q \in old.w : old.by = {q}
      BY <1>2 DEF FrameOK
    <3>2. Cardinality(old.by \ {p}) = Cardinality(old.by) - 1
      BY <1>1, <1>2, CountChanges
    <3>3. Cardinality(old.by \ {p}) <= old.count - 1
      BY <1>2, <1>3, <3>2
    <3>4. Less(less, p).by # {} /\ Less(less, p).by \subseteq A \ {p}
          /\ Less(less, p).w \subseteq Less(less, p).by
      BY <1>1, <2>4, <2>5, <3>1
    <3>5. \A q \in Less(less, p).w : Less(less, p).by = {q}
      BY <2>4, <3>1
    <3> QED BY <2>4, <3>3, <3>4, <3>5 DEF FrameOK
  <2>6. \A f \in rest : FrameOK(f, A \ {p}, v)
    BY <1>4 DEF FrameOK
  <2>7. ASSUME NEW f \in after, NEW g \in after, NEW q \in Procs, q \in f.by, q \in g.by
        PROVE  f = g
    <3>1. CASE f \in rest /\ g \in rest
      BY <1>4, <2>7, <3>1 DEF PageOK
    <3>2. CASE f \in Without({less}, p) /\ g \in Without({less}, p)
      BY <2>3, <3>2
    <3>3. CASE f \in rest /\ g \in Without({less}, p)
      <4>1. q \in old.by
        BY <2>3, <2>4, <2>7, <3>3
      <4> QED BY <1>4, <2>7, <3>3, <4>1
    <3>4. CASE g \in rest /\ f \in Without({less}, p)
      <4>1. q \in old.by
        BY <2>3, <2>4, <2>7, <3>4
      <4> QED BY <1>4, <2>7, <3>4, <4>1
    <3> QED BY <3>1, <3>2, <3>3, <3>4
  <2>8. PageOK(after, A \ {p}, v)
    <3>1. \A g \in after : FrameOK(g, A \ {p}, v)
      BY <2>1, <2>3, <2>5, <2>6
    <3> HIDE DEF after
    <3> QED BY <2>7, <3>1 DEF PageOK
  <2>9. PageOK(after \cup {Frame(p, TRUE)}, A \cup {p}, v)
        /\ Maps(after \cup {Frame(p, TRUE)}, p)
        /\ \A q \in Procs : Maps(after, q) => Maps(after \cup {Frame(p, TRUE)}, q)
    <3> HIDE DEF after
    <3> QED BY <2>8, FrameFacts
  <2>10. ASSUME NEW q \in Procs, q # p, Maps(fs, q) PROVE Maps(after, q)
    <3>1. PICK f \in fs : q \in f.by
      BY <2>10 DEF Maps
    <3>2. CASE f # old
      BY <3>1, <3>2 DEF Maps
    <3>3. CASE f = old
      <4>1. old.by # {p} /\ q \in Less(less, p).by
        BY <2>4, <2>10, <3>1, <3>3
      <4>2. Less(less, p) \in after
        BY <2>1, <2>3, <4>1
      <4> QED BY <4>1, <4>2 DEF Maps
    <3> QED BY <3>2, <3>3
  <2>11. A \cup {p} = A
    OBVIOUS
  <2> QED BY <2>2, <2>9, <2>10, <2>11
<1>6. CASE ~ old.count > 1
  <2> DEFINE own == [old EXCEPT !.w = old.w \cup {p}]
  <2>1. own \in Frames /\ own.by = old.by /\ own.w = old.w \cup {p} /\ own.count = old.count
    <3>1. old.w \cup {p} \in SUBSET Procs
      BY <1>2
    <3>2. own = Now(old, old.by, old.w \cup {p}, old.count)
      BY <1>2, <3>1, FrameIs DEF Now
    <3> HIDE DEF own
    <3> QED BY <1>2, <3>1, <3>2, NowFacts
  <2> HIDE DEF own
  <2>2. CopiedPage(fs, p) = rest \cup {own}
    BY <1>6 DEF CopiedPage, old, own
  <2>3. old.by = {p}
    <3>1. Cardinality(old.by) <= 1
      BY <1>2, <1>3, <1>6
    <3> QED BY <1>1, <1>2, <3>1, CountOne
  <2>4. FrameOK(own, A, v)
    BY <1>2, <1>3, <2>1, <2>3 DEF FrameOK
  <2>5. PageOK(rest \cup {own}, A, v)
    BY <1>4, <2>1, <2>4 DEF PageOK
  <2>6. \A q \in Procs : Maps(fs, q) => Maps(rest \cup {own}, q)
    BY <2>1 DEF Maps
  <2> QED BY <2>2, <2>5, <2>6
<1> QED BY <1>5, <1>6

-----------------------------------------------------------------------------
(* The memory                                                              *)

LEMMA MemIs ==
  ASSUME NEW m \in Mems
  PROVE  /\ m = [frames |-> m.frames, upper |-> m.upper]
         /\ m.frames \in [Pages -> SUBSET Frames] /\ m.upper \in [Procs -> Rights]
         /\ \A v \in Pages : m.frames[v] \in SUBSET Frames
BY DEF Mems

LEMMA MemFrom ==
  ASSUME NEW F \in [Pages -> SUBSET Frames], NEW U \in [Procs -> Rights]
  PROVE  /\ [frames |-> F, upper |-> U] \in Mems
         /\ [frames |-> F, upper |-> U].frames = F
BY DEF Mems

LEMMA PresentIs ==
  ASSUME NEW m, NEW p, NEW v
  PROVE  Present(m, p, v) <=> Maps(m.frames[v], p)
BY DEF Present, FrameOf, Maps

LEMMA UpperFacts ==
  ASSUME NEW m \in Mems, NEW p \in Procs, NEW vs, NEW rights \in Rights
  PROVE  Upper(m, p, vs, rights) \in [Procs -> Rights]
<1>1. m.upper \in [Procs -> Rights]
  BY MemIs
<1>2. [m.upper EXCEPT ![p] = rights] \in [Procs -> Rights]
  BY <1>1
<1> QED BY <1>1, <1>2 DEF Upper

LEMMA WithoutType ==
  ASSUME NEW fs \in SUBSET Frames, NEW p \in Procs
  PROVE  Without(fs, p) \in SUBSET Frames
<1> SUFFICES ASSUME NEW g \in Without(fs, p) PROVE g \in Frames
  OBVIOUS
<1>1. PICK f \in fs : g = Less(f, p)
  BY WithoutIs
<1>2. f.by \ {p} \in SUBSET Procs /\ f.w \ {p} \in SUBSET Procs /\ f.count \in Int
  BY DEF Frames
<1>3. Less(f, p) \in Frames
  BY <1>2, NowFacts DEF Less
<1> QED BY <1>1, <1>3

\* What each change of the memory leaves in a page.
LEMMA InstallIs ==
  ASSUME NEW m \in Mems, NEW p \in Procs, NEW vs, NEW w, NEW rights \in Rights
  PROVE  /\ Install(m, p, vs, w, rights) \in Mems
         /\ \A v \in Pages :
              Install(m, p, vs, w, rights).frames[v] =
                IF v \in vs THEN Without(m.frames[v], p) \cup {Frame(p, w)} ELSE m.frames[v]
<1> DEFINE e(v) == IF v \in vs THEN Without(m.frames[v], p) \cup {Frame(p, w)} ELSE m.frames[v]
           F == [v \in Pages |-> e(v)]
           U == Upper(m, p, vs, rights)
<1>1. Frame(p, w) \in Frames
  BY DEF Frame, Frames
<1>2. ASSUME NEW v \in Pages PROVE e(v) \in SUBSET Frames
  <2>1. m.frames[v] \in SUBSET Frames
    BY MemIs
  <2>2. Without(m.frames[v], p) \in SUBSET Frames
    BY <2>1, WithoutType
  <2> QED BY <1>1, <2>1, <2>2
<1>3. Install(m, p, vs, w, rights) = [frames |-> F, upper |-> U]
  BY DEF Install
<1> HIDE DEF e
<1>4. F \in [Pages -> SUBSET Frames] /\ \A v \in Pages : F[v] = e(v)
  BY <1>2
<1>5. U \in [Procs -> Rights]
  BY UpperFacts
<1> HIDE DEF F, U
<1>6. /\ Install(m, p, vs, w, rights) \in Mems
      /\ \A v \in Pages : Install(m, p, vs, w, rights).frames[v] = e(v)
  BY <1>3, <1>4, <1>5, MemFrom
<1> QED BY <1>6 DEF e

LEMMA UnmapIs ==
  ASSUME NEW m \in Mems, NEW p \in Procs, NEW vs
  PROVE  /\ Unmap(m, p, vs) \in Mems
         /\ \A v \in Pages :
              Unmap(m, p, vs).frames[v] =
                IF v \in vs THEN Without(m.frames[v], p) ELSE m.frames[v]
<1> DEFINE e(v) == IF v \in vs THEN Without(m.frames[v], p) ELSE m.frames[v]
           F == [v \in Pages |-> e(v)]
<1>1. ASSUME NEW v \in Pages PROVE e(v) \in SUBSET Frames
  <2>1. m.frames[v] \in SUBSET Frames
    BY MemIs
  <2>2. Without(m.frames[v], p) \in SUBSET Frames
    BY <2>1, WithoutType
  <2> QED BY <2>1, <2>2
<1>2. Unmap(m, p, vs) = [m EXCEPT !.frames = F]
  BY DEF Unmap
<1> HIDE DEF e
<1>3. F \in [Pages -> SUBSET Frames] /\ \A v \in Pages : F[v] = e(v)
  BY <1>1
<1> HIDE DEF F
<1>4. [m EXCEPT !.frames = F] = [frames |-> F, upper |-> m.upper] /\ m.upper \in [Procs -> Rights]
  BY DEF Mems
<1>5. /\ Unmap(m, p, vs) \in Mems
      /\ \A v \in Pages : Unmap(m, p, vs).frames[v] = e(v)
  BY <1>2, <1>3, <1>4, MemFrom
<1> QED BY <1>5 DEF e

LEMMA InheritedType ==
  ASSUME NEW fs \in SUBSET Frames, NEW p \in Procs, NEW c \in Procs, NEW n \in Int,
         NEW keep \in SUBSET Procs
  PROVE  Inherited(fs, p, c, n, keep) \in SUBSET Frames
<1>1. ASSUME NEW f \in fs
      PROVE  [f EXCEPT !.by = f.by \cup {c}, !.w = f.w \cap keep, !.count = f.count + n] \in Frames
  <2> DEFINE x == f.by \cup {c}
             y == f.w \cap keep
             k == f.count + n
  <2>1. x \in SUBSET Procs /\ y \in SUBSET Procs /\ k \in Int /\ f \in Frames
    BY DEF Frames
  <2> HIDE DEF x, y, k
  <2>2. [f EXCEPT !.by = x, !.w = y, !.count = k] = Now(f, x, y, k) /\ Now(f, x, y, k) \in Frames
    BY <2>1, FrameWith, NowFacts
  <2> QED BY <2>2 DEF x, y, k
<1> QED BY <1>1 DEF Inherited

LEMMA InheritIs ==
  ASSUME NEW m \in Mems, NEW p \in Procs, NEW c \in Procs, NEW vs, NEW n \in Int,
         NEW keep \in SUBSET Procs
  PROVE  /\ Inherit(m, p, c, vs, n, keep) \in Mems
         /\ \A v \in Pages :
              Inherit(m, p, c, vs, n, keep).frames[v] =
                IF v \in vs THEN Inherited(m.frames[v], p, c, n, keep) ELSE m.frames[v]
<1> DEFINE e(v) == IF v \in vs THEN Inherited(m.frames[v], p, c, n, keep) ELSE m.frames[v]
           F == [v \in Pages |-> e(v)]
           U == Upper(m, c, There(m, p, vs), "rw")
<1>1. ASSUME NEW v \in Pages PROVE e(v) \in SUBSET Frames
  <2>1. m.frames[v] \in SUBSET Frames
    BY MemIs
  <2>2. Inherited(m.frames[v], p, c, n, keep) \in SUBSET Frames
    BY <2>1, InheritedType
  <2> QED BY <2>1, <2>2
<1>2. Inherit(m, p, c, vs, n, keep) = [frames |-> F, upper |-> U]
  BY DEF Inherit, Inherited
<1> HIDE DEF e
<1>3. F \in [Pages -> SUBSET Frames] /\ \A v \in Pages : F[v] = e(v)
  BY <1>1
<1>4. U \in [Procs -> Rights]
  BY UpperFacts DEF Rights
<1> HIDE DEF F, U
<1>5. /\ Inherit(m, p, c, vs, n, keep) \in Mems
      /\ \A v \in Pages : Inherit(m, p, c, vs, n, keep).frames[v] = e(v)
  BY <1>2, <1>3, <1>4, MemFrom
<1> QED BY <1>5 DEF e

\* No process loses a page to another's new entries, and to nobody's copy.
Keeps(m, n) == \A v \in Pages, q \in Procs : Present(m, q, v) => Present(n, q, v)

LEMMA KeepsIf ==
  ASSUME NEW m, NEW n, \A v \in Pages, q \in Procs : Maps(m.frames[v], q) => Maps(n.frames[v], q)
  PROVE  Keeps(m, n)
BY PresentIs DEF Keeps

LEMMA InstallFacts ==
  ASSUME NEW m, NEW A \in SUBSET Procs, MemOK(m, A), NEW p \in Procs, NEW vs,
         NEW w \in BOOLEAN, NEW rights \in Rights,
         \A v \in vs : v \in Pages /\ v < DATA_START => ~ w,
         NEW i, i = Install(m, p, vs, w, rights)
  PROVE  /\ MemOK(i, A \cup {p}) /\ Keeps(m, i)
         /\ \A v \in Pages : v \in vs => Present(i, p, v)
<1>1. m \in Mems
  BY DEF MemOK
<1>2. /\ i \in Mems
      /\ \A v \in Pages : i.frames[v] = IF v \in vs THEN Without(m.frames[v], p) \cup {Frame(p, w)}
                                        ELSE m.frames[v]
  <2>1. /\ Install(m, p, vs, w, rights) \in Mems
        /\ \A v \in Pages :
             Install(m, p, vs, w, rights).frames[v] =
               IF v \in vs THEN Without(m.frames[v], p) \cup {Frame(p, w)} ELSE m.frames[v]
    BY <1>1, InstallIs
  <2> QED BY <2>1, Zenon
<1>3. ASSUME NEW v \in Pages
      PROVE  /\ PageOK(i.frames[v], A \cup {p}, v)
             /\ v \in vs => Maps(i.frames[v], p)
             /\ \A q \in Procs : Maps(m.frames[v], q) => Maps(i.frames[v], q)
  <2> DEFINE fs == m.frames[v]
  <2>1. PageOK(fs, A, v) /\ v \in Int
    BY PageFacts DEF MemOK
  <2> HIDE DEF fs
  <2>2. CASE v \in vs
    <3>1. i.frames[v] = Without(fs, p) \cup {Frame(p, w)}
      BY <1>2, <2>2 DEF fs
    <3>2. /\ PageOK(Without(fs, p), A \ {p}, v)
          /\ \A q \in Procs : q # p /\ Maps(fs, q) => Maps(Without(fs, p), q)
      BY <2>1, WithoutFacts
    <3>3. /\ PageOK(Without(fs, p) \cup {Frame(p, w)}, A \cup {p}, v)
          /\ Maps(Without(fs, p) \cup {Frame(p, w)}, p)
          /\ \A q \in Procs : Maps(Without(fs, p), q) => Maps(Without(fs, p) \cup {Frame(p, w)}, q)
      <4>1. v < DATA_START => ~ w
        BY <2>2
      <4> QED BY <2>1, <3>2, <4>1, FrameFacts
    <3>4. \A q \in Procs : Maps(fs, q) => Maps(i.frames[v], q)
      BY <3>1, <3>2, <3>3
    <3> QED BY <3>1, <3>3, <3>4 DEF fs
  <2>3. CASE v \notin vs
    <3>1. i.frames[v] = fs
      BY <1>2, <2>3 DEF fs
    <3>2. PageOK(fs, A \cup {p}, v)
      BY <2>1, PageMore
    <3> QED BY <2>3, <3>1, <3>2 DEF fs
  <2> QED BY <2>2, <2>3
<1>4. MemOK(i, A \cup {p})
  BY <1>2, <1>3 DEF MemOK
<1>5. Keeps(m, i)
  BY <1>3, KeepsIf
<1>6. \A v \in Pages : v \in vs => Present(i, p, v)
  BY <1>3, PresentIs
<1> QED BY <1>4, <1>5, <1>6

LEMMA UnmapFacts ==
  ASSUME NEW m, NEW A \in SUBSET Procs, MemOK(m, A), NEW p \in Procs, NEW vs,
         NEW u, u = Unmap(m, p, vs)
  PROVE  /\ MemOK(u, A)
         /\ Pages \subseteq vs => MemOK(u, A \ {p})
         /\ \A v \in Pages, q \in Procs :
              Present(m, q, v) /\ (q # p \/ v \notin vs) => Present(u, q, v)
<1>1. m \in Mems
  BY DEF MemOK
<1>2. /\ u \in Mems
      /\ \A v \in Pages : u.frames[v] = IF v \in vs THEN Without(m.frames[v], p) ELSE m.frames[v]
  BY <1>1, UnmapIs
<1>3. ASSUME NEW v \in Pages
      PROVE  /\ PageOK(u.frames[v], A, v)
             /\ v \in vs => PageOK(u.frames[v], A \ {p}, v)
             /\ \A q \in Procs : Maps(m.frames[v], q) /\ (q # p \/ v \notin vs) => Maps(u.frames[v], q)
  <2> DEFINE fs == m.frames[v]
  <2>1. PageOK(fs, A, v) /\ v \in Int
    BY PageFacts DEF MemOK
  <2> HIDE DEF fs
  <2>2. CASE v \in vs
    <3>1. u.frames[v] = Without(fs, p)
      BY <1>2, <2>2 DEF fs
    <3>2. /\ PageOK(Without(fs, p), A \ {p}, v)
          /\ \A q \in Procs : q # p /\ Maps(fs, q) => Maps(Without(fs, p), q)
      BY <2>1, WithoutFacts
    <3>3. PageOK(Without(fs, p), A, v)
      BY <3>2, PageMore
    <3> QED BY <2>2, <3>1, <3>2, <3>3 DEF fs
  <2>3. CASE v \notin vs
    <3>1. u.frames[v] = fs
      BY <1>2, <2>3 DEF fs
    <3> QED BY <2>1, <2>3, <3>1 DEF fs
  <2> QED BY <2>2, <2>3
<1>4. MemOK(u, A)
  BY <1>2, <1>3 DEF MemOK
<1>5. Pages \subseteq vs => MemOK(u, A \ {p})
  BY <1>2, <1>3 DEF MemOK
<1>6. \A v \in Pages, q \in Procs :
        Present(m, q, v) /\ (q # p \/ v \notin vs) => Present(u, q, v)
  BY <1>3, PresentIs
<1> QED BY <1>4, <1>5, <1>6

\* do_exit gives everything up.
LEMMA ExitFacts ==
  ASSUME NEW m, NEW A \in SUBSET Procs, MemOK(m, A), NEW p \in Procs,
         NEW u, u = [Unmap(m, p, Pages) EXCEPT !.upper[p] = "none"]
  PROVE  /\ MemOK(u, A \ {p})
         /\ \A v \in Pages, q \in Procs : Present(m, q, v) /\ q # p => Present(u, q, v)
<1> DEFINE n == Unmap(m, p, Pages)
<1>1. /\ MemOK(n, A \ {p})
      /\ \A v \in Pages, q \in Procs : Present(m, q, v) /\ q # p => Present(n, q, v)
  <2> HIDE DEF n
  <2>1. n = Unmap(m, p, Pages)
    BY DEF n
  <2> QED BY <2>1, UnmapFacts
<1>2. u = [n EXCEPT !.upper[p] = "none"]
  OBVIOUS
<1> HIDE DEF n
<1>3. n \in Mems
  BY <1>1 DEF MemOK
<1>4. u \in Mems /\ u.frames = n.frames
  <2> DEFINE U == [n.upper EXCEPT ![p] = "none"]
  <2>1. n.frames \in [Pages -> SUBSET Frames] /\ n.upper \in [Procs -> Rights]
    BY <1>3, MemIs
  <2>2. U \in [Procs -> Rights]
    BY <2>1 DEF Rights
  <2>3. u = [n EXCEPT !.upper = U]
    BY <1>2
  <2> HIDE DEF U
  <2>4. [n EXCEPT !.upper = U] = [frames |-> n.frames, upper |-> U]
    BY <1>3 DEF Mems
  <2>5. /\ [frames |-> n.frames, upper |-> U] \in Mems
        /\ [frames |-> n.frames, upper |-> U].frames = n.frames
    BY <2>1, <2>2, MemFrom
  <2> QED BY <2>3, <2>4, <2>5, Zenon
<1>5. MemOK(u, A \ {p})
  BY <1>1, <1>4 DEF MemOK
<1>6. \A v \in Pages, q \in Procs : Present(n, q, v) => Present(u, q, v)
  BY <1>4, PresentIs
<1> QED BY <1>1, <1>5, <1>6

\* handle_cow_fault.
LEMMA CopiedMemFacts ==
  ASSUME NEW m, NEW A \in SUBSET Procs, MemOK(m, A), NEW p \in A, NEW v \in Pages,
         Present(m, p, v), ~ v < DATA_START, NEW n, n = Copied(m, p, v)
  PROVE  MemOK(n, A) /\ Keeps(m, n)
<1> DEFINE fs == CopiedPage(m.frames[v], p)
           F  == [m.frames EXCEPT ![v] = fs]
<1>1. m \in Mems /\ v \in Int
  BY PageFacts DEF MemOK
<1>2. PageOK(m.frames[v], A, v) /\ Maps(m.frames[v], p)
  BY PresentIs DEF MemOK
<1>3. PageOK(fs, A, v) /\ \A q \in Procs : Maps(m.frames[v], q) => Maps(fs, q)
  BY <1>1, <1>2, CopiedFacts
<1>4. n = [m EXCEPT !.frames[v] = fs]
  BY DEF Copied, CopiedPage
<1> HIDE DEF fs
<1>5. fs \in SUBSET Frames
  BY <1>3 DEF PageOK, FrameOK
<1>6. n = [m EXCEPT !.frames = F]
  BY <1>4
<1>7. /\ m.frames \in [Pages -> SUBSET Frames] /\ m.upper \in [Procs -> Rights]
      /\ m = [frames |-> m.frames, upper |-> m.upper]
  BY <1>1, MemIs
<1>8. F \in [Pages -> SUBSET Frames] /\ F[v] = fs /\ \A u \in Pages \ {v} : F[u] = m.frames[u]
  BY <1>5, <1>7
<1> HIDE DEF F
<1>9. [m EXCEPT !.frames = F] = [frames |-> F, upper |-> m.upper]
  BY <1>1 DEF Mems
<1>10. n \in Mems /\ n.frames = F
  BY <1>6, <1>7, <1>8, <1>9, MemFrom
<1>11. \A u \in Pages : PageOK(n.frames[u], A, u)
  BY <1>3, <1>8, <1>10 DEF MemOK
<1>12. \A u \in Pages, q \in Procs : Maps(m.frames[u], q) => Maps(n.frames[u], q)
  BY <1>3, <1>8, <1>10
<1> QED BY <1>10, <1>11, <1>12, KeepsIf DEF MemOK

\* The memory of a process that was loaded.
LEMMA LoadedFacts ==
  ASSUME NEW p \in Procs
  PROVE  MemOK(Loaded(p), {p}) /\ Lasting(Loaded(p), p, Fresh)
<1> DEFINE code == CODE_START .. RODATA_START - 1
           one == MapAll(Blank, p, code, FALSE)
           two == {DATA_START, STACK_START - 1}
<1>1. Blank \in Mems /\ \A v \in Pages : Blank.frames[v] = {}
  <2> DEFINE F == [v \in Pages |-> {}]
             U == [q \in Procs |-> "none"]
  <2>1. F \in [Pages -> SUBSET Frames] /\ U \in [Procs -> Rights]
        /\ \A v \in Pages : F[v] = {}
    BY DEF Rights
  <2>2. Blank = [frames |-> F, upper |-> U]
    BY DEF Blank
  <2> HIDE DEF F, U
  <2> QED BY <2>1, <2>2, MemFrom
<1>2. MemOK(Blank, {})
  BY <1>1 DEF MemOK, PageOK
<1>3. one = Install(Blank, p, code, FALSE, "rw") /\ Loaded(p) = Install(one, p, two, TRUE, "rw")
  BY DEF Loaded, MapAll
<1>4. "rw" \in Rights
  BY DEF Rights
<1> HIDE DEF one, two, code
<1>5. MemOK(one, {} \cup {p}) /\ \A v \in Pages : v \in code => Present(one, p, v)
  <2>1. \A v \in code : v \in Pages /\ v < DATA_START => ~ FALSE
    OBVIOUS
  <2> HIDE DEF one
  <2>2. {} \in SUBSET Procs /\ FALSE \in BOOLEAN
    OBVIOUS
  <2> QED BY <1>2, <1>3, <1>4, <2>1, <2>2, InstallFacts
<1>6. {} \cup {p} = {p} /\ {p} \cup {p} = {p}
  OBVIOUS
<1>7. \A v \in two : v \in Pages /\ v < DATA_START => ~ TRUE
  BY Layout DEF two
<1>8. /\ MemOK(Loaded(p), {p} \cup {p}) /\ Keeps(one, Loaded(p))
      /\ \A v \in Pages : v \in two => Present(Loaded(p), p, v)
  BY <1>3, <1>4, <1>5, <1>6, <1>7, InstallFacts
<1>9. \A v \in Pages : v < RODATA_START => v \in code
  BY Layout, PageFacts DEF code
<1>10. \A v \in Pages : STACK_START - 1 <= v => v \in two
  BY Layout, PageFacts DEF two
<1>11. Fresh.stack = STACK_START - 1
  BY DEF Fresh
<1>12. Lasting(Loaded(p), p, Fresh)
  BY <1>5, <1>8, <1>9, <1>10, <1>11 DEF Lasting, Keeps
<1> QED BY <1>6, <1>8, <1>12

-----------------------------------------------------------------------------
(* fork and cfork                                                          *)

\* New entries that may be written through.
OwnFrame(p) == Frame(p, TRUE)

MapOwn(m, p, vs) == MapAll(m, p, vs, TRUE)

\* What the frames fs of a page of p may become when p gets the child c: they
\* are shared, uncounted or counted, or c gets one of its own, or none.
Child(fs, gs, p, c, v) ==
  \/ gs = fs
  \/ v < DATA_START /\ gs = Inherited(fs, p, c, 0, Procs)
  \/ gs = Inherited(fs, p, c, 1, {})
  \/ ~ v < DATA_START /\ gs = Without(fs, c) \cup {OwnFrame(c)}

LEMMA ChildPage ==
  ASSUME NEW fs, NEW gs, NEW A \in SUBSET Procs, NEW v \in Int, NEW p \in Procs, NEW c \in Procs,
         PageOK(fs, A, v), c \notin A, Child(fs, gs, p, c, v)
  PROVE  /\ PageOK(gs, A \cup {c}, v)
         /\ \A q \in Procs : Maps(fs, q) => Maps(gs, q)
<1>1. CASE gs = fs
  BY <1>1, PageMore
<1>2. CASE v < DATA_START /\ gs = Inherited(fs, p, c, 0, Procs)
  <2>1. Procs \in SUBSET Procs /\ 0 \in Int
    OBVIOUS
  <2>2. /\ PageOK(Inherited(fs, p, c, 0, Procs), A \cup {c}, v)
        /\ \A q \in Procs : Maps(fs, q) => Maps(Inherited(fs, p, c, 0, Procs), q)
    BY <1>2, <2>1, InheritedFacts
  <2> QED BY <1>2, <2>2
<1>3. CASE gs = Inherited(fs, p, c, 1, {})
  <2>1. {} \in SUBSET Procs /\ 1 \in Int
    OBVIOUS
  <2>2. /\ PageOK(Inherited(fs, p, c, 1, {}), A \cup {c}, v)
        /\ \A q \in Procs : Maps(fs, q) => Maps(Inherited(fs, p, c, 1, {}), q)
    BY <2>1, InheritedFacts
  <2> QED BY <1>3, <2>2
<1>4. CASE ~ v < DATA_START /\ gs = Without(fs, c) \cup {OwnFrame(c)}
  <2>1. /\ PageOK(Without(fs, c), A \ {c}, v)
        /\ \A q \in Procs : q # c /\ Maps(fs, q) => Maps(Without(fs, c), q)
    BY WithoutFacts
  <2>2. /\ PageOK(Without(fs, c) \cup {OwnFrame(c)}, A \cup {c}, v)
        /\ Maps(Without(fs, c) \cup {OwnFrame(c)}, c)
        /\ \A q \in Procs : Maps(Without(fs, c), q) => Maps(Without(fs, c) \cup {OwnFrame(c)}, q)
    BY <1>4, <2>1, FrameFacts DEF OwnFrame
  <2> QED BY <1>4, <2>1, <2>2
<1> QED BY <1>1, <1>2, <1>3, <1>4 DEF Child

\* What becomes of the memory: the code is shared, and of the stack, from where
\* it ends, the child gets pages of its own.
Grown(m, n, p, c, e) ==
  \A v \in Pages :
    /\ Child(m.frames[v], n.frames[v], p, c, v)
    /\ v < RODATA_START => n.frames[v] = Inherited(m.frames[v], p, c, 0, Procs)
    /\ e.stack <= v => n.frames[v] = Without(m.frames[v], c) \cup {OwnFrame(c)}

LEMMA ChildMem ==
  ASSUME NEW m, NEW n, NEW A \in SUBSET Procs, NEW p \in A, NEW c \in Procs \ A,
         MemOK(m, A), n \in Mems, NEW e, Lasting(m, p, e),
         Grown(m, n, p, c, e)
  PROVE  MemOK(n, A \cup {c}) /\ Keeps(m, n) /\ Lasting(n, c, e)
<1>1. ASSUME NEW v \in Pages
      PROVE  /\ PageOK(m.frames[v], A, v) /\ v \in Int
             /\ PageOK(n.frames[v], A \cup {c}, v)
             /\ \A q \in Procs : Maps(m.frames[v], q) => Maps(n.frames[v], q)
  <2>1. PageOK(m.frames[v], A, v) /\ v \in Int
    BY PageFacts DEF MemOK
  <2>2. Child(m.frames[v], n.frames[v], p, c, v)
    BY DEF Grown
  <2> QED BY <2>1, <2>2, ChildPage
<1>2. MemOK(n, A \cup {c}) /\ Keeps(m, n)
  BY <1>1, KeepsIf DEF MemOK
<1>3. ASSUME NEW v \in Pages, v < RODATA_START PROVE Maps(n.frames[v], c)
  <2>1. Maps(m.frames[v], p)
    BY <1>3, PresentIs DEF Lasting
  <2>2. v < DATA_START
    BY <1>1, <1>3, Layout
  <2>3. Procs \in SUBSET Procs /\ 0 \in Int
    OBVIOUS
  <2>4. Maps(Inherited(m.frames[v], p, c, 0, Procs), c)
    BY <1>1, <2>1, <2>2, <2>3, InheritedFacts
  <2> QED BY <1>3, <2>4 DEF Grown
<1>4. ASSUME NEW v \in Pages, e.stack <= v PROVE Maps(n.frames[v], c)
  <2>1. OwnFrame(c) \in n.frames[v] /\ c \in OwnFrame(c).by
    BY <1>4 DEF Grown, OwnFrame, Frame
  <2> QED BY <2>1 DEF Maps
<1> QED BY <1>2, <1>3, <1>4, PresentIs DEF Lasting

\* Where the parts of a process's memory lie.
LEMMA PartFacts ==
  ASSUME NEW p \in Procs, EndsOK(free[p]), NEW v \in Pages
  PROVE  /\ v \in CodeAndRodata(p) => v < DATA_START
         /\ v < RODATA_START => v \in CodeAndRodata(p)
         /\ v \in DataOf(p) => DATA_START <= v /\ v < MMAP_START
         /\ v \in AreasOf(p) => MMAP_START <= v /\ v < STACK_LOW
         /\ v \in StackOf(p) <=> free[p].stack <= v
         /\ free[p].stack <= v => STACK_LOW <= v
         /\ free[p].stack \in Int
<1>1. /\ free[p].rodata \in Int /\ free[p].data \in Int /\ free[p].stack \in Int
      /\ free[p].rodata <= DATA_START /\ free[p].data <= MMAP_START /\ STACK_LOW <= free[p].stack
  BY DEF EndsOK, Ends
<1>2. v \in Int /\ 0 <= v /\ v < STACK_START
  BY PageFacts
<1>3. v \in CodeAndRodata(p) => v < DATA_START
  BY <1>1, <1>2, Layout DEF CodeAndRodata
<1>4. v < RODATA_START => v \in CodeAndRodata(p)
  BY <1>1, <1>2, Layout DEF CodeAndRodata
<1>5. v \in DataOf(p) => DATA_START <= v /\ v < MMAP_START
  BY <1>1, <1>2, Layout DEF DataOf
<1>6. v \in AreasOf(p) => MMAP_START <= v /\ v < STACK_LOW
  BY PageFacts DEF AreasOf
<1>7. v \in StackOf(p) <=> free[p].stack <= v
  BY <1>1, <1>2, Layout DEF StackOf
<1>8. free[p].stack <= v => STACK_LOW <= v
  BY <1>1, <1>2, Layout
<1> QED BY <1>1, <1>3, <1>4, <1>5, <1>6, <1>7, <1>8

LEMMA ShareTextIs ==
  ASSUME NEW m \in Mems, NEW p \in Procs, NEW c \in Procs
  PROVE  /\ ShareText(m, p, c) \in Mems
         /\ \A v \in Pages :
              ShareText(m, p, c).frames[v] =
                IF v \in CodeAndRodata(p) THEN Inherited(m.frames[v], p, c, 0, Procs)
                ELSE m.frames[v]
<1>1. Procs \in SUBSET Procs /\ 0 \in Int
  OBVIOUS
<1> QED BY <1>1, InheritIs DEF ShareText

LEMMA ShareIs ==
  ASSUME NEW m \in Mems, NEW p \in Procs, NEW c \in Procs, NEW vs
  PROVE  /\ Share(m, p, c, vs) \in Mems
         /\ \A v \in Pages :
              Share(m, p, c, vs).frames[v] =
                IF v \in vs THEN Inherited(m.frames[v], p, c, 1, {}) ELSE m.frames[v]
<1>1. {} \in SUBSET Procs /\ 1 \in Int
  OBVIOUS
<1> QED BY <1>1, InheritIs DEF Share

OwnIn(m, n, p, vs) ==
  \A v \in Pages :
    n.frames[v] = IF v \in vs THEN Without(m.frames[v], p) \cup {OwnFrame(p)} ELSE m.frames[v]

LEMMA MapOwnIs ==
  ASSUME NEW m \in Mems, NEW p \in Procs, NEW vs
  PROVE  MapOwn(m, p, vs) \in Mems /\ OwnIn(m, MapOwn(m, p, vs), p, vs)
<1> DEFINE yes == TRUE
<1> HIDE DEF yes
<1>1. /\ Install(m, p, vs, yes, "rw") \in Mems
      /\ \A v \in Pages :
           Install(m, p, vs, yes, "rw").frames[v] =
             IF v \in vs THEN Without(m.frames[v], p) \cup {Frame(p, yes)} ELSE m.frames[v]
  <2>1. "rw" \in Rights
    BY DEF Rights
  <2> QED BY <2>1, InstallIs
<1> QED BY <1>1, Zenon DEF MapOwn, MapAll, OwnFrame, OwnIn, yes

LEMMA CopyMmFacts ==
  ASSUME NEW m, NEW A \in SUBSET Procs, NEW p \in A, NEW c \in Procs \ A,
         MemOK(m, A), EndsOK(free[p]), Lasting(m, p, free[p]),
         NEW n, n = CopyMm(m, p, c)
  PROVE  MemOK(n, A \cup {c}) /\ Keeps(m, n) /\ Lasting(n, c, free[p])
<1> DEFINE t == ShareText(m, p, c)
           vs == There(m, p, DataOf(p) \cup StackOf(p))
<1>1. m \in Mems
  BY DEF MemOK
<1>2. /\ t \in Mems
      /\ \A v \in Pages : t.frames[v] = IF v \in CodeAndRodata(p)
                                        THEN Inherited(m.frames[v], p, c, 0, Procs) ELSE m.frames[v]
  BY <1>1, ShareTextIs
<1>3. n = MapOwn(t, c, vs)
  BY DEF CopyMm, MapOwn
<1> HIDE DEF t
<1>4. n \in Mems /\ OwnIn(t, n, c, vs)
  <2> HIDE DEF vs
  <2>1. t \in Mems /\ c \in Procs
    BY <1>2
  <2>2. MapOwn(t, c, vs) \in Mems /\ OwnIn(t, MapOwn(t, c, vs), c, vs)
    BY <2>1, MapOwnIs
  <2> QED BY <1>3, <2>2, Zenon
<1>5. ASSUME NEW v \in Pages
      PROVE  /\ v \in vs => (v \in DataOf(p) \/ v \in StackOf(p))
             /\ free[p].stack <= v => v \in vs
  BY PartFacts DEF There, Lasting
<1> HIDE DEF vs
<1>6. ASSUME NEW v \in Pages
      PROVE  /\ Child(m.frames[v], n.frames[v], p, c, v)
             /\ v < RODATA_START => n.frames[v] = Inherited(m.frames[v], p, c, 0, Procs)
             /\ free[p].stack <= v => n.frames[v] = Without(m.frames[v], c) \cup {OwnFrame(c)}
  <2>1. /\ v \in Int
        /\ v \in CodeAndRodata(p) => v < DATA_START
        /\ v < RODATA_START => v \in CodeAndRodata(p)
        /\ v \in vs => ~ v < DATA_START
        /\ free[p].stack <= v => v \in vs
    BY <1>5, PartFacts, PageFacts, Layout
  <2>2. CASE v \in vs
    <3>1. v \notin CodeAndRodata(p) /\ ~ v < RODATA_START /\ ~ v < DATA_START
      BY <2>1, <2>2, PartFacts
    <3>2. n.frames[v] = Without(m.frames[v], c) \cup {OwnFrame(c)}
      BY <1>2, <1>4, <2>2, <3>1 DEF OwnIn
    <3> QED BY <3>1, <3>2 DEF Child
  <2>3. CASE v \notin vs
    <3>1. n.frames[v] = t.frames[v] /\ ~ free[p].stack <= v
      BY <1>4, <2>1, <2>3 DEF OwnIn
    <3>2. CASE v \in CodeAndRodata(p)
      BY <1>2, <3>1, <3>2, PartFacts DEF Child
    <3>3. CASE v \notin CodeAndRodata(p)
      BY <1>2, <3>1, <3>3, PartFacts DEF Child
    <3> QED BY <3>2, <3>3
  <2> QED BY <2>2, <2>3
<1>7. Grown(m, n, p, c, free[p])
  BY <1>6 DEF Grown
<1> QED BY <1>4, <1>7, ChildMem

LEMMA CforkCopyMmFacts ==
  ASSUME NEW m, NEW A \in SUBSET Procs, NEW p \in A, NEW c \in Procs \ A,
         MemOK(m, A), EndsOK(free[p]), Lasting(m, p, free[p]),
         NEW n, n = CforkCopyMm(m, p, c)
  PROVE  MemOK(n, A \cup {c}) /\ Keeps(m, n) /\ Lasting(n, c, free[p])
<1> DEFINE t == ShareText(m, p, c)
           d == Share(t, p, c, DataOf(p))
           s == Share(d, p, c, AreasOf(p))
           vs == There(m, p, StackOf(p))
<1>1. m \in Mems
  BY DEF MemOK
<1>2. /\ t \in Mems
      /\ \A v \in Pages : t.frames[v] = IF v \in CodeAndRodata(p)
                                        THEN Inherited(m.frames[v], p, c, 0, Procs) ELSE m.frames[v]
  BY <1>1, ShareTextIs
<1> HIDE DEF t
<1>3. /\ d \in Mems
      /\ \A v \in Pages : d.frames[v] = IF v \in DataOf(p)
                                        THEN Inherited(t.frames[v], p, c, 1, {}) ELSE t.frames[v]
  BY <1>2, ShareIs
<1> HIDE DEF d
<1>4. /\ s \in Mems
      /\ \A v \in Pages : s.frames[v] = IF v \in AreasOf(p)
                                        THEN Inherited(d.frames[v], p, c, 1, {}) ELSE d.frames[v]
  BY <1>3, ShareIs
<1>5. n = MapOwn(s, c, vs)
  BY DEF CforkCopyMm, MapOwn, s, d, t
<1> HIDE DEF s
<1>6. n \in Mems /\ OwnIn(s, n, c, vs)
  <2> HIDE DEF vs
  <2>1. MapOwn(s, c, vs) \in Mems /\ OwnIn(s, MapOwn(s, c, vs), c, vs)
    BY <1>4, MapOwnIs
  <2> QED BY <1>5, <2>1, Zenon
<1>7. ASSUME NEW v \in Pages PROVE v \in vs <=> free[p].stack <= v
  BY PartFacts DEF There, Lasting
<1> HIDE DEF vs
<1>8. ASSUME NEW v \in Pages
      PROVE  /\ Child(m.frames[v], n.frames[v], p, c, v)
             /\ v < RODATA_START => n.frames[v] = Inherited(m.frames[v], p, c, 0, Procs)
             /\ free[p].stack <= v => n.frames[v] = Without(m.frames[v], c) \cup {OwnFrame(c)}
  <2>1. /\ v \in Int
        /\ v \in CodeAndRodata(p) => v < DATA_START
        /\ v < RODATA_START => v \in CodeAndRodata(p)
        /\ v \in DataOf(p) => DATA_START <= v /\ v < MMAP_START
        /\ v \in AreasOf(p) => MMAP_START <= v /\ v < STACK_LOW
        /\ v \in vs <=> free[p].stack <= v
        /\ v \in vs => STACK_LOW <= v
    BY <1>7, PartFacts, PageFacts
  <2>2. CASE v \in vs
    <3>1. /\ v \notin CodeAndRodata(p) /\ v \notin DataOf(p) /\ v \notin AreasOf(p)
          /\ ~ v < RODATA_START /\ ~ v < DATA_START
      BY <2>1, <2>2, Layout
    <3>2. n.frames[v] = Without(s.frames[v], c) \cup {OwnFrame(c)}
      BY <1>6, <2>2 DEF OwnIn
    <3>3. s.frames[v] = m.frames[v]
      BY <1>2, <1>3, <1>4, <3>1
    <3> QED BY <3>1, <3>2, <3>3 DEF Child
  <2>3. CASE v \notin vs
    <3>1. n.frames[v] = s.frames[v] /\ ~ free[p].stack <= v
      BY <1>6, <2>1, <2>3 DEF OwnIn
    <3>2. CASE v \in CodeAndRodata(p)
      <4>1. v \notin DataOf(p) /\ v \notin AreasOf(p) /\ v < DATA_START
        BY <2>1, <3>2, Layout
      <4>2. s.frames[v] = Inherited(m.frames[v], p, c, 0, Procs)
        BY <1>2, <1>3, <1>4, <3>2, <4>1
      <4> QED BY <3>1, <4>1, <4>2 DEF Child
    <3>3. CASE v \in DataOf(p)
      <4>1. v \notin CodeAndRodata(p) /\ v \notin AreasOf(p) /\ ~ v < RODATA_START
        BY <2>1, <3>3, Layout
      <4>2. s.frames[v] = Inherited(m.frames[v], p, c, 1, {})
        BY <1>2, <1>3, <1>4, <3>3, <4>1
      <4> QED BY <3>1, <4>1, <4>2 DEF Child
    <3>4. CASE v \in AreasOf(p)
      <4>1. v \notin CodeAndRodata(p) /\ v \notin DataOf(p) /\ ~ v < RODATA_START
        BY <2>1, <3>4, Layout
      <4>2. s.frames[v] = Inherited(m.frames[v], p, c, 1, {})
        BY <1>2, <1>3, <1>4, <3>4, <4>1
      <4> QED BY <3>1, <4>1, <4>2 DEF Child
    <3>5. CASE v \notin CodeAndRodata(p) /\ v \notin DataOf(p) /\ v \notin AreasOf(p)
      <4>1. s.frames[v] = m.frames[v]
        BY <1>2, <1>3, <1>4, <3>5
      <4> QED BY <2>1, <3>1, <3>5, <4>1 DEF Child
    <3> QED BY <3>2, <3>3, <3>4, <3>5
  <2> QED BY <2>2, <2>3
<1>9. Grown(m, n, p, c, free[p])
  BY <1>8 DEF Grown
<1> QED BY <1>6, <1>9, ChildMem

-----------------------------------------------------------------------------
(* Lists of areas                                                          *)

\* A set of numbers has a least one.
LEMMA Least ==
  ASSUME NEW T \in SUBSET Nat, T # {}
  PROVE  \E n \in T : \A m \in T : n <= m
<1>1. \A i, j \in Nat : i < j => <<i, j>> \in OpToRel(<, Nat)
  BY DEF OpToRel
<1>2. PICK R : IsWellFoundedOn(R, Nat) /\ \A i, j \in Nat : i < j => <<i, j>> \in R
  BY <1>1, NatLessThanWellFounded
<1>3. IsWellFoundedOn(R, Nat)
  BY <1>2
<1>4. T \subseteq Nat
  OBVIOUS
<1>5. \E x \in T : \A y \in T : ~ (<<y, x>> \in R)
  BY <1>3, <1>4, WFMin, Zenon
<1>6. PICK x \in T : \A y \in T : ~ (<<y, x>> \in R)
  BY <1>5
<1>7. ASSUME NEW y \in T PROVE x <= y
  <2>1. <<y, x>> \notin R /\ x \in Nat /\ y \in Nat
    BY <1>6
  <2>2. ~ (y < x)
    BY <2>1, <1>2
  <2> QED BY <2>1, <2>2
<1> QED BY <1>7

\* A list with one more, and with one less.
LEMMA InsertFacts ==
  ASSUME NEW S, NEW s \in Seq(S), NEW i \in 0..Len(s), NEW a \in S,
         NEW t, t = InsertAt(s, i + 1, a)
  PROVE  /\ t \in Seq(S)
         /\ Len(t) = Len(s) + 1
         /\ \A k \in 1..(Len(s) + 1) :
              t[k] = IF k <= i THEN s[k] ELSE IF k = i + 1 THEN a ELSE s[k - 1]
<1> DEFINE n == Len(s)
           m == i + 1
           low == SubSeq(s, 1, i)
           high == SubSeq(s, m, n)
           mid == <<a>>
<1>1. n \in Nat /\ i \in Nat /\ i <= n /\ m = i + 1 /\ m \in Int /\ n \in Int
  BY LenProperties
<1>2. (\A k \in 1..i : s[k] \in S) /\ (\A k \in m..n : s[k] \in S)
  BY <1>1, ElementOfSeq
<1>3. mid \in Seq(S) /\ Len(mid) = 1 /\ mid[1] = a
  OBVIOUS
<1>4. t = low \o mid \o high
  <2>1. m - 1 = i
    BY <1>1
  <2> QED BY <2>1 DEF InsertAt
<1> HIDE DEF n, m, mid
<1>5. /\ low \in Seq(S)
      /\ Len(low) = i
      /\ \A k \in 1..i : low[k] = s[k]
  BY <1>1, <1>2, SubSeqProperties
<1>6. /\ high \in Seq(S)
      /\ Len(high) = n - i
      /\ \A k \in 1..(n - i) : high[k] = s[i + k]
  <2>1. /\ high \in Seq(S)
        /\ Len(high) = IF m <= n THEN n - m + 1 ELSE 0
        /\ \A k \in 1..(n - m + 1) : high[k] = s[m + k - 1]
    BY <1>1, <1>2, SubSeqProperties
  <2> HIDE DEF high
  <2>2. Len(high) = n - i
    BY <1>1, <2>1
  <2>3. ASSUME NEW k \in 1..(n - i) PROVE high[k] = s[i + k]
    <3>1. k \in 1..(n - m + 1) /\ m + k - 1 = i + k
      BY <1>1
    <3>2. high[k] = s[m + k - 1]
      BY <2>1, <3>1
    <3> QED BY <3>1, <3>2
  <2> QED BY <2>1, <2>2, <2>3
<1> HIDE DEF low, high
<1> DEFINE u == low \o mid
<1>7. /\ u \in Seq(S) /\ Len(u) = i + 1
      /\ \A k \in 1..(i + 1) : u[k] = IF k <= i THEN low[k] ELSE mid[k - i]
  <2> HIDE DEF u
  <2>1. /\ u \in Seq(S) /\ Len(u) = Len(low) + Len(mid)
        /\ \A k \in 1..(Len(low) + Len(mid)) :
             u[k] = IF k <= Len(low) THEN low[k] ELSE mid[k - Len(low)]
    BY <1>3, <1>5, ConcatProperties DEF u
  <2> QED BY <1>3, <1>5, <2>1
<1> HIDE DEF u
<1>8. /\ t \in Seq(S) /\ Len(t) = n + 1
      /\ \A k \in 1..(n + 1) : t[k] = IF k <= i + 1 THEN u[k] ELSE high[k - (i + 1)]
  <2>1. t = u \o high
    BY <1>4 DEF u
  <2>2. /\ t \in Seq(S) /\ Len(t) = Len(u) + Len(high)
        /\ \A k \in 1..(Len(u) + Len(high)) :
             t[k] = IF k <= Len(u) THEN u[k] ELSE high[k - Len(u)]
    <3>1. u \in Seq(S) /\ high \in Seq(S)
      BY <1>6, <1>7
    <3>2. /\ u \o high \in Seq(S) /\ Len(u \o high) = Len(u) + Len(high)
          /\ \A k \in 1..(Len(u) + Len(high)) :
               (u \o high)[k] = IF k <= Len(u) THEN u[k] ELSE high[k - Len(u)]
      BY <3>1, ConcatProperties, Zenon
    <3> QED BY <2>1, <3>2, Zenon
  <2>3. Len(u) + Len(high) = n + 1
    BY <1>1, <1>6, <1>7
  <2> QED BY <1>7, <2>2, <2>3
<1>9. ASSUME NEW k \in 1..(n + 1)
      PROVE  t[k] = IF k <= i THEN s[k] ELSE IF k = i + 1 THEN a ELSE s[k - 1]
  <2>1. CASE k <= i
    BY <1>1, <1>5, <1>7, <1>8, <2>1
  <2>2. CASE k = i + 1
    <3>1. k - i = 1 /\ ~(k <= i)
      BY <1>1, <2>2
    <3> QED BY <1>1, <1>3, <1>7, <1>8, <2>2, <3>1
  <2>3. CASE k > i + 1
    <3>1. k - (i + 1) \in 1..(n - i) /\ i + (k - (i + 1)) = k - 1
      BY <1>1, <2>3
    <3>2. high[k - (i + 1)] = s[k - 1]
      BY <1>6, <3>1
    <3> QED BY <1>1, <1>8, <2>3, <3>2
  <2> QED BY <1>1, <2>1, <2>2, <2>3
<1> QED BY <1>8, <1>9 DEF n

LEMMA RemoveFacts ==
  ASSUME NEW S, NEW s \in Seq(S), NEW i \in 1..Len(s),
         NEW t, t = RemoveAt(s, i)
  PROVE  /\ t \in Seq(S)
         /\ Len(t) = Len(s) - 1
         /\ \A k \in 1..(Len(s) - 1) : t[k] = IF k < i THEN s[k] ELSE s[k + 1]
<1> DEFINE n == Len(s)
           l == i - 1
           m == i + 1
           low == SubSeq(s, 1, l)
           high == SubSeq(s, m, n)
<1>1. n \in Nat /\ i \in Nat /\ 1 <= i /\ i <= n /\ m = i + 1 /\ l = i - 1
      /\ l \in Int /\ m \in Int /\ n \in Int
  BY LenProperties
<1>2. (\A k \in 1..l : s[k] \in S) /\ (\A k \in m..n : s[k] \in S)
  BY <1>1, ElementOfSeq
<1>3. t = low \o high
  BY DEF RemoveAt
<1> HIDE DEF n, l, m
<1>4. /\ low \in Seq(S)
      /\ Len(low) = l
      /\ \A k \in 1..l : low[k] = s[k]
  <2>1. /\ low \in Seq(S)
        /\ Len(low) = IF 1 <= l THEN l - 1 + 1 ELSE 0
        /\ \A k \in 1..(l - 1 + 1) : low[k] = s[1 + k - 1]
    BY <1>1, <1>2, SubSeqProperties
  <2> HIDE DEF low
  <2> QED BY <1>1, <2>1
<1>5. /\ high \in Seq(S)
      /\ Len(high) = n - i
      /\ \A k \in 1..(n - i) : high[k] = s[i + k]
  <2>1. /\ high \in Seq(S)
        /\ Len(high) = IF m <= n THEN n - m + 1 ELSE 0
        /\ \A k \in 1..(n - m + 1) : high[k] = s[m + k - 1]
    BY <1>1, <1>2, SubSeqProperties
  <2> HIDE DEF high
  <2>2. Len(high) = n - i
    BY <1>1, <2>1
  <2>3. ASSUME NEW k \in 1..(n - i) PROVE high[k] = s[i + k]
    <3>1. k \in 1..(n - m + 1) /\ m + k - 1 = i + k
      BY <1>1
    <3>2. high[k] = s[m + k - 1]
      BY <2>1, <3>1
    <3> QED BY <3>1, <3>2
  <2> QED BY <2>1, <2>2, <2>3
<1> HIDE DEF low, high
<1>6. /\ t \in Seq(S) /\ Len(t) = n - 1
      /\ \A k \in 1..(n - 1) : t[k] = IF k <= l THEN low[k] ELSE high[k - l]
  <2>1. /\ t \in Seq(S) /\ Len(t) = Len(low) + Len(high)
        /\ \A k \in 1..(Len(low) + Len(high)) :
             t[k] = IF k <= Len(low) THEN low[k] ELSE high[k - Len(low)]
    BY <1>3, <1>4, <1>5, ConcatProperties
  <2>2. Len(low) + Len(high) = n - 1
    BY <1>1, <1>4, <1>5
  <2> QED BY <1>4, <2>1, <2>2
<1>7. ASSUME NEW k \in 1..(n - 1)
      PROVE  t[k] = IF k < i THEN s[k] ELSE s[k + 1]
  <2>1. CASE k < i
    BY <1>1, <1>4, <1>6, <2>1
  <2>2. CASE ~(k < i)
    <3>1. k - l \in 1..(n - i) /\ i + (k - l) = k + 1 /\ ~(k <= l)
      BY <1>1, <2>2
    <3>2. high[k - l] = s[k + 1]
      BY <1>5, <3>1
    <3> QED BY <1>1, <1>6, <2>2, <3>1, <3>2
  <2> QED BY <2>1, <2>2
<1> QED BY <1>6, <1>7 DEF n

\* An area of a list, for itself.
RegionOK(a) ==
  /\ a \in Regions
  /\ MMAP_START <= a.start /\ a.start < a.end /\ a.end <= STACK_LOW

\* What a list of areas is, area by area and neighbour by neighbour.
LEMMA ListFacts ==
  ASSUME NEW l, ListOK(l)
  PROVE  /\ l \in Seq(Regions) /\ Len(l) \in Nat
         /\ \A i \in 1 .. Len(l) :
              /\ RegionOK(l[i]) /\ l[i] \in Regions
              /\ l[i].start \in Int /\ l[i].end \in Int /\ l[i].prot \in SUBSET {"r", "w", "x"}
              /\ MMAP_START <= l[i].start /\ l[i].start < l[i].end /\ l[i].end <= STACK_LOW
              /\ l[i].end <= GapEnd(l, i)
         /\ \A i \in 1 .. Len(l) : i < Len(l) => l[i].end <= l[i + 1].start
<1>1. l \in Seq(Regions) /\ Len(l) \in Nat
  BY LenProperties DEF ListOK
<1>2. ASSUME NEW i \in 1 .. Len(l)
      PROVE  /\ RegionOK(l[i]) /\ l[i] \in Regions
             /\ l[i].start \in Int /\ l[i].end \in Int /\ l[i].prot \in SUBSET {"r", "w", "x"}
             /\ MMAP_START <= l[i].start /\ l[i].start < l[i].end /\ l[i].end <= STACK_LOW
             /\ l[i].end <= GapEnd(l, i)
             /\ i < Len(l) => l[i].end <= l[i + 1].start
  <2>1. l[i] \in Regions
    BY <1>1, ElementOfSeq
  <2>2. l[i].start \in Int /\ l[i].end \in Int /\ l[i].prot \in SUBSET {"r", "w", "x"}
    BY <2>1 DEF Regions
  <2>3. /\ MMAP_START <= l[i].start /\ l[i].start < l[i].end /\ l[i].end <= STACK_LOW
        /\ l[i].end <= GapEnd(l, i)
    BY DEF ListOK
  <2> QED BY <2>1, <2>2, <2>3 DEF RegionOK, GapEnd
<1> QED BY <1>1, <1>2

LEMMA ListFrom ==
  ASSUME NEW l \in Seq(Regions), \A i \in 1 .. Len(l) : RegionOK(l[i]),
         \A i \in 1 .. Len(l) : i < Len(l) => l[i].end <= l[i + 1].start
  PROVE  ListOK(l)
BY DEF ListOK, RegionOK, GapEnd

\* An area is put in the place of another one.
Put(l, i, a) == [l EXCEPT ![i] = a]

LEMMA PutIs ==
  ASSUME NEW l \in Seq(Regions), NEW i \in 1 .. Len(l), NEW a \in Regions
  PROVE  /\ Put(l, i, a) \in Seq(Regions) /\ Len(Put(l, i, a)) = Len(l)
         /\ \A k \in 1 .. Len(l) : Put(l, i, a)[k] = IF k = i THEN a ELSE l[k]
BY ExceptSeq DEF Put

\* An area ends elsewhere, or starts elsewhere.
LEMMA AreaIs ==
  ASSUME NEW x \in Int, NEW y \in Int, NEW prot \in SUBSET {"r", "w", "x"}
  PROVE  /\ Area(x, y, prot) \in Regions
         /\ Area(x, y, prot).start = x /\ Area(x, y, prot).end = y /\ Area(x, y, prot).prot = prot
BY DEF Area, Regions

LEMMA EndIs ==
  ASSUME NEW l \in Seq(Regions), NEW i \in 1 .. Len(l), NEW e \in Int
  PROVE  [l EXCEPT ![i].end = e] = Put(l, i, Area(l[i].start, e, l[i].prot))
<1>1. l[i] \in Regions
  BY ElementOfSeq
<1>2. [l[i] EXCEPT !.end = e] = Area(l[i].start, e, l[i].prot)
  BY <1>1 DEF Regions, Area
<1> QED BY <1>2 DEF Put

LEMMA StartIs ==
  ASSUME NEW l \in Seq(Regions), NEW i \in 1 .. Len(l), NEW e \in Int
  PROVE  [l EXCEPT ![i].start = e] = Put(l, i, Area(e, l[i].end, l[i].prot))
<1>1. l[i] \in Regions
  BY ElementOfSeq
<1>2. [l[i] EXCEPT !.start = e] = Area(e, l[i].end, l[i].prot)
  BY <1>1 DEF Regions, Area
<1> QED BY <1>2 DEF Put

\* The area i gives way to one in the room around it.
LEMMA PutFacts ==
  ASSUME NEW l, ListOK(l), NEW i \in 1 .. Len(l), NEW a, RegionOK(a),
         i > 1 => l[i - 1].end <= a.start, a.end <= GapEnd(l, i),
         NEW t, t = Put(l, i, a)
  PROVE  ListOK(t)
<1>1. /\ l \in Seq(Regions) /\ Len(l) \in Nat
      /\ \A k \in 1 .. Len(l) : RegionOK(l[k])
      /\ \A k \in 1 .. Len(l) : k < Len(l) => l[k].end <= l[k + 1].start
  BY ListFacts
<1>2. a \in Regions
  BY DEF RegionOK
<1>3. /\ t \in Seq(Regions) /\ Len(t) = Len(l)
      /\ \A k \in 1 .. Len(l) : t[k] = IF k = i THEN a ELSE l[k]
  <2>1. l \in Seq(Regions)
    BY <1>1
  <2>2. /\ Put(l, i, a) \in Seq(Regions) /\ Len(Put(l, i, a)) = Len(l)
        /\ \A k \in 1 .. Len(l) : Put(l, i, a)[k] = IF k = i THEN a ELSE l[k]
    BY <1>2, <2>1, PutIs
  <2>3. t = Put(l, i, a)
    OBVIOUS
  <2> QED BY <2>2, <2>3, Zenon
<1>4. \A k \in 1 .. Len(t) : RegionOK(t[k])
  BY <1>1, <1>3
<1>5. ASSUME NEW k \in 1 .. Len(t), k < Len(t) PROVE t[k].end <= t[k + 1].start
  <2>1. k \in 1 .. Len(l) /\ k + 1 \in 1 .. Len(l) /\ k # k + 1
    BY <1>1, <1>3, <1>5
  <2>2. CASE k = i
    <3>1. a.end <= l[i + 1].start
      BY <1>3, <1>5, <2>2 DEF GapEnd
    <3> QED BY <1>3, <2>1, <2>2, <3>1
  <2>3. CASE k + 1 = i
    <3>1. i - 1 = k /\ i > 1
      BY <2>1, <2>3
    <3> QED BY <1>3, <2>1, <2>3, <3>1
  <2>4. CASE k # i /\ k + 1 # i
    <3>1. t[k] = l[k] /\ t[k + 1] = l[k + 1]
      BY <1>3, <2>1, <2>4
    <3> QED BY <1>1, <1>3, <1>5, <3>1
  <2> QED BY <2>2, <2>3, <2>4
<1> QED BY <1>3, <1>4, <1>5, ListFrom

\* An area is put into the gap behind the area i.
LEMMA InsertOK ==
  ASSUME NEW l, ListOK(l), NEW i \in 1 .. Len(l), NEW a, RegionOK(a),
         l[i].end <= a.start, a.end <= GapEnd(l, i)
  PROVE  ListOK(InsertAt(l, i + 1, a))
<1> DEFINE t == InsertAt(l, i + 1, a)
<1>0. t = InsertAt(l, i + 1, a)
  OBVIOUS
<1> HIDE DEF t
<1>1. /\ l \in Seq(Regions) /\ Len(l) \in Nat
      /\ \A k \in 1 .. Len(l) : RegionOK(l[k])
      /\ \A k \in 1 .. Len(l) : k < Len(l) => l[k].end <= l[k + 1].start
  BY ListFacts
<1>2. a \in Regions /\ i \in 0 .. Len(l)
  BY <1>1 DEF RegionOK
<1>3. /\ t \in Seq(Regions) /\ Len(t) = Len(l) + 1
      /\ \A k \in 1 .. (Len(l) + 1) :
           t[k] = IF k <= i THEN l[k] ELSE IF k = i + 1 THEN a ELSE l[k - 1]
  <2>1. l \in Seq(Regions)
    BY <1>1
  <2>2. a \in Regions /\ i \in 0 .. Len(l)
    BY <1>2
  <2> QED BY <1>0, <2>1, <2>2, InsertFacts
<1>4. ASSUME NEW k \in 1 .. Len(t)
      PROVE  /\ k <= i => k \in 1 .. Len(l) /\ t[k] = l[k]
             /\ k = i + 1 => t[k] = a
             /\ k > i + 1 => k - 1 \in 1 .. Len(l) /\ t[k] = l[k - 1]
  BY <1>1, <1>2, <1>3
<1>5. \A k \in 1 .. Len(t) : RegionOK(t[k])
  <2> TAKE k \in 1 .. Len(t)
  <2>1. k <= i \/ k = i + 1 \/ k > i + 1
    BY <1>2
  <2> QED BY <1>1, <1>4, <2>1
<1>6. ASSUME NEW k \in 1 .. Len(t), k < Len(t) PROVE t[k].end <= t[k + 1].start
  <2>0. k + 1 \in 1 .. Len(t) /\ k \in Int /\ i \in Int
    BY <1>1, <1>3, <1>6
  <2>1. CASE k < i
    <3>1. t[k] = l[k] /\ t[k + 1] = l[k + 1] /\ k \in 1 .. Len(l) /\ k < Len(l)
      BY <1>1, <1>2, <1>4, <2>0, <2>1
    <3> QED BY <1>1, <3>1
  <2>2. CASE k = i
    BY <1>4, <2>0, <2>2
  <2>3. CASE k = i + 1
    <3>1. t[k] = a /\ t[k + 1] = l[i + 1] /\ i < Len(l)
      BY <1>1, <1>2, <1>3, <1>4, <1>6, <2>0, <2>3
    <3> QED BY <3>1 DEF GapEnd
  <2>4. CASE k > i + 1
    <3>1. t[k] = l[k - 1] /\ t[k + 1] = l[(k - 1) + 1] /\ k - 1 \in 1 .. Len(l) /\ k - 1 < Len(l)
      <4>1. (k + 1) - 1 = (k - 1) + 1 /\ k + 1 > i + 1
        BY <2>0, <2>4
      <4> QED BY <1>1, <1>3, <1>4, <1>6, <2>0, <2>4, <4>1
    <3> QED BY <1>1, <3>1
  <2> QED BY <2>0, <2>1, <2>2, <2>3, <2>4
<1>7. ListOK(t)
  BY <1>3, <1>5, <1>6, ListFrom
<1> QED BY <1>7 DEF t

\* An area goes.
LEMMA RemoveOK ==
  ASSUME NEW l, ListOK(l), NEW i \in 1 .. Len(l), NEW t, t = RemoveAt(l, i)
  PROVE  /\ ListOK(t) /\ Len(t) = Len(l) - 1
         /\ \A k \in 1 .. (Len(l) - 1) : t[k] = IF k < i THEN l[k] ELSE l[k + 1]
<1>1. /\ l \in Seq(Regions) /\ Len(l) \in Nat
      /\ \A k \in 1 .. Len(l) : /\ RegionOK(l[k])
                                /\ l[k].start \in Int /\ l[k].end \in Int /\ l[k].start < l[k].end
      /\ \A k \in 1 .. Len(l) : k < Len(l) => l[k].end <= l[k + 1].start
  BY ListFacts
<1>2. /\ t \in Seq(Regions) /\ Len(t) = Len(l) - 1
      /\ \A k \in 1 .. (Len(l) - 1) : t[k] = IF k < i THEN l[k] ELSE l[k + 1]
  <2>1. l \in Seq(Regions)
    BY <1>1
  <2> QED BY <2>1, RemoveFacts
<1>3. \A k \in 1 .. Len(t) : RegionOK(t[k])
  <2> TAKE k \in 1 .. Len(t)
  <2>1. k \in 1 .. (Len(l) - 1) /\ k \in 1 .. Len(l) /\ k + 1 \in 1 .. Len(l)
    BY <1>1, <1>2
  <2> QED BY <1>1, <1>2, <2>1
<1>4. ASSUME NEW k \in 1 .. Len(t), k < Len(t) PROVE t[k].end <= t[k + 1].start
  <2>0. /\ k \in 1 .. (Len(l) - 1) /\ k + 1 \in 1 .. (Len(l) - 1) /\ k \in Int /\ i \in Int
        /\ k \in 1 .. Len(l) /\ k + 1 \in 1 .. Len(l) /\ k < Len(l) /\ k + 1 < Len(l)
    BY <1>1, <1>2, <1>4
  <2>1. CASE k + 1 < i
    <3>1. t[k] = l[k] /\ t[k + 1] = l[k + 1]
      BY <1>2, <2>0, <2>1
    <3> QED BY <1>1, <2>0, <3>1
  <2>2. CASE k + 1 = i
    <3>1. t[k] = l[k] /\ t[k + 1] = l[(k + 1) + 1]
      BY <1>2, <2>0, <2>2
    <3>2. l[k].end <= l[k + 1].start /\ l[k + 1].end <= l[(k + 1) + 1].start
      BY <1>1, <2>0
    <3>3. /\ l[k].end \in Int /\ l[k + 1].start \in Int /\ l[k + 1].end \in Int
          /\ l[(k + 1) + 1].start \in Int /\ l[k + 1].start < l[k + 1].end
      <4>1. (k + 1) + 1 \in 1 .. Len(l)
        BY <1>1, <2>0
      <4> QED BY <1>1, <2>0, <4>1
    <3>4. l[k].end <= l[(k + 1) + 1].start
      BY <3>2, <3>3
    <3> QED BY <3>1, <3>4
  <2>3. CASE k + 1 > i
    <3>1. t[k] = l[k + 1] /\ t[k + 1] = l[(k + 1) + 1]
      BY <1>2, <2>0, <2>3
    <3> QED BY <1>1, <2>0, <3>1
  <2> QED BY <2>0, <2>1, <2>2, <2>3
<1> QED BY <1>2, <1>3, <1>4, ListFrom

\* The first of some areas is one of them.
LEMMA FirstFacts ==
  ASSUME NEW l, Len(l) \in Nat, NEW is \in SUBSET (1 .. Len(l)), is # {}
  PROVE  First(is) \in is /\ First(is) \in 1 .. Len(l)
<1>1. is \in SUBSET Nat
  OBVIOUS
<1>2. \E i \in is : \A j \in is : i <= j
  BY <1>1, Least
<1> QED BY <1>2 DEF First

\* What an area may be in the room around the area i.
LEMMA RegionFrom ==
  ASSUME NEW x \in Int, NEW y \in Int, NEW prot \in SUBSET {"r", "w", "x"},
         MMAP_START <= x, x < y, y <= STACK_LOW
  PROVE  RegionOK(Area(x, y, prot)) /\ Area(x, y, prot).start = x /\ Area(x, y, prot).end = y
BY AreaIs DEF RegionOK

\* A gap ends where the next area starts, or with the region.
LEMMA GapFacts ==
  ASSUME NEW l, ListOK(l), NEW i \in 1 .. Len(l)
  PROVE  GapEnd(l, i) \in Int /\ GapEnd(l, i) <= STACK_LOW
<1>1. Len(l) \in Nat
  BY ListFacts
<1>2. CASE i < Len(l)
  <2>1. i + 1 \in 1 .. Len(l)
    BY <1>1, <1>2
  <2>2. /\ l[i + 1].start \in Int /\ l[i + 1].end \in Int
        /\ l[i + 1].start < l[i + 1].end /\ l[i + 1].end <= STACK_LOW
    BY <2>1, ListFacts
  <2> QED BY <1>2, <2>2, Layout DEF GapEnd
<1>3. CASE ~ i < Len(l)
  BY <1>3, Layout DEF GapEnd
<1> QED BY <1>2, <1>3

\* An area grows into the gap behind it, and may take in the next one.
LEMMA EndFacts ==
  ASSUME NEW l, ListOK(l), NEW i \in 1 .. Len(l), NEW e \in Int,
         l[i].start < e, e <= GapEnd(l, i),
         NEW g, g = [l EXCEPT ![i].end = e]
  PROVE  /\ ListOK(g) /\ Len(g) = Len(l)
         /\ g[i].end = e /\ g[i].start = l[i].start /\ g[i].prot = l[i].prot
         /\ \A k \in 1 .. Len(l) : k # i => g[k] = l[k]
<1>1. /\ l \in Seq(Regions) /\ Len(l) \in Nat
      /\ l[i].start \in Int /\ l[i].prot \in SUBSET {"r", "w", "x"} /\ MMAP_START <= l[i].start
  BY ListFacts
<1>2. l \in Seq(Regions)
  BY <1>1
<1>3. [l EXCEPT ![i].end = e] = Put(l, i, Area(l[i].start, e, l[i].prot))
  BY <1>2, EndIs
<1> DEFINE a == Area(l[i].start, e, l[i].prot)
<1>4. GapEnd(l, i) \in Int /\ GapEnd(l, i) <= STACK_LOW
  BY GapFacts
<1>5. e <= STACK_LOW
  BY <1>4, Layout
<1>6. /\ RegionOK(a) /\ a.start = l[i].start /\ a.end = e /\ a.prot = l[i].prot
      /\ a \in Regions
  BY <1>1, <1>5, RegionFrom, AreaIs
<1>7. g = Put(l, i, a)
  BY <1>3
<1> HIDE DEF a
<1>8. i > 1 => l[i - 1].end <= a.start
  <2> SUFFICES ASSUME i > 1 PROVE l[i - 1].end <= l[i].start
    BY <1>6
  <2>1. i - 1 \in 1 .. Len(l) /\ i - 1 < Len(l) /\ (i - 1) + 1 = i
    BY <1>1
  <2>2. l[i - 1].end <= l[(i - 1) + 1].start
    BY <2>1, ListFacts
  <2> QED BY <2>1, <2>2
<1>9. a.end <= GapEnd(l, i)
  BY <1>6
<1>10. ListOK(g)
  BY <1>6, <1>7, <1>8, <1>9, PutFacts
<1>11. /\ Len(Put(l, i, a)) = Len(l)
       /\ \A k \in 1 .. Len(l) : Put(l, i, a)[k] = IF k = i THEN a ELSE l[k]
  <2>1. a \in Regions
    BY <1>6
  <2> QED BY <1>2, <2>1, PutIs
<1>12. Put(l, i, a)[i] = a
  BY <1>11
<1> QED BY <1>6, <1>7, <1>10, <1>11, <1>12

\* An area starts elsewhere in the room around it.
LEMMA StartFacts ==
  ASSUME NEW l, ListOK(l), NEW i \in 1 .. Len(l), NEW e \in Int,
         MMAP_START <= e, e < l[i].end, i > 1 => l[i - 1].end <= e,
         NEW g, g = [l EXCEPT ![i].start = e]
  PROVE  ListOK(g)
<1>1. /\ l \in Seq(Regions) /\ Len(l) \in Nat
      /\ l[i].end \in Int /\ l[i].prot \in SUBSET {"r", "w", "x"}
      /\ l[i].end <= STACK_LOW /\ l[i].end <= GapEnd(l, i)
  BY ListFacts
<1>2. l \in Seq(Regions)
  BY <1>1
<1>3. [l EXCEPT ![i].start = e] = Put(l, i, Area(e, l[i].end, l[i].prot))
  BY <1>2, StartIs
<1> DEFINE a == Area(e, l[i].end, l[i].prot)
<1>4. RegionOK(a) /\ a.start = e /\ a.end = l[i].end
  BY <1>1, RegionFrom
<1>5. g = Put(l, i, a)
  BY <1>3
<1> HIDE DEF a
<1>6. i > 1 => l[i - 1].end <= a.start
  BY <1>4
<1>7. a.end <= GapEnd(l, i)
  BY <1>1, <1>4
<1> QED BY <1>4, <1>5, <1>6, <1>7, PutFacts

LEMMA ExtendedFacts ==
  ASSUME NEW l, ListOK(l), NEW i \in 1 .. Len(l), NEW n \in Nat,
         l[i].end + n <= GapEnd(l, i)
  PROVE  ListOK(Extended(l, i, n))
<1> DEFINE g == [l EXCEPT ![i].end = l[i].end + n]
           h == RemoveAt(g, i + 1)
           x == [h EXCEPT ![i].end = g[i + 1].end]
           met == i < Len(l) /\ g[i].end = g[i + 1].start /\ g[i].prot = g[i + 1].prot
<1>1. Extended(l, i, n) = IF met THEN x ELSE g
  BY DEF Extended
<1>2. /\ Len(l) \in Nat /\ l[i].start \in Int /\ l[i].end \in Int /\ l[i].start < l[i].end
  BY ListFacts
<1>3. l[i].end + n \in Int /\ l[i].start < l[i].end + n
  BY <1>2
<1>4. /\ ListOK(g) /\ Len(g) = Len(l)
      /\ g[i].start = l[i].start
  BY <1>3, EndFacts
<1> HIDE DEF g
<1>5. ASSUME met PROVE ListOK(x)
  <2>1. i + 1 \in 1 .. Len(g) /\ i \in 1 .. Len(g) /\ i < Len(g) /\ Len(g) \in Nat
    BY <1>2, <1>4, <1>5
  <2>2. /\ ListOK(h) /\ Len(h) = Len(g) - 1
        /\ \A k \in 1 .. (Len(g) - 1) : h[k] = IF k < i + 1 THEN g[k] ELSE g[k + 1]
    BY <1>4, <2>1, RemoveOK
  <2> HIDE DEF h
  <2>3. i \in 1 .. Len(h) /\ h[i] = g[i]
    BY <2>1, <2>2
  <2>4. /\ g[i + 1].end \in Int /\ g[i + 1].start \in Int /\ g[i + 1].start < g[i + 1].end
        /\ g[i + 1].end <= STACK_LOW /\ g[i].end <= g[i + 1].start
        /\ g[i].end \in Int /\ g[i].start \in Int /\ g[i].start < g[i].end
    BY <1>4, <2>1, ListFacts
  <2>5. h[i].start < g[i + 1].end
    BY <2>3, <2>4
  <2>6. g[i + 1].end <= GapEnd(h, i)
    <3>1. CASE i < Len(h)
      <4>1. i + 1 \in 1 .. (Len(g) - 1) /\ i + 1 < Len(g)
        BY <2>1, <2>2, <3>1
      <4>2. h[i + 1] = g[(i + 1) + 1]
        BY <2>1, <2>2, <4>1
      <4>3. g[i + 1].end <= g[(i + 1) + 1].start
        BY <1>4, <2>1, <4>1, ListFacts
      <4> QED BY <3>1, <4>2, <4>3 DEF GapEnd
    <3>2. CASE ~ i < Len(h)
      BY <2>4, <3>2 DEF GapEnd
    <3> QED BY <3>1, <3>2
  <2> QED BY <2>2, <2>3, <2>4, <2>5, <2>6, EndFacts
<1> QED BY <1>1, <1>4, <1>5

\* map_vm_area keeps the areas apart, where there is room for the request.
LEMMA MapVmAreaFacts ==
  ASSUME NEW l, ListOK(l), NEW i \in 1 .. Len(l), NEW n \in Nat, n > 0,
         NEW prot \in SUBSET {"r", "w", "x"}, l[i].end + n <= GapEnd(l, i)
  PROVE  ListOK(MapVmArea(l, i, n, prot))
<1>1. /\ Len(l) \in Nat /\ l[i].start \in Int /\ l[i].end \in Int /\ l[i].start < l[i].end
      /\ MMAP_START <= l[i].start
  BY ListFacts
<1>2. GapEnd(l, i) \in Int /\ GapEnd(l, i) <= STACK_LOW
  BY GapFacts
<1>3. CASE l[i].prot = prot
  BY <1>3, ExtendedFacts DEF MapVmArea
<1>4. CASE l[i].prot # prot /\ i < Len(l) /\ l[i + 1].prot = prot
  <2>1. i + 1 \in 1 .. Len(l)
    BY <1>1, <1>4
  <2>2. /\ l[i + 1].start < l[i + 1].end /\ l[i + 1].start \in Int /\ l[i + 1].end \in Int
    BY <2>1, ListFacts
  <2>3. l[i].end <= l[i + 1].start
    BY <1>4, ListFacts
  <2>4. MMAP_START <= l[i].end /\ l[i].end < l[i + 1].end
    BY <1>1, <2>2, <2>3, Layout
  <2>5. i + 1 > 1 => l[(i + 1) - 1].end <= l[i].end
    <3>1. (i + 1) - 1 = i
      OBVIOUS
    <3> QED BY <1>1, <3>1
  <2>6. ListOK([l EXCEPT ![i + 1].start = l[i].end])
    BY <1>1, <2>1, <2>4, <2>5, StartFacts
  <2> QED BY <1>4, <2>6 DEF MapVmArea
<1>5. CASE l[i].prot # prot /\ ~ (i < Len(l) /\ l[i + 1].prot = prot)
  <2> DEFINE a == Area(l[i].end, l[i].end + n, prot)
  <2>1. /\ l[i].end \in Int /\ l[i].end + n \in Int /\ MMAP_START <= l[i].end
        /\ l[i].end < l[i].end + n /\ l[i].end + n <= STACK_LOW
    BY <1>1, <1>2, Layout
  <2>2. RegionOK(a) /\ a.start = l[i].end /\ a.end = l[i].end + n
    BY <2>1, RegionFrom
  <2> HIDE DEF a
  <2>3. l[i].end <= a.start /\ a.end <= GapEnd(l, i)
    BY <1>1, <2>2
  <2>4. ListOK(InsertAt(l, i + 1, a))
    BY <2>2, <2>3, InsertOK
  <2>5. MapVmArea(l, i, n, prot) = InsertAt(l, i + 1, a)
    BY <1>5 DEF MapVmArea, a
  <2> QED BY <2>4, <2>5
<1> QED BY <1>3, <1>4, <1>5

\* So does a request with a hint, in the gap the hint lies in.
LEMMA MapAtHintFacts ==
  ASSUME NEW l, ListOK(l), NEW i \in 1 .. Len(l), NEW n \in Nat, n > 0, NEW addr \in Int,
         NEW prot \in SUBSET {"r", "w", "x"}, l[i].end <= addr, addr + n <= GapEnd(l, i)
  PROVE  ListOK(MapAtHint(l, i, addr, n, prot))
<1>1. /\ Len(l) \in Nat /\ l[i].start \in Int /\ l[i].end \in Int /\ l[i].start < l[i].end
      /\ MMAP_START <= l[i].start
  BY ListFacts
<1>2. GapEnd(l, i) \in Int /\ GapEnd(l, i) <= STACK_LOW
  BY GapFacts
<1>3. CASE l[i].end = addr /\ l[i].prot = prot
  <2>1. l[i].end + n <= GapEnd(l, i)
    BY <1>3
  <2>2. MapAtHint(l, i, addr, n, prot) = Extended(l, i, n)
    BY <1>3 DEF MapAtHint
  <2> QED BY <2>1, <2>2, ExtendedFacts
<1>4. CASE /\ ~ (l[i].end = addr /\ l[i].prot = prot)
           /\ i < Len(l) /\ l[i + 1].start = addr + n /\ l[i + 1].prot = prot
  <2>1. i + 1 \in 1 .. Len(l)
    BY <1>1, <1>4
  <2>2. /\ l[i + 1].start < l[i + 1].end /\ l[i + 1].start \in Int /\ l[i + 1].end \in Int
    BY <2>1, ListFacts
  <2>4. MMAP_START <= addr /\ addr < l[i + 1].end
    BY <1>1, <1>4, <2>2, Layout
  <2>5. i + 1 > 1 => l[(i + 1) - 1].end <= addr
    <3>1. (i + 1) - 1 = i
      OBVIOUS
    <3> QED BY <1>1, <3>1
  <2>6. ListOK([l EXCEPT ![i + 1].start = addr])
    BY <1>1, <2>1, <2>4, <2>5, StartFacts
  <2>7. MapAtHint(l, i, addr, n, prot) = [l EXCEPT ![i + 1].start = addr]
    BY <1>4 DEF MapAtHint
  <2> QED BY <2>6, <2>7
<1>5. CASE /\ ~ (l[i].end = addr /\ l[i].prot = prot)
           /\ ~ (i < Len(l) /\ l[i + 1].start = addr + n /\ l[i + 1].prot = prot)
  <2> DEFINE a == Area(addr, addr + n, prot)
  <2>1. /\ addr + n \in Int /\ MMAP_START <= addr /\ addr < addr + n /\ addr + n <= STACK_LOW
    BY <1>1, <1>2, Layout
  <2>2. RegionOK(a) /\ a.start = addr /\ a.end = addr + n
    BY <2>1, RegionFrom
  <2> HIDE DEF a
  <2>3. l[i].end <= a.start /\ a.end <= GapEnd(l, i)
    BY <1>1, <2>2
  <2>4. ListOK(InsertAt(l, i + 1, a))
    BY <2>2, <2>3, InsertOK
  <2>5. MapAtHint(l, i, addr, n, prot) = InsertAt(l, i + 1, a)
    BY <1>5 DEF MapAtHint, a
  <2> QED BY <2>4, <2>5
<1> QED BY <1>3, <1>4, <1>5

\* vm_area_map of more than no pages: what it makes of a list, and where the
\* request is served.
LEMMA MappedFacts ==
  ASSUME NEW l, ListOK(l), NEW n \in Nat, n > 0, NEW addr \in Int \cup {None},
         NEW prot \in SUBSET {"r", "w", "x"}, NEW fixed
  PROVE  /\ ListOK(Mapped(l, addr, n, prot, fixed).list)
         /\ Mapped(l, addr, n, prot, fixed).ret \in Int
         /\ \/ Mapped(l, addr, n, prot, fixed).ret = -1
            \/ MMAP_START <= Mapped(l, addr, n, prot, fixed).ret
<1> DEFINE hint == IF addr = None THEN {} ELSE HintGap(l, addr, n)
           room == Room(l, n)
           got == Mapped(l, addr, n, prot, fixed)
<1>1. got = IF hint # {} THEN [list |-> MapAtHint(l, First(hint), addr, n, prot), ret |-> addr]
            ELSE IF fixed \/ room = {} THEN [list |-> l, ret |-> -1]
            ELSE [list |-> MapVmArea(l, First(room), n, prot), ret |-> l[First(room)].end]
  BY DEF Mapped
<1>2. Len(l) \in Nat
  BY ListFacts
<1>3. ASSUME NEW i \in 1 .. Len(l)
      PROVE  /\ l[i].start \in Int /\ l[i].end \in Int /\ l[i].start < l[i].end
             /\ MMAP_START <= l[i].start /\ GapEnd(l, i) \in Int
             /\ MMAP_START <= l[i].end
  <2>1. /\ l[i].start \in Int /\ l[i].end \in Int /\ l[i].start < l[i].end
        /\ MMAP_START <= l[i].start
    BY ListFacts
  <2>2. GapEnd(l, i) \in Int
    BY GapFacts
  <2> QED BY <2>1, <2>2, Layout
<1>4. CASE hint # {}
  <2> DEFINE i == First(hint)
  <2>1. hint = HintGap(l, addr, n) /\ addr \in Int
    BY <1>4
  <2>2. hint \in SUBSET (1 .. Len(l))
    BY <2>1 DEF HintGap
  <2>3. i \in hint /\ i \in 1 .. Len(l)
    BY <1>2, <1>4, <2>2, FirstFacts
  <2> HIDE DEF i
  <2>4. l[i].end <= addr /\ GapEnd(l, i) - addr >= n
    BY <2>1, <2>3 DEF HintGap
  <2>5. addr + n <= GapEnd(l, i) /\ MMAP_START <= addr
    BY <1>3, <2>1, <2>3, <2>4, Layout
  <2>6. ListOK(MapAtHint(l, i, addr, n, prot))
    BY <2>1, <2>3, <2>4, <2>5, MapAtHintFacts
  <2>7. got.list = MapAtHint(l, i, addr, n, prot) /\ got.ret = addr
    BY <1>1, <1>4 DEF i
  <2> QED BY <2>1, <2>5, <2>6, <2>7
<1>5. CASE hint = {} /\ (fixed \/ room = {})
  <2>1. got.list = l /\ got.ret = -1
    BY <1>1, <1>5
  <2> QED BY <2>1
<1>6. CASE hint = {} /\ ~ (fixed \/ room = {})
  <2> DEFINE i == First(room)
  <2>2. room \in SUBSET (1 .. Len(l))
    BY DEF Room
  <2>3. i \in room /\ i \in 1 .. Len(l)
    BY <1>2, <1>6, <2>2, FirstFacts
  <2> HIDE DEF i
  <2>4. GapEnd(l, i) - l[i].end >= n
    BY <2>3 DEF Room
  <2>5. l[i].end + n <= GapEnd(l, i) /\ l[i].end \in Int /\ MMAP_START <= l[i].end
    BY <1>3, <2>3, <2>4
  <2>6. ListOK(MapVmArea(l, i, n, prot))
    BY <2>3, <2>5, MapVmAreaFacts
  <2>7. got.list = MapVmArea(l, i, n, prot) /\ got.ret = l[i].end
    BY <1>1, <1>6 DEF i
  <2> QED BY <2>5, <2>6, <2>7
<1> QED BY <1>4, <1>5, <1>6

\* The dummy page of an empty list.
LEMMA ListedFacts ==
  ASSUME NEW l, ListOK(l)
  PROVE  ListOK(Listed(l))
<1>1. CASE l = <<>>
  <2>0. {"r", "x"} \in SUBSET {"r", "w", "x"} /\ MMAP_START \in Int /\ MMAP_START + 1 \in Int
        /\ MMAP_START + 1 <= STACK_LOW /\ MMAP_START < MMAP_START + 1
    BY Layout
  <2>1. RegionOK(Dummy) /\ Dummy \in Regions
    BY <2>0, RegionFrom, AreaIs DEF Dummy
  <2>2. <<Dummy>> \in Seq(Regions) /\ Len(<<Dummy>>) = 1 /\ <<Dummy>>[1] = Dummy
    BY <2>1
  <2>3. ListOK(<<Dummy>>)
    <3> DEFINE s == <<Dummy>>
    <3>1. s \in Seq(Regions) /\ Len(s) = 1 /\ s[1] = Dummy
      BY <2>2
    <3> HIDE DEF s
    <3>2. \A k \in 1 .. Len(s) : RegionOK(s[k])
      BY <2>1, <3>1
    <3>3. \A k \in 1 .. Len(s) : k < Len(s) => s[k].end <= s[k + 1].start
      BY <3>1
    <3>4. ListOK(s)
      BY <3>1, <3>2, <3>3, ListFrom
    <3> QED BY <3>4 DEF s
  <2> QED BY <1>1, <2>3 DEF Listed
<1>2. CASE l # <<>>
  BY <1>2 DEF Listed
<1> QED BY <1>1, <1>2

\* vm_area_unmap of a range that lies in an area.
LEMMA UnlistedFacts ==
  ASSUME NEW l, ListOK(l), NEW i \in 1 .. Len(l), NEW addr \in Int, NEW end \in Int,
         l[i].start <= addr, addr < l[i].end, addr <= end, end <= l[i].end
  PROVE  ListOK(Unlisted(l, i, addr, end))
<1>1. /\ Len(l) \in Nat /\ l[i].start \in Int /\ l[i].end \in Int /\ l[i].start < l[i].end
      /\ l[i].prot \in SUBSET {"r", "w", "x"}
      /\ MMAP_START <= l[i].start /\ l[i].end <= STACK_LOW /\ l[i].end <= GapEnd(l, i)
  BY ListFacts
<1>2. GapEnd(l, i) \in Int
  BY GapFacts
<1>3. CASE addr = l[i].start /\ end = l[i].end
  <2>1. ListOK(<<>>)
    BY DEF ListOK
  <2>2. ListOK(RemoveAt(l, i))
    BY RemoveOK
  <2> QED BY <1>3, <2>1, <2>2 DEF Unlisted
<1>4. CASE addr = l[i].start /\ end # l[i].end
  <2>1. MMAP_START <= end /\ end < l[i].end
    BY <1>1, <1>4, Layout
  <2>2. i > 1 => l[i - 1].end <= end
    <3> SUFFICES ASSUME i > 1 PROVE l[i - 1].end <= end
      OBVIOUS
    <3>1. i - 1 \in 1 .. Len(l) /\ i - 1 < Len(l) /\ (i - 1) + 1 = i
      BY <1>1
    <3>2. l[i - 1].end <= l[(i - 1) + 1].start /\ l[i - 1].end \in Int
      BY <3>1, ListFacts
    <3> QED BY <1>1, <1>4, <3>1, <3>2
  <2>3. ListOK([l EXCEPT ![i].start = end])
    BY <2>1, <2>2, StartFacts
  <2> QED BY <1>4, <2>3 DEF Unlisted
<1>5. CASE addr # l[i].start /\ end = l[i].end
  <2>1. l[i].start < addr /\ addr <= GapEnd(l, i)
    BY <1>1, <1>2, <1>5
  <2>2. ListOK([l EXCEPT ![i].end = addr])
    BY <2>1, EndFacts
  <2> QED BY <1>5, <2>2 DEF Unlisted
<1>6. CASE addr # l[i].start /\ end # l[i].end
  <2> DEFINE a == Area(end, l[i].end, l[i].prot)
             b == Area(l[i].start, addr, l[i].prot)
             g == Put(l, i, b)
             t == InsertAt(l, i + 1, a)
  <2>1. l \in Seq(Regions) /\ i \in 0 .. Len(l) /\ i \in Nat /\ i >= 1 /\ i <= Len(l)
    BY <1>1, ListFacts
  <2>2. MMAP_START <= end /\ end < l[i].end /\ l[i].start < addr /\ addr <= STACK_LOW
    BY <1>1, <1>6, Layout
  <2>3. RegionOK(a) /\ a.start = end /\ a.end = l[i].end /\ a \in Regions
    BY <1>1, <2>2, RegionFrom, AreaIs
  <2>4. RegionOK(b) /\ b.start = l[i].start /\ b.end = addr /\ b \in Regions
    BY <1>1, <2>2, RegionFrom, AreaIs
  <2>5. /\ t \in Seq(Regions) /\ Len(t) = Len(l) + 1
        /\ \A k \in 1 .. (Len(l) + 1) :
             t[k] = IF k <= i THEN l[k] ELSE IF k = i + 1 THEN a ELSE l[k - 1]
    BY <2>1, <2>3, InsertFacts
  <2>6. Unlisted(l, i, addr, end) = [t EXCEPT ![i].end = addr]
    BY <1>6 DEF Unlisted
  <2> HIDE DEF a, t
  <2>7. i \in 1 .. Len(t) /\ t[i] = l[i]
    BY <1>1, <2>1, <2>5
  <2>8. [t EXCEPT ![i].end = addr] = Put(t, i, b)
    <3>1. t \in Seq(Regions) /\ i \in 1 .. Len(t)
      BY <2>5, <2>7
    <3>2. [t EXCEPT ![i].end = addr] = Put(t, i, Area(t[i].start, addr, t[i].prot))
      BY <3>1, EndIs
    <3> QED BY <2>7, <3>2
  <2>9. /\ g \in Seq(Regions) /\ Len(g) = Len(l)
        /\ \A k \in 1 .. Len(l) : g[k] = IF k = i THEN b ELSE l[k]
    <3>1. l \in Seq(Regions) /\ b \in Regions
      BY <2>1, <2>4
    <3> HIDE DEF b
    <3> QED BY <3>1, PutIs
  <2>10. ListOK(g)
    <3>1. i > 1 => l[i - 1].end <= b.start
      <4> SUFFICES ASSUME i > 1 PROVE l[i - 1].end <= l[i].start
        BY <2>4
      <4>1. i - 1 \in 1 .. Len(l) /\ i - 1 < Len(l) /\ (i - 1) + 1 = i
        BY <1>1
      <4>2. l[i - 1].end <= l[(i - 1) + 1].start
        BY <4>1, ListFacts
      <4> QED BY <4>1, <4>2
    <3>2. b.end <= GapEnd(l, i)
      BY <1>1, <1>2, <2>2, <2>4
    <3>3. RegionOK(b)
      BY <2>4
    <3> HIDE DEF b
    <3> QED BY <3>1, <3>2, <3>3, PutFacts
  <2>11. ListOK(InsertAt(g, i + 1, a))
    <3>1. g[i] = b /\ i \in 1 .. Len(g)
      BY <2>1, <2>9
    <3>2. GapEnd(g, i) = GapEnd(l, i)
      <4>1. CASE i < Len(l)
        <5>1. i + 1 \in 1 .. Len(l) /\ i + 1 # i
          BY <1>1, <2>1, <4>1
        <5> QED BY <2>9, <4>1, <5>1 DEF GapEnd
      <4>2. CASE ~ i < Len(l)
        BY <2>9, <4>2 DEF GapEnd
      <4> QED BY <4>1, <4>2
    <3>3. g[i].end <= a.start /\ a.end <= GapEnd(g, i)
      BY <1>1, <2>3, <2>4, <3>1, <3>2
    <3>4. RegionOK(a)
      BY <2>3
    <3> HIDE DEF g
    <3> QED BY <2>10, <3>1, <3>3, <3>4, InsertOK
  <2>12. InsertAt(g, i + 1, a) = Put(t, i, b)
    <3> DEFINE x == InsertAt(g, i + 1, a)
               y == Put(t, i, b)
    <3>1. i \in 0 .. Len(g)
      BY <2>1, <2>9
    <3>2. /\ x \in Seq(Regions) /\ Len(x) = Len(g) + 1
          /\ \A k \in 1 .. (Len(g) + 1) :
               x[k] = IF k <= i THEN g[k] ELSE IF k = i + 1 THEN a ELSE g[k - 1]
      <4>1. g \in Seq(Regions) /\ a \in Regions
        BY <2>3, <2>9
      <4> HIDE DEF g
      <4> QED BY <3>1, <4>1, InsertFacts
    <3>3. /\ y \in Seq(Regions) /\ Len(y) = Len(t)
          /\ \A k \in 1 .. Len(t) : y[k] = IF k = i THEN b ELSE t[k]
      <4>1. t \in Seq(Regions) /\ b \in Regions
        BY <2>4, <2>5
      <4> HIDE DEF b
      <4> QED BY <2>7, <4>1, PutIs
    <3> HIDE DEF x, y, g, b
    <3>4. Len(x) = Len(y)
      BY <2>5, <2>9, <3>2, <3>3
    <3>5. ASSUME NEW k \in 1 .. Len(x) PROVE x[k] = y[k]
      <4>1. k \in 1 .. (Len(l) + 1) /\ k \in 1 .. (Len(g) + 1) /\ k \in 1 .. Len(t) /\ k \in Int
        BY <2>5, <2>9, <3>2, <1>1
      <4>2. CASE k < i
        <5>1. k \in 1 .. Len(l) /\ k # i /\ k <= i
          BY <2>1, <4>1, <4>2
        <5>2. x[k] = g[k] /\ g[k] = l[k]
          BY <2>9, <3>2, <4>1, <5>1
        <5>3. y[k] = t[k] /\ t[k] = l[k]
          BY <2>5, <3>3, <4>1, <5>1
        <5> QED BY <5>2, <5>3
      <4>3. CASE k = i
        <5>1. x[k] = g[k] /\ g[k] = b
          BY <2>1, <2>9, <3>2, <4>1, <4>3
        <5>2. y[k] = b
          BY <3>3, <4>1, <4>3
        <5> QED BY <5>1, <5>2
      <4>4. CASE k = i + 1
        <5>0. ~ k <= i /\ k # i
          BY <2>1, <4>4
        <5>1. x[k] = a
          BY <3>2, <4>1, <4>4, <5>0
        <5>2. y[k] = t[k] /\ t[k] = a
          BY <2>5, <3>3, <4>1, <4>4, <5>0
        <5> QED BY <5>1, <5>2
      <4>5. CASE k > i + 1
        <5>1. k - 1 \in 1 .. Len(l) /\ k - 1 # i /\ ~ k <= i /\ k # i + 1 /\ k # i
          BY <1>1, <2>1, <4>1, <4>5
        <5>2. x[k] = g[k - 1] /\ g[k - 1] = l[k - 1]
          BY <2>9, <3>2, <4>1, <5>1
        <5>3. y[k] = t[k] /\ t[k] = l[k - 1]
          BY <2>5, <3>3, <4>1, <5>1
        <5> QED BY <5>2, <5>3
      <4> QED BY <2>1, <4>1, <4>2, <4>3, <4>4, <4>5
    <3>6. x = y
      BY <3>2, <3>3, <3>4, <3>5, SeqEqual
    <3> QED BY <3>6 DEF x, y
  <2> QED BY <2>6, <2>8, <2>11, <2>12
<1> QED BY <1>3, <1>4, <1>5, <1>6
-----------------------------------------------------------------------------
(* Who shares a list                                                       *)

\* The processes with p's list have another one.
Edited(P, L, p, l) == [q \in Procs |-> IF q \in P[p] THEN l ELSE L[q]]

LEMMA EditedFacts ==
  ASSUME NEW P, NEW L, ListsAre(L), PeersAre(P, L), NEW p \in Procs, NEW l, ListOK(l)
  PROVE  ListsAre(Edited(P, L, p, l)) /\ PeersAre(P, Edited(P, L, p, l))
<1> DEFINE M == Edited(P, L, p, l)
<1>1. \A q \in Procs : M[q] = IF q \in P[p] THEN l ELSE L[q]
  BY DEF Edited
<1>2. l \in Seq(Regions)
  BY DEF ListOK
<1>3. M \in [Procs -> Seq(Regions)]
  BY <1>2 DEF Edited, ListsAre
<1> HIDE DEF M
<1>4. \A q \in Procs : ListOK(M[q])
  BY <1>1 DEF ListsAre
<1>5. /\ P \in [Procs -> SUBSET Procs]
      /\ \A q \in Procs : q \in P[q] /\ \A r \in P[q] : P[r] = P[q] /\ L[r] = L[q]
  BY DEF PeersAre, PeersOK
<1>6. ASSUME NEW q \in Procs, NEW r \in P[q]
      PROVE  P[r] = P[q] /\ M[r] = M[q]
  <2>1. P[r] = P[q] /\ L[r] = L[q] /\ r \in Procs
    BY <1>5
  <2>2. q \in P[p] <=> r \in P[p]
    <3>1. q \in P[q] /\ r \in P[r]
      BY <1>5, <2>1
    <3>2. \A s \in P[p] : P[s] = P[p]
      BY <1>5
    <3> QED BY <2>1, <3>1, <3>2
  <2> QED BY <1>1, <2>1, <2>2
<1>7. PeersOK(P, M)
  BY <1>5, <1>6 DEF PeersOK
<1> QED BY <1>3, <1>4, <1>5, <1>7 DEF M, ListsAre, PeersAre

\* p's list is its own, and another one.
Leaving(P, p) == [q \in Procs |-> IF q = p THEN {p} ELSE P[q] \ {p}]

LEMMA LeavingFacts ==
  ASSUME NEW P, NEW L, PeersAre(P, L), NEW p \in Procs,
         NEW M, \A q \in Procs : q # p => M[q] = L[q]
  PROVE  PeersAre(Leaving(P, p), M)
<1> DEFINE Q == Leaving(P, p)
<1>1. /\ P \in [Procs -> SUBSET Procs]
      /\ \A q \in Procs : q \in P[q] /\ \A r \in P[q] : P[r] = P[q] /\ L[r] = L[q]
  BY DEF PeersAre, PeersOK
<1>2. \A q \in Procs : Q[q] = IF q = p THEN {p} ELSE P[q] \ {p}
  BY DEF Leaving
<1>3. Q \in [Procs -> SUBSET Procs]
  BY <1>1 DEF Leaving
<1> HIDE DEF Q
<1>4. ASSUME NEW q \in Procs
      PROVE  q \in Q[q] /\ \A r \in Q[q] : Q[r] = Q[q] /\ M[r] = M[q]
  <2>1. CASE q = p
    BY <1>2, <2>1
  <2>2. CASE q # p
    <3>1. Q[q] = P[q] \ {p} /\ q \in Q[q]
      BY <1>1, <1>2, <2>2
    <3>2. ASSUME NEW r \in Q[q] PROVE Q[r] = Q[q] /\ M[r] = M[q]
      <4>1. r \in P[q] /\ r # p /\ r \in Procs
        BY <1>1, <3>1
      <4>2. P[r] = P[q] /\ L[r] = L[q]
        BY <1>1, <4>1
      <4>3. Q[r] = P[r] \ {p}
        BY <1>2, <4>1
      <4> QED BY <2>2, <3>1, <4>1, <4>2, <4>3
    <3> QED BY <3>1, <3>2
  <2> QED BY <2>1, <2>2
<1>5. PeersOK(Q, M)
  BY <1>4 DEF PeersOK
<1> QED BY <1>3, <1>5 DEF Q, PeersAre

\* c has p's list, with those that have it.
Joining(P, p, c) == [q \in Procs |-> IF q \in P[p] \cup {c} THEN P[p] \cup {c} ELSE P[q]]

LEMMA JoiningFacts ==
  ASSUME NEW P, NEW L, PeersAre(P, L), NEW p \in Procs, NEW c \in Procs,
         P[c] = {c}, L[c] = L[p]
  PROVE  PeersAre(Joining(P, p, c), L)
<1> DEFINE Q == Joining(P, p, c)
           S == P[p] \cup {c}
<1>1. /\ P \in [Procs -> SUBSET Procs]
      /\ \A q \in Procs : q \in P[q] /\ \A r \in P[q] : P[r] = P[q] /\ L[r] = L[q]
  BY DEF PeersAre, PeersOK
<1>2. \A q \in Procs : Q[q] = IF q \in S THEN S ELSE P[q]
  BY DEF Joining
<1>3. Q \in [Procs -> SUBSET Procs]
  BY <1>1 DEF Joining
<1> HIDE DEF Q
<1>4. ASSUME NEW q \in Procs
      PROVE  q \in Q[q] /\ \A r \in Q[q] : Q[r] = Q[q] /\ L[r] = L[q]
  <2>1. CASE q \in S
    <3>1. \A r \in S : r \in Procs /\ L[r] = L[p]
      BY <1>1
    <3> QED BY <1>2, <2>1, <3>1
  <2>2. CASE q \notin S
    <3>1. Q[q] = P[q] /\ q \in Q[q]
      BY <1>1, <1>2, <2>2
    <3>2. ASSUME NEW r \in Q[q] PROVE Q[r] = Q[q] /\ L[r] = L[q]
      <4>1. r \in P[q] /\ r \in Procs /\ P[r] = P[q] /\ L[r] = L[q]
        BY <1>1, <3>1
      <4>2. r \notin P[p]
        <5> SUFFICES ASSUME r \in P[p] PROVE FALSE
          OBVIOUS
        <5>1. P[r] = P[p]
          BY <1>1
        <5> QED BY <1>1, <2>2, <4>1, <5>1
      <4>3. r # c
        <5> SUFFICES ASSUME r = c PROVE FALSE
          OBVIOUS
        <5>1. P[q] = {c}
          BY <4>1
        <5> QED BY <1>1, <2>2, <5>1
      <4> QED BY <1>2, <3>1, <4>1, <4>2, <4>3
    <3> QED BY <3>1, <3>2
  <2> QED BY <2>1, <2>2
<1>5. PeersOK(Q, L)
  BY <1>4 DEF PeersOK
<1> QED BY <1>3, <1>5 DEF Q, PeersAre

\* A new child has its parent's list.
LEMMA NewPeerFacts ==
  ASSUME ListsAre(areas), PeersAre(peers, areas), NEW p \in Procs, NEW c \in Procs, p # c,
         NEW M \in [Procs -> Seq(Regions)],
         \A q \in Procs : M[q] = IF q = c THEN areas[p] ELSE areas[q]
  PROVE  ListsAre(M) /\ PeersAre(NewPeer(p, c), M)
<1> DEFINE Q == Leaving(peers, c)
<1>1. \A q \in Procs : q # c => M[q] = areas[q]
  OBVIOUS
<1>2. ListsAre(M)
  BY DEF ListsAre
<1>3. PeersAre(Q, M)
  BY <1>1, LeavingFacts
<1>4. Apart(c) = Q
  BY DEF Apart, Leaving
<1>5. Q[c] = {c}
  BY DEF Leaving
<1>6. M[c] = M[p]
  OBVIOUS
<1> HIDE DEF Q
<1>7. PeersAre(Joining(Q, p, c), M)
  BY <1>3, <1>5, <1>6, JoiningFacts
<1>8. NewPeer(p, c) = IF areas[p] = <<>> THEN Q ELSE Joining(Q, p, c)
  BY <1>4 DEF NewPeer, Joining
<1> QED BY <1>2, <1>3, <1>7, <1>8

-----------------------------------------------------------------------------
(* What the calls keep                                                     *)

\* Who loses no page keeps its code and its stack.
LEMMA KeepsLast ==
  ASSUME NEW m, NEW n, Keeps(m, n), NEW A \in SUBSET Procs, NEW F, AllLast(m, A, F)
  PROVE  AllLast(n, A, F)
<1> SUFFICES ASSUME NEW q \in A, NEW v \in Pages, v < RODATA_START \/ F[q].stack <= v
             PROVE  Present(n, q, v)
  BY DEF AllLast, Lasting
<1>1. Present(m, q, v)
  BY DEF AllLast, Lasting
<1> QED BY <1>1 DEF Keeps

\* Unmapping pages of RODATA, DATA and the areas takes neither.
LEMMA UnmapLast ==
  ASSUME NEW m, NEW A \in SUBSET Procs, MemOK(m, A), NEW p \in A, NEW vs,
         NEW F, AllLast(m, A, F),
         \A v \in Pages : v \in vs => ~ v < RODATA_START /\ ~ F[p].stack <= v,
         NEW u, u = Unmap(m, p, vs)
  PROVE  MemOK(u, A) /\ AllLast(u, A, F)
<1>1. p \in Procs
  OBVIOUS
<1>2. /\ MemOK(u, A)
      /\ \A v \in Pages, q \in Procs :
           Present(m, q, v) /\ (q # p \/ v \notin vs) => Present(u, q, v)
  BY <1>1, UnmapFacts
<1>3. ASSUME NEW q \in A, NEW v \in Pages, v < RODATA_START \/ F[q].stack <= v
      PROVE  Present(u, q, v)
  <2>1. Present(m, q, v) /\ q \in Procs
    BY <1>3 DEF AllLast, Lasting
  <2>2. q # p \/ v \notin vs
    BY <1>3
  <2> QED BY <1>2, <2>1, <2>2
<1> QED BY <1>2, <1>3 DEF AllLast, Lasting

\* New pages of an area keep what is there.
LEMMA PopulatedFacts ==
  ASSUME NEW m, NEW A \in SUBSET Procs, MemOK(m, A), NEW p \in A, NEW got, NEW n \in Nat,
         got.ret \in Int, got.ret = -1 \/ MMAP_START <= got.ret, NEW prot, NEW populate,
         NEW u, u = Populated(m, p, got, n, prot, populate)
  PROVE  MemOK(u, A) /\ Keeps(m, u)
<1>1. CASE populate /\ got.ret # -1
  <2> DEFINE w == "w" \in prot
             vs == got.ret .. got.ret + n - 1
  <2>1. u = Install(m, p, vs, w, "rw")
    BY <1>1 DEF Populated, MapAll
  <2>2. \A v \in vs : v \in Pages /\ v < DATA_START => ~ w
    <3>1. \A v \in vs : ~ v < DATA_START
      BY <1>1, Layout
    <3> QED BY <3>1
  <2>3. w \in BOOLEAN /\ "rw" \in Rights /\ p \in Procs
    BY DEF Rights
  <2> HIDE DEF w, vs
  <2>4. MemOK(u, A \cup {p}) /\ Keeps(m, u)
    BY <2>1, <2>2, <2>3, InstallFacts
  <2>5. A \cup {p} = A
    OBVIOUS
  <2> QED BY <2>4, <2>5
<1>2. CASE ~ (populate /\ got.ret # -1)
  <2>1. u = m
    BY <1>2 DEF Populated
  <2> QED BY <2>1 DEF Keeps
<1> QED BY <1>1, <1>2

\* What the invariant says of one process.
LEMMA ProcFacts ==
  ASSUME MemInv, NEW p \in Procs
  PROVE  /\ alive \in SUBSET Procs /\ EndsOK(free[p]) /\ ListOK(areas[p])
         /\ free[p].rodata \in Int /\ free[p].data \in Int /\ free[p].stack \in Int
         /\ RODATA_START <= free[p].rodata /\ free[p].rodata <= DATA_START
         /\ DATA_START <= free[p].data /\ free[p].data <= MMAP_START
         /\ STACK_LOW <= free[p].stack /\ free[p].stack <= STACK_START
BY DEF MemInv, EndsAre, ListsAre, EndsOK, Ends

\* A range inside an area of p is no code and no stack.
LEMMA AreaRange ==
  ASSUME MemInv, NEW p \in Procs, NEW i \in 1 .. Len(areas[p]), NEW addr \in Int, NEW n \in Nat,
         areas[p][i].start <= addr, addr + n <= areas[p][i].end
  PROVE  \A v \in Pages : v \in addr .. addr + n - 1 =>
           ~ v < RODATA_START /\ ~ free[p].stack <= v
<1>1. /\ areas[p][i].start \in Int /\ areas[p][i].end \in Int
      /\ MMAP_START <= areas[p][i].start /\ areas[p][i].end <= STACK_LOW
  BY ProcFacts, ListFacts
<1>2. STACK_LOW <= free[p].stack /\ free[p].stack \in Int
  BY ProcFacts
<1> QED BY <1>1, <1>2, Layout

\* A call that stops the model leaves the rest as it is.
LEMMA StopKeeps ==
  ASSUME MemInv, NEW why, Stop(why)
  PROVE  MemInv'
BY DEF Stop, MemInv, EndsAre, ListsAre, PeersAre, PeersOK, AllLast, Lasting

-----------------------------------------------------------------------------
(* The calls                                                               *)

LEMMA MmapKeeps ==
  ASSUME MemInv, NEW p \in Procs, NEW addr \in Int \cup {None}, NEW n \in Nat,
         NEW prot \in SUBSET {"r", "w", "x"}, NEW fixed, NEW populate,
         Mmap(p, addr, n, prot, fixed, populate)
  PROVE  MemInv'
<1> DEFINE got == Mapped(Listed(areas[p]), addr, n, prot, fixed)
<1>1. /\ p \in alive /\ n > 0
      /\ \/ areas[p] = <<>> /\ areas' = [areas EXCEPT ![p] = got.list] /\ peers' = Apart(p)
         \/ Edits(p, got.list) /\ peers' = peers
      /\ mem' = Populated(mem, p, got, n, prot, populate)
      /\ alive' = alive /\ free' = free
  BY DEF Mmap, Calls, Runs, Own
<1>2. /\ ListOK(got.list) /\ got.ret \in Int /\ (got.ret = -1 \/ MMAP_START <= got.ret)
  <2>1. ListOK(Listed(areas[p]))
    BY ProcFacts, ListedFacts
  <2> QED BY <1>1, <2>1, MappedFacts
<1> HIDE DEF got
<1>3. alive \in SUBSET Procs /\ MemOK(mem, alive)
  BY DEF MemInv
<1>4. MemOK(mem', alive) /\ Keeps(mem, mem')
  BY <1>1, <1>2, <1>3, PopulatedFacts
<1>5. AllLast(mem', alive, free)
  <2>1. AllLast(mem, alive, free)
    BY DEF MemInv
  <2> QED BY <1>3, <1>4, <2>1, KeepsLast
<1>6. ListsAre(areas') /\ PeersAre(peers', areas')
  <2>0. ListsAre(areas) /\ PeersAre(peers, areas) /\ got.list \in Seq(Regions)
    BY <1>2 DEF MemInv, ListOK
  <2>1. CASE areas' = [areas EXCEPT ![p] = got.list] /\ peers' = Apart(p)
    <3>1. areas' \in [Procs -> Seq(Regions)] /\ \A q \in Procs : ListOK(areas'[q])
      BY <1>2, <2>0, <2>1 DEF ListsAre
    <3>2. \A q \in Procs : q # p => areas'[q] = areas[q]
      BY <2>1
    <3>3. peers' = Leaving(peers, p)
      BY <2>1 DEF Apart, Leaving
    <3>4. PeersAre(Leaving(peers, p), areas')
      BY <2>0, <3>2, LeavingFacts
    <3> QED BY <3>1, <3>3, <3>4 DEF ListsAre
  <2>2. CASE Edits(p, got.list) /\ peers' = peers
    <3>1. areas' = Edited(peers, areas, p, got.list)
      BY <2>2 DEF Edits, Edited
    <3>2. /\ ListsAre(Edited(peers, areas, p, got.list))
          /\ PeersAre(peers, Edited(peers, areas, p, got.list))
      BY <1>2, <2>0, EditedFacts
    <3> QED BY <2>2, <3>1, <3>2
  <2> QED BY <1>1, <2>1, <2>2
<1> QED BY <1>1, <1>3, <1>4, <1>5, <1>6 DEF MemInv

\* What munmap, and mprotect first, makes of the list and the pages.
LEMMA UnmapsFacts ==
  ASSUME MemInv, NEW p \in alive, NEW addr \in Int, NEW n \in Nat,
         NEW i \in AreaAt(areas[p], addr), Unmaps(p, i, addr, n) = "no",
         NEW u, u = Unmap(mem, p, addr .. addr + n - 1)
  PROVE  /\ ListOK(Unlisted(areas[p], i, addr, EndAddr(addr, n)))
         /\ MemOK(u, alive) /\ AllLast(u, alive, free)
<1>1. /\ alive \in SUBSET Procs /\ MemOK(mem, alive) /\ AllLast(mem, alive, free)
      /\ p \in Procs
  BY DEF MemInv
<1>2. /\ i \in 1 .. Len(areas[p]) /\ areas[p][i].start <= addr /\ addr < areas[p][i].end
  BY DEF AreaAt, Holds
<1>3. ListOK(areas[p])
  BY <1>1, ProcFacts
<1>4. areas[p][i].end \in Int /\ EndAddr(addr, n) = addr + n
  BY <1>2, <1>3, ListFacts DEF EndAddr
<1>5. addr + n <= areas[p][i].end
  <2>1. ~ Inverts(areas[p], i, EndAddr(addr, n))
    BY DEF Unmaps
  <2> QED BY <1>4, <2>1 DEF Inverts
<1>6. ListOK(Unlisted(areas[p], i, addr, EndAddr(addr, n)))
  <2>1. EndAddr(addr, n) \in Int /\ addr <= EndAddr(addr, n) /\ EndAddr(addr, n) <= areas[p][i].end
    BY <1>4, <1>5
  <2> QED BY <1>2, <1>3, <2>1, UnlistedFacts
<1>7. \A v \in Pages : v \in addr .. addr + n - 1 => ~ v < RODATA_START /\ ~ free[p].stack <= v
  BY <1>1, <1>2, <1>5, AreaRange
<1>8. MemOK(u, alive) /\ AllLast(u, alive, free)
  BY <1>1, <1>7, UnmapLast
<1> QED BY <1>6, <1>8

LEMMA MunmapKeeps ==
  ASSUME MemInv, NEW p \in Procs, NEW addr \in Int, NEW n \in Nat, Munmap(p, addr, n)
  PROVE  MemInv'
<1>1. PICK i \in AreaAt(areas[p], addr) :
        \/ Stop(Unmaps(p, i, addr, n))
        \/ /\ Unmaps(p, i, addr, n) = "no"
           /\ Edits(p, Unlisted(areas[p], i, addr, EndAddr(addr, n)))
           /\ mem' = Unmap(mem, p, addr .. addr + n - 1)
           /\ UNCHANGED <<alive, free, peers, lost>>
  BY DEF Munmap
<1>2. CASE Stop(Unmaps(p, i, addr, n))
  BY <1>2, StopKeeps
<1>3. CASE /\ Unmaps(p, i, addr, n) = "no"
           /\ Edits(p, Unlisted(areas[p], i, addr, EndAddr(addr, n)))
           /\ mem' = Unmap(mem, p, addr .. addr + n - 1)
           /\ UNCHANGED <<alive, free, peers, lost>>
  <2> DEFINE l == Unlisted(areas[p], i, addr, EndAddr(addr, n))
  <2>1. p \in alive
    BY DEF Munmap, Calls, Runs
  <2>2. ListOK(l) /\ MemOK(mem', alive) /\ AllLast(mem', alive, free)
    BY <1>3, <2>1, UnmapsFacts
  <2>3. areas' = Edited(peers, areas, p, l)
    BY <1>3 DEF Edits, Edited
  <2>4. ListsAre(Edited(peers, areas, p, l)) /\ PeersAre(peers, Edited(peers, areas, p, l))
    <3>1. ListsAre(areas) /\ PeersAre(peers, areas)
      BY DEF MemInv
    <3> HIDE DEF l
    <3> QED BY <2>2, <3>1, EditedFacts
  <2> HIDE DEF l
  <2> QED BY <1>3, <2>2, <2>3, <2>4 DEF MemInv
<1> QED BY <1>1, <1>2, <1>3

LEMMA MprotectKeeps ==
  ASSUME MemInv, NEW p \in Procs, NEW addr \in Int, NEW n \in Nat,
         NEW prot \in SUBSET {"r", "w", "x"}, Mprotect(p, addr, n, prot)
  PROVE  MemInv'
<1> DEFINE After(i) == Unlisted(areas[p], i, addr, EndAddr(addr, n))
           Got(i) == IF n > 0 THEN Mapped(Listed(After(i)), addr, n, prot, FALSE)
                     ELSE [list |-> After(i), ret |-> -1]
           u == Unmap(mem, p, addr .. addr + n - 1)
           Done(i) == /\ Unmaps(p, i, addr, n) = "no"
                      /\ Edits(p, Got(i).list)
                      /\ mem' = Populated(u, p, Got(i), n, prot, Present(mem, p, addr))
                      /\ UNCHANGED <<alive, free, peers, lost>>
<1>1. PICK i \in AreaAt(areas[p], addr) : Stop(Unmaps(p, i, addr, n)) \/ Done(i)
  BY DEF Mprotect
<1>2. CASE Stop(Unmaps(p, i, addr, n))
  BY <1>2, StopKeeps
<1>3. CASE Done(i)
  <2> DEFINE got == Got(i)
             populate == Present(mem, p, addr)
  <2>1. p \in alive /\ alive \in SUBSET Procs
    BY DEF Mprotect, Calls, Runs, MemInv
  <2>2. ListOK(After(i)) /\ MemOK(u, alive) /\ AllLast(u, alive, free)
    BY <1>3, <2>1, UnmapsFacts
  <2>3. ListOK(got.list) /\ got.ret \in Int /\ (got.ret = -1 \/ MMAP_START <= got.ret)
    <3>1. CASE n > 0
      <4>1. ListOK(Listed(After(i)))
        BY <2>2, ListedFacts
      <4> HIDE DEF After
      <4>2. addr \in Int \cup {None}
        OBVIOUS
      <4> QED BY <3>1, <4>1, <4>2, MappedFacts
    <3>2. CASE ~ n > 0
      <4>1. got.list = After(i) /\ got.ret = -1
        BY <3>2
      <4> HIDE DEF got, Got, After
      <4> QED BY <2>2, <4>1
    <3> QED BY <3>1, <3>2
  <2>4. /\ areas' = Edited(peers, areas, p, got.list)
        /\ mem' = Populated(u, p, got, n, prot, populate)
        /\ alive' = alive /\ free' = free /\ peers' = peers
    BY <1>3 DEF Edits, Edited
  <2> HIDE DEF got, u, populate
  <2>5. MemOK(mem', alive) /\ Keeps(u, mem')
    BY <2>1, <2>2, <2>3, <2>4, PopulatedFacts
  <2>6. AllLast(mem', alive, free)
    BY <2>1, <2>2, <2>5, KeepsLast
  <2>7. /\ ListsAre(Edited(peers, areas, p, got.list))
        /\ PeersAre(peers, Edited(peers, areas, p, got.list))
    <3>1. ListsAre(areas) /\ PeersAre(peers, areas)
      BY DEF MemInv
    <3> QED BY <2>3, <3>1, EditedFacts
  <2> QED BY <2>1, <2>4, <2>5, <2>6, <2>7 DEF MemInv
<1> QED BY <1>1, <1>2, <1>3

\* A process's segments end elsewhere.
EndsBut(F, p, e) == [F EXCEPT ![p] = e]

LEMMA EndsWith ==
  ASSUME NEW F, EndsAre(F), NEW p \in Procs, NEW e, EndsOK(e),
         NEW G, G = EndsBut(F, p, e)
  PROVE  EndsAre(G) /\ G[p] = e /\ \A q \in Procs : q # p => G[q] = F[q]
BY DEF EndsAre, EndsOK, EndsBut

LEMMA SegIs ==
  ASSUME NEW e \in Ends, NEW x \in Int
  PROVE  /\ [e EXCEPT !["rodata"] = x] = [rodata |-> x, data |-> e.data, stack |-> e.stack]
         /\ [e EXCEPT !["data"] = x] = [rodata |-> e.rodata, data |-> x, stack |-> e.stack]
         /\ [e EXCEPT !.stack = x] = [rodata |-> e.rodata, data |-> e.data, stack |-> x]
<1>1. [e EXCEPT !.rodata = x] = [rodata |-> x, data |-> e.data, stack |-> e.stack]
  BY DEF Ends
<1>2. [e EXCEPT !.data = x] = [rodata |-> e.rodata, data |-> x, stack |-> e.stack]
  BY DEF Ends
<1>3. [e EXCEPT !.stack = x] = [rodata |-> e.rodata, data |-> e.data, stack |-> x]
  BY DEF Ends
<1>4. [e EXCEPT !["rodata"] = x] = [e EXCEPT !.rodata = x]
  OBVIOUS
<1>5. [e EXCEPT !["data"] = x] = [e EXCEPT !.data = x]
  OBVIOUS
<1>6. [e EXCEPT !["rodata"] = x] = [rodata |-> x, data |-> e.data, stack |-> e.stack]
  BY <1>1, <1>4, Zenon
<1>7. [e EXCEPT !["data"] = x] = [rodata |-> e.rodata, data |-> x, stack |-> e.stack]
  BY <1>2, <1>5, Zenon
<1> QED BY <1>3, <1>6, <1>7, Zenon

\* Where RODATA or DATA ends now, and where the stack starts still.
SegBut(F, p, seg, x) == [F EXCEPT ![p][seg] = x]

LEMMA SegFacts ==
  ASSUME NEW F, EndsAre(F), NEW p \in Procs, NEW seg \in {"rodata", "data"}, NEW x \in Int,
         Base[seg] <= x, x <= Limit[seg],
         NEW G, G = SegBut(F, p, seg, x)
  PROVE  EndsAre(G) /\ \A q \in Procs : G[q].stack = F[q].stack
<1> DEFINE e == [F[p] EXCEPT ![seg] = x]
<1>1. G = EndsBut(F, p, e)
  BY DEF EndsBut, SegBut
<1>2. /\ F[p] \in Ends /\ EndsOK(F[p])
      /\ F[p].rodata \in Int /\ F[p].data \in Int /\ F[p].stack \in Int
  BY DEF EndsAre, Ends
<1>3. EndsOK(e) /\ e.stack = F[p].stack
  <2>1. CASE seg = "rodata"
    <3>1. RODATA_START <= x /\ x <= DATA_START
      BY <2>1 DEF Base, Limit
    <3>2. e = [rodata |-> x, data |-> F[p].data, stack |-> F[p].stack]
      BY <1>2, <2>1, SegIs
    <3> HIDE DEF e
    <3> QED BY <1>2, <3>1, <3>2 DEF EndsOK, Ends
  <2>2. CASE seg = "data"
    <3>1. DATA_START <= x /\ x <= MMAP_START
      BY <2>2 DEF Base, Limit
    <3>2. e = [rodata |-> F[p].rodata, data |-> x, stack |-> F[p].stack]
      BY <1>2, <2>2, SegIs
    <3> HIDE DEF e
    <3> QED BY <1>2, <3>1, <3>2 DEF EndsOK, Ends
  <2> QED BY <2>1, <2>2
<1> HIDE DEF e
<1>4. EndsAre(G) /\ G[p] = e /\ \A q \in Procs : q # p => G[q] = F[q]
  BY <1>1, <1>3, EndsWith
<1> QED BY <1>3, <1>4

\* Code and stack are there as before if no stack starts elsewhere.
LEMMA SameStacks ==
  ASSUME NEW m, NEW A \in SUBSET Procs, NEW F, NEW G, AllLast(m, A, F),
         \A q \in Procs : G[q].stack = F[q].stack
  PROVE  AllLast(m, A, G)
BY DEF AllLast, Lasting

LEMMA ExpandKeeps ==
  ASSUME MemInv, NEW p \in Procs, NEW seg \in {"rodata", "data"}, NEW n \in Nat,
         Expand(p, seg, n)
  PROVE  MemInv'
<1>1. /\ free[p][seg] + n < Limit[seg] /\ free' = [free EXCEPT ![p][seg] = free[p][seg] + n]
      /\ UNCHANGED <<alive, areas, peers, mem, lost>>
  BY DEF Expand
<1>2. /\ free[p][seg] \in Int /\ Base[seg] <= free[p][seg]
      /\ Limit[seg] \in Int /\ Base[seg] \in Int
  BY ProcFacts, Layout DEF Base, Limit
<1> DEFINE x == free[p][seg] + n
<1>3. x \in Int /\ Base[seg] <= x /\ x <= Limit[seg]
  BY <1>1, <1>2
<1>4. free' = SegBut(free, p, seg, x)
  BY <1>1 DEF SegBut
<1> HIDE DEF x
<1>5. EndsAre(free') /\ \A q \in Procs : free'[q].stack = free[q].stack
  <2>1. EndsAre(free)
    BY DEF MemInv
  <2> QED BY <1>3, <1>4, <2>1, SegFacts
<1>6. AllLast(mem, alive, free')
  <2>1. AllLast(mem, alive, free) /\ alive \in SUBSET Procs
    BY DEF MemInv
  <2> QED BY <1>5, <2>1, SameStacks
<1> QED BY <1>1, <1>5, <1>6 DEF MemInv

LEMMA ShrinkKeeps ==
  ASSUME MemInv, NEW p \in Procs, NEW seg \in {"rodata", "data"}, NEW n \in Nat,
         Shrink(p, seg, n)
  PROVE  MemInv'
<1> DEFINE gone == free[p][seg] - n .. free[p][seg] - 1
           x == free[p][seg] - n
<1>1. \/ Stop("shared frame")
      \/ /\ free' = [free EXCEPT ![p][seg] = x]
         /\ mem' = Unmap(mem, p, gone)
         /\ UNCHANGED <<alive, areas, peers, lost>>
  BY DEF Shrink
<1>2. p \in alive /\ x >= Base[seg]
  BY DEF Shrink, Calls, Runs
<1>3. /\ free[p][seg] \in Int /\ free[p][seg] <= Limit[seg]
      /\ Limit[seg] \in Int /\ Base[seg] \in Int
      /\ RODATA_START <= Base[seg] /\ Limit[seg] <= MMAP_START
      /\ STACK_LOW <= free[p].stack /\ free[p].stack \in Int
  BY ProcFacts, Layout DEF Base, Limit
<1>4. x \in Int /\ Base[seg] <= x /\ x <= Limit[seg]
  BY <1>2, <1>3
<1>5. CASE Stop("shared frame")
  BY <1>5, StopKeeps
<1>6. CASE /\ free' = [free EXCEPT ![p][seg] = x]
           /\ mem' = Unmap(mem, p, gone)
           /\ UNCHANGED <<alive, areas, peers, lost>>
  <2>0. /\ EndsAre(free) /\ alive \in SUBSET Procs /\ MemOK(mem, alive)
        /\ AllLast(mem, alive, free)
    BY DEF MemInv
  <2>1. \A v \in Pages : v \in gone => ~ v < RODATA_START /\ ~ free[p].stack <= v
    BY <1>2, <1>3, Layout
  <2>5. free' = SegBut(free, p, seg, x)
    BY <1>6 DEF SegBut
  <2> HIDE DEF x, gone
  <2>2. EndsAre(free') /\ \A q \in Procs : free'[q].stack = free[q].stack
    BY <1>4, <2>0, <2>5, SegFacts
  <2>3. MemOK(mem', alive) /\ AllLast(mem', alive, free)
    BY <1>2, <1>6, <2>0, <2>1, UnmapLast
  <2>4. AllLast(mem', alive, free')
    BY <2>0, <2>2, <2>3, SameStacks
  <2> QED BY <1>6, <2>0, <2>2, <2>3, <2>4 DEF MemInv
<1> QED BY <1>1, <1>5, <1>6

-----------------------------------------------------------------------------
(* Faults and exits                                                        *)

\* The pages of a fault are there then.
LEMMA FaultPages ==
  ASSUME NEW p \in alive, MemInv, NEW vs, NEW w \in BOOLEAN, NEW rights \in Rights,
         \A v \in vs : v \in Pages /\ v < DATA_START => ~ w,
         NEW i, i = Install(mem, p, vs, w, rights)
  PROVE  /\ MemOK(i, alive) /\ AllLast(i, alive, free) /\ Keeps(mem, i)
         /\ \A v \in Pages : v \in vs => Present(i, p, v)
<1>1. p \in Procs /\ alive \in SUBSET Procs /\ MemOK(mem, alive) /\ AllLast(mem, alive, free)
  BY DEF MemInv
<1>2. /\ MemOK(i, alive \cup {p}) /\ Keeps(mem, i)
      /\ \A v \in Pages : v \in vs => Present(i, p, v)
  BY <1>1, InstallFacts
<1>3. alive \cup {p} = alive
  OBVIOUS
<1>4. AllLast(i, alive, free)
  BY <1>1, <1>2, KeepsLast
<1> QED BY <1>2, <1>3, <1>4

LEMMA FaultAbsentKeeps ==
  ASSUME MemInv, NEW p \in Procs, NEW v \in Pages, NEW store \in BOOLEAN,
         FaultAbsent(p, v, store)
  PROVE  MemInv'
<1>1. /\ p \in alive /\ Served(p, v, store)
      /\ alive' = alive /\ areas' = areas /\ peers' = peers
  BY DEF FaultAbsent, Runs
<1>2. /\ v \in Int /\ 0 <= v /\ v < STACK_START
      /\ v \in InRodata <=> RODATA_START <= v /\ v < DATA_START
      /\ v \in InData <=> DATA_START <= v /\ v < MMAP_START
      /\ v \in InMmap <=> MMAP_START <= v /\ v < STACK_LOW
      /\ v \in InStack <=> STACK_LOW <= v
  BY PageFacts
<1>3. /\ EndsAre(free) /\ ListsAre(areas) /\ PeersAre(peers, areas)
      /\ alive \in SUBSET Procs /\ MemOK(mem, alive) /\ AllLast(mem, alive, free)
  BY DEF MemInv
<1>4. CASE v \in InStack
  <2> DEFINE vs == v .. free[p].stack - 1
             e == [free[p] EXCEPT !.stack = v]
             yes == TRUE
  <2>1. mem' = Install(mem, p, vs, yes, "rw") /\ free' = EndsBut(free, p, e)
    <3>1. mem' = MapAll(mem, p, vs, TRUE)
      <4>1. v \notin InMmap
        BY <1>2, <1>4, Layout
      <4> HIDE DEF vs
      <4> QED BY <1>4, <4>1, Zenon DEF FaultAbsent, vs
    <3>2. free' = EndsBut(free, p, e)
      BY <1>4 DEF FaultAbsent, EndsBut
    <3> QED BY <3>1, <3>2 DEF MapAll
  <2>2. \A x \in vs : x \in Pages /\ x < DATA_START => ~ yes
    BY <1>2, <1>4, Layout
  <2>3. "rw" \in Rights /\ yes \in BOOLEAN
    BY DEF Rights
  <2>4. /\ free[p] \in Ends /\ EndsOK(free[p]) /\ free[p].stack \in Int
        /\ free[p].rodata \in Int /\ free[p].data \in Int
    BY <1>3 DEF EndsAre, Ends
  <2>5. e = [rodata |-> free[p].rodata, data |-> free[p].data, stack |-> v]
    BY <1>2, <2>4, SegIs
  <2>6. \A x \in Pages : v <= x => x \in vs \/ free[p].stack <= x
    BY <1>2, <2>4, PageFacts
  <2> HIDE DEF e, vs, yes
  <2>7. EndsOK(e) /\ e.stack = v
    <3>1. e.rodata = free[p].rodata /\ e.data = free[p].data /\ e.stack = v
      BY <2>5
    <3>2. e \in Ends
      BY <1>2, <2>4, <2>5 DEF Ends
    <3>3. v <= STACK_START /\ STACK_LOW <= v
      BY <1>2, <1>4, Layout
    <3> QED BY <2>4, <3>1, <3>2, <3>3 DEF EndsOK
  <2>8. EndsAre(free') /\ free'[p] = e /\ \A q \in Procs : q # p => free'[q] = free[q]
    BY <1>3, <2>1, <2>7, EndsWith
  <2>9. /\ MemOK(mem', alive) /\ AllLast(mem', alive, free)
        /\ \A x \in Pages : x \in vs => Present(mem', p, x)
    BY <1>1, <2>1, <2>2, <2>3, FaultPages
  <2>10. AllLast(mem', alive, free')
    <3> SUFFICES ASSUME NEW q \in alive, NEW x \in Pages,
                        x < RODATA_START \/ free'[q].stack <= x
                 PROVE  Present(mem', q, x)
      BY DEF AllLast, Lasting
    <3>1. x < RODATA_START \/ free[q].stack <= x => Present(mem', q, x)
      BY <2>9 DEF AllLast, Lasting
    <3>2. CASE q # p
      <4>1. free'[q] = free[q]
        BY <1>3, <2>8, <3>2
      <4> QED BY <3>1, <4>1
    <3>3. CASE q = p /\ ~ x < RODATA_START
      <4>1. v <= x
        BY <2>7, <2>8, <3>3
      <4> QED BY <2>6, <2>9, <3>1, <3>3, <4>1
    <3>4. CASE x < RODATA_START
      BY <3>1, <3>4
    <3> QED BY <3>2, <3>3, <3>4
  <2> QED BY <1>1, <1>3, <2>8, <2>9, <2>10 DEF MemInv
<1>5. CASE v \notin InStack
  <2>0. free' = free
    BY <1>5 DEF FaultAbsent
  <2> DEFINE w == IF v \in InMmap THEN "w" \in areas[p][First(AreaAt(areas[p], v))].prot
                  ELSE store
             rights == IF w THEN "rw" ELSE "ro"
             vs == {v}
  <2>1. mem' = Install(mem, p, vs, w, rights)
    <3>1. CASE v \in InMmap
      BY <1>5, <3>1 DEF FaultAbsent, InstallPageTable
    <3>2. CASE v \notin InMmap
      BY <1>5, <3>2 DEF FaultAbsent, InstallPageTable
    <3> QED BY <3>1, <3>2
  <2>2. \A x \in vs : x \in Pages /\ x < DATA_START => ~ w
    <3>1. v < DATA_START => v \notin InMmap /\ v \notin InData
      BY <1>2, Layout
    <3>2. v < DATA_START => ~ store
      BY <1>1, <1>5, <3>1 DEF Served
    <3> QED BY <3>1, <3>2
  <2>3. rights \in Rights /\ w \in BOOLEAN
    <3>1. rights \in Rights
      BY DEF Rights
    <3>2. CASE v \in InMmap
      BY <3>1, <3>2
    <3>3. CASE v \notin InMmap
      <4>1. w = store
        BY <3>3
      <4> HIDE DEF w
      <4> QED BY <3>1, <4>1
    <3> QED BY <3>2, <3>3
  <2> HIDE DEF w, rights, vs
  <2>4. MemOK(mem', alive) /\ AllLast(mem', alive, free)
    BY <1>1, <2>1, <2>2, <2>3, FaultPages
  <2> QED BY <1>1, <1>3, <2>0, <2>4 DEF MemInv
<1> QED BY <1>4, <1>5

LEMMA FaultCowKeeps ==
  ASSUME MemInv, NEW p \in Procs, NEW v \in Pages, FaultCow(p, v)
  PROVE  MemInv'
<1>1. \/ Stop("no area")
      \/ /\ v \in InData \/ v \in InMmap
         /\ mem' = Copied(mem, p, v)
         /\ UNCHANGED <<alive, free, areas, peers, lost>>
  BY DEF FaultCow
<1>2. CASE Stop("no area")
  BY <1>2, StopKeeps
<1>3. CASE /\ v \in InData \/ v \in InMmap
           /\ mem' = Copied(mem, p, v)
           /\ UNCHANGED <<alive, free, areas, peers, lost>>
  <2>1. ~ v < DATA_START
    BY <1>3, PageFacts, Layout
  <2>2. /\ p \in alive /\ Present(mem, p, v) /\ alive \in SUBSET Procs /\ MemOK(mem, alive)
        /\ AllLast(mem, alive, free)
    BY DEF FaultCow, Runs, MemInv
  <2>3. MemOK(mem', alive) /\ Keeps(mem, mem')
    BY <1>3, <2>1, <2>2, CopiedMemFacts
  <2>4. AllLast(mem', alive, free)
    BY <2>2, <2>3, KeepsLast
  <2> QED BY <1>3, <2>3, <2>4 DEF MemInv
<1> QED BY <1>1, <1>2, <1>3

LEMMA ExitKeeps ==
  ASSUME MemInv, NEW p \in Procs, Exit(p)
  PROVE  MemInv'
<1>1. /\ alive' = alive \ {p}
      /\ mem' = [Unmap(mem, p, Pages) EXCEPT !.upper[p] = "none"]
      /\ UNCHANGED <<free, areas, peers, lost>>
  BY DEF Exit
<1>2. alive \in SUBSET Procs /\ MemOK(mem, alive) /\ AllLast(mem, alive, free)
  BY DEF MemInv
<1>3. /\ MemOK(mem', alive \ {p})
      /\ \A v \in Pages, q \in Procs : Present(mem, q, v) /\ q # p => Present(mem', q, v)
  BY <1>1, <1>2, ExitFacts
<1>4. AllLast(mem', alive \ {p}, free)
  <2> SUFFICES ASSUME NEW q \in alive \ {p}, NEW v \in Pages,
                      v < RODATA_START \/ free[q].stack <= v
               PROVE  Present(mem', q, v)
    BY DEF AllLast, Lasting
  <2>1. Present(mem, q, v) /\ q \in Procs /\ q # p
    BY <1>2 DEF AllLast, Lasting
  <2> QED BY <1>3, <2>1
<1> QED BY <1>1, <1>2, <1>3, <1>4 DEF MemInv

-----------------------------------------------------------------------------
(* Processes                                                               *)

\* A child has what its parent had, and the others have what they had.
LEMMA ChildKeeps ==
  ASSUME MemInv, NEW p \in Procs, NEW c \in Procs, NewChild(p, c),
         MemOK(mem', alive \cup {c}), Keeps(mem, mem'), Lasting(mem', c, free[p])
  PROVE  MemInv'
<1>1. /\ p \in alive /\ c \notin alive /\ alive' = alive \cup {c}
      /\ free' = EndsBut(free, c, free[p])
      /\ areas' = [areas EXCEPT ![c] = areas[p]] /\ peers' = NewPeer(p, c)
  BY DEF NewChild, Calls, Runs, EndsBut
<1>2. /\ EndsAre(free) /\ ListsAre(areas) /\ PeersAre(peers, areas)
      /\ alive \in SUBSET Procs /\ AllLast(mem, alive, free)
  BY DEF MemInv
<1>3. EndsAre(free') /\ free'[c] = free[p] /\ \A q \in Procs : q # c => free'[q] = free[q]
  <2>1. EndsOK(free[p])
    BY <1>2 DEF EndsAre
  <2> QED BY <1>1, <1>2, <2>1, EndsWith
<1>4. ListsAre(areas') /\ PeersAre(peers', areas')
  <2>1. areas' \in [Procs -> Seq(Regions)]
    BY <1>1, <1>2 DEF ListsAre
  <2>2. \A q \in Procs : areas'[q] = IF q = c THEN areas[p] ELSE areas[q]
    BY <1>1, <1>2 DEF ListsAre
  <2>3. p # c
    BY <1>1
  <2>4. ListsAre(areas') /\ PeersAre(NewPeer(p, c), areas')
    BY <1>2, <2>1, <2>2, <2>3, NewPeerFacts
  <2> QED BY <1>1, <2>4
<1>5. AllLast(mem', alive, free)
  BY <1>2, KeepsLast
<1>6. AllLast(mem', alive \cup {c}, free')
  <2> SUFFICES ASSUME NEW q \in alive \cup {c}
               PROVE  Lasting(mem', q, free'[q])
    BY DEF AllLast
  <2>1. CASE q = c
    BY <1>3, <2>1
  <2>2. CASE q # c
    <3>1. q \in alive /\ free'[q] = free[q]
      BY <1>2, <1>3, <2>2
    <3> QED BY <1>5, <3>1 DEF AllLast
  <2> QED BY <2>1, <2>2
<1>7. alive' \subseteq Procs
  BY <1>1, <1>2
<1> QED BY <1>1, <1>3, <1>4, <1>6, <1>7 DEF MemInv

LEMMA ForkKeeps ==
  ASSUME MemInv, NEW p \in Procs, NEW c \in Procs, Fork(p, c)
  PROVE  MemInv'
<1>1. NewChild(p, c) /\ mem' = CopyMm(mem, p, c)
  BY DEF Fork
<1>2. p \in alive /\ c \in Procs \ alive
  BY <1>1 DEF NewChild, Calls, Runs
<1>3. /\ alive \in SUBSET Procs /\ MemOK(mem, alive) /\ EndsOK(free[p])
      /\ Lasting(mem, p, free[p])
  BY <1>2 DEF MemInv, EndsAre, AllLast
<1>4. MemOK(mem', alive \cup {c}) /\ Keeps(mem, mem') /\ Lasting(mem', c, free[p])
  BY <1>1, <1>2, <1>3, CopyMmFacts
<1> QED BY <1>1, <1>4, ChildKeeps

LEMMA CforkKeeps ==
  ASSUME MemInv, NEW p \in Procs, NEW c \in Procs, Cfork(p, c)
  PROVE  MemInv'
<1>1. NewChild(p, c) /\ mem' = CforkCopyMm(mem, p, c)
  BY DEF Cfork
<1>2. p \in alive /\ c \in Procs \ alive
  BY <1>1 DEF NewChild, Calls, Runs
<1>3. /\ alive \in SUBSET Procs /\ MemOK(mem, alive) /\ EndsOK(free[p])
      /\ Lasting(mem, p, free[p])
  BY <1>2 DEF MemInv, EndsAre, AllLast
<1>4. MemOK(mem', alive \cup {c}) /\ Keeps(mem, mem') /\ Lasting(mem', c, free[p])
  BY <1>1, <1>2, <1>3, CforkCopyMmFacts
<1> QED BY <1>1, <1>4, ChildKeeps

\* The segments of a program that was just loaded.
LEMMA FreshFacts == Fresh \in Ends /\ EndsOK(Fresh)
BY Layout DEF Fresh, Ends, EndsOK

LEMMA FirstIsProc == FirstProc \in Procs
BY SegmentAssumption

LEMMA LaunchKeeps ==
  ASSUME MemInv, Launch
  PROVE  MemInv'
<1>1. /\ alive' = {FirstProc} /\ free' = EndsBut(free, FirstProc, Fresh)
      /\ mem' = Loaded(FirstProc)
      /\ areas' = areas /\ peers' = peers
  BY DEF Launch, EndsBut
<1>2. EndsAre(free')  /\ free'[FirstProc] = Fresh
  <2>1. EndsAre(free)
    BY DEF MemInv
  <2> QED BY <1>1, <2>1, FreshFacts, FirstIsProc, EndsWith
<1>3. MemOK(mem', {FirstProc}) /\ Lasting(mem', FirstProc, Fresh)
  BY <1>1, FirstIsProc, LoadedFacts
<1>4. AllLast(mem', alive', free')
  BY <1>1, <1>2, <1>3 DEF AllLast
<1>5. ListsAre(areas') /\ PeersAre(peers', areas') /\ alive' \subseteq Procs
  BY <1>1, FirstIsProc DEF MemInv
<1> QED BY <1>1, <1>2, <1>3, <1>4, <1>5 DEF MemInv

-----------------------------------------------------------------------------
(* The theorems                                                            *)

LEMMA InitMem ==
  ASSUME Init
  PROVE  MemInv
<1>1. alive = {FirstProc} /\ alive \subseteq Procs
  BY FirstIsProc DEF Init
<1>2. EndsAre(free) /\ free[FirstProc] = Fresh
  BY FreshFacts, FirstIsProc DEF Init, EndsAre
<1>3. ListsAre(areas) /\ PeersAre(peers, areas)
  BY DEF Init, ListsAre, ListOK, PeersAre, PeersOK
<1>4. MemOK(mem, alive) /\ AllLast(mem, alive, free)
  <2>1. mem = Loaded(FirstProc)
    BY DEF Init
  <2>2. MemOK(Loaded(FirstProc), {FirstProc}) /\ Lasting(Loaded(FirstProc), FirstProc, Fresh)
    BY FirstIsProc, LoadedFacts
  <2> QED BY <1>1, <1>2, <2>1, <2>2 DEF AllLast
<1> QED BY <1>1, <1>2, <1>3, <1>4 DEF MemInv

\* What the processes ask for: pages of the region, lengths and protections.
LEMMA Asked ==
  /\ \A addr \in InMmap : addr \in Int
  /\ \A n \in Lengths : n \in Nat
  /\ \A prot \in Prots : prot \in SUBSET {"r", "w", "x"}
<1>1. \A addr \in InMmap : addr \in Int
  BY Layout DEF InMmap
<1> QED BY <1>1, SegmentAssumption

LEMMA NextMem ==
  ASSUME MemInv, [Next]_vars
  PROVE  MemInv'
<1>1. ASSUME NEW p \in Procs, NEW addr \in InMmap \cup {None}, NEW n \in Lengths,
             NEW prot \in Prots, NEW fixed \in BOOLEAN, NEW populate \in BOOLEAN,
             Mmap(p, addr, n, prot, fixed, populate)
      PROVE  MemInv'
  <2>1. addr \in Int \cup {None} /\ n \in Nat /\ prot \in SUBSET {"r", "w", "x"}
    BY Asked
  <2> QED BY <1>1, <2>1, MmapKeeps
<1>2. ASSUME NEW p \in Procs, NEW addr \in InMmap, NEW n \in Lengths, Munmap(p, addr, n)
      PROVE  MemInv'
  BY <1>2, Asked, MunmapKeeps
<1>3. ASSUME NEW p \in Procs, NEW addr \in InMmap, NEW n \in Lengths, NEW prot \in Prots,
             Mprotect(p, addr, n, prot)
      PROVE  MemInv'
  <2>1. addr \in Int /\ n \in Nat /\ prot \in SUBSET {"r", "w", "x"}
    BY Asked
  <2> QED BY <1>3, <2>1, MprotectKeeps
<1>4. ASSUME NEW p \in Procs, NEW seg \in {"rodata", "data"}, NEW n \in Lengths,
             Expand(p, seg, n) \/ Shrink(p, seg, n)
      PROVE  MemInv'
  BY <1>4, Asked, ExpandKeeps, ShrinkKeeps
<1>5. ASSUME NEW p \in Procs, NEW c \in Procs, Fork(p, c) \/ Cfork(p, c)
      PROVE  MemInv'
  BY <1>5, ForkKeeps, CforkKeeps
<1>6. ASSUME NEW p \in Procs, NEW v \in Pages, NEW store \in BOOLEAN, FaultAbsent(p, v, store)
      PROVE  MemInv'
  BY <1>6, FaultAbsentKeeps
<1>7. ASSUME NEW p \in Procs, NEW v \in Pages, FaultCow(p, v)
      PROVE  MemInv'
  BY <1>7, FaultCowKeeps
<1>8. ASSUME NEW p \in Procs, Exit(p) \/ Segfault(p)
      PROVE  MemInv'
  BY <1>8, ExitKeeps DEF Segfault
<1>9. ASSUME Launch
      PROVE  MemInv'
  BY <1>9, LaunchKeeps
<1>10. CASE Next
  BY <1>1, <1>2, <1>3, <1>4, <1>5, <1>6, <1>7, <1>8, <1>9, <1>10 DEF Next
<1>11. CASE UNCHANGED vars
  BY <1>11 DEF vars, MemInv, EndsAre, ListsAre, PeersAre, PeersOK, AllLast, Lasting
<1> QED BY <1>10, <1>11

\* The frames, the ends of the segments and the lists are what MemInv says, in
\* every state, whatever the processes ask for (context.c, mmap.c, cfork.c).
THEOREM Invariance == Spec => []MemInv
<1>1. Init => MemInv
  BY InitMem
<1>2. MemInv /\ [Next]_vars => MemInv'
  BY NextMem
<1> QED BY <1>1, <1>2, PTL DEF Spec

\* A buffer that is_valid_mem_range lets pass is there page by page, or the
\* fault handler brings what is missing, for segments of any size: the code
\* and the stack in use are never taken from a process, and the lists of areas
\* never reach beyond their region (tracer.c:142, entry_helpers.c:425).
THEOREM BuffersAreThere == Spec => []CheckSound
<1>1. ASSUME MemInv, NEW p \in alive, NEW v \in Pages, NEW store \in BOOLEAN,
             ~ Present(mem, p, v), ~ Served(p, v, store),
             NEW first \in {v - 1, v}, NEW last \in {v, v + 1},
             IsValidMemRange(p, first, last, store)
      PROVE  FALSE
  <2>1. /\ v \in Int /\ 0 <= v /\ v < STACK_START
        /\ v \in InRodata <=> RODATA_START <= v /\ v < DATA_START
        /\ v \in InData <=> DATA_START <= v /\ v < MMAP_START
        /\ v \in InMmap <=> MMAP_START <= v /\ v < STACK_LOW
        /\ v \in InStack <=> STACK_LOW <= v
    BY PageFacts
  <2>2. first \in Int /\ last \in Int /\ first <= v /\ v <= last
    BY <2>1
  <2>3. p \in Procs
    BY <1>1 DEF MemInv
  <2>4. ~ v < RODATA_START /\ ~ free[p].stack <= v
    BY <1>1 DEF MemInv, AllLast, Lasting
  <2>5. /\ EndsOK(free[p]) /\ ListOK(areas[p])
        /\ free[p].rodata \in Int /\ free[p].data \in Int /\ free[p].stack \in Int
        /\ RODATA_START <= free[p].rodata /\ free[p].rodata <= DATA_START
        /\ DATA_START <= free[p].data /\ free[p].data <= MMAP_START
        /\ STACK_LOW <= free[p].stack /\ free[p].stack <= STACK_START
    BY <1>1, <2>3, ProcFacts
  <2>6. CASE InMmSegment(p, first, last, store)
    <3>1. CASE Within(first, last, CODE_START, RODATA_START)
      BY <2>1, <2>2, <2>4, <3>1, Layout DEF Within
    <3>2. CASE Within(first, last, RODATA_START, free[p].rodata) /\ ~ store
      <4>1. v \in InRodata /\ v < free[p].rodata
        BY <2>1, <2>2, <2>4, <2>5, <3>2, Layout DEF Within
      <4> QED BY <1>1, <3>2, <4>1 DEF Served
    <3>3. CASE WithinData(p, first, last)
      <4>1. v \in InData /\ v < free[p].data
        BY <2>1, <2>2, <2>5, <3>3, Layout DEF WithinData, Within
      <4> QED BY <1>1, <4>1 DEF Served
    <3>4. CASE Within(first, last, STACK_LOW, STACK_START)
      <4>1. v < free[p].stack
        BY <2>1, <2>4, <2>5
      <4>2. CASE v \in InStack
        BY <1>1, <4>1, <4>2 DEF Served
      <4>3. CASE v \notin InStack
        BY <2>1, <2>2, <3>4, <4>3, Layout DEF Within
      <4> QED BY <4>2, <4>3
    <3> QED BY <2>6, <3>1, <3>2, <3>3, <3>4 DEF InMmSegment
  <2>7. CASE InVmaSegment(p, first, last, store)
    <3>1. PICK i \in 1 .. Len(areas[p]) :
            /\ Within(first, last, areas[p][i].start, areas[p][i].end)
            /\ (IF store THEN "w" ELSE "r") \in areas[p][i].prot
      BY <2>7 DEF InVmaSegment
    <3>2. /\ areas[p][i].start \in Int /\ areas[p][i].end \in Int
          /\ MMAP_START <= areas[p][i].start /\ areas[p][i].end <= STACK_LOW
      BY <2>5, ListFacts
    <3>3. areas[p][i].start <= v /\ v < areas[p][i].end
      BY <2>1, <2>2, <3>1, <3>2 DEF Within
    <3>4. v \in InMmap /\ i \in AreaAt(areas[p], v)
      BY <2>1, <3>2, <3>3, Layout DEF AreaAt, Holds
    <3>5. ~ store \/ areas[p][i].prot \cap {"w", "x"} # {}
      BY <3>1
    <3> QED BY <1>1, <3>4, <3>5 DEF Served, AreaServes
  <2> QED BY <1>1, <2>6, <2>7 DEF IsValidMemRange
<1>2. MemInv => CheckSound
  BY <1>1 DEF CheckSound
<1> QED BY <1>2, Invariance, PTL

\* A page that may be written without a fault is one process's alone, and a
\* count is never below the number of processes that map the frame, for any
\* number of processes that fork, cfork, fault and exit (cfork.c:9-179).
THEOREM WritablePagesArePrivate == Spec => []WritablePrivate
<1>1. ASSUME MemInv, NEW v \in Pages, NEW f \in mem.frames[v]
      PROVE  /\ f.w # {} => f.w = f.by /\ Cardinality(f.by) = 1
             /\ v >= DATA_START => Cardinality(f.by) <= f.count
  <2>1. FrameOK(f, alive, v) /\ v \in Int
    BY <1>1, PageFacts DEF MemInv, MemOK, PageOK
  <2>2. f.w # {} => f.w = f.by /\ Cardinality(f.by) = 1
    <3> SUFFICES ASSUME NEW p \in f.w PROVE f.w = f.by /\ Cardinality(f.by) = 1
      OBVIOUS
    <3>1. f.by = {p} /\ f.w \subseteq f.by
      BY <2>1 DEF FrameOK
    <3>2. Cardinality({p}) = 1
      BY FS_Singleton
    <3> QED BY <3>1, <3>2
  <2>3. v >= DATA_START => Cardinality(f.by) <= f.count
    BY <2>1, Layout DEF FrameOK
  <2> QED BY <2>2, <2>3
<1>2. MemInv => WritablePrivate
  BY <1>1 DEF WritablePrivate
<1> QED BY <1>2, Invariance, PTL

\* The areas of a list are in order, apart, not empty and inside the region,
\* and processes that share a list see the same one, for any lengths, hints
\* and protections they ask for (mmap.c:32-141, 193-366).
THEOREM AreasStayApart == Spec => []AreasApart
<1>1. ASSUME MemInv, NEW p \in Procs
      PROVE  /\ \A i \in 1 .. Len(areas[p]) :
                  /\ areas[p][i].start < areas[p][i].end
                  /\ MMAP_START <= areas[p][i].start /\ areas[p][i].end <= GapEnd(areas[p], i)
             /\ \A q \in peers[p] : areas[q] = areas[p]
  BY <1>1 DEF MemInv, ListsAre, ListOK, PeersAre, PeersOK
<1>2. MemInv => AreasApart
  BY <1>1 DEF AreasApart
<1> QED BY <1>2, Invariance, PTL
=============================================================================
