------------------------------ MODULE CowProofs ------------------------------
(***************************************************************************)
(* Proofs about Cow, for any processes, segments and areas: counts are     *)
(* exact, a page that can be written without a fault is private, entries   *)
(* grant no more than areas do, the kernel's checks hold, and a fault      *)
(* lets its instruction through.  The last part shows that Cow implements  *)
(* PrivateMemory.                                                          *)
(*                                                                         *)
(* A frame is named for a page, and only that page's entries lead to it.   *)
(* So a process has one entry at most for a frame, and the count of the    *)
(* frame is the number of processes that share it.                         *)
(***************************************************************************)
EXTENDS Cow, FiniteSetTheorems, FunctionTheorems, TLAPS

Tables == [Procs -> [Pages -> Entries \cup {None}]]

\* The processes that frame f is shared by, in the tables t.
Sharers(t, f) == {p \in Procs : t[p][f[1]] # None /\ t[p][f[1]].pfn = f}

\* Entries of a page lead to frames of that page.
Home(t) ==
  /\ t \in Tables
  /\ \A p \in Procs, v \in Pages : t[p][v] # None => t[p][v].pfn[1] = v

Counts(t, r, fr) ==
  /\ r \in [Frames -> Nat] /\ fr \subseteq Frames
  /\ \A f \in Frames :
       r[f] = Cardinality(Sharers(t, f)) /\ (f \in fr <=> Sharers(t, f) = {})

\* A frame that one process may store into has no other.
Private(t) ==
  \A p \in Procs, v \in Pages :
    t[p][v] # None /\ t[p][v].w => Sharers(t, t[p][v].pfn) = {p}

-----------------------------------------------------------------------------
(* Pages, entries and frames                                               *)

LEMMA PageFacts ==
  /\ DataStart \in Nat /\ AreaStart \in Nat /\ StackStart \in Nat /\ StackTop \in Nat
  /\ 1 <= DataStart /\ DataStart < AreaStart /\ AreaStart <= StackStart /\ StackStart <= StackTop
BY CowAssumption DEF DataStart, AreaStart, StackStart, StackTop

\* The segments are parts of the address space, apart from each other.
LEMMA SegmentFacts ==
  /\ CodePages \subseteq Pages /\ DataPages \subseteq Pages
  /\ AreaPages \subseteq Pages /\ StackPages \subseteq Pages
  /\ CodePages \cap DataPages = {} /\ CodePages \cap AreaPages = {}
  /\ CodePages \cap StackPages = {} /\ DataPages \cap AreaPages = {}
  /\ DataPages \cap StackPages = {} /\ AreaPages \cap StackPages = {}
BY PageFacts DEF CodePages, DataPages, AreaPages, StackPages, Pages

LEMMA EntryFacts ==
  ASSUME NEW f \in Frames, NEW w \in BOOLEAN
  PROVE  /\ Entry(f, w) \in Entries /\ Entry(f, w) # None
         /\ Entry(f, w).pfn = f /\ Entry(f, w).w = w
BY EntryAssumption DEF Entry, Entries

LEMMA FrameFacts ==
  ASSUME NEW f \in Frames
  PROVE  f[1] \in Pages
BY DEF Frames

\* What an entry leads to.
LEMMA MappedFacts ==
  ASSUME NEW t, Home(t), NEW p \in Procs, NEW v \in Pages, t[p][v] # None
  PROVE  /\ t[p][v] \in Entries /\ t[p][v].pfn \in Frames /\ t[p][v].w \in BOOLEAN
         /\ t[p][v].pfn[1] = v /\ p \in Sharers(t, t[p][v].pfn)
<1>1. t[p][v] \in Entries
  BY DEF Home, Tables
<1>2. t[p][v].pfn \in Frames /\ t[p][v].w \in BOOLEAN
  BY <1>1 DEF Entries
<1> QED BY <1>1, <1>2 DEF Home, Sharers

LEMMA SharersFinite ==
  ASSUME NEW t, NEW f
  PROVE  IsFiniteSet(Sharers(t, f)) /\ Cardinality(Sharers(t, f)) \in Nat
<1>1. Sharers(t, f) \in SUBSET Procs
  BY DEF Sharers
<1> QED BY <1>1, CowAssumption, FS_Subset, FS_CardinalityType

\* A process has a frame at most once: put_pfn counts it down by one or none.
LEMMA UsesFacts ==
  ASSUME Home(pte), NEW p \in Procs, NEW pages \in SUBSET Pages, NEW f \in Frames
  PROVE  Uses(p, pages, f) = IF f[1] \in pages /\ p \in Sharers(pte, f) THEN 1 ELSE 0
<1> DEFINE here == {v \in pages : Maps(p, v, f)}
<1>1. \A v \in here : v = f[1]
  BY DEF Maps, Mapped, Home
<1>2. f[1] \in here <=> f[1] \in pages /\ p \in Sharers(pte, f)
  BY DEF Maps, Mapped, Sharers
<1>3. here = IF f[1] \in pages /\ p \in Sharers(pte, f) THEN {f[1]} ELSE {}
  BY <1>1, <1>2
<1>4. Cardinality({f[1]}) = 1 /\ Cardinality({}) = 0
  BY FS_Singleton, FS_EmptySet
<1> QED BY <1>3, <1>4 DEF Uses

-----------------------------------------------------------------------------
(* How the counts follow a change of one entry for each frame              *)

\* Frame by frame, from the tables t, counts r and free frames fr to u, s and
\* g: nothing changes, p leaves the sharers, or p joins them.
Stays(t, r, fr, u, s, g, f) ==
  Sharers(u, f) = Sharers(t, f) /\ s[f] = r[f] /\ (f \in g <=> f \in fr)

Leaves(t, r, fr, u, s, g, f, p) ==
  /\ p \in Sharers(t, f) /\ Sharers(u, f) = Sharers(t, f) \ {p} /\ s[f] = r[f] - 1
  /\ f \in g <=> f \in fr \/ s[f] = 0

Joins(t, r, fr, u, s, g, f, p) ==
  /\ p \notin Sharers(t, f) /\ Sharers(u, f) = Sharers(t, f) \cup {p}
  /\ s[f] = r[f] + 1 /\ f \notin g

LEMMA CountsFollow ==
  ASSUME NEW t, NEW r, NEW fr, Counts(t, r, fr), NEW u, NEW s, NEW g, NEW p,
         DOMAIN s = Frames, s = [f \in Frames |-> s[f]], g \subseteq Frames,
         \A f \in Frames : \/ Stays(t, r, fr, u, s, g, f)
                           \/ Leaves(t, r, fr, u, s, g, f, p)
                           \/ Joins(t, r, fr, u, s, g, f, p)
  PROVE  Counts(u, s, g)
<1>1. ASSUME NEW f \in Frames
      PROVE  s[f] \in Nat /\ s[f] = Cardinality(Sharers(u, f))
             /\ (f \in g <=> Sharers(u, f) = {})
  <2>1. r[f] = Cardinality(Sharers(t, f)) /\ r[f] \in Nat /\ (f \in fr <=> Sharers(t, f) = {})
    BY DEF Counts
  <2>2. /\ IsFiniteSet(Sharers(t, f)) /\ IsFiniteSet(Sharers(u, f))
        /\ Cardinality(Sharers(u, f)) \in Nat
    BY SharersFinite
  <2>3. Cardinality(Sharers(u, f)) = 0 <=> Sharers(u, f) = {}
    BY <2>2, FS_EmptySet
  <2>4. CASE Stays(t, r, fr, u, s, g, f)
    BY <2>1, <2>4 DEF Stays
  <2>5. CASE Leaves(t, r, fr, u, s, g, f, p)
    <3>1. Cardinality(Sharers(u, f)) = r[f] - 1
      BY <2>1, <2>2, <2>5, FS_RemoveElement DEF Leaves
    <3>2. f \notin fr
      BY <2>1, <2>5 DEF Leaves
    <3> QED BY <2>2, <2>3, <2>5, <3>1, <3>2 DEF Leaves
  <2>6. CASE Joins(t, r, fr, u, s, g, f, p)
    <3>1. Cardinality(Sharers(u, f)) = r[f] + 1
      BY <2>1, <2>2, <2>6, FS_AddElement DEF Joins
    <3> QED BY <2>2, <2>6, <3>1 DEF Joins
  <2> QED BY <1>1, <2>4, <2>5, <2>6
<1> QED BY <1>1 DEF Counts

\* A count of one or less says that nobody shares.
LEMMA CountFacts ==
  ASSUME NEW t, NEW r, NEW fr, Counts(t, r, fr), NEW f \in Frames
  PROVE  /\ r[f] \in Nat
         /\ f \in fr => r[f] = 0
         /\ \A p \in Sharers(t, f) : r[f] >= 1 /\ (r[f] <= 1 => Sharers(t, f) = {p})
         /\ \A p : Sharers(t, f) = {p} => r[f] = 1
<1>1. r[f] = Cardinality(Sharers(t, f)) /\ r[f] \in Nat /\ (f \in fr <=> Sharers(t, f) = {})
  BY DEF Counts
<1>2. IsFiniteSet(Sharers(t, f))
  BY SharersFinite
<1>3. r[f] = 0 <=> Sharers(t, f) = {}
  BY <1>1, <1>2, FS_EmptySet
<1>4. r[f] = 1 <=> \E x : Sharers(t, f) = {x}
  BY <1>1, <1>2, FS_Singleton
<1>5. ASSUME NEW p \in Sharers(t, f), r[f] <= 1 PROVE Sharers(t, f) = {p}
  <2>1. r[f] = 1
    BY <1>1, <1>3, <1>5
  <2> QED BY <1>4, <1>5, <2>1
<1>6. \A p \in Sharers(t, f) : r[f] >= 1
  BY <1>1, <1>3
<1> QED BY <1>1, <1>3, <1>4, <1>5, <1>6

-----------------------------------------------------------------------------
(* Tables in which one process has another row                             *)

Row(t, p, row) == [t EXCEPT ![p] = row]

Rows == [Pages -> Entries \cup {None}]

\* Entry e of p's page v may come into the tables t: it leads to a frame of
\* the page, which p had there or nobody may store into, and it may be stored
\* through only if nobody else has the frame.
Comes(t, p, v, e) ==
  /\ e \in Entries /\ e.pfn[1] = v
  /\ \/ t[p][v] # None /\ t[p][v].pfn = e.pfn
     \/ \A q \in Procs : t[q][v] # None /\ t[q][v].pfn = e.pfn => ~t[q][v].w
  /\ e.w => Sharers(t, e.pfn) \subseteq {p}

LEMMA RowFacts ==
  ASSUME NEW t, Home(t), NEW p \in Procs, NEW row \in Rows
  PROVE  /\ Row(t, p, row) \in Tables /\ Row(t, p, row)[p] = row
         /\ \A q \in Procs : q # p => Row(t, p, row)[q] = t[q]
         /\ \A f \in Frames :
              Sharers(Row(t, p, row), f) =
                IF row[f[1]] # None /\ row[f[1]].pfn = f THEN Sharers(t, f) \cup {p}
                ELSE Sharers(t, f) \ {p}
<1> DEFINE u == Row(t, p, row)
<1>1. t \in [Procs -> Rows]
  BY DEF Home, Tables, Rows
<1>2. u \in [Procs -> Rows] /\ u[p] = row /\ \A q \in Procs : q # p => u[q] = t[q]
  BY <1>1 DEF Row
<1>3. ASSUME NEW f \in Frames
      PROVE  Sharers(u, f) = IF row[f[1]] # None /\ row[f[1]].pfn = f
                             THEN Sharers(t, f) \cup {p} ELSE Sharers(t, f) \ {p}
  BY <1>2 DEF Sharers
<1> QED BY <1>2, <1>3 DEF Tables, Rows

LEMMA RowComes ==
  ASSUME NEW t, Home(t), Private(t), NEW p \in Procs, NEW row \in Rows,
         \A v \in Pages : row[v] # None => Comes(t, p, v, row[v])
  PROVE  Home(Row(t, p, row)) /\ Private(Row(t, p, row))
<1> DEFINE u == Row(t, p, row)
<1>1. /\ u \in Tables /\ u[p] = row /\ \A q \in Procs : q # p => u[q] = t[q]
      /\ \A f \in Frames :
           Sharers(u, f) = IF row[f[1]] # None /\ row[f[1]].pfn = f THEN Sharers(t, f) \cup {p}
                           ELSE Sharers(t, f) \ {p}
  BY RowFacts
<1>2. Home(u)
  <2> SUFFICES ASSUME NEW q \in Procs, NEW v \in Pages, u[q][v] # None
               PROVE  u[q][v].pfn[1] = v
    BY <1>1 DEF Home
  <2>1. CASE q = p
    BY <1>1, <2>1 DEF Comes
  <2>2. CASE q # p
    BY <1>1, <2>2 DEF Home
  <2> QED BY <2>1, <2>2
<1>3. ASSUME NEW q \in Procs, NEW v \in Pages, u[q][v] # None, u[q][v].w
      PROVE  Sharers(u, u[q][v].pfn) = {q}
  <2> DEFINE f == u[q][v].pfn
  <2>1. f \in Frames /\ f[1] = v /\ q \in Sharers(u, f)
    BY <1>2, <1>3, MappedFacts
  <2>2. CASE q = p
    <3>1. Sharers(t, f) \subseteq {p}
      BY <1>1, <1>3, <2>2 DEF Comes
    <3> QED BY <1>1, <2>1, <2>2, <3>1
  <2>3. CASE q # p
    <3>1. t[q][v] # None /\ t[q][v].w /\ t[q][v].pfn = f
      BY <1>1, <1>3, <2>3
    <3>2. Sharers(t, f) = {q}
      BY <3>1 DEF Private
    <3>3. ~(row[v] # None /\ row[v].pfn = f)
      <4> SUFFICES ASSUME row[v] # None, row[v].pfn = f PROVE FALSE
        OBVIOUS
      <4>1. t[p][v] # None /\ t[p][v].pfn = f
        BY <3>1 DEF Comes
      <4>2. p \in Sharers(t, f)
        BY <2>1, <4>1 DEF Sharers
      <4> QED BY <2>3, <3>2, <4>2
    <3> QED BY <1>1, <2>1, <2>3, <3>2, <3>3
  <2> QED BY <2>2, <2>3
<1> QED BY <1>2, <1>3 DEF Private

\* An entry that stays as it is, or loses its write bit, comes.
LEMMA OldComes ==
  ASSUME NEW t, Home(t), Private(t), NEW p \in Procs, NEW v \in Pages, t[p][v] # None,
         NEW e \in Entries, e.pfn = t[p][v].pfn, e.w => t[p][v].w
  PROVE  Comes(t, p, v, e)
<1>1. t[p][v].pfn[1] = v
  BY DEF Home
<1>2. e.w => Sharers(t, e.pfn) = {p}
  BY DEF Private
<1> QED BY <1>1, <1>2 DEF Comes

\* So does one for a frame that nobody has.
LEMMA FreshComes ==
  ASSUME NEW t, NEW p \in Procs, NEW v \in Pages,
         NEW f \in Frames, f[1] = v, Sharers(t, f) = {}, NEW w \in BOOLEAN
  PROVE  Comes(t, p, v, Entry(f, w))
<1>1. /\ Entry(f, w) \in Entries /\ Entry(f, w).pfn = f
  BY EntryFacts
<1>2. \A q \in Procs : ~(t[q][v] # None /\ t[q][v].pfn = f)
  BY DEF Sharers
<1> QED BY <1>1, <1>2 DEF Comes

-----------------------------------------------------------------------------
(* What the kernel's operators on frames keep                              *)

Kept(t, r, fr) == Home(t) /\ Counts(t, r, fr) /\ Private(t)

\* Giving up pages: the counts suffice, and the entries go.
LEMMA DropFacts ==
  ASSUME Kept(pte, ref, free), NEW p \in Procs, NEW pages \in SUBSET Pages
  PROVE  /\ ~PutFails(p, pages)
         /\ Drop(p, pages) =>
              /\ Kept(pte, ref, free)'
              /\ pte' = Row(pte, p, [v \in Pages |-> IF v \in pages THEN None ELSE pte[p][v]])
<1> DEFINE row == [v \in Pages |-> IF v \in pages THEN None ELSE pte[p][v]]
<1>1. Home(pte) /\ Counts(pte, ref, free) /\ Private(pte)
  BY DEF Kept
<1>2. \A f \in Frames : Uses(p, pages, f) = IF f[1] \in pages /\ p \in Sharers(pte, f) THEN 1 ELSE 0
  BY <1>1, UsesFacts
<1>3. ASSUME NEW f \in Frames PROVE ref[f] \in Nat /\ ref[f] >= Uses(p, pages, f)
  BY <1>1, <1>2, CountFacts
<1>4. ASSUME Drop(p, pages) PROVE Kept(pte, ref, free)' /\ pte' = Row(pte, p, row)
  <2>1. row \in Rows
    BY <1>1 DEF Home, Tables, Rows
  <2>2. pte' = Row(pte, p, row)
    BY <1>4 DEF Drop, Clear, Row
  <2>3. \A v \in Pages : row[v] # None => Comes(pte, p, v, row[v])
    BY <1>1, <2>1, OldComes DEF Rows
  <2>4. Home(pte') /\ Private(pte')
    BY <1>1, <2>1, <2>2, <2>3, RowComes
  <2>5. ref' = [f \in Frames |-> ref[f] - Uses(p, pages, f)]
    BY <1>4 DEF Drop
  <2>6. free' = free \cup {f \in Frames : Uses(p, pages, f) > 0 /\ ref'[f] = 0}
    BY <1>4 DEF Drop, GiveBack
  <2>7. ASSUME NEW f \in Frames
        PROVE  \/ Stays(pte, ref, free, pte', ref', free', f)
               \/ Leaves(pte, ref, free, pte', ref', free', f, p)
    <3>1. f[1] \in Pages
      BY FrameFacts
    <3>2. Sharers(pte', f) = IF row[f[1]] # None /\ row[f[1]].pfn = f THEN Sharers(pte, f) \cup {p}
                             ELSE Sharers(pte, f) \ {p}
      <4> HIDE DEF row
      <4> QED BY <1>1, <2>1, <2>2, RowFacts
    <3>3. ref'[f] = ref[f] - Uses(p, pages, f) /\ ref[f] \in Nat
      BY <1>3, <2>5
    <3>4. f \in free' <=> f \in free \/ (Uses(p, pages, f) > 0 /\ ref'[f] = 0)
      BY <2>6
    <3>5. CASE f[1] \in pages /\ p \in Sharers(pte, f)
      <4>1. Uses(p, pages, f) = 1
        BY <1>2, <3>5
      <4>2. row[f[1]] = None
        BY <3>1, <3>5
      <4> QED BY <3>2, <3>3, <3>4, <3>5, <4>1, <4>2 DEF Leaves
    <3>6. CASE ~(f[1] \in pages /\ p \in Sharers(pte, f))
      <4>1. Uses(p, pages, f) = 0
        BY <1>2, <3>6
      <4>2. Sharers(pte', f) = Sharers(pte, f)
        BY <3>1, <3>2, <3>6 DEF Sharers
      <4> QED BY <3>3, <3>4, <4>1, <4>2 DEF Stays
    <3> QED BY <3>5, <3>6
  <2>8. Counts(pte', ref', free')
    <3>1. DOMAIN ref' = Frames /\ ref' = [f \in Frames |-> ref'[f]] /\ free' \subseteq Frames
      BY <1>1, <2>5, <2>6 DEF Counts
    <3> QED BY <1>1, <2>7, <3>1, CountsFollow
  <2> QED BY <2>2, <2>4, <2>8 DEF Kept
<1>5. ~PutFails(p, pages)
  <2>1. \A f \in Frames : ref[f] \in Nat /\ ref[f] >= Uses(p, pages, f)
    BY <1>3
  <2>2. \A f \in Frames : Uses(p, pages, f) \in Nat
    BY <1>2
  <2> QED BY <2>1, <2>2 DEF PutFails
<1> QED BY <1>4, <1>5

\* The frame get_free_page finds.
LEMMA NewFrameFacts ==
  ASSUME Kept(pte, ref, free), NEW pages \in SUBSET Pages, CanAlloc(pages)
  PROVE  /\ ~AllocFails(pages)
         /\ \A v \in pages : /\ NewFrame(v) \in free /\ NewFrame(v) \in Frames
                             /\ NewFrame(v)[1] = v /\ Sharers(pte, NewFrame(v)) = {}
<1>1. Counts(pte, ref, free)
  BY DEF Kept
<1>2. ASSUME NEW v \in pages
      PROVE  /\ NewFrame(v) \in free /\ NewFrame(v) \in Frames
             /\ NewFrame(v)[1] = v /\ Sharers(pte, NewFrame(v)) = {} /\ ref[NewFrame(v)] = 0
  <2>1. \E f \in free : f[1] = v
    BY DEF CanAlloc
  <2>2. NewFrame(v) \in free /\ NewFrame(v)[1] = v
    BY <2>1 DEF NewFrame
  <2>3. NewFrame(v) \in Frames
    BY <1>1, <2>2 DEF Counts
  <2>4. Sharers(pte, NewFrame(v)) = {} /\ ref[NewFrame(v)] = Cardinality(Sharers(pte, NewFrame(v)))
    BY <1>1, <2>2, <2>3 DEF Counts
  <2>5. ref[NewFrame(v)] = 0
    BY <2>4, FS_EmptySet
  <2> QED BY <2>2, <2>3, <2>4, <2>5
<1> QED BY <1>2 DEF AllocFails, NewFrames

\* Pages that q did not have get fresh frames.
LEMMA FreshFacts ==
  ASSUME Kept(pte, ref, free), NEW q \in Procs, NEW pages \in SUBSET Pages, CanAlloc(pages),
         \A v \in pages : pte[q][v] = None,
         NEW w, \A v \in pages : w[v] \in BOOLEAN,
         pte' = Row(pte, q, [v \in Pages |-> IF v \in pages THEN Entry(NewFrame(v), w[v])
                                             ELSE pte[q][v]]),
         Alloc(pages)
  PROVE  Kept(pte, ref, free)'
<1> DEFINE row == [v \in Pages |-> IF v \in pages THEN Entry(NewFrame(v), w[v]) ELSE pte[q][v]]
<1>1. Home(pte) /\ Counts(pte, ref, free) /\ Private(pte)
  BY DEF Kept
<1>2. \A v \in pages : /\ NewFrame(v) \in free /\ NewFrame(v) \in Frames
                       /\ NewFrame(v)[1] = v /\ Sharers(pte, NewFrame(v)) = {}
  BY NewFrameFacts
<1>3. \A v \in pages : /\ Entry(NewFrame(v), w[v]) \in Entries /\ Entry(NewFrame(v), w[v]) # None
                       /\ Entry(NewFrame(v), w[v]).pfn = NewFrame(v)
  BY <1>2, EntryFacts
<1>4. row \in Rows
  BY <1>1, <1>3 DEF Home, Tables, Rows
<1>5. ASSUME NEW v \in Pages, row[v] # None PROVE Comes(pte, q, v, row[v])
  <2>1. CASE v \in pages
    <3>1. row[v] = Entry(NewFrame(v), w[v])
      BY <2>1
    <3> HIDE DEF row
    <3> QED BY <1>2, <2>1, <3>1, FreshComes
  <2>2. CASE v \notin pages
    <3>1. row[v] = pte[q][v] /\ row[v] \in Entries
      BY <1>4, <1>5, <2>2 DEF Rows
    <3> HIDE DEF row
    <3> QED BY <1>1, <1>5, <3>1, OldComes
  <2> QED BY <2>1, <2>2
<1>6. pte' = Row(pte, q, row)
  OBVIOUS
<1>7. \A v \in Pages : row[v] = IF v \in pages THEN Entry(NewFrame(v), w[v]) ELSE pte[q][v]
  OBVIOUS
<1> HIDE DEF row
<1>8. Home(pte') /\ Private(pte')
  BY <1>1, <1>4, <1>5, <1>6, RowComes
<1>9. /\ ref' = [f \in Frames |-> IF f \in NewFrames(pages) THEN 1 ELSE ref[f]]
      /\ free' = free \ NewFrames(pages)
  BY DEF Alloc
<1>10. ASSUME NEW f \in Frames
       PROVE  \/ Stays(pte, ref, free, pte', ref', free', f)
              \/ Joins(pte, ref, free, pte', ref', free', f, q)
  <2>1. f[1] \in Pages
    BY FrameFacts
  <2>2. Sharers(pte', f) = IF row[f[1]] # None /\ row[f[1]].pfn = f THEN Sharers(pte, f) \cup {q}
                           ELSE Sharers(pte, f) \ {q}
    <3>1. Sharers(Row(pte, q, row), f) =
            IF row[f[1]] # None /\ row[f[1]].pfn = f THEN Sharers(pte, f) \cup {q}
            ELSE Sharers(pte, f) \ {q}
      BY <1>1, <1>4, RowFacts
    <3> QED BY <1>6, <3>1, Zenon
  <2>3. CASE f \in NewFrames(pages)
    <3>1. PICK v \in pages : f = NewFrame(v)
      BY <2>3 DEF NewFrames
    <3>2. f[1] = v /\ f \in free /\ Sharers(pte, f) = {}
      BY <1>2, <3>1
    <3>3. row[f[1]] # None /\ row[f[1]].pfn = f
      BY <1>3, <1>7, <2>1, <3>1, <3>2
    <3>4. ref[f] = 0
      BY <1>1, <3>2, CountFacts
    <3> QED BY <1>9, <2>2, <2>3, <3>2, <3>3, <3>4 DEF Joins
  <2>4. CASE f \notin NewFrames(pages)
    <3>1. Sharers(pte', f) = Sharers(pte, f)
      <4>1. CASE f[1] \in pages
        <5>1. row[f[1]].pfn # f
          BY <1>3, <1>7, <2>1, <2>4, <4>1 DEF NewFrames
        <5>2. q \notin Sharers(pte, f)
          BY <4>1 DEF Sharers
        <5> QED BY <2>2, <5>1, <5>2
      <4>2. CASE f[1] \notin pages
        BY <1>7, <2>1, <2>2, <4>2 DEF Sharers
      <4> QED BY <4>1, <4>2
    <3> QED BY <1>9, <2>4, <3>1 DEF Stays
  <2> QED BY <2>3, <2>4
<1>11. Counts(pte', ref', free')
  <2>1. DOMAIN ref' = Frames /\ ref' = [f \in Frames |-> ref'[f]] /\ free' \subseteq Frames
    BY <1>1, <1>9 DEF Counts
  <2> QED BY <1>1, <1>10, <2>1, CountsFollow
<1> QED BY <1>8, <1>11 DEF Kept

\* Entries that lead where they led, writable only for a frame's one owner.
LEMMA SameFrames ==
  ASSUME NEW t, NEW r, NEW fr, Kept(t, r, fr), NEW p \in Procs, NEW row \in Rows,
         \A v \in Pages : /\ row[v] = None <=> t[p][v] = None
                          /\ row[v] # None =>
                               /\ row[v].pfn = t[p][v].pfn
                               /\ row[v].w => Sharers(t, row[v].pfn) = {p}
  PROVE  /\ Kept(Row(t, p, row), r, fr)
         /\ \A f \in Frames : Sharers(Row(t, p, row), f) = Sharers(t, f)
<1>1. Home(t) /\ Counts(t, r, fr) /\ Private(t)
  BY DEF Kept
<1>2. ASSUME NEW v \in Pages, row[v] # None PROVE Comes(t, p, v, row[v])
  <2>1. row[v] \in Entries /\ t[p][v] # None /\ row[v].pfn[1] = v
    BY <1>1, <1>2 DEF Rows, Home
  <2> QED BY <1>2, <2>1 DEF Comes
<1>3. Home(Row(t, p, row)) /\ Private(Row(t, p, row))
  BY <1>1, <1>2, RowComes
<1>4. ASSUME NEW f \in Frames PROVE Sharers(Row(t, p, row), f) = Sharers(t, f)
  <2>1. f[1] \in Pages
    BY FrameFacts
  <2>2. Sharers(Row(t, p, row), f) = IF row[f[1]] # None /\ row[f[1]].pfn = f
                                     THEN Sharers(t, f) \cup {p} ELSE Sharers(t, f) \ {p}
    BY <1>1, RowFacts
  <2>3. p \in Sharers(t, f) <=> row[f[1]] # None /\ row[f[1]].pfn = f
    BY <2>1 DEF Sharers
  <2> QED BY <2>2, <2>3
<1>5. Counts(Row(t, p, row), r, fr)
  BY <1>1, <1>4 DEF Counts
<1> QED BY <1>3, <1>4, <1>5 DEF Kept

\* The single owner of a frame may store into it.
LEMMA LastOwnerFacts ==
  ASSUME Kept(pte, ref, free), NEW p \in Procs, NEW v \in Pages, Mapped(p, v),
         ref[pte[p][v].pfn] <= 1, LastOwner(p, v)
  PROVE  /\ Kept(pte, ref, free)'
         /\ pte' = Row(pte, p, [pte[p] EXCEPT ![v] = Entry(pte[p][v].pfn, TRUE)])
<1> DEFINE row == [pte[p] EXCEPT ![v] = Entry(pte[p][v].pfn, TRUE)]
<1>1. Home(pte) /\ Counts(pte, ref, free) /\ Private(pte) /\ pte[p] \in Rows
  BY DEF Kept, Home, Tables, Rows
<1>2. /\ pte[p][v] \in Entries /\ pte[p][v].pfn \in Frames
      /\ p \in Sharers(pte, pte[p][v].pfn)
  BY <1>1, MappedFacts DEF Mapped
<1>3. Sharers(pte, pte[p][v].pfn) = {p}
  BY <1>1, <1>2, CountFacts
<1>4. /\ Entry(pte[p][v].pfn, TRUE) \in Entries /\ Entry(pte[p][v].pfn, TRUE) # None
      /\ Entry(pte[p][v].pfn, TRUE).pfn = pte[p][v].pfn
  BY <1>2, EntryFacts
<1>5. row \in Rows /\ row[v] = Entry(pte[p][v].pfn, TRUE)
      /\ \A u \in Pages : u # v => row[u] = pte[p][u]
  BY <1>1, <1>4 DEF Rows
<1>6. pte' = Row(pte, p, row)
  BY DEF LastOwner, SetEntry, Row
<1>7. ref' = ref /\ free' = free
  BY DEF LastOwner
<1> HIDE DEF row
<1>8. ASSUME NEW u \in Pages
      PROVE  /\ row[u] = None <=> pte[p][u] = None
             /\ row[u] # None =>
                  /\ row[u].pfn = pte[p][u].pfn
                  /\ row[u].w => Sharers(pte, row[u].pfn) = {p}
  <2>1. CASE u = v
    BY <1>3, <1>4, <1>5, <2>1 DEF Mapped
  <2>2. CASE u # v
    <3>1. row[u] = pte[p][u]
      BY <1>5, <2>2
    <3> QED BY <1>1, <3>1 DEF Private
  <2> QED BY <2>1, <2>2
<1>9. Kept(Row(pte, p, row), ref, free)
  BY <1>5, <1>8, SameFrames
<1>10. Kept(pte', ref', free')
  BY <1>6, <1>7, <1>9
<1> QED BY <1>6, <1>10 DEF row

\* A shared frame is copied for the process that stores.
LEMMA CopyFrameFacts ==
  ASSUME Kept(pte, ref, free), NEW p \in Procs, NEW v \in Pages, Mapped(p, v),
         ref[pte[p][v].pfn] > 1, CanAlloc({v}), Writable(p, v), CopyFrame(p, v)
  PROVE  /\ Kept(pte, ref, free)'
         /\ pte' = Row(pte, p, [pte[p] EXCEPT ![v] = Entry(NewFrame(v), TRUE)])
         /\ NewFrame(v) \in Frames
<1> DEFINE new == NewFrame(v)
           old == pte[p][v].pfn
           row == [pte[p] EXCEPT ![v] = Entry(new, TRUE)]
<1>1. Home(pte) /\ Counts(pte, ref, free) /\ Private(pte) /\ pte[p] \in Rows
  BY DEF Kept, Home, Tables, Rows
<1>2. new \in free /\ new \in Frames /\ new[1] = v /\ Sharers(pte, new) = {}
  BY NewFrameFacts
<1>3. old \in Frames /\ old[1] = v /\ p \in Sharers(pte, old) /\ old # new
  BY <1>1, <1>2, MappedFacts DEF Mapped
<1>4. Entry(new, TRUE) \in Entries /\ Entry(new, TRUE) # None /\ Entry(new, TRUE).pfn = new
  BY <1>2, EntryFacts
<1>5. row \in Rows /\ row[v] = Entry(new, TRUE) /\ \A u \in Pages : u # v => row[u] = pte[p][u]
  BY <1>1, <1>4 DEF Rows
<1>6. pte' = Row(pte, p, row)
  <2>1. Writable(p, v) = TRUE
    BY DEF Writable
  <2>2. SetEntry(p, v, new, TRUE)
    BY <2>1 DEF CopyFrame
  <2> QED BY <2>2 DEF SetEntry, Row
<1>7. free' = free \ {new}
  BY DEF CopyFrame
<1>8. ref \in [Frames -> Nat] /\ ref' = [ref EXCEPT ![new] = 1, ![old] = ref[old] - 1]
  BY <1>1, <1>3 DEF CopyFrame, Counts
<1>9. ref[old] > 1
  OBVIOUS
<1> HIDE DEF row, new, old
<1>10. ASSUME NEW u \in Pages, row[u] # None PROVE Comes(pte, p, u, row[u])
  <2>1. CASE u = v
    BY <1>2, <1>5, <2>1, FreshComes
  <2>2. CASE u # v
    <3>1. row[u] = pte[p][u] /\ row[u] \in Entries
      BY <1>5, <1>10, <2>2 DEF Rows
    <3> QED BY <1>1, <1>10, <3>1, OldComes
  <2> QED BY <2>1, <2>2
<1>11. Home(pte') /\ Private(pte')
  BY <1>1, <1>5, <1>6, <1>10, RowComes
<1>12. \A f \in Frames : ref'[f] = IF f = new THEN 1 ELSE IF f = old THEN ref[f] - 1 ELSE ref[f]
  BY <1>2, <1>3, <1>8
<1>13. ref' \in [Frames -> Int]
  BY <1>2, <1>3, <1>8
<1>14. ASSUME NEW f \in Frames
       PROVE  \/ Stays(pte, ref, free, pte', ref', free', f)
              \/ Leaves(pte, ref, free, pte', ref', free', f, p)
              \/ Joins(pte, ref, free, pte', ref', free', f, p)
  <2>1. Sharers(pte', f) = IF row[f[1]] # None /\ row[f[1]].pfn = f THEN Sharers(pte, f) \cup {p}
                           ELSE Sharers(pte, f) \ {p}
    <3>1. Sharers(Row(pte, p, row), f) =
            IF row[f[1]] # None /\ row[f[1]].pfn = f THEN Sharers(pte, f) \cup {p}
            ELSE Sharers(pte, f) \ {p}
      BY <1>1, <1>5, RowFacts
    <3> QED BY <1>6, <3>1, Zenon
  <2>2. CASE f = new
    <3>1. ref[f] = 0
      BY <1>1, <1>2, <2>2, CountFacts
    <3>2. row[f[1]] # None /\ row[f[1]].pfn = f
      BY <1>2, <1>4, <1>5, <2>2
    <3> QED BY <1>2, <1>7, <1>12, <2>1, <2>2, <3>1, <3>2 DEF Joins
  <2>3. CASE f = old
    <3>1. row[f[1]].pfn # f
      BY <1>3, <1>4, <1>5, <2>3
    <3>2. f \notin free
      BY <1>1, <1>3, <2>3 DEF Counts
    <3>3. ref'[f] = ref[f] - 1 /\ ref'[f] # 0
      BY <1>3, <1>8, <1>9, <1>12, <2>3
    <3> QED BY <1>3, <1>7, <2>1, <2>3, <3>1, <3>2, <3>3 DEF Leaves
  <2>4. CASE f # new /\ f # old
    <3>1. Sharers(pte', f) = Sharers(pte, f)
      <4>1. CASE f[1] = v
        <5>1. row[f[1]].pfn # f
          BY <1>4, <1>5, <2>4, <4>1
        <5>2. p \notin Sharers(pte, f)
          BY <2>4, <4>1 DEF Sharers, old
        <5> QED BY <2>1, <5>1, <5>2
      <4>2. CASE f[1] # v
        <5>1. row[f[1]] = pte[p][f[1]]
          BY <1>5, <4>2, FrameFacts
        <5> QED BY <2>1, <5>1 DEF Sharers
      <4> QED BY <4>1, <4>2
    <3> QED BY <1>7, <1>12, <2>4, <3>1 DEF Stays
  <2> QED BY <2>2, <2>3, <2>4
<1>15. Counts(pte', ref', free')
  <2>1. DOMAIN ref' = Frames /\ ref' = [f \in Frames |-> ref'[f]] /\ free' \subseteq Frames
    BY <1>1, <1>7, <1>13 DEF Counts
  <2> QED BY <1>1, <1>14, <2>1, CountsFollow
<1>16. Kept(pte', ref', free')
  BY <1>11, <1>15 DEF Kept
<1> QED BY <1>2, <1>6, <1>16 DEF row, new

\* Only frames with one owner become writable by mprotect; a writable page
\* has a frame with one owner.
LEMMA ReprotectFacts ==
  ASSUME Kept(pte, ref, free), NEW p \in Procs, NEW pages \in SUBSET Pages, NEW prot
  PROVE  /\ ~ReprotectFails(p, pages)
         /\ Reprotect(p, pages, prot) /\ UNCHANGED <<ref, free>> =>
              /\ Kept(pte, ref, free)'
              /\ pte' = Row(pte, p,
                   [v \in Pages |-> IF v \in pages /\ Mapped(p, v) /\ ref[pte[p][v].pfn] = 1
                                    THEN Entry(pte[p][v].pfn, prot = "rw") ELSE pte[p][v]])
<1> DEFINE alone(v) == v \in pages /\ Mapped(p, v) /\ ref[pte[p][v].pfn] = 1
           row == [v \in Pages |-> IF alone(v) THEN Entry(pte[p][v].pfn, prot = "rw")
                                   ELSE pte[p][v]]
<1>1. Home(pte) /\ Counts(pte, ref, free) /\ Private(pte) /\ pte[p] \in Rows
  BY DEF Kept, Home, Tables, Rows
<1>2. ASSUME NEW v \in Pages, Mapped(p, v)
      PROVE  /\ pte[p][v] \in Entries /\ pte[p][v].pfn \in Frames
             /\ ref[pte[p][v].pfn] \in Nat /\ p \in Sharers(pte, pte[p][v].pfn)
             /\ ref[pte[p][v].pfn] = 1 => Sharers(pte, pte[p][v].pfn) = {p}
             /\ pte[p][v].w => Sharers(pte, pte[p][v].pfn) = {p} /\ ref[pte[p][v].pfn] = 1
  <2>1. pte[p][v] \in Entries /\ pte[p][v].pfn \in Frames /\ p \in Sharers(pte, pte[p][v].pfn)
    BY <1>1, <1>2, MappedFacts DEF Mapped
  <2>2. pte[p][v].w => Sharers(pte, pte[p][v].pfn) = {p}
    BY <1>1, <1>2 DEF Private, Mapped
  <2> QED BY <1>1, <2>1, <2>2, CountFacts
<1>3. ~ReprotectFails(p, pages)
  BY <1>2 DEF ReprotectFails, CanStore
<1>4. ASSUME Reprotect(p, pages, prot), UNCHANGED <<ref, free>>
      PROVE  Kept(pte, ref, free)' /\ pte' = Row(pte, p, row)
  <2>1. \A v \in Pages : alone(v) =>
          /\ Entry(pte[p][v].pfn, prot = "rw") \in Entries
          /\ Entry(pte[p][v].pfn, prot = "rw") # None
          /\ Entry(pte[p][v].pfn, prot = "rw").pfn = pte[p][v].pfn
    BY <1>2, EntryFacts
  <2>2. row \in Rows
    BY <1>1, <2>1 DEF Rows
  <2>3. pte' = Row(pte, p, row)
    BY <1>4 DEF Reprotect, Row
  <2>4. ASSUME NEW v \in Pages
        PROVE  /\ row[v] = None <=> pte[p][v] = None
               /\ row[v] # None =>
                    /\ row[v].pfn = pte[p][v].pfn
                    /\ row[v].w => Sharers(pte, row[v].pfn) = {p}
    <3>1. CASE alone(v)
      BY <1>2, <2>1, <3>1 DEF Mapped
    <3>2. CASE ~alone(v)
      <4>1. row[v] = pte[p][v]
        BY <3>2
      <4> HIDE DEF row, alone
      <4> QED BY <1>2, <4>1 DEF Mapped
    <3> QED BY <3>1, <3>2
  <2>5. Kept(Row(pte, p, row), ref, free)
    <3> HIDE DEF row
    <3> QED BY <2>2, <2>4, SameFrames
  <2>6. Kept(pte', ref', free')
    <3> HIDE DEF row
    <3> QED BY <1>4, <2>3, <2>5
  <2> QED BY <2>3, <2>6
<1> QED BY <1>3, <1>4

\* cfork: the parent's entries lose their write bits, then the child gets
\* them too, and the counts follow.
LEMMA CforkFacts ==
  ASSUME Kept(pte, ref, free), NEW p \in Procs, NEW c \in Procs, c # p,
         \A v \in Pages : pte[c][v] = None
  PROVE  /\ ~GetFails(p, Copied(p))
         /\ SharePages(p, c) /\ ref' = [f \in Frames |-> ref[f] + Uses(p, Copied(p), f)]
            /\ free' = free => Kept(pte, ref, free)'
<1> DEFINE shared == [v \in Copied(p) |-> Entry(pte[p][v].pfn, FALSE)]
           mine == [v \in Pages |-> IF v \in Copied(p) THEN shared[v] ELSE pte[p][v]]
           t == Row(pte, p, mine)
           its == [v \in Pages |-> IF v \in Copied(p) THEN shared[v] ELSE None]
<1>1. Home(pte) /\ Counts(pte, ref, free) /\ Private(pte) /\ pte[p] \in Rows
  BY DEF Kept, Home, Tables, Rows
<1>2. Copied(p) \subseteq Pages /\ \A v \in Copied(p) : pte[p][v] # None
  BY DEF Copied, Mapped
<1>3. ASSUME NEW v \in Copied(p)
      PROVE  /\ pte[p][v].pfn \in Frames /\ pte[p][v].pfn[1] = v
             /\ p \in Sharers(pte, pte[p][v].pfn)
             /\ shared[v] \in Entries /\ shared[v] # None
             /\ shared[v].pfn = pte[p][v].pfn /\ shared[v].w = FALSE
  <2>1. /\ pte[p][v].pfn \in Frames /\ pte[p][v].pfn[1] = v
        /\ p \in Sharers(pte, pte[p][v].pfn)
    BY <1>1, <1>2, MappedFacts
  <2>2. shared[v] = Entry(pte[p][v].pfn, FALSE)
    OBVIOUS
  <2> HIDE DEF shared
  <2> QED BY <2>1, <2>2, EntryFacts
<1>4. ~GetFails(p, Copied(p))
  <2>1. \A v \in Copied(p) : ref[pte[p][v].pfn] \in Nat /\ ref[pte[p][v].pfn] >= 1
    BY <1>1, <1>3, CountFacts
  <2> QED BY <2>1 DEF GetFails
<1>5. mine \in Rows /\ its \in Rows
  BY <1>1, <1>3 DEF Rows
<1>6. /\ \A v \in Copied(p) : mine[v] = shared[v] /\ its[v] = shared[v]
      /\ \A v \in Pages : v \notin Copied(p) => mine[v] = pte[p][v] /\ its[v] = None
  BY <1>2
<1>7. SharePages(p, c) => pte' = Row(t, c, its)
  BY DEF SharePages, ChildTable, Row
<1> HIDE DEF shared, mine, its
<1>8. Kept(t, ref, free) /\ \A f \in Frames : Sharers(t, f) = Sharers(pte, f)
  <2>1. ASSUME NEW v \in Pages
        PROVE  /\ mine[v] = None <=> pte[p][v] = None
               /\ mine[v] # None =>
                    /\ mine[v].pfn = pte[p][v].pfn
                    /\ mine[v].w => Sharers(pte, mine[v].pfn) = {p}
    <3>1. CASE v \in Copied(p)
      BY <1>2, <1>3, <1>6, <3>1
    <3>2. CASE v \notin Copied(p)
      BY <1>1, <1>6, <3>2 DEF Private
    <3> QED BY <3>1, <3>2
  <2> QED BY <1>5, <2>1, SameFrames
<1>9. Home(t) /\ Counts(t, ref, free) /\ Private(t)
  BY <1>8 DEF Kept
<1>10. t[p] = mine /\ t[c] = pte[c]
  BY <1>1, <1>5, RowFacts
<1> HIDE DEF t
<1>11. ASSUME NEW v \in Pages, its[v] # None PROVE Comes(t, c, v, its[v])
  <2>1. v \in Copied(p) /\ its[v] = shared[v] /\ t[p][v] = shared[v]
    BY <1>6, <1>10, <1>11
  <2>2. ASSUME NEW q \in Procs, t[q][v] # None, t[q][v].pfn = its[v].pfn, t[q][v].w
        PROVE  FALSE
    <3>1. Sharers(t, t[q][v].pfn) = {q}
      BY <1>9, <2>2 DEF Private
    <3>2. p \in Sharers(t, t[q][v].pfn)
      <4>1. t[q][v].pfn = pte[p][v].pfn
        BY <1>3, <2>1, <2>2
      <4> QED BY <1>3, <1>8, <2>1, <4>1
    <3>3. t[p][v].w = FALSE
      BY <1>3, <2>1
    <3> QED BY <2>2, <3>1, <3>2, <3>3
  <2> QED BY <1>3, <2>1, <2>2 DEF Comes
<1>12. Home(Row(t, c, its)) /\ Private(Row(t, c, its))
  BY <1>5, <1>9, <1>11, RowComes
<1>13. ASSUME ref' = [f \in Frames |-> ref[f] + Uses(p, Copied(p), f)], free' = free
       PROVE  Counts(Row(t, c, its), ref', free')
  <2> DEFINE u == Row(t, c, its)
  <2>1. \A f \in Frames :
          Sharers(u, f) = IF its[f[1]] # None /\ its[f[1]].pfn = f THEN Sharers(t, f) \cup {c}
                          ELSE Sharers(t, f) \ {c}
    BY <1>5, <1>9, RowFacts
  <2> HIDE DEF u
  <2>2. ASSUME NEW f \in Frames
        PROVE  \/ Stays(t, ref, free, u, ref', free', f)
               \/ Joins(t, ref, free, u, ref', free', f, c)
    <3>1. f[1] \in Pages
      BY FrameFacts
    <3>2. c \notin Sharers(t, f)
      BY <1>10, <3>1 DEF Sharers
    <3>3. Uses(p, Copied(p), f) = IF f[1] \in Copied(p) /\ p \in Sharers(pte, f) THEN 1 ELSE 0
      BY <1>1, <1>2, UsesFacts
    <3>4. ref'[f] = ref[f] + Uses(p, Copied(p), f) /\ ref[f] \in Nat
      BY <1>1, <1>13 DEF Counts
    <3>5. CASE f[1] \in Copied(p) /\ p \in Sharers(pte, f)
      <4>1. its[f[1]] # None /\ its[f[1]].pfn = f
        BY <1>3, <1>6, <3>5 DEF Sharers
      <4>2. f \notin free
        BY <1>1, <3>5 DEF Counts
      <4> QED BY <1>13, <2>1, <3>2, <3>3, <3>4, <3>5, <4>1, <4>2 DEF Joins
    <3>6. CASE ~(f[1] \in Copied(p) /\ p \in Sharers(pte, f))
      <4>1. its[f[1]] # None => its[f[1]].pfn # f
        <5> SUFFICES ASSUME its[f[1]] # None, its[f[1]].pfn = f PROVE FALSE
          OBVIOUS
        <5>1. f[1] \in Copied(p) /\ its[f[1]] = shared[f[1]]
          BY <1>6, <3>1
        <5>2. pte[p][f[1]].pfn = f
          BY <1>3, <5>1
        <5>3. p \in Sharers(pte, pte[p][f[1]].pfn)
          BY <1>3, <5>1
        <5> QED BY <3>6, <5>1, <5>2, <5>3
      <4>2. Sharers(u, f) = Sharers(t, f)
        BY <2>1, <3>2, <4>1
      <4>3. ref'[f] = ref[f]
        BY <3>3, <3>4, <3>6
      <4> QED BY <1>13, <4>2, <4>3 DEF Stays
    <3> QED BY <3>5, <3>6
  <2>3. DOMAIN ref' = Frames /\ ref' = [f \in Frames |-> ref'[f]] /\ free' \subseteq Frames
    BY <1>1, <1>13 DEF Counts
  <2>4. Counts(u, ref', free')
    BY <1>9, <2>2, <2>3, CountsFollow
  <2> QED BY <2>4 DEF u
<1>14. SharePages(p, c) /\ ref' = [f \in Frames |-> ref[f] + Uses(p, Copied(p), f)]
       /\ free' = free => Kept(pte', ref', free')
  <2> SUFFICES ASSUME SharePages(p, c), free' = free,
                      ref' = [f \in Frames |-> ref[f] + Uses(p, Copied(p), f)]
               PROVE  Kept(pte', ref', free')
    OBVIOUS
  <2>1. Counts(Row(t, c, its), ref', free')
    BY <1>13
  <2>2. pte' = Row(t, c, its)
    BY <1>7
  <2> QED BY <1>12, <2>1, <2>2 DEF Kept
<1> QED BY <1>4, <1>14

-----------------------------------------------------------------------------
(* The inductive invariant                                                 *)

Shape ==
  /\ live \subseteq Procs
  /\ area \in [Procs -> [AreaPages -> {"none", "ro", "rw"}]]
  /\ brk \in [Procs -> 0..DATA_PAGES]
  /\ content \in [Frames -> Values \cup {Absent}]
  /\ halted = "no"

\* The code of a process is there from its start to its end.
CodeThere == \A p \in live, v \in CodePages : Mapped(p, v)

Inv == Shape /\ Kept(pte, ref, free) /\ GrantsHonoured /\ CodeThere

\* A data page below brk is a data page.
LEMMA InDataFacts ==
  ASSUME Shape, NEW p \in Procs, NEW v
  PROVE  /\ brk[p] \in Nat /\ brk[p] <= DATA_PAGES
         /\ InData(p, v) => v \in DataPages
<1>1. brk[p] \in 0..DATA_PAGES
  BY DEF Shape
<1> QED BY <1>1, PageFacts, CowAssumption DEF InData, DataPages, AreaStart

\* A page of no area is not mapped; a page of a segment or area that is not
\* code, and in an area that is not read-only, may be written.
LEMMA ValidFacts ==
  ASSUME Inv, NEW p \in Procs, NEW v \in Pages
  PROVE  /\ v \in AreaPages /\ area[p][v] = "none" => pte[p][v] = None
         /\ Valid(p, v) => Writable(p, v) \/ v \in CodePages \/ v \in AreaPages
         /\ p \notin live => pte[p][v] = None
         /\ Writable(p, v) \in BOOLEAN
<1>1. Shape /\ GrantsHonoured
  BY DEF Inv
<1>2. InData(p, v) => v \in DataPages
  BY <1>1, InDataFacts
<1> QED BY <1>1, <1>2, SegmentFacts DEF Valid, Writable, GrantsHonoured, Mapped

\* When the row of p changes, its entries must be granted; the rows of the
\* others still are.
LEMMA GrantsFollow ==
  ASSUME Inv, NEW p \in Procs, NEW row \in Rows, pte' = Row(pte, p, row),
         \A q \in Procs : q # p => /\ area'[q] = area[q] /\ brk'[q] = brk[q]
                                   /\ q \in live' <=> q \in live,
         \A v \in Pages : row[v] # None => /\ p \in live' /\ Valid(p, v)'
                                           /\ row[v].w => Writable(p, v)',
         p \in live' => \A v \in CodePages : row[v] # None,
         live' \subseteq Procs
  PROVE  GrantsHonoured' /\ CodeThere'
<1>1. Home(pte) /\ GrantsHonoured /\ CodeThere
  BY DEF Inv, Kept
<1>2. pte'[p] = row /\ \A q \in Procs : q # p => pte'[q] = pte[q]
  BY <1>1, RowFacts
<1>3. GrantsHonoured'
  <2> SUFFICES ASSUME NEW q \in Procs, NEW v \in Pages, pte'[q][v] # None
               PROVE  q \in live' /\ Valid(q, v)' /\ (pte'[q][v].w => Writable(q, v)')
    BY DEF GrantsHonoured, Mapped, CanStore
  <2>1. CASE q = p
    <3>1. row[v] # None /\ (pte'[q][v].w <=> row[v].w)
      BY <1>2, <2>1
    <3> QED BY <2>1, <3>1
  <2>2. CASE q # p
    <3>1. pte[q][v] # None /\ (pte'[q][v].w <=> pte[q][v].w)
      BY <1>2, <2>2
    <3>2. q \in live /\ Valid(q, v) /\ (pte[q][v].w => Writable(q, v))
      BY <1>1, <3>1 DEF GrantsHonoured, Mapped, CanStore
    <3>3. Valid(q, v)' /\ (Writable(q, v) => Writable(q, v)')
      BY <2>2, <3>2 DEF Valid, InData, Writable
    <3> QED BY <2>2, <3>1, <3>2, <3>3
  <2> QED BY <2>1, <2>2
<1>4. CodeThere'
  <2> SUFFICES ASSUME NEW q \in live', NEW v \in CodePages PROVE pte'[q][v] # None
    BY DEF CodeThere, Mapped
  <2>1. CASE q = p
    BY <1>2, <2>1
  <2>2. CASE q # p
    BY <1>1, <1>2, <2>2 DEF CodeThere, Mapped
  <2> QED BY <2>1, <2>2
<1> QED BY <1>3, <1>4

\* What fresh frames are filled with is what pages hold.
LEMMA FillFacts ==
  ASSUME Inv, NEW pages \in SUBSET Pages, CanAlloc(pages),
         NEW held, \A v \in pages : held[v] \in Values \cup {Absent}, Fill(pages, held)
  PROVE  content' \in [Frames -> Values \cup {Absent}]
<1>1. \A v \in pages : NewFrame(v)[1] = v
  BY NewFrameFacts DEF Inv
<1>2. content \in [Frames -> Values \cup {Absent}]
  BY DEF Inv, Shape
<1>3. \A f \in NewFrames(pages) : held[f[1]] \in Values \cup {Absent}
  BY <1>1 DEF NewFrames
<1> QED BY <1>2, <1>3 DEF Fill

LEMMA GiveBackFacts ==
  ASSUME Shape, NEW frames, GiveBack(frames)
  PROVE  content' \in [Frames -> Values \cup {Absent}]
BY DEF GiveBack, Shape

-----------------------------------------------------------------------------
(* Every step keeps the invariant                                          *)

\* A step that changes no entry, count, area or segment.
LEMMA TablesKept ==
  ASSUME Inv, Shape', UNCHANGED <<live, pte, area, brk, free, ref>>
  PROVE  Inv'
<1>1. Kept(pte', ref', free')
  BY DEF Inv
<1>2. GrantsHonoured'
  <2>1. GrantsHonoured
    BY DEF Inv
  <2> QED BY <2>1 DEF GrantsHonoured, Mapped, CanStore, Valid, Writable, InData
<1>3. CodeThere'
  BY DEF Inv, CodeThere, Mapped
<1> QED BY <1>1, <1>2, <1>3 DEF Inv

LEMMA HitKeeps ==
  ASSUME Inv, NEW p \in Procs, NEW v \in Pages, NEW o \in Ops, Hit(p, v, o)
  PROVE  Inv'
<1>1. o \in Values
  BY DEF Hit, Ops, Load
<1>2. Shape'
  BY <1>1 DEF Inv, Shape, Hit
<1> QED BY <1>2, TablesKept DEF Hit

LEMMA KernelCopyKeeps ==
  ASSUME Inv, NEW p \in Procs, NEW v \in Pages, NEW x \in Values, KernelCopy(p, v, x)
  PROVE  Inv'
<1>1. Shape'
  BY DEF Inv, Shape, KernelCopy
<1> QED BY <1>1, TablesKept DEF KernelCopy

\* A page that is not there: it gets a fresh frame with the right of its
\* segment or area.
LEMMA FaultAbsentKeeps ==
  ASSUME Inv, NEW p \in Procs, NEW v \in Pages, NEW o \in Ops, FaultAbsent(p, v, o)
  PROVE  Inv' /\ Allowed(p, v, o)'
<1> DEFINE row == [u \in Pages |-> IF u \in {v} THEN Entry(NewFrame(u), Writable(p, v))
                                   ELSE pte[p][u]]
<1>1. Shape /\ Kept(pte, ref, free) /\ GrantsHonoured /\ CodeThere /\ Home(pte) /\ pte[p] \in Rows
  BY DEF Inv, Kept, Home, Tables, Rows
<1>2. /\ p \in live /\ pte[p][v] = None /\ ~Denied(p, v, o) /\ CanAlloc({v})
      /\ IF AllocFails({v}) THEN Halt("PFN refcount")
         ELSE /\ MapFresh(p, {v}, Writable(p, v))
              /\ UNCHANGED <<live, area, brk, halted>>
  BY DEF FaultAbsent, Running, Mapped
<1>3. ~AllocFails({v}) /\ NewFrame(v) \in Frames /\ NewFrame(v) \in free /\ NewFrame(v)[1] = v
  BY <1>1, <1>2, NewFrameFacts
<1>4. MapFresh(p, {v}, Writable(p, v)) /\ UNCHANGED <<live, area, brk, halted>>
  BY <1>2, <1>3
<1>5. pte' = Row(pte, p, row) /\ Alloc({v})
  BY <1>4 DEF MapFresh, Row
<1>6. Writable(p, v) \in BOOLEAN
  BY ValidFacts
<1>7. Kept(pte, ref, free)'
  <2> DEFINE w == [u \in {v} |-> Writable(p, v)]
  <2>1. row = [u \in Pages |-> IF u \in {v} THEN Entry(NewFrame(u), w[u]) ELSE pte[p][u]]
    OBVIOUS
  <2>2. \A u \in {v} : w[u] \in BOOLEAN /\ pte[p][u] = None
    BY <1>2, <1>6
  <2> HIDE DEF row, w
  <2> QED BY <1>1, <1>2, <1>5, <2>1, <2>2, FreshFacts
<1>8. Entry(NewFrame(v), Writable(p, v)) \in Entries /\ Entry(NewFrame(v), Writable(p, v)) # None
      /\ (Entry(NewFrame(v), Writable(p, v)).w <=> Writable(p, v))
  BY <1>3, <1>6, EntryFacts
<1>9. row \in Rows /\ row[v] = Entry(NewFrame(v), Writable(p, v))
      /\ \A u \in Pages : u # v => row[u] = pte[p][u]
  BY <1>1, <1>8 DEF Rows
<1> HIDE DEF row
<1>10. Valid(p, v) /\ (o # Load => Writable(p, v))
  <2>1. Valid(p, v) /\ (o # Load => Writable(p, v) \/ v \notin AreaPages)
    BY <1>2 DEF Denied
  <2>2. v \notin CodePages
    BY <1>1, <1>2 DEF CodeThere, Mapped
  <2> QED BY <2>1, <2>2, ValidFacts
<1>11. Valid(p, v)' /\ (Writable(p, v) => Writable(p, v)')
  BY <1>4, <1>10 DEF Valid, Writable, InData
<1>12. GrantsHonoured' /\ CodeThere'
  <2>1. ASSUME NEW u \in Pages, row[u] # None
        PROVE  p \in live' /\ Valid(p, u)' /\ (row[u].w => Writable(p, u)')
    <3>1. CASE u = v
      BY <1>2, <1>4, <1>8, <1>9, <1>11, <3>1
    <3>2. CASE u # v
      <4>1. Valid(p, u) /\ (row[u].w => Writable(p, u))
        BY <1>1, <1>9, <2>1, <3>2 DEF GrantsHonoured, Mapped, CanStore
      <4> QED BY <1>2, <1>4, <4>1 DEF Valid, Writable, InData
    <3> QED BY <3>1, <3>2
  <2>2. \A u \in CodePages : row[u] # None
    BY <1>1, <1>2, <1>8, <1>9, SegmentFacts DEF CodeThere, Mapped
  <2> QED BY <1>1, <1>4, <1>5, <1>9, <2>1, <2>2, GrantsFollow DEF Shape
<1>13. content' \in [Frames -> Values \cup {Absent}]
  <2>1. PICK held \in [{v} -> Values] : Fill({v}, held)
    BY <1>4 DEF MapFresh
  <2> QED BY <1>2, <2>1, FillFacts
<1>14. Inv'
  BY <1>1, <1>4, <1>7, <1>12, <1>13 DEF Inv, Shape
<1>15. pte'[p] = row
  BY <1>1, <1>5, <1>9, RowFacts
<1>16. Allowed(p, v, o)'
  BY <1>8, <1>9, <1>10, <1>15 DEF Allowed, Mapped, CanStore
<1> QED BY <1>14, <1>16

\* A store into a shared page: whether the frame is copied or not, the page
\* is writable afterwards.
LEMMA FaultCowKeeps ==
  ASSUME Inv, NEW p \in Procs, NEW v \in Pages, NEW o \in Ops, FaultCow(p, v, o)
  PROVE  Inv' /\ Allowed(p, v, o)'
<1>1. Shape /\ Kept(pte, ref, free) /\ GrantsHonoured /\ CodeThere /\ Home(pte) /\ pte[p] \in Rows
  BY DEF Inv, Kept, Home, Tables, Rows
<1>2. p \in live /\ Mapped(p, v) /\ ~Allowed(p, v, o) /\ ~Denied(p, v, o)
  BY DEF FaultCow, Running
<1>3. Valid(p, v) /\ Writable(p, v)
  BY <1>2 DEF Allowed, Denied
<1>4. ~(ref[pte[p][v].pfn] > 1 /\ CanAlloc({v}) /\ AllocFails({v}))
  BY <1>1, NewFrameFacts
<1>5. UNCHANGED <<live, area, brk, halted>>
  BY <1>4 DEF FaultCow
<1>6. \E f \in Frames :
        /\ Kept(pte, ref, free)'
        /\ pte' = Row(pte, p, [pte[p] EXCEPT ![v] = Entry(f, TRUE)])
        /\ content' \in [Frames -> Values \cup {Absent}]
  <2>1. pte[p][v].pfn \in Frames
    BY <1>1, <1>2, MappedFacts DEF Mapped
  <2>2. CASE ref[pte[p][v].pfn] > 1 /\ CanAlloc({v}) /\ CopyFrame(p, v)
    <3>1. /\ Kept(pte, ref, free)' /\ NewFrame(v) \in Frames
          /\ pte' = Row(pte, p, [pte[p] EXCEPT ![v] = Entry(NewFrame(v), TRUE)])
      BY <1>1, <1>2, <1>3, <2>2, CopyFrameFacts
    <3>2. content' \in [Frames -> Values \cup {Absent}]
      <4> DEFINE held == [u \in {v} |-> content[pte[p][v].pfn]]
      <4>1. \A u \in {v} : held[u] \in Values \cup {Absent}
        BY <1>1, <2>1 DEF Shape
      <4>2. Fill({v}, held)
        BY <2>2 DEF CopyFrame
      <4> HIDE DEF held
      <4> QED BY <2>2, <4>1, <4>2, FillFacts
    <3> QED BY <3>1, <3>2
  <2>3. CASE ref[pte[p][v].pfn] <= 1 /\ LastOwner(p, v)
    <3>1. /\ Kept(pte, ref, free)'
          /\ pte' = Row(pte, p, [pte[p] EXCEPT ![v] = Entry(pte[p][v].pfn, TRUE)])
      BY <1>1, <1>2, <2>3, LastOwnerFacts
    <3>2. content' \in [Frames -> Values \cup {Absent}]
      BY <1>1, <2>3 DEF LastOwner, Shape
    <3> QED BY <2>1, <3>1, <3>2
  <2> QED BY <1>4, <2>2, <2>3 DEF FaultCow
<1>7. PICK f \in Frames :
        /\ Kept(pte, ref, free)'
        /\ pte' = Row(pte, p, [pte[p] EXCEPT ![v] = Entry(f, TRUE)])
        /\ content' \in [Frames -> Values \cup {Absent}]
  BY <1>6
<1> DEFINE row == [pte[p] EXCEPT ![v] = Entry(f, TRUE)]
<1>8. Entry(f, TRUE) \in Entries /\ Entry(f, TRUE) # None /\ Entry(f, TRUE).w = TRUE
  BY EntryFacts
<1>9. row \in Rows /\ row[v] = Entry(f, TRUE) /\ \A u \in Pages : u # v => row[u] = pte[p][u]
  BY <1>1, <1>8 DEF Rows
<1>10. pte' = Row(pte, p, row)
  BY <1>7
<1> HIDE DEF row
<1>11. GrantsHonoured' /\ CodeThere'
  <2>1. ASSUME NEW u \in Pages, row[u] # None
        PROVE  p \in live' /\ Valid(p, u)' /\ (row[u].w => Writable(p, u)')
    <3>1. Valid(p, u) /\ (row[u].w => Writable(p, u))
      BY <1>1, <1>3, <1>9, <2>1 DEF GrantsHonoured, Mapped, CanStore
    <3> QED BY <1>2, <1>5, <3>1 DEF Valid, Writable, InData
  <2>2. \A u \in CodePages : row[u] # None
    BY <1>1, <1>2, <1>8, <1>9, SegmentFacts DEF CodeThere, Mapped
  <2> QED BY <1>1, <1>5, <1>9, <1>10, <2>1, <2>2, GrantsFollow DEF Shape
<1>12. Inv'
  BY <1>1, <1>5, <1>7, <1>11 DEF Inv, Shape
<1>13. pte'[p] = row
  BY <1>1, <1>9, <1>10, RowFacts
<1>14. Allowed(p, v, o)'
  BY <1>8, <1>9, <1>13 DEF Allowed, Mapped, CanStore
<1> QED BY <1>12, <1>14

\* Whatever ends a process takes its pages and areas.
LEMMA TerminateKeeps ==
  ASSUME Inv, NEW p \in Procs, Terminate(p)
  PROVE  Inv'
<1> DEFINE row == [v \in Pages |-> IF v \in Pages THEN None ELSE pte[p][v]]
<1>1. Shape /\ Kept(pte, ref, free) /\ GrantsHonoured /\ CodeThere
  BY DEF Inv
<1>2. ~PutFails(p, Pages)
  BY <1>1, DropFacts
<1>3. /\ Drop(p, Pages) /\ UNCHANGED halted
      /\ area' = [area EXCEPT ![p] = [v \in AreaPages |-> "none"]]
      /\ brk' = [brk EXCEPT ![p] = 0]
      /\ live' = live \ {p}
  BY <1>2 DEF Terminate
<1>4. Kept(pte, ref, free)' /\ pte' = Row(pte, p, row)
  BY <1>1, <1>3, DropFacts
<1>5. row \in Rows /\ \A v \in Pages : row[v] = None
  BY DEF Rows
<1>6. Shape'
  <2>1. 0 \in 0..DATA_PAGES
    BY CowAssumption
  <2>2. content' \in [Frames -> Values \cup {Absent}]
    BY <1>1, <1>3, GiveBackFacts DEF Drop
  <2> QED BY <1>1, <1>3, <2>1, <2>2 DEF Shape
<1> HIDE DEF row
<1>7. \A q \in Procs : q # p => area'[q] = area[q] /\ brk'[q] = brk[q] /\ (q \in live' <=> q \in live)
  BY <1>1, <1>3 DEF Shape
<1>8. p \notin live'
  BY <1>3
<1>9. GrantsHonoured' /\ CodeThere'
  BY <1>4, <1>5, <1>6, <1>7, <1>8, GrantsFollow DEF Shape
<1> QED BY <1>4, <1>6, <1>9 DEF Inv

\* A range of area pages has the new protection afterwards, all else its old.
LEMMA WithAreaFacts ==
  ASSUME Shape, NEW p \in Procs, NEW pages \in SUBSET AreaPages,
         NEW prot \in {"none", "ro", "rw"}, area' = WithArea(p, pages, prot)
  PROVE  /\ area' \in [Procs -> [AreaPages -> {"none", "ro", "rw"}]]
         /\ \A q \in Procs : q # p => area'[q] = area[q]
         /\ \A v \in AreaPages : area'[p][v] = IF v \in pages THEN prot ELSE area[p][v]
<1> DEFINE new == [v \in AreaPages |-> IF v \in pages THEN prot ELSE area[p][v]]
<1>1. area \in [Procs -> [AreaPages -> {"none", "ro", "rw"}]]
  BY DEF Shape
<1>2. area' = [area EXCEPT ![p] = new]
  BY DEF WithArea
<1>3. new \in [AreaPages -> {"none", "ro", "rw"}]
  BY <1>1
<1>4. \A v \in AreaPages : new[v] = IF v \in pages THEN prot ELSE area[p][v]
  OBVIOUS
<1> HIDE DEF new
<1> QED BY <1>1, <1>2, <1>3, <1>4

\* New areas lie where the process had no page; with MAP_POPULATE they get
\* fresh frames.
LEMMA MmapKeeps ==
  ASSUME Inv, NEW p \in Procs, NEW lo \in AreaPages, NEW hi \in AreaPages,
         NEW prot \in {"ro", "rw"}, NEW populate \in BOOLEAN, Mmap(p, lo, hi, prot, populate)
  PROVE  Inv'
<1> DEFINE pages == lo..hi
           w == [v \in pages |-> prot = "rw"]
           row == [v \in Pages |-> IF v \in pages THEN Entry(NewFrame(v), w[v]) ELSE pte[p][v]]
<1>1. Shape /\ Kept(pte, ref, free) /\ GrantsHonoured /\ CodeThere /\ Home(pte) /\ pte[p] \in Rows
  BY DEF Inv, Kept, Home, Tables, Rows
<1>2. pages \subseteq AreaPages /\ pages \subseteq Pages
  BY PageFacts, SegmentFacts DEF AreaPages
<1>3. \A v \in pages : area[p][v] = "none" /\ pte[p][v] = None
  <2>1. \A v \in pages : area[p][v] = "none"
    BY <1>2 DEF Mmap, UsedAreas
  <2> QED BY <1>2, <2>1, ValidFacts
<1>4. p \in live /\ (populate => CanAlloc(pages))
  BY DEF Mmap, Running
<1> HIDE DEF pages
<1>5. ~(populate /\ AllocFails(pages))
  BY <1>1, <1>2, <1>4, NewFrameFacts
<1>6. /\ area' = WithArea(p, pages, prot)
      /\ IF populate THEN MapFresh(p, pages, prot = "rw")
         ELSE UNCHANGED <<pte, ref, free, content>>
      /\ UNCHANGED <<live, brk, halted>>
  BY <1>5 DEF Mmap, pages
<1>7. /\ area' \in [Procs -> [AreaPages -> {"none", "ro", "rw"}]]
      /\ \A q \in Procs : q # p => area'[q] = area[q]
      /\ \A v \in AreaPages : area'[p][v] = IF v \in pages THEN prot ELSE area[p][v]
  BY <1>1, <1>2, <1>6, WithAreaFacts
\* The pages outside the new area are granted as before.
<1>8. ASSUME NEW v \in Pages, v \notin pages, pte[p][v] # None
      PROVE  Valid(p, v)' /\ (pte[p][v].w => Writable(p, v)')
  <2>1. Valid(p, v) /\ (pte[p][v].w => Writable(p, v))
    BY <1>1, <1>8 DEF GrantsHonoured, Mapped, CanStore
  <2> QED BY <1>6, <1>7, <1>8, <2>1 DEF Valid, Writable, InData
<1>9. CASE ~populate
  <2>1. pte' = Row(pte, p, pte[p])
    BY <1>1, <1>6, <1>9 DEF Row, Home, Tables
  <2>2. GrantsHonoured' /\ CodeThere'
    <3>1. \A v \in Pages : pte[p][v] # None =>
            p \in live' /\ Valid(p, v)' /\ (pte[p][v].w => Writable(p, v)')
      BY <1>3, <1>4, <1>6, <1>8
    <3>2. \A v \in CodePages : pte[p][v] # None
      BY <1>1, <1>4 DEF CodeThere, Mapped
    <3> QED BY <1>1, <1>6, <1>7, <2>1, <3>1, <3>2, GrantsFollow DEF Shape
  <2>3. Shape'
    BY <1>1, <1>6, <1>7, <1>9 DEF Shape
  <2>4. Kept(pte', ref', free')
    BY <1>1, <1>6, <1>9
  <2> QED BY <2>2, <2>3, <2>4 DEF Inv
<1>10. CASE populate
  <2>1. MapFresh(p, pages, prot = "rw")
    BY <1>6, <1>10
  <2>2. pte' = Row(pte, p, row) /\ Alloc(pages)
    BY <2>1 DEF MapFresh, Row
  <2>3. \A v \in pages : w[v] \in BOOLEAN /\ (w[v] <=> prot = "rw")
    OBVIOUS
  <2>4. \A v \in pages : NewFrame(v) \in Frames
    BY <1>1, <1>2, <1>4, <1>10, NewFrameFacts
  <2> HIDE DEF w
  <2>5. \A v \in pages : /\ Entry(NewFrame(v), w[v]) \in Entries /\ Entry(NewFrame(v), w[v]) # None
                         /\ Entry(NewFrame(v), w[v]).w = w[v]
    BY <2>3, <2>4, EntryFacts
  <2>6. row \in Rows
    BY <1>1, <2>5 DEF Rows
  <2>7. Kept(pte, ref, free)'
    BY <1>1, <1>2, <1>3, <1>4, <1>10, <2>2, <2>3, FreshFacts
  <2>8. \A v \in Pages : row[v] = IF v \in pages THEN Entry(NewFrame(v), w[v]) ELSE pte[p][v]
    OBVIOUS
  <2> HIDE DEF row
  <2>9. GrantsHonoured' /\ CodeThere'
    <3>1. ASSUME NEW v \in Pages, row[v] # None
          PROVE  p \in live' /\ Valid(p, v)' /\ (row[v].w => Writable(p, v)')
      <4>1. CASE v \in pages
        <5>1. row[v].w => prot = "rw"
          BY <2>3, <2>5, <2>8, <4>1
        <5> QED BY <1>2, <1>4, <1>6, <1>7, <4>1, <5>1 DEF Valid, Writable
      <4>2. CASE v \notin pages
        BY <1>4, <1>6, <1>8, <2>8, <3>1, <4>2
      <4> QED BY <4>1, <4>2
    <3>2. \A v \in CodePages : row[v] # None
      BY <1>1, <1>2, <1>4, <2>8, SegmentFacts DEF CodeThere, Mapped
    <3> QED BY <1>1, <1>6, <1>7, <2>2, <2>6, <3>1, <3>2, GrantsFollow DEF Shape
  <2>10. content' \in [Frames -> Values \cup {Absent}]
    <3>1. PICK held \in [pages -> Values] : Fill(pages, held)
      BY <2>1 DEF MapFresh
    <3> QED BY <1>2, <1>4, <1>10, <3>1, FillFacts
  <2>11. Shape'
    BY <1>1, <1>6, <1>7, <2>10 DEF Shape
  <2> QED BY <2>7, <2>9, <2>11 DEF Inv
<1> QED BY <1>9, <1>10

\* The pages of the areas go with them, and one page more.
LEMMA MunmapKeeps ==
  ASSUME Inv, NEW p \in Procs, NEW lo \in AreaPages, NEW hi \in AreaPages, Munmap(p, lo, hi)
  PROVE  Inv'
<1> DEFINE pages == InAreas(p, lo, hi)
           gone == Purged(pages)
           row == [v \in Pages |-> IF v \in gone THEN None ELSE pte[p][v]]
<1>1. Shape /\ Kept(pte, ref, free) /\ GrantsHonoured /\ CodeThere /\ Home(pte) /\ pte[p] \in Rows
  BY DEF Inv, Kept, Home, Tables, Rows
<1>2. pages \subseteq AreaPages /\ pages \subseteq gone /\ gone \subseteq AreaPages
      /\ gone \subseteq Pages
  BY SegmentFacts DEF InAreas, UsedAreas, Purged
<1>3. p \in live
  BY DEF Munmap, Running
<1>4. IF PutFails(p, gone) THEN Halt("PFN refcount")
      ELSE /\ Drop(p, gone)
           /\ area' = WithArea(p, pages, "none")
           /\ UNCHANGED <<live, brk, halted>>
  BY DEF Munmap
<1> HIDE DEF pages, gone
<1>5. Drop(p, gone) /\ area' = WithArea(p, pages, "none") /\ UNCHANGED <<live, brk, halted>>
  BY <1>1, <1>2, <1>4, DropFacts
<1>6. Kept(pte, ref, free)' /\ pte' = Row(pte, p, row)
  BY <1>1, <1>2, <1>5, DropFacts
<1>7. row \in Rows /\ \A v \in Pages : row[v] = IF v \in gone THEN None ELSE pte[p][v]
  BY <1>1 DEF Rows
<1> HIDE DEF row
<1>8. /\ area' \in [Procs -> [AreaPages -> {"none", "ro", "rw"}]]
      /\ \A q \in Procs : q # p => area'[q] = area[q]
      /\ \A v \in AreaPages : area'[p][v] = IF v \in pages THEN "none" ELSE area[p][v]
  BY <1>1, <1>2, <1>5, WithAreaFacts
<1>9. GrantsHonoured' /\ CodeThere'
  <2>1. ASSUME NEW v \in Pages, row[v] # None
        PROVE  p \in live' /\ Valid(p, v)' /\ (row[v].w => Writable(p, v)')
    <3>1. v \notin pages /\ row[v] = pte[p][v]
      BY <1>2, <1>7, <2>1
    <3>2. Valid(p, v) /\ (row[v].w => Writable(p, v))
      BY <1>1, <2>1, <3>1 DEF GrantsHonoured, Mapped, CanStore
    <3> QED BY <1>3, <1>5, <1>8, <3>1, <3>2 DEF Valid, Writable, InData
  <2>2. \A v \in CodePages : row[v] # None
    BY <1>1, <1>2, <1>3, <1>7, SegmentFacts DEF CodeThere, Mapped
  <2> QED BY <1>1, <1>5, <1>6, <1>7, <1>8, <2>1, <2>2, GrantsFollow DEF Shape
<1>10. Shape'
  <2>1. content' \in [Frames -> Values \cup {Absent}]
    BY <1>1, <1>5, GiveBackFacts DEF Drop
  <2> QED BY <1>1, <1>5, <1>8, <2>1 DEF Shape
<1> QED BY <1>6, <1>9, <1>10 DEF Inv

\* A page that does not get the new write bit was read-only already.
LEMMA MprotectKeeps ==
  ASSUME Inv, NEW p \in Procs, NEW lo \in AreaPages, NEW hi \in AreaPages,
         NEW prot \in {"ro", "rw"}, Mprotect(p, lo, hi, prot)
  PROVE  Inv'
<1> DEFINE pages == {v \in InAreas(p, lo, hi) : area[p][v] # prot}
           row == [v \in Pages |-> IF v \in pages /\ Mapped(p, v) /\ ref[pte[p][v].pfn] = 1
                                   THEN Entry(pte[p][v].pfn, prot = "rw") ELSE pte[p][v]]
<1>1. Shape /\ Kept(pte, ref, free) /\ GrantsHonoured /\ CodeThere /\ Home(pte) /\ pte[p] \in Rows
  BY DEF Inv, Kept, Home, Tables, Rows
<1>2. pages \subseteq AreaPages /\ pages \subseteq Pages
  BY SegmentFacts DEF InAreas, UsedAreas
<1>3. p \in live
  BY DEF Mprotect, Running
<1>4. IF ReprotectFails(p, pages) THEN Halt("Invalid Cow PFN")
      ELSE /\ Reprotect(p, pages, prot)
           /\ area' = WithArea(p, pages, prot)
           /\ UNCHANGED <<live, brk, free, ref, content, halted>>
  BY DEF Mprotect
<1> HIDE DEF pages
<1>5. ~ReprotectFails(p, pages)
  BY <1>1, <1>2, ReprotectFacts
<1>6. /\ Reprotect(p, pages, prot) /\ area' = WithArea(p, pages, prot)
      /\ UNCHANGED <<live, brk, free, ref, content, halted>>
  BY <1>4, <1>5
<1>7. Kept(pte, ref, free)' /\ pte' = Row(pte, p, row)
  BY <1>1, <1>2, <1>6, ReprotectFacts
<1>8. \A v \in Pages : Mapped(p, v) =>
        /\ pte[p][v].pfn \in Frames /\ Entry(pte[p][v].pfn, prot = "rw") \in Entries
        /\ Entry(pte[p][v].pfn, prot = "rw") # None
        /\ Entry(pte[p][v].pfn, prot = "rw").w = (prot = "rw")
  BY <1>1, MappedFacts, EntryFacts DEF Mapped
<1>9. row \in Rows /\ \A v \in Pages :
        row[v] = IF v \in pages /\ Mapped(p, v) /\ ref[pte[p][v].pfn] = 1
                 THEN Entry(pte[p][v].pfn, prot = "rw") ELSE pte[p][v]
  BY <1>1, <1>8 DEF Rows
<1> HIDE DEF row
<1>10. /\ area' \in [Procs -> [AreaPages -> {"none", "ro", "rw"}]]
       /\ \A q \in Procs : q # p => area'[q] = area[q]
       /\ \A v \in AreaPages : area'[p][v] = IF v \in pages THEN prot ELSE area[p][v]
  BY <1>1, <1>2, <1>6, WithAreaFacts
<1>11. GrantsHonoured' /\ CodeThere'
  <2>1. ASSUME NEW v \in Pages, row[v] # None
        PROVE  p \in live' /\ Valid(p, v)' /\ (row[v].w => Writable(p, v)')
    <3>1. Mapped(p, v)
      BY <1>9, <2>1 DEF Mapped
    <3>2. Valid(p, v) /\ (pte[p][v].w => Writable(p, v))
      BY <1>1, <3>1 DEF GrantsHonoured, CanStore
    <3>3. CASE v \in pages
      <4>1. row[v].w => prot = "rw"
        BY <1>5, <1>8, <1>9, <3>1, <3>3 DEF ReprotectFails, CanStore
      <4> QED BY <1>2, <1>3, <1>6, <1>10, <3>3, <4>1 DEF Valid, Writable
    <3>4. CASE v \notin pages
      <4>1. row[v] = pte[p][v]
        BY <1>9, <3>4
      <4> QED BY <1>3, <1>6, <1>10, <3>2, <3>4, <4>1 DEF Valid, Writable, InData
    <3> QED BY <3>3, <3>4
  <2>2. \A v \in CodePages : row[v] # None
    BY <1>1, <1>3, <1>8, <1>9, SegmentFacts DEF CodeThere, Mapped
  <2> QED BY <1>1, <1>6, <1>7, <1>9, <1>10, <2>1, <2>2, GrantsFollow DEF Shape
<1>12. Shape'
  BY <1>1, <1>6, <1>10 DEF Shape
<1> QED BY <1>7, <1>11, <1>12 DEF Inv

LEMMA ExpandKeeps ==
  ASSUME Inv, NEW p \in Procs, NEW n \in 1..DATA_PAGES, Expand(p, n)
  PROVE  Inv'
<1>1. Shape /\ Kept(pte, ref, free) /\ GrantsHonoured /\ CodeThere /\ Home(pte) /\ pte[p] \in Rows
  BY DEF Inv, Kept, Home, Tables, Rows
<1>2. /\ p \in live /\ brk[p] + n <= DATA_PAGES /\ brk' = [brk EXCEPT ![p] = brk[p] + n]
      /\ UNCHANGED <<live, pte, area, free, ref, content, halted>>
  BY DEF Expand, Running
<1>3. brk[p] \in Nat /\ DATA_PAGES \in Nat
  BY <1>1, InDataFacts, CowAssumption
<1>4. Shape'
  <2>1. brk[p] + n \in 0..DATA_PAGES
    BY <1>2, <1>3
  <2> QED BY <1>1, <1>2, <2>1 DEF Shape
<1>5. brk'[p] = brk[p] + n /\ \A q \in Procs : q # p => brk'[q] = brk[q]
  BY <1>1, <1>2 DEF Shape
<1>6. pte' = Row(pte, p, pte[p])
  BY <1>1, <1>2 DEF Row, Home, Tables
<1>7. \A v \in Pages : pte[p][v] # None =>
        p \in live' /\ Valid(p, v)' /\ (pte[p][v].w => Writable(p, v)')
  <2> SUFFICES ASSUME NEW v \in Pages, pte[p][v] # None
               PROVE  Valid(p, v)' /\ (pte[p][v].w => Writable(p, v)')
    BY <1>2
  <2>1. Valid(p, v) /\ (pte[p][v].w => Writable(p, v))
    BY <1>1 DEF GrantsHonoured, Mapped, CanStore
  <2>2. InData(p, v) => InData(p, v)'
    <3>1. DataStart \in Nat
      BY PageFacts
    <3> QED BY <1>3, <1>5, <3>1 DEF InData
  <2> QED BY <1>2, <2>1, <2>2 DEF Valid, Writable
<1>8. \A v \in CodePages : pte[p][v] # None
  BY <1>1, <1>2 DEF CodeThere, Mapped
<1>9. GrantsHonoured' /\ CodeThere'
  BY <1>1, <1>2, <1>5, <1>6, <1>7, <1>8, GrantsFollow DEF Shape
<1>10. Kept(pte', ref', free')
  BY <1>1, <1>2
<1> QED BY <1>4, <1>9, <1>10 DEF Inv

\* The data pages above the new end go.
LEMMA ShrinkKeeps ==
  ASSUME Inv, NEW p \in Procs, NEW n \in 1..DATA_PAGES, Shrink(p, n)
  PROVE  Inv'
<1> DEFINE pages == (DataStart + brk[p] - n)..(DataStart + brk[p] - 1)
           row == [v \in Pages |-> IF v \in pages THEN None ELSE pte[p][v]]
<1>1. Shape /\ Kept(pte, ref, free) /\ GrantsHonoured /\ CodeThere /\ Home(pte) /\ pte[p] \in Rows
  BY DEF Inv, Kept, Home, Tables, Rows
<1>2. p \in live /\ n <= brk[p]
  BY DEF Shrink, Running
<1>3. brk[p] \in Nat /\ brk[p] <= DATA_PAGES /\ DATA_PAGES \in Nat /\ DataStart \in Nat
  BY <1>1, InDataFacts, CowAssumption, PageFacts
<1>4. pages \subseteq DataPages /\ pages \subseteq Pages
  <2>1. pages \subseteq DataPages
    BY <1>2, <1>3 DEF DataPages, AreaStart
  <2> QED BY <2>1, SegmentFacts
<1>5. \A v : InData(p, v) /\ v \notin pages => v \in DataStart..(DataStart + (brk[p] - n) - 1)
  BY <1>2, <1>3 DEF InData
<1>6. IF PutFails(p, pages) THEN Halt("PFN refcount")
      ELSE /\ Drop(p, pages)
           /\ brk' = [brk EXCEPT ![p] = brk[p] - n]
           /\ UNCHANGED <<live, area, halted>>
  BY DEF Shrink
<1> HIDE DEF pages
<1>7. /\ Drop(p, pages) /\ brk' = [brk EXCEPT ![p] = brk[p] - n]
      /\ UNCHANGED <<live, area, halted>>
  BY <1>1, <1>4, <1>6, DropFacts
<1>8. Kept(pte, ref, free)' /\ pte' = Row(pte, p, row)
  BY <1>1, <1>4, <1>7, DropFacts
<1>9. row \in Rows /\ \A v \in Pages : row[v] = IF v \in pages THEN None ELSE pte[p][v]
  BY <1>1 DEF Rows
<1> HIDE DEF row
<1>10. brk'[p] = brk[p] - n /\ \A q \in Procs : q # p => brk'[q] = brk[q]
  BY <1>1, <1>7 DEF Shape
<1>11. GrantsHonoured' /\ CodeThere'
  <2>1. ASSUME NEW v \in Pages, row[v] # None
        PROVE  p \in live' /\ Valid(p, v)' /\ (row[v].w => Writable(p, v)')
    <3>1. v \notin pages /\ row[v] = pte[p][v]
      BY <1>9, <2>1
    <3>2. Valid(p, v) /\ (row[v].w => Writable(p, v))
      BY <1>1, <2>1, <3>1 DEF GrantsHonoured, Mapped, CanStore
    <3>3. InData(p, v) => InData(p, v)'
      BY <1>5, <1>10, <3>1 DEF InData
    <3> QED BY <1>2, <1>7, <3>1, <3>2, <3>3 DEF Valid, Writable
  <2>2. \A v \in CodePages : row[v] # None
    BY <1>1, <1>2, <1>4, <1>9, SegmentFacts DEF CodeThere, Mapped
  <2> QED BY <1>1, <1>7, <1>8, <1>9, <1>10, <2>1, <2>2, GrantsFollow DEF Shape
<1>12. Shape'
  <2>1. content' \in [Frames -> Values \cup {Absent}]
    BY <1>1, <1>7, GiveBackFacts DEF Drop
  <2>2. brk[p] - n \in 0..DATA_PAGES
    BY <1>2, <1>3
  <2> QED BY <1>1, <1>7, <2>1, <2>2 DEF Shape
<1> QED BY <1>8, <1>11, <1>12 DEF Inv

\* A fork's child has the areas, the segments and the code of its parent.
LEMMA ChildFacts ==
  ASSUME Inv, NEW p \in live, NEW c \in Procs \ live, NewChild(p, c)
  PROVE  /\ live' = live \cup {c} /\ live' \subseteq Procs
         /\ area' \in [Procs -> [AreaPages -> {"none", "ro", "rw"}]]
         /\ brk' \in [Procs -> 0..DATA_PAGES]
         /\ \A q \in Procs : q # c => area'[q] = area[q] /\ brk'[q] = brk[q]
         /\ CodePages \subseteq Copied(p)
         /\ \A v \in Pages : Valid(p, v) => Valid(c, v)' /\ (Writable(p, v) => Writable(c, v)')
<1>1. Shape /\ CodeThere /\ p \in Procs
  BY DEF Inv, Shape
<1>2. /\ live' = live \cup {c} /\ area' = [area EXCEPT ![c] = area[p]]
      /\ brk' = [brk EXCEPT ![c] = brk[p]]
  BY DEF NewChild
<1>3. area'[c] = area[p] /\ brk'[c] = brk[p]
  BY <1>1, <1>2 DEF Shape
<1>4. ASSUME NEW v \in Pages, Valid(p, v)
      PROVE  Valid(c, v)' /\ (Writable(p, v) => Writable(c, v)')
  BY <1>3, <1>4 DEF Valid, Writable, InData
<1>5. CodePages \subseteq Copied(p)
  <2>1. LowStack \subseteq StackPages
    BY PageFacts DEF LowStack, StackPages
  <2> QED BY <1>1, <2>1, SegmentFacts DEF Copied, CodeThere, Valid
<1> QED BY <1>1, <1>2, <1>4, <1>5 DEF Shape

\* Entries of parent and child after cfork lead where the parent's led, and
\* are read-only.
LEMMA CforkKeeps ==
  ASSUME Inv, NEW p \in Procs, NEW c \in Procs, Cfork(p, c)
  PROVE  Inv'
<1>1. Shape /\ Kept(pte, ref, free) /\ GrantsHonoured /\ CodeThere /\ Home(pte) /\ pte \in [Procs -> Rows]
  BY DEF Inv, Kept, Home, Tables, Rows
<1>2. p \in live /\ c \in Procs \ live /\ c # p /\ \A v \in Pages : pte[c][v] = None
  <2>1. p \in live /\ c \in Procs \ live /\ c # p
    BY DEF Cfork, Running
  <2> QED BY <2>1, ValidFacts
<1>3. ~GetFails(p, Copied(p))
  BY <1>1, <1>2, CforkFacts
<1>4. /\ SharePages(p, c) /\ NewChild(p, c) /\ free' = free /\ content' = content
      /\ ref' = [f \in Frames |-> ref[f] + Uses(p, Copied(p), f)]
  BY <1>3 DEF Cfork
<1>5. Kept(pte, ref, free)'
  BY <1>1, <1>2, <1>4, CforkFacts
<1>6. /\ live' = live \cup {c} /\ live' \subseteq Procs
      /\ area' \in [Procs -> [AreaPages -> {"none", "ro", "rw"}]]
      /\ brk' \in [Procs -> 0..DATA_PAGES]
      /\ \A q \in Procs : q # c => area'[q] = area[q] /\ brk'[q] = brk[q]
      /\ CodePages \subseteq Copied(p)
      /\ \A v \in Pages : Valid(p, v) => Valid(c, v)' /\ (Writable(p, v) => Writable(c, v)')
  BY <1>2, <1>4, ChildFacts
<1>7. Shape'
  BY <1>1, <1>4, <1>6 DEF Shape, NewChild
<1> DEFINE shared == [v \in Copied(p) |-> Entry(pte[p][v].pfn, FALSE)]
           mine == [v \in Pages |-> IF v \in Copied(p) THEN shared[v] ELSE pte[p][v]]
           its == [v \in Pages |-> IF v \in Copied(p) THEN shared[v] ELSE None]
           t == Row(pte, p, mine)
<1>8. ASSUME NEW v \in Copied(p)
      PROVE  /\ v \in Pages /\ pte[p][v] # None /\ Valid(p, v)
             /\ shared[v] \in Entries /\ shared[v] # None /\ shared[v].w = FALSE
  <2>1. v \in Pages /\ pte[p][v] # None /\ Valid(p, v)
    BY DEF Copied, Mapped
  <2>2. shared[v] = Entry(pte[p][v].pfn, FALSE)
    OBVIOUS
  <2>3. pte[p][v].pfn \in Frames
    BY <1>1, <2>1, MappedFacts
  <2> HIDE DEF shared
  <2> QED BY <2>1, <2>2, <2>3, EntryFacts
<1>9. pte' = Row(t, c, its)
  BY <1>4 DEF SharePages, ChildTable, Row
<1> HIDE DEF shared
<1>10. /\ mine \in Rows /\ its \in Rows
       /\ \A v \in Copied(p) : mine[v] = shared[v] /\ its[v] = shared[v]
       /\ \A v \in Pages : v \notin Copied(p) => mine[v] = pte[p][v] /\ its[v] = None
  BY <1>1, <1>8 DEF Rows
<1> HIDE DEF mine, its
<1>11. /\ pte'[c] = its /\ pte'[p] = mine
       /\ \A q \in Procs : q # p /\ q # c => pte'[q] = pte[q]
  BY <1>1, <1>2, <1>9, <1>10 DEF Row
<1> HIDE DEF t
<1>12. GrantsHonoured'
  <2> SUFFICES ASSUME NEW q \in Procs, NEW v \in Pages, pte'[q][v] # None
               PROVE  q \in live' /\ Valid(q, v)' /\ (pte'[q][v].w => Writable(q, v)')
    BY DEF GrantsHonoured, Mapped, CanStore
  <2>1. CASE q = c
    <3>1. v \in Copied(p) /\ pte'[q][v] = shared[v]
      BY <1>10, <1>11, <2>1
    <3> QED BY <1>6, <1>8, <2>1, <3>1
  <2>2. CASE q # c
    <3>1. pte[q][v] # None /\ (pte'[q][v].w => pte[q][v].w)
      <4>1. CASE q = p
        <5>1. CASE v \in Copied(p)
          BY <1>8, <1>10, <1>11, <4>1, <5>1
        <5>2. CASE v \notin Copied(p)
          BY <1>10, <1>11, <4>1, <5>2
        <5> QED BY <5>1, <5>2
      <4>2. CASE q # p
        BY <1>11, <2>2, <4>2
      <4> QED BY <4>1, <4>2
    <3>2. q \in live /\ Valid(q, v) /\ (pte[q][v].w => Writable(q, v))
      BY <1>1, <3>1 DEF GrantsHonoured, Mapped, CanStore
    <3>3. Valid(q, v)' /\ (Writable(q, v) => Writable(q, v)')
      BY <1>6, <2>2, <3>2 DEF Valid, InData, Writable
    <3> QED BY <1>6, <3>1, <3>2, <3>3
  <2> QED BY <2>1, <2>2
<1>13. CodeThere'
  <2> SUFFICES ASSUME NEW q \in live', NEW v \in CodePages PROVE pte'[q][v] # None
    BY DEF CodeThere, Mapped
  <2>1. v \in Copied(p)
    BY <1>6
  <2>2. CASE q = c \/ q = p
    BY <1>8, <1>10, <1>11, <2>1, <2>2
  <2>3. CASE q # c /\ q # p
    BY <1>1, <1>6, <1>11, <2>3 DEF CodeThere, Mapped
  <2> QED BY <2>2, <2>3
<1> QED BY <1>5, <1>7, <1>12, <1>13 DEF Inv

\* The child of fork gets frames of its own.
LEMMA ForkKeeps ==
  ASSUME Inv, NEW p \in Procs, NEW c \in Procs, Fork(p, c)
  PROVE  Inv'
<1> DEFINE pages == Copied(p)
           w == [v \in pages |-> Writable(p, v)]
           row == [v \in Pages |-> IF v \in pages THEN Entry(NewFrame(v), w[v]) ELSE pte[c][v]]
<1>1. Shape /\ Kept(pte, ref, free) /\ GrantsHonoured /\ CodeThere /\ Home(pte)
      /\ pte \in [Procs -> Rows]
  BY DEF Inv, Kept, Home, Tables, Rows
<1>2. /\ p \in live /\ c \in Procs \ live /\ CanAlloc(pages)
      /\ \A v \in Pages : pte[c][v] = None
  <2>1. p \in live /\ c \in Procs \ live /\ CanAlloc(pages)
    BY DEF Fork, Running
  <2> QED BY <2>1, ValidFacts
<1>3. \A v \in pages : v \in Pages /\ Valid(p, v) /\ pte[p][v].pfn \in Frames
  <2>1. \A v \in pages : v \in Pages /\ Valid(p, v) /\ pte[p][v] # None
    BY DEF Copied, Mapped
  <2> QED BY <1>1, <2>1, MappedFacts
<1>4. \A v \in pages : Writable(p, v) \in BOOLEAN
  BY <1>3, ValidFacts
<1>5. \A v \in pages : NewFrame(v) \in Frames
  BY <1>1, <1>2, <1>3, NewFrameFacts
<1>6. ~AllocFails(pages)
  BY <1>1, <1>2, <1>3, NewFrameFacts
<1>7. /\ pte' = [pte EXCEPT ![c] = ChildTable(p, [v \in pages |-> Entry(NewFrame(v), Writable(p, v))])]
      /\ Alloc(pages) /\ NewChild(p, c)
      /\ Fill(pages, [v \in pages |-> content[pte[p][v].pfn]])
  BY <1>6 DEF Fork
<1>8. /\ live' = live \cup {c} /\ live' \subseteq Procs
      /\ area' \in [Procs -> [AreaPages -> {"none", "ro", "rw"}]]
      /\ brk' \in [Procs -> 0..DATA_PAGES]
      /\ \A q \in Procs : q # c => area'[q] = area[q] /\ brk'[q] = brk[q]
      /\ CodePages \subseteq pages
      /\ \A v \in Pages : Valid(p, v) => Valid(c, v)' /\ (Writable(p, v) => Writable(c, v)')
  BY <1>2, <1>7, ChildFacts
<1>9. content' \in [Frames -> Values \cup {Absent}]
  <2> DEFINE held == [v \in pages |-> content[pte[p][v].pfn]]
  <2>1. \A v \in pages : held[v] \in Values \cup {Absent}
    BY <1>1, <1>3 DEF Shape
  <2>2. Fill(pages, held) /\ pages \in SUBSET Pages
    BY <1>3, <1>7
  <2> HIDE DEF held, pages
  <2> QED BY <1>2, <2>1, <2>2, FillFacts
<1>10. Shape'
  BY <1>1, <1>7, <1>8, <1>9 DEF Shape, NewChild
<1>11. pte' = Row(pte, c, row)
  BY <1>2, <1>7 DEF ChildTable, Row
<1>12. \A v \in pages : w[v] = Writable(p, v) /\ w[v] \in BOOLEAN
  BY <1>4
<1> HIDE DEF w
<1>13. \A v \in pages : /\ Entry(NewFrame(v), w[v]) \in Entries /\ Entry(NewFrame(v), w[v]) # None
                        /\ Entry(NewFrame(v), w[v]).w = w[v]
  BY <1>5, <1>12, EntryFacts
<1>14. row \in Rows /\ \A v \in Pages :
         row[v] = IF v \in pages THEN Entry(NewFrame(v), w[v]) ELSE None
  BY <1>2, <1>13 DEF Rows
<1>15. Kept(pte, ref, free)'
  <2>1. pages \in SUBSET Pages
    BY <1>3
  <2> HIDE DEF pages
  <2> QED BY <1>1, <1>2, <1>7, <1>11, <1>12, <2>1, FreshFacts
<1> HIDE DEF row
<1>16. GrantsHonoured' /\ CodeThere'
  <2>1. ASSUME NEW v \in Pages, row[v] # None
        PROVE  c \in live' /\ Valid(c, v)' /\ (row[v].w => Writable(c, v)')
    <3>1. v \in pages /\ row[v].w = w[v]
      BY <1>13, <1>14, <2>1
    <3> QED BY <1>3, <1>8, <1>12, <3>1
  <2>2. \A v \in CodePages : row[v] # None
    BY <1>3, <1>8, <1>13, <1>14
  <2> QED BY <1>2, <1>8, <1>11, <1>14, <2>1, <2>2, GrantsFollow
<1> QED BY <1>10, <1>15, <1>16 DEF Inv

-----------------------------------------------------------------------------
(* The theorems                                                            *)

LEMMA InitInv == Init => Inv
<1> SUFFICES ASSUME Init PROVE Inv
  OBVIOUS
<1> DEFINE mine == FirstPages \X {FirstProc}
<1>1. /\ live = {FirstProc} /\ free = Frames \ mine /\ halted = "no"
      /\ area = [p \in Procs |-> [v \in AreaPages |-> "none"]]
      /\ brk = [p \in Procs |-> IF p = FirstProc THEN 1 ELSE 0]
      /\ ref = [f \in Frames |-> IF f \in free THEN 0 ELSE 1]
      /\ pte = [p \in Procs |-> [v \in Pages |->
                  IF p = FirstProc /\ v \in FirstPages
                  THEN Entry(<<v, p>>, v \notin CodePages) ELSE None]]
  BY DEF Init
<1>2. /\ FirstProc \in Procs /\ CODE_PAGES \in Nat /\ DATA_PAGES \in Nat \ {0}
      /\ DataStart \in DataPages /\ StackTop \in StackPages
      /\ FirstPages \subseteq Pages
  <2>1. DataStart \in DataPages /\ StackTop \in StackPages
    BY PageFacts, CowAssumption DEF DataPages, StackPages
  <2> QED BY <2>1, CowAssumption, SegmentFacts DEF FirstPages
<1>3. \A v \in Pages : <<v, FirstProc>> \in Frames
  BY <1>2 DEF Frames
<1>4. ASSUME NEW v \in FirstPages
      PROVE  /\ pte[FirstProc][v] \in Entries /\ pte[FirstProc][v] # None
             /\ pte[FirstProc][v].pfn = <<v, FirstProc>>
             /\ pte[FirstProc][v].w = (v \notin CodePages)
  <2>1. <<v, FirstProc>> \in Frames
    BY <1>2, <1>3
  <2>2. pte[FirstProc][v] = Entry(<<v, FirstProc>>, v \notin CodePages)
    BY <1>1, <1>2
  <2> QED BY <2>1, <2>2, EntryFacts
<1>5. \A p \in Procs, v \in Pages : p # FirstProc \/ v \notin FirstPages => pte[p][v] = None
  BY <1>1
<1>6. Shape
  <2>1. content \in [Frames -> Values \cup {Absent}]
    BY DEF Init
  <2>2. \A p \in Procs : brk[p] \in 0..DATA_PAGES
    BY <1>1, <1>2
  <2> QED BY <1>1, <1>2, <2>1, <2>2 DEF Shape
<1>7. Home(pte)
  <2>1. \A p \in Procs, v \in Pages : pte[p][v] \in Entries \cup {None}
    BY <1>4, <1>5
  <2>2. \A p \in Procs, v \in Pages : pte[p][v] # None => pte[p][v].pfn[1] = v
    BY <1>4, <1>5
  <2> QED BY <1>1, <2>1, <2>2 DEF Home, Tables
<1>8. ASSUME NEW f \in Frames
      PROVE  Sharers(pte, f) = IF f \in mine THEN {FirstProc} ELSE {}
  <2>1. f[1] \in Pages /\ f = <<f[1], f[2]>> /\ f[2] \in Procs
    BY DEF Frames
  <2>2. f \in mine <=> f[1] \in FirstPages /\ f[2] = FirstProc
    BY <2>1
  <2>3. \A p \in Procs : p \in Sharers(pte, f) <=>
          p = FirstProc /\ f[1] \in FirstPages /\ <<f[1], FirstProc>> = f
    BY <1>4, <1>5, <2>1 DEF Sharers
  <2>4. <<f[1], FirstProc>> = f <=> f[2] = FirstProc
    BY <2>1
  <2> HIDE DEF mine
  <2>5. \A p \in Procs : p \in Sharers(pte, f) <=> p = FirstProc /\ f \in mine
    BY <2>2, <2>3, <2>4
  <2> QED BY <1>2, <2>5 DEF Sharers
<1> HIDE DEF mine
<1>9. Counts(pte, ref, free)
  <2>1. Cardinality({FirstProc}) = 1 /\ Cardinality({}) = 0
    BY FS_Singleton, FS_EmptySet
  <2>2. ref \in [Frames -> Nat] /\ free \subseteq Frames
    BY <1>1
  <2>3. ASSUME NEW f \in Frames
        PROVE  ref[f] = Cardinality(Sharers(pte, f)) /\ (f \in free <=> Sharers(pte, f) = {})
    BY <1>1, <1>8, <2>1
  <2> QED BY <2>2, <2>3 DEF Counts
<1>10. Private(pte)
  <2> SUFFICES ASSUME NEW p \in Procs, NEW v \in Pages, pte[p][v] # None
               PROVE  Sharers(pte, pte[p][v].pfn) = {p}
    BY DEF Private
  <2>1. p = FirstProc /\ v \in FirstPages
    BY <1>5
  <2>2. pte[p][v].pfn \in Frames /\ p \in Sharers(pte, pte[p][v].pfn)
    BY <1>7, MappedFacts
  <2> QED BY <1>8, <2>1, <2>2
<1>11. GrantsHonoured
  <2> SUFFICES ASSUME NEW p \in Procs, NEW v \in Pages, pte[p][v] # None
               PROVE  p \in live /\ Valid(p, v) /\ (pte[p][v].w => Writable(p, v))
    BY DEF GrantsHonoured, Mapped, CanStore
  <2>1. p = FirstProc /\ v \in FirstPages
    BY <1>5
  <2>2. v \in CodePages \/ v = DataStart \/ v = StackTop
    BY <2>1 DEF FirstPages
  <2>3. InData(p, DataStart)
    <3>1. brk[p] = 1 /\ DataStart \in Nat
      BY <1>1, <2>1, PageFacts
    <3> QED BY <3>1 DEF InData
  <2>4. pte[p][v].w <=> v \notin CodePages
    BY <1>4, <2>1
  <2> QED BY <1>1, <1>2, <2>1, <2>2, <2>3, <2>4 DEF Valid, Writable
<1>12. CodeThere
  BY <1>1, <1>4 DEF CodeThere, Mapped, FirstPages
<1> QED BY <1>6, <1>7, <1>9, <1>10, <1>11, <1>12 DEF Inv, Kept

LEMMA NextInv == Inv /\ [Next]_vars => Inv'
<1> SUFFICES ASSUME Inv, [Next]_vars PROVE Inv'
  OBVIOUS
<1>1. CASE UNCHANGED vars
  <2>1. Shape'
    BY <1>1 DEF vars, Inv, Shape
  <2> QED BY <1>1, <2>1, TablesKept DEF vars
<1>2. ASSUME NEW p \in Procs, NEW v \in Touched, NEW o \in Ops,
             Hit(p, v, o) \/ FaultAbsent(p, v, o) \/ FaultCow(p, v, o) \/ Segfault(p, v, o)
      PROVE  Inv'
  <2>1. v \in Pages
    BY EntryAssumption
  <2> QED BY <1>2, <2>1, HitKeeps, FaultAbsentKeeps, FaultCowKeeps, TerminateKeeps DEF Segfault
<1>3. ASSUME NEW p \in Procs, NEW v \in Touched, NEW x \in Values, KernelCopy(p, v, x)
      PROVE  Inv'
  BY <1>3, KernelCopyKeeps, EntryAssumption
<1>4. ASSUME NEW p \in Procs, AreaCall(p) PROVE Inv'
  BY <1>4, MmapKeeps, MunmapKeeps, MprotectKeeps DEF AreaCall
<1>5. ASSUME NEW p \in Procs, NEW n \in 1..DATA_PAGES, Expand(p, n) \/ Shrink(p, n)
      PROVE  Inv'
  BY <1>5, ExpandKeeps, ShrinkKeeps
<1>6. ASSUME NEW p \in Procs, NEW c \in Procs, Cfork(p, c) \/ Fork(p, c) PROVE Inv'
  BY <1>6, CforkKeeps, ForkKeeps
<1>7. ASSUME NEW p \in Procs, Exit(p) PROVE Inv'
  BY <1>7, TerminateKeeps DEF Exit
<1> QED BY <1>1, <1>2, <1>3, <1>4, <1>5, <1>6, <1>7 DEF Next

\* The inductive invariant holds always.
THEOREM Invariance == Spec => []Inv
BY InitInv, NextInv, PTL DEF Spec

\* Counting entries is counting sharers.
LEMMA OwnersFacts ==
  ASSUME Home(pte), NEW f \in Frames
  PROVE  LET owners == {u \in Procs \X Pages : Maps(u[1], u[2], f)}
         IN  /\ Cardinality(owners) = Cardinality(Sharers(pte, f))
             /\ owners = {} <=> Sharers(pte, f) = {}
<1> DEFINE owners == {u \in Procs \X Pages : Maps(u[1], u[2], f)}
           sharers == Sharers(pte, f)
           entryOf == [p \in sharers |-> <<p, f[1]>>]
<1>1. \A p \in Procs, v \in Pages : Maps(p, v, f) <=> p \in sharers /\ v = f[1]
  BY FrameFacts DEF Maps, Mapped, Sharers, Home
<1>2. sharers \subseteq Procs /\ f[1] \in Pages
  BY FrameFacts DEF Sharers
<1> HIDE DEF sharers
<1>3. \A p \in sharers : <<p, f[1]>> \in owners
  BY <1>1, <1>2
<1>4. \A u \in owners : u[1] \in sharers /\ u = <<u[1], f[1]>>
  BY <1>1
<1> HIDE DEF owners
<1>5. entryOf \in [sharers -> owners]
  BY <1>3
<1>6. \A a, b \in sharers : entryOf[a] = entryOf[b] => a = b
  OBVIOUS
<1>7. \A u \in owners : \E p \in sharers : entryOf[p] = u
  BY <1>4
<1> HIDE DEF entryOf
<1>8. entryOf \in Bijection(sharers, owners)
  BY <1>5, <1>6, <1>7, Fun_IsBij
<1>9. ExistsBijection(sharers, owners)
  BY <1>8, Fun_ExistsBij
<1>10. IsFiniteSet(sharers)
  BY SharersFinite DEF sharers
<1>11. Cardinality(owners) = Cardinality(sharers)
  BY <1>9, <1>10, FS_Bijection
<1>12. owners = {} <=> sharers = {}
  BY <1>3, <1>4
<1> QED BY <1>11, <1>12 DEF owners, sharers

LEMMA InvImplies ==
  ASSUME Inv
  PROVE  TypeOK /\ CountsExact /\ WritableIsPrivate /\ GrantsHonoured /\ ChecksHold
<1>1. Shape /\ Home(pte) /\ Counts(pte, ref, free) /\ Private(pte) /\ GrantsHonoured
  BY DEF Inv, Kept
<1>2. TypeOK
  <2>1. ASSUME NEW f \in Frames PROVE ref[f] \in 0..Cardinality(Procs)
    <3>1. Sharers(pte, f) \in SUBSET Procs
      BY DEF Sharers
    <3>2. /\ Cardinality(Sharers(pte, f)) <= Cardinality(Procs)
          /\ Cardinality(Sharers(pte, f)) \in Nat /\ Cardinality(Procs) \in Nat
      BY <3>1, CowAssumption, FS_Subset, FS_CardinalityType
    <3> QED BY <1>1, <3>2 DEF Counts
  <2>2. ref \in [Frames -> 0..Cardinality(Procs)]
    BY <1>1, <2>1 DEF Counts
  <2>3. live \subseteq Procs /\ halted = "no" /\ free \subseteq Frames
    BY <1>1 DEF Shape, Counts
  <2>4. /\ area \in [Procs -> [AreaPages -> {"none", "ro", "rw"}]]
        /\ brk \in [Procs -> 0..DATA_PAGES]
        /\ content \in [Frames -> Values \cup {Absent}]
    BY <1>1 DEF Shape
  <2>5. pte \in [Procs -> [Pages -> Entries \cup {None}]]
    BY <1>1 DEF Home, Tables
  <2> QED BY <2>2, <2>3, <2>4, <2>5 DEF TypeOK
<1>3. CountsExact
  BY <1>1, OwnersFacts DEF CountsExact, Counts
<1>4. WritableIsPrivate
  <2> SUFFICES ASSUME NEW p \in Procs, NEW q \in Procs, NEW u \in Pages, NEW v \in Pages,
                      CanStore(p, v), Maps(q, u, pte[p][v].pfn)
               PROVE  q = p /\ u = v
    BY DEF WritableIsPrivate
  <2>1. Sharers(pte, pte[p][v].pfn) = {p} /\ pte[p][v].pfn[1] = v
    BY <1>1 DEF Private, Home, CanStore, Mapped
  <2>2. q \in Sharers(pte, pte[q][u].pfn) /\ pte[q][u].pfn[1] = u
    BY <1>1, MappedFacts DEF Maps, Mapped
  <2> QED BY <2>1, <2>2 DEF Maps
<1>5. ChecksHold
  BY <1>1 DEF Shape, ChecksHold
<1> QED BY <1>1, <1>2, <1>3, <1>4, <1>5

\* Every variable keeps its type: no count is negative, none exceeds the
\* number of processes, and entries name frames of the region.
THEOREM Typing == Spec => []TypeOK
BY Invariance, InvImplies, PTL

\* Whatever the order of faults, forks, protection changes and exits, the
\* count of a frame is the number of entries that name it, and the region has
\* exactly the frames that none names (page.c, get_pfn and put_pfn).
THEOREM CountsAreExact == Spec => []CountsExact
BY Invariance, InvImplies, PTL

\* A page that is writable without a fault is no one else's (v2p.c,
\* handle_cow_fault and change_mapping_prot).
THEOREM WritablePagesArePrivate == Spec => []WritableIsPrivate
BY Invariance, InvImplies, PTL

\* The page table never grants more than the segments and areas (v2p.c).
THEOREM GrantsAreHonoured == Spec => []GrantsHonoured
BY Invariance, InvImplies, PTL

\* OS_BUG and gassert in the code of counts and copy-on-write entries are
\* never reached (page.c and v2p.c).
THEOREM KernelChecksHold == Spec => []ChecksHold
BY Invariance, InvImplies, PTL

\* When a fault has been handled its instruction can be carried out: no
\* process faults on it for ever (page.c, do_page_fault).
THEOREM FaultsAreResolved == Spec => FaultsResolved
<1>1. Inv /\ [Next]_vars =>
        [\A p \in Procs, v \in Pages, o \in Ops :
           FaultAbsent(p, v, o) \/ FaultCow(p, v, o)
           => halted' # "no" \/ Allowed(p, v, o)']_vars
  BY FaultAbsentKeeps, FaultCowKeeps
<1>2. Spec => []Inv
  BY Invariance
<1> QED BY <1>1, <1>2, PTL DEF Spec, FaultsResolved

-----------------------------------------------------------------------------
(***************************************************************************)
(* What processes see.  Cow implements PrivateMemory if the write bit      *)
(* counts in kernel mode: sharing frames and copying them cannot be told   *)
(* from memories of their own.  Every operation of the kernel on frames is *)
(* described by what it does to what processes see (...Sees); what an      *)
(* action does to the abstract memory then follows.                        *)
(***************************************************************************)

\* What p sees at page v, with the tables t and the contents h.
See(t, h, p, v) == IF t[p][v] # None THEN h[t[p][v].pfn] ELSE Absent

View(t, h) == [p \in Procs |-> [v \in Pages |-> See(t, h, p, v)]]

\* A page that is there holds a value.
Full(t, h) == \A p \in Procs, v \in Pages : t[p][v] # None => See(t, h, p, v) \in Values

LEMMA ViewIs ==
  /\ [p \in Procs |-> [v \in Pages |-> Seen(p, v)]] = View(pte, content)
  /\ [p \in Procs |-> [v \in Pages |-> Seen(p, v)]]' = View(pte', content')
BY DEF Seen, View, See, Mapped

LEMMA ViewFacts ==
  ASSUME NEW t, NEW h, Full(t, h)
  PROVE  /\ View(t, h) \in [Procs -> [Pages -> Values \cup {Absent}]]
         /\ \A p \in Procs, v \in Pages :
              /\ View(t, h)[p][v] = See(t, h, p, v)
              /\ t[p][v] = None => View(t, h)[p][v] = Absent
              /\ t[p][v] # None => View(t, h)[p][v] \in Values
<1>1. \A p \in Procs, v \in Pages : See(t, h, p, v) \in Values \cup {Absent}
  BY DEF Full, See
<1> QED BY <1>1 DEF View, Full, See

-----------------------------------------------------------------------------
(* What an operation does to what processes see                            *)

\* Nobody sees a change where the frame and its contents stay.
LEMMA SeeSame ==
  ASSUME NEW t, NEW h, NEW u, NEW g, NEW p, NEW v, NEW q, NEW x,
         u[q][x] = None <=> t[p][v] = None,
         u[q][x] # None => u[q][x].pfn = t[p][v].pfn /\ g[t[p][v].pfn] = h[t[p][v].pfn]
  PROVE  See(u, g, q, x) = See(t, h, p, v)
BY DEF See

\* Pages that are given up are gone; a frame goes only with its last owner.
LEMMA DropSees ==
  ASSUME Kept(pte, ref, free), NEW p \in Procs, NEW pages \in SUBSET Pages, Drop(p, pages),
         NEW q \in Procs, NEW v \in Pages
  PROVE  /\ pte'[q][v] # None => pte[q][v] # None
         /\ See(pte', content', q, v) =
              IF q = p /\ v \in pages THEN Absent ELSE See(pte, content, q, v)
<1> DEFINE row == [u \in Pages |-> IF u \in pages THEN None ELSE pte[p][u]]
<1>1. Home(pte) /\ Kept(pte', ref', free') /\ pte' = Row(pte, p, row) /\ pte[p] \in Rows
  BY DropFacts DEF Kept, Home, Tables, Rows
<1>2. row \in Rows /\ \A u \in Pages : row[u] = IF u \in pages THEN None ELSE pte[p][u]
  BY <1>1 DEF Rows
<1> HIDE DEF row
<1>3. pte'[p] = row /\ \A r \in Procs : r # p => pte'[r] = pte[r]
  BY <1>1, <1>2, RowFacts
<1>4. CASE q = p /\ v \in pages
  BY <1>2, <1>3, <1>4 DEF See
<1>5. CASE ~(q = p /\ v \in pages)
  <2>1. pte'[q][v] = pte[q][v]
    BY <1>2, <1>3, <1>5
  <2>2. ASSUME pte[q][v] # None
        PROVE  content'[pte[q][v].pfn] = content[pte[q][v].pfn]
    <3> DEFINE f == pte[q][v].pfn
    <3>1. Home(pte') /\ Counts(pte', ref', free')
      BY <1>1 DEF Kept
    <3>2. f \in Frames /\ q \in Sharers(pte', f)
      BY <2>1, <2>2, <3>1, MappedFacts
    <3> HIDE DEF f
    <3>3. ref'[f] \in Nat /\ ref'[f] >= 1
      BY <3>1, <3>2, CountFacts
    <3>4. content' = [g \in Frames |-> IF g \in {k \in Frames : Uses(p, pages, k) > 0 /\ ref'[k] = 0}
                                       THEN Absent ELSE content[g]]
      BY DEF Drop, GiveBack
    <3>5. content'[f] = content[f]
      BY <3>2, <3>3, <3>4
    <3> QED BY <3>5 DEF f
  <2>3. See(pte', content', q, v) = See(pte, content, q, v)
    BY <2>1, <2>2, SeeSame
  <2> QED BY <1>5, <2>1, <2>3
<1> QED BY <1>4, <1>5

\* Fresh frames show what they are filled with, to their owner alone.
LEMMA FreshSees ==
  ASSUME Kept(pte, ref, free), NEW p \in Procs, NEW pages \in SUBSET Pages, CanAlloc(pages),
         NEW w, NEW held, \A u \in pages : w[u] \in BOOLEAN,
         pte' = Row(pte, p, [u \in Pages |-> IF u \in pages THEN Entry(NewFrame(u), w[u])
                                             ELSE pte[p][u]]),
         Fill(pages, held), NEW q \in Procs, NEW v \in Pages
  PROVE  /\ pte'[q][v] # None => pte[q][v] # None \/ (q = p /\ v \in pages)
         /\ See(pte', content', q, v) =
              IF q = p /\ v \in pages THEN held[v] ELSE See(pte, content, q, v)
<1> DEFINE row == [u \in Pages |-> IF u \in pages THEN Entry(NewFrame(u), w[u]) ELSE pte[p][u]]
<1>1. Home(pte) /\ pte[p] \in Rows /\ pte' = Row(pte, p, row)
  BY DEF Kept, Home, Tables, Rows
<1>2. \A u \in pages : /\ NewFrame(u) \in free /\ NewFrame(u) \in Frames
                       /\ NewFrame(u)[1] = u /\ Sharers(pte, NewFrame(u)) = {}
  BY NewFrameFacts
<1>3. \A u \in pages : /\ Entry(NewFrame(u), w[u]) \in Entries /\ Entry(NewFrame(u), w[u]) # None
                       /\ Entry(NewFrame(u), w[u]).pfn = NewFrame(u)
  BY <1>2, EntryFacts
<1>4. row \in Rows /\ \A u \in Pages :
        row[u] = IF u \in pages THEN Entry(NewFrame(u), w[u]) ELSE pte[p][u]
  BY <1>1, <1>3 DEF Rows
<1> HIDE DEF row
<1>5. pte'[p] = row /\ \A r \in Procs : r # p => pte'[r] = pte[r]
  <2>1. Row(pte, p, row)[p] = row /\ \A r \in Procs : r # p => Row(pte, p, row)[r] = pte[r]
    BY <1>1, <1>4, RowFacts
  <2> QED BY <1>1, <2>1, Zenon
<1>6. \A f \in Frames : content'[f] = IF f \in NewFrames(pages) THEN held[f[1]] ELSE content[f]
  BY DEF Fill
<1>7. CASE q = p /\ v \in pages
  <2>1. pte'[q][v] # None /\ pte'[q][v].pfn = NewFrame(v)
    BY <1>3, <1>4, <1>5, <1>7
  <2>2. content'[NewFrame(v)] = held[v]
    BY <1>2, <1>6, <1>7 DEF NewFrames
  <2> QED BY <1>7, <2>1, <2>2 DEF See
<1>8. CASE ~(q = p /\ v \in pages)
  <2>1. pte'[q][v] = pte[q][v]
    BY <1>4, <1>5, <1>8
  <2>2. ASSUME pte[q][v] # None
        PROVE  content'[pte[q][v].pfn] = content[pte[q][v].pfn]
    <3>1. pte[q][v].pfn \in Frames /\ q \in Sharers(pte, pte[q][v].pfn)
      BY <1>1, <2>2, MappedFacts
    <3>2. pte[q][v].pfn \notin NewFrames(pages)
      BY <1>2, <3>1 DEF NewFrames
    <3> QED BY <1>6, <3>1, <3>2
  <2>3. See(pte', content', q, v) = See(pte, content, q, v)
    BY <2>1, <2>2, SeeSame
  <2> QED BY <1>8, <2>1, <2>3
<1> QED BY <1>7, <1>8

\* The write bits may change, what is seen does not.
LEMMA BitsSee ==
  ASSUME Home(pte), NEW p \in Procs, NEW row \in Rows, pte' = Row(pte, p, row),
         content' = content,
         \A u \in Pages : /\ row[u] = None <=> pte[p][u] = None
                          /\ row[u] # None => row[u].pfn = pte[p][u].pfn,
         NEW q \in Procs, NEW v \in Pages
  PROVE  /\ pte'[q][v] # None => pte[q][v] # None
         /\ See(pte', content', q, v) = See(pte, content, q, v)
<1>1. Row(pte, p, row)[p] = row /\ \A r \in Procs : r # p => Row(pte, p, row)[r] = pte[r]
  BY RowFacts
<1>2. pte'[p] = row /\ \A r \in Procs : r # p => pte'[r] = pte[r]
  BY <1>1, Zenon
<1> QED BY <1>2 DEF See

-----------------------------------------------------------------------------
(* Steps of the abstract memory                                            *)

\* The processes see what they saw.
LEMMA NothingSeen ==
  ASSUME live' = live,
         \A q \in Procs, v \in Pages :
           /\ pte'[q][v] # None => pte[q][v] # None
           /\ See(pte', content', q, v) = See(pte, content, q, v),
         Full(pte, content)
  PROVE  Full(pte', content') /\ UNCHANGED Memory!pmvars
<1>1. Full(pte', content')
  BY DEF Full
<1>2. View(pte', content') = View(pte, content)
  BY DEF View
<1> QED BY <1>1, <1>2, ViewIs DEF Memory!pmvars

\* At most these pages of p look different.
LEMMA OnlyFacts ==
  ASSUME Full(pte, content), Full(pte', content'), NEW p \in Procs, NEW pages,
         \A q \in Procs, v \in Pages : ~(q = p /\ v \in pages) =>
            See(pte', content', q, v) = See(pte, content, q, v)
  PROVE  Memory!Only(p, pages)
<1>1. View(pte', content') \in [Procs -> [Pages -> Values \cup {Absent}]]
  BY ViewFacts
<1>2. \A q \in Procs : q # p => View(pte', content')[q] = View(pte, content)[q]
  BY DEF View
<1>3. \A v \in Pages \ pages : View(pte', content')[p][v] = View(pte, content)[p][v]
  BY DEF View
<1> QED BY <1>1, <1>2, <1>3, ViewIs DEF Memory!Only, Memory!Contents

LEMMA StoreSeen ==
  ASSUME Full(pte, content), NEW p \in live, live \subseteq Procs, NEW v \in Pages,
         live' = live, pte' = pte, pte[p][v] # None,
         See(pte', content', p, v) \in Values,
         \A q \in Procs, u \in Pages : ~(q = p /\ u = v) =>
            See(pte', content', q, u) = See(pte, content, q, u)
  PROVE  Full(pte', content') /\ Memory!Store(p, v)
<1>1. p \in Procs
  OBVIOUS
<1>2. Full(pte', content')
  BY DEF Full
<1>3. Memory!Only(p, {v})
  BY <1>1, <1>2, OnlyFacts
<1>4. View(pte, content)[p][v] # Absent /\ View(pte', content')[p][v] \in Values
  BY <1>1, <1>2, ViewFacts, CowAssumption
<1> QED BY <1>2, <1>3, <1>4, ViewIs DEF Memory!Store

LEMMA TouchSeen ==
  ASSUME Full(pte, content), NEW p \in live, live \subseteq Procs,
         NEW lo \in Pages, NEW hi \in Pages, live' = live,
         \A v \in lo..hi : pte[p][v] = None,
         \A q \in Procs, v \in Pages :
           /\ pte'[q][v] # None => pte[q][v] # None \/ (q = p /\ v \in lo..hi)
           /\ IF q = p /\ v \in lo..hi THEN See(pte', content', q, v) \in Values
              ELSE See(pte', content', q, v) = See(pte, content, q, v)
  PROVE  Full(pte', content') /\ Memory!Touch(p, lo, hi)
<1>1. p \in Procs /\ lo..hi \subseteq Pages
  BY PageFacts DEF Pages
<1>2. Full(pte', content')
  BY DEF Full
<1>3. Memory!Only(p, lo..hi)
  BY <1>1, <1>2, OnlyFacts
<1>4. \A v \in lo..hi : View(pte, content)[p][v] = Absent /\ View(pte', content')[p][v] \in Values
  <2> TAKE v \in lo..hi
  <2>1. v \in Pages
    BY <1>1
  <2>2. View(pte, content)[p][v] = Absent
    BY <1>1, <2>1, ViewFacts
  <2>3. View(pte', content')[p][v] = See(pte', content', p, v)
    BY <1>1, <1>2, <2>1, ViewFacts
  <2> QED BY <1>1, <2>1, <2>2, <2>3
<1> QED BY <1>2, <1>3, <1>4, ViewIs DEF Memory!Touch

LEMMA GiveUpSeen ==
  ASSUME Full(pte, content), NEW p \in live, live \subseteq Procs,
         NEW lo \in Pages, NEW hi \in Pages, live' = live,
         \A q \in Procs, v \in Pages :
           /\ pte'[q][v] # None => pte[q][v] # None
           /\ See(pte', content', q, v) = IF q = p /\ v \in lo..hi THEN Absent
                                          ELSE See(pte, content, q, v),
         \A v \in lo..hi : pte'[p][v] = None
  PROVE  Full(pte', content') /\ Memory!GiveUp(p, lo, hi)
<1>1. p \in Procs /\ lo..hi \subseteq Pages
  BY PageFacts DEF Pages
<1>2. Full(pte', content')
  <2> SUFFICES ASSUME NEW q \in Procs, NEW v \in Pages, pte'[q][v] # None
               PROVE  See(pte', content', q, v) \in Values
    BY DEF Full
  <2> QED BY DEF Full
<1>3. Memory!Only(p, lo..hi)
  <2>1. \A q \in Procs, v \in Pages : ~(q = p /\ v \in lo..hi) =>
          See(pte', content', q, v) = See(pte, content, q, v)
    OBVIOUS
  <2> QED BY <1>1, <1>2, <2>1, OnlyFacts
<1>4. \A v \in lo..hi : View(pte', content')[p][v] = Absent
  BY <1>1 DEF View
<1> QED BY <1>2, <1>3, <1>4, ViewIs DEF Memory!GiveUp

LEMMA ForkSeen ==
  ASSUME Full(pte, content), NEW p \in live, live \subseteq Procs,
         NEW c \in Procs \ live, live' = live \cup {c},
         \A q \in Procs, v \in Pages : q # c =>
           /\ pte'[q][v] # None => pte[q][v] # None
           /\ See(pte', content', q, v) = See(pte, content, q, v),
         \A v \in Pages :
           /\ pte'[c][v] # None => v \notin LowStack /\ pte[p][v] # None
           /\ See(pte', content', c, v) = IF v \in LowStack THEN Absent
                                          ELSE See(pte, content, p, v)
  PROVE  Full(pte', content') /\ Memory!Fork(p, c)
<1>1. p \in Procs /\ c \in Procs
  OBVIOUS
<1>2. Full(pte', content')
  BY <1>1 DEF Full
<1>3. Memory!Only(c, Pages)
  BY <1>1, <1>2, OnlyFacts
<1>4. View(pte', content')[c] =
        [v \in Pages |-> IF v \in LowStack THEN Absent ELSE View(pte, content)[p][v]]
  BY <1>1 DEF View
<1> QED BY <1>2, <1>3, <1>4, ViewIs DEF Memory!Fork

LEMMA ExitSeen ==
  ASSUME Full(pte, content), NEW p \in live, live \subseteq Procs, live' = live \ {p},
         \A q \in Procs, v \in Pages :
           /\ pte'[q][v] # None => q # p /\ pte[q][v] # None
           /\ See(pte', content', q, v) = IF q = p THEN Absent ELSE See(pte, content, q, v)
  PROVE  Full(pte', content') /\ Memory!Exit(p)
<1>1. p \in Procs
  OBVIOUS
<1>2. Full(pte', content')
  BY DEF Full
<1>3. Memory!Only(p, Pages)
  BY <1>1, <1>2, OnlyFacts
<1>4. View(pte', content')[p] = [v \in Pages |-> Absent]
  BY <1>1 DEF View
<1> QED BY <1>2, <1>3, <1>4, ViewIs DEF Memory!Exit, Memory!Nothing

-----------------------------------------------------------------------------
(* Every action is a step of the abstract memory, or is not seen           *)

\* A store through a writable entry reaches the page of one process.
LEMMA StoreStep ==
  ASSUME Inv, Full(pte, content), NEW p \in live, NEW v \in Pages, CanStore(p, v), NEW x \in Values,
         content' = [content EXCEPT ![pte[p][v].pfn] = x], live' = live, pte' = pte
  PROVE  Full(pte', content') /\ Memory!Store(p, v)
<1> DEFINE f == pte[p][v].pfn
<1>1. Home(pte) /\ Private(pte) /\ live \subseteq Procs /\ p \in Procs
      /\ content \in [Frames -> Values \cup {Absent}]
  BY DEF Inv, Kept, Shape
<1>2. pte[p][v] # None /\ f \in Frames /\ f[1] = v /\ Sharers(pte, f) = {p}
  <2>1. pte[p][v] # None /\ pte[p][v].w
    BY DEF CanStore, Mapped
  <2> QED BY <1>1, <2>1, MappedFacts DEF Private
<1> HIDE DEF f
<1>3. content'[f] = x /\ \A g \in Frames : g # f => content'[g] = content[g]
  BY <1>1, <1>2 DEF f
<1>4. ASSUME NEW q \in Procs, NEW u \in Pages, ~(q = p /\ u = v)
      PROVE  See(pte', content', q, u) = See(pte, content, q, u)
  <2>1. ASSUME pte[q][u] # None
        PROVE  content'[pte[q][u].pfn] = content[pte[q][u].pfn]
    <3>1. /\ pte[q][u].pfn \in Frames /\ pte[q][u].pfn[1] = u
          /\ q \in Sharers(pte, pte[q][u].pfn)
      BY <1>1, <2>1, MappedFacts
    <3>2. pte[q][u].pfn # f
      BY <1>2, <1>4, <3>1
    <3> QED BY <1>3, <3>1, <3>2
  <2> QED BY <2>1 DEF See
<1>5. See(pte', content', p, v) \in Values
  BY <1>2, <1>3 DEF See, f
<1> QED BY <1>1, <1>2, <1>4, <1>5, StoreSeen

\* A fault brings a page in.
LEMMA FaultAbsentStep ==
  ASSUME Inv, Full(pte, content), NEW p \in Procs, NEW v \in Pages, NEW o, FaultAbsent(p, v, o)
  PROVE  Full(pte', content') /\ Memory!Touch(p, v, v)
<1> DEFINE w == [u \in {v} |-> Writable(p, v)]
<1>1. Kept(pte, ref, free) /\ live \subseteq Procs
  BY DEF Inv, Shape
<1>2. p \in live /\ pte[p][v] = None /\ CanAlloc({v})
  BY DEF FaultAbsent, Running, Mapped
<1>3. MapFresh(p, {v}, Writable(p, v)) /\ live' = live
  BY <1>1, <1>2, NewFrameFacts DEF FaultAbsent
<1>4. pte' = Row(pte, p, [u \in Pages |-> IF u \in {v} THEN Entry(NewFrame(u), w[u])
                                          ELSE pte[p][u]])
  BY <1>3 DEF MapFresh, Row
<1>5. PICK held \in [{v} -> Values] : Fill({v}, held)
  BY <1>3 DEF MapFresh
<1>6. \A u \in {v} : w[u] \in BOOLEAN
  BY ValidFacts
<1>7. v..v = {v} /\ \A u \in v..v : pte[p][u] = None
  BY <1>2, PageFacts DEF Pages
<1> HIDE DEF w
<1>8. ASSUME NEW q \in Procs, NEW u \in Pages
      PROVE  /\ pte'[q][u] # None => pte[q][u] # None \/ (q = p /\ u \in {v})
             /\ See(pte', content', q, u) =
                  IF q = p /\ u \in {v} THEN held[u] ELSE See(pte, content, q, u)
  BY <1>1, <1>2, <1>4, <1>5, <1>6, FreshSees
<1>9. ASSUME NEW q \in Procs, NEW u \in Pages
      PROVE  /\ pte'[q][u] # None => pte[q][u] # None \/ (q = p /\ u \in v..v)
             /\ IF q = p /\ u \in v..v THEN See(pte', content', q, u) \in Values
                ELSE See(pte', content', q, u) = See(pte, content, q, u)
  BY <1>5, <1>7, <1>8
<1> QED BY <1>1, <1>2, <1>3, <1>7, <1>9, TouchSeen

\* A copied page holds what the shared one held.
LEMMA FaultCowStep ==
  ASSUME Inv, Full(pte, content), NEW p \in Procs, NEW v \in Pages, NEW o, FaultCow(p, v, o)
  PROVE  Full(pte', content') /\ UNCHANGED Memory!pmvars
<1>1. Kept(pte, ref, free) /\ Home(pte) /\ pte[p] \in Rows
  BY DEF Inv, Kept, Home, Tables, Rows
<1>2. Mapped(p, v) /\ pte[p][v] # None /\ ~Allowed(p, v, o) /\ ~Denied(p, v, o)
  BY DEF FaultCow, Mapped
<1>3. Writable(p, v)
  BY <1>2 DEF Allowed, Denied
<1>4. ~(ref[pte[p][v].pfn] > 1 /\ CanAlloc({v}) /\ AllocFails({v}))
  BY <1>1, NewFrameFacts
<1>5. live' = live
  BY <1>4 DEF FaultCow
<1>6. CASE ref[pte[p][v].pfn] > 1 /\ CanAlloc({v}) /\ CopyFrame(p, v)
  <2> DEFINE w == [u \in {v} |-> TRUE]
             held == [u \in {v} |-> content[pte[p][v].pfn]]
  <2>1. pte' = Row(pte, p, [pte[p] EXCEPT ![v] = Entry(NewFrame(v), TRUE)])
    BY <1>1, <1>2, <1>3, <1>6, CopyFrameFacts
  <2>2. [pte[p] EXCEPT ![v] = Entry(NewFrame(v), TRUE)] =
        [u \in Pages |-> IF u \in {v} THEN Entry(NewFrame(u), w[u]) ELSE pte[p][u]]
    BY <1>1 DEF Rows
  <2>3. \A u \in {v} : w[u] \in BOOLEAN
    OBVIOUS
  <2>4. Fill({v}, held)
    BY <1>6 DEF CopyFrame
  <2>5. \A u \in {v} : held[u] = See(pte, content, p, u)
    BY <1>2 DEF See
  <2> HIDE DEF w, held
  <2>6. pte' = Row(pte, p, [u \in Pages |-> IF u \in {v} THEN Entry(NewFrame(u), w[u])
                                            ELSE pte[p][u]])
    BY <2>1, <2>2, Zenon
  <2>7. ASSUME NEW q \in Procs, NEW u \in Pages
        PROVE  /\ pte'[q][u] # None => pte[q][u] # None \/ (q = p /\ u \in {v})
               /\ See(pte', content', q, u) =
                    IF q = p /\ u \in {v} THEN held[u] ELSE See(pte, content, q, u)
    BY <1>1, <1>6, <2>3, <2>4, <2>6, FreshSees
  <2> QED BY <1>2, <1>5, <2>5, <2>7, NothingSeen
<1>7. CASE ref[pte[p][v].pfn] <= 1 /\ LastOwner(p, v)
  <2> DEFINE row == [pte[p] EXCEPT ![v] = Entry(pte[p][v].pfn, TRUE)]
  <2>1. pte' = Row(pte, p, row) /\ content' = content
    BY <1>1, <1>2, <1>7, LastOwnerFacts DEF LastOwner
  <2>2. pte[p][v].pfn \in Frames
    BY <1>1, <1>2, MappedFacts
  <2>3. /\ Entry(pte[p][v].pfn, TRUE) \in Entries /\ Entry(pte[p][v].pfn, TRUE) # None
        /\ Entry(pte[p][v].pfn, TRUE).pfn = pte[p][v].pfn
    BY <2>2, EntryFacts
  <2>4. row \in Rows
    BY <1>1, <2>3 DEF Rows
  <2>5. \A u \in Pages : /\ row[u] = None <=> pte[p][u] = None
                         /\ row[u] # None => row[u].pfn = pte[p][u].pfn
    BY <1>1, <1>2, <2>3 DEF Rows
  <2> HIDE DEF row
  <2>6. ASSUME NEW q \in Procs, NEW u \in Pages
        PROVE  /\ pte'[q][u] # None => pte[q][u] # None
               /\ See(pte', content', q, u) = See(pte, content, q, u)
    BY <1>1, <2>1, <2>4, <2>5, BitsSee
  <2> QED BY <1>5, <2>6, NothingSeen
<1> QED BY <1>4, <1>6, <1>7 DEF FaultCow

LEMMA TerminateStep ==
  ASSUME Inv, Full(pte, content), NEW p \in live, Terminate(p)
  PROVE  Full(pte', content') /\ Memory!Exit(p)
<1>1. Kept(pte, ref, free) /\ live \subseteq Procs /\ p \in Procs
  BY DEF Inv, Shape
<1>2. Drop(p, Pages) /\ live' = live \ {p}
  BY <1>1, DropFacts DEF Terminate
<1>3. ASSUME NEW q \in Procs, NEW v \in Pages
      PROVE  /\ pte'[q][v] # None => pte[q][v] # None
             /\ See(pte', content', q, v) =
                  IF q = p /\ v \in Pages THEN Absent ELSE See(pte, content, q, v)
  BY <1>1, <1>2, DropSees
<1>4. \A v \in Pages : pte'[p][v] = None
  <2>1. \A u \in Pages : pte'[p][u] = None
    BY <1>1, <1>2 DEF Drop, Clear, Kept, Home, Tables
  <2> QED BY <2>1
<1>5. ASSUME NEW q \in Procs, NEW v \in Pages
      PROVE  /\ pte'[q][v] # None => q # p /\ pte[q][v] # None
             /\ See(pte', content', q, v) = IF q = p THEN Absent ELSE See(pte, content, q, v)
  BY <1>3, <1>4
<1> QED BY <1>1, <1>2, <1>5, ExitSeen

LEMMA MmapStep ==
  ASSUME Inv, Full(pte, content), NEW p \in Procs, NEW lo \in AreaPages, NEW hi \in AreaPages,
         NEW prot, NEW populate \in BOOLEAN, Mmap(p, lo, hi, prot, populate)
  PROVE  /\ Full(pte', content')
         /\ Memory!Touch(p, lo, hi) \/ UNCHANGED Memory!pmvars
<1> DEFINE pages == lo..hi
           w == [v \in pages |-> prot = "rw"]
<1>1. Kept(pte, ref, free) /\ live \subseteq Procs
  BY DEF Inv, Shape
<1>2. pages \subseteq AreaPages /\ pages \subseteq Pages /\ lo \in Pages /\ hi \in Pages
  BY PageFacts, SegmentFacts DEF AreaPages
<1>3. p \in live /\ (populate => CanAlloc(pages))
  BY DEF Mmap, Running
<1>4. \A v \in pages : pte[p][v] = None
  <2>1. \A v \in pages : area[p][v] = "none"
    BY <1>2 DEF Mmap, UsedAreas
  <2> QED BY <1>2, <2>1, ValidFacts
<1> HIDE DEF pages
<1>5. ~(populate /\ AllocFails(pages))
  BY <1>1, <1>2, <1>3, NewFrameFacts
<1>6. /\ IF populate THEN MapFresh(p, pages, prot = "rw")
         ELSE UNCHANGED <<pte, ref, free, content>>
      /\ live' = live
  BY <1>5 DEF Mmap, pages
<1>7. CASE ~populate
  <2>1. pte' = pte /\ content' = content
    BY <1>6, <1>7
  <2>2. \A q \in Procs, v \in Pages : /\ pte'[q][v] # None => pte[q][v] # None
                                      /\ See(pte', content', q, v) = See(pte, content, q, v)
    BY <2>1 DEF See
  <2> QED BY <1>6, <2>2, NothingSeen
<1>8. CASE populate
  <2>1. MapFresh(p, pages, prot = "rw")
    BY <1>6, <1>8
  <2>2. pte' = Row(pte, p, [v \in Pages |-> IF v \in pages THEN Entry(NewFrame(v), w[v])
                                            ELSE pte[p][v]])
    BY <2>1 DEF MapFresh, Row
  <2>3. PICK held \in [pages -> Values] : Fill(pages, held)
    BY <2>1 DEF MapFresh
  <2>4. \A v \in pages : w[v] \in BOOLEAN
    OBVIOUS
  <2> HIDE DEF w
  <2>5. ASSUME NEW q \in Procs, NEW v \in Pages
        PROVE  /\ pte'[q][v] # None => pte[q][v] # None \/ (q = p /\ v \in pages)
               /\ See(pte', content', q, v) =
                    IF q = p /\ v \in pages THEN held[v] ELSE See(pte, content, q, v)
    BY <1>1, <1>2, <1>3, <1>8, <2>2, <2>3, <2>4, FreshSees
  <2>6. ASSUME NEW q \in Procs, NEW v \in Pages
        PROVE  /\ pte'[q][v] # None => pte[q][v] # None \/ (q = p /\ v \in lo..hi)
               /\ IF q = p /\ v \in lo..hi THEN See(pte', content', q, v) \in Values
                  ELSE See(pte', content', q, v) = See(pte, content, q, v)
    BY <2>3, <2>5 DEF pages
  <2>7. \A v \in lo..hi : pte[p][v] = None
    BY <1>4 DEF pages
  <2> QED BY <1>1, <1>2, <1>3, <1>6, <2>6, <2>7, TouchSeen
<1> QED BY <1>7, <1>8

\* The pages of a range without the gaps in it are given up; the gaps have
\* nothing to see.
LEMMA MunmapStep ==
  ASSUME Inv, Full(pte, content), NEW p \in Procs, NEW lo \in AreaPages, NEW hi \in AreaPages,
         Munmap(p, lo, hi)
  PROVE  /\ Full(pte', content')
         /\ (\E end \in Pages : Memory!GiveUp(p, lo, end)) \/ UNCHANGED Memory!pmvars
<1> DEFINE pages == InAreas(p, lo, hi)
           gone == Purged(pages)
           end == IF hi \in pages /\ hi + 1 \in AreaPages THEN hi + 1 ELSE hi
<1>1. Kept(pte, ref, free) /\ live \subseteq Procs /\ p \in live
  BY DEF Inv, Shape, Munmap, Running
<1>2. gone \subseteq AreaPages /\ gone \subseteq Pages /\ pages \subseteq AreaPages
  BY SegmentFacts DEF Purged, InAreas, UsedAreas
<1>3. Drop(p, gone) /\ live' = live
  BY <1>1, <1>2, DropFacts DEF Munmap
<1>4. ASSUME NEW q \in Procs, NEW v \in Pages
      PROVE  /\ pte'[q][v] # None => pte[q][v] # None
             /\ See(pte', content', q, v) =
                  IF q = p /\ v \in gone THEN Absent ELSE See(pte, content, q, v)
  <2> HIDE DEF gone
  <2> QED BY <1>1, <1>2, <1>3, DropSees
<1>5. CASE pages = {}
  <2>1. gone = {}
    BY <1>5 DEF Purged
  <2> QED BY <1>3, <1>4, <2>1, NothingSeen
<1>6. CASE pages # {}
  <2>1. pages = UsedAreas(p) \cap (lo..hi)
    BY <1>6 DEF InAreas
  <2>2. lo \in Pages /\ end \in Pages /\ lo..end \subseteq AreaPages
    BY PageFacts, SegmentFacts DEF AreaPages
  <2>3. gone \subseteq lo..end
    <3> SUFFICES ASSUME NEW v \in gone PROVE v \in lo..end
      OBVIOUS
    <3>1. v \in AreaPages /\ (v \in pages \/ \E u \in pages : v = u + 1)
      BY DEF Purged
    <3> QED BY <2>1, <3>1 DEF AreaPages, UsedAreas
  <2>4. ASSUME NEW v \in lo..end, v \notin gone PROVE pte[p][v] = None
    <3>1. v \in AreaPages
      BY <2>2
    <3>2. v \notin pages /\ ~(v - 1 \in pages)
      <4>1. v \in Int
        BY <3>1 DEF AreaPages
      <4>2. v - 1 \in pages => v = (v - 1) + 1
        BY <4>1
      <4> QED BY <2>4, <3>1, <4>2 DEF Purged
    <3>3. v \in lo..hi
      BY <2>4, <3>1, <3>2, PageFacts DEF AreaPages
    <3>4. area[p][v] = "none"
      BY <2>1, <3>1, <3>2, <3>3 DEF UsedAreas
    <3> QED BY <1>1, <3>1, <3>4, SegmentFacts, ValidFacts
  <2>5. \A v \in lo..end : pte'[p][v] = None
    <3> TAKE v \in lo..end
    <3>1. v \in Pages
      BY <2>2, SegmentFacts
    <3>2. v \in gone => pte'[p][v] = None
      <4> HIDE DEF gone
      <4> QED BY <1>1, <1>3, <3>1 DEF Drop, Clear, Kept, Home, Tables
    <3> QED BY <1>1, <1>4, <2>4, <3>1, <3>2
  <2> HIDE DEF gone, end
  <2>6. ASSUME NEW q \in Procs, NEW v \in Pages
        PROVE  /\ pte'[q][v] # None => pte[q][v] # None
               /\ See(pte', content', q, v) = IF q = p /\ v \in lo..end THEN Absent
                                              ELSE See(pte, content, q, v)
    <3>1. CASE q = p /\ v \in lo..end
      BY <1>4, <2>5, <3>1 DEF See
    <3>2. CASE ~(q = p /\ v \in lo..end)
      BY <1>4, <2>3, <3>2
    <3> QED BY <3>1, <3>2
  <2>7. Full(pte', content') /\ Memory!GiveUp(p, lo, end)
    BY <1>1, <1>3, <2>2, <2>5, <2>6, GiveUpSeen
  <2> QED BY <2>2, <2>7
<1> QED BY <1>5, <1>6

LEMMA MprotectStep ==
  ASSUME Inv, Full(pte, content), NEW p \in Procs, NEW lo \in AreaPages, NEW hi \in AreaPages,
         NEW prot, Mprotect(p, lo, hi, prot)
  PROVE  Full(pte', content') /\ UNCHANGED Memory!pmvars
<1> DEFINE pages == {v \in InAreas(p, lo, hi) : area[p][v] # prot}
           row == [v \in Pages |-> IF v \in pages /\ Mapped(p, v) /\ ref[pte[p][v].pfn] = 1
                                   THEN Entry(pte[p][v].pfn, prot = "rw") ELSE pte[p][v]]
<1>1. Kept(pte, ref, free) /\ Home(pte) /\ pte[p] \in Rows
  BY DEF Inv, Kept, Home, Tables, Rows
<1>2. pages \subseteq Pages
  BY SegmentFacts DEF InAreas, UsedAreas
<1>3. IF ReprotectFails(p, pages) THEN Halt("Invalid Cow PFN")
      ELSE /\ Reprotect(p, pages, prot)
           /\ UNCHANGED <<live, free, ref, content>>
  BY DEF Mprotect
<1> HIDE DEF pages
<1>4. /\ Reprotect(p, pages, prot) /\ UNCHANGED <<live, free, ref, content>>
      /\ pte' = Row(pte, p, row)
  BY <1>1, <1>2, <1>3, ReprotectFacts
<1>5. \A v \in Pages : Mapped(p, v) =>
        /\ Entry(pte[p][v].pfn, prot = "rw") \in Entries
        /\ Entry(pte[p][v].pfn, prot = "rw") # None
        /\ Entry(pte[p][v].pfn, prot = "rw").pfn = pte[p][v].pfn
  BY <1>1, MappedFacts, EntryFacts DEF Mapped
<1>6. row \in Rows
  BY <1>1, <1>5 DEF Rows
<1>7. \A v \in Pages : /\ row[v] = None <=> pte[p][v] = None
                       /\ row[v] # None => row[v].pfn = pte[p][v].pfn
  BY <1>5 DEF Mapped
<1> HIDE DEF row
<1>8. ASSUME NEW q \in Procs, NEW u \in Pages
      PROVE  /\ pte'[q][u] # None => pte[q][u] # None
             /\ See(pte', content', q, u) = See(pte, content, q, u)
  BY <1>1, <1>4, <1>6, <1>7, BitsSee
<1> QED BY <1>4, <1>8, NothingSeen

LEMMA ExpandStep ==
  ASSUME Full(pte, content), NEW p, NEW n, Expand(p, n)
  PROVE  Full(pte', content') /\ UNCHANGED Memory!pmvars
<1>1. live' = live /\ pte' = pte /\ content' = content
  BY DEF Expand
<1>2. \A q \in Procs, v \in Pages : /\ pte'[q][v] # None => pte[q][v] # None
                                    /\ See(pte', content', q, v) = See(pte, content, q, v)
  BY <1>1 DEF See
<1> QED BY <1>1, <1>2, NothingSeen

LEMMA ShrinkStep ==
  ASSUME Inv, Full(pte, content), NEW p \in Procs, NEW n \in 1..DATA_PAGES, Shrink(p, n)
  PROVE  /\ Full(pte', content')
         /\ \E lo, hi \in Pages : Memory!GiveUp(p, lo, hi)
<1> DEFINE lo == DataStart + brk[p] - n
           hi == DataStart + brk[p] - 1
           pages == lo..hi
<1>1. Shape /\ Kept(pte, ref, free) /\ live \subseteq Procs /\ p \in live
  BY DEF Inv, Shape, Shrink, Running
<1>2. /\ n <= brk[p] /\ brk[p] \in Nat /\ brk[p] <= DATA_PAGES /\ DATA_PAGES \in Nat
      /\ DataStart \in Nat
  BY <1>1, InDataFacts, CowAssumption, PageFacts DEF Shrink
<1>3. pages \subseteq DataPages /\ lo \in DataPages /\ hi \in DataPages
  BY <1>2 DEF DataPages, AreaStart
<1>4. pages \subseteq Pages /\ lo \in Pages /\ hi \in Pages
  BY <1>3, SegmentFacts
<1>5. Drop(p, pages) /\ live' = live
  BY <1>1, <1>4, DropFacts DEF Shrink
<1> HIDE DEF lo, hi
<1>6. ASSUME NEW q \in Procs, NEW v \in Pages
      PROVE  /\ pte'[q][v] # None => pte[q][v] # None
             /\ See(pte', content', q, v) =
                  IF q = p /\ v \in pages THEN Absent ELSE See(pte, content, q, v)
  <2> HIDE DEF pages
  <2> QED BY <1>1, <1>4, <1>5, DropSees
<1>7. \A v \in pages : pte'[p][v] = None
  <2> HIDE DEF pages
  <2> QED BY <1>1, <1>4, <1>5 DEF Drop, Clear, Kept, Home, Tables
<1>8. Full(pte', content') /\ Memory!GiveUp(p, lo, hi)
  BY <1>1, <1>4, <1>5, <1>6, <1>7, GiveUpSeen
<1> QED BY <1>4, <1>8

\* Every page of the parent is copied but those below the top of the stack.
LEMMA CopiedFacts ==
  ASSUME Inv, NEW p \in Procs, NEW v \in Pages
  PROVE  v \in Copied(p) <=> v \notin LowStack /\ pte[p][v] # None
BY DEF Inv, Copied, GrantsHonoured, Mapped

LEMMA CforkStep ==
  ASSUME Inv, Full(pte, content), NEW p \in Procs, NEW c \in Procs, Cfork(p, c)
  PROVE  Full(pte', content') /\ Memory!Fork(p, c)
<1>1. Kept(pte, ref, free) /\ Home(pte) /\ pte \in [Procs -> Rows] /\ live \subseteq Procs
  BY DEF Inv, Kept, Home, Tables, Rows, Shape
<1>2. p \in live /\ c \in Procs \ live /\ c # p /\ \A v \in Pages : pte[c][v] = None
  <2>1. p \in live /\ c \in Procs \ live /\ c # p
    BY DEF Cfork, Running
  <2> QED BY <2>1, ValidFacts
<1>3. /\ SharePages(p, c) /\ live' = live \cup {c} /\ content' = content
  BY <1>1, <1>2, CforkFacts DEF Cfork, NewChild
<1> DEFINE shared == [v \in Copied(p) |-> Entry(pte[p][v].pfn, FALSE)]
           mine == [v \in Pages |-> IF v \in Copied(p) THEN shared[v] ELSE pte[p][v]]
           its == [v \in Pages |-> IF v \in Copied(p) THEN shared[v] ELSE None]
<1>4. ASSUME NEW v \in Copied(p)
      PROVE  pte[p][v] # None /\ shared[v] # None /\ shared[v].pfn = pte[p][v].pfn
  <2>1. v \in Pages /\ pte[p][v] # None
    BY DEF Copied, Mapped
  <2>2. shared[v] = Entry(pte[p][v].pfn, FALSE)
    OBVIOUS
  <2>3. pte[p][v].pfn \in Frames
    BY <1>1, <2>1, MappedFacts
  <2> HIDE DEF shared
  <2> QED BY <2>1, <2>2, <2>3, EntryFacts
<1>5. pte' = [pte EXCEPT ![p] = mine, ![c] = its]
  BY <1>3 DEF SharePages, ChildTable
<1>6. \A v \in Pages : /\ mine[v] = IF v \in Copied(p) THEN shared[v] ELSE pte[p][v]
                       /\ its[v] = IF v \in Copied(p) THEN shared[v] ELSE None
  OBVIOUS
<1> HIDE DEF shared, mine, its
<1>7. /\ pte'[p] = mine /\ pte'[c] = its
      /\ \A q \in Procs : q # p /\ q # c => pte'[q] = pte[q]
  BY <1>1, <1>2, <1>5
<1>8. ASSUME NEW q \in Procs, NEW v \in Pages, q # c
      PROVE  /\ pte'[q][v] # None => pte[q][v] # None
             /\ See(pte', content', q, v) = See(pte, content, q, v)
  <2>1. CASE q = p /\ v \in Copied(p)
    BY <1>3, <1>4, <1>6, <1>7, <2>1 DEF See
  <2>2. CASE ~(q = p /\ v \in Copied(p))
    <3>1. pte'[q][v] = pte[q][v]
      BY <1>6, <1>7, <1>8, <2>2
    <3> QED BY <1>3, <3>1 DEF See
  <2> QED BY <2>1, <2>2
<1>9. ASSUME NEW v \in Pages
      PROVE  /\ pte'[c][v] # None => v \notin LowStack /\ pte[p][v] # None
             /\ See(pte', content', c, v) = IF v \in LowStack THEN Absent
                                            ELSE See(pte, content, p, v)
  <2>1. v \in Copied(p) <=> v \notin LowStack /\ pte[p][v] # None
    BY CopiedFacts
  <2>2. CASE v \in Copied(p)
    BY <1>3, <1>4, <1>6, <1>7, <2>1, <2>2 DEF See
  <2>3. CASE v \notin Copied(p)
    BY <1>6, <1>7, <2>1, <2>3 DEF See
  <2> QED BY <2>2, <2>3
<1> QED BY <1>1, <1>2, <1>3, <1>8, <1>9, ForkSeen

LEMMA ForkStep ==
  ASSUME Inv, Full(pte, content), NEW p \in Procs, NEW c \in Procs, Fork(p, c)
  PROVE  Full(pte', content') /\ Memory!Fork(p, c)
<1> DEFINE pages == Copied(p)
           w == [v \in pages |-> Writable(p, v)]
           held == [v \in pages |-> content[pte[p][v].pfn]]
<1>1. Kept(pte, ref, free) /\ live \subseteq Procs
  BY DEF Inv, Shape
<1>2. /\ p \in live /\ c \in Procs \ live /\ CanAlloc(pages)
      /\ \A v \in Pages : pte[c][v] = None
  <2>1. p \in live /\ c \in Procs \ live /\ CanAlloc(pages)
    BY DEF Fork, Running
  <2> QED BY <2>1, ValidFacts
<1>3. \A v \in Pages : v \in pages <=> v \notin LowStack /\ pte[p][v] # None
  BY CopiedFacts
<1>4. pages \in SUBSET Pages
  BY DEF Copied
<1>5. \A v \in pages : w[v] \in BOOLEAN
  BY <1>4, ValidFacts
<1>6. \A v \in pages : held[v] = See(pte, content, p, v)
  BY <1>3, <1>4 DEF See
<1>7. ~AllocFails(pages)
  BY <1>1, <1>2, <1>4, NewFrameFacts
<1>8. /\ pte' = [pte EXCEPT ![c] = ChildTable(p, [v \in pages |-> Entry(NewFrame(v), Writable(p, v))])]
      /\ live' = live \cup {c} /\ Fill(pages, held)
  BY <1>7 DEF Fork, NewChild
<1>9. pte' = Row(pte, c, [v \in Pages |-> IF v \in pages THEN Entry(NewFrame(v), w[v])
                                          ELSE pte[c][v]])
  BY <1>2, <1>8 DEF ChildTable, Row
<1> HIDE DEF pages, w, held
<1>10. ASSUME NEW q \in Procs, NEW v \in Pages
       PROVE  /\ pte'[q][v] # None => pte[q][v] # None \/ (q = c /\ v \in pages)
              /\ See(pte', content', q, v) =
                   IF q = c /\ v \in pages THEN held[v] ELSE See(pte, content, q, v)
  <2>1. Fill(pages, held) /\ CanAlloc(pages)
    BY <1>2, <1>8
  <2> QED BY <1>1, <1>2, <1>4, <1>5, <1>9, <2>1, FreshSees
<1>11. ASSUME NEW v \in Pages
       PROVE  /\ pte'[c][v] # None => v \notin LowStack /\ pte[p][v] # None
              /\ See(pte', content', c, v) = IF v \in LowStack THEN Absent
                                             ELSE See(pte, content, p, v)
  <2>1. CASE v \in pages
    BY <1>2, <1>3, <1>6, <1>10, <2>1
  <2>2. CASE v \notin pages
    BY <1>2, <1>3, <1>10, <2>2 DEF See
  <2> QED BY <2>1, <2>2
<1>12. \A q \in Procs, v \in Pages : q # c =>
         /\ pte'[q][v] # None => pte[q][v] # None
         /\ See(pte', content', q, v) = See(pte, content, q, v)
  BY <1>10
<1> QED BY <1>1, <1>2, <1>8, <1>11, <1>12, ForkSeen

-----------------------------------------------------------------------------
(* The refinement                                                          *)

LEMMA InitSeen == Init => Full(pte, content) /\ Memory!PMInit
<1> SUFFICES ASSUME Init PROVE Full(pte, content) /\ Memory!PMInit
  OBVIOUS
<1>1. Inv
  BY InitInv
<1>2. Home(pte) /\ Counts(pte, ref, free)
  BY <1>1 DEF Inv, Kept
<1>3. PICK x \in Values : content = [f \in Frames |-> IF f \in free THEN Absent ELSE x]
  BY DEF Init
<1>4. Full(pte, content)
  <2> SUFFICES ASSUME NEW p \in Procs, NEW v \in Pages, pte[p][v] # None
               PROVE  content[pte[p][v].pfn] \in Values
    BY DEF Full, See
  <2>1. pte[p][v].pfn \in Frames /\ p \in Sharers(pte, pte[p][v].pfn)
    BY <1>2, MappedFacts
  <2>2. pte[p][v].pfn \notin free
    BY <1>2, <2>1 DEF Counts
  <2> QED BY <1>3, <2>1, <2>2
<1>5. live = {FirstProc} /\ FirstProc \in Procs
  BY CowAssumption DEF Init
<1>6. ASSUME NEW q \in Procs \ live PROVE View(pte, content)[q] = [v \in Pages |-> Absent]
  <2>1. \A v \in Pages : pte[q][v] = None
    BY <1>1, <1>6, ValidFacts
  <2> QED BY <2>1 DEF View, See
<1>7. View(pte, content) \in [Procs -> [Pages -> Values \cup {Absent}]]
  BY <1>4, ViewFacts
<1> QED BY <1>4, <1>5, <1>6, <1>7, ViewIs DEF Memory!PMInit, Memory!Contents, Memory!Nothing

LEMMA StepSeen ==
  ASSUME WP, Inv, Full(pte, content), [Next]_vars
  PROVE  Full(pte', content') /\ (Memory!PMNext \/ UNCHANGED Memory!pmvars)
<1>1. live \subseteq Procs /\ AreaPages \subseteq Pages /\ Touched \subseteq Pages
  BY SegmentFacts, EntryAssumption DEF Inv, Shape
<1>2. CASE UNCHANGED vars
  <2>1. live' = live /\ pte' = pte /\ content' = content
    BY <1>2 DEF vars
  <2>2. \A q \in Procs, v \in Pages : /\ pte'[q][v] # None => pte[q][v] # None
                                      /\ See(pte', content', q, v) = See(pte, content, q, v)
    BY <2>1 DEF See
  <2> QED BY <2>1, <2>2, NothingSeen
<1>3. ASSUME NEW p \in Procs, NEW v \in Touched, NEW o \in Ops, Hit(p, v, o)
      PROVE  Full(pte', content') /\ Memory!PMNext
  <2>1. /\ p \in live /\ CanStore(p, v) /\ o \in Values /\ live' = live /\ pte' = pte
        /\ content' = [content EXCEPT ![pte[p][v].pfn] = o]
    BY <1>3 DEF Hit, Running, Allowed, Ops, Load
  <2>2. Full(pte', content') /\ Memory!Store(p, v)
    BY <1>1, <2>1, StoreStep
  <2> QED BY <1>1, <2>2 DEF Memory!PMNext
<1>4. ASSUME NEW p \in Procs, NEW v \in Touched, NEW x \in Values, KernelCopy(p, v, x)
      PROVE  Full(pte', content') /\ Memory!PMNext
  <2>1. /\ p \in live /\ CanStore(p, v) /\ live' = live /\ pte' = pte
        /\ content' = [content EXCEPT ![pte[p][v].pfn] = x]
    BY <1>4 DEF KernelCopy, Running
  <2>2. Full(pte', content') /\ Memory!Store(p, v)
    BY <1>1, <2>1, StoreStep
  <2> QED BY <1>1, <2>2 DEF Memory!PMNext
<1>5. ASSUME NEW p \in Procs, NEW v \in Touched, NEW o \in Ops, FaultAbsent(p, v, o)
      PROVE  Full(pte', content') /\ Memory!PMNext
  <2>1. Full(pte', content') /\ Memory!Touch(p, v, v)
    BY <1>1, <1>5, FaultAbsentStep
  <2> QED BY <1>1, <2>1 DEF Memory!PMNext
<1>6. ASSUME NEW p \in Procs, NEW v \in Touched, NEW o \in Ops, FaultCow(p, v, o)
      PROVE  Full(pte', content') /\ UNCHANGED Memory!pmvars
  BY <1>1, <1>6, FaultCowStep
<1>7. ASSUME NEW p \in Procs, p \in live, Terminate(p)
      PROVE  Full(pte', content') /\ Memory!PMNext
  <2>1. Full(pte', content') /\ Memory!Exit(p)
    BY <1>7, TerminateStep
  <2> QED BY <2>1 DEF Memory!PMNext
<1>8. ASSUME NEW p \in Procs, AreaCall(p)
      PROVE  Full(pte', content') /\ (Memory!PMNext \/ UNCHANGED Memory!pmvars)
  <2>1. ASSUME NEW lo \in AreaPages, NEW hi \in AreaPages, NEW prot \in {"ro", "rw"},
               NEW populate \in BOOLEAN, Mmap(p, lo, hi, prot, populate)
        PROVE  Full(pte', content') /\ (Memory!PMNext \/ UNCHANGED Memory!pmvars)
    <3>1. Full(pte', content') /\ (Memory!Touch(p, lo, hi) \/ UNCHANGED Memory!pmvars)
      BY <2>1, MmapStep
    <3> QED BY <1>1, <3>1 DEF Memory!PMNext
  <2>2. ASSUME NEW lo \in AreaPages, NEW hi \in AreaPages, Munmap(p, lo, hi)
        PROVE  Full(pte', content') /\ (Memory!PMNext \/ UNCHANGED Memory!pmvars)
    <3>1. /\ Full(pte', content')
          /\ (\E end \in Pages : Memory!GiveUp(p, lo, end)) \/ UNCHANGED Memory!pmvars
      BY <2>2, MunmapStep
    <3> QED BY <1>1, <3>1 DEF Memory!PMNext
  <2>3. ASSUME NEW lo \in AreaPages, NEW hi \in AreaPages, NEW prot \in {"ro", "rw"},
               Mprotect(p, lo, hi, prot)
        PROVE  Full(pte', content') /\ UNCHANGED Memory!pmvars
    BY <2>3, MprotectStep
  <2> QED BY <1>8, <2>1, <2>2, <2>3 DEF AreaCall
<1>9. ASSUME NEW p \in Procs, NEW n \in 1..DATA_PAGES, Expand(p, n)
      PROVE  Full(pte', content') /\ UNCHANGED Memory!pmvars
  BY <1>9, ExpandStep
<1>10. ASSUME NEW p \in Procs, NEW n \in 1..DATA_PAGES, Shrink(p, n)
       PROVE  Full(pte', content') /\ Memory!PMNext
  <2>1. Full(pte', content') /\ \E lo, hi \in Pages : Memory!GiveUp(p, lo, hi)
    BY <1>10, ShrinkStep
  <2> QED BY <2>1 DEF Memory!PMNext
<1>11. ASSUME NEW p \in Procs, NEW c \in Procs, Cfork(p, c) \/ Fork(p, c)
       PROVE  Full(pte', content') /\ Memory!PMNext
  <2>1. Full(pte', content') /\ Memory!Fork(p, c)
    BY <1>11, CforkStep, ForkStep
  <2> QED BY <2>1 DEF Memory!PMNext
<1>12. ASSUME Next
       PROVE  Full(pte', content') /\ (Memory!PMNext \/ UNCHANGED Memory!pmvars)
  <2>1. PICK p \in Procs :
          \/ \E v \in Touched, o \in Ops :
               Hit(p, v, o) \/ FaultAbsent(p, v, o) \/ FaultCow(p, v, o) \/ Segfault(p, v, o)
          \/ \E v \in Touched, x \in Values : KernelCopy(p, v, x)
          \/ AreaCall(p)
          \/ \E n \in 1..DATA_PAGES : Expand(p, n) \/ Shrink(p, n)
          \/ \E c \in Procs : Cfork(p, c) \/ Fork(p, c)
          \/ Exit(p)
    BY <1>12 DEF Next
  <2>2. \A v, o : Segfault(p, v, o) => p \in live /\ Terminate(p)
    BY DEF Segfault, Running
  <2>3. Exit(p) => p \in live /\ Terminate(p)
    BY DEF Exit, Running
  <2> QED BY <1>3, <1>4, <1>5, <1>6, <1>7, <1>8, <1>9, <1>10, <1>11, <2>1, <2>2, <2>3
<1> QED BY <1>2, <1>12

\* Copy-on-write cannot be told from memories of their own: a process reads
\* what it wrote, a child starts with what its parent had, and the stores,
\* faults, copies, protection changes and exits of others change nothing, if
\* the kernel too minds the write bit (v2p.c and fork.c).
THEOREM CowIsInvisible == ASSUME WP PROVE Spec => ImplementsPrivateMemory
<1>1. Init => Full(pte, content) /\ Memory!PMInit
  BY InitSeen
<1>2. Inv /\ Full(pte, content) /\ [Next]_vars =>
        Full(pte, content)' /\ [Memory!PMNext]_(Memory!pmvars)
  BY StepSeen
<1>3. Spec => []Inv
  BY Invariance
<1> QED BY <1>1, <1>2, <1>3, PTL DEF Spec, ImplementsPrivateMemory, Memory!PMSpec

=============================================================================
