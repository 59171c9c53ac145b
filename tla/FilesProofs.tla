---------------------------- MODULE FilesProofs ----------------------------
(***************************************************************************)
(* Proofs about Files and about Pipe, the ring behind a pipe of Files.     *)
(*                                                                         *)
(* First Files: the counts of file objects are exact, for any number of    *)
(* processes, descriptors, objects, pipes and inodes: what keeps           *)
(* descriptors from dangling, tells a pipe when an end is closed and an    *)
(* offset where its file ends.  A count is the cardinality of a set of     *)
(* pairs of a process and a descriptor.  The first lemmas say how it       *)
(* changes when one descriptor changes (SetFd) and when a process with all *)
(* its descriptors comes or goes (RowAdded, RowRemoved); each call is then *)
(* one or two such changes.                                                *)
(*                                                                         *)
(* Then Pipe, for a ring of any size: its type invariant, the agreement of *)
(* the count with the positions, that an admitted call goes through, and   *)
(* that the ring implements the queue of Fifo.                             *)
(***************************************************************************)
EXTENDS Files, Pipe, FiniteSetTheorems, SequenceTheorems, TLAPS

\* The descriptors of the table t that lead to f, and those of all the processes
\* that run, in the state with the processes P and the tables T.
HoldsIn(t, f) == {fd \in Fds : t[fd] = f}

HoldersIn(P, T, f) == {d \in {p \in Procs : P[p] = "runs"} \X Fds : T[d[1]][d[2]] = f}

\* A process that runs has no pointer an earlier life of its slot left behind.
Live(P, T) == \A p \in Procs, fd \in Fds : P[p] = "runs" => T[p][fd] \in FileIds \union {None}

\* Every descriptor of a process that runs is counted once, and nothing else is
\* but what cfork counts twice.  An object that is gone has no descriptor.
Exact(P, T, F, W) ==
  \A f \in FileIds :
    IF F[f] = None THEN W[f] = 0 /\ Cardinality(HoldersIn(P, T, f)) = 0
    ELSE F[f].ref_count = Cardinality(HoldersIn(P, T, f)) + W[f]

\* What a file object is for is there: the inode it names, with its offset in it,
\* or the pipe it is an end of.
Backed(F, Q, I) ==
  \A f \in FileIds : F[f] # None =>
    /\ F[f].kind = "regular" =>
         /\ F[f].of \in Inodes /\ I[F[f].of] # None
         /\ F[f].offp <= I[F[f].of].file_size
    /\ F[f].kind = "pipe" =>
         /\ F[f].of \in PipeIds /\ Q[F[f].of] # None
         /\ F[f].mode \in {{"O_READ"}, {"O_WRITE"}}

\* A pipe has one object for each end, however many descriptors share it.
EndsApart(F) ==
  \A f, g \in FileIds :
    /\ F[f] # None /\ F[g] # None /\ F[f].kind = "pipe" /\ F[g].kind = "pipe"
    /\ F[f].of = F[g].of /\ F[f].mode = F[g].mode
    => f = g

\* The flag of an end that an object still stands for is set.
EndsOpen(F, Q) ==
  \A f \in FileIds :
    F[f] # None /\ F[f].kind = "pipe" =>
      IF Reader(F[f].mode) THEN Q[F[f].of].is_ropen ELSE Q[F[f].of].is_wopen

\* The variables have their types.
Typed ==
  /\ procs \in [Procs -> {"unused", "runs", "stuck"}]
  /\ files \in [Procs -> [Fds -> FileIds \union {None, Stale}]]
  /\ file \in [FileIds -> FileObjects \union {None}]
  /\ pipe \in [PipeIds -> PipeObjects \union {None}]
  /\ inode \in [Inodes -> InodeObjects \union {None}]
  /\ twice \in [FileIds -> Nat]

\* The inductive invariant.  Descriptors and counts mean something only while
\* the model goes on: where it stops the kernel has overrun a table, met OS_BUG
\* or started a process with another's pointers.
Inv ==
  /\ Typed
  /\ Backed(file, pipe, inode) /\ EndsApart(file)
  /\ Going => /\ Live(procs, files)
              /\ Exact(procs, files, file, twice)
              /\ EndsOpen(file, pipe)

-----------------------------------------------------------------------------
(* Counting descriptors                                                    *)

Tables == [Procs -> [Fds -> FileIds \union {None, Stale}]]

\* There are finitely many processes and descriptors, so that Cardinality counts.
LEMMA ProcsFinite == IsFiniteSet(Procs) /\ IsFiniteSet(Fds)
BY FilesAssumption, FS_Interval DEF Procs, Fds

\* The descriptors of f can be counted, in all the tables
LEMMA HoldersFinite ==
  ASSUME NEW P, NEW T, NEW f
  PROVE  IsFiniteSet(HoldersIn(P, T, f)) /\ Cardinality(HoldersIn(P, T, f)) \in Nat
<1>1. IsFiniteSet(Procs \X Fds)
  BY ProcsFinite, FS_Product
<1>2. HoldersIn(P, T, f) \in SUBSET (Procs \X Fds)
  BY DEF HoldersIn
<1> QED BY <1>1, <1>2, FS_Subset, FS_CardinalityType

\* and in one of them.
LEMMA HoldsFinite ==
  ASSUME NEW t, NEW f
  PROVE  /\ IsFiniteSet(HoldsIn(t, f))
         /\ Cardinality(HoldsIn(t, f)) \in Nat
<1>1. HoldsIn(t, f) \in SUBSET Fds
  BY DEF HoldsIn
<1> QED BY <1>1, ProcsFinite, FS_Subset, FS_CardinalityType

\* The store of a pointer into a descriptor.
SetIn(T, p, fd, x) == [T EXCEPT ![p][fd] = x]

\* One descriptor of a process that runs is given to x.
LEMMA SetFd ==
  ASSUME NEW P, NEW T \in Tables, NEW p \in Procs, P[p] = "runs", NEW fd \in Fds,
         NEW x \in FileIds \union {None}, NEW f \in FileIds
  PROVE  Cardinality(HoldersIn(P, SetIn(T, p, fd, x), f)) =
           Cardinality(HoldersIn(P, T, f))
             - (IF T[p][fd] = f THEN 1 ELSE 0) + (IF x = f THEN 1 ELSE 0)
<1> DEFINE T2 == SetIn(T, p, fd, x)
           H == HoldersIn(P, T, f)
           H2 == HoldersIn(P, T2, f)
           d == <<p, fd>>
<1>1. \A q \in Procs, e \in Fds : T2[q][e] = IF q = p /\ e = fd THEN x ELSE T[q][e]
  BY DEF Tables, SetIn
<1>2. (d \in H <=> T[p][fd] = f) /\ (d \in H2 <=> x = f)
  BY <1>1 DEF HoldersIn
<1>3. H \ {d} = H2 \ {d}
  BY <1>1 DEF HoldersIn
<1>4. IsFiniteSet(H) /\ IsFiniteSet(H2) /\ Cardinality(H) \in Nat /\ Cardinality(H2) \in Nat
  BY HoldersFinite
<1> HIDE DEF H, H2, d
<1>5. Cardinality(H \ {d}) = IF d \in H THEN Cardinality(H) - 1 ELSE Cardinality(H)
  BY <1>4, FS_RemoveElement
<1>6. Cardinality(H2 \ {d}) = IF d \in H2 THEN Cardinality(H2) - 1 ELSE Cardinality(H2)
  BY <1>4, FS_RemoveElement
<1>7. Cardinality(H \ {d}) = Cardinality(H2 \ {d})
  BY <1>3
<1>8. Cardinality(H2) = Cardinality(H)
        - (IF T[p][fd] = f THEN 1 ELSE 0) + (IF x = f THEN 1 ELSE 0)
  BY <1>2, <1>4, <1>5, <1>6, <1>7
<1> QED BY <1>8 DEF H, H2, T2

\* The descriptors of one process are a row of the product.
LEMMA RowCardinality ==
  ASSUME NEW p, NEW S, IsFiniteSet(S)
  PROVE  IsFiniteSet({p} \X S) /\ Cardinality({p} \X S) = Cardinality(S)
<1>1. IsFiniteSet({p}) /\ Cardinality({p}) = 1
  BY FS_Singleton
<1>2. Cardinality({p} \X S) = 1 * Cardinality(S) /\ IsFiniteSet({p} \X S)
  BY <1>1, FS_Product
<1>3. Cardinality(S) \in Nat
  BY FS_CardinalityType
<1> QED BY <1>2, <1>3

\* Nothing changes for the processes other than c.
SameBut(c, P, T, P2, T2) ==
  \A q \in Procs \ {c} : P2[q] = P[q] /\ (P[q] = "runs" => T2[q] = T[q])

\* A process that runs with the table t comes: its descriptors count.
LEMMA RowAdded ==
  ASSUME NEW P, NEW T \in Tables, NEW P2, NEW T2 \in Tables, NEW c \in Procs,
         P[c] # "runs", P2[c] = "runs",
         SameBut(c, P, T, P2, T2),
         NEW f
  PROVE  Cardinality(HoldersIn(P2, T2, f)) =
           Cardinality(HoldersIn(P, T, f)) + Cardinality(HoldsIn(T2[c], f))
<1> DEFINE H == HoldersIn(P, T, f)
           S == HoldsIn(T2[c], f)
           R == {c} \X S
<1>1. HoldersIn(P2, T2, f) = H \union R
  BY DEF HoldersIn, HoldsIn, SameBut
<1>2. H \cap R = {}
  BY DEF HoldersIn
<1>3. IsFiniteSet(H) /\ Cardinality(H) \in Nat
  BY HoldersFinite
<1>4. IsFiniteSet(S) /\ Cardinality(S) \in Nat
  BY HoldsFinite
<1>5. IsFiniteSet(R) /\ Cardinality(R) = Cardinality(S)
  BY <1>4, RowCardinality
<1>6. Cardinality({}) = 0
  BY FS_EmptySet
<1>7. Cardinality(H \union R) = Cardinality(H) + Cardinality(R) - Cardinality({})
  BY <1>2, <1>3, <1>5, FS_Union
<1> HIDE DEF H, S, R
<1> QED BY <1>1, <1>3, <1>4, <1>5, <1>6, <1>7 DEF H, S

\* A process that runs goes: the same the other way round.
LEMMA RowRemoved ==
  ASSUME NEW P, NEW T \in Tables, NEW P2, NEW T2 \in Tables, NEW c \in Procs,
         P[c] = "runs", P2[c] # "runs",
         SameBut(c, P, T, P2, T2),
         NEW f
  PROVE  Cardinality(HoldersIn(P2, T2, f)) =
           Cardinality(HoldersIn(P, T, f)) - Cardinality(HoldsIn(T[c], f))
<1>1. SameBut(c, P2, T2, P, T)
  BY DEF SameBut
<1>2. Cardinality(HoldersIn(P, T, f)) =
        Cardinality(HoldersIn(P2, T2, f)) + Cardinality(HoldsIn(T[c], f))
  BY <1>1, RowAdded
<1>3. /\ Cardinality(HoldersIn(P, T, f)) \in Nat /\ Cardinality(HoldersIn(P2, T2, f)) \in Nat
      /\ Cardinality(HoldsIn(T[c], f)) \in Nat
  BY HoldersFinite, HoldsFinite
<1> QED BY <1>2, <1>3

\* Who has a descriptor is counted; what nobody counts is not named.
LEMMA Held ==
  ASSUME NEW P, NEW T, NEW p \in Procs, P[p] = "runs", NEW fd \in Fds, NEW f, T[p][fd] = f
  PROVE  Cardinality(HoldersIn(P, T, f)) \in Nat \ {0}
<1>1. <<p, fd>> \in HoldersIn(P, T, f)
  BY DEF HoldersIn
<1>2. IsFiniteSet(HoldersIn(P, T, f)) /\ Cardinality(HoldersIn(P, T, f)) \in Nat
  BY HoldersFinite
<1>3. Cardinality(HoldersIn(P, T, f)) # 0
  BY <1>1, <1>2, FS_EmptySet
<1> QED BY <1>2, <1>3

\* Two descriptors of a process that lead to f are counted as two.
LEMMA HeldTwice ==
  ASSUME NEW P, NEW T \in Tables, NEW p \in Procs, P[p] = "runs",
         NEW fd \in Fds, NEW e \in Fds, e # fd,
         NEW f \in FileIds, T[p][fd] = f, T[p][e] = f
  PROVE  Cardinality(HoldersIn(P, T, f)) > 1
<1> DEFINE T2 == SetIn(T, p, fd, None)
<1>1. T2[p][e] = f
  BY DEF Tables, SetIn
<1>2. Cardinality(HoldersIn(P, T2, f)) \in Nat \ {0}
  BY <1>1, Held
<1>3. None # f
  BY FilesAssumption
<1>4. Cardinality(HoldersIn(P, T2, f)) = Cardinality(HoldersIn(P, T, f)) - 1 + 0
  BY <1>3, SetFd
<1>5. Cardinality(HoldersIn(P, T, f)) \in Nat
  BY HoldersFinite
<1> QED BY <1>2, <1>4, <1>5

-----------------------------------------------------------------------------
(* File objects                                                            *)

\* Tables of file objects.
Objects == [FileIds -> FileObjects \union {None}]

\* A null pointer is no object and no page of one.
LEMMA NotNone ==
  /\ None \notin FileIds /\ None \notin FileObjects
  /\ None \notin PipeObjects /\ None \notin InodeObjects
BY FilesAssumption, ObjectAssumption

\* G has no object that F has not, up to counts.
Alike(G, F) ==
  \A f \in FileIds : G[f] # None =>
    /\ F[f] # None
    /\ G[f].kind = F[f].kind /\ G[f].mode = F[f].mode
    /\ G[f].offp = F[f].offp /\ G[f].of = F[f].of

\* What is known of objects whatever their counts stays when some of them go.
LEMMA AlikeKeeps ==
  ASSUME NEW F, NEW G, Alike(G, F), NEW Q, NEW I
  PROVE  /\ Backed(F, Q, I) => Backed(G, Q, I)
         /\ EndsApart(F) => EndsApart(G)
         /\ EndsOpen(F, Q) => EndsOpen(G, Q)
<1>1. Backed(F, Q, I) => Backed(G, Q, I)
  BY DEF Alike, Backed
<1>2. EndsApart(F) => EndsApart(G)
  BY DEF Alike, EndsApart
<1>3. EndsOpen(F, Q) => EndsOpen(G, Q)
  BY DEF Alike, EndsOpen
<1> QED BY <1>1, <1>2, <1>3

\* ref_count++ on an object.
LEMMA CountedFacts ==
  ASSUME NEW F \in Objects, NEW f \in FileIds, F[f] # None, NEW n \in Nat,
         NEW G, G = Counted(F, f, n)
  PROVE  /\ G \in Objects /\ Alike(G, F)
         /\ G[f] # None /\ G[f].ref_count = F[f].ref_count + n
         /\ \A g \in FileIds \ {f} : G[g] = F[g]
<1>1. F[f] \in FileObjects /\ F[f].ref_count + n \in Nat
  BY DEF Objects, FileObjects
<1>2. G[f] = [F[f] EXCEPT !.ref_count = F[f].ref_count + n]
  BY DEF Counted, Objects
<1>3. G[f] \in FileObjects
  BY <1>1, <1>2 DEF FileObjects
<1>4. \A g \in FileIds \ {f} : G[g] = F[g]
  BY DEF Counted, Objects
<1>5. G \in Objects
  BY <1>3, <1>4 DEF Counted, Objects
<1>6. Alike(G, F)
  BY <1>1, <1>2, <1>4 DEF Alike, FileObjects
<1>7. G[f].ref_count = F[f].ref_count + n
  BY <1>1, <1>2 DEF FileObjects
<1> QED BY <1>3, <1>4, <1>5, <1>6, <1>7, NotNone

\* ref_count-- on an object, n times, which frees it with the last descriptor.
LEMMA DropFacts ==
  ASSUME NEW F \in Objects, NEW f \in FileIds, F[f] # None, NEW n \in Nat,
         NEW G, G = Drop(F, f, n)
  PROVE  /\ G \in Objects /\ Alike(G, F)
         /\ F[f].ref_count <= n => G[f] = None
         /\ F[f].ref_count > n => G[f] # None /\ G[f].ref_count = F[f].ref_count - n
         /\ \A g \in FileIds \ {f} : G[g] = F[g]
<1>1. F[f] \in FileObjects /\ F[f].ref_count \in Nat
  BY DEF Objects, FileObjects
<1>2. G[f] = IF F[f].ref_count <= n THEN None
             ELSE [F[f] EXCEPT !.ref_count = F[f].ref_count - n]
  BY DEF Drop, Objects
<1>3. \A g \in FileIds \ {f} : G[g] = F[g]
  BY DEF Drop, Objects
<1>4. F[f].ref_count > n => G[f] \in FileObjects /\ G[f].ref_count = F[f].ref_count - n
  BY <1>1, <1>2 DEF FileObjects
<1>5. G[f] \in FileObjects \union {None}
  BY <1>1, <1>2, <1>4
<1>6. G \in Objects
  BY <1>3, <1>5 DEF Drop, Objects
<1>7. Alike(G, F)
  BY <1>1, <1>2, <1>3 DEF Alike, FileObjects
<1> QED BY <1>1, <1>2, <1>3, <1>4, <1>6, <1>7, NotNone

-----------------------------------------------------------------------------
(* The steps                                                               *)

\* What a call finds.
LEMMA Found ==
  ASSUME Inv, NEW p \in Procs, Calls(p)
  PROVE  /\ Going /\ procs[p] = "runs"
         /\ Typed /\ Backed(file, pipe, inode) /\ EndsApart(file)
         /\ Live(procs, files) /\ Exact(procs, files, file, twice) /\ EndsOpen(file, pipe)
         /\ files \in Tables /\ file \in Objects
BY DEF Inv, Calls, Going, Typed, Tables, Objects

\* An open descriptor of it leads to an object that counts it.
LEMMA OpenFd ==
  ASSUME Inv, NEW p \in Procs, Calls(p), NEW fd \in Fds, files[p][fd] # None
  PROVE  /\ files[p][fd] \in FileIds /\ file[files[p][fd]] # None
         /\ file[files[p][fd]] \in FileObjects
         /\ file[files[p][fd]].ref_count \in Nat \ {0}
         /\ twice[files[p][fd]] \in Nat
         /\ file[files[p][fd]].ref_count =
              Cardinality(HoldersIn(procs, files, files[p][fd])) + twice[files[p][fd]]
<1> DEFINE f == files[p][fd]
<1>1. f \in FileIds /\ procs[p] = "runs"
  BY Found DEF Live
<1>2. Cardinality(HoldersIn(procs, files, f)) \in Nat \ {0}
  BY <1>1, Held
<1>3. file[f] # None /\ file[f].ref_count = Cardinality(HoldersIn(procs, files, f)) + twice[f]
  BY <1>1, <1>2, Found DEF Exact
<1>4. file[f] \in FileObjects /\ twice[f] \in Nat
  BY <1>1, <1>3, Found DEF Objects, Typed
<1> HIDE DEF f
<1>5. file[f].ref_count \in Nat \ {0}
  BY <1>2, <1>3, <1>4
<1> QED BY <1>1, <1>3, <1>4, <1>5 DEF f

\* A table with one more descriptor of something.
LEMMA FdTyped ==
  ASSUME NEW P, NEW T \in Tables, NEW p \in Procs, NEW fd \in Fds,
         NEW x \in FileIds \union {None}, Live(P, T)
  PROVE  SetIn(T, p, fd, x) \in Tables /\ Live(P, SetIn(T, p, fd, x))
BY DEF SetIn, Tables, Live

\* dup, and open of a standard file that is open: a free descriptor comes to lead
\* where another one does.
LEMMA OneMoreDescriptor ==
  ASSUME Inv, NEW p \in Procs, Calls(p), NEW fd \in Fds, NEW e \in Fds,
         files[p][e] # None, files[p][fd] = None,
         files' = SetIn(files, p, fd, files[p][e]),
         file' = Counted(file, files[p][e], 1),
         UNCHANGED <<procs, pipe, inode, twice, stopped>>
  PROVE  Inv'
<1> DEFINE f == files[p][e]
<1>1. f \in FileIds /\ file[f] # None
  BY OpenFd
<1>2. /\ file' \in Objects /\ Alike(file', file)
      /\ file'[f] # None /\ file'[f].ref_count = file[f].ref_count + 1
      /\ \A g \in FileIds \ {f} : file'[g] = file[g]
  BY <1>1, CountedFacts, Found
<1>3. files' \in Tables /\ Live(procs, files')
  BY <1>1, FdTyped, Found
<1>4. Typed'
  BY <1>2, <1>3, Found DEF Typed, Tables, Objects
<1>5. Backed(file', pipe, inode) /\ EndsApart(file') /\ EndsOpen(file', pipe)
  BY <1>2, AlikeKeeps, Found
<1>6. Exact(procs, files', file', twice)
  <2> SUFFICES ASSUME NEW g \in FileIds
               PROVE IF file'[g] = None
                     THEN twice[g] = 0 /\ Cardinality(HoldersIn(procs, files', g)) = 0
                     ELSE file'[g].ref_count = Cardinality(HoldersIn(procs, files', g)) + twice[g]
    BY DEF Exact
  <2>1. Cardinality(HoldersIn(procs, files', g)) =
          Cardinality(HoldersIn(procs, files, g))
            - (IF files[p][fd] = g THEN 1 ELSE 0) + (IF f = g THEN 1 ELSE 0)
    <3>1. procs[p] = "runs" /\ files \in Tables /\ f \in FileIds \union {None}
      BY <1>1, Found
    <3> QED BY <3>1, SetFd
  <2>2. Cardinality(HoldersIn(procs, files, g)) \in Nat /\ twice[g] \in Nat /\ files[p][fd] # g
    BY HoldersFinite, Found, NotNone DEF Typed
  <2>3. IF file[g] = None
        THEN twice[g] = 0 /\ Cardinality(HoldersIn(procs, files, g)) = 0
        ELSE file[g].ref_count = Cardinality(HoldersIn(procs, files, g)) + twice[g]
    BY Found DEF Exact
  <2> HIDE DEF f
  <2>4. CASE g = f
    BY <1>1, <1>2, <2>1, <2>2, <2>3, <2>4
  <2>5. CASE g # f
    BY <1>2, <2>1, <2>2, <2>3, <2>5
  <2> QED BY <2>4, <2>5
<1> QED BY <1>4, <1>5, <1>6, <1>3 DEF Inv

\* The flags of a pipe after one of its ends is closed are those of the ends
\* that are left.
LEMMA CloseEnds ==
  ASSUME Typed, Backed(file, pipe, inode), EndsApart(file), EndsOpen(file, pipe),
         NEW f \in FileIds, file[f] # None, file[f].kind = "pipe",
         NEW Q, Q = [pipe EXCEPT ![file[f].of] = PipeAfter(f)],
         NEW G, Alike(G, file), LastOfItsEnd(f) => G[f] = None
  PROVE  /\ Q \in [PipeIds -> PipeObjects \union {None}]
         /\ Backed(file, Q, inode) /\ Backed(G, Q, inode) /\ EndsOpen(G, Q)
<1> DEFINE q == file[f].of
<1>1. q \in PipeIds /\ pipe[q] \in PipeObjects /\ file[f].mode \in {{"O_READ"}, {"O_WRITE"}}
  BY DEF Backed, Typed
<1>2. /\ PipeAfter(f) \in PipeObjects
      /\ ~LastOfItsEnd(f) => PipeAfter(f) = pipe[q]
      /\ Reader(file[f].mode) => PipeAfter(f).is_wopen = pipe[q].is_wopen
      /\ ~Reader(file[f].mode) => PipeAfter(f).is_ropen = pipe[q].is_ropen
  BY <1>1 DEF PipeAfter, PipeObjects
<1>3. Q[q] = PipeAfter(f) /\ \A r \in PipeIds \ {q} : Q[r] = pipe[r]
  BY <1>1 DEF Typed
<1>4. Q \in [PipeIds -> PipeObjects \union {None}]
  BY <1>1, <1>2 DEF Typed
<1>5. \A r \in PipeIds : pipe[r] # None => Q[r] # None
  BY <1>2, <1>3, NotNone
<1>6. Backed(file, Q, inode)
  BY <1>5 DEF Backed
<1>7. Backed(G, Q, inode)
  BY <1>6, AlikeKeeps
<1>8. EndsOpen(G, Q)
  <2> SUFFICES ASSUME NEW g \in FileIds, G[g] # None, G[g].kind = "pipe"
               PROVE IF Reader(G[g].mode) THEN Q[G[g].of].is_ropen ELSE Q[G[g].of].is_wopen
    BY DEF EndsOpen
  <2>1. /\ file[g] # None /\ file[g].kind = "pipe"
        /\ G[g].mode = file[g].mode /\ G[g].of = file[g].of
        /\ file[g].of \in PipeIds /\ file[g].mode \in {{"O_READ"}, {"O_WRITE"}}
    BY DEF Alike, Backed
  <2>2. IF Reader(file[g].mode) THEN pipe[file[g].of].is_ropen ELSE pipe[file[g].of].is_wopen
    BY <2>1 DEF EndsOpen
  <2>3. CASE file[g].of # q
    BY <1>3, <2>1, <2>2, <2>3
  <2>4. CASE file[g].of = q /\ g = f
    BY <1>2, <1>3, <2>1, <2>2, <2>4
  <2>5. CASE file[g].of = q /\ g # f
    <3>1. file[g].mode # file[f].mode
      BY <2>1, <2>5 DEF EndsApart
    <3>2. Reader(file[g].mode) <=> ~Reader(file[f].mode)
      BY <1>1, <2>1, <3>1 DEF Reader
    <3> QED BY <1>2, <1>3, <2>1, <2>2, <2>5, <3>2
  <2> QED BY <2>3, <2>4, <2>5
<1> QED BY <1>4, <1>6, <1>7, <1>8

\* fops->close of what a descriptor led to that now leads to x.
LEMMA CloseFileStep ==
  ASSUME Inv, NEW p \in Procs, Calls(p), NEW fd \in Fds, files[p][fd] # None,
         NEW x \in FileIds \union {None}, files' = SetIn(files, p, fd, x),
         NEW G \in Objects, Alike(G, file), Exact(procs, files', G, twice),
         LastOfItsEnd(files[p][fd]) => G[files[p][fd]] = None,
         CloseFile(files[p][fd], G), UNCHANGED <<procs, inode, twice>>
  PROVE  Inv'
<1> DEFINE f == files[p][fd]
<1>1. f \in FileIds /\ file[f] # None
  BY OpenFd
<1>2. files' \in Tables /\ Live(procs, files')
  BY FdTyped, Found
<1>3. Backed(G, pipe, inode) /\ EndsApart(G) /\ EndsOpen(G, pipe)
  BY AlikeKeeps, Found
<1>4. CASE file[f].kind # "pipe"
  <2>1. file' = G /\ UNCHANGED <<pipe, stopped>>
    BY <1>4 DEF CloseFile
  <2>2. Typed'
    BY <1>2, <2>1, Found DEF Typed, Tables, Objects
  <2> QED BY <1>2, <1>3, <2>1, <2>2 DEF Inv
<1>5. CASE file[f].kind = "pipe"
  <2>1. pipe' = [pipe EXCEPT ![file[f].of] = PipeAfter(f)]
    BY <1>5 DEF CloseFile
  <2>2. /\ pipe' \in [PipeIds -> PipeObjects \union {None}]
        /\ Backed(file, pipe', inode) /\ Backed(G, pipe', inode) /\ EndsOpen(G, pipe')
    <3> HIDE DEF f
    <3>1. LastOfItsEnd(f) => G[f] = None
      BY DEF f
    <3> QED BY <1>1, <1>5, <2>1, <3>1, CloseEnds, Found
  <2>3. CASE file' = G /\ UNCHANGED stopped
    <3>1. Typed'
      BY <1>2, <2>2, <2>3, Found DEF Typed, Tables, Objects
    <3> QED BY <1>2, <1>3, <2>2, <2>3, <3>1 DEF Inv
  <2>4. CASE stopped' = "OS_BUG" /\ UNCHANGED file
    <3>1. Typed'
      BY <1>2, <2>2, <2>4, Found DEF Typed, Tables, Objects
    <3>2. ~Going'
      BY <2>4 DEF Going
    <3> QED BY <2>2, <2>4, <3>1, <3>2, Found DEF Inv
  <2> QED BY <1>5, <2>3, <2>4 DEF CloseFile
<1> QED BY <1>4, <1>5

\* do_close keeps the invariant.
LEMMA CloseStep ==
  ASSUME Inv, NEW p \in Procs, NEW fd \in Fds, Close(p, fd)
  PROVE  Inv'
<1> DEFINE f == files[p][fd]
           G == Drop(file, f, 1)
<1>1. Calls(p) /\ files[p][fd] # None /\ files' = SetIn(files, p, fd, None)
  BY DEF Close, SetIn
<1>2. /\ f \in FileIds /\ file[f] # None /\ file[f].ref_count \in Nat \ {0} /\ twice[f] \in Nat
      /\ file[f].ref_count = Cardinality(HoldersIn(procs, files, f)) + twice[f]
  BY <1>1, OpenFd
<1>3. /\ procs[p] = "runs" /\ files \in Tables /\ file \in Objects
      /\ Exact(procs, files, file, twice) /\ Typed
  BY <1>1, Found
<1> HIDE DEF f
<1>4. /\ G \in Objects /\ Alike(G, file)
      /\ file[f].ref_count <= 1 => G[f] = None
      /\ file[f].ref_count > 1 => G[f] # None /\ G[f].ref_count = file[f].ref_count - 1
      /\ \A g \in FileIds \ {f} : G[g] = file[g]
  BY <1>2, <1>3, DropFacts
<1> HIDE DEF G
<1>5. Exact(procs, files', G, twice)
  <2> SUFFICES ASSUME NEW g \in FileIds
               PROVE IF G[g] = None
                     THEN twice[g] = 0 /\ Cardinality(HoldersIn(procs, files', g)) = 0
                     ELSE G[g].ref_count = Cardinality(HoldersIn(procs, files', g)) + twice[g]
    BY DEF Exact
  <2>1. Cardinality(HoldersIn(procs, files', g)) =
          Cardinality(HoldersIn(procs, files, g))
            - (IF f = g THEN 1 ELSE 0) + (IF None = g THEN 1 ELSE 0)
    BY <1>1, <1>3, SetFd DEF f
  <2>2. None # g /\ Cardinality(HoldersIn(procs, files, g)) \in Nat /\ twice[g] \in Nat
    BY HoldersFinite, <1>3, NotNone DEF Typed
  <2>3. IF file[g] = None
        THEN twice[g] = 0 /\ Cardinality(HoldersIn(procs, files, g)) = 0
        ELSE file[g].ref_count = Cardinality(HoldersIn(procs, files, g)) + twice[g]
    BY <1>3 DEF Exact
  <2>4. CASE g = f
    <3>1. Cardinality(HoldersIn(procs, files, f)) \in Nat \ {0}
      BY <1>1, <1>3, Held DEF f
    <3> QED BY <1>2, <1>4, <2>1, <2>2, <2>4, <3>1
  <2>5. CASE g # f
    BY <1>4, <2>1, <2>2, <2>3, <2>5
  <2> QED BY <2>4, <2>5
<1>6. LastOfItsEnd(f) => G[f] = None
  BY <1>4 DEF LastOfItsEnd
<1>7. CloseFile(f, G) /\ UNCHANGED <<procs, inode, twice>>
  BY DEF Close, f, G
<1> QED BY <1>1, <1>4, <1>5, <1>6, <1>7, CloseFileStep DEF f

\* Counts may change twice.
LEMMA AlikeTransitive ==
  ASSUME NEW F, NEW G, NEW H, Alike(G, F), Alike(H, G)
  PROVE  Alike(H, F)
BY DEF Alike

\* do_dup2 keeps the invariant, also where newfd leads to what oldfd does: the
\* count goes down and up again, and cannot reach zero in between, since there are
\* two descriptors.
LEMMA Dup2Step ==
  ASSUME Inv, NEW p \in Procs, NEW oldfd \in Fds, NEW newfd \in Fds, Dup2(p, oldfd, newfd)
  PROVE  Inv'
<1> DEFINE f == files[p][oldfd]
           g == files[p][newfd]
           D == Drop(file, g, 1)
           G == Counted(D, f, 1)
<1>1. /\ Calls(p) /\ f # None /\ oldfd # newfd /\ DupOnto(f, g)
      /\ files' = SetIn(files, p, newfd, f) /\ UNCHANGED <<procs, inode, twice>>
  BY DEF Dup2, SetIn
<1>2. /\ f \in FileIds /\ file[f] # None /\ twice[f] \in Nat
      /\ file[f].ref_count = Cardinality(HoldersIn(procs, files, f)) + twice[f]
  BY <1>1, OpenFd
<1>3. /\ procs[p] = "runs" /\ files \in Tables /\ file \in Objects
      /\ Exact(procs, files, file, twice) /\ Typed
  BY <1>1, Found
<1>4. CASE g = None
  <2>1. file' = Counted(file, f, 1) /\ UNCHANGED <<pipe, stopped>>
    BY <1>1, <1>4 DEF DupOnto
  <2> QED BY <1>1, <1>4, <2>1, OneMoreDescriptor
<1>5. CASE g # None
  <2>1. /\ g \in FileIds /\ file[g] # None /\ file[g].ref_count \in Nat \ {0} /\ twice[g] \in Nat
        /\ file[g].ref_count = Cardinality(HoldersIn(procs, files, g)) + twice[g]
    BY <1>1, <1>5, OpenFd
  <2>2. f = g => file[g].ref_count > 1
    <3> SUFFICES ASSUME f = g PROVE file[g].ref_count > 1
      OBVIOUS
    <3>1. Cardinality(HoldersIn(procs, files, f)) > 1
      BY <1>1, <1>2, <1>3, HeldTwice
    <3>2. Cardinality(HoldersIn(procs, files, f)) \in Nat
      BY HoldersFinite
    <3> HIDE DEF f, g
    <3> QED BY <1>2, <3>1, <3>2
  <2>3. files' = SetIn(files, p, newfd, f) /\ CloseFile(g, G) /\ UNCHANGED <<procs, inode, twice>>
    BY <1>1, <1>5 DEF DupOnto
  <2>4. \A h \in FileIds : Cardinality(HoldersIn(procs, files', h)) =
          Cardinality(HoldersIn(procs, files, h))
            - (IF g = h THEN 1 ELSE 0) + (IF f = h THEN 1 ELSE 0)
    BY <1>2, <1>3, <2>3, SetFd
  <2>5. Cardinality(HoldersIn(procs, files, g)) \in Nat \ {0}
    BY <1>3, Held
  <2>6. LastOfItsEnd(g) <=> file[g].ref_count = 1
    BY DEF LastOfItsEnd
  <2> HIDE DEF f, g
  <2>7. /\ D \in Objects /\ Alike(D, file)
        /\ file[g].ref_count <= 1 => D[g] = None
        /\ file[g].ref_count > 1 => D[g] # None /\ D[g].ref_count = file[g].ref_count - 1
        /\ \A h \in FileIds \ {g} : D[h] = file[h]
    BY <1>3, <2>1, DropFacts
  <2> HIDE DEF D
  <2>8. D[f] # None
    BY <1>2, <2>2, <2>7
  <2>9. /\ G \in Objects /\ Alike(G, D)
        /\ G[f] # None /\ G[f].ref_count = D[f].ref_count + 1
        /\ \A h \in FileIds \ {f} : G[h] = D[h]
    BY <1>2, <2>7, <2>8, CountedFacts
  <2> HIDE DEF G
  <2>10. Alike(G, file)
    BY <2>7, <2>9, AlikeTransitive
  <2>11. Exact(procs, files', G, twice)
    <3> SUFFICES ASSUME NEW h \in FileIds
                 PROVE IF G[h] = None
                       THEN twice[h] = 0 /\ Cardinality(HoldersIn(procs, files', h)) = 0
                       ELSE G[h].ref_count = Cardinality(HoldersIn(procs, files', h)) + twice[h]
      BY DEF Exact
    <3>1. Cardinality(HoldersIn(procs, files', h)) =
            Cardinality(HoldersIn(procs, files, h))
              - (IF g = h THEN 1 ELSE 0) + (IF f = h THEN 1 ELSE 0)
      BY <2>4
    <3>2. Cardinality(HoldersIn(procs, files, h)) \in Nat /\ twice[h] \in Nat
      BY HoldersFinite, <1>3 DEF Typed
    <3>3. IF file[h] = None
          THEN twice[h] = 0 /\ Cardinality(HoldersIn(procs, files, h)) = 0
          ELSE file[h].ref_count = Cardinality(HoldersIn(procs, files, h)) + twice[h]
      BY <1>3 DEF Exact
    <3>4. CASE h = f /\ h = g
      BY <1>2, <2>2, <2>7, <2>9, <3>1, <3>2, <3>4
    <3>5. CASE h = f /\ h # g
      BY <1>2, <2>7, <2>9, <3>1, <3>2, <3>5
    <3>6. CASE h # f /\ h = g
      BY <2>1, <2>5, <2>7, <2>9, <3>1, <3>2, <3>6
    <3>7. CASE h # f /\ h # g
      BY <2>7, <2>9, <3>1, <3>2, <3>3, <3>7
    <3> QED BY <3>4, <3>5, <3>6, <3>7
  <2>12. LastOfItsEnd(g) => G[g] = None
    BY <2>1, <2>2, <2>6, <2>7, <2>9
  <2>13. f \in FileIds \union {None}
    BY <1>2
  <2> QED BY <1>1, <1>5, <2>3, <2>9, <2>10, <2>11, <2>12, <2>13, CloseFileStep DEF g
<1> QED BY <1>4, <1>5

\* A new object for a descriptor, of standard I/O or of an inode that is there.
LEMMA NewDescriptor ==
  ASSUME Inv, NEW p \in Procs, Calls(p), NEW fd \in Fds, files[p][fd] = None,
         NEW f \in FileIds, file[f] = None,
         NEW o \in FileObjects, o.ref_count = 1, o.kind # "pipe",
         inode' \in [Inodes -> InodeObjects \union {None}], Backed(file, pipe, inode'),
         o.kind = "regular" =>
           o.of \in Inodes /\ inode'[o.of] # None /\ o.offp <= inode'[o.of].file_size,
         files' = SetIn(files, p, fd, f), file' = [file EXCEPT ![f] = o],
         UNCHANGED <<procs, pipe, twice, stopped>>
  PROVE  Inv'
<1>1. /\ procs[p] = "runs" /\ files \in Tables /\ file \in Objects
      /\ Exact(procs, files, file, twice) /\ Typed
  BY Found
<1>2. /\ file' \in Objects /\ file'[f] = o /\ file'[f] # None
      /\ \A g \in FileIds \ {f} : file'[g] = file[g]
  BY <1>1, NotNone DEF Objects
<1>3. files' \in Tables /\ Live(procs, files')
  BY FdTyped, Found
<1>4. Typed'
  BY <1>2, <1>3, Found DEF Typed, Tables, Objects
<1>5. Backed(file', pipe, inode')
  BY <1>2 DEF Backed
<1>6. EndsApart(file')
  BY <1>2, Found DEF EndsApart
<1>7. EndsOpen(file', pipe)
  BY <1>2, Found DEF EndsOpen
<1>8. Exact(procs, files', file', twice)
  <2> SUFFICES ASSUME NEW g \in FileIds
               PROVE IF file'[g] = None
                     THEN twice[g] = 0 /\ Cardinality(HoldersIn(procs, files', g)) = 0
                     ELSE file'[g].ref_count = Cardinality(HoldersIn(procs, files', g)) + twice[g]
    BY DEF Exact
  <2>1. Cardinality(HoldersIn(procs, files', g)) =
          Cardinality(HoldersIn(procs, files, g))
            - (IF None = g THEN 1 ELSE 0) + (IF f = g THEN 1 ELSE 0)
    BY <1>1, SetFd
  <2>2. None # g /\ Cardinality(HoldersIn(procs, files, g)) \in Nat /\ twice[g] \in Nat
    BY HoldersFinite, <1>1, NotNone DEF Typed
  <2>3. IF file[g] = None
        THEN twice[g] = 0 /\ Cardinality(HoldersIn(procs, files, g)) = 0
        ELSE file[g].ref_count = Cardinality(HoldersIn(procs, files, g)) + twice[g]
    BY <1>1 DEF Exact
  <2>4. CASE g = f
    BY <1>2, <2>1, <2>2, <2>3, <2>4
  <2>5. CASE g # f
    BY <1>2, <2>1, <2>2, <2>3, <2>5
  <2> QED BY <2>4, <2>5
<1> QED BY <1>3, <1>4, <1>5, <1>6, <1>7, <1>8 DEF Inv

\* open of a standard file keeps the invariant.
LEMMA OpenStdStep ==
  ASSUME Inv, NEW p \in Procs, NEW t \in StdFds, OpenStd(p, t)
  PROVE  Inv'
<1>1. Calls(p) /\ t \in Fds
  BY FilesAssumption DEF OpenStd, StdFds, Fds
<1>2. CASE files[p][t] = None /\ UNCHANGED <<procs, pipe, inode, twice, stopped>>
           /\ \E f \in FileIds : AllocFile(f, StdFile(t)) /\ files' = [files EXCEPT ![p][t] = f]
  <2>1. PICK f \in FileIds : AllocFile(f, StdFile(t)) /\ files' = [files EXCEPT ![p][t] = f]
    BY <1>2
  <2>2. /\ StdFile(t) \in FileObjects /\ StdFile(t).ref_count = 1
        /\ StdFile(t).kind = "std"
    BY DEF StdFile, FileObjects, Access
  <2>3. files' = SetIn(files, p, t, f) /\ file[f] = None /\ file' = [file EXCEPT ![f] = StdFile(t)]
    BY <2>1 DEF SetIn, AllocFile
  <2>4. Backed(file, pipe, inode') /\ inode' \in [Inodes -> InodeObjects \union {None}]
    BY <1>1, <1>2, Found DEF Typed
  <2> QED BY <1>1, <1>2, <2>2, <2>3, <2>4, NewDescriptor
<1>3. CASE files[p][t] # None /\ UNCHANGED <<procs, pipe, inode, twice, stopped>>
           /\ file' = Counted(file, files[p][t], 1)
           /\ \E fd \in Fds : IsFreeFd(p, fd, Fds \ StdFds)
                              /\ files' = [files EXCEPT ![p][fd] = files[p][t]]
  <2>1. PICK fd \in Fds : files[p][fd] = None /\ files' = SetIn(files, p, fd, files[p][t])
    BY <1>3 DEF IsFreeFd, SetIn
  <2> QED BY <1>1, <1>3, <2>1, OneMoreDescriptor
<1>4. CASE stopped' = "overrun" /\ UNCHANGED <<procs, files, file, pipe, inode, twice>>
  <2>1. Typed' /\ Backed(file', pipe', inode') /\ EndsApart(file') /\ ~Going'
    BY <1>1, <1>4, Found DEF Typed, Going
  <2> QED BY <2>1 DEF Inv
<1> QED BY <1>2, <1>3, <1>4 DEF OpenStd, Keeps

\* A descriptor and an object for an inode that is there.
LEMMA OpenInodeStep ==
  ASSUME Inv, NEW p \in Procs, Calls(p), NEW i \in Inodes, NEW m \in Access, OpenInode(p, i, m),
         inode' \in [Inodes -> InodeObjects \union {None}], inode'[i] # None,
         Backed(file, pipe, inode'), UNCHANGED <<procs, pipe, twice, stopped>>
  PROVE  Inv'
<1>1. CASE UNCHANGED <<files, file>>
  <2>1. Typed' /\ Backed(file', pipe', inode') /\ EndsApart(file')
        /\ Live(procs', files') /\ Exact(procs', files', file', twice') /\ EndsOpen(file', pipe')
    BY <1>1, Found DEF Typed
  <2> QED BY <2>1 DEF Inv
<1>2. CASE \E fd \in Fds, f \in FileIds :
             /\ IsFreeFd(p, fd, Fds \ StdFds)
             /\ AllocFile(f, RegularFile(i, m))
             /\ files' = [files EXCEPT ![p][fd] = f]
  <2> DEFINE o == RegularFile(i, m)
  <2>1. PICK fd \in Fds, f \in FileIds :
          /\ files[p][fd] = None /\ files' = SetIn(files, p, fd, f)
          /\ file[f] = None /\ file' = [file EXCEPT ![f] = o]
    BY <1>2 DEF IsFreeFd, AllocFile, SetIn
  <2>2. o \in FileObjects /\ o.ref_count = 1 /\ o.kind = "regular" /\ o.of = i /\ o.offp = 0
    BY DEF RegularFile, FileObjects
  <2>3. inode'[i].file_size \in Nat
    BY FilesAssumption DEF InodeObjects
  <2>4. o.offp <= inode'[o.of].file_size
    BY <2>2, <2>3
  <2> HIDE DEF o
  <2> QED BY <2>1, <2>2, <2>4, NewDescriptor
<1> QED BY <1>1, <1>2 DEF OpenInode

\* do_file_open keeps the invariant.
LEMMA OpenStep ==
  ASSUME Inv, NEW p \in Procs, Open(p)
  PROVE  Inv'
<1>1. CASE \E t \in StdFds : OpenStd(p, t)
  BY <1>1, OpenStdStep
<1>2. ASSUME NEW name \in Names, NEW flags \in Accesses \union {{}}, NEW mode \in Accesses,
             OpenCreate(p, name, flags, mode)
      PROVE  Inv'
  <2> DEFINE m == IF flags = {} THEN mode ELSE flags
  <2>1. Calls(p) /\ UNCHANGED <<procs, pipe, twice, stopped>>
    BY <1>2 DEF OpenCreate, Keeps
  <2>2. PICK i \in Inodes :
          /\ inode[i] = None /\ inode' = [inode EXCEPT ![i] = NewInode(name, mode)]
          /\ OpenInode(p, i, m)
    BY <1>2 DEF OpenCreate, IsFreeInode
  <2>3. m \in Access /\ mode \in Access
    BY FilesAssumption DEF Access
  <2>4. NewInode(name, mode) \in InodeObjects
    BY <2>3, FilesAssumption DEF NewInode, InodeObjects
  <2>5. inode' \in [Inodes -> InodeObjects \union {None}] /\ inode'[i] # None
    BY <2>1, <2>2, <2>4, NotNone, Found DEF Typed
  <2>6. \A j \in Inodes : inode[j] # None => inode'[j] = inode[j]
    BY <2>1, <2>2, Found DEF Typed
  <2>7. Backed(file, pipe, inode')
    BY <2>1, <2>6, Found DEF Backed
  <2> HIDE DEF m
  <2> QED BY <2>1, <2>2, <2>3, <2>5, <2>7, OpenInodeStep
<1>3. ASSUME NEW name \in Names, NEW flags \in Accesses, OpenExisting(p, name, flags)
      PROVE  Inv'
  <2>1. Calls(p) /\ UNCHANGED <<procs, pipe, inode, twice, stopped>>
    BY <1>3 DEF OpenExisting, Keeps
  <2>2. PICK i \in Inodes : inode[i] # None /\ OpenInode(p, i, flags)
    BY <1>3 DEF OpenExisting, IsNamed
  <2>3. flags \in Access
    BY FilesAssumption DEF Access
  <2>4. inode' \in [Inodes -> InodeObjects \union {None}] /\ Backed(file, pipe, inode')
    BY <2>1, Found DEF Typed
  <2> QED BY <2>1, <2>2, <2>3, <2>4, OpenInodeStep
<1> QED BY <1>1, <1>2, <1>3 DEF Open

\* do_dup keeps the invariant.
LEMMA DupStep ==
  ASSUME Inv, NEW p \in Procs, NEW oldfd \in Fds, Dup(p, oldfd)
  PROVE  Inv'
<1>1. PICK fd \in Fds : files[p][fd] = None /\ files' = SetIn(files, p, fd, files[p][oldfd])
  BY DEF Dup, IsFreeFd, SetIn
<1> QED BY <1>1, OneMoreDescriptor DEF Dup, Keeps

\* do_create_pipe keeps the invariant: its two objects are new, and different.
LEMMA CreatePipeStep ==
  ASSUME Inv, NEW p \in Procs, CreatePipe(p)
  PROVE  Inv'
<1>0. PICK rfd, wfd \in Fds, f, g \in FileIds, q \in PipeIds :
        /\ IsFreeFd(p, rfd, Fds) /\ IsFreeFd(p, wfd, Fds \ {rfd})
        /\ pipe[q] = None /\ file[f] = None /\ file[g] = None /\ f # g
        /\ files' = [files EXCEPT ![p][rfd] = f, ![p][wfd] = g]
        /\ file' = [file EXCEPT ![f] = PipeEnd(q, {"O_READ"}), ![g] = PipeEnd(q, {"O_WRITE"})]
        /\ pipe' = [pipe EXCEPT ![q] = NewPipe]
  BY DEF CreatePipe
<1>1. /\ files[p][rfd] = None /\ files[p][wfd] = None /\ rfd # wfd
      /\ pipe[q] = None /\ file[f] = None /\ file[g] = None /\ f # g
      /\ files' = [files EXCEPT ![p][rfd] = f, ![p][wfd] = g]
      /\ file' = [file EXCEPT ![f] = PipeEnd(q, {"O_READ"}), ![g] = PipeEnd(q, {"O_WRITE"})]
      /\ pipe' = [pipe EXCEPT ![q] = NewPipe]
  BY <1>0 DEF IsFreeFd
<1>2. Calls(p) /\ UNCHANGED <<procs, inode, twice, stopped>>
  BY DEF CreatePipe, Keeps
<1>3. /\ procs[p] = "runs" /\ files \in Tables /\ file \in Objects /\ Live(procs, files)
      /\ Exact(procs, files, file, twice) /\ Typed /\ Backed(file, pipe, inode)
      /\ EndsApart(file) /\ EndsOpen(file, pipe)
  BY <1>2, Found
<1> DEFINE T == SetIn(files, p, rfd, f)
           r == PipeEnd(q, {"O_READ"})
           w == PipeEnd(q, {"O_WRITE"})
<1>4. files' = SetIn(T, p, wfd, g) /\ T[p][wfd] = None
  BY <1>1, <1>3 DEF SetIn, Tables
<1>5. T \in Tables /\ Live(procs, T)
  BY <1>1, <1>3, FdTyped
<1>6. files' \in Tables /\ Live(procs, files')
  <2> HIDE DEF T
  <2> QED BY <1>4, <1>5, FdTyped
<1>7. /\ r \in FileObjects /\ r.ref_count = 1 /\ r.kind = "pipe" /\ r.of = q /\ r.mode = {"O_READ"}
      /\ w \in FileObjects /\ w.ref_count = 1 /\ w.kind = "pipe" /\ w.of = q /\ w.mode = {"O_WRITE"}
  BY DEF PipeEnd, FileObjects, Access
<1> HIDE DEF r, w
<1>8. /\ file'[f] = r /\ file'[g] = w /\ r # None /\ w # None
      /\ \A h \in FileIds \ {f, g} : file'[h] = file[h]
  BY <1>1, <1>3, <1>7, NotNone DEF Objects, r, w
<1>9. file' \in Objects
  BY <1>1, <1>3, <1>7 DEF Objects, r, w
<1>10. /\ pipe' \in [PipeIds -> PipeObjects \union {None}]
       /\ pipe'[q] = NewPipe /\ NewPipe # None
       /\ \A s \in PipeIds : pipe[s] # None => pipe'[s] = pipe[s] /\ s # q
  BY <1>1, <1>3, NotNone DEF Typed, NewPipe, PipeObjects
<1>11. Typed'
  BY <1>2, <1>3, <1>6, <1>9, <1>10 DEF Typed, Tables, Objects
<1>12. Backed(file', pipe', inode)
  BY <1>3, <1>7, <1>8, <1>10 DEF Backed
<1>13. EndsApart(file')
  <2>1. \A h \in FileIds \ {f, g} : file[h] # None /\ file[h].kind = "pipe" => file[h].of # q
    BY <1>3, <1>10 DEF Backed
  <2>2. {"O_READ"} # {"O_WRITE"}
    OBVIOUS
  <2> QED BY <1>3, <1>7, <1>8, <2>1, <2>2 DEF EndsApart
<1>14. EndsOpen(file', pipe')
  <2>1. NewPipe.is_ropen /\ NewPipe.is_wopen
    BY DEF NewPipe
  <2>2. \A h \in FileIds \ {f, g} : file[h] # None /\ file[h].kind = "pipe" => pipe[file[h].of] # None /\ file[h].of \in PipeIds
    BY <1>3 DEF Backed
  <2> QED BY <1>3, <1>7, <1>8, <1>10, <2>1, <2>2 DEF EndsOpen
<1>15. Exact(procs, files', file', twice)
  <2> SUFFICES ASSUME NEW h \in FileIds
               PROVE IF file'[h] = None
                     THEN twice[h] = 0 /\ Cardinality(HoldersIn(procs, files', h)) = 0
                     ELSE file'[h].ref_count = Cardinality(HoldersIn(procs, files', h)) + twice[h]
    BY DEF Exact
  <2>1. Cardinality(HoldersIn(procs, T, h)) =
          Cardinality(HoldersIn(procs, files, h))
            - (IF None = h THEN 1 ELSE 0) + (IF f = h THEN 1 ELSE 0)
    BY <1>1, <1>3, SetFd
  <2> HIDE DEF T
  <2>2. Cardinality(HoldersIn(procs, files', h)) =
          Cardinality(HoldersIn(procs, T, h))
            - (IF None = h THEN 1 ELSE 0) + (IF g = h THEN 1 ELSE 0)
    BY <1>3, <1>4, <1>5, SetFd
  <2>3. /\ None # h /\ Cardinality(HoldersIn(procs, files, h)) \in Nat /\ twice[h] \in Nat
        /\ Cardinality(HoldersIn(procs, T, h)) \in Nat
    BY HoldersFinite, <1>3, NotNone DEF Typed
  <2>4. IF file[h] = None
        THEN twice[h] = 0 /\ Cardinality(HoldersIn(procs, files, h)) = 0
        ELSE file[h].ref_count = Cardinality(HoldersIn(procs, files, h)) + twice[h]
    BY <1>3 DEF Exact
  <2>5. CASE h = f \/ h = g
    <3>1. file[h] = None /\ twice[h] = 0 /\ Cardinality(HoldersIn(procs, files, h)) = 0
      BY <1>1, <2>4, <2>5
    <3>2. file'[h] # None /\ file'[h].ref_count = 1
      BY <1>7, <1>8, <2>5
    <3>3. (f = h /\ g # h) \/ (f # h /\ g = h)
      BY <1>1, <2>5
    <3>4. Cardinality(HoldersIn(procs, files', h)) = 1
      BY <2>1, <2>2, <2>3, <3>1, <3>3
    <3> QED BY <3>1, <3>2, <3>4
  <2>7. CASE h # f /\ h # g
    BY <1>8, <2>1, <2>2, <2>3, <2>4, <2>7
  <2> QED BY <2>5, <2>7
<1> QED BY <1>2, <1>6, <1>11, <1>12, <1>13, <1>14, <1>15 DEF Inv

\* An offset moves, and the file under it may have grown.
LEMMA OffsetStep ==
  ASSUME Inv, NEW p \in Procs, NEW fd \in Fds, RegularFd(p, fd), NEW n \in Nat,
         MoveTo(files[p][fd], n), inode' \in [Inodes -> InodeObjects \union {None}],
         \A i \in Inodes : inode[i] # None =>
           inode'[i] # None /\ inode[i].file_size <= inode'[i].file_size,
         n <= inode'[file[files[p][fd]].of].file_size,
         UNCHANGED <<procs, files, pipe, twice, stopped>>
  PROVE  Inv'
<1> DEFINE f == files[p][fd]
<1>1. Calls(p) /\ f # None /\ file[f].kind = "regular"
  BY DEF RegularFd
<1>2. f \in FileIds /\ file[f] # None /\ file[f] \in FileObjects
  BY <1>1, OpenFd
<1>3. /\ file \in Objects /\ Typed /\ Exact(procs, files, file, twice) /\ Live(procs, files)
      /\ Backed(file, pipe, inode) /\ EndsApart(file) /\ EndsOpen(file, pipe)
  BY <1>1, Found
<1>4. file' = [file EXCEPT ![f].offp = n] /\ n <= inode'[file[f].of].file_size
  BY DEF MoveTo
<1> HIDE DEF f
<1>5. /\ file'[f] \in FileObjects /\ file'[f].offp = n
      /\ file'[f].kind = file[f].kind /\ file'[f].mode = file[f].mode
      /\ file'[f].of = file[f].of /\ file'[f].ref_count = file[f].ref_count
  BY <1>2, <1>3, <1>4 DEF FileObjects, Objects
<1>6. \A g \in FileIds \ {f} : file'[g] = file[g]
  BY <1>3, <1>4 DEF Objects
<1>7. file' \in Objects
  BY <1>2, <1>3, <1>4, <1>5, <1>6 DEF Objects
<1>8. Typed'
  BY <1>3, <1>7 DEF Typed, Objects
<1>9. Backed(file', pipe, inode')
  <2> SUFFICES ASSUME NEW g \in FileIds, file'[g] # None
               PROVE  /\ file'[g].kind = "regular" =>
                           /\ file'[g].of \in Inodes /\ inode'[file'[g].of] # None
                           /\ file'[g].offp <= inode'[file'[g].of].file_size
                      /\ file'[g].kind = "pipe" =>
                           /\ file'[g].of \in PipeIds /\ pipe[file'[g].of] # None
                           /\ file'[g].mode \in {{"O_READ"}, {"O_WRITE"}}
    BY DEF Backed
  <2>1. CASE g = f
    BY <1>1, <1>2, <1>3, <1>4, <1>5, <2>1 DEF Backed
  <2>2. CASE g # f
    <3>1. file'[g] = file[g] /\ file[g] # None
      BY <1>6, <2>2
    <3>2. CASE file[g].kind = "regular"
      <4> DEFINE i == file[g].of
      <4>1. i \in Inodes /\ inode[i] # None /\ file[g].offp <= inode[i].file_size
        BY <1>3, <3>1, <3>2 DEF Backed
      <4>2. inode[i] \in InodeObjects /\ inode'[i] \in InodeObjects /\ file[g] \in FileObjects
        BY <1>3, <3>1, <4>1 DEF Typed, Objects
      <4>3. inode[i].file_size \in Nat /\ inode'[i].file_size \in Nat /\ file[g].offp \in Nat
        BY <4>2, FilesAssumption DEF InodeObjects, FileObjects
      <4>4. file[g].offp <= inode'[i].file_size
        BY <4>1, <4>3
      <4> QED BY <3>1, <3>2, <4>1, <4>4
    <3>3. CASE file[g].kind # "regular"
      BY <1>3, <3>1, <3>3 DEF Backed
    <3> QED BY <3>2, <3>3
  <2> QED BY <2>1, <2>2
<1>10. EndsApart(file') /\ EndsOpen(file', pipe)
  <2>1. EndsApart(file')
    BY <1>1, <1>3, <1>5, <1>6 DEF EndsApart
  <2>2. EndsOpen(file', pipe)
    BY <1>1, <1>3, <1>5, <1>6 DEF EndsOpen
  <2> QED BY <2>1, <2>2
<1>11. Exact(procs, files, file', twice)
  BY <1>2, <1>3, <1>5, <1>6, NotNone DEF Exact
<1> QED BY <1>3, <1>8, <1>9, <1>10, <1>11 DEF Inv

\* The inode of a file that is open.
LEMMA OpenInodeThere ==
  ASSUME Inv, NEW p \in Procs, NEW fd \in Fds, RegularFd(p, fd)
  PROVE  LET o == file[files[p][fd]]
         IN  /\ o.of \in Inodes /\ inode[o.of] # None /\ inode[o.of] \in InodeObjects
             /\ inode[o.of].file_size \in Nat /\ inode[o.of].file_size <= FILE_SIZE
             /\ o.offp \in Nat /\ o.offp <= inode[o.of].file_size
<1> DEFINE f == files[p][fd]
<1>1. Calls(p) /\ f # None /\ file[f].kind = "regular"
  BY DEF RegularFd
<1>2. f \in FileIds /\ file[f] # None /\ file[f] \in FileObjects
  BY <1>1, OpenFd
<1>3. file[f].of \in Inodes /\ inode[file[f].of] # None /\ file[f].offp <= inode[file[f].of].file_size
  BY <1>1, <1>2, Found DEF Backed
<1>4. inode[file[f].of] \in InodeObjects
  BY <1>1, <1>3, Found DEF Typed
<1>5. /\ inode[file[f].of].file_size \in Nat /\ inode[file[f].of].file_size <= FILE_SIZE
      /\ file[f].offp \in Nat
  BY <1>2, <1>4, FilesAssumption DEF InodeObjects, FileObjects
<1> QED BY <1>3, <1>4, <1>5

\* A call that does not write leaves the sizes of the inodes.
LEMMA SizesKept ==
  ASSUME Inv, NEW p \in Procs, Calls(p), UNCHANGED inode
  PROVE  /\ inode' \in [Inodes -> InodeObjects \union {None}]
         /\ \A i \in Inodes : inode[i] # None =>
              inode'[i] # None /\ inode[i].file_size <= inode'[i].file_size
<1>1. inode \in [Inodes -> InodeObjects \union {None}]
  BY Found DEF Typed
<1>2. \A i \in Inodes : inode[i] # None => inode[i].file_size \in Nat
  BY <1>1, FilesAssumption DEF InodeObjects
<1> QED BY <1>1, <1>2

\* do_file_read keeps the invariant: it stops at the end of the file.
LEMMA ReadStep ==
  ASSUME Inv, NEW p \in Procs, NEW fd \in Fds, NEW count \in 1..FILE_SIZE, Read(p, fd, count)
  PROVE  Inv'
<1> DEFINE o == file[files[p][fd]]
           left == inode[o.of].file_size - o.offp
           n == o.offp + (IF count > left THEN left ELSE count)
<1>1. RegularFd(p, fd) /\ Calls(p)
  BY DEF Read, ReadFd, RegularFd
<1>2. MoveTo(files[p][fd], n) /\ left > 0 /\ UNCHANGED <<procs, files, pipe, inode, twice, stopped>>
  BY DEF Read, Advance, Keeps
<1>3. inode[o.of].file_size \in Nat /\ o.offp \in Nat /\ o.offp <= inode[o.of].file_size
  BY <1>1, OpenInodeThere
<1>4. n \in Nat /\ n <= inode[o.of].file_size
  <2> HIDE DEF o
  <2>1. count \in Nat \ {0} /\ left \in Nat /\ left = inode[o.of].file_size - o.offp
    BY <1>2, <1>3, FilesAssumption
  <2> HIDE DEF left
  <2>2. CASE count > left
    BY <1>3, <2>1, <2>2
  <2>3. CASE ~(count > left)
    BY <1>3, <2>1, <2>3
  <2> QED BY <2>2, <2>3
<1>5. n <= inode'[o.of].file_size
  BY <1>2, <1>4
<1> HIDE DEF n
<1> QED BY <1>1, <1>2, <1>4, <1>5, SizesKept, OffsetStep

\* do_file_write keeps the invariant: the file grows with the offset.
LEMMA WriteStep ==
  ASSUME Inv, NEW p \in Procs, NEW fd \in Fds, NEW count \in 1..FILE_SIZE, Write(p, fd, count)
  PROVE  Inv'
<1> DEFINE o == file[files[p][fd]]
           i == o.of
           end == o.offp + count
<1>1. RegularFd(p, fd) /\ Calls(p)
  BY DEF Write, WriteFd, RegularFd
<1>2. /\ MoveTo(files[p][fd], end) /\ end <= FILE_SIZE
      /\ inode' = [inode EXCEPT ![i].file_size = IF end > @ THEN end ELSE @]
      /\ UNCHANGED <<procs, files, pipe, twice, stopped>>
  BY DEF Write, Advance, Keeps, Fits
<1>3. /\ i \in Inodes /\ inode[i] # None /\ inode[i] \in InodeObjects
      /\ inode[i].file_size \in Nat /\ inode[i].file_size <= FILE_SIZE
      /\ o.offp \in Nat
  BY <1>1, OpenInodeThere
<1>4. end \in Nat
  BY <1>3
<1> HIDE DEF end, i
<1>5. inode \in [Inodes -> InodeObjects \union {None}]
  BY <1>1, Found DEF Typed
<1>6. /\ inode'[i] \in InodeObjects
      /\ inode'[i].file_size = IF end > inode[i].file_size THEN end ELSE inode[i].file_size
      /\ \A j \in Inodes \ {i} : inode'[j] = inode[j]
  <2>1. inode'[i] = [inode[i] EXCEPT !.file_size = IF end > inode[i].file_size THEN end ELSE inode[i].file_size]
    BY <1>2, <1>3, <1>5
  <2>2. (IF end > inode[i].file_size THEN end ELSE inode[i].file_size) \in 0..FILE_SIZE
    BY <1>2, <1>3, <1>4, FilesAssumption
  <2> QED BY <1>2, <1>3, <1>5, <2>1, <2>2 DEF InodeObjects
<1>7. inode' \in [Inodes -> InodeObjects \union {None}]
  BY <1>2, <1>3, <1>5, <1>6
<1>8. \A j \in Inodes : inode[j] # None =>
        inode'[j] # None /\ inode[j].file_size <= inode'[j].file_size
  <2> SUFFICES ASSUME NEW j \in Inodes, inode[j] # None
               PROVE inode'[j] # None /\ inode[j].file_size <= inode'[j].file_size
    OBVIOUS
  <2>1. inode[j].file_size \in Nat
    BY <1>5, FilesAssumption DEF InodeObjects
  <2>2. CASE j = i
    BY <1>3, <1>4, <1>6, <2>2, NotNone
  <2>3. CASE j # i
    BY <1>6, <2>1, <2>3
  <2> QED BY <2>2, <2>3
<1>9. end <= inode'[i].file_size
  BY <1>3, <1>4, <1>6
<1> QED BY <1>1, <1>2, <1>4, <1>7, <1>8, <1>9, OffsetStep DEF i

\* do_file_lseek keeps the invariant: it refuses a place outside the file.
LEMMA LseekStep ==
  ASSUME Inv, NEW p \in Procs, NEW fd \in Fds, NEW offset \in Offsets, NEW whence,
         Lseek(p, fd, offset, whence)
  PROVE  Inv'
<1> DEFINE o == file[files[p][fd]]
           rpos == IF whence = "SEEK_SET" THEN offset ELSE offset + o.offp
<1>1. /\ RegularFd(p, fd) /\ Calls(p) /\ OffsetAllowed(rpos, o.of) /\ MoveTo(files[p][fd], rpos)
      /\ UNCHANGED <<procs, files, pipe, inode, twice, stopped>>
  BY DEF Lseek, Keeps, RegularFd
<1>2. o.offp \in Nat
  BY <1>1, OpenInodeThere
<1>3. rpos \in Int
  BY <1>2, FilesAssumption
<1> HIDE DEF rpos
<1>4. rpos \in Nat /\ rpos <= inode'[o.of].file_size
  BY <1>1, <1>3 DEF OffsetAllowed
<1> QED BY <1>1, <1>4, SizesKept, OffsetStep

-----------------------------------------------------------------------------
(* Processes                                                               *)

\* do_file_fork and do_file_exit count the descriptors of one table.
LEMMA HoldsIs ==
  ASSUME NEW p, NEW f
  PROVE  Holds(p, f) = Cardinality(HoldsIn(files[p], f)) /\ Holds(p, f) \in Nat
<1>1. Holds(p, f) = Cardinality(HoldsIn(files[p], f))
  BY DEF Holds, HoldsIn
<1> QED BY <1>1, HoldsFinite

\* What a process that runs holds is among what is counted.
LEMMA HoldsAtMost ==
  ASSUME Inv, NEW p \in Procs, Calls(p), NEW f \in FileIds
  PROVE  Holds(p, f) <= Cardinality(HoldersIn(procs, files, f))
<1> DEFINE P == [procs EXCEPT ![p] = "stuck"]
<1>1. procs[p] = "runs" /\ files \in Tables /\ Typed
  BY Found
<1>2. P[p] # "runs" /\ SameBut(p, procs, files, P, files)
  BY <1>1 DEF Typed, SameBut
<1> HIDE DEF P
<1>3. Cardinality(HoldersIn(P, files, f)) =
        Cardinality(HoldersIn(procs, files, f)) - Cardinality(HoldsIn(files[p], f))
  BY <1>1, <1>2, RowRemoved
<1>4. Cardinality(HoldersIn(P, files, f)) \in Nat /\ Cardinality(HoldersIn(procs, files, f)) \in Nat
  BY HoldersFinite
<1> QED BY <1>3, <1>4, HoldsIs

\* do_file_fork, called once or twice, on all the objects.
LEMMA CountedForFacts ==
  ASSUME NEW F \in Objects, F = file, NEW p \in Procs, NEW n \in {1, 2},
         NEW G, G = CountedFor(p, n)
  PROVE  /\ G \in Objects /\ Alike(G, F)
         /\ \A f \in FileIds : F[f] # None =>
              G[f] # None /\ G[f].ref_count = F[f].ref_count + n * Holds(p, f)
         /\ \A f \in FileIds : F[f] = None => G[f] = None
<1>1. \A f \in FileIds : F[f] = None => G[f] = None
  BY DEF CountedFor
<1>2. ASSUME NEW f \in FileIds, F[f] # None
      PROVE  /\ G[f] \in FileObjects /\ G[f].ref_count = F[f].ref_count + n * Holds(p, f)
             /\ G[f].kind = F[f].kind /\ G[f].mode = F[f].mode
             /\ G[f].offp = F[f].offp /\ G[f].of = F[f].of
  <2>1. F[f] \in FileObjects
    BY <1>2 DEF Objects
  <2>2. Holds(p, f) \in Nat
    BY HoldsIs
  <2>3. n * Holds(p, f) \in Nat
    BY <2>2
  <2> DEFINE k == n * Holds(p, f)
  <2>4. G[f] = [F[f] EXCEPT !.ref_count = @ + k]
    BY <1>2 DEF CountedFor
  <2> HIDE DEF k
  <2>5. k \in Nat
    BY <2>3 DEF k
  <2>6. F[f].ref_count + k \in Nat
    BY <2>1, <2>5 DEF FileObjects
  <2>7. /\ G[f] \in FileObjects /\ G[f].ref_count = F[f].ref_count + k
        /\ G[f].kind = F[f].kind /\ G[f].mode = F[f].mode
        /\ G[f].offp = F[f].offp /\ G[f].of = F[f].of
    BY <2>1, <2>4, <2>6 DEF FileObjects
  <2> QED BY <2>7 DEF k
<1>3. G \in Objects
  BY <1>1, <1>2 DEF CountedFor, Objects
<1>4. Alike(G, F)
  BY <1>1, <1>2 DEF Alike
<1> QED BY <1>1, <1>2, <1>3, <1>4, NotNone

\* The child runs.
Starts(c) == procs' = [procs EXCEPT ![c] = "runs"]

\* What the ghost records of n calls of do_file_fork.
TwiceBy(p, n) == \A f \in FileIds : twice'[f] = twice[f] + (n - 1) * Holds(p, f)

\* fork and cfork: the child's descriptors are counted n times.
LEMMA ChildStep ==
  ASSUME Inv, NEW p \in Procs, Calls(p), NEW c \in Procs, procs[c] = "unused", NEW n \in {1, 2},
         CopyTable(p, c), Starts(c), file' = CountedFor(p, n),
         twice' \in [FileIds -> Nat], TwiceBy(p, n),
         UNCHANGED <<pipe, inode, stopped>>
  PROVE  Inv'
<1>1. /\ procs[p] = "runs" /\ files \in Tables /\ file \in Objects
      /\ Exact(procs, files, file, twice) /\ Typed /\ Live(procs, files)
      /\ Backed(file, pipe, inode) /\ EndsApart(file) /\ EndsOpen(file, pipe)
  BY Found
<1>2. /\ files' \in Tables /\ files'[c] = files[p] /\ procs'[c] = "runs"
      /\ \A q \in Procs \ {c} : files'[q] = files[q] /\ procs'[q] = procs[q]
  BY <1>1 DEF CopyTable, Starts, Tables, Typed
<1>3. /\ file' \in Objects /\ Alike(file', file)
      /\ \A f \in FileIds : file[f] # None =>
           file'[f] # None /\ file'[f].ref_count = file[f].ref_count + n * Holds(p, f)
      /\ \A f \in FileIds : file[f] = None => file'[f] = None
  BY <1>1, CountedForFacts
<1>4. Live(procs', files')
  BY <1>1, <1>2 DEF Live
<1>5. Typed'
  BY <1>1, <1>2, <1>3 DEF Starts, Typed, Tables, Objects
<1>6. Backed(file', pipe, inode) /\ EndsApart(file') /\ EndsOpen(file', pipe)
  BY <1>1, <1>3, AlikeKeeps
<1>7. Exact(procs', files', file', twice')
  <2> SUFFICES ASSUME NEW g \in FileIds
               PROVE IF file'[g] = None
                     THEN twice'[g] = 0 /\ Cardinality(HoldersIn(procs', files', g)) = 0
                     ELSE file'[g].ref_count = Cardinality(HoldersIn(procs', files', g)) + twice'[g]
    BY DEF Exact
  <2>1. Cardinality(HoldersIn(procs', files', g)) =
          Cardinality(HoldersIn(procs, files, g)) + Cardinality(HoldsIn(files'[c], g))
    <3>1. procs[c] # "runs" /\ procs'[c] = "runs"
      BY <1>2
    <3>2. SameBut(c, procs, files, procs', files')
      BY <1>2 DEF SameBut
    <3>3. files \in Tables /\ files' \in Tables
      BY <1>1, <1>2
    <3> QED BY <3>1, <3>2, <3>3, RowAdded
  <2>2. Cardinality(HoldsIn(files'[c], g)) = Holds(p, g)
    BY <1>2, HoldsIs
  <2>3. /\ Cardinality(HoldersIn(procs, files, g)) \in Nat /\ Holds(p, g) \in Nat
        /\ Holds(p, g) <= Cardinality(HoldersIn(procs, files, g)) /\ twice[g] \in Nat
    BY <1>1, HoldersFinite, HoldsIs, HoldsAtMost DEF Typed
  <2>4. IF file[g] = None
        THEN twice[g] = 0 /\ Cardinality(HoldersIn(procs, files, g)) = 0
        ELSE file[g].ref_count = Cardinality(HoldersIn(procs, files, g)) + twice[g]
    BY <1>1 DEF Exact
  <2>5. CASE file[g] = None
    <3>1. Holds(p, g) = 0 /\ twice'[g] = twice[g] + (n - 1) * 0
      BY <2>3, <2>4, <2>5 DEF TwiceBy
    <3> QED BY <1>3, <2>1, <2>2, <2>3, <2>4, <2>5, <3>1
  <2>6. CASE file[g] # None
    <3>1. /\ file'[g] # None /\ file'[g].ref_count = file[g].ref_count + n * Holds(p, g)
          /\ twice'[g] = twice[g] + (n - 1) * Holds(p, g)
      BY <1>3, <2>6 DEF TwiceBy
    <3>2. CASE n = 1
      BY <2>1, <2>2, <2>3, <2>4, <2>6, <3>1, <3>2
    <3>3. CASE n = 2
      BY <2>1, <2>2, <2>3, <2>4, <2>6, <3>1, <3>3
    <3> QED BY <3>2, <3>3
  <2> QED BY <2>5, <2>6
<1> QED BY <1>4, <1>5, <1>6, <1>7 DEF Inv

\* do_fork keeps the invariant.
LEMMA ForkStep ==
  ASSUME Inv, NEW p \in Procs, Fork(p)
  PROVE  Inv'
<1>1. PICK c \in Procs : procs[c] = "unused" /\ CopyTable(p, c) /\ Starts(c)
  BY DEF Fork, IsNewCtx, Starts
<1>2. Calls(p) /\ file' = CountedFor(p, 1) /\ UNCHANGED <<pipe, inode, twice, stopped>>
  BY DEF Fork, Keeps
<1>3. twice' \in [FileIds -> Nat] /\ TwiceBy(p, 1)
  <2>1. twice \in [FileIds -> Nat]
    BY <1>2, Found DEF Typed
  <2> QED BY <1>2, <2>1, HoldsIs DEF TwiceBy
<1> QED BY <1>1, <1>2, <1>3, ChildStep

\* do_cfork keeps the invariant: the surplus of the second count is recorded.
LEMMA CforkStep ==
  ASSUME Inv, NEW p \in Procs, Cfork(p)
  PROVE  Inv'
<1>1. PICK c \in Procs : procs[c] = "unused" /\ CopyTable(p, c) /\ Starts(c)
  BY DEF Cfork, IsNewCtx, Starts
<1>2. /\ Calls(p) /\ file' = CountedFor(p, 2) /\ UNCHANGED <<pipe, inode, stopped>>
      /\ twice' = [f \in FileIds |-> twice[f] + Holds(p, f)]
  BY DEF Cfork, Keeps
<1>3. twice' \in [FileIds -> Nat] /\ TwiceBy(p, 2)
  <2>1. twice \in [FileIds -> Nat]
    BY <1>2, Found DEF Typed
  <2>2. \A f \in FileIds : Holds(p, f) \in Nat
    BY HoldsIs
  <2> QED BY <1>2, <2>1, <2>2 DEF TwiceBy
<1> QED BY <1>1, <1>2, <1>3, ChildStep

\* The pointers a process leaves behind are marked as such.
LEMMA LeftTyped ==
  ASSUME NEW t \in [Fds -> FileIds \union {None, Stale}]
  PROVE  Left(t) \in [Fds -> FileIds \union {None, Stale}]
BY DEF Left

\* Objects and what stands on them stay while tables change.
LEMMA ObjectsKept ==
  ASSUME Inv, NEW p \in Procs, Calls(p), UNCHANGED <<file, pipe, inode, twice, stopped>>,
         procs' \in [Procs -> {"unused", "runs", "stuck"}], files' \in Tables,
         Live(procs', files'),
         \A f \in FileIds :
           Cardinality(HoldersIn(procs', files', f)) = Cardinality(HoldersIn(procs, files, f))
  PROVE  Inv'
<1>1. /\ Exact(procs, files, file, twice) /\ Typed
      /\ Backed(file, pipe, inode) /\ EndsApart(file) /\ EndsOpen(file, pipe)
  BY Found
<1>2. Typed'
  BY <1>1 DEF Typed, Tables
<1>3. Exact(procs', files', file', twice')
  BY <1>1 DEF Exact
<1>4. Backed(file', pipe', inode') /\ EndsApart(file') /\ EndsOpen(file', pipe')
  BY <1>1
<1> QED BY <1>2, <1>3, <1>4 DEF Inv

\* do_vfork keeps the invariant: the child's descriptors take the place of the
\* parent's, which never runs again.
LEMMA VforkStep ==
  ASSUME Inv, NEW p \in Procs, Vfork(p)
  PROVE  Inv'
<1>1. PICK c \in Procs :
        /\ procs[c] = "unused"
        /\ files' = [files EXCEPT ![c] = files[p], ![p] = Left(files[p])]
        /\ procs' = [procs EXCEPT ![c] = "runs", ![p] = "stuck"]
  BY DEF Vfork, IsNewCtx
<1>2. Calls(p) /\ UNCHANGED <<file, pipe, inode, twice, stopped>>
  BY DEF Vfork, Keeps
<1>3. /\ procs[p] = "runs" /\ files \in Tables /\ Typed /\ Live(procs, files)
  BY <1>2, Found
<1> DEFINE P == [procs EXCEPT ![c] = "runs"]
           T == [files EXCEPT ![c] = files[p]]
<1>4. p # c
  BY <1>1, <1>3
<1>5. Left(files[p]) \in [Fds -> FileIds \union {None, Stale}]
  BY <1>3, LeftTyped DEF Tables
<1>6. /\ T \in Tables /\ T[c] = files[p] /\ T[p] = files[p]
      /\ P[c] = "runs" /\ P[p] = "runs" /\ SameBut(c, procs, files, P, T)
  BY <1>1, <1>3, <1>4 DEF Tables, Typed, SameBut
<1>7. files' \in Tables /\ procs' \in [Procs -> {"unused", "runs", "stuck"}]
  BY <1>1, <1>3, <1>5 DEF Tables, Typed
<1>8. procs'[p] = "stuck" /\ SameBut(p, P, T, procs', files')
  BY <1>1, <1>3, <1>4 DEF Tables, Typed, SameBut
<1>9. Live(procs', files')
  BY <1>1, <1>3, <1>4 DEF Live, Tables, Typed
<1> HIDE DEF P, T
<1>10. ASSUME NEW f \in FileIds
       PROVE  Cardinality(HoldersIn(procs', files', f)) = Cardinality(HoldersIn(procs, files, f))
  <2>1. Cardinality(HoldersIn(P, T, f)) =
          Cardinality(HoldersIn(procs, files, f)) + Cardinality(HoldsIn(T[c], f))
    <3>1. procs[c] # "runs"
      BY <1>1
    <3> QED BY <1>3, <1>6, <3>1, RowAdded
  <2>2. Cardinality(HoldersIn(procs', files', f)) =
          Cardinality(HoldersIn(P, T, f)) - Cardinality(HoldsIn(T[p], f))
    <3>1. procs'[p] # "runs"
      BY <1>8
    <3> QED BY <1>6, <1>7, <1>8, <3>1, RowRemoved
  <2>3. Cardinality(HoldersIn(procs, files, f)) \in Nat /\ Cardinality(HoldsIn(files[p], f)) \in Nat
    BY HoldersFinite, HoldsFinite
  <2> QED BY <1>6, <2>1, <2>2, <2>3
<1> QED BY <1>2, <1>7, <1>9, <1>10, ObjectsKept

\* do_clone keeps the invariant: the thread's uncounted copy is never used.
LEMMA CloneStep ==
  ASSUME Inv, NEW p \in Procs, Clone(p)
  PROVE  Inv'
<1>1. PICK c \in Procs :
        /\ procs[c] = "unused" /\ files' = [files EXCEPT ![c] = Left(files[p])]
        /\ procs' = [procs EXCEPT ![c] = "stuck"]
  BY DEF Clone, IsNewCtx
<1>2. Calls(p) /\ UNCHANGED <<file, pipe, inode, twice, stopped>>
  BY DEF Clone, Keeps
<1>3. files \in Tables /\ Typed /\ Live(procs, files)
  BY <1>2, Found
<1>4. Left(files[p]) \in [Fds -> FileIds \union {None, Stale}]
  BY <1>3, LeftTyped DEF Tables
<1>5. files' \in Tables /\ procs' \in [Procs -> {"unused", "runs", "stuck"}]
  BY <1>1, <1>3, <1>4 DEF Tables, Typed
<1>6. \A q \in Procs : (procs'[q] = "runs" <=> procs[q] = "runs")
                       /\ (procs[q] = "runs" => files'[q] = files[q])
  BY <1>1, <1>3 DEF Tables, Typed
<1>7. Live(procs', files')
  BY <1>3, <1>6 DEF Live
<1>8. \A f \in FileIds : HoldersIn(procs', files', f) = HoldersIn(procs, files, f)
  BY <1>6 DEF HoldersIn
<1> QED BY <1>2, <1>5, <1>7, <1>8, ObjectsKept

\* do_file_exit keeps the invariant: it drops every descriptor of the process,
\* and frees an object exactly when no other process has one of it.
LEMMA ExitStep ==
  ASSUME Inv, NEW p \in Procs, Exit(p)
  PROVE  Inv'
<1>1. /\ Calls(p) /\ procs' = [procs EXCEPT ![p] = "unused"]
      /\ files' = [files EXCEPT ![p] = Left(files[p])]
      /\ file' = [f \in FileIds |-> IF file[f] = None \/ Holds(p, f) = 0 THEN file[f]
                                    ELSE Drop(file, f, Holds(p, f))[f]]
      /\ UNCHANGED <<pipe, inode, twice, stopped>>
  BY DEF Exit, Keeps
<1>2. /\ procs[p] = "runs" /\ files \in Tables /\ file \in Objects
      /\ Exact(procs, files, file, twice) /\ Typed /\ Live(procs, files)
      /\ Backed(file, pipe, inode) /\ EndsApart(file) /\ EndsOpen(file, pipe)
  BY <1>1, Found
<1>3. Left(files[p]) \in [Fds -> FileIds \union {None, Stale}]
  BY <1>2, LeftTyped DEF Tables
<1>4. files' \in Tables /\ procs' \in [Procs -> {"unused", "runs", "stuck"}]
  BY <1>1, <1>2, <1>3 DEF Tables, Typed
<1>5. procs'[p] # "runs" /\ SameBut(p, procs, files, procs', files')
  BY <1>1, <1>2 DEF Tables, Typed, SameBut
<1>6. Live(procs', files')
  BY <1>2, <1>5 DEF Live, SameBut
<1>7. ASSUME NEW f \in FileIds
      PROVE  /\ file'[f] \in FileObjects \union {None}
             /\ file[f] = None \/ Holds(p, f) = 0 => file'[f] = file[f]
             /\ file[f] # None /\ file[f].ref_count <= Holds(p, f) /\ Holds(p, f) # 0 => file'[f] = None
             /\ file[f] # None /\ file[f].ref_count > Holds(p, f) =>
                  file'[f] # None /\ file'[f].ref_count = file[f].ref_count - Holds(p, f)
             /\ file'[f] # None =>
                  /\ file[f] # None
                  /\ file'[f].kind = file[f].kind /\ file'[f].mode = file[f].mode
                  /\ file'[f].offp = file[f].offp /\ file'[f].of = file[f].of
  <2> DEFINE n == Holds(p, f)
             D == Drop(file, f, n)
  <2>1. n \in Nat
    BY HoldsIs
  <2>2. file'[f] = IF file[f] = None \/ n = 0 THEN file[f] ELSE D[f]
    BY <1>1
  <2>3. file[f] # None => file[f] \in FileObjects /\ file[f].ref_count \in Nat
    BY <1>2 DEF Objects, FileObjects
  <2> HIDE DEF n
  <2>4. file[f] # None =>
          /\ D \in Objects /\ Alike(D, file)
          /\ file[f].ref_count <= n => D[f] = None
          /\ file[f].ref_count > n => D[f] # None /\ D[f].ref_count = file[f].ref_count - n
    BY <1>2, <2>1, DropFacts
  <2> HIDE DEF D
  <2>5. file'[f] \in FileObjects \union {None}
    BY <2>2, <2>3, <2>4 DEF Objects
  <2> QED BY <2>1, <2>2, <2>3, <2>4, <2>5 DEF n, Alike
<1>8. file' \in Objects
  BY <1>1, <1>7 DEF Objects
<1>9. Alike(file', file)
  BY <1>7 DEF Alike
<1>10. Typed'
  BY <1>1, <1>2, <1>4, <1>8 DEF Typed, Tables, Objects
<1>11. Backed(file', pipe, inode) /\ EndsApart(file') /\ EndsOpen(file', pipe)
  BY <1>2, <1>9, AlikeKeeps
<1>12. Exact(procs', files', file', twice)
  <2> SUFFICES ASSUME NEW g \in FileIds
               PROVE IF file'[g] = None
                     THEN twice[g] = 0 /\ Cardinality(HoldersIn(procs', files', g)) = 0
                     ELSE file'[g].ref_count = Cardinality(HoldersIn(procs', files', g)) + twice[g]
    BY DEF Exact
  <2>1. Cardinality(HoldersIn(procs', files', g)) =
          Cardinality(HoldersIn(procs, files, g)) - Holds(p, g)
    BY <1>2, <1>4, <1>5, RowRemoved, HoldsIs
  <2>2. /\ Cardinality(HoldersIn(procs, files, g)) \in Nat /\ Holds(p, g) \in Nat
        /\ Holds(p, g) <= Cardinality(HoldersIn(procs, files, g)) /\ twice[g] \in Nat
    BY <1>1, <1>2, HoldersFinite, HoldsIs, HoldsAtMost DEF Typed
  <2>3. IF file[g] = None
        THEN twice[g] = 0 /\ Cardinality(HoldersIn(procs, files, g)) = 0
        ELSE file[g].ref_count = Cardinality(HoldersIn(procs, files, g)) + twice[g]
    BY <1>2 DEF Exact
  <2>4. CASE file[g] = None
    BY <1>7, <2>1, <2>2, <2>3, <2>4
  <2>5. CASE file[g] # None /\ Holds(p, g) = 0
    BY <1>7, <2>1, <2>2, <2>3, <2>5
  <2>6. CASE file[g] # None /\ Holds(p, g) # 0 /\ file[g].ref_count <= Holds(p, g)
    BY <1>7, <2>1, <2>2, <2>3, <2>6
  <2>7. CASE file[g] # None /\ Holds(p, g) # 0 /\ file[g].ref_count > Holds(p, g)
    BY <1>7, <2>1, <2>2, <2>3, <2>7
  <2>8. file[g] # None => file[g].ref_count \in Nat
    BY <1>2 DEF Objects, FileObjects
  <2> QED BY <2>2, <2>4, <2>5, <2>6, <2>7, <2>8
<1> QED BY <1>1, <1>6, <1>10, <1>11, <1>12 DEF Inv

\* The first descriptor a process of the next life has: standard I/O alone.
LEMMA LaunchStep ==
  ASSUME Inv, Launch
  PROVE  Inv'
<1>1. PICK std \in [StdFds -> FileIds] :
        /\ \A t \in StdFds : file[std[t]] = None
        /\ \A t, u \in StdFds : std[t] = std[u] => t = u
        /\ file' = [f \in FileIds |-> IF \E t \in StdFds : std[t] = f
                                      THEN StdFile(CHOOSE t \in StdFds : std[t] = f)
                                      ELSE file[f]]
        /\ files' = [files EXCEPT ![1] =
                       [fd \in Fds |-> IF fd \in StdFds THEN std[fd] ELSE files[1][fd]]]
  BY DEF Launch
<1>2. /\ Going /\ \A p \in Procs : procs[p] = "unused"
      /\ procs' = [procs EXCEPT ![1] = "runs"]
      /\ Going' <=> \A fd \in Fds \ StdFds : files[1][fd] = None
      /\ UNCHANGED <<pipe, inode, twice>>
  BY DEF Launch, Going
<1>3. /\ files \in Tables /\ file \in Objects /\ Typed
      /\ Live(procs, files) /\ Exact(procs, files, file, twice)
      /\ Backed(file, pipe, inode) /\ EndsApart(file) /\ EndsOpen(file, pipe)
  BY <1>2 DEF Inv, Typed, Tables, Objects
<1>4. 1 \in Procs /\ StdFds \subseteq Fds
  BY FilesAssumption DEF Procs, StdFds, Fds
<1> DEFINE row == [fd \in Fds |-> IF fd \in StdFds THEN std[fd] ELSE files[1][fd]]
<1>5. row \in [Fds -> FileIds \union {None, Stale}]
  BY <1>3, <1>4 DEF Tables
<1>6. /\ files' \in Tables /\ files'[1] = row
      /\ procs' \in [Procs -> {"unused", "runs", "stuck"}] /\ procs'[1] = "runs"
      /\ \A q \in Procs \ {1} : procs'[q] = procs[q]
  BY <1>1, <1>2, <1>3, <1>4, <1>5 DEF Tables, Typed
<1>7. /\ \A t \in StdFds : row[t] = std[t]
      /\ \A fd \in Fds \ StdFds : row[fd] = files[1][fd]
  BY <1>4
<1> HIDE DEF row
<1>8. ASSUME NEW f \in FileIds
      PROVE  /\ f \in FileIds => file'[f] \in FileObjects \union {None}
             /\ \A t \in StdFds : std[t] = f =>
                  /\ file'[f] # None /\ file'[f].kind = "std" /\ file'[f].ref_count = 1
             /\ (\A t \in StdFds : std[t] # f) => file'[f] = file[f]
  <2>1. \A t \in StdFds : StdFile(t) \in FileObjects /\ StdFile(t).kind = "std" /\ StdFile(t).ref_count = 1
    BY DEF StdFile, FileObjects, Access
  <2>2. CASE \E t \in StdFds : std[t] = f
    <3>1. PICK t \in StdFds : file'[f] = StdFile(t)
      BY <1>1, <2>2
    <3> QED BY <2>1, <2>2, <3>1, NotNone
  <2>3. CASE \A t \in StdFds : std[t] # f
    <3>1. file'[f] = file[f]
      BY <1>1, <2>3
    <3> QED BY <1>3, <2>3, <3>1 DEF Objects
  <2> QED BY <2>2, <2>3
<1>9. file' \in Objects
  BY <1>1, <1>8 DEF Objects
<1>10. Typed'
  BY <1>2, <1>3, <1>6, <1>9 DEF Typed, Tables, Objects
<1>11. \A f \in FileIds : file'[f] # None /\ file'[f].kind # "std" => file'[f] = file[f]
  BY <1>8
<1>12. Backed(file', pipe, inode)
  BY <1>3, <1>11 DEF Backed
<1>13. EndsApart(file')
  BY <1>3, <1>11 DEF EndsApart
<1>14. EndsOpen(file', pipe)
  BY <1>3, <1>11 DEF EndsOpen
<1>15. ASSUME Going' PROVE Live(procs', files') /\ Exact(procs', files', file', twice)
  <2>1. \A fd \in Fds \ StdFds : row[fd] = None
    BY <1>2, <1>7, <1>15
  <2>2. \A fd \in Fds : row[fd] \in FileIds \union {None}
    BY <1>1, <1>7, <2>1
  <2>3. Live(procs', files')
    BY <1>2, <1>6, <2>2 DEF Live
  <2>4. ASSUME NEW f \in FileIds
        PROVE  IF file'[f] = None
               THEN twice[f] = 0 /\ Cardinality(HoldersIn(procs', files', f)) = 0
               ELSE file'[f].ref_count = Cardinality(HoldersIn(procs', files', f)) + twice[f]
    <3>1. HoldersIn(procs, files, f) = {}
      BY <1>2 DEF HoldersIn
    <3>2. Cardinality(HoldersIn(procs, files, f)) = 0
      BY <3>1, FS_EmptySet
    <3>3. /\ file[f] = None => twice[f] = 0
          /\ file[f] # None => file[f].ref_count = twice[f]
          /\ twice[f] \in Nat
      BY <1>3, <3>2 DEF Exact, Typed
    <3>4. HoldersIn(procs', files', f) = {1} \X {fd \in Fds : row[fd] = f}
      BY <1>2, <1>4, <1>6 DEF HoldersIn
    <3>5. f # None
      BY FilesAssumption
    <3>6. CASE \E t \in StdFds : std[t] = f
      <4>1. PICK t \in StdFds : std[t] = f
        BY <3>6
      <4>2. {fd \in Fds : row[fd] = f} = {t}
        BY <1>1, <1>4, <1>7, <2>1, <3>5, <4>1
      <4>3. Cardinality(HoldersIn(procs', files', f)) = 1
        <5>1. HoldersIn(procs', files', f) = {<<1, t>>}
          BY <3>4, <4>2
        <5> QED BY <5>1, FS_Singleton
      <4>4. file[f] = None /\ twice[f] = 0
        BY <1>1, <3>3, <4>1
      <4> QED BY <1>8, <4>1, <4>3, <4>4
    <3>7. CASE \A t \in StdFds : std[t] # f
      <4>1. HoldersIn(procs', files', f) = {}
        BY <1>7, <2>1, <3>4, <3>5, <3>7
      <4>2. Cardinality(HoldersIn(procs', files', f)) = 0
        BY <4>1, FS_EmptySet
      <4>3. file'[f] = file[f]
        BY <1>8, <3>7
      <4>4. file[f] # None => file[f].ref_count \in Nat
        BY <1>3 DEF Objects, FileObjects
      <4> QED BY <3>3, <4>2, <4>3, <4>4
    <3> QED BY <3>6, <3>7
  <2> QED BY <2>3, <2>4 DEF Exact
<1> QED BY <1>2, <1>10, <1>12, <1>13, <1>14, <1>15 DEF Inv

-----------------------------------------------------------------------------
(* The invariant                                                           *)

\* Nothing is open at first.
LEMMA InitInv ==
  ASSUME Init
  PROVE  Inv
<1>1. Typed
  BY DEF Init, Typed
<1>2. Backed(file, pipe, inode) /\ EndsApart(file) /\ EndsOpen(file, pipe)
  BY DEF Init, Backed, EndsApart, EndsOpen
<1>3. \A f \in FileIds : HoldersIn(procs, files, f) = {}
  BY DEF Init, HoldersIn
<1>4. \A f \in FileIds : Cardinality(HoldersIn(procs, files, f)) = 0
  BY <1>3, FS_EmptySet
<1>5. Exact(procs, files, file, twice)
  BY <1>4 DEF Init, Exact
<1>6. Live(procs, files)
  BY DEF Init, Live
<1> QED BY <1>1, <1>2, <1>5, <1>6 DEF Inv

\* Every call keeps the invariant.
LEMMA NextInv ==
  ASSUME Inv, Next
  PROVE  Inv'
<1>1. ASSUME NEW p \in Procs, FileCall(p)
      PROVE  Inv'
  <2>1. CASE Open(p)
    BY <2>1, OpenStep
  <2>2. CASE \E fd \in Fds, count \in 1..FILE_SIZE : Read(p, fd, count)
    BY <2>2, ReadStep
  <2>3. CASE \E fd \in Fds, count \in 1..FILE_SIZE : Write(p, fd, count)
    BY <2>3, WriteStep
  <2>4. CASE CreatePipe(p)
    BY <2>4, CreatePipeStep
  <2>5. CASE \E fd \in Fds : Dup(p, fd)
    BY <2>5, DupStep
  <2>6. CASE \E oldfd, newfd \in Fds : Dup2(p, oldfd, newfd)
    BY <2>6, Dup2Step
  <2>7. CASE \E fd \in Fds : Close(p, fd)
    BY <2>7, CloseStep
  <2>8. CASE \E fd \in Fds, offset \in Offsets, whence \in {"SEEK_SET", "SEEK_CUR"} :
               Lseek(p, fd, offset, whence)
    BY <2>8, LseekStep
  <2> QED BY <1>1, <2>1, <2>2, <2>3, <2>4, <2>5, <2>6, <2>7, <2>8 DEF FileCall
<1>2. ASSUME NEW p \in Procs, Fork(p) \/ Cfork(p) \/ Vfork(p) \/ Clone(p) \/ Exit(p)
      PROVE  Inv'
  BY <1>2, ForkStep, CforkStep, VforkStep, CloneStep, ExitStep
<1>3. CASE Launch
  BY <1>3, LaunchStep
<1> QED BY <1>1, <1>2, <1>3 DEF Next

\* So does a step of something else.
LEMMA StutterInv ==
  ASSUME Inv, UNCHANGED vars
  PROVE  Inv'
<1>1. UNCHANGED <<procs, files, file, pipe, inode, twice, stopped>>
  BY DEF vars
<1> QED BY <1>1 DEF Inv, Typed, Going

\* The invariant of the descriptor tables, file objects, pipes' flags and inodes,
\* for any number of processes and descriptors.
THEOREM Invariance == Spec => []Inv
<1>1. Init => Inv
  BY InitInv
<1>2. Inv /\ [Next]_vars => Inv'
  BY NextInv, StutterInv
<1> QED BY <1>1, <1>2, PTL DEF Spec

\* No process that can run has a descriptor of a file object that is gone: neither
\* std_close, pipe_close, do_dup2 nor do_file_exit frees an object that somebody
\* else still names.
THEOREM NothingDangles == Spec => []NoDangling
<1>1. Inv => NoDangling
  <2> SUFFICES ASSUME Inv, Going, NEW p \in Running, NEW fd \in Fds, files[p][fd] # None
               PROVE  InUse(files[p][fd])
    BY DEF NoDangling
  <2>1. p \in Procs /\ procs[p] = "runs" /\ Calls(p)
    BY DEF Running, Calls, Going
  <2>2. files[p][fd] \in FileIds
    BY <2>1 DEF Inv, Live
  <2> DEFINE f == files[p][fd]
  <2>3. file[f] # None
    <3>1. SUFFICES ASSUME file[f] = None PROVE FALSE
      OBVIOUS
    <3>2. Cardinality(HoldersIn(procs, files, f)) = 0
      BY <2>2, <3>1 DEF Inv, Exact
    <3>3. <<p, fd>> \in HoldersIn(procs, files, f)
      BY <2>1 DEF HoldersIn
    <3>4. IsFiniteSet(HoldersIn(procs, files, f))
      BY HoldersFinite
    <3>5. HoldersIn(procs, files, f) = {}
      BY <3>2, <3>4, FS_EmptySet
    <3> QED BY <3>3, <3>5
  <2> QED BY <2>2, <2>3 DEF InUse
<1> QED BY <1>1, Invariance, PTL

\* ref_count is the number of descriptors of processes that can run, and one more
\* for each that do_cfork counted twice.
THEOREM CountsAreExact == Spec => []RefsAccounted
<1>1. Inv => RefsAccounted
  <2>1. \A f : Holders(f) = HoldersIn(procs, files, f)
    BY DEF Holders, HoldersIn, Running
  <2> QED BY <2>1 DEF Inv, Exact, RefsAccounted
<1> QED BY <1>1, Invariance, PTL

\* is_ropen and is_wopen are cleared only after the last descriptor of the end, so
\* that pipe_read and pipe_write never take an end for closed that somebody holds.
THEOREM EndsAreTold == Spec => []PipeEndsTold
<1>1. Inv => PipeEndsTold
  BY DEF Inv, EndsOpen, PipeEndsTold
<1> QED BY <1>1, Invariance, PTL

\* The offset of an open file never lies behind its end, and no file exceeds
\* FILE_SIZE, whichever descriptors and processes move the offset.
THEOREM OffsetsStayInside == Spec => []OffsetWithinFile
<1>1. Inv => OffsetWithinFile
  <2> SUFFICES ASSUME Inv, NEW f \in FileIds, file[f] # None, file[f].kind = "regular"
               PROVE  /\ file[f].offp <= inode[file[f].of].file_size
                      /\ inode[file[f].of].file_size <= FILE_SIZE
    BY DEF OffsetWithinFile
  <2>1. /\ file[f].of \in Inodes /\ inode[file[f].of] # None
        /\ file[f].offp <= inode[file[f].of].file_size
    BY DEF Inv, Backed
  <2>2. inode[file[f].of] \in InodeObjects
    BY <2>1 DEF Inv, Typed
  <2>3. inode[file[f].of].file_size \in 0..FILE_SIZE
    BY <2>2 DEF InodeObjects
  <2> QED BY <2>1, <2>3
<1> QED BY <1>1, Invariance, PTL
-----------------------------------------------------------------------------
(* Pipe: what its invariant says.                                          *)

\* What a write in progress has done: its positions delimit the waiting
\* bytes and the ones it copied, which follow the waiting ones in the ring.
WriteSoFar ==
  call.op = "write" =>
    /\ call.i <= call.count
    /\ ~Overflows(call.count)
    /\ read_pos # -1 => call.rp = read_pos
    /\ Len(call.bytes) = call.i
    /\ \A k \in 1..call.i :
         call.bytes[k] = pipe_buff[Slot(call.rp, buffer_offset + k - 1)]

\* What a read in progress has done: it stands call.i bytes after read_pos,
\* and has copied the bytes in between.
ReadSoFar ==
  call.op = "read" =>
    /\ call.i <= call.count
    /\ call.count <= buffer_offset
    /\ call.i < buffer_offset => call.rp = Slot(read_pos, call.i)
    /\ Len(call.bytes) = call.i
    /\ \A k \in 1..call.i : call.bytes[k] = pipe_buff[Slot(read_pos, k - 1)]

PipeInv == TypeOK /\ RingConsistent /\ WriteSoFar /\ ReadSoFar

-----------------------------------------------------------------------------
(* Arithmetic of the ring.                                                 *)

\* Taking a place modulo the ring stays in the ring, and different distances
\* below its size from the same place are different slots.
LEMMA SlotFacts ==
  ASSUME NEW rp \in Slots, NEW j \in 0..(PIPE_MAX_SIZE - 1)
  PROVE  /\ Slot(rp, j) \in Slots
         /\ \A k \in 0..(PIPE_MAX_SIZE - 1) : Slot(rp, j) = Slot(rp, k) => j = k
BY SizeAssumption DEF Slot, Slots

\* Going j places and then k more is going j + k places.
LEMMA SlotAdds ==
  ASSUME NEW rp \in Slots, NEW j \in Nat, NEW k \in Nat, j + k < PIPE_MAX_SIZE
  PROVE  Slot(Slot(rp, j), k) = Slot(rp, j + k)
BY SizeAssumption DEF Slot, Slots

\* C's remainder makes the writer's second test a comparison with the place
\* before read_pos, which is never a slot for read_pos = 0.
LEMMA RemFacts ==
  /\ \A rp \in Slots : CRem(rp - 1, PIPE_MAX_SIZE - 1) = rp - 1
  /\ CRem(-2, PIPE_MAX_SIZE - 1) # -1
<1>1. ASSUME NEW rp \in Slots
      PROVE  CRem(rp - 1, PIPE_MAX_SIZE - 1) = rp - 1
  BY SizeAssumption DEF CRem, Slots
<1>2. 2 % (PIPE_MAX_SIZE - 1) # 1
  BY SizeAssumption
<1>3. CRem(-2, PIPE_MAX_SIZE - 1) = -(2 % (PIPE_MAX_SIZE - 1))
  BY DEF CRem
<1>4. 2 % (PIPE_MAX_SIZE - 1) \in Int
  BY SizeAssumption
<1> QED BY <1>1, <1>2, <1>3, <1>4

\* The writer's test for a full ring says what it means.
LEMMA FullFacts ==
  ASSUME NEW rp \in Positions, NEW wp \in Positions, NEW n \in Nat,
         Delimits(rp, wp, n)
  PROVE  Full(rp, wp) <=> n = PIPE_MAX_SIZE
<1>1. CASE n = 0
  <2>1. rp = -1 /\ wp = -1
    BY <1>1 DEF Delimits
  <2>2. CRem(rp - 1, PIPE_MAX_SIZE - 1) # -1
    BY <2>1, RemFacts
  <2> QED BY <1>1, <2>1, <2>2, SizeAssumption DEF Full
<1>2. CASE n # 0
  <2>1. n \in 1..PIPE_MAX_SIZE /\ rp \in Slots /\ wp = Slot(rp, n - 1)
    BY <1>2 DEF Delimits
  <2>2. CRem(rp - 1, PIPE_MAX_SIZE - 1) = rp - 1
    BY <2>1, RemFacts
  <2> QED BY <2>1, <2>2, SizeAssumption DEF Full, Slot, Slots
<1> QED BY <1>1, <1>2

\* One more byte: it goes right behind the ones that are waiting.
LEMMA WriteFacts ==
  ASSUME NEW rp \in Positions, NEW wp \in Positions, NEW n \in Nat,
         Delimits(rp, wp, n), n < PIPE_MAX_SIZE,
         NEW first, first = IF rp = -1 THEN 0 ELSE rp
  PROVE  /\ first \in Slots
         /\ NextWrite(rp, wp) = Slot(first, n)
         /\ NextWrite(rp, wp) \in Slots
         /\ Delimits(first, NextWrite(rp, wp), n + 1)
BY SizeAssumption DEF Delimits, NextWrite, Slot, Slots, Positions

\* One byte less: the positions stand on the next one, or both are -1.
LEMMA ReadFacts ==
  ASSUME NEW rp \in Positions, NEW wp \in Positions, NEW n \in Nat,
         Delimits(rp, wp, n), n > 0
  PROVE  /\ rp \in Slots
         /\ AfterRead(rp, wp).rp \in Positions
         /\ AfterRead(rp, wp).wp \in Positions
         /\ Delimits(AfterRead(rp, wp).rp, AfterRead(rp, wp).wp, n - 1)
         /\ n > 1 => AfterRead(rp, wp).rp = Slot(rp, 1)
BY SizeAssumption DEF Delimits, AfterRead, Slot, Slots, Positions

\* What the u32 test lets in fits, or is so long that the sum wrapped.
LEMMA AdmitFacts ==
  ASSUME buffer_offset \in 0..PIPE_MAX_SIZE,
         NEW count \in Counts, ~Overflows(count)
  PROVE  buffer_offset + count <= PIPE_MAX_SIZE \/ count > PIPE_MAX_SIZE
<1>1. CASE buffer_offset + count < U32
  <2>1. (buffer_offset + count) % U32 = buffer_offset + count
    BY <1>1, SizeAssumption DEF Counts
  <2> QED BY <2>1, SizeAssumption DEF Overflows, Counts
<1>2. CASE buffer_offset + count >= U32
  BY <1>2, SizeAssumption DEF Counts
<1> QED BY <1>1, <1>2, SizeAssumption DEF Counts

-----------------------------------------------------------------------------
(* The invariant.                                                          *)

\* A call in progress has the locals of a call in progress.
LEMMA CallFacts ==
  ASSUME TypeOK, call # Idle
  PROVE  /\ call \in [op : {"write", "read"}, count : Counts, i : Nat,
                      rp : Positions, wp : Positions, bytes : Seq(Byte)]
         /\ call.op = "write" \/ call.op = "read"
BY DEF TypeOK, PipeCalls

LEMMA PipeInitInv == PipeInit => PipeInv
BY SizeAssumption DEF PipeInit, PipeInv, TypeOK, RingConsistent, WriteSoFar, ReadSoFar,
  PipeCalls, Idle, Positions, Slots, Delimits

\* A call that ends without an effect leaves the ring and its positions.
LEMMA FailInv ==
  ASSUME PipeInv, NEW error \in {EINVAL, EACCES}, Fail(error)
  PROVE  PipeInv'
BY DEF PipeInv, TypeOK, RingConsistent, WriteSoFar, ReadSoFar, PipeCalls, Idle,
  Fail, Return, ring, Delimits, EINVAL, EACCES

LEMMA BeginInv ==
  ASSUME PipeInv, call = Idle, NEW op \in {"write", "read"}, NEW count \in Counts,
         Begin(op, count),
         op = "write" => ~Overflows(count),
         op = "read" => count <= buffer_offset
  PROVE  PipeInv'
<1> DEFINE new == [op |-> op, count |-> count, i |-> 0, rp |-> read_pos,
                   wp |-> write_pos, bytes |-> <<>>]
<1>1. call' = new /\ UNCHANGED <<pipe_buff, read_pos, write_pos, buffer_offset, moved, ret>>
  BY DEF Begin, ring
<1>2. TypeOK'
  <2>1. new \in PipeCalls
    BY DEF PipeInv, TypeOK, PipeCalls, Counts
  <2> QED BY <1>1, <2>1 DEF PipeInv, TypeOK
<1>3. RingConsistent'
  BY <1>1 DEF PipeInv, TypeOK, RingConsistent, Delimits
<1>4. WriteSoFar'
  BY <1>1, SizeAssumption DEF PipeInv, TypeOK, WriteSoFar, Counts, Overflows
<1>5. ReadSoFar'
  BY <1>1, SizeAssumption DEF PipeInv, TypeOK, RingConsistent, ReadSoFar, Counts, Slot, Slots, Delimits
<1> QED BY <1>2, <1>3, <1>4, <1>5 DEF PipeInv

LEMMA WriteByteInv ==
  ASSUME PipeInv, WriteByte
  PROVE  PipeInv'
<1> DEFINE first == IF call.rp = -1 THEN 0 ELSE call.rp
           next == NextWrite(call.rp, call.wp)
           n == buffer_offset + call.i
<1>1. call.op = "write" /\ call.i < call.count /\ ~Full(call.rp, call.wp)
  BY DEF WriteByte
<1>2. call \in [op : {"write", "read"}, count : Counts, i : Nat,
               rp : Positions, wp : Positions, bytes : Seq(Byte)]
  BY <1>1, CallFacts DEF PipeInv, Idle
<1>3. Delimits(call.rp, call.wp, n) /\ n \in Nat /\ n < PIPE_MAX_SIZE
  <2>1. Delimits(call.rp, call.wp, n)
    BY <1>1 DEF PipeInv, RingConsistent
  <2>2. n \in Nat
    BY <1>2 DEF PipeInv, TypeOK
  <2>3. n # PIPE_MAX_SIZE
    BY <1>1, <1>2, <2>1, <2>2, FullFacts
  <2> QED BY <2>1, <2>2, <2>3, SizeAssumption DEF Delimits
<1>4. /\ first \in Slots
      /\ next = Slot(first, n)
      /\ next \in Slots
      /\ Delimits(first, next, n + 1)
  BY <1>2, <1>3, WriteFacts
<1>5. PICK b \in Byte :
        /\ pipe_buff' = [pipe_buff EXCEPT ![next] = b]
        /\ call' = [call EXCEPT !.i = @ + 1, !.wp = next,
                                !.rp = IF @ = -1 THEN 0 ELSE @,
                                !.bytes = Append(@, b)]
  BY DEF WriteByte
<1>6. UNCHANGED <<read_pos, write_pos, buffer_offset, moved, ret>>
  BY DEF WriteByte, ring
<1>7. /\ call'.op = "write" /\ call'.count = call.count
      /\ call'.i = call.i + 1
      /\ call'.wp = next /\ call'.rp = first
      /\ call'.bytes = Append(call.bytes, b)
  BY <1>1, <1>2, <1>5
<1>8. TypeOK'
  <2>1. Append(call.bytes, b) \in Seq(Byte)
    BY <1>2, AppendProperties
  <2>2. call' = [op |-> call.op, count |-> call.count, i |-> call.i + 1,
                 rp |-> first, wp |-> next, bytes |-> Append(call.bytes, b)]
    BY <1>2, <1>5
  <2>3. call' \in PipeCalls
    <3> HIDE DEF first, next
    <3> QED BY <1>2, <1>4, <2>1, <2>2 DEF PipeCalls, Positions
  <2>4. pipe_buff' \in [Slots -> Byte]
    BY <1>4, <1>5 DEF PipeInv, TypeOK
  <2> QED BY <1>6, <2>3, <2>4 DEF PipeInv, TypeOK
<1>9. RingConsistent'
  <2>1. buffer_offset' + call'.i = n + 1
    BY <1>2, <1>6, <1>7 DEF PipeInv, TypeOK
  <2> QED BY <1>4, <1>6, <1>7, <2>1 DEF PipeInv, RingConsistent, Delimits
<1>10. WriteSoFar'
  <2>1. Len(call'.bytes) = call'.i
    BY <1>1, <1>2, <1>7, AppendProperties DEF PipeInv, WriteSoFar
  <2>2. ASSUME NEW k \in 1..call'.i
        PROVE  call'.bytes[k] = pipe_buff'[Slot(call'.rp, buffer_offset' + k - 1)]
    <3>1. CASE k = call'.i
      <4>1. call'.bytes[k] = b
        BY <1>1, <1>2, <1>7, <3>1, AppendProperties DEF PipeInv, WriteSoFar
      <4>2. buffer_offset' + k - 1 = n
        BY <1>2, <1>6, <1>7, <3>1 DEF PipeInv, TypeOK
      <4> QED BY <1>4, <1>5, <1>7, <4>1, <4>2 DEF PipeInv, TypeOK
    <3>2. CASE k # call'.i
      <4>1. k \in 1..call.i
        BY <1>2, <1>7, <2>2, <3>2
      <4>2. call'.bytes[k] = call.bytes[k]
        BY <1>1, <1>2, <1>7, <4>1, AppendProperties DEF PipeInv, WriteSoFar
      <4>3. buffer_offset + k - 1 \in 0..(PIPE_MAX_SIZE - 1) /\ buffer_offset + k - 1 # n
        BY <1>2, <1>3, <4>1, SizeAssumption DEF PipeInv, TypeOK
      <4>4. Slot(first, buffer_offset + k - 1) # next
        BY <1>3, <1>4, <4>3, SlotFacts, SizeAssumption
      <4>5. pipe_buff'[Slot(first, buffer_offset + k - 1)]
              = pipe_buff[Slot(first, buffer_offset + k - 1)]
        BY <1>4, <1>5, <4>3, <4>4, SlotFacts DEF PipeInv, TypeOK
      <4>6. call.rp = first
        BY <1>1, <1>2, <1>3, <4>1 DEF PipeInv, TypeOK, Delimits, Slots
      <4>7. call.bytes[k] = pipe_buff[Slot(first, buffer_offset + k - 1)]
        BY <1>1, <4>1, <4>6 DEF PipeInv, WriteSoFar
      <4> QED BY <1>6, <1>7, <4>2, <4>5, <4>7
    <3> QED BY <3>1, <3>2
  <2>3. read_pos' # -1 => call'.rp = read_pos'
    BY <1>1, <1>6, <1>7 DEF PipeInv, WriteSoFar
  <2>4. call'.i <= call'.count
    BY <1>1, <1>2, <1>7 DEF Counts
  <2>5. (~Overflows(call.count))'
    BY <1>1, <1>6, <1>7 DEF PipeInv, WriteSoFar, Overflows
  <2> QED BY <2>1, <2>2, <2>3, <2>4, <2>5 DEF WriteSoFar
<1>11. ReadSoFar'
  BY <1>7 DEF ReadSoFar
<1> QED BY <1>8, <1>9, <1>10, <1>11 DEF PipeInv

LEMMA ReadByteInv ==
  ASSUME PipeInv, ReadByte
  PROVE  PipeInv'
<1> DEFINE next == AfterRead(call.rp, call.wp)
           n == buffer_offset - call.i
<1>1. call.op = "read" /\ call.i < call.count
  BY DEF ReadByte
<1>2. call \in [op : {"write", "read"}, count : Counts, i : Nat,
               rp : Positions, wp : Positions, bytes : Seq(Byte)]
  BY <1>1, CallFacts DEF PipeInv, Idle
<1>3. Delimits(call.rp, call.wp, n) /\ n \in Nat /\ n > 0 /\ call.i < buffer_offset
  BY <1>1, <1>2 DEF PipeInv, TypeOK, RingConsistent, ReadSoFar, Counts
<1>4. /\ call.rp \in Slots
      /\ next.rp \in Positions /\ next.wp \in Positions
      /\ Delimits(next.rp, next.wp, n - 1)
      /\ n > 1 => next.rp = Slot(call.rp, 1)
  BY <1>2, <1>3, ReadFacts
<1>5. /\ call' = [call EXCEPT !.i = @ + 1, !.rp = next.rp, !.wp = next.wp,
                              !.bytes = Append(@, pipe_buff[call.rp])]
      /\ UNCHANGED <<pipe_buff, read_pos, write_pos, buffer_offset, moved, ret>>
  BY <1>4 DEF ReadByte, Slots, ring
<1>6. /\ call'.op = "read" /\ call'.count = call.count
      /\ call'.i = call.i + 1
      /\ call'.rp = next.rp /\ call'.wp = next.wp
      /\ call'.bytes = Append(call.bytes, pipe_buff[call.rp])
  BY <1>1, <1>2, <1>5
<1>7. pipe_buff[call.rp] \in Byte
  BY <1>4 DEF PipeInv, TypeOK
<1>8. TypeOK'
  <2>1. Append(call.bytes, pipe_buff[call.rp]) \in Seq(Byte)
    BY <1>2, <1>7, AppendProperties
  <2>2. call' = [op |-> call.op, count |-> call.count, i |-> call.i + 1,
                 rp |-> next.rp, wp |-> next.wp,
                 bytes |-> Append(call.bytes, pipe_buff[call.rp])]
    BY <1>2, <1>5
  <2>3. call' \in PipeCalls
    <3> HIDE DEF next
    <3> QED BY <1>2, <1>4, <2>1, <2>2 DEF PipeCalls
  <2> QED BY <1>5, <2>3 DEF PipeInv, TypeOK
<1>9. RingConsistent'
  <2>1. buffer_offset' - call'.i = n - 1
    BY <1>2, <1>5, <1>6 DEF PipeInv, TypeOK
  <2> QED BY <1>4, <1>5, <1>6, <2>1 DEF PipeInv, RingConsistent, Delimits
<1>10. ReadSoFar'
  <2>1. call.rp = Slot(read_pos, call.i) /\ read_pos \in Slots
    BY <1>1, <1>3 DEF PipeInv, TypeOK, RingConsistent, ReadSoFar, Delimits
  <2>2. Len(call'.bytes) = call'.i
    BY <1>1, <1>2, <1>6, <1>7, AppendProperties DEF PipeInv, ReadSoFar
  <2>3. ASSUME NEW k \in 1..call'.i
        PROVE  call'.bytes[k] = pipe_buff'[Slot(read_pos', k - 1)]
    <3>1. CASE k = call'.i
      <4>1. call'.bytes[k] = pipe_buff[call.rp]
        BY <1>1, <1>2, <1>6, <1>7, <3>1, AppendProperties DEF PipeInv, ReadSoFar
      <4>2. k - 1 = call.i
        BY <1>2, <1>6, <3>1
      <4> QED BY <1>5, <2>1, <4>1, <4>2
    <3>2. CASE k # call'.i
      <4>1. k \in 1..call.i
        BY <1>2, <1>6, <2>3, <3>2
      <4>2. call'.bytes[k] = call.bytes[k]
        BY <1>1, <1>2, <1>6, <1>7, <4>1, AppendProperties DEF PipeInv, ReadSoFar
      <4> QED BY <1>1, <1>5, <4>1, <4>2 DEF PipeInv, ReadSoFar
    <3> QED BY <3>1, <3>2
  <2>4. call'.i < buffer_offset' => call'.rp = Slot(read_pos', call'.i)
    <3>1. Slot(Slot(read_pos, call.i), 1) = Slot(read_pos, call.i + 1)
      BY <1>2, <1>3, <2>1, SizeAssumption DEF PipeInv, TypeOK, Slot, Slots
    <3> QED BY <1>2, <1>4, <1>5, <1>6, <2>1, <3>1 DEF PipeInv, TypeOK
  <2>5. call'.i <= call'.count /\ call'.count <= buffer_offset'
    BY <1>1, <1>2, <1>5, <1>6 DEF PipeInv, ReadSoFar, Counts
  <2> QED BY <2>2, <2>3, <2>4, <2>5 DEF ReadSoFar
<1>11. WriteSoFar'
  BY <1>6 DEF WriteSoFar
<1> QED BY <1>8, <1>9, <1>10, <1>11 DEF PipeInv

LEMMA EndInv ==
  ASSUME PipeInv, WriteEnd \/ ReadEnd
  PROVE  PipeInv'
<1>1. call # Idle
  BY DEF WriteEnd, ReadEnd, Idle
<1>2. call \in [op : {"write", "read"}, count : Counts, i : Nat,
               rp : Positions, wp : Positions, bytes : Seq(Byte)]
  BY <1>1, CallFacts DEF PipeInv
<1>3. CASE WriteEnd
  BY <1>2, <1>3, SizeAssumption DEF WriteEnd, Return, PipeInv, TypeOK, RingConsistent,
    WriteSoFar, ReadSoFar, PipeCalls, Idle, Delimits, Counts
<1>4. CASE ReadEnd
  BY <1>2, <1>4, SizeAssumption DEF ReadEnd, Return, PipeInv, TypeOK, RingConsistent,
    WriteSoFar, ReadSoFar, PipeCalls, Idle, Delimits, Counts
<1> QED BY <1>3, <1>4

LEMMA PipeNextInv ==
  ASSUME PipeInv, [PipeNext]_pipeVars
  PROVE  PipeInv'
<1>1. CASE UNCHANGED pipeVars
  BY <1>1 DEF PipeInv, TypeOK, RingConsistent, WriteSoFar, ReadSoFar, Delimits,
    Overflows, pipeVars
<1>2. ASSUME NEW mode \in Modes, NEW count \in Counts, PipeWrite(mode, count)
      PROVE  PipeInv'
  <2>1. CASE Fail(EACCES) \/ Fail(EINVAL)
    BY <2>1, FailInv
  <2>2. CASE ~Overflows(count) /\ Begin("write", count)
    BY <1>2, <2>2, BeginInv DEF PipeWrite
  <2> QED BY <1>2, <2>1, <2>2 DEF PipeWrite
<1>3. ASSUME NEW mode \in Modes, NEW count \in Counts, PipeRead(mode, count)
      PROVE  PipeInv'
  <2>1. CASE Fail(EACCES) \/ Fail(EINVAL)
    BY <2>1, FailInv
  <2>2. CASE ~(count > buffer_offset) /\ Begin("read", count)
    <3>1. count <= buffer_offset
      BY <2>2 DEF PipeInv, TypeOK, Counts
    <3> QED BY <1>3, <2>2, <3>1, BeginInv DEF PipeRead
  <2> QED BY <1>3, <2>1, <2>2 DEF PipeRead
<1>4. CASE WriteFull
  BY <1>4, FailInv DEF WriteFull
<1> QED BY <1>1, <1>2, <1>3, <1>4, WriteByteInv, ReadByteInv, EndInv DEF PipeNext

\* The invariant of pipe_read and pipe_write, for a ring of any size.
THEOREM PipeInvariance == PipeSpec => []PipeInv
BY PipeInitInv, PipeNextInv, PTL DEF PipeSpec

\* pipe_read and pipe_write keep their variables in their types: positions
\* stay inside the ring and the count never leaves 0..PIPE_MAX_SIZE.
THEOREM RingTypeCorrect == PipeSpec => []TypeOK
<1>1. PipeInv => TypeOK
  BY DEF PipeInv
<1> QED BY <1>1, PipeInvariance, PTL

\* buffer_offset and the pair of positions always say the same.
THEOREM RingIsConsistent == PipeSpec => []RingConsistent
<1>1. PipeInv => RingConsistent
  BY DEF PipeInv
<1> QED BY <1>1, PipeInvariance, PTL

\* The error in the loop of pipe_read is dead code.
THEOREM AdmittedReadSucceeds == PipeSpec => []ReadNeverStarves
<1>1. ASSUME PipeInv, call.op = "read", call.i < call.count
      PROVE  call.rp # -1
  <2>1. call.i \in Nat /\ call.count \in Counts
    BY <1>1, CallFacts DEF PipeInv, Idle
  <2>2. buffer_offset - call.i > 0
    BY <1>1, <2>1 DEF PipeInv, TypeOK, ReadSoFar, Counts
  <2> QED BY <1>1, <2>2 DEF PipeInv, RingConsistent, Delimits, Slots
<1>2. PipeInv => ReadNeverStarves
  BY <1>1 DEF ReadNeverStarves
<1> QED BY <1>2, PipeInvariance, PTL

\* The error in the loop of pipe_write is met only by a count that made the
\* sum in its first test wrap around.
THEOREM AdmittedWriteFits == PipeSpec => []RefusedOnlyIfTooLong
<1>1. ASSUME PipeInv, call.op = "write", call.i < call.count, Full(call.rp, call.wp)
      PROVE  buffer_offset + call.count > PIPE_MAX_SIZE
  <2>1. call \in [op : {"write", "read"}, count : Counts, i : Nat,
                 rp : Positions, wp : Positions, bytes : Seq(Byte)]
    BY <1>1, CallFacts DEF PipeInv, Idle
  <2>2. Delimits(call.rp, call.wp, buffer_offset + call.i)
    BY <1>1 DEF PipeInv, RingConsistent
  <2>3. buffer_offset + call.i = PIPE_MAX_SIZE
    BY <1>1, <2>1, <2>2, FullFacts DEF PipeInv, TypeOK
  <2> QED BY <1>1, <2>1, <2>3, SizeAssumption DEF PipeInv, TypeOK, Counts
<1>2. PipeInv => RefusedOnlyIfTooLong
  BY <1>1 DEF RefusedOnlyIfTooLong
<1> QED BY <1>2, PipeInvariance, PTL

-----------------------------------------------------------------------------
(* The ring implements the queue.                                          *)

\* The n bytes of a ring from rp on are a sequence of length n.
LEMMA BytesFacts ==
  ASSUME NEW buff \in [Slots -> Byte], NEW rp, NEW wp, NEW n \in 0..PIPE_MAX_SIZE,
         Delimits(rp, wp, n)
  PROVE  /\ Bytes(buff, rp, n) \in Seq(Byte)
         /\ Len(Bytes(buff, rp, n)) = n
         /\ \A k \in 1..n : Bytes(buff, rp, n)[k] = buff[Slot(rp, k - 1)]
<1>1. ASSUME NEW k \in 1..n
      PROVE  buff[Slot(rp, k - 1)] \in Byte
  <2>1. rp \in Slots /\ k - 1 \in 0..(PIPE_MAX_SIZE - 1)
    BY SizeAssumption DEF Delimits
  <2> QED BY <2>1, SlotFacts
<1> QED BY <1>1 DEF Bytes

\* What is left of a sequence without its first n elements.
LEMMA TailFacts ==
  ASSUME NEW S, NEW s \in Seq(S), NEW n \in 0..Len(s),
         NEW t, t = SubSeq(s, n + 1, Len(s))
  PROVE  /\ t \in Seq(S)
         /\ Len(t) = Len(s) - n
         /\ \A k \in 1..(Len(s) - n) : t[k] = s[n + k]
<1> DEFINE m == n + 1
           l == Len(s)
<1>1. l \in Int /\ m \in Int /\ n \in Nat /\ n <= l /\ m = n + 1 /\ t = SubSeq(s, m, l)
  BY LenProperties
<1>2. \A k \in m..l : s[k] \in S
  BY <1>1, ElementOfSeq
<1> HIDE DEF m, l
<1>3. /\ t \in Seq(S)
      /\ Len(t) = IF m <= l THEN l - m + 1 ELSE 0
      /\ \A k \in 1..(l - m + 1) : t[k] = s[m + k - 1]
  BY <1>1, <1>2, SubSeqProperties
<1>4. Len(t) = l - n
  BY <1>1, <1>3
<1>5. ASSUME NEW k \in 1..(l - n)
      PROVE  t[k] = s[n + k]
  <2>1. k \in 1..(l - m + 1) /\ m + k - 1 = n + k
    BY <1>1
  <2>2. t[k] = s[m + k - 1]
    BY <1>3, <2>1
  <2> QED BY <2>1, <2>2
<1> QED BY <1>3, <1>4, <1>5 DEF l

LEMMA ContentType ==
  ASSUME PipeInv
  PROVE  /\ Content \in Seq(Byte)
         /\ Len(Content) = buffer_offset
         /\ \A k \in 1..buffer_offset : Content[k] = pipe_buff[Slot(read_pos, k - 1)]
BY BytesFacts DEF PipeInv, TypeOK, RingConsistent, Content

LEMMA ContentTypeNext ==
  ASSUME PipeInv'
  PROVE  /\ Content' \in Seq(Byte)
         /\ Len(Content') = buffer_offset'
         /\ \A k \in 1..buffer_offset' : Content'[k] = pipe_buff'[Slot(read_pos', k - 1)]
BY BytesFacts DEF PipeInv, TypeOK, RingConsistent, Content

\* A byte written in the course of a call goes where none is waiting.
LEMMA WriteByteHidden ==
  ASSUME PipeInv, WriteByte
  PROVE  Content' = Content
<1> DEFINE next == NextWrite(call.rp, call.wp)
<1>1. call.op = "write" /\ call.i < call.count /\ ~Full(call.rp, call.wp)
  BY DEF WriteByte
<1>2. call \in [op : {"write", "read"}, count : Counts, i : Nat,
               rp : Positions, wp : Positions, bytes : Seq(Byte)]
  BY <1>1, CallFacts DEF PipeInv, Idle
<1>3. buffer_offset' = buffer_offset /\ read_pos' = read_pos
  BY DEF WriteByte, ring
<1>4. ASSUME NEW k \in 1..buffer_offset
      PROVE  pipe_buff'[Slot(read_pos, k - 1)] = pipe_buff[Slot(read_pos, k - 1)]
  <2>1. read_pos \in Slots /\ call.rp = read_pos
    BY <1>1 DEF PipeInv, TypeOK, RingConsistent, WriteSoFar, Delimits, Slots
  <2>2. Delimits(call.rp, call.wp, buffer_offset + call.i)
    BY <1>1 DEF PipeInv, RingConsistent
  <2>3. buffer_offset + call.i \in Nat /\ buffer_offset + call.i < PIPE_MAX_SIZE
    <3>1. buffer_offset + call.i \in Nat
      BY <1>2 DEF PipeInv, TypeOK
    <3>2. buffer_offset + call.i # PIPE_MAX_SIZE
      BY <1>1, <1>2, <2>2, <3>1, FullFacts
    <3> QED BY <2>2, <3>1, <3>2, SizeAssumption DEF Delimits
  <2>4. next = Slot(read_pos, buffer_offset + call.i) /\ next \in Slots
    BY <1>2, <2>1, <2>2, <2>3, WriteFacts DEF Slots
  <2>5. /\ k - 1 \in 0..(PIPE_MAX_SIZE - 1)
        /\ buffer_offset + call.i \in 0..(PIPE_MAX_SIZE - 1)
        /\ k - 1 # buffer_offset + call.i
    BY <1>2, <2>3, SizeAssumption DEF PipeInv, TypeOK
  <2>6. Slot(read_pos, k - 1) # next /\ Slot(read_pos, k - 1) \in Slots
    BY <2>1, <2>4, <2>5, SlotFacts
  <2>7. PICK b \in Byte : pipe_buff' = [pipe_buff EXCEPT ![next] = b]
    BY DEF WriteByte
  <2> QED BY <2>4, <2>6, <2>7 DEF PipeInv, TypeOK
<1> QED BY <1>3, <1>4 DEF Content, Bytes

\* The end of a write makes its bytes visible, behind the ones waiting.
LEMMA WriteEndAppends ==
  ASSUME PipeInv, PipeInv', WriteEnd
  PROVE  Content' = Content \o call.bytes
<1>1. call.op = "write" /\ call.i = call.count
  BY DEF WriteEnd
<1>2. call \in [op : {"write", "read"}, count : Counts, i : Nat,
               rp : Positions, wp : Positions, bytes : Seq(Byte)]
  BY <1>1, CallFacts DEF PipeInv, Idle
<1>3. /\ buffer_offset' = buffer_offset + call.count
      /\ read_pos' = call.rp
      /\ pipe_buff' = pipe_buff
  BY DEF WriteEnd
<1>4. Len(call.bytes) = call.count /\ call.count \in Nat
  BY <1>1, <1>2 DEF PipeInv, WriteSoFar, Counts
<1> DEFINE joined == Content \o call.bytes
<1>5. /\ joined \in Seq(Byte)
      /\ Len(joined) = buffer_offset + call.count
      /\ \A k \in 1..(buffer_offset + call.count) :
            joined[k] = IF k <= buffer_offset THEN Content[k]
                        ELSE call.bytes[k - buffer_offset]
  <2>1. Content \in Seq(Byte) /\ Len(Content) = buffer_offset
    BY ContentType
  <2> HIDE DEF joined
  <2>2. /\ joined \in Seq(Byte)
        /\ Len(joined) = Len(Content) + Len(call.bytes)
        /\ \A k \in 1..(Len(Content) + Len(call.bytes)) :
              joined[k] = IF k <= Len(Content) THEN Content[k]
                          ELSE call.bytes[k - Len(Content)]
    BY <1>2, <2>1, ConcatProperties DEF joined
  <2> QED BY <1>4, <2>1, <2>2
<1>6. /\ Content' \in Seq(Byte)
      /\ Len(Content') = buffer_offset + call.count
      /\ \A k \in 1..(buffer_offset + call.count) :
            Content'[k] = pipe_buff[Slot(call.rp, k - 1)]
  BY <1>3, ContentTypeNext
<1>7. ASSUME NEW k \in 1..(buffer_offset + call.count)
      PROVE  joined[k] = pipe_buff[Slot(call.rp, k - 1)]
  <2>0. buffer_offset \in Nat /\ k \in Nat
    BY <1>4 DEF PipeInv, TypeOK
  <2>1. CASE k <= buffer_offset
    <3>1. k \in 1..buffer_offset
      BY <2>0, <2>1
    <3>2. call.rp = read_pos
      BY <1>1, <3>1 DEF PipeInv, RingConsistent, WriteSoFar, Delimits, Slots
    <3> QED BY <1>5, <2>1, <3>1, <3>2, ContentType
  <2>2. CASE ~(k <= buffer_offset)
    <3>1. k - buffer_offset \in 1..call.i
      BY <1>1, <1>4, <2>0, <2>2
    <3>2. call.bytes[k - buffer_offset]
            = pipe_buff[Slot(call.rp, buffer_offset + (k - buffer_offset) - 1)]
      BY <1>1, <3>1 DEF PipeInv, WriteSoFar
    <3>3. buffer_offset + (k - buffer_offset) - 1 = k - 1
      BY <2>0
    <3> QED BY <1>5, <2>2, <3>2, <3>3
  <2> QED BY <2>1, <2>2
<1> HIDE DEF joined
<1>8. Content' = joined
  BY <1>5, <1>6, <1>7, SeqEqual
<1> QED BY <1>8 DEF joined

\* The end of a read delivers the oldest bytes and keeps the others.
LEMMA ReadEndTakes ==
  ASSUME PipeInv, PipeInv', ReadEnd
  PROVE  /\ call.bytes = SubSeq(Content, 1, call.count)
         /\ Content' = SubSeq(Content, call.count + 1, Len(Content))
<1>1. call.op = "read" /\ call.i = call.count
  BY DEF ReadEnd
<1>2. call \in [op : {"write", "read"}, count : Counts, i : Nat,
               rp : Positions, wp : Positions, bytes : Seq(Byte)]
  BY <1>1, CallFacts DEF PipeInv, Idle
<1>3. /\ buffer_offset' = buffer_offset - call.count
      /\ read_pos' = call.rp
      /\ pipe_buff' = pipe_buff
  BY DEF ReadEnd
<1>4. /\ Len(call.bytes) = call.count
      /\ call.count \in Nat /\ call.count <= buffer_offset /\ buffer_offset \in Nat
  BY <1>1, <1>2 DEF PipeInv, TypeOK, ReadSoFar, Counts
<1> DEFINE taken == SubSeq(Content, 1, call.count)
           kept == SubSeq(Content, call.count + 1, Len(Content))
<1>5. /\ taken \in Seq(Byte)
      /\ Len(taken) = call.count
      /\ \A k \in 1..call.count : taken[k] = Content[k]
  <2>1. \A k \in 1..call.count : Content[k] \in Byte
    BY <1>4, ContentType, ElementOfSeq
  <2> QED BY <1>4, <2>1, SubSeqProperties
<1>6. /\ kept \in Seq(Byte)
      /\ Len(kept) = buffer_offset - call.count
      /\ \A k \in 1..(buffer_offset - call.count) : kept[k] = Content[call.count + k]
  <2>1. Content \in Seq(Byte) /\ Len(Content) = buffer_offset
    BY ContentType
  <2> HIDE DEF kept
  <2>2. /\ kept \in Seq(Byte)
        /\ Len(kept) = Len(Content) - call.count
        /\ \A k \in 1..(Len(Content) - call.count) : kept[k] = Content[call.count + k]
    BY <1>4, <2>1, TailFacts DEF kept
  <2> QED BY <2>1, <2>2
<1>7. /\ Content' \in Seq(Byte)
      /\ Len(Content') = buffer_offset - call.count
      /\ \A k \in 1..(buffer_offset - call.count) :
            Content'[k] = pipe_buff[Slot(call.rp, k - 1)]
  BY <1>3, ContentTypeNext
<1>8. ASSUME NEW k \in 1..call.count
      PROVE  call.bytes[k] = taken[k]
  <2>1. k \in 1..call.i /\ k \in 1..buffer_offset
    BY <1>1, <1>4
  <2>2. call.bytes[k] = pipe_buff[Slot(read_pos, k - 1)]
    BY <1>1, <2>1 DEF PipeInv, ReadSoFar
  <2> QED BY <1>5, <2>1, <2>2, ContentType
<1>9. ASSUME NEW k \in 1..(buffer_offset - call.count)
      PROVE  Content'[k] = kept[k]
  <2>1. /\ call.count + k \in 1..buffer_offset
        /\ k - 1 \in Nat
        /\ call.count + (k - 1) < PIPE_MAX_SIZE
        /\ call.count + (k - 1) = (call.count + k) - 1
    BY <1>4, SizeAssumption DEF PipeInv, TypeOK
  <2>2. read_pos \in Slots /\ call.rp = Slot(read_pos, call.count)
    BY <1>1, <1>4, <2>1 DEF PipeInv, RingConsistent, ReadSoFar, Delimits
  <2>3. Slot(Slot(read_pos, call.count), k - 1) = Slot(read_pos, (call.count + k) - 1)
    BY <1>4, <2>1, <2>2, SlotAdds
  <2>4. Content'[k] = pipe_buff[Slot(call.rp, k - 1)]
    BY <1>7
  <2>5. kept[k] = Content[call.count + k]
    BY <1>6
  <2>6. Content[call.count + k] = pipe_buff[Slot(read_pos, (call.count + k) - 1)]
    <3> DEFINE j == call.count + k
    <3>1. j \in 1..buffer_offset
      BY <2>1
    <3> HIDE DEF j
    <3>2. Content[j] = pipe_buff[Slot(read_pos, j - 1)]
      BY <3>1, ContentType
    <3> QED BY <3>2 DEF j
  <2> QED BY <2>2, <2>3, <2>4, <2>5, <2>6
<1> HIDE DEF taken, kept
<1>10. call.bytes = taken
  BY <1>2, <1>4, <1>5, <1>8, SeqEqual
<1>11. Content' = kept
  BY <1>6, <1>7, <1>9, SeqEqual
<1> QED BY <1>10, <1>11 DEF taken, kept

LEMMA InitQueue == PipeInit => Queue!Init
BY DEF PipeInit, Queue!Init, Content, Bytes

\* A refused call is a refusal of the queue.
LEMMA FailRefuses ==
  ASSUME NEW error \in {EINVAL, EACCES}, Fail(error)
  PROVE  Queue!Next
<1>1. -error \in {-EINVAL, -EACCES}
  OBVIOUS
<1>2. Queue!Refuse(-error)
  BY DEF Fail, Return, ring, Content, Bytes, Queue!Refuse
<1> QED BY <1>1, <1>2 DEF Queue!Next

LEMMA WriteEndWrites ==
  ASSUME PipeInv, PipeInv', WriteEnd
  PROVE  Queue!Next
<1>1. call.op = "write" /\ call.i = call.count
  BY DEF WriteEnd
<1>2. call \in [op : {"write", "read"}, count : Counts, i : Nat,
               rp : Positions, wp : Positions, bytes : Seq(Byte)]
  BY <1>1, CallFacts DEF PipeInv, Idle
<1>3. Len(call.bytes) = call.count /\ call.count \in Nat
  BY <1>1, <1>2 DEF PipeInv, WriteSoFar, Counts
<1>4. buffer_offset + call.count <= PIPE_MAX_SIZE
  BY <1>1, <1>2 DEF PipeInv, TypeOK, RingConsistent, Delimits
<1>5. call.count \in 0..PIPE_MAX_SIZE
  BY <1>3, <1>4, SizeAssumption DEF PipeInv, TypeOK
<1>6. call.bytes \in [1..call.count -> Byte]
  BY <1>2, <1>3, LenProperties
<1>7. Content' = Content \o call.bytes
  BY WriteEndAppends
<1>8. Len(Content) + Len(call.bytes) <= PIPE_MAX_SIZE
  BY <1>3, <1>4, ContentType
<1>9. ret' = Len(call.bytes) /\ moved' = call.bytes
  BY <1>3 DEF WriteEnd, Return
<1>10. Queue!Write(call.bytes)
  BY <1>7, <1>8, <1>9 DEF Queue!Write
<1> QED BY <1>5, <1>6, <1>10 DEF Queue!Next

LEMMA ReadEndReads ==
  ASSUME PipeInv, PipeInv', ReadEnd
  PROVE  Queue!Next
<1>1. call.op = "read" /\ call.i = call.count
  BY DEF ReadEnd
<1>2. call \in [op : {"write", "read"}, count : Counts, i : Nat,
               rp : Positions, wp : Positions, bytes : Seq(Byte)]
  BY <1>1, CallFacts DEF PipeInv, Idle
<1>3. call.count <= Len(Content) /\ call.count \in 0..PIPE_MAX_SIZE
  <2>1. call.count \in Nat /\ call.count <= buffer_offset
    BY <1>1, <1>2 DEF PipeInv, ReadSoFar, Counts
  <2>2. buffer_offset \in 0..PIPE_MAX_SIZE /\ Len(Content) = buffer_offset
    BY ContentType DEF PipeInv, TypeOK
  <2> QED BY <2>1, <2>2, SizeAssumption
<1>4. moved' = call.bytes /\ ret' = call.count
  BY DEF ReadEnd, Return
<1>5. Queue!Read(call.count)
  BY <1>3, <1>4, ReadEndTakes DEF Queue!Read
<1> QED BY <1>3, <1>5 DEF Queue!Next

LEMMA StepRefines ==
  ASSUME PipeInv, PipeInv', [PipeNext]_pipeVars
  PROVE  [Queue!Next]_(Queue!vars)
<1>1. CASE UNCHANGED pipeVars
  BY <1>1 DEF pipeVars, Queue!vars, Content, Bytes
<1>2. ASSUME NEW op, NEW count, Begin(op, count)
      PROVE  UNCHANGED Queue!vars
  BY <1>2 DEF Begin, ring, Queue!vars, Content, Bytes
<1>3. CASE \E mode \in Modes, count \in Counts : PipeWrite(mode, count) \/ PipeRead(mode, count)
  BY <1>2, <1>3, FailRefuses DEF PipeWrite, PipeRead
<1>4. CASE WriteByte
  <2>1. moved' = moved /\ ret' = ret
    BY <1>4 DEF WriteByte
  <2> QED BY <1>4, <2>1, WriteByteHidden DEF Queue!vars
<1>5. CASE ReadByte
  <2>1. CASE Fail(EINVAL)
    BY <2>1, FailRefuses
  <2>2. CASE UNCHANGED <<pipe_buff, ring, moved, ret>>
    BY <2>2 DEF ring, Queue!vars, Content, Bytes
  <2> QED BY <1>5, <2>1, <2>2 DEF ReadByte
<1>6. CASE WriteFull
  BY <1>6, FailRefuses DEF WriteFull
<1> QED BY <1>1, <1>3, <1>4, <1>5, <1>6, WriteEndWrites, ReadEndReads DEF PipeNext

\* pipe_write and pipe_read, byte by byte on a ring, implement a queue whose
\* writes and reads are atomic and all or nothing.
THEOREM RefinesFifo == PipeSpec => ImplementsFifo
<1>1. PipeInv /\ PipeInv' /\ [PipeNext]_pipeVars => [Queue!Next]_(Queue!vars)
  BY StepRefines
<1> QED BY <1>1, InitQueue, PipeInvariance, PTL DEF PipeSpec, ImplementsFifo, Queue!Spec
=============================================================================
