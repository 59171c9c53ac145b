------------------------------- MODULE Files -------------------------------
(***************************************************************************)
(* Open files of gemOS (assignment_3, file.c, fs.c and the two ends of     *)
(* pipe.c): the descriptor tables of the processes, the file objects they  *)
(* share under a reference count, the two ends of a pipe and the inodes of *)
(* the flat file system, under open, dup, dup2, close, pipe, read, write,  *)
(* lseek, the ways to make a process and exit.  What the bytes of a file   *)
(* are, and the ring of a pipe (module Pipe), are left out; the kernel     *)
(* cannot be interrupted, so that every call is a step.                    *)
(***************************************************************************)
EXTENDS Integers, FiniteSets, Functions

CONSTANTS
  NUM_PROCS,       \* processes besides the swapper
  MAX_OPEN_FILES,  \* descriptors of a process: 32 in the code
  NUM_STD,         \* how many of them are standard I/O: 3 in the code
  NUM_FILES,       \* inodes: 32 in the code
  FILE_SIZE,       \* bytes of a file at most: 4096 in the code
  Names,           \* names of regular files
  Accesses,        \* the accesses an open or a mode of a file may give
  MAX_TWICE,       \* bound of the runs: how many descriptors cforks count twice in all
  FileIds,         \* the pages file objects are made in
  PipeIds,         \* the pages pipes are made in
  Offsets,         \* the offsets given to lseek
  None             \* a null pointer

ASSUME FilesAssumption ==
  /\ NUM_PROCS \in Nat \ {0}
  /\ MAX_OPEN_FILES \in Nat /\ NUM_STD \in 1..MAX_OPEN_FILES
  /\ NUM_FILES \in Nat /\ FILE_SIZE \in Nat /\ MAX_TWICE \in Nat
  /\ Accesses \subseteq SUBSET {"O_READ", "O_WRITE"}
  /\ None \notin FileIds \union PipeIds /\ Offsets \subseteq Int

VARIABLES
  procs,   \* what becomes of each process: "unused", "runs" or "stuck"
  files,   \* the descriptor table of each process
  file,    \* the file objects
  pipe,    \* is_ropen and is_wopen of the pipes
  inode,   \* the inodes in use
  twice,   \* ghost: how often cfork counted a descriptor too many
  stopped  \* why the model goes no further, or "no"

vars == <<procs, files, file, pipe, inode, twice, stopped>>

Procs == 1..NUM_PROCS
Fds == 0..(MAX_OPEN_FILES - 1)
StdFds == 0..(NUM_STD - 1)
Inodes == 0..(NUM_FILES - 1)
Access == SUBSET {"O_READ", "O_WRITE"}

\* struct file, the info of a pipe and struct inode; none of them is a null
\* pointer.
FileObjects ==
  [kind : {"std", "regular", "pipe"}, mode : Access, offp : Nat, ref_count : Nat,
   of : Inodes \union PipeIds \union {None}]
PipeObjects == [is_ropen : BOOLEAN, is_wopen : BOOLEAN]
InodeObjects == [name : Names, mode : Access, file_size : 0..FILE_SIZE]

ASSUME ObjectAssumption == None \notin FileObjects \union PipeObjects \union InodeObjects

\* A pointer in the table of a process that is gone or never runs again.  The
\* standard ones are overwritten in any next life of the slot.
Stale == "stale"

Left(table) == [fd \in Fds |-> IF fd \in StdFds \/ table[fd] = None THEN None ELSE Stale]

InUse(f) == f \in FileIds /\ file[f] # None

\* A free descriptor among the given ones, the lowest.
IsFreeFd(p, fd, from) ==
  /\ fd \in from /\ files[p][fd] = None
  /\ \A d \in from : d < fd => files[p][d] # None

FullFrom(p, from) == \A fd \in from : files[p][fd] # None

\* A process that can make a call.
Calls(p) == stopped = "no" /\ procs[p] = "runs"

Keeps(unchanged) == UNCHANGED unchanged /\ UNCHANGED stopped

-----------------------------------------------------------------------------
(* File objects                                                            *)

StdFile(t) ==
  [kind |-> "std", mode |-> IF t = 0 THEN {"O_READ"} ELSE {"O_WRITE"},
   offp |-> 0, ref_count |-> 1, of |-> None]

RegularFile(i, mode) ==
  [kind |-> "regular", mode |-> mode, offp |-> 0, ref_count |-> 1, of |-> i]

PipeEnd(q, mode) ==
  [kind |-> "pipe", mode |-> mode, offp |-> 0, ref_count |-> 1, of |-> q]

NewPipe == [is_ropen |-> TRUE, is_wopen |-> TRUE]

NewInode(name, mode) == [name |-> name, mode |-> mode, file_size |-> 0]

\* alloc_file takes any free page; running out of them is left out.
AllocFile(f, object) ==
  /\ file[f] = None
  /\ file' = [file EXCEPT ![f] = object]

\* n descriptors of f are given up; the object goes with the last one.
Drop(objects, f, n) ==
  [objects EXCEPT ![f] = IF @.ref_count <= n THEN None
                         ELSE [@ EXCEPT !.ref_count = objects[f].ref_count - n]]

Counted(objects, f, n) == [objects EXCEPT ![f].ref_count = @ + n]

Reader(mode) == mode = {"O_READ"}

\* Mutant: a flag is cleared with the first descriptor of an end.
EndClosedAtOnce(f) == TRUE

LastOfItsEnd(f) == file[f].ref_count = 1

\* The pipe of f after pipe_close.
PipeAfter(f) ==
  IF ~LastOfItsEnd(f) THEN pipe[file[f].of]
  ELSE IF Reader(file[f].mode) THEN [pipe[file[f].of] EXCEPT !.is_ropen = FALSE]
  ELSE [pipe[file[f].of] EXCEPT !.is_wopen = FALSE]

\* fops->close, std_close or pipe_close, and the objects after it.  When both
\* ends are closed pipe_close frees the page of the pipe without giving up its
\* count: OS_BUG.
CloseFile(f, objects) ==
  IF file[f].kind # "pipe"
  THEN file' = objects /\ UNCHANGED <<pipe, stopped>>
  ELSE /\ pipe' = [pipe EXCEPT ![file[f].of] = PipeAfter(f)]
       /\ IF PipeAfter(f).is_ropen \/ PipeAfter(f).is_wopen
          THEN file' = objects /\ UNCHANGED stopped
          ELSE stopped' = "OS_BUG" /\ UNCHANGED file

-----------------------------------------------------------------------------
(* Opening and closing                                                     *)

\* open of "stdin", "stdout" or "stderr": a new object if the descriptor is
\* free, else one more descriptor of whatever is open there.  Its scan for a
\* descriptor does not stop at the end of the table.
OpenStd(p, t) ==
  /\ Calls(p)
  /\ \/ /\ files[p][t] = None
        /\ \E f \in FileIds :
             AllocFile(f, StdFile(t)) /\ files' = [files EXCEPT ![p][t] = f]
        /\ Keeps(<<procs, pipe, inode, twice>>)
     \/ /\ files[p][t] # None
        /\ \E fd \in Fds :
             /\ IsFreeFd(p, fd, Fds \ StdFds)
             /\ files' = [files EXCEPT ![p][fd] = files[p][t]]
        /\ file' = Counted(file, files[p][t], 1)
        /\ Keeps(<<procs, pipe, inode, twice>>)
     \/ /\ files[p][t] # None
        /\ FullFrom(p, Fds \ StdFds)
        /\ stopped' = "overrun"
        /\ UNCHANGED <<procs, files, file, pipe, inode, twice>>

IsNamed(i, name) == inode[i] # None /\ inode[i].name = name

IsFreeInode(i) == inode[i] = None /\ \A j \in Inodes : inode[j] = None => i <= j

\* A descriptor and an object for an inode; without a free descriptor the
\* call fails.
OpenInode(p, i, mode) ==
  IF FullFrom(p, Fds \ StdFds) THEN UNCHANGED <<files, file>>
  ELSE \E fd \in Fds, f \in FileIds :
         /\ IsFreeFd(p, fd, Fds \ StdFds)
         /\ AllocFile(f, RegularFile(i, mode))
         /\ files' = [files EXCEPT ![p][fd] = f]

\* With O_CREAT the inode must be new; it stays when no descriptor is free.
\* O_CREAT alone opens with the mode of the new inode.
OpenCreate(p, name, flags, mode) ==
  /\ Calls(p)
  /\ \A i \in Inodes : ~IsNamed(i, name)
  /\ \E i \in Inodes :
       /\ IsFreeInode(i)
       /\ inode' = [inode EXCEPT ![i] = NewInode(name, mode)]
       /\ OpenInode(p, i, IF flags = {} THEN mode ELSE flags)
  /\ Keeps(<<procs, pipe, twice>>)

OpenExisting(p, name, flags) ==
  /\ Calls(p)
  /\ \E i \in Inodes :
       /\ IsNamed(i, name)
       /\ flags \subseteq inode[i].mode
       /\ OpenInode(p, i, flags)
  /\ Keeps(<<procs, pipe, inode, twice>>)

\* do_file_open.
Open(p) ==
  \/ \E t \in StdFds : OpenStd(p, t)
  \/ \E name \in Names, flags \in Accesses \union {{}}, mode \in Accesses :
       OpenCreate(p, name, flags, mode)
  \/ \E name \in Names, flags \in Accesses : OpenExisting(p, name, flags)

Dup(p, oldfd) ==
  /\ Calls(p)
  /\ files[p][oldfd] # None
  /\ \E fd \in Fds :
       /\ IsFreeFd(p, fd, Fds \ StdFds)
       /\ files' = [files EXCEPT ![p][fd] = files[p][oldfd]]
  /\ file' = Counted(file, files[p][oldfd], 1)
  /\ Keeps(<<procs, pipe, inode, twice>>)

\* Mutant: the object of newfd is not closed.
DupOver(f, g) == file' = Counted(file, f, 1) /\ UNCHANGED <<pipe, stopped>>

\* The objects when a descriptor of f takes the place of one of g.
DupOnto(f, g) ==
  IF g = None THEN file' = Counted(file, f, 1) /\ UNCHANGED <<pipe, stopped>>
  ELSE CloseFile(g, Counted(Drop(file, g, 1), f, 1))

Dup2(p, oldfd, newfd) ==
  /\ Calls(p)
  /\ files[p][oldfd] # None /\ oldfd # newfd
  /\ DupOnto(files[p][oldfd], files[p][newfd])
  /\ files' = [files EXCEPT ![p][newfd] = files[p][oldfd]]
  /\ UNCHANGED <<procs, inode, twice>>

Close(p, fd) ==
  /\ Calls(p)
  /\ files[p][fd] # None
  /\ files' = [files EXCEPT ![p][fd] = None]
  /\ CloseFile(files[p][fd], Drop(file, files[p][fd], 1))
  /\ UNCHANGED <<procs, inode, twice>>

\* Two descriptors, looked for from 0 on.
CreatePipe(p) ==
  /\ Calls(p)
  /\ \E rfd, wfd \in Fds, f, g \in FileIds, q \in PipeIds :
       /\ IsFreeFd(p, rfd, Fds) /\ IsFreeFd(p, wfd, Fds \ {rfd})
       /\ pipe[q] = None /\ file[f] = None /\ file[g] = None /\ f # g
       /\ files' = [files EXCEPT ![p][rfd] = f, ![p][wfd] = g]
       /\ file' = [file EXCEPT ![f] = PipeEnd(q, {"O_READ"}), ![g] = PipeEnd(q, {"O_WRITE"})]
       /\ pipe' = [pipe EXCEPT ![q] = NewPipe]
  /\ Keeps(<<procs, inode, twice>>)

-----------------------------------------------------------------------------
(* Reading and writing regular files                                       *)

RegularFd(p, fd) == Calls(p) /\ files[p][fd] # None /\ file[files[p][fd]].kind = "regular"

\* What do_file_read and do_file_write want of a descriptor.
ReadFd(p, fd) == RegularFd(p, fd) /\ "O_READ" \in file[files[p][fd]].mode
WriteFd(p, fd) == RegularFd(p, fd) /\ "O_WRITE" \in file[files[p][fd]].mode

MoveTo(f, offp) == file' = [file EXCEPT ![f].offp = offp]

\* do_read_regular and do_write_regular move the offset of the object by what
\* was read or written.
Advance(f, size) == MoveTo(f, file[f].offp + size)

Read(p, fd, count) ==
  /\ ReadFd(p, fd)
  /\ LET f == files[p][fd]
         left == inode[file[f].of].file_size - file[f].offp
     IN  /\ left > 0
         /\ Advance(f, IF count > left THEN left ELSE count)
  /\ Keeps(<<procs, files, pipe, inode, twice>>)

\* A write that does not fit into the file as a whole is refused.
Fits(offp, count) == offp + count <= FILE_SIZE

Write(p, fd, count) ==
  /\ WriteFd(p, fd)
  /\ LET f == files[p][fd]
         end == file[f].offp + count
     IN  /\ Fits(file[f].offp, count)
         /\ inode' = [inode EXCEPT ![file[f].of].file_size = IF end > @ THEN end ELSE @]
         /\ Advance(f, count)
  /\ Keeps(<<procs, files, pipe, twice>>)

\* Mutant: only the largest size bounds the offset.
AnyOffset(rpos, i) == rpos >= 0 /\ rpos <= FILE_SIZE

OffsetAllowed(rpos, i) == rpos >= 0 /\ rpos <= inode[i].file_size

\* SEEK_END is counted from the offset too, as SEEK_CUR.
Lseek(p, fd, offset, whence) ==
  /\ RegularFd(p, fd)
  /\ LET f == files[p][fd]
         rpos == IF whence = "SEEK_SET" THEN offset ELSE offset + file[f].offp
     IN  OffsetAllowed(rpos, file[f].of) /\ MoveTo(f, rpos)
  /\ Keeps(<<procs, files, pipe, inode, twice>>)

-----------------------------------------------------------------------------
(* Processes                                                               *)

IsNewCtx(p) == procs[p] = "unused" /\ \A q \in Procs : q < p => procs[q] # "unused"

\* How many descriptors of p name f.
Holds(p, f) == Cardinality({fd \in Fds : files[p][fd] = f})

\* Mutant: the child's descriptors are not counted.
CountedForNobody(p, n) == file

\* do_file_fork for a child with p's table, n times.
CountedFor(p, n) ==
  [f \in FileIds |-> IF file[f] = None THEN None
                     ELSE [file[f] EXCEPT !.ref_count = @ + n * Holds(p, f)]]

CopyTable(p, child) == files' = [files EXCEPT ![child] = files[p]]

Fork(p) ==
  /\ Calls(p)
  /\ \E child \in Procs :
       /\ IsNewCtx(child)
       /\ CopyTable(p, child)
       /\ procs' = [procs EXCEPT ![child] = "runs"]
  /\ file' = CountedFor(p, 1)
  /\ Keeps(<<pipe, inode, twice>>)

\* cfork calls do_file_fork twice.
Cfork(p) ==
  /\ Calls(p)
  /\ \E child \in Procs :
       /\ IsNewCtx(child)
       /\ CopyTable(p, child)
       /\ procs' = [procs EXCEPT ![child] = "runs"]
  /\ file' = CountedFor(p, 2)
  /\ twice' = [f \in FileIds |-> twice[f] + Holds(p, f)]
  /\ FoldFunction(+, 0, twice') <= MAX_TWICE
  /\ Keeps(<<pipe, inode>>)

\* The child takes the table over, uncounted; the parent waits and nobody
\* wakes it (module Sched).
Vfork(p) ==
  /\ Calls(p)
  /\ \E child \in Procs :
       /\ IsNewCtx(child)
       /\ files' = [files EXCEPT ![child] = files[p], ![p] = Left(files[p])]
       /\ procs' = [procs EXCEPT ![child] = "runs", ![p] = "stuck"]
  /\ Keeps(<<file, pipe, inode, twice>>)

\* A thread has an uncounted copy of the table, and is never started.
Clone(p) ==
  /\ Calls(p)
  /\ \E child \in Procs :
       /\ IsNewCtx(child)
       /\ files' = [files EXCEPT ![child] = Left(files[p])]
       /\ procs' = [procs EXCEPT ![child] = "stuck"]
  /\ Keeps(<<file, pipe, inode, twice>>)

\* do_file_exit drops the descriptors without fops->close, and leaves the
\* pointers in the table.
Exit(p) ==
  /\ Calls(p)
  /\ procs' = [procs EXCEPT ![p] = "unused"]
  /\ files' = [files EXCEPT ![p] = Left(files[p])]
  /\ file' = [f \in FileIds |-> IF file[f] = None \/ Holds(p, f) = 0 THEN file[f]
                                ELSE Drop(file, f, Holds(p, f))[f]]
  /\ Keeps(<<pipe, inode, twice>>)

\* The shell's init, when no process is left: new standard I/O, the other
\* descriptors as the last process of the slot left them.
Launch ==
  /\ stopped = "no"
  /\ \A p \in Procs : procs[p] = "unused"
  /\ \E std \in [StdFds -> FileIds] :
       /\ \A t \in StdFds : file[std[t]] = None
       /\ \A t, u \in StdFds : std[t] = std[u] => t = u
       /\ file' = [f \in FileIds |-> IF \E t \in StdFds : std[t] = f
                                     THEN StdFile(CHOOSE t \in StdFds : std[t] = f)
                                     ELSE file[f]]
       /\ files' = [files EXCEPT ![1] =
                      [fd \in Fds |-> IF fd \in StdFds THEN std[fd] ELSE files[1][fd]]]
  /\ procs' = [procs EXCEPT ![1] = "runs"]
  /\ stopped' = IF \E fd \in Fds \ StdFds : files[1][fd] # None THEN "inherited" ELSE "no"
  /\ UNCHANGED <<pipe, inode, twice>>

Init ==
  /\ procs = [p \in Procs |-> "unused"]
  /\ files = [p \in Procs |-> [fd \in Fds |-> None]]
  /\ file = [f \in FileIds |-> None]
  /\ pipe = [q \in PipeIds |-> None]
  /\ inode = [i \in Inodes |-> None]
  /\ twice = [f \in FileIds |-> 0]
  /\ stopped = "no"

\* The calls of do_syscall that are about files.
FileCall(p) ==
  \/ Open(p)
  \/ \E fd \in Fds, count \in 1..FILE_SIZE : Read(p, fd, count)
  \/ \E fd \in Fds, count \in 1..FILE_SIZE : Write(p, fd, count)
  \/ CreatePipe(p)
  \/ \E fd \in Fds : Dup(p, fd)
  \/ \E oldfd, newfd \in Fds : Dup2(p, oldfd, newfd)
  \/ \E fd \in Fds : Close(p, fd)
  \/ \E fd \in Fds, offset \in Offsets, whence \in {"SEEK_SET", "SEEK_CUR"} :
       Lseek(p, fd, offset, whence)

Next ==
  \/ \E p \in Procs :
       FileCall(p) \/ Fork(p) \/ Cfork(p) \/ Vfork(p) \/ Clone(p) \/ Exit(p)
  \/ Launch

Spec == Init /\ [][Next]_vars

-----------------------------------------------------------------------------
(* Properties                                                              *)

Going == stopped = "no"

Running == {p \in Procs : procs[p] = "runs"}

Holders(f) == {d \in Running \X Fds : files[d[1]][d[2]] = f}

\* No process that can run has a descriptor of a file object that is gone,
\* whoever dups, closes, forks, vforks, clones and exits: do_file_exit and
\* std_close never free an object somebody else still names.
NoDangling ==
  Going => \A p \in Running, fd \in Fds : files[p][fd] # None => InUse(files[p][fd])

\* The count of a file object is the number of descriptors of processes that
\* can run, and one more for each that a cfork counted twice (v2p.c:537): the
\* uncounted copies of vfork and clone stay without effect only because the
\* parent of a vfork and a thread never run again.
RefsAccounted ==
  Going => \A f \in FileIds :
    file[f] # None => file[f].ref_count = Cardinality(Holders(f)) + twice[f]

\* A pipe whose flag says that an end is closed has no descriptor of that end
\* left: pipe_close goes by the count of the end's object.
PipeEndsTold ==
  Going => \A f \in FileIds :
    file[f] # None /\ file[f].kind = "pipe" =>
      IF Reader(file[f].mode) THEN pipe[file[f].of].is_ropen ELSE pipe[file[f].of].is_wopen

\* An offset never lies behind the end of its file, also when several
\* descriptors and processes move it, so that a write leaves no hole.
OffsetWithinFile ==
  \A f \in FileIds :
    file[f] # None /\ file[f].kind = "regular" =>
      /\ file[f].offp <= inode[file[f].of].file_size
      /\ inode[file[f].of].file_size <= FILE_SIZE

\* No check of the kernel fails (reset_pfn_info: "Error in PFN refcounting").
NoOSBug == stopped # "OS_BUG"
=============================================================================
