------------------------------- MODULE Malloc -------------------------------
(***************************************************************************)
(* The allocator of assignment_1 (Part3/mylib.c): memalloc and memfree on  *)
(* a heap that sbrk extends, word by word of 8 bytes.  A chunk begins with *)
(* its size; a free one goes on with the addresses of the next and of the  *)
(* previous free chunk, that of the first free one being &head.            *)
(*                                                                         *)
(* Three ways through memalloc lose the rest of a chunk that they split:   *)
(* the model goes on and counts it as lost.  Two more leave no state to go *)
(* on from, and the model stops there (stopped): a split of the first of   *)
(* several free chunks returns nothing, and the first of several, when it  *)
(* is taken whole, stays the previous one of the next.                     *)
(***************************************************************************)
EXTENDS Integers, FiniteSets

CONSTANTS
  CHUNK,  \* words of CHUNK_SIZE: 4 MB in the code
  HEAP,   \* words sbrk can give (a bound of the model)
  Sizes   \* bytes asked for

ASSUME MallocAssumption ==
  /\ CHUNK \in Nat /\ CHUNK > 3 /\ HEAP \in Nat
  /\ Sizes \subseteq Nat \ {0}

NULL == 0
HeadAt == -1  \* &head
Data == -2    \* what the program keeps in a block

VARIABLES
  mem,     \* the words of the heap, from address 1
  brk,     \* the first address behind the heap
  head,    \* the first free chunk
  live,    \* ghost: the blocks the program has, with their first word and size
  lost,    \* ghost: the same of the rests that are in no list
  stopped  \* "no", or why the model does not go on

vars == <<mem, brk, head, live, lost, stopped>>

Piece(a, n) == [at |-> a, size |-> n]
WordsOf(p) == p.at..(p.at + p.size - 1)

Next(m, a) == m[a + 1]
Prev(m, a) == m[a + 2]

\* The k-th free chunk, or NULL; a chunk has three words at least.
MaxFree == HEAP \div 3
At == LET f[k \in 0..MaxFree] ==
            IF k = 0 THEN head
            ELSE LET before == f[k - 1]
                 IN  IF before = NULL THEN NULL ELSE Next(mem, before)
      IN  f

InList == {At[k] : k \in 0..MaxFree} \ {NULL}

-----------------------------------------------------------------------------
(* memalloc                                                                *)

\* The words of the chunk that size bytes need.
Total(size) == LET words == (size + 7) \div 8 IN IF words = 1 THEN 3 ELSE words + 1

\* Mutant: a rest without room for both pointers is made a chunk.
SplitsPair(rest) == rest >= 2

Splits(rest) == rest >= 3

\* The first chunk that is large enough, or NULL.
FirstFit(total) ==
  LET fits == {k \in 0..MaxFree : At[k] # NULL /\ mem[At[k]] >= total}
  IN  IF fits = {} THEN NULL
      ELSE At[CHOOSE k \in fits : \A j \in fits : k <= j]

\* A chunk of n words at a is free, between chunks that do not know of it.
Chunk(m, a, n, next, prev) == [m EXCEPT ![a] = n, ![a + 1] = next, ![a + 2] = prev]

\* The program gets n words at a and fills all but the first.
Given(m, a, n) ==
  [i \in 1..HEAP |-> IF i = a THEN n ELSE IF i \in (a + 1)..(a + n - 1) THEN Data ELSE m[i]]

Gets(a, n) == live' = live \union {Piece(a, n)}
Loses(a, n) == lost' = lost \union {Piece(a, n)}

\* Mutant: the chunk behind is not told.
UnlinkedForward(m, a) == IF Prev(m, a) = HeadAt THEN m ELSE [m EXCEPT ![Prev(m, a) + 1] = Next(m, a)]

\* The list without a, which is not its first chunk.
Unlinked(m, a) ==
  LET without == [m EXCEPT ![Prev(m, a) + 1] = Next(m, a)]
  IN  IF Next(m, a) = NULL THEN without
      ELSE [without EXCEPT ![Next(m, a) + 2] = Prev(m, a)]

\* The only free chunk is split, and the rest of it is the list.
SplitOnly(a, total) ==
  LET p == a + total
      rest == mem[a] - total
  IN  /\ Splits(rest) /\ Next(mem, a) = NULL /\ Prev(mem, a) = HeadAt
      /\ mem' = Given(Chunk(mem, p, rest, NULL, HeadAt), a, total)
      /\ head' = p /\ Gets(a, total) /\ UNCHANGED <<lost, stopped>>

\* A chunk that is not the first is split; the rest points to the list and
\* nothing in the list points to it.
SplitOther(a, total) ==
  LET p == a + total
      rest == mem[a] - total
  IN  /\ Splits(rest) /\ Prev(mem, a) # HeadAt
      /\ mem' = Given(Chunk(Unlinked(mem, a), p, rest, head, Prev(mem, head)), a, total)
      /\ Gets(a, total) /\ Loses(p, rest) /\ UNCHANGED <<head, stopped>>

\* The first of several is split: memalloc ends without a return.
SplitFirst(a, total) ==
  /\ Splits(mem[a] - total) /\ Next(mem, a) # NULL /\ Prev(mem, a) = HeadAt
  /\ stopped' = "nothing returned" /\ UNCHANGED <<mem, head, live, lost>>

\* A chunk whose rest is too small is taken whole: the only one, one that is
\* not the first, or the first of several.
WholeOnly(a, total) ==
  /\ ~Splits(mem[a] - total) /\ Next(mem, a) = NULL /\ Prev(mem, a) = HeadAt
  /\ mem' = Given(mem, a, mem[a]) /\ head' = NULL
  /\ Gets(a, mem[a]) /\ UNCHANGED <<lost, stopped>>

WholeOther(a, total) ==
  /\ ~Splits(mem[a] - total) /\ Prev(mem, a) # HeadAt
  /\ mem' = Given(Unlinked(mem, a), a, mem[a])
  /\ Gets(a, mem[a]) /\ UNCHANGED <<head, lost, stopped>>

WholeFirst(a, total) ==
  /\ ~Splits(mem[a] - total) /\ Next(mem, a) # NULL /\ Prev(mem, a) = HeadAt
  /\ stopped' = "first without &head"
  /\ UNCHANGED <<mem, head, live, lost>>

FromList(total) ==
  LET a == FirstFit(total)
  IN  /\ a # NULL /\ UNCHANGED brk
      /\ \/ SplitOnly(a, total) \/ SplitOther(a, total) \/ SplitFirst(a, total)
         \/ WholeOnly(a, total) \/ WholeOther(a, total) \/ WholeFirst(a, total)

\* sbrk gives the least multiple of CHUNK_SIZE that is enough.
ChunkFor(total) == CHUNK * ((total + CHUNK - 1) \div CHUNK)

Extends(total) ==
  /\ brk + ChunkFor(total) <= HEAP + 1
  /\ brk' = brk + ChunkFor(total)

\* With free chunks that are all too small, the rest of a new chunk is lost.
FurtherChunk(total) ==
  LET rest == ChunkFor(total) - total
  IN  /\ head # NULL /\ FirstFit(total) = NULL /\ Extends(total)
      /\ IF Splits(rest)
         THEN /\ mem' = Given(Chunk(mem, brk + total, rest, head, Prev(mem, head)), brk, total)
              /\ Gets(brk, total) /\ Loses(brk + total, rest)
         ELSE /\ mem' = Given(mem, brk, ChunkFor(total))
              /\ Gets(brk, ChunkFor(total)) /\ UNCHANGED lost
      /\ UNCHANGED <<head, stopped>>

\* With no free chunk at all, the rest of a new one is the list, from 32 bytes.
FirstChunk(total) ==
  LET rest == ChunkFor(total) - total
  IN  /\ head = NULL /\ Extends(total)
      /\ IF rest >= 4
         THEN /\ mem' = Given(Chunk(mem, brk + total, rest, NULL, HeadAt), brk, total)
              /\ Gets(brk, total) /\ head' = brk + total
         ELSE /\ mem' = Given(mem, brk, ChunkFor(total))
              /\ Gets(brk, ChunkFor(total)) /\ UNCHANGED head
      /\ UNCHANGED <<lost, stopped>>

memalloc(size) ==
  /\ stopped = "no"
  /\ FromList(Total(size)) \/ FurtherChunk(Total(size)) \/ FirstChunk(Total(size))

-----------------------------------------------------------------------------
(* memfree                                                                 *)

\* The chunk in front of a is put before the others.
ToFront(m, a) == [m EXCEPT ![a + 1] = head, ![a + 2] = HeadAt, ![head + 2] = a]

Left(a) == {t \in InList : t + mem[t] = a}

\* Mutant: a free chunk behind the block is not looked for.
NeverRight(a) == {}

Right(a) == {t \in InList : t = a + mem[a]}

\* Mutant: the chunk becomes the first and does not grow.
GrownByNone(m, t, n) == IF Prev(m, t) = HeadAt THEN m ELSE ToFront(Unlinked(m, t), t)

\* The free chunk t grows by n words, and becomes the first.
Grown(m, t, n) ==
  LET grown == [m EXCEPT ![t] = @ + n]
  IN  IF Prev(m, t) = HeadAt THEN grown ELSE ToFront(Unlinked(grown, t), t)

FreeAlone(a) ==
  /\ Left(a) = {} /\ Right(a) = {}
  /\ mem' = IF head = NULL THEN Chunk(mem, a, mem[a], NULL, HeadAt) ELSE ToFront(mem, a)
  /\ head' = a

FreeIntoLeft(a) ==
  /\ Right(a) = {}
  /\ \E t \in Left(a) : mem' = Grown(mem, t, mem[a]) /\ head' = t

\* The block takes the place of a first chunk behind it, or comes before the
\* others while the chunk behind it goes.
FreeBeforeRight(a) ==
  /\ Left(a) = {}
  /\ \E t \in Right(a) :
       LET grown == [mem EXCEPT ![a] = @ + mem[t]]
           next == Next(mem, t)
           replaced == Chunk(grown, a, grown[a], next, HeadAt)
       IN  mem' = IF Prev(mem, t) # HeadAt THEN ToFront(Unlinked(grown, t), a)
                  ELSE IF next = NULL THEN replaced
                  ELSE [replaced EXCEPT ![next + 2] = a]
  /\ head' = a

FreeBetween(a) ==
  \E l \in Left(a), r \in Right(a) :
    /\ mem' = Unlinked(Grown(Grown(mem, l, mem[a]), l, mem[r]), r)
    /\ head' = l

memfree(block) ==
  /\ stopped = "no" /\ block \in live
  /\ \/ FreeAlone(block.at) \/ FreeIntoLeft(block.at)
     \/ FreeBeforeRight(block.at) \/ FreeBetween(block.at)
  /\ live' = live \ {block} /\ UNCHANGED <<brk, lost, stopped>>

-----------------------------------------------------------------------------
Init ==
  /\ mem = [a \in 1..HEAP |-> 0] /\ brk = 1 /\ head = NULL
  /\ live = {} /\ lost = {} /\ stopped = "no"

Step == (\E size \in Sizes : memalloc(size)) \/ (\E block \in live : memfree(block))

Spec == Init /\ [][Step]_vars

-----------------------------------------------------------------------------
(* Properties                                                              *)

Listed == {Piece(a, mem[a]) : a \in InList}

\* The blocks, the chunks of the free list and the rests lost by memalloc are
\* disjoint and are all of the heap: nothing is handed out twice, freed twice
\* or lost elsewhere; and the program finds the size of a block before it.
Partition ==
  LET pieces == live \union lost \union Listed
  IN  /\ UNION {WordsOf(p) : p \in pieces} = 1..(brk - 1)
      /\ \A p, q \in pieces : p = q \/ WordsOf(p) \intersect WordsOf(q) = {}
      /\ \A b \in live : mem[b.at] = b.size

\* The free list ends, is the same backwards as forwards, and its first chunk
\* points to head.
ListSound ==
  /\ At[MaxFree] = NULL
  /\ head # NULL => Prev(mem, head) = HeadAt
  /\ \A a \in InList : Next(mem, a) # NULL => Prev(mem, Next(mem, a)) = a

\* No two chunks of the free list are neighbours: memfree merges what it can.
Coalesced == \A a, b \in InList : b # a + mem[a]

\* No call changes a word of a block that the program has before and after it.
BlocksKept ==
  [][\A b \in live \intersect live' : \A a \in WordsOf(b) : mem'[a] = mem[a]]_vars
=============================================================================
