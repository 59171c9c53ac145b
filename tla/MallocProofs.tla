---------------------------- MODULE MallocProofs ----------------------------
(***************************************************************************)
(* The heap of memalloc and memfree is partitioned, its free list sound    *)
(* and merged, and blocks are kept, for any CHUNK_SIZE, heap and sizes.    *)
(*                                                                         *)
(* The invariant names the set F of addresses where free chunks begin.     *)
(* Blocks, lost rests and the chunks of F tile the heap (Tiles); the links *)
(* in the words of F make one list of them, along which a rank goes down   *)
(* (Linked); no two of F are neighbours (Merged).  An operation moves      *)
(* pieces between the three kinds, cuts one or joins two, and relinks F:   *)
(* each of these has a lemma, and every action is put together from them.  *)
(* That a walk along the links meets F, all of it, and ends within the     *)
(* bound of At, follows from the rank and from the room a chunk takes.     *)
(***************************************************************************)
EXTENDS Malloc, FiniteSetTheorems, WellFoundedInduction, TLAPS

-----------------------------------------------------------------------------
(* Induction                                                               *)

\* A well-founded relation that goes down with the numbers.
LEMMA Less ==
  \E R : IsWellFoundedOn(R, Nat) /\ \A i, j \in Nat : i < j => <<i, j>> \in R
<1>1. \A i, j \in Nat : i < j => <<i, j>> \in OpToRel(<, Nat)
  BY DEF OpToRel
<1> QED BY <1>1, NatLessThanWellFounded

\* A set of numbers has a least one.
LEMMA Least ==
  ASSUME NEW T \in SUBSET Nat, T # {}
  PROVE  \E n \in T : \A m \in T : n <= m
<1>1. PICK R : IsWellFoundedOn(R, Nat) /\ \A i, j \in Nat : i < j => <<i, j>> \in R
  BY Less
<1>2. IsWellFoundedOn(R, Nat)
  BY <1>1
<1>3. T \subseteq Nat
  OBVIOUS
<1>4. \E x \in T : \A y \in T : ~ (<<y, x>> \in R)
  BY <1>2, <1>3, WFMin, Zenon
<1>5. PICK x \in T : \A y \in T : ~ (<<y, x>> \in R)
  BY <1>4
<1>6. ASSUME NEW y \in T PROVE x <= y
  <2>1. <<y, x>> \notin R /\ x \in Nat /\ y \in Nat
    BY <1>5
  <2>2. ~ (y < x)
    BY <2>1, <1>1
  <2> QED BY <2>1, <2>2
<1> QED BY <1>6

\* Induction, over a set: the library's theorems take an operator, which the
\* provers cannot instantiate.
LEMMA SetInduction ==
  ASSUME NEW S, 0 \in S, \A n \in Nat : n \in S => n + 1 \in S
  PROVE  Nat \subseteq S
<1> SUFFICES ASSUME Nat \ S # {} PROVE FALSE
  OBVIOUS
<1>1. PICK n \in Nat \ S : \A m \in Nat \ S : n <= m
  BY Least
<1> QED BY <1>1

-----------------------------------------------------------------------------
(* Pieces                                                                  *)

Pieces == [at : Nat, size : Nat]

LEMMA PieceFacts ==
  ASSUME NEW a, NEW n
  PROVE  /\ Piece(a, n).at = a /\ Piece(a, n).size = n
         /\ a \in Nat /\ n \in Nat => Piece(a, n) \in Pieces
         /\ \A b, k : Piece(a, n) = Piece(b, k) <=> a = b /\ n = k
         /\ \A p \in Pieces : p = Piece(a, n) <=> p.at = a /\ p.size = n
BY DEF Piece, Pieces

\* p ends before q begins.
Before(p, q) == p.at + p.size <= q.at

\* The pieces of T are all of the heap up to b, and none overlaps another.
Tiling(T, b) ==
  /\ T \subseteq Pieces
  /\ \A p \in T : 1 <= p.at /\ 3 <= p.size /\ p.at + p.size <= b
  /\ \A p, q \in T : p = q \/ Before(p, q) \/ Before(q, p)
  /\ \A w \in 1..(b - 1) : \E p \in T : p.at <= w /\ w < p.at + p.size

\* They are of three kinds: live, lost and, in C, free.
Tiles(L, X, C, b) ==
  /\ Tiling(L \union X \union C, b)
  /\ L \intersect X = {} /\ L \intersect C = {} /\ X \intersect C = {}

\* One piece is cut in two.
LEMMA SplitTiling ==
  ASSUME NEW T, NEW b \in Nat, Tiling(T, b), NEW a \in Nat, NEW n \in Nat, NEW k \in Nat,
         n >= 3, k >= 3, Piece(a, n + k) \in T,
         NEW U, U = (T \ {Piece(a, n + k)}) \union {Piece(a, n), Piece(a + n, k)}
  PROVE  Tiling(U, b) /\ Piece(a, n) \notin T /\ Piece(a + n, k) \notin T
<1> DEFINE c == Piece(a, n + k)
           p1 == Piece(a, n)
           p2 == Piece(a + n, k)
<1>1. /\ c \in Pieces /\ c.at = a /\ c.size = n + k /\ c \in T
      /\ p1 \in Pieces /\ p1.at = a /\ p1.size = n
      /\ p2 \in Pieces /\ p2.at = a + n /\ p2.size = k
  BY PieceFacts
<1>2. U = (T \ {c}) \union {p1, p2}
  OBVIOUS
<1> HIDE DEF c, p1, p2
<1>3. 1 <= a /\ a + (n + k) <= b
  BY <1>1 DEF Tiling
<1>4. ASSUME NEW q \in T, q # c
      PROVE  /\ q \in Pieces /\ q.at \in Nat /\ q.size \in Nat /\ 3 <= q.size
             /\ q.at + q.size <= a \/ a + (n + k) <= q.at
  <2>1. q \in Pieces /\ 3 <= q.size /\ (Before(q, c) \/ Before(c, q))
    BY <1>1, <1>4 DEF Tiling
  <2>2. q.at \in Nat /\ q.size \in Nat
    BY <2>1 DEF Pieces
  <2> QED BY <1>1, <2>1, <2>2 DEF Before
<1>5. p1 \notin T /\ p2 \notin T
  <2>1. p1 # c /\ p2 # c
    BY <1>1
  <2> QED BY <1>1, <1>4, <2>1
<1>6. ASSUME NEW p \in U
      PROVE  p \in Pieces /\ 1 <= p.at /\ 3 <= p.size /\ p.at + p.size <= b
  <2>1. CASE p \in T
    BY <2>1 DEF Tiling
  <2>2. CASE p = p1 \/ p = p2
    BY <1>1, <1>3, <2>2
  <2> QED BY <1>2, <2>1, <2>2
<1>7. ASSUME NEW p \in U, NEW q \in U PROVE p = q \/ Before(p, q) \/ Before(q, p)
  <2>1. CASE p \in T /\ q \in T
    BY <2>1 DEF Tiling
  <2>2. CASE p \in T /\ p # c /\ (q = p1 \/ q = p2)
    <3>1. p.at \in Nat /\ p.size \in Nat /\ (p.at + p.size <= a \/ a + (n + k) <= p.at)
      BY <1>4, <2>2
    <3> QED BY <1>1, <2>2, <3>1 DEF Before
  <2>3. CASE q \in T /\ q # c /\ (p = p1 \/ p = p2)
    <3>1. q.at \in Nat /\ q.size \in Nat /\ (q.at + q.size <= a \/ a + (n + k) <= q.at)
      BY <1>4, <2>3
    <3> QED BY <1>1, <2>3, <3>1 DEF Before
  <2>4. CASE (p = p1 \/ p = p2) /\ (q = p1 \/ q = p2)
    BY <1>1, <2>4 DEF Before
  <2> QED BY <1>2, <2>1, <2>2, <2>3, <2>4
<1>8. ASSUME NEW w \in 1..(b - 1) PROVE \E p \in U : p.at <= w /\ w < p.at + p.size
  <2>1. PICK p \in T : p.at <= w /\ w < p.at + p.size
    BY DEF Tiling
  <2>2. CASE p # c
    BY <1>2, <2>1, <2>2
  <2>3. CASE p = c /\ w < a + n
    <3>1. p1.at <= w /\ w < p1.at + p1.size
      BY <1>1, <2>1, <2>3
    <3> QED BY <1>2, <3>1
  <2>4. CASE p = c /\ ~(w < a + n)
    <3>1. p2.at <= w /\ w < p2.at + p2.size
      BY <1>1, <2>1, <2>4
    <3> QED BY <1>2, <3>1
  <2> QED BY <2>2, <2>3, <2>4
<1>9. Tiling(U, b)
  BY <1>6, <1>7, <1>8 DEF Tiling
<1> QED BY <1>5, <1>9 DEF p1, p2

\* Two pieces become one.
LEMMA JoinTiling ==
  ASSUME NEW T, NEW b \in Nat, Tiling(T, b), NEW a \in Nat, NEW n \in Nat, NEW k \in Nat,
         Piece(a, n) \in T, Piece(a + n, k) \in T,
         NEW U, U = (T \ {Piece(a, n), Piece(a + n, k)}) \union {Piece(a, n + k)}
  PROVE  Tiling(U, b) /\ Piece(a, n + k) \notin T /\ Piece(a, n) # Piece(a + n, k)
<1> DEFINE c == Piece(a, n + k)
           p1 == Piece(a, n)
           p2 == Piece(a + n, k)
<1>1. /\ c \in Pieces /\ c.at = a /\ c.size = n + k
      /\ p1 \in Pieces /\ p1.at = a /\ p1.size = n /\ p1 \in T
      /\ p2 \in Pieces /\ p2.at = a + n /\ p2.size = k /\ p2 \in T
  BY PieceFacts
<1>2. U = (T \ {p1, p2}) \union {c}
  OBVIOUS
<1> HIDE DEF c, p1, p2
<1>3. 1 <= a /\ n >= 3 /\ k >= 3 /\ a + (n + k) <= b
  BY <1>1 DEF Tiling
<1>4. ASSUME NEW q \in T, q # p1, q # p2
      PROVE  /\ q.at \in Nat /\ q.size \in Nat /\ 3 <= q.size
             /\ q.at + q.size <= a \/ a + (n + k) <= q.at
  <2>1. q \in Pieces /\ 3 <= q.size /\ (Before(q, p1) \/ Before(p1, q))
        /\ (Before(q, p2) \/ Before(p2, q))
    BY <1>1, <1>4 DEF Tiling
  <2>2. q.at \in Nat /\ q.size \in Nat
    BY <2>1 DEF Pieces
  <2> QED BY <1>1, <2>1, <2>2 DEF Before
<1>5. c \notin T /\ p1 # p2
  <2>1. c # p1 /\ c # p2 /\ p1 # p2
    BY <1>1, <1>3
  <2> QED BY <1>1, <1>3, <1>4, <2>1
<1>6. ASSUME NEW p \in U
      PROVE  p \in Pieces /\ 1 <= p.at /\ 3 <= p.size /\ p.at + p.size <= b
  <2>1. CASE p \in T
    BY <2>1 DEF Tiling
  <2>2. CASE p = c
    BY <1>1, <1>3, <2>2
  <2> QED BY <1>2, <2>1, <2>2
<1>7. ASSUME NEW p \in U, NEW q \in U PROVE p = q \/ Before(p, q) \/ Before(q, p)
  <2>1. CASE p \in T /\ q \in T
    BY <2>1 DEF Tiling
  <2>2. CASE p # c /\ q = c
    <3>1. p.at \in Nat /\ p.size \in Nat /\ (p.at + p.size <= a \/ a + (n + k) <= p.at)
      BY <1>2, <1>4, <2>2
    <3> QED BY <1>1, <2>2, <3>1 DEF Before
  <2>3. CASE q # c /\ p = c
    <3>1. q.at \in Nat /\ q.size \in Nat /\ (q.at + q.size <= a \/ a + (n + k) <= q.at)
      BY <1>2, <1>4, <2>3
    <3> QED BY <1>1, <2>3, <3>1 DEF Before
  <2> QED BY <1>2, <2>1, <2>2, <2>3
<1>8. ASSUME NEW w \in 1..(b - 1) PROVE \E p \in U : p.at <= w /\ w < p.at + p.size
  <2>1. PICK p \in T : p.at <= w /\ w < p.at + p.size
    BY DEF Tiling
  <2>2. CASE p # p1 /\ p # p2
    BY <1>2, <2>1, <2>2
  <2>3. CASE p = p1 \/ p = p2
    <3>1. c.at <= w /\ w < c.at + c.size
      BY <1>1, <2>1, <2>3
    <3> QED BY <1>2, <3>1
  <2> QED BY <2>2, <2>3
<1>9. Tiling(U, b)
  BY <1>6, <1>7, <1>8 DEF Tiling
<1> QED BY <1>5, <1>9 DEF c, p1, p2

\* The heap grows by one piece.
LEMMA ExtendTiling ==
  ASSUME NEW T, NEW b \in Nat, b >= 1, Tiling(T, b), NEW n \in Nat, n >= 3,
         NEW U, U = T \union {Piece(b, n)}
  PROVE  Tiling(U, b + n) /\ Piece(b, n) \notin T
<1> DEFINE c == Piece(b, n)
<1>1. c \in Pieces /\ c.at = b /\ c.size = n
  BY PieceFacts
<1>2. U = T \union {c}
  OBVIOUS
<1> HIDE DEF c
<1>3. ASSUME NEW q \in T
      PROVE  /\ q \in Pieces /\ q.at \in Nat /\ q.size \in Nat
             /\ 1 <= q.at /\ 3 <= q.size /\ q.at + q.size <= b
  BY DEF Tiling, Pieces
<1>4. c \notin T
  BY <1>1, <1>3
<1>5. ASSUME NEW p \in U
      PROVE  p \in Pieces /\ 1 <= p.at /\ 3 <= p.size /\ p.at + p.size <= b + n
  BY <1>1, <1>2, <1>3
<1>6. ASSUME NEW p \in U, NEW q \in U PROVE p = q \/ Before(p, q) \/ Before(q, p)
  <2>1. CASE p \in T /\ q \in T
    BY <2>1 DEF Tiling
  <2>2. CASE p \in T /\ q = c
    BY <1>1, <1>3, <2>2 DEF Before
  <2>3. CASE q \in T /\ p = c
    BY <1>1, <1>3, <2>3 DEF Before
  <2> QED BY <1>2, <2>1, <2>2, <2>3
<1>7. ASSUME NEW w \in 1..((b + n) - 1) PROVE \E p \in U : p.at <= w /\ w < p.at + p.size
  <2>1. CASE w \in 1..(b - 1)
    BY <1>2, <2>1 DEF Tiling
  <2>2. CASE ~(w \in 1..(b - 1))
    <3>1. c.at <= w /\ w < c.at + c.size
      BY <1>1, <2>2
    <3> QED BY <1>2, <3>1
  <2> QED BY <2>1, <2>2
<1>8. Tiling(U, b + n)
  BY <1>5, <1>6, <1>7 DEF Tiling
<1> QED BY <1>4, <1>8 DEF c

-----------------------------------------------------------------------------
(* Pieces change their kind                                                *)

\* A free chunk is taken whole.
LEMMA TakeWhole ==
  ASSUME NEW L, NEW X, NEW C, NEW b, Tiles(L, X, C, b), NEW c \in C
  PROVE  Tiles(L \union {c}, X, C \ {c}, b) /\ c \notin L /\ c \notin X
<1>1. (L \union {c}) \union X \union (C \ {c}) = L \union X \union C
  OBVIOUS
<1> QED BY <1>1 DEF Tiles

\* A block is given back.
LEMMA GiveBack ==
  ASSUME NEW L, NEW X, NEW C, NEW b, Tiles(L, X, C, b), NEW c \in L
  PROVE  Tiles(L \ {c}, X, C \union {c}, b) /\ c \notin C
<1>1. (L \ {c}) \union X \union (C \union {c}) = L \union X \union C
  OBVIOUS
<1> QED BY <1>1 DEF Tiles

\* The heap grows by a block.
LEMMA AddPiece ==
  ASSUME NEW L, NEW X, NEW C, NEW b \in Nat, b >= 1, Tiles(L, X, C, b), NEW n \in Nat, n >= 3
  PROVE  Tiles(L \union {Piece(b, n)}, X, C, b + n) /\ Piece(b, n) \notin L
<1> DEFINE T == L \union X \union C
           U == T \union {Piece(b, n)}
<1>1. Tiling(T, b)
  BY DEF Tiles
<1>2. Tiling(U, b + n) /\ Piece(b, n) \notin T
  BY <1>1, ExtendTiling
<1>3. (L \union {Piece(b, n)}) \union X \union C = U
  OBVIOUS
<1>4. Piece(b, n) \notin L /\ Piece(b, n) \notin X /\ Piece(b, n) \notin C
  BY <1>2
<1> QED BY <1>2, <1>3, <1>4 DEF Tiles

\* A block is cut, and the rest of it becomes free or is lost.
LEMMA CutOff ==
  ASSUME NEW L, NEW X, NEW C, NEW b \in Nat, Tiles(L, X, C, b), NEW a \in Nat, NEW n \in Nat,
         NEW k \in Nat, n >= 3, k >= 3, Piece(a, n + k) \in L
  PROVE  /\ Tiles((L \ {Piece(a, n + k)}) \union {Piece(a, n)}, X, C \union {Piece(a + n, k)}, b)
         /\ Tiles((L \ {Piece(a, n + k)}) \union {Piece(a, n)}, X \union {Piece(a + n, k)}, C, b)
<1> DEFINE c == Piece(a, n + k)
           p1 == Piece(a, n)
           p2 == Piece(a + n, k)
           T == L \union X \union C
           U == (T \ {c}) \union {p1, p2}
<1>1. Tiling(T, b) /\ c \in T
  BY DEF Tiles
<1>2. Tiling(U, b) /\ p1 \notin T /\ p2 \notin T
  BY <1>1, SplitTiling
<1>3. p1 # p2
  BY PieceFacts
<1>4. c \in L /\ c \notin X /\ c \notin C
  BY DEF Tiles
<1> HIDE DEF c, p1, p2
<1>5. /\ ((L \ {c}) \union {p1}) \union X \union (C \union {p2}) = U
      /\ ((L \ {c}) \union {p1}) \union (X \union {p2}) \union C = U
  BY <1>4
<1>6. /\ p1 \notin X /\ p1 \notin C /\ p2 \notin L /\ p2 \notin X /\ p2 \notin C
      /\ L \intersect X = {} /\ L \intersect C = {} /\ X \intersect C = {}
  BY <1>2 DEF Tiles
<1>7. Tiles((L \ {c}) \union {p1}, X, C \union {p2}, b)
  BY <1>2, <1>3, <1>5, <1>6 DEF Tiles
<1>8. Tiles((L \ {c}) \union {p1}, X \union {p2}, C, b)
  BY <1>2, <1>3, <1>5, <1>6 DEF Tiles
<1> QED BY <1>7, <1>8 DEF c, p1, p2

\* Two neighbours that are free are made one.
LEMMA JoinFree ==
  ASSUME NEW L, NEW X, NEW C, NEW b \in Nat, Tiles(L, X, C, b), NEW a \in Nat, NEW n \in Nat,
         NEW k \in Nat, Piece(a, n) \in C, Piece(a + n, k) \in C
  PROVE  Tiles(L, X, (C \ {Piece(a, n), Piece(a + n, k)}) \union {Piece(a, n + k)}, b)
<1> DEFINE c == Piece(a, n + k)
           p1 == Piece(a, n)
           p2 == Piece(a + n, k)
           T == L \union X \union C
           U == (T \ {p1, p2}) \union {c}
<1>1. Tiling(T, b) /\ p1 \in T /\ p2 \in T
  BY DEF Tiles
<1>2. Tiling(U, b) /\ c \notin T
  BY <1>1, JoinTiling
<1>3. p1 \notin L /\ p1 \notin X /\ p2 \notin L /\ p2 \notin X
  BY DEF Tiles
<1> HIDE DEF c, p1, p2
<1>4. L \union X \union ((C \ {p1, p2}) \union {c}) = U
  BY <1>3
<1>5. Tiles(L, X, (C \ {p1, p2}) \union {c}, b)
  BY <1>2, <1>4 DEF Tiles
<1> QED BY <1>5 DEF c, p1, p2

-----------------------------------------------------------------------------
(* The free chunks                                                         *)

Words == [1..HEAP -> Int]

\* The chunks that begin at the addresses of F.
Chunks(m, F) == {Piece(a, m[a]) : a \in F}

\* Each has room for the three words of its own.
Room(F) ==
  /\ F \subseteq Nat
  /\ \A a \in F : 1 <= a /\ a + 2 <= HEAP
  /\ \A a, c \in F : a = c \/ a + 3 <= c \/ c + 3 <= a

LEMMA ChunksOfSame ==
  ASSUME NEW m, NEW m2, NEW F, \A a \in F : m2[a] = m[a]
  PROVE  Chunks(m2, F) = Chunks(m, F)
BY DEF Chunks

LEMMA ChunksWithout ==
  ASSUME NEW m, NEW F, NEW x \in F
  PROVE  Chunks(m, F \ {x}) = Chunks(m, F) \ {Piece(x, m[x])}
<1>1. \A a \in F : Piece(a, m[a]) = Piece(x, m[x]) => a = x
  BY PieceFacts
<1> QED BY <1>1 DEF Chunks

LEMMA ChunksWith ==
  ASSUME NEW m, NEW F, NEW x
  PROVE  Chunks(m, F \union {x}) = Chunks(m, F) \union {Piece(x, m[x])}
BY DEF Chunks

LEMMA FreeFacts ==
  ASSUME HEAP \in Nat, NEW m, NEW F, F \subseteq Nat, NEW L, NEW X, NEW b \in Nat, b <= HEAP + 1,
         Tiles(L, X, Chunks(m, F), b)
  PROVE  /\ \A a \in F : m[a] \in Nat /\ 3 <= m[a] /\ 1 <= a /\ a + m[a] <= b
         /\ \A a, c \in F : a = c \/ a + m[a] <= c \/ c + m[c] <= a
         /\ Room(F)
         /\ \A p \in L \union X : /\ p.at \in Nat /\ p.size \in Nat /\ p.at >= 1 /\ p.size >= 3
                                  /\ p.at + p.size <= b
                                  /\ \A a \in F : p.at + p.size <= a \/ a + m[a] <= p.at
         /\ \A p, q \in L : p = q \/ p.at + p.size <= q.at \/ q.at + q.size <= p.at
<1> DEFINE T == L \union X \union Chunks(m, F)
<1>1. Tiling(T, b)
  BY DEF Tiles
<1>2. ASSUME NEW a \in F
      PROVE  /\ Piece(a, m[a]) \in T /\ Piece(a, m[a]) \in Chunks(m, F)
             /\ Piece(a, m[a]).at = a /\ Piece(a, m[a]).size = m[a]
  BY PieceFacts DEF Chunks
<1>3. ASSUME NEW p \in T
      PROVE  p.at \in Nat /\ p.size \in Nat /\ p.at >= 1 /\ p.size >= 3 /\ p.at + p.size <= b
  BY <1>1 DEF Tiling, Pieces
<1>4. ASSUME NEW p \in T, NEW q \in T, p # q
      PROVE  p.at + p.size <= q.at \/ q.at + q.size <= p.at
  BY <1>1, <1>4 DEF Tiling, Before
<1>5. \A a \in F : m[a] \in Nat /\ 3 <= m[a] /\ 1 <= a /\ a + m[a] <= b
  BY <1>2, <1>3
<1>6. ASSUME NEW a \in F, NEW c \in F, a # c PROVE a + m[a] <= c \/ c + m[c] <= a
  <2>1. Piece(a, m[a]) # Piece(c, m[c])
    BY <1>6, PieceFacts
  <2> QED BY <2>1, <1>2, <1>4
<1>7. Room(F)
  <2>1. ASSUME NEW a \in F PROVE 1 <= a /\ a + 2 <= HEAP
    BY <1>5
  <2>2. ASSUME NEW a \in F, NEW c \in F PROVE a = c \/ a + 3 <= c \/ c + 3 <= a
    <3>1. a \in Nat /\ c \in Nat /\ m[a] \in Nat /\ m[c] \in Nat /\ 3 <= m[a] /\ 3 <= m[c]
      BY <1>5
    <3>2. a = c \/ a + m[a] <= c \/ c + m[c] <= a
      BY <1>6
    <3> QED BY <3>1, <3>2
  <2> QED BY <2>1, <2>2 DEF Room
<1>8. ASSUME NEW p \in L \union X, NEW a \in F PROVE p.at + p.size <= a \/ a + m[a] <= p.at
  <2>1. p # Piece(a, m[a])
    BY <1>2 DEF Tiles
  <2> QED BY <2>1, <1>2, <1>4
<1>9. \A p, q \in L : p = q \/ p.at + p.size <= q.at \/ q.at + q.size <= p.at
  BY <1>4
<1>10. \A p \in L \union X : p.at \in Nat /\ p.size \in Nat /\ p.at >= 1 /\ p.size >= 3 /\ p.at + p.size <= b
  BY <1>3
<1> HIDE DEF T
<1> QED BY <1>5, <1>6, <1>7, <1>8, <1>9, <1>10

-----------------------------------------------------------------------------
(* The list                                                                *)

\* The free chunks are linked from h on, both ways: r goes down along the list.
Linked(m, h, F, r) ==
  /\ r \in [F -> Nat]
  /\ IF F = {} THEN h = NULL ELSE h \in F /\ Prev(m, h) = HeadAt
  /\ \A a \in F : r[a] <= r[h]
  /\ \A a \in F : Next(m, a) # NULL =>
                    /\ Next(m, a) \in F /\ r[Next(m, a)] < r[a]
                    /\ Prev(m, Next(m, a)) = a
  /\ \A a \in F : a # h => Prev(m, a) \in F /\ Next(m, Prev(m, a)) = a

\* Only what the chunks of F say of each other matters.
LEMMA LinkedFrame ==
  ASSUME NEW m, NEW h, NEW F, NEW r, Linked(m, h, F, r),
         NEW m2, \A a \in F : Next(m2, a) = Next(m, a) /\ Prev(m2, a) = Prev(m, a)
  PROVE  Linked(m2, h, F, r)
BY DEF Linked

LEMMA LinkFacts ==
  ASSUME NEW m, NEW h, NEW F, NEW r, Linked(m, h, F, r), F \subseteq Nat, NULL \notin F, NEW x \in F
  PROVE  /\ h \in F
         /\ Next(m, x) = NULL \/ (Next(m, x) \in F /\ Next(m, x) # x)
         /\ x = h => Prev(m, x) = HeadAt
         /\ x # h => Prev(m, x) \in F /\ Prev(m, x) # x /\ Prev(m, x) # HeadAt
<1>1. r \in [F -> Nat] /\ F # {} /\ h \in F /\ Prev(m, h) = HeadAt
  BY DEF Linked
<1>2. Next(m, x) # NULL => Next(m, x) \in F /\ r[Next(m, x)] < r[x]
  BY DEF Linked
<1>3. x # h => Prev(m, x) \in F /\ Next(m, Prev(m, x)) = x
  BY DEF Linked
<1>4. \A a \in F : r[a] \in Nat
  BY <1>1
<1>5. Next(m, x) # NULL => Next(m, x) # x
  BY <1>2, <1>4
<1>6. ASSUME x # h PROVE Prev(m, x) # x
  <2> SUFFICES ASSUME Prev(m, x) = x PROVE FALSE
    OBVIOUS
  <2>1. Next(m, x) = x
    BY <1>3, <1>6
  <2> QED BY <1>5, <1>6, <2>1
<1>7. HeadAt \notin F
  BY DEF HeadAt
<1> QED BY <1>1, <1>2, <1>3, <1>5, <1>6, <1>7

\* A chunk that is not the first leaves the list.
Spliced(m, m2, F, x) ==
  /\ \A a \in F : Next(m2, a) = IF a = Prev(m, x) THEN Next(m, x) ELSE Next(m, a)
  /\ \A a \in F : Prev(m2, a) = IF a = Next(m, x) THEN Prev(m, x) ELSE Prev(m, a)

LEMMA Unlinks ==
  ASSUME NEW m, NEW h, NEW F, NEW r, Linked(m, h, F, r), NEW x \in F, x # h, NULL \notin F,
         NEW m2, Spliced(m, m2, F, x)
  PROVE  \E s : Linked(m2, h, F \ {x}, s)
<1> DEFINE G == F \ {x}
           s == [a \in G |-> r[a]]
           n == Next(m, x)
           p == Prev(m, x)
<1> SUFFICES Linked(m2, h, G, s)
  OBVIOUS
<1>1. /\ r \in [F -> Nat] /\ h \in F /\ Prev(m, h) = HeadAt
      /\ \A a \in F : r[a] <= r[h]
  BY DEF Linked
<1>2. \A a \in F : Next(m, a) # NULL => /\ Next(m, a) \in F /\ r[Next(m, a)] < r[a]
                                        /\ Prev(m, Next(m, a)) = a
  BY DEF Linked
<1>3. \A a \in F : a # h => Prev(m, a) \in F /\ Next(m, Prev(m, a)) = a
  BY DEF Linked
<1>4. p \in F /\ Next(m, p) = x /\ r[x] < r[p] /\ p # x
  BY <1>1, <1>2, <1>3
<1>5. n # NULL => n \in F /\ r[n] < r[x] /\ Prev(m, n) = x /\ n # x /\ n # p
  BY <1>1, <1>2, <1>4
<1>6. \A a \in F : Next(m2, a) = IF a = p THEN n ELSE Next(m, a)
  BY DEF Spliced
<1>7. \A a \in F : Prev(m2, a) = IF a = n THEN p ELSE Prev(m, a)
  BY DEF Spliced
<1>8. h # n
  <2> SUFFICES ASSUME h = n PROVE FALSE
    OBVIOUS
  <2>1. h # NULL
    BY <1>1
  <2>2. r[h] \in Nat /\ r[x] \in Nat
    BY <1>1
  <2> QED BY <1>1, <1>5, <2>1, <2>2
<1> HIDE DEF n, p
<1>9. s \in [G -> Nat] /\ \A a \in G : s[a] = r[a]
  BY <1>1
<1>10. h \in G /\ Prev(m2, h) = HeadAt /\ \A a \in G : s[a] <= s[h]
  BY <1>1, <1>7, <1>8, <1>9
<1>11. ASSUME NEW a \in G, Next(m2, a) # NULL
       PROVE  Next(m2, a) \in G /\ s[Next(m2, a)] < s[a] /\ Prev(m2, Next(m2, a)) = a
  <2>1. CASE a = p
    <3>1. Next(m2, a) = n /\ n \in G /\ r[n] < r[x]
      BY <1>5, <1>6, <1>11, <2>1
    <3>2. r[n] \in Nat /\ r[x] \in Nat /\ r[p] \in Nat
      BY <1>1, <1>4, <3>1
    <3>3. Prev(m2, n) = p
      BY <1>7, <3>1
    <3> QED BY <1>4, <1>9, <2>1, <3>1, <3>2, <3>3
  <2>2. CASE a # p
    <3>1. Next(m2, a) = Next(m, a)
      BY <1>6, <2>2
    <3>2. Next(m, a) \in F /\ r[Next(m, a)] < r[a] /\ Prev(m, Next(m, a)) = a
      BY <1>2, <1>11, <3>1
    <3>3. Next(m, a) # x
      BY <2>2, <3>2 DEF p
    <3>4. Next(m, a) # n
      BY <1>5, <1>11, <3>1, <3>2
    <3> QED BY <1>7, <1>9, <3>1, <3>2, <3>3, <3>4
  <2> QED BY <2>1, <2>2
<1>12. ASSUME NEW a \in G, a # h
       PROVE  Prev(m2, a) \in G /\ Next(m2, Prev(m2, a)) = a
  <2>1. CASE a = n
    BY <1>4, <1>6, <1>7, <2>1
  <2>2. CASE a # n
    <3>1. Prev(m2, a) = Prev(m, a) /\ Prev(m, a) \in F /\ Next(m, Prev(m, a)) = a
      BY <1>3, <1>7, <1>12, <2>2
    <3>2. Prev(m, a) # x
      BY <2>2, <3>1 DEF n
    <3>3. Prev(m, a) # p
      BY <1>4, <3>1
    <3> QED BY <1>6, <3>1, <3>2, <3>3
  <2> QED BY <2>1, <2>2
<1> HIDE DEF G, s
<1> QED BY <1>9, <1>10, <1>11, <1>12 DEF Linked

\* A chunk is put before the others.
Fronted(m, m2, F, h, x) ==
  /\ Next(m2, x) = h /\ Prev(m2, x) = HeadAt
  /\ \A a \in F : Next(m2, a) = Next(m, a)
  /\ \A a \in F : Prev(m2, a) = IF a = h THEN x ELSE Prev(m, a)

LEMMA Fronts ==
  ASSUME NEW m, NEW h, NEW F, NEW r, Linked(m, h, F, r), h # NULL, NULL \notin F, NEW x, x \notin F, x # NULL,
         NEW m2, Fronted(m, m2, F, h, x)
  PROVE  \E s : Linked(m2, x, F \union {x}, s)
<1> DEFINE G == F \union {x}
           s == [a \in G |-> IF a = x THEN r[h] + 1 ELSE r[a]]
<1> SUFFICES Linked(m2, x, G, s)
  OBVIOUS
<1>1. /\ r \in [F -> Nat] /\ h \in F /\ Prev(m, h) = HeadAt
      /\ \A a \in F : r[a] <= r[h]
  BY DEF Linked
<1>2. \A a \in F : Next(m, a) # NULL => /\ Next(m, a) \in F /\ r[Next(m, a)] < r[a]
                                        /\ Prev(m, Next(m, a)) = a
  BY DEF Linked
<1>3. \A a \in F : a # h => Prev(m, a) \in F /\ Next(m, Prev(m, a)) = a
  BY DEF Linked
<1>4. /\ Next(m2, x) = h /\ Prev(m2, x) = HeadAt
      /\ \A a \in F : Next(m2, a) = Next(m, a)
      /\ \A a \in F : Prev(m2, a) = IF a = h THEN x ELSE Prev(m, a)
  BY DEF Fronted
<1>5. ASSUME NEW a \in F, Next(m, a) # NULL PROVE Next(m, a) # h
  <2>1. r[Next(m, a)] < r[a] /\ r[a] <= r[h] /\ r[Next(m, a)] \in Nat /\ r[a] \in Nat /\ r[h] \in Nat
    BY <1>1, <1>2, <1>5
  <2> QED BY <2>1
<1>6. /\ s \in [G -> Nat] /\ s[x] = r[h] + 1
      /\ \A a \in F : a \in G /\ s[a] = r[a]
      /\ x \in G /\ \A a \in G : a = x \/ a \in F
  BY <1>1
<1> HIDE DEF G, s
<1>7. \A a \in G : s[a] <= s[x]
  <2>1. s[x] \in Nat /\ r[h] \in Nat
    BY <1>1, <1>6
  <2>2. \A a \in F : s[a] <= r[h] /\ s[a] \in Nat
    BY <1>1, <1>6
  <2> QED BY <1>6, <2>1, <2>2
<1>8. ASSUME NEW a \in G, Next(m2, a) # NULL
      PROVE  Next(m2, a) \in G /\ s[Next(m2, a)] < s[a] /\ Prev(m2, Next(m2, a)) = a
  <2>1. CASE a = x
    <3>1. Next(m2, a) = h /\ h \in G /\ s[h] = r[h] /\ s[a] = r[h] + 1 /\ r[h] \in Nat
      BY <1>1, <1>4, <1>6, <2>1
    <3> QED BY <1>1, <1>4, <2>1, <3>1
  <2>2. CASE a \in F
    <3>1. /\ Next(m2, a) = Next(m, a) /\ Next(m, a) \in F /\ r[Next(m, a)] < r[a]
          /\ Prev(m, Next(m, a)) = a /\ Next(m, a) # h
      BY <1>2, <1>4, <1>5, <1>8, <2>2
    <3>2. s[Next(m2, a)] < s[a] /\ Next(m2, a) \in G
      BY <1>6, <2>2, <3>1
    <3>3. Prev(m2, Next(m2, a)) = a
      BY <1>4, <3>1
    <3> QED BY <3>2, <3>3
  <2> QED BY <1>6, <2>1, <2>2
<1>9. ASSUME NEW a \in G, a # x
      PROVE  Prev(m2, a) \in G /\ Next(m2, Prev(m2, a)) = a
  <2>1. a \in F
    BY <1>6, <1>9
  <2>2. CASE a = h
    BY <1>4, <1>6, <2>1, <2>2
  <2>3. CASE a # h
    <3>1. Prev(m2, a) = Prev(m, a) /\ Prev(m, a) \in F /\ Next(m, Prev(m, a)) = a
      BY <1>3, <1>4, <2>1, <2>3
    <3> QED BY <1>4, <1>6, <3>1
  <2> QED BY <2>2, <2>3
<1>10. G # {}
  BY <1>6
<1> QED BY <1>4, <1>6, <1>7, <1>8, <1>9, <1>10 DEF Linked

\* A chunk takes the place of the first one.
Replaced(m, m2, F, h, x) ==
  /\ Next(m2, x) = Next(m, h) /\ Prev(m2, x) = HeadAt
  /\ \A a \in F \ {h} : Next(m2, a) = Next(m, a)
  /\ \A a \in F \ {h} : Prev(m2, a) = IF a = Next(m, h) THEN x ELSE Prev(m, a)

LEMMA Replaces ==
  ASSUME NEW m, NEW h, NEW F, NEW r, Linked(m, h, F, r), h \in F, NULL \notin F, NEW x, x \notin F, x # NULL,
         NEW m2, Replaced(m, m2, F, h, x)
  PROVE  \E s : Linked(m2, x, (F \ {h}) \union {x}, s)
<1> DEFINE G == (F \ {h}) \union {x}
           s == [a \in G |-> IF a = x THEN r[h] ELSE r[a]]
           n == Next(m, h)
<1> SUFFICES Linked(m2, x, G, s)
  OBVIOUS
<1>1. /\ r \in [F -> Nat] /\ h \in F /\ Prev(m, h) = HeadAt
      /\ \A a \in F : r[a] <= r[h]
  BY DEF Linked
<1>2. \A a \in F : Next(m, a) # NULL => /\ Next(m, a) \in F /\ r[Next(m, a)] < r[a]
                                        /\ Prev(m, Next(m, a)) = a
  BY DEF Linked
<1>3. \A a \in F : a # h => Prev(m, a) \in F /\ Next(m, Prev(m, a)) = a
  BY DEF Linked
<1>4. /\ Next(m2, x) = n /\ Prev(m2, x) = HeadAt
      /\ \A a \in F \ {h} : Next(m2, a) = Next(m, a)
      /\ \A a \in F \ {h} : Prev(m2, a) = IF a = n THEN x ELSE Prev(m, a)
  BY DEF Replaced
<1>5. ASSUME NEW a \in F, Next(m, a) # NULL PROVE Next(m, a) # h
  <2>1. r[Next(m, a)] < r[a] /\ r[a] <= r[h] /\ r[Next(m, a)] \in Nat /\ r[a] \in Nat /\ r[h] \in Nat
    BY <1>1, <1>2, <1>5
  <2> QED BY <2>1
<1>6. /\ s \in [G -> Nat] /\ s[x] = r[h]
      /\ \A a \in F \ {h} : a \in G /\ s[a] = r[a] /\ a # x
      /\ x \in G /\ \A a \in G : a = x \/ a \in F \ {h}
  BY <1>1
<1>7. n # NULL => n \in F \ {h} /\ r[n] < r[h] /\ Prev(m, n) = h
  BY <1>1, <1>2, <1>5
<1>12. \A a \in F \ {h} : Prev(m, a) = h => a = n
  BY <1>3
<1> HIDE DEF G, s, n
<1>8. \A a \in G : s[a] <= s[x]
  <2>1. r[h] \in Nat /\ \A a \in F : r[a] <= r[h]
    BY <1>1
  <2> QED BY <1>6, <2>1
<1>9. ASSUME NEW a \in G, Next(m2, a) # NULL
      PROVE  Next(m2, a) \in G /\ s[Next(m2, a)] < s[a] /\ Prev(m2, Next(m2, a)) = a
  <2>1. CASE a = x
    <3>1. Next(m2, a) = n /\ n \in F \ {h} /\ r[n] < r[h]
      BY <1>4, <1>7, <1>9, <2>1
    <3> QED BY <1>4, <1>6, <2>1, <3>1
  <2>2. CASE a \in F \ {h}
    <3>1. /\ Next(m2, a) = Next(m, a) /\ Next(m, a) \in F /\ r[Next(m, a)] < r[a]
          /\ Prev(m, Next(m, a)) = a /\ Next(m, a) # h
      BY <1>2, <1>4, <1>5, <1>9, <2>2
    <3>2. s[Next(m2, a)] < s[a] /\ Next(m2, a) \in G
      BY <1>6, <2>2, <3>1
    <3>3. Next(m, a) # n
      BY <1>7, <1>9, <2>2, <3>1
    <3>4. Prev(m2, Next(m2, a)) = a
      BY <1>4, <3>1, <3>3
    <3> QED BY <3>2, <3>4
  <2> QED BY <1>6, <2>1, <2>2
<1>10. ASSUME NEW a \in G, a # x
       PROVE  Prev(m2, a) \in G /\ Next(m2, Prev(m2, a)) = a
  <2>1. a \in F \ {h}
    BY <1>6, <1>10
  <2>2. CASE a = n
    BY <1>4, <1>6, <2>1, <2>2
  <2>3. CASE a # n
    <3>1. Prev(m2, a) = Prev(m, a) /\ Prev(m, a) \in F /\ Next(m, Prev(m, a)) = a
      BY <1>3, <1>4, <2>1, <2>3
    <3>2. Prev(m, a) # h
      BY <1>12, <2>1, <2>3
    <3> QED BY <1>4, <1>6, <3>1, <3>2
  <2> QED BY <2>2, <2>3
<1>11. G # {}
  BY <1>6
<1> QED BY <1>4, <1>6, <1>8, <1>9, <1>10, <1>11 DEF Linked

\* The only chunk, and none.
LEMMA Alone ==
  ASSUME NEW m, NEW x, Next(m, x) = NULL, Prev(m, x) = HeadAt
  PROVE  \E r : Linked(m, x, {x}, r)
<1>1. Linked(m, x, {x}, [a \in {x} |-> 0])
  BY DEF Linked
<1> QED BY <1>1

LEMMA Empty ==
  ASSUME NEW m
  PROVE  \E r : Linked(m, NULL, {}, r)
<1>1. Linked(m, NULL, {}, [a \in {} |-> 0])
  BY DEF Linked
<1> QED BY <1>1

\* A list of which the first is the only one.
LEMMA OnlyOne ==
  ASSUME NEW m, NEW h, NEW F, NEW r, Linked(m, h, F, r), NULL \notin F, h \in F, Next(m, h) = NULL
  PROVE  F = {h}
<1> SUFFICES ASSUME F \ {h} # {} PROVE FALSE
  OBVIOUS
<1>1. /\ r \in [F -> Nat] /\ \A a \in F : r[a] <= r[h]
      /\ \A a \in F : a # h => Prev(m, a) \in F /\ Next(m, Prev(m, a)) = a
  BY DEF Linked
<1>2. \A a \in F : Next(m, a) # NULL => Next(m, a) \in F /\ r[Next(m, a)] < r[a]
  BY DEF Linked
<1> DEFINE D == {r[h] - r[a] : a \in F \ {h}}
<1>3. D \in SUBSET Nat /\ D # {}
  <2>1. \A a \in F : r[h] - r[a] \in Nat
    BY <1>1
  <2> QED BY <2>1
<1>4. PICK d \in D : \A e \in D : d <= e
  BY <1>3, Least
<1>5. PICK a \in F \ {h} : d = r[h] - r[a]
  BY <1>4
<1>6. Prev(m, a) \in F /\ Next(m, Prev(m, a)) = a /\ a # NULL
  BY <1>1
<1>7. Prev(m, a) # h
  BY <1>6
<1>8. r[a] < r[Prev(m, a)]
  BY <1>2, <1>6
<1>9. r[h] - r[Prev(m, a)] \in D
  BY <1>6, <1>7
<1>10. r[h] \in Nat /\ r[a] \in Nat /\ r[Prev(m, a)] \in Nat
  BY <1>1, <1>6
<1> QED BY <1>4, <1>5, <1>8, <1>9, <1>10

-----------------------------------------------------------------------------
(* What the operators on the memory do                                     *)

\* Only links of the chunks of F are written.
LinksOf(m, m2, F) ==
  \A w \in 1..HEAP : (\A a \in F : w # a + 1 /\ w # a + 2) => m2[w] = m[w]

LEMMA LinksOnly ==
  ASSUME NEW m, NEW m2, NEW F, HEAP \in Nat, Room(F), LinksOf(m, m2, F)
  PROVE  /\ NULL \notin F /\ HeadAt \notin F
         /\ \A a \in F : m2[a] = m[a] /\ a \in 1..HEAP /\ a + 1 \in 1..HEAP /\ a + 2 \in 1..HEAP
<1>1. NULL \notin F /\ HeadAt \notin F
  BY DEF Room, NULL, HeadAt
<1>2. ASSUME NEW a \in F PROVE a \in Nat /\ a \in 1..HEAP /\ a + 1 \in 1..HEAP /\ a + 2 \in 1..HEAP
  BY DEF Room
<1>3. ASSUME NEW a \in F PROVE m2[a] = m[a]
  <2>1. ASSUME NEW c \in F PROVE a # c + 1 /\ a # c + 2
    <3>1. a \in Nat /\ c \in Nat /\ (a = c \/ a + 3 <= c \/ c + 3 <= a)
      BY DEF Room
    <3> QED BY <3>1
  <2> QED BY <1>2, <2>1 DEF LinksOf
<1> QED BY <1>1, <1>2, <1>3

LEMMA UnlinkFacts ==
  ASSUME HEAP \in Nat, NEW m \in Words, NEW h, NEW F, NEW r, Linked(m, h, F, r), Room(F),
         NEW x \in F, x # h, NEW m2, m2 = Unlinked(m, x)
  PROVE  m2 \in Words /\ Spliced(m, m2, F, x) /\ LinksOf(m, m2, F)
<1> DEFINE n == Next(m, x)
           p == Prev(m, x)
<1>1. F \subseteq Nat /\ NULL \notin F
  BY DEF Room, NULL
<1>2. p \in F /\ p # x /\ (n = NULL \/ n \in F)
  <2>1. /\ Next(m, x) = NULL \/ (Next(m, x) \in F /\ Next(m, x) # x)
        /\ x # h => Prev(m, x) \in F /\ Prev(m, x) # x /\ Prev(m, x) # HeadAt
    BY <1>1, LinkFacts
  <2> QED BY <2>1
<1>14. \A a \in F : a \in Nat /\ a + 1 \in 1..HEAP /\ a + 2 \in 1..HEAP
  BY DEF Room
<1>3. p + 1 \in 1..HEAP /\ p \in Nat
  BY <1>2, <1>14
<1>4. n # NULL => n + 2 \in 1..HEAP /\ n \in Nat
  BY <1>2, <1>14
<1>5. n \in Int /\ p \in Int
  BY <1>2, <1>3, <1>4 DEF NULL
<1>6. m2 = IF n = NULL THEN [m EXCEPT ![p + 1] = n] ELSE [[m EXCEPT ![p + 1] = n] EXCEPT ![n + 2] = p]
  BY DEF Unlinked
<1> HIDE DEF n, p
<1>7. p + 1 # n + 2 \/ n = NULL
  <2>1. n # NULL => (p = n \/ p + 3 <= n \/ n + 3 <= p)
    BY <1>2 DEF Room
  <2> QED BY <1>3, <1>4, <2>1
<1>8. m2 \in Words
  BY <1>3, <1>4, <1>5, <1>6 DEF Words
<1>9. /\ m2[p + 1] = n
      /\ n # NULL => m2[n + 2] = p
      /\ \A w \in 1..HEAP : w # p + 1 /\ (n = NULL \/ w # n + 2) => m2[w] = m[w]
  BY <1>3, <1>4, <1>6, <1>7 DEF Words
<1>10. LinksOf(m, m2, F)
  <2>1. ASSUME NEW w \in 1..HEAP, \A a \in F : w # a + 1 /\ w # a + 2 PROVE m2[w] = m[w]
    BY <1>2, <1>9, <2>1
  <2> QED BY <2>1 DEF LinksOf
<1>11. ASSUME NEW a \in F PROVE Next(m2, a) = IF a = p THEN n ELSE Next(m, a)
  <2>1. a + 1 \in 1..HEAP /\ a \in Nat
    BY DEF Room
  <2>2. CASE a = p
    BY <1>9, <2>2 DEF Next
  <2>3. CASE a # p
    <3>1. a + 1 # p + 1
      BY <1>3, <2>1, <2>3
    <3>2. n # NULL => a + 1 # n + 2
      <4>1. n # NULL => (a = n \/ a + 3 <= n \/ n + 3 <= a)
        BY <1>2 DEF Room
      <4> QED BY <1>4, <2>1, <4>1
    <3>3. m2[a + 1] = m[a + 1]
      BY <1>9, <2>1, <3>1, <3>2
    <3> QED BY <2>3, <3>3 DEF Next
  <2> QED BY <2>2, <2>3
<1>12. ASSUME NEW a \in F PROVE Prev(m2, a) = IF a = n THEN p ELSE Prev(m, a)
  <2>1. a + 2 \in 1..HEAP /\ a \in Nat /\ a # NULL
    BY <1>1 DEF Room
  <2>2. CASE a = n
    BY <1>9, <2>1, <2>2 DEF Prev
  <2>3. CASE a # n
    <3>1. a + 2 # p + 1
      <4>1. a = p \/ a + 3 <= p \/ p + 3 <= a
        BY <1>2 DEF Room
      <4> QED BY <1>3, <2>1, <4>1
    <3>2. n # NULL => a + 2 # n + 2
      BY <1>4, <2>1, <2>3
    <3>3. m2[a + 2] = m[a + 2]
      BY <1>9, <2>1, <3>1, <3>2
    <3> QED BY <2>3, <3>3 DEF Prev
  <2> QED BY <2>2, <2>3
<1>13. Spliced(m, m2, F, x)
  BY <1>11, <1>12 DEF Spliced, n, p
<1> QED BY <1>8, <1>10, <1>13

LEMMA FrontFacts ==
  ASSUME HEAP \in Nat, NEW m \in Words, NEW F, NEW x, x \notin F, Room(F \union {x}), head \in F,
         NEW m2, m2 = ToFront(m, x)
  PROVE  m2 \in Words /\ Fronted(m, m2, F, head, x) /\ LinksOf(m, m2, F \union {x})
<1> DEFINE h == head
<1>1. /\ \A a \in F \union {x} : a \in Nat /\ a + 1 \in 1..HEAP /\ a + 2 \in 1..HEAP
      /\ \A a, c \in F \union {x} : a = c \/ a + 3 <= c \/ c + 3 <= a
  BY DEF Room
<1>2. /\ x \in Nat /\ x + 1 \in 1..HEAP /\ x + 2 \in 1..HEAP
      /\ h \in Nat /\ h + 2 \in 1..HEAP
      /\ h # x /\ h \in F
  BY <1>1
<1>3. m2 = [m EXCEPT ![x + 1] = h, ![x + 2] = HeadAt, ![h + 2] = x]
  BY DEF ToFront
<1> HIDE DEF h
<1>4. h + 2 # x + 1
  <2>1. x = h \/ x + 3 <= h \/ h + 3 <= x
    BY <1>1, <1>2
  <2> QED BY <1>2, <2>1
<1>5. m2 \in Words
  <2>1. x + 1 \in 1..HEAP /\ x + 2 \in 1..HEAP /\ h + 2 \in 1..HEAP /\ x \in Int /\ h \in Int /\ HeadAt \in Int
    BY <1>2 DEF HeadAt
  <2>2. [m EXCEPT ![x + 1] = h] \in Words
    BY <2>1 DEF Words
  <2> DEFINE m1 == [m EXCEPT ![x + 1] = h]
  <2>3. m1 \in Words /\ m2 = [[m1 EXCEPT ![x + 2] = HeadAt] EXCEPT ![h + 2] = x]
    BY <1>3, <2>2
  <2> HIDE DEF m1
  <2> QED BY <2>1, <2>3 DEF Words
<1>6. /\ m2[x + 1] = h /\ m2[x + 2] = HeadAt /\ m2[h + 2] = x
      /\ \A w \in 1..HEAP : w # x + 1 /\ w # x + 2 /\ w # h + 2 => m2[w] = m[w]
  BY <1>2, <1>3, <1>4 DEF Words
<1>7. LinksOf(m, m2, F \union {x})
  BY <1>2, <1>6 DEF LinksOf
<1>8. ASSUME NEW a \in F PROVE Next(m2, a) = Next(m, a)
  <2>1. a \in Nat /\ a + 1 \in 1..HEAP /\ a # x
    BY <1>1
  <2>2. a + 1 # x + 2 /\ a + 1 # h + 2
    <3>1. (a = x \/ a + 3 <= x \/ x + 3 <= a) /\ (a = h \/ a + 3 <= h \/ h + 3 <= a)
      BY <1>1, <1>2
    <3> QED BY <1>2, <2>1, <3>1
  <2> QED BY <1>2, <1>6, <2>1, <2>2 DEF Next
<1>9. ASSUME NEW a \in F PROVE Prev(m2, a) = IF a = h THEN x ELSE Prev(m, a)
  <2>1. a \in Nat /\ a + 2 \in 1..HEAP /\ a # x
    BY <1>1
  <2>2. a + 2 # x + 1
    <3>1. a = x \/ a + 3 <= x \/ x + 3 <= a
      BY <1>1, <1>2
    <3> QED BY <1>2, <2>1, <3>1
  <2>3. CASE a = h
    BY <1>6, <2>3 DEF Prev
  <2>4. CASE a # h
    BY <1>2, <1>6, <2>1, <2>2, <2>4 DEF Prev
  <2> QED BY <2>3, <2>4
<1>10. Fronted(m, m2, F, h, x)
  BY <1>6, <1>8, <1>9 DEF Fronted, Next, Prev
<1> QED BY <1>5, <1>7, <1>10 DEF h

\* Only the n words at a are written, which are in the heap.
Within(m, m2, a, n) == \A w \in 1..HEAP : (w < a \/ a + n <= w) => m2[w] = m[w]
InHeap(a, n) == a \in Nat /\ n \in Nat /\ 1 <= a /\ n >= 1 /\ a + n <= HEAP + 1

\* The program's block of n words at a.
LEMMA GivenFacts ==
  ASSUME HEAP \in Nat, NEW m \in Words, NEW a, NEW n, InHeap(a, n)
  PROVE  Given(m, a, n) \in Words /\ Given(m, a, n)[a] = n /\ Within(m, Given(m, a, n), a, n)
<1> DEFINE m2 == Given(m, a, n)
<1>0. a \in Nat /\ n \in Nat /\ 1 <= a /\ n >= 1 /\ a + n <= HEAP + 1
  BY DEF InHeap
<1>1. \A w \in 1..HEAP : m2[w] = IF w = a THEN n ELSE IF w \in (a + 1)..(a + n - 1) THEN Data ELSE m[w]
  BY DEF Given
<1>2. m2 = [w \in 1..HEAP |-> m2[w]]
  BY DEF Given
<1> HIDE DEF m2
<1>3. \A w \in 1..HEAP : m2[w] \in Int
  BY <1>0, <1>1 DEF Words, Data
<1>4. m2 \in Words
  BY <1>2, <1>3 DEF Words
<1>5. m2[a] = n
  BY <1>0, <1>1
<1>6. Within(m, m2, a, n)
  BY <1>0, <1>1 DEF Within
<1> QED BY <1>4, <1>5, <1>6 DEF m2

\* A chunk that is free, of at least three words.
LEMMA ChunkFacts ==
  ASSUME HEAP \in Nat, NEW m \in Words, NEW a, InHeap(a, 3), NEW n \in Int,
         NEW x \in Int, NEW y \in Int
  PROVE  LET m2 == Chunk(m, a, n, x, y)
         IN  m2 \in Words /\ m2[a] = n /\ Next(m2, a) = x /\ Prev(m2, a) = y /\ Within(m, m2, a, 3)
<1> DEFINE m2 == Chunk(m, a, n, x, y)
<1>1. /\ m2 = [m EXCEPT ![a] = n, ![a + 1] = x, ![a + 2] = y]
      /\ a \in 1..HEAP /\ a + 1 \in 1..HEAP /\ a + 2 \in 1..HEAP
  BY DEF Chunk, InHeap
<1> HIDE DEF m2
<1>2. m2 \in Words /\ m2[a] = n /\ Next(m2, a) = x /\ Prev(m2, a) = y /\ Within(m, m2, a, 3)
  <2>1. a \in Nat
    BY DEF InHeap
  <2> QED BY <1>1, <2>1 DEF Words, Next, Prev, Within
<1> QED BY <1>2 DEF m2

-----------------------------------------------------------------------------
(* The walk along the list                                                 *)

\* f is the walk of At from h through n pointers.
Walk(m, h, n, f) ==
  f = [k \in 0..n |-> IF k = 0 THEN h
                      ELSE LET before == f[k - 1]
                           IN  IF before = NULL THEN NULL ELSE Next(m, before)]

\* The recursive function At chooses exists: one more pointer can be followed.
LEMMA WalkExists ==
  ASSUME NEW m, NEW h, NEW n \in Nat
  PROVE  \E f : Walk(m, h, n, f)
<1> DEFINE S == {i \in Nat : \E f : Walk(m, h, i, f)}
<1>1. 0 \in S
  <2>1. Walk(m, h, 0, [k \in 0..0 |-> h])
    BY DEF Walk
  <2> QED BY <2>1
<1>2. ASSUME NEW i \in Nat, i \in S PROVE i + 1 \in S
  <2>1. PICK f : Walk(m, h, i, f)
    BY <1>2
  <2> DEFINE g == [k \in 0..(i + 1) |-> IF k <= i THEN f[k]
                                         ELSE IF f[i] = NULL THEN NULL ELSE Next(m, f[i])]
  <2>2. Walk(m, h, i + 1, g)
    <3>1. ASSUME NEW k \in 0..(i + 1)
          PROVE  g[k] = IF k = 0 THEN h
                        ELSE IF g[k - 1] = NULL THEN NULL ELSE Next(m, g[k - 1])
      <4>1. CASE k = 0
        BY <2>1, <4>1 DEF Walk
      <4>2. CASE k \in 1..i
        <5>1. f[k] = IF f[k - 1] = NULL THEN NULL ELSE Next(m, f[k - 1])
          BY <2>1, <4>2 DEF Walk
        <5>2. g[k] = f[k] /\ g[k - 1] = f[k - 1]
          BY <4>2
        <5> QED BY <4>2, <5>1, <5>2
      <4>3. CASE k = i + 1
        BY <4>3
      <4> QED BY <4>1, <4>2, <4>3
    <3>2. g = [k \in 0..(i + 1) |-> g[k]]
      OBVIOUS
    <3> HIDE DEF g
    <3> QED BY <3>1, <3>2 DEF Walk
  <2> QED BY <2>2
<1> HIDE DEF S
<1>3. Nat \subseteq S
  BY <1>1, <1>2, SetInduction
<1> QED BY <1>3 DEF S

\* At, step by step.
LEMMA AtFacts ==
  ASSUME HEAP \in Nat
  PROVE  /\ MaxFree \in Nat /\ 3 * MaxFree <= HEAP /\ HEAP < 3 * MaxFree + 3
         /\ At[0] = head
         /\ \A k \in 1..MaxFree : At[k] = IF At[k - 1] = NULL THEN NULL ELSE Next(mem, At[k - 1])
<1>1. MaxFree \in Nat /\ 3 * MaxFree <= HEAP /\ HEAP < 3 * MaxFree + 3
  BY DEF MaxFree
<1>2. At = CHOOSE f : Walk(mem, head, MaxFree, f)
  BY DEF At, Walk
<1>3. \E f : Walk(mem, head, MaxFree, f)
  BY <1>1, WalkExists
<1>4. Walk(mem, head, MaxFree, At)
  <2> HIDE DEF Walk
  <2> QED BY <1>2, <1>3
<1> QED BY <1>1, <1>4 DEF Walk

LEMMA ThirdsDiffer ==
  ASSUME NEW x \in Nat, NEW y \in Nat, (x + 2) \div 3 = (y + 2) \div 3
  PROVE  ~ (x + 3 <= y) /\ ~ (y + 3 <= x)
<1> DEFINE d == (x + 2) \div 3
<1>1. d \in Int /\ 3 * d <= x + 2 /\ x + 2 < 3 * d + 3
  OBVIOUS
<1>2. 3 * d <= y + 2 /\ y + 2 < 3 * d + 3
  OBVIOUS
<1> HIDE DEF d
<1> QED BY <1>1, <1>2

\* The walk meets the free chunks, all of them, and ends.
LEMMA WalkFacts ==
  ASSUME HEAP \in Nat, NEW F, Room(F), NEW r, Linked(mem, head, F, r)
  PROVE  /\ At[MaxFree] = NULL
         /\ InList = F
         /\ \A k \in 0..MaxFree : At[k] \in F \union {NULL}
<1>1. MaxFree \in Nat /\ 3 * MaxFree <= HEAP /\ HEAP < 3 * MaxFree + 3
  BY AtFacts
<1>2. /\ At[0] = head
      /\ \A k \in 1..MaxFree : At[k] = IF At[k - 1] = NULL THEN NULL ELSE Next(mem, At[k - 1])
  BY AtFacts
<1>3. /\ \A a \in F : r[a] \in Nat /\ r[a] <= r[head]
      /\ \A a \in F : Next(mem, a) # NULL => Next(mem, a) \in F /\ r[Next(mem, a)] < r[a]
      /\ \A a \in F : a # head => Prev(mem, a) \in F /\ Next(mem, Prev(mem, a)) = a
      /\ head \in F \union {NULL}
      /\ F # {} => head \in F
  BY DEF Linked
<1>4. NULL \notin F
  BY DEF Room, NULL
<1> DEFINE A == At
           S == {k \in Nat : k <= MaxFree =>
                   /\ A[k] \in F \union {NULL}
                   /\ A[k] # NULL => \A j \in 0..(k - 1) : A[j] \in F /\ r[A[k]] < r[A[j]]}
<1>5. 0 \in S
  BY <1>2, <1>3
<1>6. ASSUME NEW k \in Nat, k \in S PROVE k + 1 \in S
  <2> SUFFICES ASSUME k + 1 <= MaxFree
               PROVE  /\ A[k + 1] \in F \union {NULL}
                      /\ A[k + 1] # NULL => \A j \in 0..((k + 1) - 1) : A[j] \in F /\ r[A[k + 1]] < r[A[j]]
    BY <1>1
  <2>1. /\ A[k] \in F \union {NULL}
        /\ A[k] # NULL => \A j \in 0..(k - 1) : A[j] \in F /\ r[A[k]] < r[A[j]]
    BY <1>1, <1>6
  <2>2. A[k + 1] = IF A[k] = NULL THEN NULL ELSE Next(mem, A[k])
    <3>1. k + 1 \in 1..MaxFree /\ (k + 1) - 1 = k
      BY <1>1
    <3> QED BY <3>1, <1>2
  <2> HIDE DEF A
  <2>3. CASE A[k + 1] = NULL
    BY <2>3
  <2>4. CASE A[k + 1] # NULL
    <3>1. A[k] \in F /\ A[k + 1] = Next(mem, A[k]) /\ A[k + 1] \in F /\ r[A[k + 1]] < r[A[k]]
      BY <1>3, <2>1, <2>2, <2>4
    <3>2. ASSUME NEW j \in 0..((k + 1) - 1) PROVE A[j] \in F /\ r[A[k + 1]] < r[A[j]]
      <4>1. CASE j = k
        BY <3>1, <4>1
      <4>2. CASE j # k
        <5>1. j \in 0..(k - 1)
          BY <4>2
        <5>2. A[j] \in F /\ r[A[k]] < r[A[j]]
          BY <1>4, <2>1, <3>1, <5>1
        <5>3. r[A[j]] \in Nat /\ r[A[k]] \in Nat /\ r[A[k + 1]] \in Nat
          BY <1>3, <3>1, <5>2
        <5> QED BY <3>1, <5>2, <5>3
      <4> QED BY <4>1, <4>2
    <3> QED BY <3>1, <3>2
  <2> QED BY <2>3, <2>4
<1> HIDE DEF S
<1>7. Nat \subseteq S
  BY <1>5, <1>6, SetInduction
<1>8. ASSUME NEW k \in 0..MaxFree
      PROVE  /\ A[k] \in F \union {NULL}
             /\ A[k] # NULL => \A j \in 0..(k - 1) : A[j] \in F /\ r[A[k]] < r[A[j]]
  BY <1>1, <1>7 DEF S
<1>9. A[MaxFree] = NULL
  <2> SUFFICES ASSUME A[MaxFree] # NULL PROVE FALSE
    OBVIOUS
  <2>1. ASSUME NEW k \in 0..MaxFree PROVE A[k] \in F
    <3>1. CASE k = MaxFree
      BY <1>8, <3>1
    <3>2. CASE k # MaxFree
      <4>1. k \in 0..(MaxFree - 1) /\ MaxFree \in 0..MaxFree
        BY <1>1, <3>2
      <4> QED BY <1>8, <4>1
    <3> QED BY <3>1, <3>2
  <2>2. ASSUME NEW j \in 0..MaxFree, NEW k \in 0..MaxFree, j < k PROVE A[j] # A[k]
    <3>1. j \in 0..(k - 1) /\ A[k] \in F /\ A[k] # NULL
      BY <1>4, <2>1, <2>2
    <3>2. r[A[k]] < r[A[j]] /\ r[A[k]] \in Nat
      BY <1>3, <1>8, <3>1
    <3> QED BY <3>2
  <2>3. \A j, k \in 0..MaxFree : A[j] = A[k] => j = k
    BY <2>2
  <2> DEFINE g == [k \in 0..MaxFree |-> (A[k] + 2) \div 3]
  <2>4. ASSUME NEW k \in 0..MaxFree PROVE g[k] \in 1..MaxFree
    <3>1. A[k] \in Nat /\ 1 <= A[k] /\ A[k] + 2 <= HEAP
      BY <2>1 DEF Room
    <3>2. g[k] = (A[k] + 2) \div 3
      OBVIOUS
    <3> HIDE DEF A, g
    <3> QED BY <1>1, <3>1, <3>2
  <2>5. ASSUME NEW j \in 0..MaxFree, NEW k \in 0..MaxFree, g[j] = g[k] PROVE j = k
    <3>1. A[j] \in Nat /\ A[k] \in Nat /\ (A[j] = A[k] \/ A[j] + 3 <= A[k] \/ A[k] + 3 <= A[j])
      BY <2>1 DEF Room
    <3>2. g[j] = (A[j] + 2) \div 3 /\ g[k] = (A[k] + 2) \div 3
      OBVIOUS
    <3> HIDE DEF A, g
    <3>3. A[j] = A[k]
      <4>1. (A[j] + 2) \div 3 = (A[k] + 2) \div 3
        BY <2>5, <3>2
      <4> QED BY <3>1, <4>1, ThirdsDiffer
    <3> QED BY <2>3, <3>3 DEF A
  <2>6. g \in Injection(0..MaxFree, 1..MaxFree)
    BY <2>4, <2>5 DEF Injection, IsInjective
  <2> HIDE DEF g
  <2>7. IsFiniteSet(1..MaxFree) /\ Cardinality(1..MaxFree) = MaxFree /\ Cardinality(0..MaxFree) = MaxFree + 1
    BY <1>1, FS_Interval
  <2>8. Cardinality(0..MaxFree) <= Cardinality(1..MaxFree)
    BY <2>6, <2>7, FS_Injection
  <2> QED BY <1>1, <2>7, <2>8
<1>10. InList = {A[k] : k \in 0..MaxFree} \ {NULL}
  BY DEF InList
<1> HIDE DEF A
<1>11. F \subseteq InList
  <2> SUFFICES ASSUME F \ InList # {} PROVE FALSE
    OBVIOUS
  <2> DEFINE D == {r[head] - r[a] : a \in F \ InList}
  <2>1. D \in SUBSET Nat /\ D # {}
    <3>1. \A a \in F : r[head] - r[a] \in Nat
      <4>1. \A a \in F : r[a] \in Nat /\ r[a] <= r[head] /\ r[head] \in Nat
        BY <1>3
      <4> QED BY <4>1
    <3> QED BY <3>1
  <2>2. PICK d \in D : \A e \in D : d <= e
    BY <2>1, Least
  <2>3. PICK a \in F \ InList : d = r[head] - r[a]
    BY <2>2
  <2>4. a # head
    <3>1. 0 \in 0..MaxFree /\ a # NULL
      BY <1>1, <1>4
    <3> QED BY <1>2, <1>10, <3>1 DEF A
  <2>5. Prev(mem, a) \in F /\ Next(mem, Prev(mem, a)) = a /\ a # NULL
    BY <1>3, <1>4, <2>4
  <2>6. r[a] < r[Prev(mem, a)]
    BY <1>3, <2>5
  <2>7. Prev(mem, a) \in InList
    <3> SUFFICES ASSUME Prev(mem, a) \notin InList PROVE FALSE
      OBVIOUS
    <3>1. r[head] - r[Prev(mem, a)] \in D
      BY <2>5
    <3>2. r[head] \in Nat /\ r[a] \in Nat /\ r[Prev(mem, a)] \in Nat
      BY <1>3, <2>5
    <3>3. d <= r[head] - r[Prev(mem, a)]
      BY <2>2, <3>1
    <3> HIDE DEF D
    <3> QED BY <2>3, <2>6, <3>2, <3>3
  <2>8. PICK k \in 0..MaxFree : A[k] = Prev(mem, a)
    BY <1>10, <2>7
  <2>9. A[k] # NULL
    BY <1>4, <2>5, <2>8
  <2>10. k + 1 \in 1..MaxFree /\ k + 1 \in 0..MaxFree /\ (k + 1) - 1 = k
    BY <1>1, <1>9, <2>9
  <2>11. A[k + 1] = a
    <3>1. At[k + 1] = IF At[k] = NULL THEN NULL ELSE Next(mem, At[k])
      BY <1>2, <2>10
    <3> QED BY <2>5, <2>8, <2>9, <3>1 DEF A
  <2> QED BY <1>10, <2>5, <2>10, <2>11
<1>12. InList \subseteq F
  BY <1>8, <1>10
<1> QED BY <1>8, <1>9, <1>11, <1>12 DEF A

-----------------------------------------------------------------------------
(* Sizes                                                                   *)

LEMMA TotalFacts ==
  ASSUME NEW size \in Nat, size # 0
  PROVE  Total(size) \in Nat /\ Total(size) >= 3
BY DEF Total

LEMMA ChunkForFacts ==
  ASSUME CHUNK \in Nat, CHUNK > 3, NEW total \in Nat, total >= 3
  PROVE  ChunkFor(total) \in Nat /\ ChunkFor(total) >= total
<1> DEFINE x == total + CHUNK - 1
           q == x \div CHUNK
<1>1. x \in Nat /\ CHUNK \in Nat /\ CHUNK > 0
  OBVIOUS
<1>2. q \in Nat /\ x % CHUNK \in Nat /\ x % CHUNK < CHUNK /\ CHUNK * q + (x % CHUNK) = x
  <2> HIDE DEF x
  <2> QED BY <1>1
<1>3. ChunkFor(total) = CHUNK * q
  BY DEF ChunkFor
<1>4. CHUNK * q \in Nat
  <2> HIDE DEF q, x
  <2> QED BY <1>1, <1>2
<1> DEFINE p == CHUNK * q
           d == x % CHUNK
<1>5. p \in Nat /\ d \in Nat /\ d < CHUNK /\ p + d = total + CHUNK - 1
  BY <1>2, <1>4
<1> HIDE DEF p, d
<1>6. p >= total
  BY <1>5
<1> QED BY <1>3, <1>4, <1>6 DEF p

LEMMA FitFacts ==
  ASSUME HEAP \in Nat, NEW F, Room(F), NEW r, Linked(mem, head, F, r), NEW total
  PROVE  FirstFit(total) # NULL => FirstFit(total) \in F /\ mem[FirstFit(total)] >= total
<1> DEFINE fits == {k \in 0..MaxFree : At[k] # NULL /\ mem[At[k]] >= total}
<1>1. FirstFit(total) = IF fits = {} THEN NULL ELSE At[CHOOSE k \in fits : \A j \in fits : k <= j]
  BY DEF FirstFit
<1>2. fits \in SUBSET Nat
  <2>1. MaxFree \in Nat
    BY AtFacts
  <2> QED BY <2>1
<1>3. ASSUME fits # {} PROVE (CHOOSE k \in fits : \A j \in fits : k <= j) \in fits
  <2>1. \E k \in fits : \A j \in fits : k <= j
    BY <1>2, <1>3, Least
  <2> HIDE DEF fits
  <2> QED BY <2>1
<1>4. \A k \in fits : At[k] \in F /\ mem[At[k]] >= total
  BY WalkFacts
<1> QED BY <1>1, <1>3, <1>4

-----------------------------------------------------------------------------
(* The invariant                                                           *)

\* No free chunk begins where another ends.
Merged(m, F) == \A a, c \in F : c # a + m[a]

\* F is where the free chunks of the heap begin.
Good(m, h, lv, ls, b, F) ==
  /\ m \in Words /\ b \in Nat /\ 1 <= b /\ b <= HEAP + 1
  /\ F \subseteq Nat
  /\ Tiles(lv, ls, Chunks(m, F), b)
  /\ \A c \in lv : m[c.at] = c.size
  /\ \E r : Linked(m, h, F, r)
  /\ Merged(m, F)

Sound == \E F : Good(mem, head, live, lost, brk, F)

\* What is neither in a free chunk nor in a block of Z stays.
Spares(m, m2, F, b, Z) ==
  \A w \in 1..(b - 1) :
    (\A a \in F : w < a \/ a + m[a] <= w) /\ (\A z \in Z : w < z.at \/ z.at + z.size <= w)
      => m2[w] = m[w]

\* The first three words of the chunks of G are all that changes.
Touches(m, m2, G) ==
  \A w \in 1..HEAP : (\A a \in G : w # a /\ w # a + 1 /\ w # a + 2) => m2[w] = m[w]

LEMMA GoodFacts ==
  ASSUME HEAP \in Nat, NEW m, NEW h, NEW lv, NEW ls, NEW b, NEW F, Good(m, h, lv, ls, b, F)
  PROVE  /\ m \in Words /\ b \in Nat /\ 1 <= b /\ b <= HEAP + 1
         /\ F \subseteq Nat /\ Room(F) /\ NULL \notin F /\ HeadAt \notin F
         /\ Tiles(lv, ls, Chunks(m, F), b)
         /\ \A a \in F : m[a] \in Nat /\ 3 <= m[a] /\ 1 <= a /\ a + m[a] <= b
         /\ \A a, c \in F : a = c \/ a + m[a] <= c \/ c + m[c] <= a
         /\ \A c \in lv : /\ c.at \in Nat /\ c.size \in Nat /\ c.at >= 1 /\ c.size >= 3
                          /\ c.at + c.size <= b /\ m[c.at] = c.size /\ c = Piece(c.at, c.size)
                          /\ \A a \in F : c.at + c.size <= a \/ a + m[a] <= c.at
         /\ \A c, d \in lv : c = d \/ c.at + c.size <= d.at \/ d.at + d.size <= c.at
         /\ Merged(m, F)
<1>1. /\ m \in Words /\ b \in Nat /\ 1 <= b /\ b <= HEAP + 1
      /\ F \subseteq Nat /\ Tiles(lv, ls, Chunks(m, F), b)
      /\ \A c \in lv : m[c.at] = c.size
      /\ Merged(m, F)
  BY DEF Good
<1>2. /\ \A a \in F : m[a] \in Nat /\ 3 <= m[a] /\ 1 <= a /\ a + m[a] <= b
      /\ \A a, c \in F : a = c \/ a + m[a] <= c \/ c + m[c] <= a
      /\ Room(F)
      /\ \A p \in lv \union ls : /\ p.at \in Nat /\ p.size \in Nat /\ p.at >= 1 /\ p.size >= 3
                                 /\ p.at + p.size <= b
                                 /\ \A a \in F : p.at + p.size <= a \/ a + m[a] <= p.at
      /\ \A p, q \in lv : p = q \/ p.at + p.size <= q.at \/ q.at + q.size <= p.at
  BY <1>1, FreeFacts
<1>3. NULL \notin F /\ HeadAt \notin F
  BY <1>2 DEF Room, NULL, HeadAt
<1>4. \A c \in lv : c = Piece(c.at, c.size)
  <2>1. lv \subseteq Pieces
    BY <1>1 DEF Tiles, Tiling
  <2> QED BY <2>1 DEF Piece, Pieces
<1> QED BY <1>1, <1>2, <1>3, <1>4

\* The other blocks keep their words.
LEMMA KeepsBlocks ==
  ASSUME HEAP \in Nat, NEW m, NEW h, NEW lv, NEW ls, NEW b, NEW F, Good(m, h, lv, ls, b, F),
         NEW Z, Z \subseteq lv, NEW m2, Spares(m, m2, F, b, Z), NEW c \in lv, c \notin Z
  PROVE  (\A w \in WordsOf(c) : m2[w] = m[w]) /\ m2[c.at] = c.size
<1>1. /\ \A a \in F : m[a] \in Nat /\ a \in Nat
      /\ b \in Nat
      /\ \A d \in lv : /\ d.at \in Nat /\ d.size \in Nat /\ d.at >= 1 /\ d.size >= 3
                       /\ d.at + d.size <= b /\ m[d.at] = d.size
                       /\ \A a \in F : d.at + d.size <= a \/ a + m[a] <= d.at
      /\ \A d, e \in lv : d = e \/ d.at + d.size <= e.at \/ e.at + e.size <= d.at
  BY GoodFacts
<1>2. ASSUME NEW w \in c.at..(c.at + c.size - 1) PROVE m2[w] = m[w]
  <2>1. /\ c.at \in Nat /\ c.size \in Nat /\ c.at >= 1 /\ c.at + c.size <= b
        /\ w \in Nat /\ c.at <= w /\ w < c.at + c.size
    BY <1>1
  <2>2. w \in 1..(b - 1)
    BY <1>1, <2>1
  <2>3. ASSUME NEW a \in F PROVE w < a \/ a + m[a] <= w
    BY <1>1, <2>1
  <2>4. ASSUME NEW z \in Z PROVE w < z.at \/ z.at + z.size <= w
    <3>1. z \in lv /\ z # c
      OBVIOUS
    <3>2. z.at \in Nat /\ z.size \in Nat /\ (c.at + c.size <= z.at \/ z.at + z.size <= c.at)
      BY <1>1, <3>1
    <3> QED BY <2>1, <3>2
  <2> QED BY <2>2, <2>3, <2>4 DEF Spares
<1>3. c.at \in c.at..(c.at + c.size - 1) /\ m[c.at] = c.size
  BY <1>1
<1> QED BY <1>2, <1>3 DEF WordsOf

LEMMA TouchesSpares ==
  ASSUME HEAP \in Nat, NEW m, NEW h, NEW lv, NEW ls, NEW b, NEW F, Good(m, h, lv, ls, b, F),
         NEW c \in lv, NEW m2, Touches(m, m2, F \union {c.at})
  PROVE  Spares(m, m2, F, b, {c})
<1>1. /\ \A a \in F : m[a] \in Nat /\ 3 <= m[a] /\ a \in Nat
      /\ b \in Nat /\ b <= HEAP + 1
      /\ c.at \in Nat /\ c.size \in Nat /\ c.size >= 3
  BY GoodFacts
<1>2. ASSUME NEW w \in 1..(b - 1),
             \A a \in F : w < a \/ a + m[a] <= w, \A z \in {c} : w < z.at \/ z.at + z.size <= w
      PROVE  m2[w] = m[w]
  <2>1. w \in 1..HEAP
    BY <1>1
  <2>2. ASSUME NEW a \in F PROVE w # a /\ w # a + 1 /\ w # a + 2
    BY <1>1, <1>2
  <2>3. w # c.at /\ w # c.at + 1 /\ w # c.at + 2
    BY <1>1, <1>2
  <2> QED BY <2>1, <2>2, <2>3 DEF Touches
<1> QED BY <1>2 DEF Spares

LEMMA TouchesMore ==
  ASSUME NEW m, NEW m2, NEW m3, NEW G, NEW H, Touches(m, m2, G) \/ LinksOf(m, m2, G),
         Touches(m2, m3, H) \/ LinksOf(m2, m3, H)
  PROVE  Touches(m, m3, G \union H)
<1>1. Touches(m, m2, G) /\ Touches(m2, m3, H)
  BY DEF Touches, LinksOf
<1>2. ASSUME NEW w \in 1..HEAP, \A a \in G \union H : w # a /\ w # a + 1 /\ w # a + 2
      PROVE  m3[w] = m[w]
  <2>1. m2[w] = m[w]
    BY <1>1, <1>2 DEF Touches
  <2>2. m3[w] = m2[w]
    BY <1>1, <1>2 DEF Touches
  <2> QED BY <2>1, <2>2
<1> QED BY <1>2 DEF Touches

\* Two neighbours of G are made one.
LEMMA Joined ==
  ASSUME HEAP \in Nat, NEW m, NEW G, G \subseteq Nat, NEW L, NEW X, NEW b \in Nat, b <= HEAP + 1,
         Tiles(L, X, Chunks(m, G), b), NEW x \in G, NEW y \in G, y = x + m[x], x # y,
         NEW m2, m2[x] = m[x] + m[y], \A z \in G \ {x, y} : m2[z] = m[z]
  PROVE  Tiles(L, X, Chunks(m2, G \ {y}), b)
<1> DEFINE C == Chunks(m, G)
           n == m[x]
           k == m[y]
<1>1. n \in Nat /\ k \in Nat /\ Piece(x, n) \in C /\ Piece(y, k) \in C /\ x \in Nat
  BY FreeFacts DEF Chunks
<1>2. Tiles(L, X, (C \ {Piece(x, n), Piece(y, k)}) \union {Piece(x, n + k)}, b)
  <2>1. Piece(x + n, k) \in C /\ y = x + n /\ Tiles(L, X, C, b)
    BY <1>1
  <2> HIDE DEF C, n, k
  <2>2. Tiles(L, X, (C \ {Piece(x, n), Piece(x + n, k)}) \union {Piece(x, n + k)}, b)
    BY <1>1, <2>1, JoinFree
  <2> QED BY <2>1, <2>2
<1>3. Chunks(m2, G \ {y}) = (C \ {Piece(x, n), Piece(y, k)}) \union {Piece(x, n + k)}
  <2> DEFINE R == (G \ {y}) \ {x}
  <2>1. Chunks(m, G \ {y}) = C \ {Piece(y, k)}
    BY ChunksWithout
  <2>2. Chunks(m, R) = (C \ {Piece(y, k)}) \ {Piece(x, n)}
    BY <2>1, ChunksWithout
  <2>6. \A z \in R : m2[z] = m[z]
    OBVIOUS
  <2>3. Chunks(m2, R) = Chunks(m, R)
    <3> HIDE DEF R
    <3> QED BY <2>6, ChunksOfSame
  <2>4. Chunks(m2, R \union {x}) = Chunks(m2, R) \union {Piece(x, m2[x])}
    BY ChunksWith
  <2>5. R \union {x} = G \ {y}
    OBVIOUS
  <2> HIDE DEF R
  <2> QED BY <2>2, <2>3, <2>4, <2>5
<1> QED BY <1>2, <1>3

-----------------------------------------------------------------------------
(* memalloc keeps it                                                       *)

\* What holds of a step, whatever it does.
StepGood == \E G : Good(mem', head', live', lost', brk', G)
StepKeeps == \A c \in live \intersect live' : \A w \in WordsOf(c) : mem'[w] = mem[w]

\* The free chunk x is not in the list.
Without(m, m2, h, F, b, x) ==
  /\ \E r : Linked(m2, h, F \ {x}, r)
  /\ \A y \in F \ {x} : m2[y] = m[y]
  /\ Spares(m, m2, F, b, {})

\* A chunk that is not the first is taken out of the list and written over.
LEMMA TakenOut ==
  ASSUME HEAP \in Nat, NEW m, NEW h, NEW lv, NEW ls, NEW b, NEW F, Good(m, h, lv, ls, b, F),
         NEW x \in F, x # h, NEW m2, Within(Unlinked(m, x), m2, x, m[x])
  PROVE  Without(m, m2, h, F, b, x)
<1> DEFINE m0 == Unlinked(m, x)
<1>1. /\ m \in Words /\ b \in Nat /\ b <= HEAP + 1 /\ Room(F) /\ NULL \notin F /\ F \subseteq Nat
      /\ \A a \in F : m[a] \in Nat /\ 3 <= m[a] /\ 1 <= a /\ a + m[a] <= b
      /\ \A a, c \in F : a = c \/ a + m[a] <= c \/ c + m[c] <= a
  BY GoodFacts
<1>2. PICK r : Linked(m, h, F, r)
  BY DEF Good
<1>3. m0 \in Words /\ Spliced(m, m0, F, x) /\ LinksOf(m, m0, F)
  BY <1>1, <1>2, UnlinkFacts
<1>10. \A w \in 1..HEAP : (w < x \/ x + m[x] <= w) => m2[w] = m0[w]
  BY DEF Within
<1> HIDE DEF m0
<1>4. PICK s : Linked(m0, h, F \ {x}, s)
  BY <1>1, <1>2, <1>3, Unlinks
<1>5. \A a \in F : m0[a] = m[a] /\ a \in 1..HEAP /\ a + 1 \in 1..HEAP /\ a + 2 \in 1..HEAP
  BY <1>1, <1>3, LinksOnly
<1>6. ASSUME NEW y \in F \ {x}
      PROVE  m2[y] = m0[y] /\ m2[y + 1] = m0[y + 1] /\ m2[y + 2] = m0[y + 2]
  <2>1. /\ x \in Nat /\ y \in Nat /\ m[x] \in Nat /\ m[y] \in Nat /\ 3 <= m[x] /\ 3 <= m[y]
        /\ (x + m[x] <= y \/ y + m[y] <= x)
    BY <1>1
  <2>2. y \in 1..HEAP /\ y + 1 \in 1..HEAP /\ y + 2 \in 1..HEAP
    BY <1>5
  <2>3. /\ y < x \/ x + m[x] <= y
        /\ y + 1 < x \/ x + m[x] <= y + 1
        /\ y + 2 < x \/ x + m[x] <= y + 2
    BY <2>1
  <2> QED BY <1>10, <2>2, <2>3
<1>7. Linked(m2, h, F \ {x}, s)
  <2>1. \A y \in F \ {x} : Next(m2, y) = Next(m0, y) /\ Prev(m2, y) = Prev(m0, y)
    BY <1>6 DEF Next, Prev
  <2> QED BY <1>4, <2>1, LinkedFrame
<1>8. ASSUME NEW w \in 1..(b - 1), \A a \in F : w < a \/ a + m[a] <= w
      PROVE  m2[w] = m[w]
  <2>1. w \in 1..HEAP
    BY <1>1
  <2>2. \A a \in F : w # a + 1 /\ w # a + 2
    <3> TAKE a \in F
    <3>1. a \in Nat /\ m[a] \in Nat /\ m[a] >= 3 /\ (w < a \/ a + m[a] <= w)
      BY <1>1, <1>8
    <3> QED BY <3>1
  <2>3. m0[w] = m[w]
    BY <1>3, <2>1, <2>2 DEF LinksOf
  <2>4. m2[w] = m0[w]
    BY <1>8, <1>10, <2>1
  <2> QED BY <2>3, <2>4
<1>9. Spares(m, m2, F, b, {})
  BY <1>8 DEF Spares
<1> QED BY <1>5, <1>6, <1>7, <1>9 DEF Without

\* The blocks after a new one.
LEMMA WithBlock ==
  ASSUME HEAP \in Nat, NEW m, NEW h, NEW lv, NEW ls, NEW b, NEW F, Good(m, h, lv, ls, b, F),
         NEW m2, Spares(m, m2, F, b, {}), NEW a, NEW n, m2[a] = n
  PROVE  /\ \A c \in lv \union {Piece(a, n)} : m2[c.at] = c.size
         /\ \A c \in lv : \A w \in WordsOf(c) : m2[w] = m[w]
<1>1. ASSUME NEW c \in lv PROVE (\A w \in WordsOf(c) : m2[w] = m[w]) /\ m2[c.at] = c.size
  <2>1. {} \subseteq lv /\ c \notin {}
    OBVIOUS
  <2>2. \A Z : Z \subseteq lv /\ Spares(m, m2, F, b, Z) /\ c \notin Z =>
                (\A w \in WordsOf(c) : m2[w] = m[w]) /\ m2[c.at] = c.size
    BY KeepsBlocks
  <2> QED BY <2>1, <2>2
<1>2. Piece(a, n).at = a /\ Piece(a, n).size = n
  BY PieceFacts
<1> QED BY <1>1, <1>2

\* A block of n words at a is cut off, and k words behind it are a chunk.
IsCut(m, m2, a, n, k, x, y) ==
  /\ m2 \in Words /\ m2[a] = n /\ Within(m, m2, a, n + k)
  /\ m2[a + n] = k /\ Next(m2, a + n) = x /\ Prev(m2, a + n) = y

LEMMA CutFacts ==
  ASSUME HEAP \in Nat, NEW m \in Words, NEW a, NEW n \in Nat, NEW k \in Nat, n >= 3, k >= 3,
         InHeap(a, n + k), NEW x \in Int, NEW y \in Int
  PROVE  IsCut(m, Given(Chunk(m, a + n, k, x, y), a, n), a, n, k, x, y)
<1> DEFINE p == a + n
           m1 == Chunk(m, p, k, x, y)
           m2 == Given(m1, a, n)
<1>1. a \in Nat /\ 1 <= a /\ p \in Nat /\ p = a + n /\ p + k <= HEAP + 1 /\ InHeap(p, 3) /\ InHeap(a, n)
  BY DEF InHeap
<1> HIDE DEF p
<1>2. m1 \in Words /\ m1[p] = k /\ Next(m1, p) = x /\ Prev(m1, p) = y /\ Within(m, m1, p, 3)
  BY <1>1, ChunkFacts
<1> HIDE DEF m1
<1>3. m2 \in Words /\ m2[a] = n /\ Within(m1, m2, a, n)
  BY <1>1, <1>2, GivenFacts
<1> HIDE DEF m2
<1>4. \A w \in 1..HEAP : a + n <= w => m2[w] = m1[w]
  BY <1>3 DEF Within
<1>5. m2[p] = k /\ Next(m2, p) = x /\ Prev(m2, p) = y
  <2>1. /\ p \in 1..HEAP /\ p + 1 \in 1..HEAP /\ p + 2 \in 1..HEAP
        /\ a + n <= p /\ a + n <= p + 1 /\ a + n <= p + 2
    BY <1>1
  <2> QED BY <1>2, <1>4, <2>1 DEF Next, Prev
<1>6. Within(m, m2, a, n + k)
  <2>1. ASSUME NEW w \in 1..HEAP, w < a \/ a + (n + k) <= w PROVE m2[w] = m[w]
    <3>1. (w < a \/ a + n <= w) /\ (w < p \/ p + 3 <= w)
      BY <1>1, <2>1
    <3> QED BY <1>2, <1>3, <3>1 DEF Within
  <2> QED BY <2>1 DEF Within
<1>7. IsCut(m, m2, a, n, k, x, y)
  BY <1>1, <1>3, <1>5, <1>6 DEF IsCut
<1> QED BY <1>7 DEF m2, m1, p

\* A chunk of the list is cut, or taken whole.
LEMMA CutChunk ==
  ASSUME HEAP \in Nat, NEW h, NEW m, NEW lv, NEW ls, NEW b, NEW F, Good(m, h, lv, ls, b, F), NEW a \in F,
         NEW n \in Nat, NEW k \in Nat, n >= 3, k >= 3, m[a] = n + k
  PROVE  /\ Tiles(lv \union {Piece(a, n)}, ls \union {Piece(a + n, k)}, Chunks(m, F \ {a}), b)
         /\ Tiles(lv \union {Piece(a, n)}, ls, Chunks(m, F \ {a}) \union {Piece(a + n, k)}, b)
<1> DEFINE c == Piece(a, n + k)
           C == Chunks(m, F \ {a})
           L == lv \union {c}
<1>1. Tiles(lv, ls, Chunks(m, F), b) /\ a \in Nat /\ b \in Nat
  BY GoodFacts
<1>2. c \in Chunks(m, F) /\ C = Chunks(m, F) \ {c}
  BY ChunksWithout DEF Chunks
<1>3. Tiles(L, ls, C, b) /\ c \notin lv /\ Piece(a, n + k) \in L
  BY <1>1, <1>2, TakeWhole
<1>4. (L \ {Piece(a, n + k)}) \union {Piece(a, n)} = lv \union {Piece(a, n)}
  BY <1>3
<1> HIDE DEF c, C, L
<1>5. /\ Tiles((L \ {Piece(a, n + k)}) \union {Piece(a, n)}, ls, C \union {Piece(a + n, k)}, b)
      /\ Tiles((L \ {Piece(a, n + k)}) \union {Piece(a, n)}, ls \union {Piece(a + n, k)}, C, b)
  BY <1>1, <1>3, CutOff
<1> QED BY <1>4, <1>5 DEF C

LEMMA SplitOtherKeeps ==
  ASSUME HEAP \in Nat, NEW F, Good(mem, head, live, lost, brk, F), NEW a \in F, NEW total \in Nat,
         total >= 3, mem[a] >= total, SplitOther(a, total), UNCHANGED brk
  PROVE  StepGood /\ StepKeeps
<1> DEFINE p == a + total
           k == mem[a] - total
           m0 == Unlinked(mem, a)
           M2 == mem'
<1>1. /\ mem \in Words /\ brk \in Nat /\ 1 <= brk /\ brk <= HEAP + 1
      /\ F \subseteq Nat /\ Room(F) /\ HeadAt \notin F
      /\ \A x \in F : mem[x] \in Nat /\ 3 <= mem[x] /\ 1 <= x /\ x + mem[x] <= brk
      /\ Merged(mem, F)
  BY GoodFacts
<1>2. PICK r : Linked(mem, head, F, r)
  BY DEF Good
<1>3. /\ Splits(k) /\ Prev(mem, a) # HeadAt
      /\ M2 = Given(Chunk(m0, a + total, k, head, Prev(mem, head)), a, total)
      /\ live' = live \union {Piece(a, total)}
      /\ lost' = lost \union {Piece(p, k)} /\ head' = head
  BY DEF SplitOther, Gets, Loses
<1>4. a \in Nat /\ mem[a] \in Nat /\ k \in Nat /\ k >= 3 /\ total + k = mem[a] /\ InHeap(a, total + k)
  BY <1>1, <1>3 DEF Splits, InHeap
<1>5. a # head /\ head \in F /\ Prev(mem, head) = HeadAt /\ head \in Int /\ HeadAt \in Int
  <2>1. head \in F /\ Prev(mem, head) = HeadAt
    BY <1>2 DEF Linked
  <2> QED BY <1>1, <1>3, <2>1 DEF HeadAt
<1>6. m0 \in Words
  BY <1>1, <1>2, <1>5, UnlinkFacts
<1> HIDE DEF p, k, m0, M2
<1>7. IsCut(m0, M2, a, total, k, head, Prev(mem, head))
  BY <1>3, <1>4, <1>5, <1>6, CutFacts
<1>8. M2 \in Words /\ M2[a] = total /\ Within(m0, M2, a, mem[a])
  BY <1>4, <1>7 DEF IsCut
<1>9. Without(mem, M2, head, F, brk, a)
  BY <1>5, <1>8, TakenOut DEF m0
<1>10. /\ \E s : Linked(M2, head, F \ {a}, s)
       /\ \A y \in F \ {a} : M2[y] = mem[y]
       /\ Spares(mem, M2, F, brk, {})
  BY <1>9 DEF Without
<1>11. /\ \A d \in live' : M2[d.at] = d.size
       /\ \A d \in live : \A w \in WordsOf(d) : M2[w] = mem[w]
  BY <1>3, <1>8, <1>10, WithBlock
<1>12. Tiles(live', lost', Chunks(M2, F \ {a}), brk)
  <2>1. Tiles(live \union {Piece(a, total)}, lost \union {Piece(a + total, k)}, Chunks(mem, F \ {a}), brk)
    BY <1>4, CutChunk
  <2>2. Chunks(M2, F \ {a}) = Chunks(mem, F \ {a})
    BY <1>10, ChunksOfSame
  <2> QED BY <1>3, <2>1, <2>2 DEF p
<1>13. Merged(M2, F \ {a})
  BY <1>1, <1>10 DEF Merged
<1>14. Good(M2, head', live', lost', brk', F \ {a})
  BY <1>1, <1>3, <1>8, <1>10, <1>11, <1>12, <1>13 DEF Good
<1>15. StepGood
  BY <1>14 DEF StepGood, M2
<1>16. StepKeeps
  BY <1>11 DEF StepKeeps, M2
<1> QED BY <1>15, <1>16

LEMMA WholeOtherKeeps ==
  ASSUME HEAP \in Nat, NEW F, Good(mem, head, live, lost, brk, F), NEW a \in F, NEW total \in Nat,
         WholeOther(a, total), UNCHANGED brk
  PROVE  StepGood /\ StepKeeps
<1> DEFINE n == mem[a]
           m0 == Unlinked(mem, a)
           M2 == mem'
<1>1. /\ mem \in Words /\ brk \in Nat /\ 1 <= brk /\ brk <= HEAP + 1
      /\ F \subseteq Nat /\ Room(F) /\ HeadAt \notin F
      /\ Tiles(live, lost, Chunks(mem, F), brk)
      /\ \A x \in F : mem[x] \in Nat /\ 3 <= mem[x] /\ 1 <= x /\ x + mem[x] <= brk
      /\ Merged(mem, F)
  BY GoodFacts
<1>2. PICK r : Linked(mem, head, F, r)
  BY DEF Good
<1>3. /\ Prev(mem, a) # HeadAt /\ M2 = Given(m0, a, n)
      /\ live' = live \union {Piece(a, n)} /\ lost' = lost /\ head' = head
  BY DEF WholeOther, Gets
<1>4. InHeap(a, n) /\ n = mem[a]
  BY <1>1 DEF InHeap
<1>5. a # head
  BY <1>2, <1>3 DEF Linked
<1>6. m0 \in Words
  BY <1>1, <1>2, <1>5, UnlinkFacts
<1> HIDE DEF n, m0, M2
<1>7. M2 \in Words /\ M2[a] = n /\ Within(m0, M2, a, mem[a])
  BY <1>3, <1>4, <1>6, GivenFacts
<1>8. Without(mem, M2, head, F, brk, a)
  BY <1>5, <1>7, TakenOut DEF m0
<1>9. /\ \E s : Linked(M2, head, F \ {a}, s)
      /\ \A y \in F \ {a} : M2[y] = mem[y]
      /\ Spares(mem, M2, F, brk, {})
  BY <1>8 DEF Without
<1>10. /\ \A d \in live' : M2[d.at] = d.size
       /\ \A d \in live : \A w \in WordsOf(d) : M2[w] = mem[w]
  BY <1>3, <1>7, <1>9, WithBlock
<1>11. Tiles(live', lost', Chunks(M2, F \ {a}), brk)
  <2>1. Piece(a, n) \in Chunks(mem, F)
    BY <1>4 DEF Chunks
  <2>2. Tiles(live \union {Piece(a, n)}, lost, Chunks(mem, F) \ {Piece(a, n)}, brk)
    BY <1>1, <2>1, TakeWhole
  <2>3. Chunks(mem, F \ {a}) = Chunks(mem, F) \ {Piece(a, n)}
    BY <1>4, ChunksWithout
  <2>4. Chunks(M2, F \ {a}) = Chunks(mem, F \ {a})
    BY <1>9, ChunksOfSame
  <2> QED BY <1>3, <2>2, <2>3, <2>4
<1>12. Merged(M2, F \ {a})
  BY <1>1, <1>9 DEF Merged
<1>13. Good(M2, head', live', lost', brk', F \ {a})
  BY <1>1, <1>3, <1>7, <1>9, <1>10, <1>11, <1>12 DEF Good
<1>14. StepGood
  BY <1>13 DEF StepGood, M2
<1>15. StepKeeps
  BY <1>10 DEF StepKeeps, M2
<1> QED BY <1>14, <1>15

\* Writing into a free chunk spares the rest.
LEMMA WithinSpares ==
  ASSUME HEAP \in Nat, NEW m, NEW h, NEW lv, NEW ls, NEW b, NEW F, Good(m, h, lv, ls, b, F), NEW a \in F,
         NEW m2, Within(m, m2, a, m[a])
  PROVE  Spares(m, m2, F, b, {})
<1>1. b \in Nat /\ b <= HEAP + 1
  BY GoodFacts
<1>2. \A w \in 1..(b - 1) : w \in 1..HEAP
  BY <1>1
<1> QED BY <1>2 DEF Spares, Within

LEMMA SplitOnlyKeeps ==
  ASSUME HEAP \in Nat, NEW F, Good(mem, head, live, lost, brk, F), NEW a \in F, NEW total \in Nat,
         total >= 3, mem[a] >= total, SplitOnly(a, total), UNCHANGED brk
  PROVE  StepGood /\ StepKeeps
<1> DEFINE p == a + total
           k == mem[a] - total
           M2 == mem'
<1>1. /\ mem \in Words /\ brk \in Nat /\ 1 <= brk /\ brk <= HEAP + 1
      /\ F \subseteq Nat /\ Room(F) /\ HeadAt \notin F /\ NULL \notin F
      /\ \A x \in F : mem[x] \in Nat /\ 3 <= mem[x] /\ 1 <= x /\ x + mem[x] <= brk
  BY GoodFacts
<1>2. PICK r : Linked(mem, head, F, r)
  BY DEF Good
<1>3. /\ Splits(k) /\ Next(mem, a) = NULL /\ Prev(mem, a) = HeadAt
      /\ M2 = Given(Chunk(mem, a + total, k, NULL, HeadAt), a, total)
      /\ live' = live \union {Piece(a, total)}
      /\ lost' = lost /\ head' = p
  BY DEF SplitOnly, Gets
<1>4. a \in Nat /\ mem[a] \in Nat /\ k \in Nat /\ k >= 3 /\ total + k = mem[a] /\ InHeap(a, total + k)
  BY <1>1, <1>3 DEF Splits, InHeap
<1>5. F = {a}
  <2>1. a = head
    BY <1>1, <1>2, <1>3 DEF Linked
  <2> QED BY <1>1, <1>2, <1>3, <2>1, OnlyOne
<1>6. NULL \in Int /\ HeadAt \in Int
  BY DEF NULL, HeadAt
<1>7. p \in Nat /\ p = a + total
  BY <1>4
<1> HIDE DEF p, k, M2
<1>8. IsCut(mem, M2, a, total, k, NULL, HeadAt)
  BY <1>1, <1>3, <1>4, <1>6, CutFacts
<1>9. /\ M2 \in Words /\ M2[a] = total /\ Within(mem, M2, a, mem[a])
      /\ M2[p] = k /\ Next(M2, p) = NULL /\ Prev(M2, p) = HeadAt
  BY <1>4, <1>7, <1>8 DEF IsCut
<1>10. Spares(mem, M2, F, brk, {})
  BY <1>9, WithinSpares
<1>11. /\ \A d \in live' : M2[d.at] = d.size
       /\ \A d \in live : \A w \in WordsOf(d) : M2[w] = mem[w]
  BY <1>3, <1>9, <1>10, WithBlock
<1>12. \E s : Linked(M2, p, {p}, s)
  BY <1>9, Alone
<1>13. Tiles(live', lost', Chunks(M2, {p}), brk)
  <2>1. Tiles(live \union {Piece(a, total)}, lost, Chunks(mem, F \ {a}) \union {Piece(a + total, k)}, brk)
    BY <1>4, CutChunk
  <2>2. Chunks(mem, F \ {a}) = {}
    BY <1>5 DEF Chunks
  <2>3. Chunks(M2, {p}) = {Piece(p, k)}
    BY <1>9 DEF Chunks
  <2> QED BY <1>3, <1>7, <2>1, <2>2, <2>3
<1>14. Merged(M2, {p})
  BY <1>4, <1>7, <1>9 DEF Merged
<1>15. Good(M2, head', live', lost', brk', {p})
  BY <1>1, <1>3, <1>7, <1>9, <1>11, <1>12, <1>13, <1>14 DEF Good
<1>16. StepGood
  BY <1>15 DEF StepGood, M2
<1>17. StepKeeps
  BY <1>11 DEF StepKeeps, M2
<1> QED BY <1>16, <1>17

LEMMA WholeOnlyKeeps ==
  ASSUME HEAP \in Nat, NEW F, Good(mem, head, live, lost, brk, F), NEW a \in F, NEW total \in Nat,
         WholeOnly(a, total), UNCHANGED brk
  PROVE  StepGood /\ StepKeeps
<1> DEFINE n == mem[a]
           M2 == mem'
<1>1. /\ mem \in Words /\ brk \in Nat /\ 1 <= brk /\ brk <= HEAP + 1
      /\ F \subseteq Nat /\ Room(F) /\ HeadAt \notin F /\ NULL \notin F
      /\ Tiles(live, lost, Chunks(mem, F), brk)
      /\ \A x \in F : mem[x] \in Nat /\ 3 <= mem[x] /\ 1 <= x /\ x + mem[x] <= brk
  BY GoodFacts
<1>2. PICK r : Linked(mem, head, F, r)
  BY DEF Good
<1>3. /\ Next(mem, a) = NULL /\ Prev(mem, a) = HeadAt
      /\ M2 = Given(mem, a, n) /\ head' = NULL
      /\ live' = live \union {Piece(a, n)} /\ lost' = lost
  BY DEF WholeOnly, Gets
<1>4. InHeap(a, n) /\ n = mem[a]
  BY <1>1 DEF InHeap
<1>5. F = {a}
  <2>1. a = head
    BY <1>1, <1>2, <1>3 DEF Linked
  <2> QED BY <1>1, <1>2, <1>3, <2>1, OnlyOne
<1> HIDE DEF n, M2
<1>6. M2 \in Words /\ M2[a] = n /\ Within(mem, M2, a, mem[a])
  BY <1>1, <1>3, <1>4, GivenFacts
<1>7. Spares(mem, M2, F, brk, {})
  BY <1>6, WithinSpares
<1>8. /\ \A d \in live' : M2[d.at] = d.size
      /\ \A d \in live : \A w \in WordsOf(d) : M2[w] = mem[w]
  BY <1>3, <1>6, <1>7, WithBlock
<1>9. \E s : Linked(M2, NULL, {}, s)
  BY Empty
<1>10. Tiles(live', lost', Chunks(M2, {}), brk)
  <2>1. Chunks(mem, F) = {Piece(a, n)} /\ Chunks(M2, {}) = {}
    BY <1>4, <1>5 DEF Chunks
  <2>2. Tiles(live \union {Piece(a, n)}, lost, Chunks(mem, F) \ {Piece(a, n)}, brk)
    BY <1>1, <2>1, TakeWhole
  <2>3. Chunks(mem, F) \ {Piece(a, n)} = {}
    BY <2>1
  <2> QED BY <1>3, <2>1, <2>2, <2>3
<1>11. Merged(M2, {})
  BY DEF Merged
<1>12. Good(M2, head', live', lost', brk', {})
  BY <1>1, <1>3, <1>6, <1>8, <1>9, <1>10, <1>11 DEF Good
<1>13. StepGood
  BY <1>12 DEF StepGood, M2
<1>14. StepKeeps
  BY <1>8 DEF StepKeeps, M2
<1> QED BY <1>13, <1>14

\* Beyond the chunks that there are, nothing is touched.
LEMMA BeyondFacts ==
  ASSUME HEAP \in Nat, NEW m, NEW h, NEW lv, NEW ls, NEW b, NEW F, Good(m, h, lv, ls, b, F),
         NEW n, NEW m2, Within(m, m2, b, n)
  PROVE  /\ \E r : Linked(m2, h, F, r)
         /\ \A y \in F : m2[y] = m[y]
         /\ Spares(m, m2, F, b, {})
<1>1. /\ b \in Nat /\ b <= HEAP + 1 /\ F \subseteq Nat
      /\ \A a \in F : m[a] \in Nat /\ 3 <= m[a] /\ 1 <= a /\ a + m[a] <= b
  BY GoodFacts
<1>2. PICK r : Linked(m, h, F, r)
  BY DEF Good
<1>3. \A w \in 1..(b - 1) : m2[w] = m[w]
  BY <1>1 DEF Within
<1>4. \A y \in F : m2[y] = m[y] /\ m2[y + 1] = m[y + 1] /\ m2[y + 2] = m[y + 2]
  <2> TAKE y \in F
  <2>1. y \in 1..(b - 1) /\ y + 1 \in 1..(b - 1) /\ y + 2 \in 1..(b - 1)
    BY <1>1
  <2> QED BY <1>3, <2>1
<1>5. Linked(m2, h, F, r)
  <2>1. \A y \in F : Next(m2, y) = Next(m, y) /\ Prev(m2, y) = Prev(m, y)
    BY <1>4 DEF Next, Prev
  <2> QED BY <1>2, <2>1, LinkedFrame
<1>6. Spares(m, m2, F, b, {})
  BY <1>3 DEF Spares
<1> QED BY <1>4, <1>5, <1>6

\* A block, and a chunk behind it, are got from sbrk.
LEMMA NewTiles ==
  ASSUME NEW L, NEW X, NEW C, NEW b \in Nat, b >= 1, Tiles(L, X, C, b),
         NEW n \in Nat, NEW k \in Nat, n >= 3, k >= 3
  PROVE  /\ Tiles(L \union {Piece(b, n)}, X \union {Piece(b + n, k)}, C, b + (n + k))
         /\ Tiles(L \union {Piece(b, n)}, X, C \union {Piece(b + n, k)}, b + (n + k))
<1> DEFINE c == Piece(b, n + k)
           L2 == L \union {c}
           d == b + (n + k)
<1>1. n + k \in Nat /\ n + k >= 3 /\ d \in Nat
  OBVIOUS
<1>2. Tiles(L2, X, C, d) /\ c \notin L
  BY <1>1, AddPiece
<1>3. Piece(b, n + k) \in L2 /\ (L2 \ {Piece(b, n + k)}) \union {Piece(b, n)} = L \union {Piece(b, n)}
  BY <1>2
<1> HIDE DEF L2, d
<1>4. /\ Tiles((L2 \ {Piece(b, n + k)}) \union {Piece(b, n)}, X, C \union {Piece(b + n, k)}, d)
      /\ Tiles((L2 \ {Piece(b, n + k)}) \union {Piece(b, n)}, X \union {Piece(b + n, k)}, C, d)
  BY <1>1, <1>2, <1>3, CutOff
<1> QED BY <1>3, <1>4 DEF d

LEMMA FurtherChunkKeeps ==
  ASSUME HEAP \in Nat, CHUNK \in Nat, CHUNK > 3, NEW F, Good(mem, head, live, lost, brk, F),
         NEW total \in Nat, total >= 3, FurtherChunk(total)
  PROVE  StepGood /\ StepKeeps
<1> DEFINE K == ChunkFor(total)
           k == K - total
           M2 == mem'
<1>1. /\ mem \in Words /\ brk \in Nat /\ 1 <= brk /\ brk <= HEAP + 1
      /\ F \subseteq Nat /\ Room(F)
      /\ Tiles(live, lost, Chunks(mem, F), brk)
      /\ Merged(mem, F)
  BY GoodFacts
<1>2. PICK r : Linked(mem, head, F, r)
  BY DEF Good
<1>3. K \in Nat /\ K >= total /\ k \in Int /\ K = total + k
  <2>1. K \in Nat /\ K >= total
    BY ChunkForFacts
  <2> HIDE DEF K
  <2> QED BY <2>1
<1>4. head # NULL /\ brk + K <= HEAP + 1 /\ brk' = brk + K /\ head' = head
  BY DEF FurtherChunk, Extends
<1>5. /\ Splits(k) => /\ M2 = Given(Chunk(mem, brk + total, k, head, Prev(mem, head)), brk, total)
                      /\ live' = live \union {Piece(brk, total)}
                      /\ lost' = lost \union {Piece(brk + total, k)}
      /\ ~Splits(k) => /\ M2 = Given(mem, brk, K) /\ live' = live \union {Piece(brk, K)} /\ lost' = lost
  BY DEF FurtherChunk, Gets, Loses
<1>6. head \in F /\ Prev(mem, head) = HeadAt /\ head \in Int /\ HeadAt \in Int
  <2>1. head \in F /\ Prev(mem, head) = HeadAt
    BY <1>2, <1>4 DEF Linked
  <2> QED BY <1>1, <2>1 DEF HeadAt
<1>7. InHeap(brk, K)
  BY <1>1, <1>3, <1>4 DEF InHeap
<1> HIDE DEF K, k, M2
<1> DEFINE Ok == \E n : /\ M2 \in Words /\ M2[brk] = n /\ Within(mem, M2, brk, K)
                        /\ live' = live \union {Piece(brk, n)}
                        /\ Tiles(live', lost', Chunks(mem, F), brk + K)
<1>8. Ok
  <2>1. CASE Splits(k)
    <3>1. k \in Nat /\ k >= 3 /\ InHeap(brk, total + k)
      BY <1>3, <1>7, <2>1 DEF Splits
    <3>2. IsCut(mem, M2, brk, total, k, head, Prev(mem, head))
      BY <1>1, <1>5, <1>6, <2>1, <3>1, CutFacts
    <3>3. M2 \in Words /\ M2[brk] = total /\ Within(mem, M2, brk, K)
      BY <1>3, <3>2 DEF IsCut
    <3>4. Tiles(live', lost', Chunks(mem, F), brk + K)
      <4>1. Tiles(live \union {Piece(brk, total)}, lost \union {Piece(brk + total, k)}, Chunks(mem, F),
                  brk + (total + k))
        BY <1>1, <3>1, NewTiles
      <4> QED BY <1>3, <1>5, <2>1, <4>1
    <3> QED BY <1>5, <2>1, <3>3, <3>4
  <2>2. CASE ~Splits(k)
    <3>1. M2 \in Words /\ M2[brk] = K /\ Within(mem, M2, brk, K)
      BY <1>1, <1>5, <1>7, <2>2, GivenFacts
    <3>2. Tiles(live', lost', Chunks(mem, F), brk + K)
      BY <1>1, <1>3, <1>5, <2>2, AddPiece
    <3> QED BY <1>5, <2>2, <3>1, <3>2
  <2> QED BY <2>1, <2>2
<1>9. PICK n : /\ M2 \in Words /\ M2[brk] = n /\ Within(mem, M2, brk, K)
               /\ live' = live \union {Piece(brk, n)}
               /\ Tiles(live', lost', Chunks(mem, F), brk + K)
  BY <1>8
<1>10. /\ \E s : Linked(M2, head, F, s)
       /\ \A y \in F : M2[y] = mem[y]
       /\ Spares(mem, M2, F, brk, {})
  BY <1>9, BeyondFacts
<1>11. /\ \A d \in live' : M2[d.at] = d.size
       /\ \A d \in live : \A w \in WordsOf(d) : M2[w] = mem[w]
  BY <1>9, <1>10, WithBlock
<1>12. Tiles(live', lost', Chunks(M2, F), brk')
  <2>1. Chunks(M2, F) = Chunks(mem, F)
    BY <1>10, ChunksOfSame
  <2> QED BY <1>4, <1>9, <2>1
<1>13. Merged(M2, F)
  BY <1>1, <1>10 DEF Merged
<1>14. brk' \in Nat /\ 1 <= brk' /\ brk' <= HEAP + 1
  BY <1>1, <1>3, <1>4
<1>15. Good(M2, head', live', lost', brk', F)
  BY <1>1, <1>4, <1>9, <1>10, <1>11, <1>12, <1>13, <1>14 DEF Good
<1>16. StepGood
  BY <1>15 DEF StepGood, M2
<1>17. StepKeeps
  BY <1>11 DEF StepKeeps, M2
<1> QED BY <1>16, <1>17

LEMMA FirstChunkKeeps ==
  ASSUME HEAP \in Nat, CHUNK \in Nat, CHUNK > 3, NEW F, Good(mem, head, live, lost, brk, F),
         NEW total \in Nat, total >= 3, FirstChunk(total)
  PROVE  StepGood /\ StepKeeps
<1> DEFINE K == ChunkFor(total)
           k == K - total
           p == brk + total
           M2 == mem'
<1>1. /\ mem \in Words /\ brk \in Nat /\ 1 <= brk /\ brk <= HEAP + 1
      /\ NULL \notin F
      /\ Tiles(live, lost, Chunks(mem, F), brk)
  BY GoodFacts
<1>2. PICK r : Linked(mem, head, F, r)
  BY DEF Good
<1>3. K \in Nat /\ K >= total /\ k \in Int /\ K = total + k
  <2>1. K \in Nat /\ K >= total
    BY ChunkForFacts
  <2> HIDE DEF K
  <2> QED BY <2>1
<1>4. head = NULL /\ brk + K <= HEAP + 1 /\ brk' = brk + K /\ lost' = lost
  BY DEF FirstChunk, Extends
<1>5. /\ k >= 4 => /\ M2 = Given(Chunk(mem, brk + total, k, NULL, HeadAt), brk, total)
                   /\ live' = live \union {Piece(brk, total)}
                   /\ head' = p
      /\ ~(k >= 4) => /\ M2 = Given(mem, brk, K) /\ live' = live \union {Piece(brk, K)} /\ head' = NULL
  BY DEF FirstChunk, Gets
<1>6. F = {}
  BY <1>1, <1>2, <1>4 DEF Linked
<1>7. InHeap(brk, K) /\ NULL \in Int /\ HeadAt \in Int /\ p \in Nat /\ p = brk + total
  BY <1>1, <1>3, <1>4 DEF InHeap, NULL, HeadAt
<1>8. Chunks(mem, F) = {}
  BY <1>6 DEF Chunks
<1> HIDE DEF K, k, M2, p
<1> DEFINE Ok == \E n, G : /\ M2 \in Words /\ M2[brk] = n /\ Within(mem, M2, brk, K)
                           /\ live' = live \union {Piece(brk, n)}
                           /\ G \subseteq Nat /\ Tiles(live', lost', Chunks(M2, G), brk + K)
                           /\ (\E s : Linked(M2, head', G, s)) /\ Merged(M2, G)
<1>9. Ok
  <2>1. CASE k >= 4
    <3>1. k \in Nat /\ k >= 3 /\ InHeap(brk, total + k)
      BY <1>3, <1>7, <2>1
    <3>2. IsCut(mem, M2, brk, total, k, NULL, HeadAt)
      BY <1>1, <1>5, <1>7, <2>1, <3>1, CutFacts
    <3>3. /\ M2 \in Words /\ M2[brk] = total /\ Within(mem, M2, brk, K)
          /\ M2[p] = k /\ Next(M2, p) = NULL /\ Prev(M2, p) = HeadAt
      BY <1>3, <1>7, <3>2 DEF IsCut
    <3>4. Tiles(live', lost', Chunks(M2, {p}), brk + K)
      <4>1. Tiles(live \union {Piece(brk, total)}, lost, Chunks(mem, F) \union {Piece(brk + total, k)},
                  brk + (total + k))
        BY <1>1, <3>1, NewTiles
      <4>2. Chunks(M2, {p}) = {Piece(p, k)}
        BY <3>3 DEF Chunks
      <4> QED BY <1>3, <1>4, <1>5, <1>7, <1>8, <2>1, <4>1, <4>2
    <3>5. \E s : Linked(M2, head', {p}, s)
      BY <1>5, <2>1, <3>3, Alone
    <3>6. Merged(M2, {p})
      BY <1>7, <3>1, <3>3 DEF Merged
    <3>7. {p} \subseteq Nat
      BY <1>7
    <3> QED BY <1>5, <2>1, <3>3, <3>4, <3>5, <3>6, <3>7
  <2>2. CASE ~(k >= 4)
    <3>1. M2 \in Words /\ M2[brk] = K /\ Within(mem, M2, brk, K)
      BY <1>1, <1>5, <1>7, <2>2, GivenFacts
    <3>2. Tiles(live', lost', Chunks(M2, {}), brk + K)
      <4>1. Tiles(live \union {Piece(brk, K)}, lost, Chunks(mem, F), brk + K)
        BY <1>1, <1>3, AddPiece
      <4>2. Chunks(M2, {}) = {}
        BY DEF Chunks
      <4> QED BY <1>4, <1>5, <1>8, <2>2, <4>1, <4>2
    <3>3. \E s : Linked(M2, head', {}, s)
      BY <1>5, <2>2, Empty
    <3>4. Merged(M2, {}) /\ {} \subseteq Nat
      BY DEF Merged
    <3> QED BY <1>5, <2>2, <3>1, <3>2, <3>3, <3>4
  <2> QED BY <2>1, <2>2
<1>10. PICK n, G : /\ M2 \in Words /\ M2[brk] = n /\ Within(mem, M2, brk, K)
                   /\ live' = live \union {Piece(brk, n)}
                   /\ G \subseteq Nat /\ Tiles(live', lost', Chunks(M2, G), brk + K)
                   /\ (\E s : Linked(M2, head', G, s)) /\ Merged(M2, G)
  BY <1>9
<1>11. Spares(mem, M2, F, brk, {})
  BY <1>10, BeyondFacts
<1>12. /\ \A d \in live' : M2[d.at] = d.size
       /\ \A d \in live : \A w \in WordsOf(d) : M2[w] = mem[w]
  BY <1>10, <1>11, WithBlock
<1>13. brk' \in Nat /\ 1 <= brk' /\ brk' <= HEAP + 1
  BY <1>1, <1>3, <1>4
<1>14. Good(M2, head', live', lost', brk', G)
  BY <1>4, <1>10, <1>12, <1>13 DEF Good
<1>15. StepGood
  BY <1>14 DEF StepGood, M2
<1>16. StepKeeps
  BY <1>12 DEF StepKeeps, M2
<1> QED BY <1>15, <1>16

-----------------------------------------------------------------------------
(* memfree keeps it                                                        *)

LEMMA WithinTouches ==
  ASSUME HEAP \in Nat, NEW m, NEW m2, NEW a \in Nat, Within(m, m2, a, 3), NEW F
  PROVE  Touches(m, m2, F \union {a})
<1>1. ASSUME NEW w \in 1..HEAP, \A x \in F \union {a} : w # x /\ w # x + 1 /\ w # x + 2 PROVE m2[w] = m[w]
  <2>1. w # a /\ w # a + 1 /\ w # a + 2
    BY <1>1
  <2>2. w < a \/ a + 3 <= w
    BY <2>1
  <2> QED BY <2>2 DEF Within
<1> QED BY <1>1 DEF Touches

\* A block as a chunk that is free.
LEMMA FreedFacts ==
  ASSUME HEAP \in Nat, NEW F, Good(mem, head, live, lost, brk, F), NEW c \in live
  PROVE  LET a == c.at
         IN  /\ a \in Nat /\ a \notin F /\ F \union {a} \subseteq Nat
             /\ Tiles(live \ {c}, lost, Chunks(mem, F \union {a}), brk)
             /\ Room(F \union {a})
             /\ \A x \in F \union {a} : mem[x] \in Nat /\ 3 <= mem[x] /\ 1 <= x /\ x + mem[x] <= brk
             /\ \A x, y \in F \union {a} : x = y \/ x + mem[x] <= y \/ y + mem[y] <= x
<1> DEFINE a == c.at
<1>1. /\ brk \in Nat /\ brk <= HEAP + 1 /\ F \subseteq Nat
      /\ Tiles(live, lost, Chunks(mem, F), brk)
      /\ \A x \in F : mem[x] \in Nat /\ 3 <= mem[x]
  BY GoodFacts
<1>2. /\ a \in Nat /\ c.size \in Nat /\ c.size >= 3 /\ mem[a] = c.size /\ c = Piece(c.at, c.size)
      /\ \A x \in F : c.at + c.size <= x \/ x + mem[x] <= c.at
  BY GoodFacts
<1>3. c = Piece(a, mem[a])
  BY <1>2
<1>4. a \notin F
  BY <1>1, <1>2
<1>5. Tiles(live \ {c}, lost, Chunks(mem, F) \union {c}, brk)
  BY <1>1, GiveBack
<1>6. Chunks(mem, F \union {a}) = Chunks(mem, F) \union {c}
  <2> HIDE DEF a
  <2>1. Chunks(mem, F \union {a}) = Chunks(mem, F) \union {Piece(a, mem[a])}
    BY ChunksWith
  <2> QED BY <1>3, <2>1
<1>7. F \union {a} \subseteq Nat
  BY <1>1, <1>2
<1> DEFINE G == F \union {a}
<1>8. Tiles(live \ {c}, lost, Chunks(mem, G), brk) /\ G \subseteq Nat
  BY <1>5, <1>6, <1>7
<1> HIDE DEF G
<1>9. /\ Room(G)
      /\ \A x \in G : mem[x] \in Nat /\ 3 <= mem[x] /\ 1 <= x /\ x + mem[x] <= brk
      /\ \A x, y \in G : x = y \/ x + mem[x] <= y \/ y + mem[y] <= x
  BY <1>1, <1>8, FreeFacts
<1> QED BY <1>2, <1>4, <1>8, <1>9 DEF G

\* What is left to show of a step that frees c.
LEMMA FreedKeeps ==
  ASSUME HEAP \in Nat, NEW F, Good(mem, head, live, lost, brk, F), NEW c \in live,
         live' = live \ {c}, UNCHANGED <<brk, lost>>, NEW M, M = mem', M \in Words,
         Touches(mem, M, F \union {c.at}),
         NEW G, G \subseteq Nat, Tiles(live \ {c}, lost, Chunks(M, G), brk),
         \E s : Linked(M, head', G, s), Merged(M, G)
  PROVE  StepGood /\ StepKeeps
<1>1. brk \in Nat /\ 1 <= brk /\ brk <= HEAP + 1
  BY GoodFacts
<1>2. Spares(mem, M, F, brk, {c})
  BY TouchesSpares
<1>3. \A d \in live' : (\A w \in WordsOf(d) : M[w] = mem[w]) /\ M[d.at] = d.size
  <2> SUFFICES ASSUME NEW d \in live' PROVE (\A w \in WordsOf(d) : M[w] = mem[w]) /\ M[d.at] = d.size
    OBVIOUS
  <2>1. d \in live /\ d \notin {c} /\ {c} \subseteq live
    OBVIOUS
  <2>2. \A x, Z : Z \subseteq live /\ Spares(mem, x, F, brk, Z) /\ d \notin Z =>
                (\A w \in WordsOf(d) : x[w] = mem[w]) /\ x[d.at] = d.size
    <3> TAKE x, Z
    <3> HAVE Z \subseteq live /\ Spares(mem, x, F, brk, Z) /\ d \notin Z
    <3> QED BY <2>1, KeepsBlocks
  <2> QED BY <1>2, <2>1, <2>2
<1>4. Good(M, head', live', lost', brk', G)
  BY <1>1, <1>3 DEF Good
<1>5. StepGood
  BY <1>4 DEF StepGood
<1>6. StepKeeps
  BY <1>3 DEF StepKeeps
<1> QED BY <1>5, <1>6

\* A chunk that is as large as before, and n words more.
Enlarged(m, t, n) == [m EXCEPT ![t] = @ + n]

IsEnlarged(m, g, G, t, n) ==
  /\ g \in Words /\ g[t] = m[t] + n
  /\ \A z \in G \ {t} : g[z] = m[z]
  /\ \A z \in G : Next(g, z) = Next(m, z) /\ Prev(g, z) = Prev(m, z)
  /\ Touches(m, g, G)

LEMMA AddSize ==
  ASSUME HEAP \in Nat, NEW m \in Words, NEW G, Room(G), NEW t \in G, NEW n \in Int
  PROVE  IsEnlarged(m, Enlarged(m, t, n), G, t, n)
<1> DEFINE g == Enlarged(m, t, n)
<1>1. \A z \in G : z \in Nat /\ z \in 1..HEAP /\ z + 1 \in 1..HEAP /\ z + 2 \in 1..HEAP
  BY DEF Room
<1>2. \A z \in G : z = t \/ z + 3 <= t \/ t + 3 <= z
  BY DEF Room
<1>3. g \in Words /\ g[t] = m[t] + n /\ \A w \in 1..HEAP : w # t => g[w] = m[w]
  BY <1>1 DEF Words, Enlarged
<1> HIDE DEF g
<1>4. \A z \in G : Next(g, z) = Next(m, z) /\ Prev(g, z) = Prev(m, z)
  <2> TAKE z \in G
  <2>1. z + 1 # t /\ z + 2 # t
    BY <1>1, <1>2
  <2> QED BY <1>1, <1>3, <2>1 DEF Next, Prev
<1>5. \A z \in G \ {t} : g[z] = m[z]
  BY <1>1, <1>3
<1>6. Touches(m, g, G)
  BY <1>3 DEF Touches
<1> QED BY <1>3, <1>4, <1>5, <1>6 DEF g, IsEnlarged

\* A chunk that grows, and becomes the first.
GrewTo(m, m2, F, t, n) ==
  /\ m2 \in Words /\ m2[t] = m[t] + n
  /\ \A z \in F \ {t} : m2[z] = m[z]
  /\ \E s : Linked(m2, t, F, s)
  /\ Touches(m, m2, F)

LEMMA GrowsFirst ==
  ASSUME HEAP \in Nat, NEW m \in Words, NEW F, Room(F), NEW t \in F, NEW r, Linked(m, t, F, r), NEW n \in Int
  PROVE  GrewTo(m, Grown(m, t, n), F, t, n)
<1> DEFINE g == Enlarged(m, t, n)
<1>1. Prev(m, t) = HeadAt
  BY DEF Linked
<1>2. Grown(m, t, n) = g
  BY <1>1 DEF Grown, Enlarged
<1>3. /\ g \in Words /\ g[t] = m[t] + n
      /\ \A z \in F \ {t} : g[z] = m[z]
      /\ \A z \in F : Next(g, z) = Next(m, z) /\ Prev(g, z) = Prev(m, z)
      /\ Touches(m, g, F)
  BY AddSize DEF IsEnlarged
<1> HIDE DEF g
<1>4. Linked(g, t, F, r)
  BY <1>3, LinkedFrame
<1> QED BY <1>2, <1>3, <1>4 DEF GrewTo

LEMMA Grows ==
  ASSUME HEAP \in Nat, NEW m \in Words, NEW F, Room(F), NEW t \in F, NEW r, Linked(m, head, F, r),
         NEW n \in Int
  PROVE  GrewTo(m, Grown(m, t, n), F, t, n)
<1>1. CASE t = head
  BY <1>1, GrowsFirst
<1>2. CASE t # head
  <2> DEFINE g == Enlarged(m, t, n)
             u == Unlinked(g, t)
             R == F \ {t}
  <2>1. F \subseteq Nat /\ NULL \notin F /\ HeadAt \notin F /\ t # NULL
    BY DEF Room, NULL, HeadAt
  <2>2. Prev(m, t) # HeadAt
    BY <1>2, <2>1, LinkFacts
  <2>3. /\ g \in Words /\ g[t] = m[t] + n
        /\ \A z \in F \ {t} : g[z] = m[z]
        /\ \A z \in F : Next(g, z) = Next(m, z) /\ Prev(g, z) = Prev(m, z)
        /\ Touches(m, g, F)
    BY AddSize DEF IsEnlarged
  <2>4. Grown(m, t, n) = ToFront(u, t)
    BY <2>2 DEF Grown, Enlarged
  <2> HIDE DEF g
  <2>5. Linked(g, head, F, r)
    BY <2>3, LinkedFrame
  <2>6. u \in Words /\ Spliced(g, u, F, t) /\ LinksOf(g, u, F)
    BY <1>2, <2>3, <2>5, UnlinkFacts
  <2> HIDE DEF u
  <2>7. PICK s : Linked(u, head, F \ {t}, s)
    BY <1>2, <2>1, <2>5, <2>6, Unlinks
  <2>8. R \union {t} = F /\ t \notin R /\ head \in R /\ head # NULL /\ NULL \notin R
    <3>1. head \in F
      BY DEF Linked
    <3> QED BY <1>2, <2>1, <3>1
  <2>9. Linked(u, head, R, s)
    BY <2>7
  <2> HIDE DEF R
  <2> DEFINE M == ToFront(u, t)
  <2>10. Room(R \union {t})
    BY <2>8
  <2>11. M \in Words /\ Fronted(u, M, R, head, t) /\ LinksOf(u, M, R \union {t})
    BY <2>6, <2>8, <2>10, FrontFacts
  <2> HIDE DEF M
  <2>12. \E q : Linked(M, t, R \union {t}, q)
    BY <2>1, <2>8, <2>9, <2>11, Fronts
  <2>13. LinksOf(u, M, F)
    BY <2>8, <2>11
  <2>14. \A z \in F : u[z] = g[z] /\ M[z] = u[z]
    BY <2>6, <2>13, LinksOnly
  <2>15. Touches(m, u, F \union F)
    BY <2>3, <2>6, TouchesMore
  <2>16. Touches(m, M, (F \union F) \union F)
    BY <2>13, <2>15, TouchesMore
  <2>17. (F \union F) \union F = F
    OBVIOUS
  <2>18. GrewTo(m, M, F, t, n)
    BY <2>3, <2>8, <2>11, <2>12, <2>14, <2>16, <2>17 DEF GrewTo
  <2> QED BY <2>4, <2>18 DEF M
<1> QED BY <1>1, <1>2

LEMMA FreeAloneKeeps ==
  ASSUME HEAP \in Nat, NEW F, Good(mem, head, live, lost, brk, F), NEW c \in live,
         FreeAlone(c.at), live' = live \ {c}, UNCHANGED <<brk, lost>>
  PROVE  StepGood /\ StepKeeps
<1> DEFINE a == c.at
           G == F \union {a}
           M == mem'
<1>1. mem \in Words /\ Room(F) /\ NULL \notin F /\ Merged(mem, F)
  BY GoodFacts
<1>2. PICK r : Linked(mem, head, F, r)
  BY DEF Good
<1>3. /\ a \in Nat /\ a \notin F /\ G \subseteq Nat /\ Room(G)
      /\ Tiles(live \ {c}, lost, Chunks(mem, G), brk)
      /\ \A x \in G : mem[x] \in Nat /\ 3 <= mem[x]
  BY FreedFacts
<1>4. InList = F
  BY <1>1, <1>2, WalkFacts
<1>5. \A t \in F : t + mem[t] # a /\ t # a + mem[a]
  BY <1>4 DEF FreeAlone, Left, Right
<1>6. /\ head' = a
      /\ head = NULL => M = Chunk(mem, a, mem[a], NULL, HeadAt)
      /\ head # NULL => M = ToFront(mem, a)
  BY DEF FreeAlone
<1>7. a \in G /\ \A x \in F : x \in G
  OBVIOUS
<1>8. a # NULL /\ InHeap(a, 3)
  BY <1>3, <1>7 DEF InHeap, Room, NULL
<1>9. G = F \union {a} /\ G = F \union {c.at}
  OBVIOUS
<1> HIDE DEF a, G, M
<1>10. /\ M \in Words /\ Touches(mem, M, G)
       /\ \A x \in G : M[x] = mem[x]
       /\ \E s : Linked(M, a, G, s)
  <2>1. CASE head = NULL
    <3>1. F = {}
      BY <1>1, <1>2, <2>1 DEF Linked
    <3>2. mem[a] \in Int /\ NULL \in Int /\ HeadAt \in Int
      BY <1>3, <1>7 DEF NULL, HeadAt
    <3>3. M \in Words /\ M[a] = mem[a] /\ Next(M, a) = NULL /\ Prev(M, a) = HeadAt /\ Within(mem, M, a, 3)
      BY <1>1, <1>6, <1>8, <2>1, <3>2, ChunkFacts
    <3>4. Touches(mem, M, F \union {a})
      BY <1>3, <3>3, WithinTouches
    <3>5. G = {a}
      BY <1>9, <3>1
    <3>6. \E s : Linked(M, a, {a}, s)
      BY <3>3, Alone
    <3> QED BY <1>9, <3>3, <3>4, <3>5, <3>6
  <2>2. CASE head # NULL
    <3>1. head \in F
      BY <1>2, <2>2 DEF Linked
    <3>2. M \in Words /\ Fronted(mem, M, F, head, a) /\ LinksOf(mem, M, F \union {a})
      BY <1>1, <1>3, <1>6, <1>9, <2>2, <3>1, FrontFacts
    <3>3. \E s : Linked(M, a, F \union {a}, s)
      BY <1>1, <1>2, <1>3, <1>8, <2>2, <3>2, Fronts
    <3>4. \A x \in G : M[x] = mem[x]
      BY <1>3, <1>9, <3>2, LinksOnly
    <3>5. Touches(mem, M, G)
      BY <1>9, <3>2 DEF Touches, LinksOf
    <3> QED BY <1>9, <3>2, <3>3, <3>4, <3>5
  <2> QED BY <2>1, <2>2
<1>11. Tiles(live \ {c}, lost, Chunks(M, G), brk)
  <2>1. Chunks(M, G) = Chunks(mem, G)
    BY <1>10, ChunksOfSame
  <2> QED BY <1>3, <2>1
<1>12. Merged(M, G)
  <2>1. ASSUME NEW x \in G, NEW y \in G PROVE y # x + M[x]
    <3>1. M[x] = mem[x] /\ mem[x] \in Nat /\ 3 <= mem[x] /\ x \in Nat /\ y \in Nat
      BY <1>3, <1>10
    <3>2. CASE x \in F /\ y \in F
      BY <1>1, <3>1, <3>2 DEF Merged
    <3>3. CASE x = a /\ y = a
      BY <3>1, <3>3
    <3>4. CASE (x = a /\ y \in F) \/ (x \in F /\ y = a)
      BY <1>5, <3>1, <3>4
    <3> QED BY <1>9, <3>2, <3>3, <3>4
  <2> QED BY <2>1 DEF Merged
<1>13. Touches(mem, M, F \union {c.at}) /\ M \in Words /\ \E s : Linked(M, head', G, s)
  BY <1>6, <1>9, <1>10
<1>14. G \subseteq Nat /\ M = mem'
  BY <1>3 DEF M
<1> QED BY <1>11, <1>12, <1>13, <1>14, FreedKeeps

LEMMA FreeIntoLeftKeeps ==
  ASSUME HEAP \in Nat, NEW F, Good(mem, head, live, lost, brk, F), NEW c \in live,
         FreeIntoLeft(c.at), live' = live \ {c}, UNCHANGED <<brk, lost>>
  PROVE  StepGood /\ StepKeeps
<1> DEFINE a == c.at
           G == F \union {a}
           M == mem'
           n == mem[a]
<1>1. /\ mem \in Words /\ Room(F) /\ NULL \notin F /\ Merged(mem, F)
      /\ brk \in Nat /\ brk <= HEAP + 1 /\ F \subseteq Nat
  BY GoodFacts
<1>2. PICK r : Linked(mem, head, F, r)
  BY DEF Good
<1>3. /\ a \in Nat /\ a \notin F /\ G \subseteq Nat
      /\ Tiles(live \ {c}, lost, Chunks(mem, G), brk)
      /\ \A x \in G : mem[x] \in Nat /\ 3 <= mem[x]
  BY FreedFacts
<1>4. InList = F
  BY <1>1, <1>2, WalkFacts
<1>5. \A t \in F : t # a + n
  BY <1>4 DEF FreeIntoLeft, Right
<1>6. PICK t \in F : t + mem[t] = a /\ M = Grown(mem, t, n) /\ head' = t
  BY <1>4 DEF FreeIntoLeft, Left
<1>7. G = F \union {a} /\ G = F \union {c.at} /\ a \in G /\ t \in G /\ G \ {a} = F /\ t # a /\ n = mem[a]
  BY <1>3
<1> HIDE DEF a, G, M, n
<1>8. n \in Nat /\ n >= 3 /\ n \in Int
  BY <1>3, <1>7
<1>9. GrewTo(mem, M, F, t, n)
  BY <1>1, <1>2, <1>6, <1>8, Grows
<1>10. /\ M \in Words /\ M[t] = mem[t] + n /\ Touches(mem, M, F)
       /\ \A z \in F \ {t} : M[z] = mem[z]
       /\ \E s : Linked(M, t, F, s)
  BY <1>9 DEF GrewTo
<1>11. Tiles(live \ {c}, lost, Chunks(M, G \ {a}), brk)
  <2>1. /\ a = t + mem[t] /\ M[t] = mem[t] + mem[a]
        /\ \A z \in G \ {t, a} : M[z] = mem[z]
    BY <1>6, <1>7, <1>10
  <2> QED BY <1>1, <1>3, <1>7, <2>1, Joined
<1>12. Touches(mem, M, F \union {c.at})
  BY <1>10 DEF Touches
<1>13. Merged(M, F)
  <2>1. ASSUME NEW x \in F, NEW y \in F PROVE y # x + M[x]
    <3>1. /\ mem[x] \in Nat /\ x \in Nat /\ y \in Nat /\ mem[t] \in Nat /\ t \in Nat
          /\ y # x + mem[x] /\ y # a + n
      BY <1>1, <1>3, <1>5, <1>7 DEF Merged
    <3>2. CASE x = t
      BY <1>6, <1>8, <1>10, <3>1, <3>2
    <3>3. CASE x # t
      BY <1>10, <3>1, <3>3
    <3> QED BY <3>2, <3>3
  <2> QED BY <2>1 DEF Merged
<1>14. Tiles(live \ {c}, lost, Chunks(M, F), brk)
  BY <1>7, <1>11
<1> QED BY <1>1, <1>6, <1>10, <1>12, <1>13, <1>14, FreedKeeps DEF M

LEMMA FreeBetweenKeeps ==
  ASSUME HEAP \in Nat, NEW F, Good(mem, head, live, lost, brk, F), NEW c \in live,
         FreeBetween(c.at), live' = live \ {c}, UNCHANGED <<brk, lost>>
  PROVE  StepGood /\ StepKeeps
<1> DEFINE a == c.at
           G == F \union {a}
           M == mem'
           n == mem[a]
<1>1. /\ mem \in Words /\ Room(F) /\ NULL \notin F /\ Merged(mem, F)
      /\ brk \in Nat /\ brk <= HEAP + 1 /\ F \subseteq Nat
  BY GoodFacts
<1>2. PICK q : Linked(mem, head, F, q)
  BY DEF Good
<1>3. /\ a \in Nat /\ a \notin F /\ G \subseteq Nat
      /\ Tiles(live \ {c}, lost, Chunks(mem, G), brk)
      /\ \A x \in G : mem[x] \in Nat /\ 3 <= mem[x]
  BY FreedFacts
<1>4. InList = F
  BY <1>1, <1>2, WalkFacts
<1>5. PICK l \in F, r \in F : /\ l + mem[l] = a /\ r = a + n
                              /\ M = Unlinked(Grown(Grown(mem, l, n), l, mem[r]), r) /\ head' = l
  BY <1>4 DEF FreeBetween, Left, Right
<1> DEFINE g1 == Grown(mem, l, n)
           k == mem[r]
           g2 == Grown(g1, l, k)
<1>6. /\ G = F \union {a} /\ G = F \union {c.at} /\ a \in G /\ l \in G /\ r \in G /\ G \ {a} = F /\ l # a
      /\ n = mem[a] /\ k = mem[r]
  BY <1>3
<1>7. M = Unlinked(g2, r)
  BY <1>5
<1> HIDE DEF a, G, M, n, k
<1>8. n \in Nat /\ n >= 3 /\ n \in Int /\ k \in Nat /\ k \in Int /\ mem[l] \in Nat /\ l \in Nat /\ r \in Nat
  BY <1>1, <1>3, <1>6
<1>9. r # l
  BY <1>3, <1>5, <1>8
<1>10. GrewTo(mem, g1, F, l, n)
  BY <1>1, <1>2, <1>8, Grows
<1> HIDE DEF g1
<1>11. /\ g1 \in Words /\ g1[l] = mem[l] + n /\ Touches(mem, g1, F)
       /\ \A z \in F \ {l} : g1[z] = mem[z]
       /\ \E s : Linked(g1, l, F, s)
  BY <1>10 DEF GrewTo
<1>12. PICK s : Linked(g1, l, F, s)
  BY <1>11
<1>13. GrewTo(g1, g2, F, l, k)
  BY <1>1, <1>8, <1>11, <1>12, GrowsFirst
<1> HIDE DEF g2
<1>14. /\ g2 \in Words /\ g2[l] = g1[l] + k /\ Touches(g1, g2, F)
       /\ \A z \in F \ {l} : g2[z] = g1[z]
       /\ \E u : Linked(g2, l, F, u)
  BY <1>13 DEF GrewTo
<1>15. PICK u : Linked(g2, l, F, u)
  BY <1>14
<1>16. M \in Words /\ Spliced(g2, M, F, r) /\ LinksOf(g2, M, F)
  BY <1>1, <1>7, <1>9, <1>14, <1>15, UnlinkFacts
<1>17. \E v : Linked(M, l, F \ {r}, v)
  BY <1>1, <1>9, <1>15, <1>16, Unlinks
<1>18. \A z \in F : M[z] = g2[z]
  BY <1>1, <1>16, LinksOnly
<1>19. Touches(mem, M, F \union {c.at})
  <2>1. Touches(mem, g2, F \union F)
    BY <1>11, <1>14, TouchesMore
  <2>2. Touches(mem, M, (F \union F) \union F)
    BY <1>16, <2>1, TouchesMore
  <2> QED BY <2>2 DEF Touches
<1>20. M[l] = (mem[l] + n) + k /\ \A z \in F \ {l} : M[z] = mem[z]
  BY <1>11, <1>14, <1>18
<1>21. Tiles(live \ {c}, lost, Chunks(g1, F), brk)
  <2>1. /\ a = l + mem[l] /\ g1[l] = mem[l] + mem[a]
        /\ \A z \in G \ {l, a} : g1[z] = mem[z]
    BY <1>5, <1>6, <1>11
  <2>2. Tiles(live \ {c}, lost, Chunks(g1, G \ {a}), brk)
    BY <1>1, <1>3, <1>6, <2>1, Joined
  <2> QED BY <1>6, <2>2
<1>22. Tiles(live \ {c}, lost, Chunks(M, F \ {r}), brk)
  <2>1. g1[r] = k /\ r = l + g1[l] /\ M[l] = g1[l] + g1[r]
    BY <1>5, <1>6, <1>8, <1>9, <1>11, <1>20
  <2>2. \A z \in F \ {l, r} : M[z] = g1[z]
    BY <1>11, <1>20
  <2> QED BY <1>1, <1>9, <1>21, <2>1, <2>2, Joined
<1>23. Merged(M, F \ {r})
  <2>1. ASSUME NEW x \in F \ {r}, NEW y \in F \ {r} PROVE y # x + M[x]
    <3>1. /\ mem[x] \in Nat /\ x \in Nat /\ y \in Nat
          /\ y # x + mem[x] /\ y # r + mem[r]
      BY <1>1, <1>3, <1>6 DEF Merged
    <3>2. CASE x = l
      BY <1>5, <1>6, <1>8, <1>20, <3>1, <3>2
    <3>3. CASE x # l
      BY <1>20, <3>1, <3>3
    <3> QED BY <3>2, <3>3
  <2> QED BY <2>1 DEF Merged
<1>24. F \ {r} \subseteq Nat
  BY <1>1
<1> QED BY <1>5, <1>16, <1>17, <1>19, <1>22, <1>23, <1>24, FreedKeeps DEF M

\* The block a takes the place of the first chunk t.
TakesPlace(m, a, t) ==
  LET grown == [m EXCEPT ![a] = @ + m[t]]
      next == Next(m, t)
      replaced == Chunk(grown, a, grown[a], next, HeadAt)
  IN  IF next = NULL THEN replaced ELSE [replaced EXCEPT ![next + 2] = a]

TookPlace(m, m2, F, a, t) ==
  /\ m2 \in Words /\ m2[a] = m[a] + m[t]
  /\ \A z \in F \ {t} : m2[z] = m[z]
  /\ \E s : Linked(m2, a, (F \ {t}) \union {a}, s)
  /\ Touches(m, m2, F \union {a})

LEMMA TakesPlaceOfFirst ==
  ASSUME HEAP \in Nat, NEW m \in Words, NEW F, NEW a, a \notin F, Room(F \union {a}), NEW t \in F,
         NEW r, Linked(m, t, F, r),
         NEW m2, m2 = TakesPlace(m, a, t)
  PROVE  TookPlace(m, m2, F, a, t)
<1> DEFINE G == F \union {a}
           n == m[t]
           g == Enlarged(m, a, n)
           nx == Next(m, t)
           e == Chunk(g, a, g[a], nx, HeadAt)
<1>1. m2 = IF nx = NULL THEN e ELSE [e EXCEPT ![nx + 2] = a]
  BY DEF TakesPlace, Enlarged
<1> HIDE DEF g, e
<1>2. /\ \A z \in G : z \in Nat /\ z \in 1..HEAP /\ z + 1 \in 1..HEAP /\ z + 2 \in 1..HEAP
      /\ \A y, z \in G : y = z \/ y + 3 <= z \/ z + 3 <= y
      /\ NULL \notin F /\ HeadAt \notin F /\ a # NULL /\ F \subseteq Nat
  BY DEF Room, NULL, HeadAt
<1>3. a \in G /\ t \in G /\ t # a /\ \A z \in F : z \in G /\ z # a
  OBVIOUS
<1>4. InHeap(a, 3) /\ a \in Nat
  <2>1. a \in Nat /\ a \in 1..HEAP /\ a + 2 \in 1..HEAP
    BY <1>2, <1>3
  <2> QED BY <2>1 DEF InHeap
<1>5. nx = NULL \/ (nx \in F /\ nx # t)
  BY <1>2, LinkFacts
<1>6. nx \in Int /\ HeadAt \in Int
  <2>1. nx \in Nat \/ nx = NULL
    BY <1>2, <1>5
  <2> HIDE DEF nx
  <2> QED BY <2>1 DEF NULL, HeadAt
<1>7. n \in Int /\ n = m[t]
  BY <1>2, <1>3 DEF Words
<1> DEFINE G0 == G
<1>8. Room(G0) /\ a \in G0
  OBVIOUS
<1> HIDE DEF nx, n, G0, G
<1>9. /\ g \in Words /\ g[a] = m[a] + n
      /\ \A z \in G0 \ {a} : g[z] = m[z]
      /\ \A z \in G0 : Next(g, z) = Next(m, z) /\ Prev(g, z) = Prev(m, z)
      /\ Touches(m, g, G0)
  BY <1>7, <1>8, AddSize DEF IsEnlarged, g
<1>10. g[a] \in Int
  BY <1>2, <1>3, <1>9 DEF Words
<1>11. e \in Words /\ e[a] = g[a] /\ Next(e, a) = nx /\ Prev(e, a) = HeadAt /\ Within(g, e, a, 3)
  BY <1>4, <1>6, <1>9, <1>10, ChunkFacts DEF e
<1>12. nx # NULL => nx + 2 \in 1..HEAP /\ nx \in Nat /\ nx \in G
  BY <1>2, <1>3, <1>5
<1>13. m2 \in Words /\ \A w \in 1..HEAP : m2[w] = IF nx # NULL /\ w = nx + 2 THEN a ELSE e[w]
  <2>1. CASE nx = NULL
    BY <1>1, <1>11, <2>1
  <2>2. CASE nx # NULL
    <3>1. m2 = [e EXCEPT ![nx + 2] = a] /\ e \in Words /\ nx + 2 \in 1..HEAP /\ a \in Int
      BY <1>1, <1>4, <1>11, <1>12, <2>2
    <3> QED BY <2>2, <3>1 DEF Words
  <2> QED BY <2>1, <2>2
<1>14. nx # NULL => a + 3 <= nx \/ nx + 3 <= a
  BY <1>2, <1>3, <1>5, <1>12
<1>15. m2[a] = m[a] + m[t] /\ Next(m2, a) = nx /\ Prev(m2, a) = HeadAt
  <2>1. /\ a \in 1..HEAP /\ a + 1 \in 1..HEAP /\ a + 2 \in 1..HEAP
        /\ nx # NULL => a # nx + 2 /\ a + 1 # nx + 2 /\ a + 2 # nx + 2
    BY <1>2, <1>3, <1>4, <1>12, <1>14
  <2>2. m2[a] = e[a] /\ m2[a + 1] = e[a + 1] /\ m2[a + 2] = e[a + 2]
    BY <1>13, <2>1
  <2> QED BY <1>7, <1>9, <1>11, <2>2 DEF Next, Prev
<1>16. ASSUME NEW z \in F
       PROVE  /\ m2[z] = m[z] /\ Next(m2, z) = Next(m, z)
              /\ Prev(m2, z) = IF z = nx THEN a ELSE Prev(m, z)
  <2>1. /\ z \in Nat /\ z \in 1..HEAP /\ z + 1 \in 1..HEAP /\ z + 2 \in 1..HEAP /\ z # NULL /\ z \in G0 \ {a}
        /\ (a + 3 <= z \/ z + 3 <= a)
    BY <1>2, <1>3 DEF G0, G
  <2>2. e[z] = g[z] /\ e[z + 1] = g[z + 1] /\ e[z + 2] = g[z + 2]
    <3>1. /\ (z < a \/ a + 3 <= z)
          /\ (z + 1 < a \/ a + 3 <= z + 1)
          /\ (z + 2 < a \/ a + 3 <= z + 2)
      BY <1>4, <2>1
    <3> QED BY <1>11, <2>1, <3>1 DEF Within
  <2>3. nx # NULL => z # nx + 2 /\ z + 1 # nx + 2 /\ (z + 2 = nx + 2 => z = nx)
    <3>1. nx # NULL => (z = nx \/ z + 3 <= nx \/ nx + 3 <= z)
      BY <1>2, <1>3, <1>12
    <3> QED BY <1>12, <2>1, <3>1
  <2>4. m2[z] = e[z] /\ m2[z + 1] = e[z + 1]
    BY <1>13, <2>1, <2>3
  <2>5. m2[z + 2] = IF z = nx THEN a ELSE e[z + 2]
    <3>1. m2[z + 2] = IF nx # NULL /\ z + 2 = nx + 2 THEN a ELSE e[z + 2]
      BY <1>13, <2>1
    <3>2. (nx # NULL /\ z + 2 = nx + 2) <=> z = nx
      BY <2>1, <2>3
    <3> QED BY <3>1, <3>2
  <2>6. g[z] = m[z] /\ Next(g, z) = Next(m, z) /\ Prev(g, z) = Prev(m, z)
    BY <1>9, <2>1
  <2> QED BY <2>2, <2>4, <2>5, <2>6 DEF Next, Prev
<1>17. Replaced(m, m2, F, t, a)
  BY <1>15, <1>16 DEF Replaced, nx
<1>18. \E s : Linked(m2, a, (F \ {t}) \union {a}, s)
  BY <1>2, <1>17, Replaces
<1>19. Touches(m, m2, F \union {a})
  <2>1. ASSUME NEW w \in 1..HEAP, \A x \in F \union {a} : w # x /\ w # x + 1 /\ w # x + 2
        PROVE  m2[w] = m[w]
    <3>1. g[w] = m[w]
      <4>1. \A x \in G0 : w # x /\ w # x + 1 /\ w # x + 2
        BY <2>1 DEF G0, G
      <4> QED BY <1>9, <4>1 DEF Touches
    <3>2. w # a /\ w # a + 1 /\ w # a + 2
      BY <2>1
    <3>3. e[w] = g[w]
      BY <1>4, <1>11, <3>2 DEF Within
    <3>4. nx # NULL => w # nx + 2
      BY <1>5, <2>1
    <3> QED BY <1>13, <3>1, <3>3, <3>4
  <2> QED BY <2>1 DEF Touches
<1> QED BY <1>13, <1>15, <1>16, <1>18, <1>19 DEF TookPlace

LEMMA FreeBeforeRightKeeps ==
  ASSUME HEAP \in Nat, NEW F, Good(mem, head, live, lost, brk, F), NEW c \in live,
         FreeBeforeRight(c.at), live' = live \ {c}, UNCHANGED <<brk, lost>>
  PROVE  StepGood /\ StepKeeps
<1> DEFINE a == c.at
           G == F \union {a}
           M == mem'
           n == mem[a]
<1>1. /\ mem \in Words /\ Room(F) /\ NULL \notin F /\ HeadAt \notin F /\ Merged(mem, F)
      /\ brk \in Nat /\ brk <= HEAP + 1 /\ F \subseteq Nat
  BY GoodFacts
<1>2. PICK r : Linked(mem, head, F, r)
  BY DEF Good
<1>3. /\ a \in Nat /\ a \notin F /\ G \subseteq Nat /\ Room(G)
      /\ Tiles(live \ {c}, lost, Chunks(mem, G), brk)
      /\ \A x \in G : mem[x] \in Nat /\ 3 <= mem[x] /\ 1 <= x
  BY FreedFacts
<1>4. InList = F
  BY <1>1, <1>2, WalkFacts
<1>5. \A t \in F : t + mem[t] # a
  BY <1>4 DEF FreeBeforeRight, Left
<1>6. PICK t \in F : /\ t = a + n
                     /\ Prev(mem, t) # HeadAt => M = ToFront(Unlinked(Enlarged(mem, a, mem[t]), t), a)
                     /\ Prev(mem, t) = HeadAt => M = TakesPlace(mem, a, t)
  <2>1. PICK t \in F : /\ t = a + n
                       /\ M = LET grown == [mem EXCEPT ![a] = @ + mem[t]]
                                  next == Next(mem, t)
                                  replaced == Chunk(grown, a, grown[a], next, HeadAt)
                              IN  IF Prev(mem, t) # HeadAt THEN ToFront(Unlinked(grown, t), a)
                                  ELSE IF next = NULL THEN replaced
                                  ELSE [replaced EXCEPT ![next + 2] = a]
    BY <1>4 DEF FreeBeforeRight, Right
  <2>2. Prev(mem, t) # HeadAt => M = ToFront(Unlinked(Enlarged(mem, a, mem[t]), t), a)
    BY <2>1 DEF Enlarged
  <2>3. Prev(mem, t) = HeadAt => M = TakesPlace(mem, a, t)
    BY <2>1 DEF TakesPlace
  <2> QED BY <2>1, <2>2, <2>3
<1>7. head' = a
  BY DEF FreeBeforeRight
<1> DEFINE H == (F \ {t}) \union {a}
<1>8. /\ G = F \union {a} /\ G = F \union {c.at} /\ a \in G /\ t \in G /\ G \ {t} = H /\ t # a /\ n = mem[a]
      /\ H \subseteq G /\ H = (F \ {t}) \union {a}
  BY <1>3
<1> HIDE DEF a, G, M, n, H
<1>9. n \in Nat /\ n >= 3 /\ mem[t] \in Nat /\ mem[t] \in Int /\ t \in Nat /\ a # NULL
  BY <1>3, <1>8 DEF NULL
<1>10. TookPlace(mem, M, F, a, t)
  <2>1. CASE Prev(mem, t) = HeadAt
    <3>1. t = head
      BY <1>1, <1>2, <2>1 DEF Linked
    <3>2. Room(F \union {a}) /\ Linked(mem, t, F, r) /\ M = TakesPlace(mem, a, t)
      BY <1>2, <1>3, <1>6, <1>8, <2>1, <3>1
    <3> QED BY <1>1, <1>3, <3>2, TakesPlaceOfFirst
  <2>2. CASE Prev(mem, t) # HeadAt
    <3> DEFINE k == mem[t]
               g == Enlarged(mem, a, k)
               u == Unlinked(g, t)
               R == F \ {t}
    <3>1. t # head /\ head \in F
      BY <1>2, <2>2 DEF Linked
    <3>2. M = ToFront(u, a)
      BY <1>6, <2>2
    <3>3. IsEnlarged(mem, g, G, a, k)
      BY <1>1, <1>3, <1>8, <1>9, AddSize
    <3> HIDE DEF g
    <3>4. /\ g \in Words /\ g[a] = mem[a] + mem[t] /\ Touches(mem, g, G)
          /\ \A z \in F : g[z] = mem[z] /\ Next(g, z) = Next(mem, z) /\ Prev(g, z) = Prev(mem, z)
      <4>1. \A z \in F : z \in G \ {a}
        BY <1>3, <1>8
      <4> QED BY <3>3, <4>1 DEF IsEnlarged
    <3>5. Linked(g, head, F, r)
      BY <1>2, <3>4, LinkedFrame
    <3>6. u \in Words /\ Spliced(g, u, F, t) /\ LinksOf(g, u, F)
      BY <1>1, <3>1, <3>4, <3>5, UnlinkFacts
    <3> HIDE DEF u
    <3>7. PICK s : Linked(u, head, F \ {t}, s)
      BY <1>1, <3>1, <3>5, <3>6, Unlinks
    <3>8. /\ Linked(u, head, R, s) /\ a \notin R /\ head \in R /\ head # NULL /\ NULL \notin R
          /\ R \union {a} = H
      BY <1>1, <1>3, <1>8, <3>1, <3>7
    <3> HIDE DEF R
    <3>9. Room(R \union {a})
      <4>1. Room(H)
        BY <1>3, <1>8 DEF Room
      <4> QED BY <3>8, <4>1
    <3>10. M \in Words /\ Fronted(u, M, R, head, a) /\ LinksOf(u, M, R \union {a})
      BY <3>2, <3>6, <3>8, <3>9, FrontFacts
    <3>11. \E q : Linked(M, a, R \union {a}, q)
      BY <1>9, <3>8, <3>10, Fronts
    <3>12. LinksOf(g, u, G) /\ LinksOf(u, M, G)
      BY <1>8, <3>6, <3>8, <3>10 DEF LinksOf
    <3>13. \A z \in G : u[z] = g[z] /\ M[z] = u[z]
      BY <1>3, <3>12, LinksOnly
    <3>14. Touches(mem, u, G \union G)
      BY <3>4, <3>12, TouchesMore
    <3>15. Touches(mem, M, (G \union G) \union G)
      BY <3>12, <3>14, TouchesMore
    <3>16. (G \union G) \union G = F \union {a}
      BY <1>8
    <3>17. M[a] = mem[a] + mem[t] /\ \A z \in F \ {t} : M[z] = mem[z]
      BY <1>8, <3>4, <3>13
    <3> QED BY <1>8, <3>8, <3>10, <3>11, <3>15, <3>16, <3>17 DEF TookPlace
  <2> QED BY <2>1, <2>2
<1>11. /\ M \in Words /\ M[a] = mem[a] + mem[t]
       /\ \A z \in F \ {t} : M[z] = mem[z]
       /\ \E s : Linked(M, a, H, s)
       /\ Touches(mem, M, F \union {a})
  BY <1>8, <1>10 DEF TookPlace
<1>12. Tiles(live \ {c}, lost, Chunks(M, G \ {t}), brk)
  <2>1. /\ t = a + mem[a] /\ M[a] = mem[a] + mem[t]
        /\ \A z \in G \ {a, t} : M[z] = mem[z]
    BY <1>6, <1>8, <1>11
  <2> QED BY <1>1, <1>3, <1>8, <2>1, Joined
<1>13. Merged(M, H)
  <2>1. ASSUME NEW x \in H, NEW y \in H PROVE y # x + M[x]
    <3>1. /\ mem[x] \in Nat /\ x \in Nat /\ y \in Nat /\ a \in Nat /\ mem[t] \in Nat /\ t \in Nat /\ n \in Nat
          /\ x = a \/ (x \in F /\ x # t)
          /\ y = a \/ y \in F
      BY <1>3, <1>8, <1>9
    <3>2. CASE x = a
      <4>1. M[x] = n + mem[t] /\ x + M[x] = t + mem[t]
        BY <1>6, <1>8, <1>9, <1>11, <3>1, <3>2
      <4>2. y \in F => y # t + mem[t]
        BY <1>1 DEF Merged
      <4>3. a # t + mem[t]
        BY <1>5
      <4> QED BY <3>1, <4>1, <4>2, <4>3
    <3>3. CASE x \in F /\ x # t
      <4>1. M[x] = mem[x] /\ a # x + mem[x]
        BY <1>5, <1>11, <3>3
      <4>2. y \in F => y # x + mem[x]
        BY <1>1, <3>3 DEF Merged
      <4> QED BY <3>1, <4>1, <4>2
    <3> QED BY <3>1, <3>2, <3>3
  <2> QED BY <2>1 DEF Merged
<1>14. /\ Tiles(live \ {c}, lost, Chunks(M, H), brk) /\ H \subseteq Nat
       /\ Touches(mem, M, F \union {c.at}) /\ \E s : Linked(M, head', H, s)
       /\ M = mem'
  BY <1>3, <1>7, <1>8, <1>11, <1>12 DEF M, a
<1> QED BY <1>11, <1>13, <1>14, FreedKeeps

-----------------------------------------------------------------------------
(* Theorems                                                                *)

LEMMA InitSound ==
  ASSUME Init
  PROVE  Sound
<1>1. HEAP \in Nat
  BY MallocAssumption
<1>2. mem \in Words /\ brk = 1 /\ head = NULL /\ live = {} /\ lost = {}
  BY DEF Init, Words
<1>3. Chunks(mem, {}) = {}
  BY DEF Chunks
<1>4. Tiles({}, {}, {}, 1)
  BY DEF Tiles, Tiling
<1>5. \E r : Linked(mem, NULL, {}, r)
  BY Empty
<1>6. Good(mem, head, live, lost, brk, {})
  BY <1>1, <1>2, <1>3, <1>4, <1>5 DEF Good, Merged
<1> QED BY <1>6 DEF Sound

LEMMA MemallocSound ==
  ASSUME NEW F, Good(mem, head, live, lost, brk, F), NEW size \in Sizes, memalloc(size)
  PROVE  StepGood /\ StepKeeps
<1> DEFINE total == Total(size)
           a == FirstFit(total)
<1>1. HEAP \in Nat /\ CHUNK \in Nat /\ CHUNK > 3 /\ size \in Nat /\ size # 0
  BY MallocAssumption
<1>2. total \in Nat /\ total >= 3
  BY <1>1, TotalFacts
<1>3. FromList(total) \/ FurtherChunk(total) \/ FirstChunk(total)
  BY DEF memalloc
<1> HIDE DEF total
<1>4. CASE FurtherChunk(total)
  BY <1>1, <1>2, <1>4, FurtherChunkKeeps
<1>5. CASE FirstChunk(total)
  BY <1>1, <1>2, <1>5, FirstChunkKeeps
<1>6. CASE FromList(total)
  <2>1. /\ a # NULL /\ UNCHANGED brk
        /\ \/ SplitOnly(a, total) \/ SplitOther(a, total) \/ SplitFirst(a, total)
           \/ WholeOnly(a, total) \/ WholeOther(a, total) \/ WholeFirst(a, total)
    BY <1>6 DEF FromList
  <2>2. a \in F /\ mem[a] >= total
    <3>1. Room(F)
      BY <1>1, GoodFacts
    <3>2. PICK r : Linked(mem, head, F, r)
      BY DEF Good
    <3> QED BY <1>1, <2>1, <3>1, <3>2, FitFacts
  <2> HIDE DEF a
  <2>3. CASE SplitOnly(a, total)
    BY <1>1, <1>2, <2>1, <2>2, <2>3, SplitOnlyKeeps
  <2>4. CASE SplitOther(a, total)
    BY <1>1, <1>2, <2>1, <2>2, <2>4, SplitOtherKeeps
  <2>5. CASE WholeOnly(a, total)
    BY <1>1, <1>2, <2>1, <2>2, <2>5, WholeOnlyKeeps
  <2>6. CASE WholeOther(a, total)
    BY <1>1, <1>2, <2>1, <2>2, <2>6, WholeOtherKeeps
  <2>7. CASE SplitFirst(a, total) \/ WholeFirst(a, total)
    <3>1. UNCHANGED <<mem, head, live, lost, brk>>
      BY <2>1, <2>7 DEF SplitFirst, WholeFirst
    <3> QED BY <3>1 DEF StepGood, StepKeeps
  <2> QED BY <2>1, <2>3, <2>4, <2>5, <2>6, <2>7
<1> QED BY <1>3, <1>4, <1>5, <1>6

LEMMA MemfreeSound ==
  ASSUME NEW F, Good(mem, head, live, lost, brk, F), NEW block \in live, memfree(block)
  PROVE  StepGood /\ StepKeeps
<1>1. HEAP \in Nat
  BY MallocAssumption
<1>2. /\ live' = live \ {block} /\ UNCHANGED <<brk, lost>>
      /\ \/ FreeAlone(block.at) \/ FreeIntoLeft(block.at)
         \/ FreeBeforeRight(block.at) \/ FreeBetween(block.at)
  BY DEF memfree
<1>3. CASE FreeAlone(block.at)
  BY <1>1, <1>2, <1>3, FreeAloneKeeps
<1>4. CASE FreeIntoLeft(block.at)
  BY <1>1, <1>2, <1>4, FreeIntoLeftKeeps
<1>5. CASE FreeBeforeRight(block.at)
  BY <1>1, <1>2, <1>5, FreeBeforeRightKeeps
<1>6. CASE FreeBetween(block.at)
  BY <1>1, <1>2, <1>6, FreeBetweenKeeps
<1> QED BY <1>2, <1>3, <1>4, <1>5, <1>6

LEMMA StepSound ==
  ASSUME Sound, [Step]_vars
  PROVE  Sound' /\ StepKeeps
<1>1. PICK F : Good(mem, head, live, lost, brk, F)
  BY DEF Sound
<1>2. CASE Step
  <2>1. CASE \E size \in Sizes : memalloc(size)
    BY <1>1, <2>1, MemallocSound DEF StepGood, Sound
  <2>2. CASE \E block \in live : memfree(block)
    BY <1>1, <2>2, MemfreeSound DEF StepGood, Sound
  <2> QED BY <1>2, <2>1, <2>2 DEF Step
<1>3. CASE UNCHANGED vars
  <2>1. UNCHANGED <<mem, head, live, lost, brk>>
    BY <1>3 DEF vars
  <2> QED BY <1>1, <2>1 DEF Sound, StepKeeps
<1> QED BY <1>2, <1>3

\* At every step the words of the heap up to brk belong to blocks, to lost
\* rests and to free chunks that form one list, linked both ways.
THEOREM Invariance == Spec => []Sound
<1>1. Init => Sound
  BY InitSound
<1>2. Sound /\ [Step]_vars => Sound'
  BY StepSound
<1> QED BY <1>1, <1>2, PTL DEF Spec

LEMMA SoundParts ==
  ASSUME Sound
  PROVE  Partition /\ ListSound /\ Coalesced
<1>1. PICK F : Good(mem, head, live, lost, brk, F)
  BY DEF Sound
<1>2. HEAP \in Nat
  BY MallocAssumption
<1>3. /\ Room(F) /\ NULL \notin F /\ Merged(mem, F) /\ brk \in Nat /\ 1 <= brk
      /\ Tiles(live, lost, Chunks(mem, F), brk)
      /\ \A b \in live : mem[b.at] = b.size
  BY <1>1, <1>2, GoodFacts
<1>4. PICK r : Linked(mem, head, F, r)
  BY <1>1 DEF Good
<1>5. At[MaxFree] = NULL /\ InList = F
  BY <1>2, <1>3, <1>4, WalkFacts
<1>6. Coalesced
  BY <1>3, <1>5 DEF Coalesced, Merged
<1>7. ListSound
  BY <1>3, <1>4, <1>5 DEF ListSound, Linked
<1>8. Partition
  <2> DEFINE pieces == live \union lost \union Listed
  <2>1. Listed = Chunks(mem, F)
    BY <1>5 DEF Listed, Chunks
  <2>2. Tiling(pieces, brk)
    BY <1>3, <2>1 DEF Tiles
  <2> HIDE DEF pieces
  <2>3. \A p \in pieces : p.at \in Nat /\ p.size \in Nat /\ 1 <= p.at /\ p.at + p.size <= brk
    BY <2>2 DEF Tiling, Pieces
  <2>4. UNION {WordsOf(p) : p \in pieces} = 1..(brk - 1)
    <3>1. ASSUME NEW w \in 1..(brk - 1) PROVE \E p \in pieces : w \in WordsOf(p)
      <4>1. PICK p \in pieces : p.at <= w /\ w < p.at + p.size
        BY <2>2 DEF Tiling
      <4>2. w \in p.at..(p.at + p.size - 1)
        BY <2>3, <4>1
      <4> QED BY <4>2 DEF WordsOf
    <3>2. ASSUME NEW p \in pieces, NEW w \in WordsOf(p) PROVE w \in 1..(brk - 1)
      <4>1. w \in p.at..(p.at + p.size - 1)
        BY DEF WordsOf
      <4> QED BY <1>3, <2>3, <4>1
    <3> QED BY <3>1, <3>2
  <2>5. ASSUME NEW p \in pieces, NEW q \in pieces, p # q PROVE WordsOf(p) \intersect WordsOf(q) = {}
    <3>1. p.at + p.size <= q.at \/ q.at + q.size <= p.at
      BY <2>2, <2>5 DEF Tiling, Before
    <3> QED BY <2>3, <3>1 DEF WordsOf
  <2> QED BY <1>3, <2>4, <2>5 DEF Partition, pieces
<1> QED BY <1>6, <1>7, <1>8

\* The blocks, the free chunks and the lost rests are disjoint and are all of
\* the heap, and the size of a block is kept in front of it: whatever is asked
\* for and given back, on a heap of any size.
THEOREM HeapIsPartitioned == Spec => []Partition
<1>1. Sound => Partition
  BY SoundParts
<1> QED BY <1>1, Invariance, PTL

\* The free list ends, is the same both ways, and starts at head.
THEOREM FreeListIsSound == Spec => []ListSound
<1>1. Sound => ListSound
  BY SoundParts
<1> QED BY <1>1, Invariance, PTL

\* memfree leaves no two free neighbours.
THEOREM FreeChunksAreMerged == Spec => []Coalesced
<1>1. Sound => Coalesced
  BY SoundParts
<1> QED BY <1>1, Invariance, PTL

\* What the program keeps in a block is not touched until it frees it.
THEOREM BlocksAreKept == Spec => BlocksKept
<1>1. Sound /\ [Step]_vars =>
        [\A b \in live \intersect live' : \A a \in WordsOf(b) : mem'[a] = mem[a]]_vars
  BY StepSound DEF StepKeeps
<1> QED BY <1>1, Invariance, PTL DEF Spec, BlocksKept
=============================================================================
